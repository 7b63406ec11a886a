SPECIFICATION Spec
CONSTANTS
    NoRef = NoRef
    Corpora <- MCCorpora
    Uuids <- MCUuids
    TopoIds <- MCTopoIds
INVARIANTS ReferencesAccounted InversesTogether TopologyKept BundleClosed
