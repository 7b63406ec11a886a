SPECIFICATION Spec
CONSTANTS
    NONE = NONE
    ContentOf <- MCContentOf
    Hosts = {h1, h2}
    Starts <- MCStarts
    Names <- MCNames
    Requests <- MCRequests
    Additions <- MCAdditions
    Pointers <- MCPointers
    MaxEdits = 2
SYMMETRY Symmetry
INVARIANTS
    VerifiedIsSealed
    OneSetPerProfile
    CurrentIsExact
PROPERTIES
    ExactIsStable
    AssembledStaysValid
CHECK_DEADLOCK FALSE
