SPECIFICATION Spec
CONSTANTS
    Canonical <- Uuids
    NONE = NONE
    Requests <- MCRequests
INVARIANTS
    DeclaredOnce
    ReferencesAccounted
    ResolvedWhenDeclared
CHECK_DEADLOCK FALSE
