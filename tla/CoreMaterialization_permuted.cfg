SPECIFICATION Spec
CONSTANTS
    Canonical <- Uuids
    NONE = NONE
    Requests <- MCRequests
INVARIANTS
    OrderIndependent
CHECK_DEADLOCK FALSE
