SPECIFICATION Spec
CONSTANTS
    NONE = NONE
    ContentOf <- MCContentOf
    Hosts = {h1}
    Starts <- MCStarts
    Names <- MCNames
    Requests <- MCRequests
    Additions <- MCAdditions
    Pointers <- MCPointers
    MaxEdits = 1
INVARIANT
    CurrentRevisionsMatch
CHECK_DEADLOCK FALSE
