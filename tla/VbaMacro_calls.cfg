\* A macro of three calls, on any of the six kinds of objects.
SPECIFICATION Spec
CONSTANTS
    Calls = 3
    MaxDocs = 3
    MaxSheets = 3
INVARIANTS
    IInv
    ObjectsOK
    SetIsRead
    NothingIsLost
\* A macro ends.
CHECK_DEADLOCK FALSE
