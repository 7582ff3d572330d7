SPECIFICATION Spec
CONSTANTS
    MaxCol = 1
    MaxRow = 1
    Calls = 2
    Start <- Starts
    Filled <- Sheets
INVARIANTS
    IInv
    WrittenIsRead
    CellsInOrder
    FilterIsTidy
PROPERTIES
    BorrowedIsReturned
    NothingIsLost
CHECK_DEADLOCK FALSE
