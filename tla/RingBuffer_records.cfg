SPECIFICATION Spec
CONSTANTS
    N = 2
    S = 8
    P = 4
    H = 2
    B = 8
    IndexMask = 7
    MaxIndex = 4
    Ctx <- OneCtx
    Irq <- NoIrq
    Buffer <- OneBuffer
    BufOf <- SharedBuffer
    Ids = {1, 2}
    Byte <- Letters
    Data <- Pairs
    ReadSizes = {1, 8}
    Choices = {"CREATE_INIT_IF_FAIL"}
    StaleIndex = {0}
    EraseIfFull = {TRUE}
    Ops = {"append", "read", "find", "delete"}
INVARIANTS
    ReadBack
    FindExact
    DeleteComplete
PROPERTIES
    DeleteExact
