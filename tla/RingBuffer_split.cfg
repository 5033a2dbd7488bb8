SPECIFICATION Spec
CONSTANTS
    N = 3
    S = 12
    P = 4
    H = 2
    B = 8
    IndexMask = 7
    MaxIndex = 4
    Ctx <- OneCtx
    Irq <- NoIrq
    Buffer <- OneBuffer
    BufOf <- SharedBuffer
    Ids = {1}
    Byte <- Letters
    Data <- Mixed
    ReadSizes = {8}
    Choices = {"CREATE_INIT_IF_FAIL"}
    StaleIndex = {0}
    EraseIfFull = {TRUE}
    Ops = {"append", "read"}
INVARIANTS
    ReadBack
