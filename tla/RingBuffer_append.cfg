SPECIFICATION FairSpec
CONSTANTS
    N = 2
    S = 12
    P = 4
    H = 2
    B = 9
    IndexMask = 7
    MaxIndex = 3
    Ctx <- OneCtx
    Irq <- NoIrq
    Buffer <- OneBuffer
    BufOf <- SharedBuffer
    Ids = {1, 2}
    Byte <- Letters
    Data <- WithTooLong
    ReadSizes = {8}
    Choices = {"CREATE_INIT_IF_FAIL"}
    StaleIndex = {0}
    EraseIfFull = {TRUE, FALSE}
    Ops = {"append", "read"}
INVARIANTS
    TypeOK
    OneErasePerAppend
    AppendSucceeds
PROPERTIES
    CallsReturn
