SPECIFICATION FairSpec
CONSTANTS
    N = 2
    K = 2
    Name <- Names
    Password = {"p", "q"}
    Longer <- LongerNames
    MainCalls <- SsidCalls
    IrqCalls <- PostCalls
    FilledCalls <- WipeOnly
INVARIANTS
    NewestAliveUntilFull
    
    
PROPERTIES
    CallsReturn
