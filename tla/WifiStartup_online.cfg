SPECIFICATION FairSpec
CONSTANTS
    Conn = {"c1", "c2"}
    Ssid = {"a", "b"}
    Password = {"p", "q"}
    Forms <- Typed
    Air = {"a", "b"}
    Secret <- Secrets
    Flaky = 3
    MaxTurns = 2
INVARIANTS
    
    EarlyExitHasForm
    
    ConfigChangedEarned
PROPERTIES
    EventuallyConnects
