SPECIFICATION FairSpec
CONSTANTS
    Device <- Devices
    Buddy <- Devices
    Conn <- Conns
    TextLen = 2
    MAX_JSON_BUF_SIZE = 4
    ChunkLen = 1
    Events = 2
INVARIANTS
    PageWhole
PROPERTIES
    NoRollback
    ExchangeAgrees
    Converges
    
CHECK_DEADLOCK FALSE
