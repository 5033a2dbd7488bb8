SPECIFICATION FairSpec
CONSTANTS
    Ssid <- Ssids
    Length <- Lengths
    Rssi <- Strengths
    KnownSets <- Known
    MaxResults = 4
INVARIANTS
    ListIntact
    StrongestKept
    
PROPERTIES
    SortEnds
