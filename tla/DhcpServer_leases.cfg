SPECIFICATION FairSpec
CONSTANTS
    Client <- Macs
    Patient = {"m1"}
    DHCPS_MAX_IP = 2
    TickMod = 12
    Granule = 2
    LeaseTime = 3
INVARIANTS
    OneHolder
    IgnoredOnlyWhenFull
PROPERTIES
    AllServed
