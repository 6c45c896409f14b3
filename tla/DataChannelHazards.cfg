CONSTANTS
    SpuriousWakeups = TRUE
    EarlyNotify = TRUE
    EarlyAnnounce = TRUE
    MayLosePeer = TRUE
    MaxUnderWay = 3
    MaxCount = 3
SPECIFICATION Spec
INVARIANTS
    WaitsForSomething
    ChannelInv
CHECK_DEADLOCK FALSE
