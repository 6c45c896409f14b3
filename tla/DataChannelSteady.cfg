CONSTANTS
    SpuriousWakeups = FALSE
    EarlyNotify = FALSE
    EarlyAnnounce = FALSE
    MayLosePeer = FALSE
    MaxUnderWay = 0
    MaxCount = 3
SPECIFICATION FairSpec
INVARIANTS
    InStep
    SentCountsSent
PROPERTIES
    KeepsAnswering
    StopsWhenClosed
CHECK_DEADLOCK FALSE
