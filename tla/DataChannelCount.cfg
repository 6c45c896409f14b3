CONSTANTS
    SpuriousWakeups = TRUE
    EarlyNotify = FALSE
    EarlyAnnounce = FALSE
    MayLosePeer = FALSE
    MaxUnderWay = 2
    MaxCount = 3
SPECIFICATION Spec
INVARIANTS
    SentCountsSent
CHECK_DEADLOCK FALSE
