CONSTANTS
    c1 = c1
    c2 = c2
    c3 = c3
    Clients <- TwoClients
    Nobody = Nobody
    MaxIce = 1
    WebRtcFails = FALSE
SPECIFICATION FairSpecH
INVARIANTS
    NothingFails
PROPERTIES
    ToldOnce
    ExchangeCompletes
CHECK_DEADLOCK FALSE
