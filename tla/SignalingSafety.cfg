CONSTANTS
    c1 = c1
    c2 = c2
    c3 = c3
    Clients <- ThreeClients
    Nobody = Nobody
    MaxIce = 1
    WebRtcFails = TRUE
SPECIFICATION Spec
SYMMETRY Symmetry
INVARIANTS
    SessionInv
    NothingUnexpected
    CandidatesInOrder
    NoCandidateLost
    AcceptedMeansHandled
    ExchangeNeverLost
PROPERTIES
    PairSpec
CHECK_DEADLOCK FALSE
