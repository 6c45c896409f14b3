CONSTANTS
    c1 = c1
    c2 = c2
    c3 = c3
    Clients <- ThreeClients
    Nobody = Nobody
    MaxIce = 1
    WebRtcFails = FALSE
SPECIFICATION Spec
PROPERTIES
    RefusedOnlyWhilePaired
CHECK_DEADLOCK FALSE
