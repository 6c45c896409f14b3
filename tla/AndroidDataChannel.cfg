CONSTANT MaxStarts = 2
SPECIFICATION FairSpec
INVARIANTS
    PhoneInv
PROPERTIES
    SignalingOnly
    StopsOnlyWhenTold
    DeinitReturns
CHECK_DEADLOCK FALSE
