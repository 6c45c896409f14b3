SPECIFICATION Spec
INVARIANTS
    SafeUntilDestroyed
    CombinedInv
PROPERTIES
    SignalingOnly
CHECK_DEADLOCK FALSE
