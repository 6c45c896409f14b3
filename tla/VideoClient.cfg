CONSTANTS
    Sizes = {small, large}
    NoSize = NoSize
    MaxFrames <- FewFrames
SPECIFICATION FairSpec
INVARIANTS
    CallbackHasRenderer
    VideoInv
PROPERTIES
    NeverOlder
    TeardownIsSafe
    FrameShown
    Stops
CHECK_DEADLOCK FALSE
