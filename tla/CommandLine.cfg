CONSTANTS
    MaxAsked = 2
    MaxIce = 2
    MaxLines = 2
SPECIFICATION Spec
INVARIANTS
    ListedOnce
    LostInTheGap
    QuitIsClean
    HeadingTellsType
    ChannelIsCurrent
    CommandLineInv
