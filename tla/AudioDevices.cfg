CONSTANTS
    Ids <- DeviceIds
    MaxDevices = 2
    SizeRange = 16
    MayLose = TRUE
    MayRefuse = TRUE
    WaitMayBlock = TRUE
SPECIFICATION FairSpec
INVARIANTS
    ChosenExists
    ReadsWhole
    AudioInv
PROPERTY Finishes
CHECK_DEADLOCK FALSE
