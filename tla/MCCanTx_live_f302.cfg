SPECIFICATION FairSpec
CONSTANTS
    OutSize = 4
    MailboxCount = 2
    MaxFrames = 4
    MaxNoise = 1
    SharedIrq = FALSE
    ErrorLevels = {"active", "passive"}
    MayReject = TRUE
PROPERTIES
    FlowOnHealthyBus
    FramesLeaveHealthyBus
