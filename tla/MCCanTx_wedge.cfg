SPECIFICATION FairSpec
CONSTANTS
    OutSize = 4
    MailboxCount = 3
    MaxFrames = 1
    MaxNoise = 1
    SharedIrq = TRUE
    ErrorLevels = {"active", "passive"}
    MayReject = FALSE
PROPERTIES
    FlowResumes
