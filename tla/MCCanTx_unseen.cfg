SPECIFICATION Spec
CONSTANTS
    OutSize = 4
    MailboxCount = 3
    MaxFrames = 2
    MaxNoise = 0
    SharedIrq = TRUE
    ErrorLevels = {"active"}
    MayReject = FALSE
PROPERTIES
    SuccessIsSeen
