SPECIFICATION Spec
CONSTANTS
    OutSize = 4
    MailboxCount = 3
    MaxFrames = 4
    MaxNoise = 0
    SharedIrq = TRUE
    ErrorLevels = {"active"}
    MayReject = FALSE
PROPERTIES
    RefillKeepsAck
