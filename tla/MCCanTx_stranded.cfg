SPECIFICATION Spec
CONSTANTS
    OutSize = 4
    MailboxCount = 2
    MaxFrames = 3
    MaxNoise = 2
    SharedIrq = TRUE
    ErrorLevels = {"active", "passive"}
    MayReject = FALSE
INVARIANTS
    NoStranding
