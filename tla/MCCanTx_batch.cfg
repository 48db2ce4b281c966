SPECIFICATION Spec
CONSTANTS
    OutSize = 8
    MailboxCount = 2
    MaxFrames = 5
    MaxNoise = 0
    SharedIrq = TRUE
    ErrorLevels = {"active"}
    MayReject = TRUE
INVARIANTS
    ReceptionHasRoom
PROPERTIES
    ImplementsStream
