SPECIFICATION SpecBoth
CONSTANTS
    OutSize = 8
    MailboxCount = 2
    MaxFrames = 3
    MaxNoise = 1
    SharedIrq = TRUE
    ErrorLevels = {"active", "passive"}
    MayReject = TRUE
    InSize = 5
    PacketSize = 2
INVARIANTS
    Invariant
    FreshReports
PROPERTIES
    ImplementsStream
    ImplementsIn
