SPECIFICATION Spec
CONSTANTS
    Requests <- MCRequests
    Frames <- MCFrames
    Garbage <- MCGarbage
INVARIANTS
    ReceivedInTable
CHECK_DEADLOCK FALSE
