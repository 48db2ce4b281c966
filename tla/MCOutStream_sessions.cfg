SPECIFICATION Spec
CONSTANTS
    OutSize = 5
    PacketSize = 3
    MinRequest = 2
    Plans <- Mixed
    StreamOf <- MCStreamOf
INVARIANT BuffersEmptied
