SPECIFICATION FairSpec
CONSTANTS
    OutSize = 5
    PacketSize = 3
    MinRequest = 2
    Plans <- Long
    StreamOf <- MCStreamOf
PROPERTY InvalidLengthRefused
