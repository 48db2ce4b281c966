SPECIFICATION Spec
CONSTANTS
    InSize = 6
    PacketSize = 2
    Message <- Messages
INVARIANT RoomKeepsTransfer
