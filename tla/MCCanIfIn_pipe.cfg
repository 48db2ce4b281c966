SPECIFICATION FairSpec
CONSTANTS
    InSize = 5
    PacketSize = 2
    Message <- Messages
INVARIANTS
    TypeOK
    NothingWaits
    OverwriteBound
PROPERTIES
    ImplementsPipe
    TailMoves
