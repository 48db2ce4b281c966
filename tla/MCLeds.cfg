SPECIFICATION FairSpec
CONSTANTS
    Period = 8
    MaxInits = 3
INVARIANTS
    TypeOK
    OneColour
    LatchIsTrue
PROPERTY Blinks
