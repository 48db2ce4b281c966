SPECIFICATION Spec
CONSTANTS
    Capacity = 4
    Element = {a, b}
    Fill = a
INVARIANTS
    TypeOK
    SpaceAgrees
PROPERTY ImplementsFifo
