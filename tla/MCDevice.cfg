SPECIFICATION Spec
CONSTANT Crystals = {0, 8}
INVARIANTS
    TypeOK
    FindsItsHandler
    KeepsItsWiring
    ConnectsComplete
PROPERTY FaultOffersUpdate
