SPECIFICATION Spec
CONSTANTS
    Players = {p1, p2}
    Viewers = {p1}
    Setups <- MCSetups
    LastDir = 2
INVARIANTS
    TypeOK
    SegmentsExplained
    CountedOnce
PROPERTIES
    Recovers
    Reconciles
