SPECIFICATION Spec
CONSTANTS
    Clients = {c1, c2}
    Steady = {c1}
    Body <- MCBody
    MaxRead = 2
    Statuses = {200, 404}
INVARIANTS
    TypeOK
    NoLostWakeup
    InOrder
    EndedIsWhole
    HonestHeader
    PersistedIsComplete
PROPERTIES
    SealedForGood
    FetchEnds
    SteadyClientsFinish
    ImplementsSharedBody
