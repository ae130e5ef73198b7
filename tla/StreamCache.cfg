SPECIFICATION Spec
CONSTANTS
    Ids = {a}
    Resolutions = {lo, hi}
    Requests = {q1, q2}
    TTL = 1
    Cooldown = 1
    MaxClock = 2
    MaxChanges = 1
SYMMETRY MCSymmetry
INVARIANTS
    TypeOK
    NoTornSet
    OrphansExplained
    MissingExplained
    FoundWithinTTL
CHECK_DEADLOCK FALSE
