SPECIFICATION Spec
CONSTANTS
    Keys = {"seg1", "seg2"}
    Size <- MCSize
    Putters = {p1, p2}
    TTL = 1
    MaxBytes = 2
    MaxClock = 3
SYMMETRY MCSymmetry
INVARIANTS
    TypeOK
    WholeFilesOnly
    NoOrphans
    IndexWithinLimit
    GhostsExplained
PROPERTIES
    NothingRemovedInVain
