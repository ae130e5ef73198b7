SPECIFICATION Spec
CONSTANTS
    Keys = {"playlist", "seg1", "seg2"}
    TTL <- MCTTL
    FetchLimit = 1
    MaxBytes = 1
    MaxSize = 2
    MaxFetches = 3
    MaxClock = 1
INVARIANTS
    TypeOK
    DuplicatesExplained
    NewEntryIsShared
    Overshoot
