SPECIFICATION Spec
CONSTANTS
    Resolutions = {lo, hi}
    NoResolution = none
    Bandwidths = {1, 2}
    Hosts = {cdn, edge, elsewhere}
    Allowed = {cdn, edge}
    NoHost = nohost
    MaxLines = 5
INVARIANTS
    OffersExplained
    OneLineup
    RoundTrip
CHECK_DEADLOCK FALSE
