SPECIFICATION Spec
CONSTANTS
    Addrs = {"lan", "office", "isp", "home", "abroad"}
    Private = {"lan"}
    Literals = {"office"}
    ASNs = {"AS577", "AS578"}
    Announced <- MCAnnounced
    Allowed = {"isp", "home"}
    MaxAge = 1
    MaxClock = 3
    MaxStarts = 3
INVARIANTS
    TypeOK
    AnswersFollowConfiguration
PROPERTIES
    DatabaseKept
CHECK_DEADLOCK FALSE
