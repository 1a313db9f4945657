SPECIFICATION Spec
CONSTANTS
    Admins = {a1}
    MaxIssues = 5
    MaxTime = 190
    CadenceDays = 4
    Windows = {3}
    Moves = {48}
    PinDays = {3}
    MaxRequests = 2
    MaxTroubles = 1
    Overlap = FALSE
    CarriesOn = FALSE
    StaleReads = FALSE
INVARIANTS
    OneUpcomingRound
PROPERTIES
    FollowsTheCycle
    AutoCloseAtDeadline
    NeverOpensExpired
