SPECIFICATION FairSpec
CONSTANTS
    Admins = {a1}
    MaxIssues = 5
    MaxTime = 130
    CadenceDays = 4
    Windows = {3}
    Moves = {48}
    PinDays = {3}
    MaxRequests = 1
    MaxTroubles = 1
    Overlap = TRUE
    CarriesOn = TRUE
    StaleReads = FALSE
INVARIANTS
    TypeOK
PROPERTIES
    StalledCycleRecovers
