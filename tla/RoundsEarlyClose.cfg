SPECIFICATION Spec
CONSTANTS
    Admins = {a1}
    MaxIssues = 4
    MaxTime = 106
    CadenceDays = 4
    Windows = {3}
    Moves = {48}
    PinDays = {3}
    MaxRequests = 1
    MaxTroubles = 0
    Overlap = TRUE
    CarriesOn = FALSE
    StaleReads = FALSE
PROPERTIES
    AutoCloseAtDeadline
