SPECIFICATION FairSpec
CONSTANTS
    Admins = {a1}
    MaxIssues = 4
    MaxTime = 130
    CadenceDays = 4
    Windows = {3}
    Moves = {48}
    PinDays = {3}
    MaxRequests = 2
    MaxTroubles = 0
    Overlap = FALSE
    CarriesOn = FALSE
    StaleReads = FALSE
PROPERTIES
    RestoredLoopResumes
