SPECIFICATION Spec
CONSTANTS
    Admins = {a1, a2}
    MaxIssues = 6
    MaxTime = 106
    CadenceDays = 4
    Windows = {3}
    Moves = {48}
    PinDays = {3}
    MaxRequests = 2
    MaxTroubles = 0
    Overlap = TRUE
    CarriesOn = FALSE
    StaleReads = TRUE
INVARIANTS
    ReplacementNeverRefused
    HandledEventIsPending
PROPERTIES
    DeadlineMovesWithLifecycle
    MovedDeadlineClearsQueued
SYMMETRY Symmetry
