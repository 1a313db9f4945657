SPECIFICATION RecordsSpec
CONSTANTS
  People = {ann}
  Reqs = {r1, r2}
  MaxLinks = 2
  MaxAttempts = 1
  DevMode = TRUE
  Defaults = {d1}
  Bank = {b1, b2}
  UsedBefore = {b1}
  Target = 2
  SortOrders = {0}
  Openers = {o1}
  MaxQuestions = 4
  MaxEdits = 1
  MaxFaults = 1
  Tabs = {t1}
  Posts = {p1, p2, p3}
  MaxFiles = 1
  MaxMedia = 1
  MaxTyped = 2
  MaxVersion = 2
  MaxAnswers = 2
  Jobs = {j1, j2}
  LastDay = 2
  From = 1
  MaxItems = 2
  MaxIds = 2
  MaxGen = 3
  MaxRows = 2
  MaxCopies = 2
SYMMETRY JobSymmetry
INVARIANTS
  RecordsTypeOK
  AttemptsBounded
  RetriesDoNotRepeat
  RoundAsksEnough
  RowsHaveFiles
  NothingLeftBehind
  NothingInACrack
  LossOnlyWithinLastBoot
  OwnDatabaseNeverRefused
PROPERTIES
  LinksUsedOnce
  AutosaveNeverGoesBack
CHECK_DEADLOCK FALSE
