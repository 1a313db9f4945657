SPECIFICATION JourneysSpec
CONSTANTS
  Folk = {op, bob}
  Operators = {op}
  NLoops = 2
  Collecting = {1}
  Desks = {d1}
  MaxOps = 1
  Texts = {q1, q2}
  Seeded = {q1}
  Months = {m1}
  MaxFailures = 2
  AdminAnswers = TRUE
  Readers = {ann, bob}
  Owner = ann
  MaxComments = 3
  MaxSlips = 1
  Sends = {s1, s2}
  MaxMoves = 1
INVARIANTS
  JourneysTypeOK
  ShownOnlyWhereWelcome
  InvitedAreMembers
  LaunchAsksEachPickOnce
  LaunchedRoundCloses
  CommentsToldOnce
  DeliveredOnce
  OnlyMixedSendsFail
PROPERTIES
  EveryVisitEnds
  WizardFinishes
  NothingDrainedUntold
  QueueSettles
CHECK_DEADLOCK FALSE
