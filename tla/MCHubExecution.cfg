SPECIFICATION Spec
CONSTANTS
  Modes <- Enhanced
  Outputs <- OneOutput
  MaxGenerations = 2
  MaxFrames = 0
  QueueFrames = 1
  MaxCrashes = 1
  Revocable = TRUE
CHECK_DEADLOCK FALSE
INVARIANTS
  NeverRan
  RestartKnows
  ArchivedBeforeLaunch
  AuthorityBeforeStart
