SPECIFICATION FairSpec
CONSTANTS
  Modes <- Standard
  Outputs <- OneOutput
  MaxGenerations = 1
  MaxFrames = 1
  QueueFrames = 1
  MaxCrashes = 0
  Revocable = FALSE
CHECK_DEADLOCK FALSE
INVARIANT
  DrainedBeforeExit
PROPERTY
  ExecutionEnds
