\* An agent that was down while its certificate expired; clocks agree and nothing
\* is lost.
CONSTANTS
  MaxKeys = 2
  MaxDrops = 0
  MaxFaults = 0
  MaxCrashes = 1
  ClocksAgree = TRUE
SPECIFICATION Spec
PROPERTY ExpiredNodeAsks
CHECK_DEADLOCK FALSE
