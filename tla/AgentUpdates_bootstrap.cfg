\* A bootstrap whose launch is not heard of, on the node of an agent too old to
\* update itself.
INIT Init
NEXT Next
CONSTANTS
  MaxOps = 1
  MaxGens = 4
  MaxBoots = 5
  MaxFaults = 1
INVARIANT SuccessIsDurable
CHECK_DEADLOCK FALSE
