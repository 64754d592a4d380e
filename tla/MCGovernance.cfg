CONSTANTS
  x = x
  y = y
  i = i
  j = j
  z = z
  o = o
  a = a
  b = b
  b2 = b2
  None = None
INIT Init
NEXT Next
SYMMETRY Symmetry
INVARIANTS
  AccountsAreSound
  NodesAreIdentified
  OnePolicyHistory
  ReceiptsAreTrue
  ReadsAreRecorded
PROPERTIES
  DecidedByQuorum
CHECK_DEADLOCK FALSE
