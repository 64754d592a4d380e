INIT MCInit
NEXT MCNext
CONSTANTS
  n1 = n1
  None = None
  Nodes = {n1}
  Conns = {c1, c2}
  ServerOf <- OneServer
  Ids = {a}
  Senders = {s1}
  Kinds = {"claimed", "admission", "direct"}
  Ops = {m1}
  MaxNodeActivities = 2
  MaxActivities = 2
  MaxCrashes = 1
SYMMETRY Symmetry
INVARIANTS
  SendOnInstalledGeneration
  MaintenanceExcludesWork
  LedgerAccounting
  MaintenanceIsQuiescent
  RunningWorkIsAccounted
PROPERTIES
  WorkForgottenOnlyInCrash
\* A server may stay without a connection.
CHECK_DEADLOCK FALSE
