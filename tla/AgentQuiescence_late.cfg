INIT MCInit
NEXT MCNext
CONSTANTS
  n1 = n1
  None = None
  Nodes = {n1}
  Conns = {c1, c2}
  ServerOf <- OneServer
  Ids = {a}
  Senders = {s1}
  Kinds = {"claimed"}
  Ops = {m1}
  MaxNodeActivities = 2
  MaxActivities = 2
  MaxCrashes = 0
SYMMETRY Symmetry
INVARIANT
  NodeWorkBlocksStart
CHECK_DEADLOCK FALSE
