CONSTANTS
  x = x
  y = y
  z = z
  None = None
  Absent = Absent
  e1 = e1
  Attempts = {p1, p2}
  Executions = {e1}
  IdOf <- OneExecution
  Enhanced = {p2}
  Maximum = 2
  MaxCrashes = 1
INIT MCInit
NEXT MCNext
SYMMETRY Symmetry
INVARIANTS
  AtMostOneLaunch
  JournalTellsTheTruth
  BudgetAccounting
  UpdateOutcomeIsTrue
  AcceptedIsDrained
  TransfersAreAccounted
  EndedIsSilent
  ApplicationsAreAccounted
  CliKeepsWorking
PROPERTIES
  ImplementsOnce
  AuthorityComesFirst
CHECK_DEADLOCK FALSE
