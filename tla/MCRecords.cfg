CONSTANTS
  x = x
  y = y
  None = None
INIT Init
NEXT Next
INVARIANTS
  RecordsAreTrue
PROPERTIES
  EvidenceSettles
  GoneShowsOffline
  AccessSettles
  ArchivedIsIndexed
  CommandsEnd
  NodeGetsItsCertificate
\* An execution ends when its evidence is settled.
CHECK_DEADLOCK FALSE
