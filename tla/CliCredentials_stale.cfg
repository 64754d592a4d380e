\* Two commands in two shells, one of them ssh-cert.
CONSTANTS
  Procs = {p1, p2}
  NoProc = NoProc
  Kinds = {"command", "ssh-cert"}
  Alone = FALSE
  MaxStarts = 2
  MaxSessions = 1
  MaxFaults = 0
SPECIFICATION Spec
INVARIANT StaysSignedIn
CHECK_DEADLOCK FALSE
