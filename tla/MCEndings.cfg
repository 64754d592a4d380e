CONSTANTS
  x = x
  y = y
  z = z
  None = None
INIT Init
NEXT Next
PROPERTIES
  ExecutionPlacesComeBack
  TerminalsEnd
  ApplicationsEnd
  TailStops
\* What has ended may stay so.
CHECK_DEADLOCK FALSE
