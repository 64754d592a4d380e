\* An agent that loses its connection once and comes back.
CONSTANT
  MaxStreams = 2
SPECIFICATION Spec
PROPERTY ConnectedShowsOnline
CHECK_DEADLOCK FALSE
