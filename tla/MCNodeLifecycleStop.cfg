SPECIFICATION LifecycleFairSpec
CONSTANTS
  MaxFailures = 1
  Connections = {c1}
  MaxStarts = 1
PROPERTY TerminationCompletes
CHECK_DEADLOCK FALSE
