SPECIFICATION OneShotSpec
CONSTANTS
  MaxFailures = 2
  Connections = {c1}
  MaxStarts = 2
INVARIANTS ServesRecovered ClosedIsQuiet RenewsWhileBound HealthyIsRegistered
PROPERTIES StopCompletes RegistrationReturns
CHECK_DEADLOCK FALSE
