SPECIFICATION FairSpec
CONSTANTS
  n1 = n1
  n2 = n2
  r1 = r1
  r2 = r2
  Nodes = {n1, n2}
  Requests = {r1, r2}
  Origin <- AtA
  Walk <- PeerFirst
  Keyed = {r1, r2}
  CpuTasks = {r1}
  MaxAttempts = 2
  Capacity = 1
  Burst = 1
  MaxPending = 1
  MaxWorkers = 1
  Fragile = {n2}
  FailureThreshold = 1
  HalfOpenMaxCalls = 1
INVARIANTS
  SlotsExact
  RepeatsNeedLoss
  ProbeSlotsHeld
PROPERTY
  RequestsAnswered
CHECK_DEADLOCK FALSE
