SPECIFICATION FairSpec
CONSTANTS
  Self = self
  Actors = {self, o1}
  Keys = {k1, k2}
  Shared = {k1}
  Tasks = {t1, t2}
  NoTask = NoTask
  NoRequest = NoRequest
  MaxWrites = 2
  MaxOthers = 1
INVARIANTS
  PersistedBeforeExposed
  AckedSurvives
  ExactVersions
  ClockIsDurable
  FreshDot
PROPERTIES
  NothingIsLost
  ImplementsAtomic
  RequestsAreAnswered
