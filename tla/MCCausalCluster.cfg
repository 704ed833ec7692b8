SPECIFICATION Spec
CONSTANTS
  n1 = n1
  n2 = n2
  n3 = n3
  Actors = {n1, n2, n3}
  Keys = {k1}
  Sessions = {s1}
  Preference <- Three
  Routers = {r}
  NoRequest = NoRequest
  MaxWrites = 1
SYMMETRY Symmetry
INVARIANTS
  NoFutureKnowledge
  ClockCoversStore
  VersionsTellStates
