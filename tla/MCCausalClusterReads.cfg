SPECIFICATION Spec
CONSTANTS
  n1 = n1
  n2 = n2
  n3 = n3
  Actors = {n1, n2}
  Keys = {k1, k2}
  Sessions = {s1}
  Preference <- Two
  Routers = {r}
  NoRequest = NoRequest
  MaxWrites = 2
SYMMETRY Symmetry
INVARIANTS
  ReadsAreCausal
