SPECIFICATION FairSpec
CONSTANTS
  a = a
  b = b
  c = c
  Nodes = {a, b, c}
  Seeds <- Chain
  IndirectProbes = 1
  Formed = {a}
  Crashable = {c}
  Cuttable <- Detours
  MaxFaults = 1
  MaxIncarnation = 2
  Absent = Absent
  NoProbe = NoProbe
  NoAck = NoAck
INVARIANTS
  IncarnationsAreOwn
PROPERTIES
  RecordsAdvance
  
CHECK_DEADLOCK FALSE
