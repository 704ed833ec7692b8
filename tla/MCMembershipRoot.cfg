SPECIFICATION FairSpec
CONSTANTS
  a = a
  b = b
  c = c
  Nodes = {a, b, c}
  Seeds <- Chain
  IndirectProbes = 1
  Formed = {a, b, c}
  Crashable = {a}
  Cuttable = {}
  MaxFaults = 1
  MaxIncarnation = 2
  Absent = Absent
  NoProbe = NoProbe
  NoAck = NoAck
PROPERTY
  MembershipConverges
