SPECIFICATION FairSpec
CONSTANTS
  Actors = {n1, n2}
  Keys = {1, 2}
  BatchSize = 1
  NoRound = NoRound
  MaxWrites = 1
  MaxIncidents = 1
PROPERTIES
  ReplicasConverge
