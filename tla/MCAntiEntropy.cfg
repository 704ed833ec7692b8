SPECIFICATION FairSpec
CONSTANTS
  Actors = {n1, n2}
  Keys = {1, 2}
  BatchSize = 2
  NoRound = NoRound
  MaxWrites = 1
  MaxIncidents = 1
INVARIANTS
  VersionsStayExact

  
