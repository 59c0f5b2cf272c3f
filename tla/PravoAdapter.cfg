SPECIFICATION Spec
CONSTANTS
  Getters = {g1}
  Ingesters = {i1}
  d1 = d1
  None = None
  Docs = {d1}
  Blocks <- TheBlocks
  BlockOf <- TheBlockOf
  Asked <- TheAsked
  MaxVersion = 2
  StaleTtl = 0
  PopulateTtl = 1
  FailureThreshold = 1
  RecoveryTimeout = 1
  HalfOpenMax = 1
  CountCap = 1
INVARIANTS IngestedJurisdiction StampHonest
PROPERTIES EventuallyCurrent
