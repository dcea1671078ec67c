SPECIFICATION FairSpec
CONSTANTS
  CRs = {c1}
  Names = {n1, n2}
  Kind = "flow"
  MaxGen = 2
  MaxUid = 4
  MaxLag = 2
  MaxFaults = 1
  MaxHuman = 2
  NoId = NoId
PROPERTIES
  Converges
  DeletionCompletes
CHECK_DEADLOCK FALSE
