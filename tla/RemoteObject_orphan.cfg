SPECIFICATION Spec
CONSTANTS
  CRs = {c1}
  Names = {n1, n2}
  Kind = "user"
  MaxGen = 2
  MaxUid = 3
  MaxLag = 2
  MaxFaults = 0
  MaxHuman = 0
  NoId = NoId
INVARIANT
  NoOrphan
CHECK_DEADLOCK FALSE
