SPECIFICATION Spec
CONSTANTS
  CRs = {c1}
  Slugs = {s1, s2}
  MaxGen = 2
  MaxProv = 3
  MaxLag = 1
  MaxFaults = 0
  MaxHuman = 0
  NoId = NoId
INVARIANT CredentialsRemoved
CHECK_DEADLOCK FALSE
