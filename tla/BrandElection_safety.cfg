SPECIFICATION Spec
CONSTANTS
  CRs = {1, 2}
  MaxGen = 2
  MaxLag = 1
  MaxFaults = 1
  MaxDisturb = 0
  Native = Native
  Nobody = Nobody
INVARIANTS
  TypeOK
  ReleasedIsNotDefault
PROPERTIES
  OnlyClaimantsTakeOver
CHECK_DEADLOCK FALSE
