SPECIFICATION FairSpec
CONSTANTS
  CRs = {1, 2}
  MaxGen = 1
  MaxLag = 1
  MaxFaults = 1
  MaxDisturb = 1
  Native = Native
  Nobody = Nobody
PROPERTIES
  Settles
CHECK_DEADLOCK FALSE
