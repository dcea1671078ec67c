SPECIFICATION FairSpec
CONSTANTS
  a1 = a1
  p1 = p1
  o1 = o1
  Instances <- MCInstances
  Apps = {a1}
  Policies = {p1}
  Owners = {o1}
  AppOf <- MCAppOf
  FirstRefs <- MCFirstRefs
  Together <- MCTogether
  MaxLag = 1
  MaxMoves = 1
  MaxFaults = 1
  None = None
INVARIANTS
  TypeOK
  RecordedWhereMade
PROPERTIES
  OwnUntilMoved
  ReleasedWhenUnused
  Settles
CHECK_DEADLOCK FALSE
