SPECIFICATION FairSpec
CONSTANTS
  CRs = {c1, c2}
  Names = {n1, n2}
  MaxPk = 2
  MaxMoves = 1
  MaxFaults = 1
  MaxDisturb = 1
INVARIANTS
  TypeOK
  ServedWhereSynced
PROPERTIES
  EditsAreAtomic
  Settles
CHECK_DEADLOCK FALSE
