SPECIFICATION FairSpec
CONSTANTS
  k1 = k1
  k2 = k2
  x1 = x1
  None = None
  Contents = {k1, k2}
  Contexts = {x1}
  Specs <- MCSpecs
  MaxEdits = 1
  MaxUid = 2
  MaxLag = 1
  MaxAsked = 1
  MaxRunning = 2
  MaxFaults = 1
  MaxHuman = 1
INVARIANTS
  TypeOK
  SyncedIsApplied
  NoSelfCollision
PROPERTIES
  Settles
CHECK_DEADLOCK FALSE
