SPECIFICATION FairSpec
CONSTANTS
  CRs = {c1}
  Slugs = {s1, s2}
  MaxGen = 2
  MaxProv = 3
  MaxLag = 2
  MaxFaults = 1
  MaxHuman = 1
  NoId = NoId
INVARIANTS
  TypeOK
  NothingLost
  CredentialsPrecedeUse
  CleanupLeavesNothing
PROPERTIES
  NoDisruptionUnasked
  Converges
  DeletionCompletes
CHECK_DEADLOCK FALSE
