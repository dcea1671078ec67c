SPECIFICATION FairSpec
CONSTANTS
  a1 = a1
  p1 = p1
  n1 = n1
  q1 = q1
  None = None
  Replicas = {r1, r2}
  Apps = {a1}
  Accesses = {p1}
  AppOf <- MCAppOf
  Namespaces = {n1}
  NsOf <- MCNsOf
  Policies = {q1, q2}
  Rulings <- MCRulings
  AtFirst <- MCAtFirst
  MaxChanges = 1
  MaxFaults = 1
INVARIANTS
  TypeOK
  SharedOnlyIfAllowed
  DeniedNeverStored
PROPERTIES
  WokenByPolicies
  Settles
CHECK_DEADLOCK FALSE
