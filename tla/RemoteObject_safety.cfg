SPECIFICATION Spec
CONSTANTS
  CRs = {c1}
  Names = {n1, n2}
  Kind = "user"
  MaxGen = 2
  MaxUid = 3
  MaxLag = 2
  MaxFaults = 1
  MaxHuman = 2
  NoId = NoId
INVARIANTS
  TypeOK
  RecordedIsOwned
  AtMostOneObject
  ObservedIsApplied
PROPERTIES
  OnlyOwnObjects
  RecordMovesOnlyWhenGone
CHECK_DEADLOCK FALSE
