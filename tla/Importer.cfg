SPECIFICATION Spec
CONSTANTS
  Pks <- MCPks
  KindOf <- MCKindOf
  Names <- MCNames
  SlugOf <- MCSlugOf
  Embedded = "core"
  Beginnings <- MCBeginnings
  Wanted = {"ops", "dev"}
  Page = 3
  BindingsPage = 1
  MaxRuns = 2
  MaxFaults = 1
  MaxHuman = 1
  None = None
INVARIANTS
  TypeOK
  AsListed
  FilesAgree
CHECK_DEADLOCK FALSE
