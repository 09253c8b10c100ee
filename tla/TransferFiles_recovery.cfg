SPECIFICATION Spec
CONSTANTS
  Ids = {a, b}
  Kinds = {"compress", "import", "decompress"}
  Size = 1
  Disk = 3
  MinFree = 1
  Undeclared = {b}
  MaxCrashes = 1
INVARIANTS
  FilesHaveOwners
  DeliveredIsIntact
  GoneOnlyWhenExpired
  CompletedSurvives
PROPERTIES
  PurgedIsNeverServed
  FilesGo
