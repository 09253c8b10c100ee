\* Two uploads share a disk that has room for each of them alone.
SPECIFICATION Spec
CONSTANTS
  Ids = {a, b}
  Kinds = {"compress"}
  Size = 2
  Disk = 5
  MinFree = 1
  Undeclared = {}
  MaxCrashes = 0
INVARIANTS
  NoJobFillsDisk
