SPECIFICATION Spec
CONSTANTS
  Main = main
  Others = {other}
  Names = {1, 2, 3}
  Room = 3
  MaxEntries = 2
  Unset = unset
  MaxPool = 1
  MaxRefs = 3
  MaxEdits = 1
INVARIANTS
  EachEntryOnce
  VersionTold
