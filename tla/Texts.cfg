SPECIFICATION Spec
CONSTANTS
  Width = 4
  MaxOdd = 1
INVARIANTS
  SuspendedTextKept
  TextArrives
  NothingHeld
