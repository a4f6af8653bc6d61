SPECIFICATION Spec
CONSTANTS
  Procs = {P, Q}
  MaxCalls = 2
  Pool = 8
  Cut = cut
  Shortened = shortened
SYMMETRY Symmetry
INVARIANTS
  UpdatesKept
  
  SourcesWhole
  ModeIsOneShot
CHECK_DEADLOCK FALSE
