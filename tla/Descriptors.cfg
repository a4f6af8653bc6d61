CONSTANTS
  Stmts = {s1, s2}
  Explicit = {d1, d2}
  Tuned = s1
  Values = {v}
  None = none
  MaxOddities = 1
SPECIFICATION AttrsSpec
INVARIANTS
  DescriptorsLive
  ReadsWhatWasSet
CHECK_DEADLOCK FALSE
