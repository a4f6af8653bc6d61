CONSTANTS
  Cols = {c}
  Bufs = {a, b}
  Sizes = {1, 3}
  MaxRows = 3
  MaxWays = 2
  RowArrayAttr = 27
  WideSize = 4
  Spans = {1, 2, 4}
SPECIFICATION RowsSpec
INVARIANTS
  ListIsBound
  InsideTheRows
PROPERTIES
  ConvertedOnce
CHECK_DEADLOCK FALSE
