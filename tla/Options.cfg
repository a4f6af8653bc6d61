SPECIFICATION OptionsSpec
CONSTANTS
  Handles = {h1, h2}
  Conns = {c1, c2}
  NoConn = NoConn
  Nobody = Nobody
  Left = Left
  Pooled = {c1}
  Strict = FALSE
  MaxSets = 2
SYMMETRY Symmetry
INVARIANTS
  
  TransactionEnded
CHECK_DEADLOCK FALSE
