SPECIFICATION Spec
CONSTANTS
  Handles = {h1, h2}
  Nodes = {n1, n2}
  Links = {l1, l2, l3, l4}
  Sources = {A, B}
  Asked = {A}
  Null = null
  Idle = idle
  Liberties = {"adjacent", "walk", "noload", "silent"}
SYMMETRY Names
INVARIANTS
  ConnectedToAsked
  OneOwner
  BorrowedOnce
CHECK_DEADLOCK FALSE
