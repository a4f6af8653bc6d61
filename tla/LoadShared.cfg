SPECIFICATION Spec
CONSTANTS
  h3 = h3
  h1 = h1
  h2 = h2
  A = A
  B = B
  g1 = g1
  g2 = g2
  Handles = {h1, h2, h3}
  Careless = {h1, h2}
  CarelessDrivers = {A, B}
  Drivers = {A, B, C}
  Genvs = {g1, g2}
  Envs = {e1, e2, e3}
  GenvOf <- TwoGenvs
  Null = null
  MaxRefs = 3
  MaxFailures = 1
  Liberties = {"switch", "retry"}
SYMMETRY Alike
INVARIANTS
  RefsAreHandles
  InDriverLoaded
  LibraryCounted
PROPERTIES
  EnvsLinked
CHECK_DEADLOCK FALSE
