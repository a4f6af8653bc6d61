SPECIFICATION Spec
CONSTANTS
  Threads = {t1, t2, t3}
  Careless = {t1, t2}
  Stmts = {s1}
  Descs = {d1}
  Conn = c1
  Nobody = nobody
  ThreadSafe = FALSE
  Liberties = {"drop", "disconnect", "free", "keep", "nodialog"}
INVARIANTS
  LockDiscipline
  CipIsCall
  ConnStateTrue
PROPERTIES
  LockReleased
  LeaseSpec
