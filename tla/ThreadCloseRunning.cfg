SPECIFICATION Spec
CONSTANTS
  Callers = {p1}
  Kids = {k1}
  Objs = {o1}
  Null = Null
  MaxOpen = 2
  MaxSuspend = 2
  MaxSem = 2
  CloseRunning = TRUE
  StaleSelf = FALSE
SYMMETRY Symmetric
INVARIANTS KidObjAlive
CHECK_DEADLOCK FALSE
