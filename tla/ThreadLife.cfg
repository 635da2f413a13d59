SPECIFICATION FairSpec
CONSTANTS
  Callers = {p1, p2}
  Kids = {k1}
  Objs = {o1}
  Null = Null
  MaxOpen = 2
  MaxSuspend = 2
  MaxSem = 2
  CloseRunning = FALSE
  StaleSelf = FALSE
INVARIANTS ThreadRefs ObjAlive Resumable
PROPERTIES WaitersReleased
CHECK_DEADLOCK FALSE
