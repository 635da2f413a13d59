SPECIFICATION Spec
CONSTANTS
  Threads = {t1, t2}
  Slots = {3, 4}
  Objs = {o1, o2}
  NoThread = NoThread
  Null = Null
  Kinds = {"H_MUTEX", "H_SEMAPHORE"}
  MaxDepth = 2
  MaxCount = 1
  MaxRelease = 1
  RacyDup = FALSE
SYMMETRY Symmetric
INVARIANTS TypeOK RefCountExact NoUseAfterFree DestroyedOnceUnreachable
CHECK_DEADLOCK FALSE
