SPECIFICATION FairSpec
CONSTANTS
  Threads = {t1, t2}
  Slots = {3, 4}
  Objs = {o1}
  NoThread = NoThread
  Null = Null
  Kinds = {"H_MUTEX", "H_EVENT", "H_SEMAPHORE"}
  MaxDepth = 1
  MaxCount = 1
  MaxRelease = 1
  RacyDup = FALSE
PROPERTIES ClosedIsFreed
CHECK_DEADLOCK FALSE
