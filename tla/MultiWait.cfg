SPECIFICATION MCSpec
CONSTANTS
  Threads = {t1, t2}
  Slots = {3, 4}
  Objs = {o1, o2}
  NoThread = NoThread
  Null = Null
  Kinds = {"H_EVENT", "H_MUTEX", "H_SEMAPHORE"}
  MaxDepth = 2
  MaxCount = 1
  MaxRelease = 1
  Lists <- BothOrders
  Fns = {"all", "any", "signal"}
  Calls = {"SetEvent", "ResetEvent", "ReleaseMutex", "ReleaseSemaphore", "CloseHandle", "WaitForSingleObject"}
  Infinite = {FALSE}
  RacyDup = FALSE
VIEW View
SYMMETRY Symmetric
INVARIANTS AllOrNothing TokensConserved NoLostWakeup
CHECK_DEADLOCK FALSE
