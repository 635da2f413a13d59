SPECIFICATION Spec
CONSTANTS
  Threads = {m, a, b}
  Main = m
  NSlots = 3
  MaxAllocs = 3
  SharedFree = FALSE
  NullCallbacks = FALSE
SYMMETRY Symmetric
INVARIANTS NoStaleValue RightCallback
PROPERTIES ReleasedAtExit
CHECK_DEADLOCK FALSE
