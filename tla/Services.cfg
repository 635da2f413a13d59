SPECIFICATION ServicesSpec
CONSTANTS
  Uses = {"exceptions", "console", "memory", "qsort", "text", "move"}
  Threads = {t1, t2}
  Fns = {f, g}
  Entries = {e1, e2, e3}
  Null = Null
  CTRL_HANDLER_MAX = 2
  MaxSignals = 2
  Callers = {c1, c2}
  MaxPage = 4
  MaxRegion = 3
  MaxMixed = 0
  Unmapped = Unmapped
  Arrays <- SmallArrays
  CUTOFF = 2
  STKSIZ = 3
  PosixPaths <- Paths
  WideStrings <- Wide
  ByteStrings <- Bytes
  Rooms = {4, 7, 24}
  Movers = {m1, m2}
  Sources = {s1, s2}
  Others = {other}
  None = None
  Tasks <- MoveTasks
  Chunks = 1
INVARIANTS ListIntact RegionsIntact Sorts StackBounded PathSurvives WholeCharacters
PROPERTIES CtrlCReaches ImplementsAtomicMove
CHECK_DEADLOCK FALSE
