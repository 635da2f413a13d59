SPECIFICATION Spec
CONSTANTS
  Threads = {t1, t2}
  NStd = 2
  NSlots = 4
  NFds = 4
  MaxFiles = 5
  Ctxs = {c1, c2}
  Count = 2
  Libs = {l1}
  StdFromStd = FALSE
SYMMETRY Symmetric
INVARIANTS DescriptorsOwned IoRightFile StdAgrees ReferencesCounted
CHECK_DEADLOCK FALSE
