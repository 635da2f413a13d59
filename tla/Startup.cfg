SPECIFICATION StartupSpec
CONSTANTS
  Argvs <- Vectors
  Lines <- Typed
  Cap = 14
  EnvArgvs <- WithOne
  Names = {n1, n2}
  Values = {v1, v2}
  BlocksA = {a1, a2}
  BlocksW = {w1, w2}
  Null = Null
  MaxEnviron = 2
  MaxHeld = 2
  HeldOver = FALSE
  AnsiLate = FALSE
INVARIANTS CrtSeesArguments MainArgsPrefix LoaderPassesArguments ArgvBlockFits EnvBlocksSound
CHECK_DEADLOCK FALSE
