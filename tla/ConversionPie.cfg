SPECIFICATION Spec
CONSTANTS
  Jobs <- PieJobs
  Biases = {0, 7000}
  Prefix <- MCPrefix
  DllFiles <- MCDllFiles
  Exports <- MCExports
  Hash <- MCHash
  Gap = 12
  MaxJump = 100
INVARIANTS TlsInfoFinal
CHECK_DEADLOCK FALSE
