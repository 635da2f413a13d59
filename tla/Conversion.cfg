SPECIFICATION Spec
CONSTANTS
  Jobs <- MCJobs
  Biases = {0, 7000}
  Prefix <- MCPrefix
  DllFiles <- MCDllFiles
  Exports <- MCExports
  Hash <- MCHash
  Gap = 12
  MaxJump = 100
INVARIANTS LoadedLikeWindows HashFinds NeverFaults TlsInfoFinal
CHECK_DEADLOCK FALSE
