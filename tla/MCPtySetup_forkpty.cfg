SPECIFICATION PtySpec
CONSTANTS
  MaxIn = 0
  MaxOut = 1
  InCap = 1
  OutCap = 1
  ReadMax = 1
  Sizes = {1, 2}
  Faults <- ForkFaults
  Logs <- BothLogs
  Streams <- Solaris
INVARIANT ShellOnSlave
INVARIANT ShellSeesSize
INVARIANT NoShellNoSuccess
INVARIANT WinSizeInStep
PROPERTY StopRequestKept
CHECK_DEADLOCK FALSE
