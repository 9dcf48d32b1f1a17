SPECIFICATION LogSpec
CONSTANTS
  MaxIn = 0
  MaxOut = 2
  InCap = 2
  OutCap = 2
  ReadMax = 2
  Sizes = {1}
  Faults <- AllFaults
  Logs = {"file", "syslog"}
  DiskMayFail = TRUE
INVARIANT OutputConserved
INVARIANT VerdictTruthful
INVARIANT SyslogComplete
INVARIANT ReasonUnsent
 
PROPERTY KeepsPromise
CHECK_DEADLOCK FALSE
