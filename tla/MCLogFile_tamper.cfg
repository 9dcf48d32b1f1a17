SPECIFICATION FairSpec
CONSTANTS
  Sessions = {"s1"}
  Names = {"a"}
  NameOf <- OneName
  Inodes = {i1, i2, i3, i4}
  MaxLines = 1
  MaxLost = 1
  MaxTamper = 2
  Tampering <- AllTampering
  Faults <- RecoverFaults
  StaleLines = 1
INVARIANT TypeOK
INVARIANT RecordSurvives
INVARIANT ClosedIsTheLog
INVARIANT NoFalseAlarm
PROPERTY EndLoggingReturns
CHECK_DEADLOCK FALSE
