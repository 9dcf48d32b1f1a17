SPECIFICATION FairSpec
CONSTANTS
  MaxIn = 3
  MaxOut = 1
  InCap = 2
  OutCap = 1
  ReadMax = 2
  Sizes = {1}
  Faults <- Ends
INVARIANT InputConserved
INVARIANT TerminalBack
PROPERTY ChildEndEndsSession
PROPERTY OutputReachesLog
PROPERTY StopEndsRelay
CHECK_DEADLOCK FALSE
