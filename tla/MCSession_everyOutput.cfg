SPECIFICATION Spec
CONSTANTS
  MaxIn = 0
  MaxOut = 2
  InCap = 1
  OutCap = 2
  ReadMax = 1
  Sizes = {1}
  Faults <- NoFault
INVARIANT EveryOutputLogged
CHECK_DEADLOCK FALSE
