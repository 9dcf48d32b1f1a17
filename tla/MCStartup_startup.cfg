SPECIFICATION Spec
CONSTANTS
  Users = {"root", "joe"}
  Callers <- JoeOrRoot
  Names = {"root", "joe", "ghost"}
  LongNames = {}
  Shells = {"rootsh", "sh", "csh"}
  PwShell <- RootAndJoe
  EtcShells = {"rootsh", "sh"}
  HasEtcShells = TRUE
  HasClearenv = FALSE
INVARIANT SudoLogsHome
INVARIANT FiledUnderUid
INVARIANT AllowedShell
INVARIANT NotItself
INVARIANT CleanEnvironment
CHECK_DEADLOCK FALSE
