SPECIFICATION Spec
CONSTANTS
  Callers <- AllPaths
  Files <- AllFiles
  Hash <- Mark
  LF <- Break
  default_shells <- Defaults
  defaultshell <- Other
  progName <- Rootsh
INVARIANT CommentsIgnored
CHECK_DEADLOCK FALSE
