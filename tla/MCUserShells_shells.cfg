SPECIFICATION FairSpec
CONSTANTS
  Callers <- AllPaths
  Files <- AllFiles
  Hash <- Mark
  LF <- Break
  default_shells <- Defaults
  defaultshell <- Other
  progName <- Rootsh
INVARIANT RunsWhatIsListed
INVARIANT NeverItself
PROPERTY SetupEnds
CHECK_DEADLOCK FALSE
