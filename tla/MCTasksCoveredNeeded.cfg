SPECIFICATION Spec
CONSTANTS
  Task <- MCTask4
  Fn <- MCTask4
  Stamp <- MCTask4
  RunQueues <- PartlyCovered
  LastStamp = 0
  BuildStart = 1
  MaxClock = 1
  ForkMayFail = FALSE
PROPERTY DependenciesProvided
