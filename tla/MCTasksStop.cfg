SPECIFICATION Spec
CONSTANTS
  Task <- MCTask
  Fn <- MCTask
  Stamp <- MCTask
  RunQueues <- GraphQueues
  LastStamp = 0
  BuildStart = 1
  MaxClock = 1
  ForkMayFail = FALSE
PROPERTY StopStartsNothing
