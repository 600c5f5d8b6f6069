SPECIFICATION MCSpec
CONSTANTS
  Task <- MCTask
  Fn <- MCTask
  Stamp <- MCTask
  RunQueues <- SafetyQueues
  LastStamp = 2
  BuildStart = 3
  MaxClock = 4
  ForkMayFail = TRUE
CONSTRAINT ClockBound
INVARIANTS
  TypeOK
  Scheduling
  Ending
  StampsConsistent
PROPERTIES
  ShutdownStartsNothing
  SharedWorkOnce
  RerunPropagates
  ImplementsPlan
  Termination
