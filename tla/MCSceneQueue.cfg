SPECIFICATION FairSpec
CONSTANTS
  Task <- MCTask
  Fn <- MCTask
  Stamp <- MCTask
  TaskNumber <- Identity
  RunQueues <- AllSceneQueues
  LastStamp = 1
  BuildStart = 1
  MaxClock = 2
  ForkMayFail = TRUE
CONSTRAINT ClockBound
INVARIANTS
  TypeOK
  SceneScheduling
  HandOverSound
PROPERTIES
  DecidedOnce
  ShutdownEndsHere
  SceneEnds
