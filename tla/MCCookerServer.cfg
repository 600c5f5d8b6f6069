SPECIFICATION FairSpec
CONSTANTS
  MaxRequests = 5
  MaxFiles = 2
INVARIANTS
  TypeOK
  CommandTracked
PROPERTIES
  BuildMissesOnlyFailed
  Ends
