SPECIFICATION FairSpec
CONSTANTS
  MaxRequests = 2
  MaxFiles = 0
PROPERTY StopEndsCommand
