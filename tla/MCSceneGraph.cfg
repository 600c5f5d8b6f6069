SPECIFICATION FairSpec
CONSTANTS
  NumTasks = 5
  Graphs <- FourAndFive
INVARIANTS
  TypeOK
  Collapse
PROPERTIES
  CollapseEnds
