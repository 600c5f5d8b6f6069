SPECIFICATION MSpec
CONSTANTS
  MAXDEPTH = 3
  Options <- CommandLines
INVARIANTS
  TypeOK
  Nesting
  LinesKept
PROPERTY CommentsWhole
