SPECIFICATION FairSpec
CONSTANTS
  Options <- CommandLines
  MaxHeaders = 2
  BufferSize = 3
INVARIANTS
  TypeOK
  NegotiationSound
  RelaySound
PROPERTIES
  EndComesLast
  ProxyEnds
