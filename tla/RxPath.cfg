SPECIFICATION Spec
CONSTANTS
  Pbuf = {p1, p2, p3}
  Id = {1}
  Fragment <- MCFragment
  MaxPbufs = 2
  NumReassdata = 1
  MaxAge = 0
  MaxLen = 2
  MaxEnd = 2
  Conn = {1, 2}
  NumInpkt = 1
  NumApi = 2
  MboxSize = 2
  RecvSize = 1
INVARIANT TypeOK
INVARIANT Conserved
INVARIANT PendingIsQueued
PROPERTY PoolRefills
