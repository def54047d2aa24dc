SPECIFICATION Spec
CONSTANTS
  Pbuf = {p1, p2, p3, p4}
  Id = {1, 2, 3}
  Fragment <- MCFragment
  MaxPbufs = 3
  NumReassdata = 2
  MaxAge = 1
  MaxLen = 3
  MaxEnd = 4
INVARIANT TypeOK
INVARIANT ReassSane
INVARIANT ReturnedWhenWhole
PROPERTY FragmentsReleased
