SPECIFICATION Spec
CONSTANTS
  Ip = {"a", "b", "c"}
  Watched = "a"
  Mac = {"m", "n"}
  TableSize = 2
  QueueLen = 2
  NumArpQueue = 3
  MaxAge = 5
  MaxPending = 2
  RerequestAge = 2
  MaxPackets = 3
INVARIANT TypeOK
INVARIANT QueuesSane
INVARIANT SentRight
INVARIANT RerequestRate
PROPERTY WaitEnds
