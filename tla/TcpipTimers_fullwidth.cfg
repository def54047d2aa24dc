SPECIFICATION FairSpec
CONSTANTS
  Word = 28
  MsPerSec = 2
  Hz = 1
  Cyclic <- MCCyclic
  OneShot <- MCOneShot
  TcpTmr = "tcp"
  PoolSize <- MCPoolSize
  Interval <- MCInterval
  MaxLate = 3
  MaxMsgs = 1
INVARIANT TypeOK
INVARIANT ListSane
INVARIANT NeverEarly
PROPERTY TimersKeepRunning
PROPERTY TcpTimerRuns
PROPERTY TimeoutsServed
