SPECIFICATION FairSpec
CONSTANTS
  Word = 64
  MsPerSec = 8
  Hz = 4
  Cyclic <- MCCyclic
  OneShot = {}
  TcpTmr = "tcp"
  PoolSize <- MCPoolSize
  Interval <- MCInterval
  MaxLate = 6
  MaxMsgs = 1
PROPERTY TimersKeepRunning
