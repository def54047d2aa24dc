SPECIFICATION FairSpec
CONSTANTS
  N <- MCN
  Wnd <- MCWnd
  Mss <- MCMss
  SeqSpace <- MCSeqSpace
  WndSpace <- MCWndSpace
  Iss <- MCIss
INVARIANT TypeOK
INVARIANT StreamIntact
INVARIANT ReceiverSane
PROPERTY EdgeMonotone
PROPERTY StreamEnds
