---------------------------- MODULE MCTcpReceive ----------------------------
(***************************************************************************)
(* Instances of TcpReceive for TLC: a stream longer than the window, cut   *)
(* into segments of one to three bytes, with sequence numbers that wrap.   *)
(***************************************************************************)
EXTENDS TcpReceive

MCN == 6
MCWnd == 4
MCMss == 3
MCSeqSpace == 64
MCWndSpace == 16
MCIss == 61
=============================================================================
