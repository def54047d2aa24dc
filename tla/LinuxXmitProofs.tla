--------------------------- MODULE LinuxXmitProofs ---------------------------
(***************************************************************************)
(* Proofs, for every set of packets and every bound on the opens, of the   *)
(* safety properties of LinuxXmit.                                         *)
(*                                                                         *)
(* The inductive invariant has two halves.  IInv describes what shutdown_  *)
(* lock, is_shutdown and the ownership of packets ensure however often the *)
(* interface is opened.  OnceInv describes the hand-over of the transmit   *)
(* queue that holds as long as it is opened only once: at most one of      *)
(* rpmsg_eth_xmit, the work item and the retry timer is active, and        *)
(* whichever is active keeps the queue stopped.                            *)
(***************************************************************************)
EXTENDS LinuxXmit, TLAPS

-----------------------------------------------------------------------------
(* What rpmsg_eth_remove has achieved at each of its steps. *)
ShutdownInv ==
  /\ is_shutdown <=> rm_pc # "none"
  /\ rm_pc \notin {"none", "cancel_delayed"} => ~del_pending /\ ~del_running
  /\ Cancelled => ~imm_pending /\ imm_pc = "idle"
  /\ Cancelled /\ rm_pc # "free_skb" => skb = NULL
  /\ ~Registered => xmit_pc = "idle" /\ ~up

(* Who owns the packets that rpmsg_eth_xmit and the work handler hold. *)
OwnerInv ==
  /\ xmit_pc # "idle" => xmit_skb \in Skb
  /\ xmit_pc \in {"enqueue", "drop"} => own[xmit_skb] = "driver" /\ xmit_skb # skb
  /\ skb # NULL => own[skb] # "stack"
  /\ skb # NULL /\ imm_pc # "null" => own[skb] = "driver"
  /\ imm_pc \in {"send", "null"} => skb # NULL
  /\ ConsumedOnce

(* A packet on the wire is never to be sent again. *)
WireInv ==
  /\ \A i \in 1..Len(wire) :
       /\ own[wire[i]] # "stack"
       /\ xmit_pc = "enqueue" => wire[i] # xmit_skb
       /\ wire[i] = skb => imm_pc \in {"cleanup", "null"}
  /\ SentOnce

IInv == TypeOK /\ ShutdownInv /\ OwnerInv /\ WireInv

-----------------------------------------------------------------------------
(* The retry timer is armed or its handler runs. *)
Retrying == del_pending \/ del_running

(* At most one context works on the packet, and its stage is visible in
   priv->skb. *)
TokenInv ==
  /\ xmit_pc = "enqueue" =>
       skb = NULL /\ ~imm_pending /\ imm_pc = "idle" /\ ~Retrying
  /\ imm_pending => skb # NULL /\ imm_pc = "idle" /\ ~Retrying
  /\ Retrying => skb # NULL /\ imm_pc = "idle" /\ ~(del_pending /\ del_running)
  /\ imm_pc \in {"check", "send", "retry", "cleanup"} => skb # NULL
  /\ imm_pc = "wake" => skb = NULL
  /\ imm_pc = "null" => own[skb] = "consumed"

(* Whoever is active, the queue is stopped. *)
StoppedInv ==
  (xmit_pc = "enqueue" \/ imm_pending \/ imm_pc # "idle" \/ Retrying
     \/ skb # NULL \/ is_delayed) => xoff

(* How often the packet in flight has been tried. *)
Tries == IF is_delayed THEN 1 ELSE 0

AttemptsInv ==
  /\ \A s \in Skb : own[s] = "stack" => attempts[s] = 0
  /\ xmit_pc = "enqueue" => ~is_delayed /\ attempts[xmit_skb] = 0
  /\ imm_pending \/ imm_pc \in {"check", "send"} => attempts[skb] = Tries
  /\ imm_pc = "retry" => ~is_delayed /\ attempts[skb] = 1
  /\ Retrying => is_delayed /\ attempts[skb] = 1
  /\ imm_pc = "wake" => ~is_delayed

(* Nothing has happened before the first open. *)
UnopenedInv ==
  opens = 0 =>
    /\ skb = NULL /\ ~is_delayed /\ ~imm_pending /\ imm_pc = "idle"
    /\ ~Retrying /\ xmit_pc = "idle" /\ ~up

OnceInv ==
  opens <= 1 => TokenInv /\ StoppedInv /\ AttemptsInv /\ UnopenedInv /\ NoLeak

-----------------------------------------------------------------------------
(* TypeOK in two halves: the flags, which the provers treat apart, and the rest. *)
FlagsOK ==
  /\ is_delayed \in BOOLEAN /\ is_shutdown \in BOOLEAN
  /\ xoff \in BOOLEAN /\ up \in BOOLEAN
  /\ imm_pending \in BOOLEAN
  /\ del_pending \in BOOLEAN /\ del_running \in BOOLEAN
  /\ tx_bytes_ok \in BOOLEAN

DataOK ==
  /\ skb \in Skb \cup {NULL}
  /\ opens \in 0..MaxOpens
  /\ imm_pc \in ImmPC
  /\ xmit_pc \in XmitPC
  /\ xmit_skb \in Skb \cup {NULL}
  /\ rm_pc \in RmPC
  /\ own \in [Skb -> Owner]
  /\ attempts \in [Skb -> Nat]
  /\ wire \in Seq(Skb)
  /\ tx_packets \in Nat

(* The type invariant is its two halves, which the steps keep separately. *)
LEMMA TypeHalves == TypeOK <=> FlagsOK /\ DataOK
  BY DEF TypeOK, FlagsOK, DataOK

(* Every step keeps the flags Boolean. *)
LEMMA FlagsStep ==
  ASSUME FlagsOK, [Next]_vars
  PROVE  FlagsOK'
<1> USE DEF FlagsOK, privVars, queueVars, immVars, delVars, xmitVars, pktVars, statVars
<1>1. CASE Open
  BY <1>1 DEF Open, Registered
<1>2. CASE Stop
  BY <1>2 DEF Stop, Registered, StopQueue
<1>3. CASE \E s \in Skb : XmitStopQueue(s)
  BY <1>3 DEF XmitStopQueue, Registered, StopQueue
<1>4. CASE XmitEnqueue
  BY <1>4 DEF XmitEnqueue, Alive, ScheduleWork
<1>5. CASE XmitDrop
  BY <1>5 DEF XmitDrop, MayDrop, Consume
<1>6. CASE XmitStats
  BY <1>6 DEF XmitStats, CountPacket
<1>7. CASE WorkStart
  BY <1>7 DEF WorkStart
<1>8. CASE WorkCheck
  BY <1>8 DEF WorkCheck, AfterCheck
<1>9. CASE WorkSend
  BY <1>9 DEF WorkSend, TrySend, AfterSend
<1>10. CASE WorkRetry
  BY <1>10 DEF WorkRetry, Alive, ScheduleDelayedWork
<1>11. CASE WorkCleanup
  BY <1>11 DEF WorkCleanup, Consume, EndRetry
<1>12. CASE WorkNull
  BY <1>12 DEF WorkNull, ForgetSkb, EndRetry
<1>13. CASE WorkWake
  BY <1>13 DEF WorkWake, Alive
<1>14. CASE DelayedStart
  BY <1>14 DEF DelayedStart
<1>15. CASE DelayedKick
  BY <1>15 DEF DelayedKick, Alive
<1>16. CASE RemoveShutdown
  BY <1>16 DEF RemoveShutdown, StopQueue
<1>17. CASE RemoveCancelDelayed
  BY <1>17 DEF RemoveCancelDelayed
<1>18. CASE RemoveCancelImmediate
  BY <1>18 DEF RemoveCancelImmediate
<1>19. CASE RemoveFreeSkb
  BY <1>19 DEF RemoveFreeSkb, ReleaseSkb, Consume
<1>20. CASE RemoveUnregister
  BY <1>20 DEF RemoveUnregister
<1>21. CASE RemoveFreeNetdev
  BY <1>21 DEF RemoveFreeNetdev
<1>22. CASE UNCHANGED vars
  BY <1>22 DEF vars
<1>23. QED
  BY <1>1, <1>2, <1>3, <1>4, <1>5, <1>6, <1>7, <1>8, <1>9, <1>10, <1>11, <1>12, <1>13, <1>14, <1>15, <1>16, <1>17, <1>18, <1>19, <1>20, <1>21, <1>22 DEF Next, XmitStep, WorkStep, RemoveStep

(* Every step keeps the types of the rest. *)
LEMMA DataStep ==
  ASSUME DataOK, OwnerInv, [Next]_vars
  PROVE  DataOK'
<1> USE NullAssumption, MaxOpensAssumption DEF DataOK, ImmPC, XmitPC, RmPC, Owner, privVars, queueVars, immVars, delVars, xmitVars, pktVars, statVars
<1>1. CASE Open
  BY <1>1 DEF Open, Registered
<1>2. CASE Stop
  BY <1>2 DEF Stop, Registered, StopQueue
<1>3. CASE \E s \in Skb : XmitStopQueue(s)
  BY <1>3 DEF XmitStopQueue, Registered, StopQueue
<1>4. CASE XmitEnqueue
  BY <1>4 DEF XmitEnqueue, Alive, ScheduleWork
<1>5. CASE XmitDrop
  BY <1>5 DEF XmitDrop, MayDrop, Consume
<1>6. CASE XmitStats
  BY <1>6 DEF XmitStats, CountPacket
<1>7. CASE WorkStart
  BY <1>7 DEF WorkStart
<1>8. CASE WorkCheck
  BY <1>8 DEF WorkCheck, AfterCheck
<1>9. CASE WorkSend
  BY <1>9 DEF WorkSend, TrySend, AfterSend, OwnerInv
<1>10. CASE WorkRetry
  BY <1>10 DEF WorkRetry, Alive, ScheduleDelayedWork
<1>11. CASE WorkCleanup
  BY <1>11 DEF WorkCleanup, Consume, EndRetry
<1>12. CASE WorkNull
  BY <1>12 DEF WorkNull, ForgetSkb, EndRetry
<1>13. CASE WorkWake
  BY <1>13 DEF WorkWake, Alive
<1>14. CASE DelayedStart
  BY <1>14 DEF DelayedStart
<1>15. CASE DelayedKick
  BY <1>15 DEF DelayedKick, Alive
<1>16. CASE RemoveShutdown
  BY <1>16 DEF RemoveShutdown, StopQueue
<1>17. CASE RemoveCancelDelayed
  BY <1>17 DEF RemoveCancelDelayed
<1>18. CASE RemoveCancelImmediate
  BY <1>18 DEF RemoveCancelImmediate
<1>19. CASE RemoveFreeSkb
  BY <1>19 DEF RemoveFreeSkb, ReleaseSkb, Consume
<1>20. CASE RemoveUnregister
  BY <1>20 DEF RemoveUnregister
<1>21. CASE RemoveFreeNetdev
  BY <1>21 DEF RemoveFreeNetdev
<1>22. CASE UNCHANGED vars
  BY <1>22 DEF vars
<1>23. QED
  BY <1>1, <1>2, <1>3, <1>4, <1>5, <1>6, <1>7, <1>8, <1>9, <1>10, <1>11, <1>12, <1>13, <1>14, <1>15, <1>16, <1>17, <1>18, <1>19, <1>20, <1>21, <1>22 DEF Next, XmitStep, WorkStep, RemoveStep

(* Every step keeps what rpmsg_eth_remove has achieved. *)
LEMMA ShutdownStep ==
  ASSUME TypeOK, ShutdownInv, [Next]_vars
  PROVE  ShutdownInv'
<1> USE DEF TypeOK, ImmPC, XmitPC, RmPC, ShutdownInv, Cancelled, Registered, privVars, queueVars, immVars, delVars, xmitVars, pktVars, statVars
<1>1. CASE Open
  BY <1>1 DEF Open, Registered
<1>2. CASE Stop
  BY <1>2 DEF Stop, Registered, StopQueue
<1>3. CASE \E s \in Skb : XmitStopQueue(s)
  BY <1>3 DEF XmitStopQueue, Registered, StopQueue
<1>4. CASE XmitEnqueue
  BY <1>4 DEF XmitEnqueue, Alive, ScheduleWork
<1>5. CASE XmitDrop
  BY <1>5 DEF XmitDrop, MayDrop, Consume
<1>6. CASE XmitStats
  BY <1>6 DEF XmitStats, CountPacket
<1>7. CASE WorkStart
  BY <1>7 DEF WorkStart
<1>8. CASE WorkCheck
  BY <1>8 DEF WorkCheck, AfterCheck
<1>9. CASE WorkSend
  BY <1>9 DEF WorkSend, TrySend, AfterSend
<1>10. CASE WorkRetry
  BY <1>10 DEF WorkRetry, Alive, ScheduleDelayedWork
<1>11. CASE WorkCleanup
  BY <1>11 DEF WorkCleanup, Consume, EndRetry
<1>12. CASE WorkNull
  BY <1>12 DEF WorkNull, ForgetSkb, EndRetry
<1>13. CASE WorkWake
  BY <1>13 DEF WorkWake, Alive
<1>14. CASE DelayedStart
  BY <1>14 DEF DelayedStart
<1>15. CASE DelayedKick
  BY <1>15 DEF DelayedKick, Alive
<1>16. CASE RemoveShutdown
  BY <1>16 DEF RemoveShutdown, StopQueue
<1>17. CASE RemoveCancelDelayed
  BY <1>17 DEF RemoveCancelDelayed
<1>18. CASE RemoveCancelImmediate
  BY <1>18 DEF RemoveCancelImmediate
<1>19. CASE RemoveFreeSkb
  BY <1>19 DEF RemoveFreeSkb, ReleaseSkb, Consume
<1>20. CASE RemoveUnregister
  BY <1>20 DEF RemoveUnregister
<1>21. CASE RemoveFreeNetdev
  BY <1>21 DEF RemoveFreeNetdev
<1>22. CASE UNCHANGED vars
  BY <1>22 DEF vars
<1>23. QED
  BY <1>1, <1>2, <1>3, <1>4, <1>5, <1>6, <1>7, <1>8, <1>9, <1>10, <1>11, <1>12, <1>13, <1>14, <1>15, <1>16, <1>17, <1>18, <1>19, <1>20, <1>21, <1>22 DEF Next, XmitStep, WorkStep, RemoveStep

(* Every step keeps the ownership of packets. *)
LEMMA OwnerStep ==
  ASSUME TypeOK, ShutdownInv, OwnerInv, [Next]_vars
  PROVE  OwnerInv'
<1> USE NullAssumption DEF TypeOK, ImmPC, XmitPC, RmPC, Owner, ShutdownInv, Cancelled, OwnerInv, ConsumedOnce, privVars, queueVars, immVars, delVars, xmitVars, pktVars, statVars
<1>1. CASE Open
  BY <1>1 DEF Open, Registered
<1>2. CASE Stop
  BY <1>2 DEF Stop, Registered, StopQueue
<1>3. CASE \E s \in Skb : XmitStopQueue(s)
  BY <1>3 DEF XmitStopQueue, Registered, StopQueue
<1>4. CASE XmitEnqueue
  BY <1>4 DEF XmitEnqueue, Alive, ScheduleWork
<1>5. CASE XmitDrop
  BY <1>5 DEF XmitDrop, MayDrop, Consume
<1>6. CASE XmitStats
  BY <1>6 DEF XmitStats, CountPacket
<1>7. CASE WorkStart
  BY <1>7 DEF WorkStart
<1>8. CASE WorkCheck
  BY <1>8 DEF WorkCheck, AfterCheck
<1>9. CASE WorkSend
  BY <1>9 DEF WorkSend, TrySend, AfterSend
<1>10. CASE WorkRetry
  BY <1>10 DEF WorkRetry, Alive, ScheduleDelayedWork
<1>11. CASE WorkCleanup
  BY <1>11 DEF WorkCleanup, Consume, EndRetry
<1>12. CASE WorkNull
  BY <1>12 DEF WorkNull, ForgetSkb, EndRetry
<1>13. CASE WorkWake
  BY <1>13 DEF WorkWake, Alive
<1>14. CASE DelayedStart
  BY <1>14 DEF DelayedStart
<1>15. CASE DelayedKick
  BY <1>15 DEF DelayedKick, Alive
<1>16. CASE RemoveShutdown
  BY <1>16 DEF RemoveShutdown, StopQueue
<1>17. CASE RemoveCancelDelayed
  BY <1>17 DEF RemoveCancelDelayed
<1>18. CASE RemoveCancelImmediate
  BY <1>18 DEF RemoveCancelImmediate
<1>19. CASE RemoveFreeSkb
  BY <1>19 DEF RemoveFreeSkb, ReleaseSkb, Consume
<1>20. CASE RemoveUnregister
  BY <1>20 DEF RemoveUnregister
<1>21. CASE RemoveFreeNetdev
  BY <1>21 DEF RemoveFreeNetdev
<1>22. CASE UNCHANGED vars
  BY <1>22 DEF vars
<1>23. QED
  BY <1>1, <1>2, <1>3, <1>4, <1>5, <1>6, <1>7, <1>8, <1>9, <1>10, <1>11, <1>12, <1>13, <1>14, <1>15, <1>16, <1>17, <1>18, <1>19, <1>20, <1>21, <1>22 DEF Next, XmitStep, WorkStep, RemoveStep

(* Every step keeps the wire free of duplicates. *)
LEMMA WireStep ==
  ASSUME IInv, [Next]_vars
  PROVE  WireInv'
<1> USE NullAssumption DEF IInv, TypeOK, ImmPC, XmitPC, RmPC, Owner, ShutdownInv, Cancelled, OwnerInv, WireInv, SentOnce, privVars, queueVars, immVars, delVars, xmitVars, pktVars, statVars
<1>1. CASE Open
  BY <1>1 DEF Open, Registered
<1>2. CASE Stop
  BY <1>2 DEF Stop, Registered, StopQueue
<1>3. CASE \E s \in Skb : XmitStopQueue(s)
  BY <1>3 DEF XmitStopQueue, Registered, StopQueue
<1>4. CASE XmitEnqueue
  BY <1>4 DEF XmitEnqueue, Alive, ScheduleWork
<1>5. CASE XmitDrop
  BY <1>5 DEF XmitDrop, MayDrop, Consume
<1>6. CASE XmitStats
  BY <1>6 DEF XmitStats, CountPacket
<1>7. CASE WorkStart
  BY <1>7 DEF WorkStart
<1>8. CASE WorkCheck
  BY <1>8 DEF WorkCheck, AfterCheck
<1>9. CASE WorkSend
  BY <1>9 DEF WorkSend, TrySend, AfterSend
<1>10. CASE WorkRetry
  BY <1>10 DEF WorkRetry, Alive, ScheduleDelayedWork
<1>11. CASE WorkCleanup
  BY <1>11 DEF WorkCleanup, Consume, EndRetry
<1>12. CASE WorkNull
  BY <1>12 DEF WorkNull, ForgetSkb, EndRetry
<1>13. CASE WorkWake
  BY <1>13 DEF WorkWake, Alive
<1>14. CASE DelayedStart
  BY <1>14 DEF DelayedStart
<1>15. CASE DelayedKick
  BY <1>15 DEF DelayedKick, Alive
<1>16. CASE RemoveShutdown
  BY <1>16 DEF RemoveShutdown, StopQueue
<1>17. CASE RemoveCancelDelayed
  BY <1>17 DEF RemoveCancelDelayed
<1>18. CASE RemoveCancelImmediate
  BY <1>18 DEF RemoveCancelImmediate
<1>19. CASE RemoveFreeSkb
  BY <1>19 DEF RemoveFreeSkb, ReleaseSkb, Consume
<1>20. CASE RemoveUnregister
  BY <1>20 DEF RemoveUnregister
<1>21. CASE RemoveFreeNetdev
  BY <1>21 DEF RemoveFreeNetdev
<1>22. CASE UNCHANGED vars
  BY <1>22 DEF vars
<1>23. QED
  BY <1>1, <1>2, <1>3, <1>4, <1>5, <1>6, <1>7, <1>8, <1>9, <1>10, <1>11, <1>12, <1>13, <1>14, <1>15, <1>16, <1>17, <1>18, <1>19, <1>20, <1>21, <1>22 DEF Next, XmitStep, WorkStep, RemoveStep

(* Every step keeps at most one context active. *)
LEMMA TokenStep ==
  ASSUME TypeOK, ShutdownInv, OwnerInv, TokenInv, StoppedInv, UnopenedInv,
         opens <= 1, opens' <= 1, [Next]_vars
  PROVE  TokenInv'
<1> USE NullAssumption DEF TypeOK, ImmPC, XmitPC, RmPC, Owner, ShutdownInv, Cancelled, OwnerInv, ConsumedOnce, Retrying, TokenInv, StoppedInv, UnopenedInv, privVars, queueVars, immVars, delVars, xmitVars, pktVars, statVars
<1>1. CASE Open
  BY <1>1 DEF Open, Registered
<1>2. CASE Stop
  BY <1>2 DEF Stop, Registered, StopQueue
<1>3. CASE \E s \in Skb : XmitStopQueue(s)
  BY <1>3 DEF XmitStopQueue, Registered, StopQueue
<1>4. CASE XmitEnqueue
  BY <1>4 DEF XmitEnqueue, Alive, ScheduleWork
<1>5. CASE XmitDrop
  BY <1>5 DEF XmitDrop, MayDrop, Consume
<1>6. CASE XmitStats
  BY <1>6 DEF XmitStats, CountPacket
<1>7. CASE WorkStart
  BY <1>7 DEF WorkStart
<1>8. CASE WorkCheck
  BY <1>8 DEF WorkCheck, AfterCheck
<1>9. CASE WorkSend
  BY <1>9 DEF WorkSend, TrySend, AfterSend
<1>10. CASE WorkRetry
  BY <1>10 DEF WorkRetry, Alive, ScheduleDelayedWork
<1>11. CASE WorkCleanup
  BY <1>11 DEF WorkCleanup, Consume, EndRetry
<1>12. CASE WorkNull
  BY <1>12 DEF WorkNull, ForgetSkb, EndRetry
<1>13. CASE WorkWake
  BY <1>13 DEF WorkWake, Alive
<1>14. CASE DelayedStart
  BY <1>14 DEF DelayedStart
<1>15. CASE DelayedKick
  BY <1>15 DEF DelayedKick, Alive
<1>16. CASE RemoveShutdown
  BY <1>16 DEF RemoveShutdown, StopQueue
<1>17. CASE RemoveCancelDelayed
  BY <1>17 DEF RemoveCancelDelayed
<1>18. CASE RemoveCancelImmediate
  BY <1>18 DEF RemoveCancelImmediate
<1>19. CASE RemoveFreeSkb
  BY <1>19 DEF RemoveFreeSkb, ReleaseSkb, Consume
<1>20. CASE RemoveUnregister
  BY <1>20 DEF RemoveUnregister
<1>21. CASE RemoveFreeNetdev
  BY <1>21 DEF RemoveFreeNetdev
<1>22. CASE UNCHANGED vars
  BY <1>22 DEF vars
<1>23. QED
  BY <1>1, <1>2, <1>3, <1>4, <1>5, <1>6, <1>7, <1>8, <1>9, <1>10, <1>11, <1>12, <1>13, <1>14, <1>15, <1>16, <1>17, <1>18, <1>19, <1>20, <1>21, <1>22 DEF Next, XmitStep, WorkStep, RemoveStep

(* Every step keeps the queue stopped while a context is active. *)
LEMMA StoppedStep ==
  ASSUME TypeOK, ShutdownInv, OwnerInv, TokenInv, StoppedInv, AttemptsInv, UnopenedInv,
         opens <= 1, opens' <= 1, [Next]_vars
  PROVE  StoppedInv'
<1> USE NullAssumption DEF TypeOK, ImmPC, XmitPC, RmPC, Owner, ShutdownInv, Cancelled, OwnerInv, ConsumedOnce, Retrying, TokenInv, StoppedInv, UnopenedInv, AttemptsInv, privVars, queueVars, immVars, delVars, xmitVars, pktVars, statVars
<1>1. CASE Open
  BY <1>1 DEF Open, Registered
<1>2. CASE Stop
  BY <1>2 DEF Stop, Registered, StopQueue
<1>3. CASE \E s \in Skb : XmitStopQueue(s)
  BY <1>3 DEF XmitStopQueue, Registered, StopQueue
<1>4. CASE XmitEnqueue
  BY <1>4 DEF XmitEnqueue, Alive, ScheduleWork
<1>5. CASE XmitDrop
  BY <1>5 DEF XmitDrop, MayDrop, Consume
<1>6. CASE XmitStats
  BY <1>6 DEF XmitStats, CountPacket
<1>7. CASE WorkStart
  BY <1>7 DEF WorkStart
<1>8. CASE WorkCheck
  BY <1>8 DEF WorkCheck, AfterCheck
<1>9. CASE WorkSend
  BY <1>9 DEF WorkSend, TrySend, AfterSend
<1>10. CASE WorkRetry
  BY <1>10 DEF WorkRetry, Alive, ScheduleDelayedWork
<1>11. CASE WorkCleanup
  BY <1>11 DEF WorkCleanup, Consume, EndRetry
<1>12. CASE WorkNull
  BY <1>12 DEF WorkNull, ForgetSkb, EndRetry
<1>13. CASE WorkWake
  BY <1>13 DEF WorkWake, Alive
<1>14. CASE DelayedStart
  BY <1>14 DEF DelayedStart
<1>15. CASE DelayedKick
  BY <1>15 DEF DelayedKick, Alive
<1>16. CASE RemoveShutdown
  BY <1>16 DEF RemoveShutdown, StopQueue
<1>17. CASE RemoveCancelDelayed
  BY <1>17 DEF RemoveCancelDelayed
<1>18. CASE RemoveCancelImmediate
  BY <1>18 DEF RemoveCancelImmediate
<1>19. CASE RemoveFreeSkb
  BY <1>19 DEF RemoveFreeSkb, ReleaseSkb, Consume
<1>20. CASE RemoveUnregister
  BY <1>20 DEF RemoveUnregister
<1>21. CASE RemoveFreeNetdev
  BY <1>21 DEF RemoveFreeNetdev
<1>22. CASE UNCHANGED vars
  BY <1>22 DEF vars
<1>23. QED
  BY <1>1, <1>2, <1>3, <1>4, <1>5, <1>6, <1>7, <1>8, <1>9, <1>10, <1>11, <1>12, <1>13, <1>14, <1>15, <1>16, <1>17, <1>18, <1>19, <1>20, <1>21, <1>22 DEF Next, XmitStep, WorkStep, RemoveStep

(* Every step keeps the count of attempts. *)
LEMMA AttemptsStep ==
  ASSUME TypeOK, ShutdownInv, OwnerInv, TokenInv, StoppedInv, AttemptsInv, UnopenedInv,
         opens <= 1, opens' <= 1, [Next]_vars
  PROVE  AttemptsInv'
<1> USE NullAssumption DEF TypeOK, ImmPC, XmitPC, RmPC, Owner, ShutdownInv, Cancelled, OwnerInv, ConsumedOnce, Retrying, TokenInv, StoppedInv, UnopenedInv, AttemptsInv, Tries, privVars, queueVars, immVars, delVars, xmitVars, pktVars, statVars
<1>1. CASE Open
  BY <1>1 DEF Open, Registered
<1>2. CASE Stop
  BY <1>2 DEF Stop, Registered, StopQueue
<1>3. CASE \E s \in Skb : XmitStopQueue(s)
  BY <1>3 DEF XmitStopQueue, Registered, StopQueue
<1>4. CASE XmitEnqueue
  BY <1>4 DEF XmitEnqueue, Alive, ScheduleWork
<1>5. CASE XmitDrop
  BY <1>5 DEF XmitDrop, MayDrop, Consume
<1>6. CASE XmitStats
  BY <1>6 DEF XmitStats, CountPacket
<1>7. CASE WorkStart
  BY <1>7 DEF WorkStart
<1>8. CASE WorkCheck
  BY <1>8 DEF WorkCheck, AfterCheck
<1>9. CASE WorkSend
  BY <1>9 DEF WorkSend, TrySend, AfterSend
<1>10. CASE WorkRetry
  BY <1>10 DEF WorkRetry, Alive, ScheduleDelayedWork
<1>11. CASE WorkCleanup
  BY <1>11 DEF WorkCleanup, Consume, EndRetry
<1>12. CASE WorkNull
  BY <1>12 DEF WorkNull, ForgetSkb, EndRetry
<1>13. CASE WorkWake
  BY <1>13 DEF WorkWake, Alive
<1>14. CASE DelayedStart
  BY <1>14 DEF DelayedStart
<1>15. CASE DelayedKick
  BY <1>15 DEF DelayedKick, Alive
<1>16. CASE RemoveShutdown
  BY <1>16 DEF RemoveShutdown, StopQueue
<1>17. CASE RemoveCancelDelayed
  BY <1>17 DEF RemoveCancelDelayed
<1>18. CASE RemoveCancelImmediate
  BY <1>18 DEF RemoveCancelImmediate
<1>19. CASE RemoveFreeSkb
  BY <1>19 DEF RemoveFreeSkb, ReleaseSkb, Consume
<1>20. CASE RemoveUnregister
  BY <1>20 DEF RemoveUnregister
<1>21. CASE RemoveFreeNetdev
  BY <1>21 DEF RemoveFreeNetdev
<1>22. CASE UNCHANGED vars
  BY <1>22 DEF vars
<1>23. QED
  BY <1>1, <1>2, <1>3, <1>4, <1>5, <1>6, <1>7, <1>8, <1>9, <1>10, <1>11, <1>12, <1>13, <1>14, <1>15, <1>16, <1>17, <1>18, <1>19, <1>20, <1>21, <1>22 DEF Next, XmitStep, WorkStep, RemoveStep

(* Before the first open nothing happens. *)
LEMMA UnopenedStep ==
  ASSUME TypeOK, ShutdownInv, OwnerInv, TokenInv, StoppedInv, UnopenedInv,
         opens <= 1, opens' <= 1, [Next]_vars
  PROVE  UnopenedInv'
<1> USE NullAssumption, MaxOpensAssumption DEF TypeOK, ImmPC, XmitPC, RmPC, Owner, ShutdownInv, Cancelled, OwnerInv, ConsumedOnce, Retrying, TokenInv, StoppedInv, UnopenedInv, privVars, queueVars, immVars, delVars, xmitVars, pktVars, statVars
<1>1. CASE Open
  BY <1>1 DEF Open, Registered
<1>2. CASE Stop
  BY <1>2 DEF Stop, Registered, StopQueue
<1>3. CASE \E s \in Skb : XmitStopQueue(s)
  BY <1>3 DEF XmitStopQueue, Registered, StopQueue
<1>4. CASE XmitEnqueue
  BY <1>4 DEF XmitEnqueue, Alive, ScheduleWork
<1>5. CASE XmitDrop
  BY <1>5 DEF XmitDrop, MayDrop, Consume
<1>6. CASE XmitStats
  BY <1>6 DEF XmitStats, CountPacket
<1>7. CASE WorkStart
  BY <1>7 DEF WorkStart
<1>8. CASE WorkCheck
  BY <1>8 DEF WorkCheck, AfterCheck
<1>9. CASE WorkSend
  BY <1>9 DEF WorkSend, TrySend, AfterSend
<1>10. CASE WorkRetry
  BY <1>10 DEF WorkRetry, Alive, ScheduleDelayedWork
<1>11. CASE WorkCleanup
  BY <1>11 DEF WorkCleanup, Consume, EndRetry
<1>12. CASE WorkNull
  BY <1>12 DEF WorkNull, ForgetSkb, EndRetry
<1>13. CASE WorkWake
  BY <1>13 DEF WorkWake, Alive
<1>14. CASE DelayedStart
  BY <1>14 DEF DelayedStart
<1>15. CASE DelayedKick
  BY <1>15 DEF DelayedKick, Alive
<1>16. CASE RemoveShutdown
  BY <1>16 DEF RemoveShutdown, StopQueue
<1>17. CASE RemoveCancelDelayed
  BY <1>17 DEF RemoveCancelDelayed
<1>18. CASE RemoveCancelImmediate
  BY <1>18 DEF RemoveCancelImmediate
<1>19. CASE RemoveFreeSkb
  BY <1>19 DEF RemoveFreeSkb, ReleaseSkb, Consume
<1>20. CASE RemoveUnregister
  BY <1>20 DEF RemoveUnregister
<1>21. CASE RemoveFreeNetdev
  BY <1>21 DEF RemoveFreeNetdev
<1>22. CASE UNCHANGED vars
  BY <1>22 DEF vars
<1>23. QED
  BY <1>1, <1>2, <1>3, <1>4, <1>5, <1>6, <1>7, <1>8, <1>9, <1>10, <1>11, <1>12, <1>13, <1>14, <1>15, <1>16, <1>17, <1>18, <1>19, <1>20, <1>21, <1>22 DEF Next, XmitStep, WorkStep, RemoveStep

(* No step loses a packet. *)
LEMMA LeakStep ==
  ASSUME TypeOK, ShutdownInv, OwnerInv, TokenInv, StoppedInv, NoLeak, UnopenedInv,
         opens <= 1, opens' <= 1, [Next]_vars
  PROVE  NoLeak'
<1> USE NullAssumption DEF TypeOK, ImmPC, XmitPC, RmPC, Owner, ShutdownInv, Cancelled, OwnerInv, ConsumedOnce, Retrying, TokenInv, StoppedInv, UnopenedInv, NoLeak, privVars, queueVars, immVars, delVars, xmitVars, pktVars, statVars
<1>1. CASE Open
  BY <1>1 DEF Open, Registered
<1>2. CASE Stop
  BY <1>2 DEF Stop, Registered, StopQueue
<1>3. CASE \E s \in Skb : XmitStopQueue(s)
  BY <1>3 DEF XmitStopQueue, Registered, StopQueue
<1>4. CASE XmitEnqueue
  BY <1>4 DEF XmitEnqueue, Alive, ScheduleWork
<1>5. CASE XmitDrop
  BY <1>5 DEF XmitDrop, MayDrop, Consume
<1>6. CASE XmitStats
  BY <1>6 DEF XmitStats, CountPacket
<1>7. CASE WorkStart
  BY <1>7 DEF WorkStart
<1>8. CASE WorkCheck
  BY <1>8 DEF WorkCheck, AfterCheck
<1>9. CASE WorkSend
  BY <1>9 DEF WorkSend, TrySend, AfterSend
<1>10. CASE WorkRetry
  BY <1>10 DEF WorkRetry, Alive, ScheduleDelayedWork
<1>11. CASE WorkCleanup
  BY <1>11 DEF WorkCleanup, Consume, EndRetry
<1>12. CASE WorkNull
  BY <1>12 DEF WorkNull, ForgetSkb, EndRetry
<1>13. CASE WorkWake
  BY <1>13 DEF WorkWake, Alive
<1>14. CASE DelayedStart
  BY <1>14 DEF DelayedStart
<1>15. CASE DelayedKick
  BY <1>15 DEF DelayedKick, Alive
<1>16. CASE RemoveShutdown
  BY <1>16 DEF RemoveShutdown, StopQueue
<1>17. CASE RemoveCancelDelayed
  BY <1>17 DEF RemoveCancelDelayed
<1>18. CASE RemoveCancelImmediate
  BY <1>18 DEF RemoveCancelImmediate
<1>19. CASE RemoveFreeSkb
  BY <1>19 DEF RemoveFreeSkb, ReleaseSkb, Consume
<1>20. CASE RemoveUnregister
  BY <1>20 DEF RemoveUnregister
<1>21. CASE RemoveFreeNetdev
  BY <1>21 DEF RemoveFreeNetdev
<1>22. CASE UNCHANGED vars
  BY <1>22 DEF vars
<1>23. QED
  BY <1>1, <1>2, <1>3, <1>4, <1>5, <1>6, <1>7, <1>8, <1>9, <1>10, <1>11, <1>12, <1>13, <1>14, <1>15, <1>16, <1>17, <1>18, <1>19, <1>20, <1>21, <1>22 DEF Next, XmitStep, WorkStep, RemoveStep

-----------------------------------------------------------------------------
(* The invariant of the driver however often it is opened. *)
LEMMA IInvStep ==
  ASSUME IInv, [Next]_vars
  PROVE  IInv'
<1>1. FlagsOK /\ DataOK
  BY TypeHalves DEF IInv
<1>2. TypeOK'
  <2>1. FlagsOK'
    BY <1>1, FlagsStep
  <2>2. DataOK'
    BY <1>1, DataStep DEF IInv
  <2>3. QED
    BY <2>1, <2>2 DEF TypeOK, FlagsOK, DataOK
<1>3. ShutdownInv' /\ OwnerInv'
  BY ShutdownStep, OwnerStep DEF IInv
<1>4. WireInv'
  BY WireStep
<1>5. QED
  BY <1>2, <1>3, <1>4 DEF IInv

(* The hand-over of the transmit queue while the interface is opened once. *)
LEMMA OnceStep ==
  ASSUME IInv, OnceInv, [Next]_vars
  PROVE  OnceInv'
<1>1. SUFFICES ASSUME opens' <= 1
               PROVE  (TokenInv /\ StoppedInv /\ AttemptsInv /\ UnopenedInv /\ NoLeak)'
  BY DEF OnceInv
<1>2. opens <= 1
  <2>1. opens' = opens \/ opens' = opens + 1
    BY DEF Next, vars, XmitStep, WorkStep, RemoveStep, privVars, queueVars, immVars,
           delVars, xmitVars, pktVars, statVars, Open, Stop, XmitStopQueue, XmitEnqueue,
           XmitDrop, XmitStats, WorkStart, WorkCheck, WorkSend, WorkRetry, WorkCleanup,
           WorkNull, WorkWake, DelayedStart, DelayedKick, RemoveShutdown,
           RemoveCancelDelayed, RemoveCancelImmediate, RemoveFreeSkb, RemoveUnregister,
           RemoveFreeNetdev
  <2>2. opens \in Nat
    BY MaxOpensAssumption DEF IInv, TypeOK
  <2>3. QED
    BY <1>1, <2>1, <2>2
<1>3. TypeOK /\ ShutdownInv /\ OwnerInv
  BY DEF IInv
<1>4. TokenInv /\ StoppedInv /\ AttemptsInv /\ UnopenedInv /\ NoLeak
  BY <1>2 DEF OnceInv
<1>5. TokenInv'
  BY <1>1, <1>2, <1>3, <1>4, TokenStep
<1>6. StoppedInv'
  BY <1>1, <1>2, <1>3, <1>4, StoppedStep
<1>7. AttemptsInv'
  BY <1>1, <1>2, <1>3, <1>4, AttemptsStep
<1>8. UnopenedInv'
  BY <1>1, <1>2, <1>3, <1>4, UnopenedStep
<1>9. NoLeak'
  BY <1>1, <1>2, <1>3, <1>4, LeakStep
<1>10. QED
  BY <1>5, <1>6, <1>7, <1>8, <1>9

(* A freshly probed driver satisfies the invariant. *)
LEMMA InvInit ==
  ASSUME Init
  PROVE  IInv /\ OnceInv
<1>1. TypeOK
  <2>1. FlagsOK
    BY DEF Init, FlagsOK
  <2>2. DataOK
    BY MaxOpensAssumption DEF Init, DataOK, ImmPC, XmitPC, RmPC, Owner
  <2>3. QED
    BY <2>1, <2>2, TypeHalves
<1>2. ShutdownInv /\ OwnerInv /\ WireInv
  BY NullAssumption DEF Init, ShutdownInv, Cancelled, Registered, OwnerInv,
     ConsumedOnce, WireInv, SentOnce
<1>3. TokenInv /\ StoppedInv /\ AttemptsInv /\ UnopenedInv /\ NoLeak
  BY NullAssumption DEF Init, TokenInv, StoppedInv, AttemptsInv, UnopenedInv,
     Retrying, Tries, NoLeak
<1>4. QED
  BY <1>1, <1>2, <1>3 DEF IInv, OnceInv

(* The inductive invariant holds in every reachable state. *)
THEOREM Invariance == Spec => [](IInv /\ OnceInv)
<1>1. Init => IInv /\ OnceInv
  BY InvInit
<1>2. (IInv /\ OnceInv) /\ [Next]_vars => (IInv /\ OnceInv)'
  BY IInvStep, OnceStep
<1>3. QED
  BY <1>1, <1>2, PTL DEF Spec

-----------------------------------------------------------------------------
(***************************************************************************)
(* The driver's structure, work items and packets keep their types.        *)
(***************************************************************************)
THEOREM TypeCorrect == Spec => []TypeOK
<1>1. IInv => TypeOK
  BY DEF IInv
<1>2. QED
  BY <1>1, Invariance, PTL

(***************************************************************************)
(* rpmsg_eth_remove leaves nothing behind that could touch the freed       *)
(* net_device: no work item, no packet, no transmission.                   *)
(***************************************************************************)
THEOREM RemovalQuiescent == Spec => []RemoveQuiesces
<1>1. IInv => RemoveQuiesces
  BY DEF IInv, TypeOK, RmPC, ShutdownInv, RemoveQuiesces, Cancelled
<1>2. QED
  BY <1>1, Invariance, PTL

(***************************************************************************)
(* No packet is returned to the network stack twice, and rpmsg_trysend is  *)
(* only called with a packet the driver owns.                              *)
(***************************************************************************)
THEOREM PacketsOwned == Spec => []Ownership
<1>1. IInv => Ownership
  BY DEF IInv, OwnerInv, SendsOwnedPacket, Ownership
<1>2. QED
  BY <1>1, Invariance, PTL

(***************************************************************************)
(* No packet goes on the wire twice.                                       *)
(***************************************************************************)
THEOREM NoDuplicates == Spec => []SentOnce
<1>1. IInv => SentOnce
  BY DEF IInv, WireInv
<1>2. QED
  BY <1>1, Invariance, PTL

(***************************************************************************)
(* An interface that is opened once never overwrites the packet in flight, *)
(* leaks none, and drops one for a full ring only on its second attempt.   *)
(***************************************************************************)
THEOREM OpenedOnceIsSafe == Spec => []OpenedOnceSafe
<1>1. IInv /\ OnceInv => OpenedOnceSafe
  <2>1. OnceInv => OneFrameInFlight
    BY DEF OnceInv, StoppedInv, OneFrameInFlight
  <2>2. OnceInv => NoLeak
    BY DEF OnceInv, NoLeak
  <2>3. OnceInv => RetryIsSecondAttempt
    BY DEF OnceInv, AttemptsInv, Tries, RetryIsSecondAttempt
  <2>4. QED
    BY <2>1, <2>2, <2>3 DEF OpenedOnceSafe
<1>2. QED
  BY <1>1, Invariance, PTL

(***************************************************************************)
(* After is_shutdown is set nothing is scheduled and the queue is not      *)
(* woken by the driver.                                                    *)
(***************************************************************************)
THEOREM ShutdownIsFinal == Spec => NothingStartsAfterShutdown
<1> DEFINE Step == is_shutdown => /\ imm_pending' => imm_pending
                                  /\ del_pending' => del_pending
                                  /\ (xoff /\ ~xoff') => opens' # opens
<1>1. IInv /\ [Next]_vars => [Step]_vars
  <2>1. SUFFICES ASSUME IInv, Next, is_shutdown
                 PROVE  Step
    BY DEF vars
  <2>2. opens \in Nat
    BY <2>1, MaxOpensAssumption DEF IInv, TypeOK
  <2>3. CASE Open
    BY <2>2, <2>3 DEF Open, immVars, delVars
  <2>4. CASE Stop \/ (\E s \in Skb : XmitStopQueue(s)) \/ XmitStep
    BY <2>1, <2>4 DEF Stop, XmitStopQueue, XmitStep, XmitEnqueue, XmitDrop, XmitStats,
       StopQueue, Alive, ScheduleWork, queueVars, immVars, delVars
  <2>5. CASE WorkStart \/ WorkStep
    BY <2>1, <2>5 DEF WorkStart, WorkStep, WorkCheck, WorkSend, WorkRetry, WorkCleanup,
       WorkNull, WorkWake, Alive, queueVars, delVars
  <2>6. CASE DelayedStart \/ DelayedKick
    BY <2>1, <2>6 DEF DelayedStart, DelayedKick, Alive, queueVars, immVars
  <2>7. CASE RemoveShutdown \/ RemoveStep
    BY <2>1, <2>7 DEF RemoveShutdown, RemoveStep, RemoveCancelDelayed,
       RemoveCancelImmediate, RemoveFreeSkb, RemoveUnregister, RemoveFreeNetdev,
       StopQueue, queueVars, immVars, delVars
  <2>8. QED
    BY <2>1, <2>3, <2>4, <2>5, <2>6, <2>7 DEF Next
<1>2. QED
  BY <1>1, Invariance, PTL DEF Spec, NothingStartsAfterShutdown

=============================================================================
