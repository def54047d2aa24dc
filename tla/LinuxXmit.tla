------------------------------ MODULE LinuxXmit ------------------------------
(***************************************************************************)
(* The transmit path and the shutdown of the Linux network driver          *)
(* (linux/rpmsg_eth.c).                                                    *)
(*                                                                         *)
(* Four contexts run concurrently on one rpmsg_eth_private structure:      *)
(*   - the network stack inside ndo_start_xmit (xmit_pc, xmit_skb),        *)
(*   - a worker running net_xmit_work_handler (imm_pending, imm_pc),       *)
(*   - a worker running net_xmit_delayed_work_handler (del_pending,        *)
(*     del_running),                                                       *)
(*   - the rpmsg core inside rpmsg_eth_remove (rm_pc),                     *)
(* and the administrator opens and stops the interface (up, opens).        *)
(*                                                                         *)
(* A section under shutdown_lock is one step.  Everything a handler does   *)
(* outside the lock is a step of its own wherever another context can see  *)
(* or change what it uses.                                                 *)
(***************************************************************************)
EXTENDS Naturals, Sequences

CONSTANTS
  Skb,       \* the packets the network stack may hand to the driver
  NULL,      \* no packet: the NULL of priv->skb
  MaxOpens   \* bound: how often the interface is opened (ndo_open)

ASSUME NullAssumption == NULL \notin Skb
ASSUME MaxOpensAssumption == MaxOpens \in Nat

VARIABLES
  skb,          \* priv->skb
  is_delayed,   \* priv->is_delayed
  is_shutdown,  \* priv->is_shutdown
  xoff,         \* the net device's transmit queue is stopped
  up,           \* the interface is open
  opens,        \* number of ndo_open calls so far
  imm_pending,  \* priv->immediate is queued
  imm_pc,       \* where net_xmit_work_handler is
  del_pending,  \* priv->delayed is armed (timer or queue)
  del_running,  \* net_xmit_delayed_work_handler has started
  xmit_pc,      \* where rpmsg_eth_xmit is
  xmit_skb,     \* its argument skb
  rm_pc,        \* where rpmsg_eth_remove is
  own,          \* who owns each packet
  attempts,     \* how often each packet was passed to rpmsg_trysend
  wire,         \* the packets rpmsg_trysend accepted, in order
  tx_packets,   \* priv->stats.tx_packets
  tx_bytes_ok   \* priv->stats.tx_bytes is the sum of lengths of live packets

privVars  == <<skb, is_delayed, is_shutdown>>
queueVars == <<xoff, up, opens>>
immVars   == <<imm_pending, imm_pc>>
delVars   == <<del_pending, del_running>>
xmitVars  == <<xmit_pc, xmit_skb>>
pktVars   == <<own, attempts, wire>>
statVars  == <<tx_packets, tx_bytes_ok>>
vars == <<privVars, queueVars, immVars, delVars, xmitVars, rm_pc, pktVars, statVars>>

ImmPC  == {"idle", "check", "send", "retry", "cleanup", "null", "wake"}
XmitPC == {"idle", "enqueue", "drop", "stats"}
RmPC   == {"none", "cancel_delayed", "cancel_immediate", "free_skb",
           "unregister", "free_netdev", "removed"}
Owner  == {"stack", "driver", "consumed", "consumed_twice"}

TypeOK ==
  /\ skb \in Skb \cup {NULL}
  /\ is_delayed \in BOOLEAN
  /\ is_shutdown \in BOOLEAN
  /\ xoff \in BOOLEAN
  /\ up \in BOOLEAN
  /\ opens \in 0..MaxOpens
  /\ imm_pending \in BOOLEAN
  /\ imm_pc \in ImmPC
  /\ del_pending \in BOOLEAN
  /\ del_running \in BOOLEAN
  /\ xmit_pc \in XmitPC
  /\ xmit_skb \in Skb \cup {NULL}
  /\ rm_pc \in RmPC
  /\ own \in [Skb -> Owner]
  /\ attempts \in [Skb -> Nat]
  /\ wire \in Seq(Skb)
  /\ tx_packets \in Nat
  /\ tx_bytes_ok \in BOOLEAN

(***************************************************************************)
(* rpmsg_eth_probe has returned 0: the structure is initialised, the       *)
(* device is registered and down, no work was ever scheduled.              *)
(***************************************************************************)
Init ==
  /\ skb = NULL /\ is_delayed = FALSE /\ is_shutdown = FALSE
  /\ xoff = FALSE /\ up = FALSE /\ opens = 0
  /\ imm_pending = FALSE /\ imm_pc = "idle"
  /\ del_pending = FALSE /\ del_running = FALSE
  /\ xmit_pc = "idle" /\ xmit_skb = NULL
  /\ rm_pc = "none"
  /\ own = [s \in Skb |-> "stack"]
  /\ attempts = [s \in Skb |-> 0]
  /\ wire = <<>>
  /\ tx_packets = 0 /\ tx_bytes_ok = TRUE

-----------------------------------------------------------------------------
(***************************************************************************)
(* Kernel services the driver uses, modelled from its calls.               *)
(***************************************************************************)

(* unregister_netdev has not yet taken the device away from the stack. *)
Registered == rm_pc \notin {"free_netdev", "removed"}

(* dev_consume_skb_any: the packet goes back to the stack. *)
Consume(s) ==
  own' = [own EXCEPT ![s] = IF @ = "driver" THEN "consumed" ELSE "consumed_twice"]

(* rpmsg_trysend: the packet goes on the wire unless the ring, which other
   endpoints share, has no room. *)
TrySend(s, err) == wire' = IF err THEN wire ELSE Append(wire, s)

(* netif_stop_queue. *)
StopQueue == xoff' = TRUE

(* schedule_work(&priv->immediate), schedule_delayed_work(&priv->delayed):
   no effect on a work item that is already queued. *)
ScheduleWork == imm_pending' = TRUE
ScheduleDelayedWorkNot == UNCHANGED del_pending  \* mutant: no retry is armed
ScheduleDelayedWork == del_pending' = TRUE

(* The test of is_shutdown that every section under shutdown_lock makes. *)
AliveAlways == TRUE                     \* mutant: the flag is not tested
Alive == ~is_shutdown

-----------------------------------------------------------------------------
(***************************************************************************)
(* ndo_open and ndo_stop.  The stack closes a device only after the        *)
(* ndo_start_xmit calls in progress have returned.                         *)
(***************************************************************************)
Open ==
  /\ Registered /\ ~up /\ opens < MaxOpens
  /\ up' = TRUE /\ opens' = opens + 1
  /\ xoff' = FALSE
  /\ UNCHANGED <<privVars, immVars, delVars, xmitVars, rm_pc, pktVars, statVars>>

Stop ==
  /\ Registered /\ up /\ xmit_pc = "idle"
  /\ up' = FALSE
  /\ StopQueue
  /\ UNCHANGED <<opens, privVars, immVars, delVars, xmitVars, rm_pc, pktVars, statVars>>

-----------------------------------------------------------------------------
(***************************************************************************)
(* rpmsg_eth_xmit.  The stack calls it, one call at a time, for an open    *)
(* device whose queue is not stopped.                                      *)
(***************************************************************************)
XmitStopQueue(s) ==
  /\ Registered /\ up /\ ~xoff /\ xmit_pc = "idle"
  /\ own[s] = "stack"
  /\ own' = [own EXCEPT ![s] = "driver"]
  /\ StopQueue
  /\ xmit_pc' = "enqueue" /\ xmit_skb' = s
  /\ UNCHANGED <<up, opens, privVars, immVars, delVars, rm_pc, attempts, wire, statVars>>

(* Under shutdown_lock: schedule the work, unless shut down. *)
XmitEnqueue ==
  /\ xmit_pc = "enqueue"
  /\ \/ /\ Alive
        /\ skb' = xmit_skb
        /\ ScheduleWork
        /\ xmit_pc' = "stats"
     \/ /\ ~Alive
        /\ xmit_pc' = "drop"
        /\ UNCHANGED <<skb, imm_pending>>
  /\ UNCHANGED <<is_delayed, is_shutdown, queueVars, imm_pc, delVars, xmit_skb,
                 rm_pc, pktVars, statVars>>

(* When the shut-down driver gets to drop the packet. *)
MayDropLate == xmit_pc = "drop" /\ rm_pc = "removed"  \* mutant: after the removal
MayDrop == xmit_pc = "drop"

XmitDrop ==
  /\ MayDrop
  /\ Consume(xmit_skb)
  /\ xmit_pc' = "stats"
  /\ UNCHANGED <<privVars, queueVars, immVars, delVars, xmit_skb, rm_pc,
                 attempts, wire, statVars>>

CountPacketDown == tx_packets' = tx_packets - 1   \* mutant: counts backwards
CountPacket == tx_packets' = tx_packets + 1

(* The statistics read skb->len; what a consumed packet's length reads as
   is undefined. *)
XmitStats ==
  /\ xmit_pc = "stats"
  /\ CountPacket
  /\ tx_bytes_ok' \in IF own[xmit_skb] = "driver" THEN {tx_bytes_ok}
                                                  ELSE {tx_bytes_ok, FALSE}
  /\ xmit_pc' = "idle" /\ xmit_skb' = NULL
  /\ UNCHANGED <<privVars, queueVars, immVars, delVars, rm_pc, pktVars>>

-----------------------------------------------------------------------------
(***************************************************************************)
(* net_xmit_work_handler, the work item `immediate'.                       *)
(***************************************************************************)
WorkStart ==
  /\ imm_pending /\ imm_pc = "idle"
  /\ imm_pending' = FALSE
  /\ imm_pc' = "check"
  /\ UNCHANGED <<privVars, queueVars, delVars, xmitVars, rm_pc, pktVars, statVars>>

AfterCheck == IF skb = NULL THEN "cleanup" ELSE "send"

WorkCheck ==
  /\ imm_pc = "check"
  /\ imm_pc' = AfterCheck
  /\ UNCHANGED <<privVars, queueVars, imm_pending, delVars, xmitVars, rm_pc,
                 pktVars, statVars>>

(* Where the handler goes with the result of rpmsg_trysend. *)
AfterSendInverted(err) ==               \* mutant: err is tested the wrong way
  IF err \/ is_delayed THEN "cleanup" ELSE "retry"
AfterSend(err) == IF err /\ ~is_delayed THEN "retry" ELSE "cleanup"

WorkSend ==
  /\ imm_pc = "send"
  /\ attempts' = [attempts EXCEPT ![skb] = @ + 1]
  /\ \E err \in BOOLEAN : TrySend(skb, err) /\ imm_pc' = AfterSend(err)
  /\ UNCHANGED <<privVars, queueVars, imm_pending, delVars, xmitVars, rm_pc,
                 own, statVars>>

(* Under shutdown_lock: arm the retry, unless shut down; priv->skb stays. *)
WorkRetry ==
  /\ imm_pc = "retry"
  /\ \/ /\ Alive
        /\ is_delayed' = TRUE
        /\ ScheduleDelayedWork
     \/ /\ ~Alive
        /\ UNCHANGED <<is_delayed, del_pending>>
  /\ imm_pc' = "idle"
  /\ UNCHANGED <<skb, is_shutdown, queueVars, imm_pending, del_running, xmitVars,
                 rm_pc, pktVars, statVars>>

ForgetSkbNot == UNCHANGED skb            \* mutant: priv->skb dangles
ForgetSkb == skb' = NULL
EndRetryNot == UNCHANGED is_delayed      \* mutant: is_delayed is not reset
EndRetry == is_delayed' = FALSE

WorkCleanup ==
  /\ imm_pc = "cleanup"
  /\ \/ /\ skb # NULL
        /\ Consume(skb)
        /\ imm_pc' = "null"
        /\ UNCHANGED is_delayed
     \/ /\ skb = NULL
        /\ EndRetry
        /\ imm_pc' = "wake"
        /\ UNCHANGED own
  /\ UNCHANGED <<skb, is_shutdown, queueVars, imm_pending, delVars, xmitVars,
                 rm_pc, attempts, wire, statVars>>

WorkNull ==
  /\ imm_pc = "null"
  /\ ForgetSkb
  /\ EndRetry
  /\ imm_pc' = "wake"
  /\ UNCHANGED <<is_shutdown, queueVars, imm_pending, delVars, xmitVars, rm_pc,
                 pktVars, statVars>>

(* Under shutdown_lock: wake the queue, unless shut down. *)
WorkWake ==
  /\ imm_pc = "wake"
  /\ xoff' = (xoff /\ ~Alive)
  /\ imm_pc' = "idle"
  /\ UNCHANGED <<up, opens, privVars, imm_pending, delVars, xmitVars, rm_pc,
                 pktVars, statVars>>

-----------------------------------------------------------------------------
(***************************************************************************)
(* net_xmit_delayed_work_handler, the work item `delayed'.                 *)
(***************************************************************************)
DelayedStart ==
  /\ del_pending /\ ~del_running
  /\ del_pending' = FALSE
  /\ del_running' = TRUE
  /\ UNCHANGED <<privVars, queueVars, immVars, xmitVars, rm_pc, pktVars, statVars>>

(* Under shutdown_lock: kick `immediate', unless shut down. *)
DelayedKick ==
  /\ del_running
  /\ del_running' = FALSE
  /\ imm_pending' = (imm_pending \/ (is_delayed /\ Alive))
  /\ UNCHANGED <<privVars, queueVars, imm_pc, del_pending, xmitVars, rm_pc,
                 pktVars, statVars>>

-----------------------------------------------------------------------------
(***************************************************************************)
(* rpmsg_eth_remove.                                                       *)
(***************************************************************************)
RemoveShutdown ==
  /\ rm_pc = "none"
  /\ is_shutdown' = TRUE
  /\ StopQueue
  /\ rm_pc' = "cancel_delayed"
  /\ UNCHANGED <<skb, is_delayed, up, opens, immVars, delVars, xmitVars, pktVars, statVars>>

(* cancel_delayed_work_sync returns once the work is neither armed nor
   running. *)
RemoveCancelDelayed ==
  /\ rm_pc = "cancel_delayed" /\ ~del_running
  /\ del_pending' = FALSE
  /\ rm_pc' = "cancel_immediate"
  /\ UNCHANGED <<privVars, queueVars, immVars, del_running, xmitVars, pktVars, statVars>>

(* cancel_work_sync, likewise. *)
RemoveCancelImmediate ==
  /\ rm_pc = "cancel_immediate" /\ imm_pc = "idle"
  /\ imm_pending' = FALSE
  /\ rm_pc' = "free_skb"
  /\ UNCHANGED <<privVars, queueVars, imm_pc, delVars, xmitVars, pktVars, statVars>>

ReleaseSkb == \/ skb # NULL /\ Consume(skb)
              \/ skb = NULL /\ UNCHANGED own

RemoveFreeSkb ==
  /\ rm_pc = "free_skb"
  /\ ReleaseSkb
  /\ skb' = NULL
  /\ rm_pc' = "unregister"
  /\ UNCHANGED <<is_delayed, is_shutdown, queueVars, immVars, delVars, xmitVars,
                 attempts, wire, statVars>>

(* unregister_netdev closes an open device (ndo_stop) and waits for the
   ndo_start_xmit calls in progress. *)
RemoveUnregister ==
  /\ rm_pc = "unregister" /\ xmit_pc = "idle"
  /\ up' = FALSE
  /\ xoff' = (xoff \/ up)
  /\ rm_pc' = "free_netdev"
  /\ UNCHANGED <<opens, privVars, immVars, delVars, xmitVars, pktVars, statVars>>

RemoveFreeNetdev ==
  /\ rm_pc = "free_netdev"
  /\ rm_pc' = "removed"
  /\ UNCHANGED <<privVars, queueVars, immVars, delVars, xmitVars, pktVars, statVars>>

-----------------------------------------------------------------------------
XmitStep   == XmitEnqueue \/ XmitDrop \/ XmitStats
WorkStep   == WorkCheck \/ WorkSend \/ WorkRetry \/ WorkCleanup \/ WorkNull \/ WorkWake
RemoveStep == \/ RemoveCancelDelayed \/ RemoveCancelImmediate \/ RemoveFreeSkb
              \/ RemoveUnregister \/ RemoveFreeNetdev

Next ==
  \/ Open \/ Stop
  \/ \E s \in Skb : XmitStopQueue(s)
  \/ XmitStep
  \/ WorkStart \/ WorkStep
  \/ DelayedStart \/ DelayedKick
  \/ RemoveShutdown \/ RemoveStep

Spec == Init /\ [][Next]_vars

-----------------------------------------------------------------------------
(***************************************************************************)
(* Fairness: the kernel runs scheduled work, expires timers and lets a     *)
(* call that has started go on; nobody has to open, stop, transmit or      *)
(* remove.                                                                 *)
(***************************************************************************)
Fairness ==
  /\ WF_vars(XmitStep)
  /\ WF_vars(WorkStart) /\ WF_vars(WorkStep)
  /\ WF_vars(DelayedStart) /\ WF_vars(DelayedKick)
  /\ WF_vars(RemoveStep)

FairSpec == Spec /\ Fairness

-----------------------------------------------------------------------------
(* rpmsg_eth_remove is past cancel_work_sync. *)
Cancelled == rm_pc \in {"free_skb", "unregister", "free_netdev", "removed"}

(***************************************************************************)
(* Once rpmsg_eth_remove has cancelled both work items (lines 293-294),    *)
(* neither is queued or running again, and once it has freed priv->skb     *)
(* (300-303) nobody sets it: the two comments marked "invariant".  It is   *)
(* what makes free_netdev at line 307 safe.                                *)
(***************************************************************************)
RemoveQuiesces ==
  /\ Cancelled => /\ ~imm_pending /\ imm_pc = "idle"
                  /\ ~del_pending /\ ~del_running
  /\ Cancelled /\ rm_pc # "free_skb" => skb = NULL
  /\ ~Registered => xmit_pc = "idle" /\ ~up

(***************************************************************************)
(* No packet is given back to the stack twice, whoever gets there first:   *)
(* the work handler (line 161), the shutdown path of rpmsg_eth_xmit (87)   *)
(* or rpmsg_eth_remove (301).                                              *)
(***************************************************************************)
ConsumedOnce == \A s \in Skb : own[s] # "consumed_twice"

(***************************************************************************)
(* When the work handler reaches rpmsg_trysend (line 124), which reads     *)
(* priv->skb again after the NULL test, it holds a packet the driver still *)
(* owns.                                                                   *)
(***************************************************************************)
SendsOwnedPacket == imm_pc = "send" => skb # NULL /\ own[skb] = "driver"

(***************************************************************************)
(* Packets belong to the driver from rpmsg_eth_xmit until they are given   *)
(* back: whoever reads priv->skb without the lock (lines 119-124,          *)
(* 160-162) sends only what the driver owns, and nobody gives a packet     *)
(* back twice.                                                             *)
(***************************************************************************)
Ownership == ConsumedOnce /\ SendsOwnedPacket

(* No packet goes on the wire twice, retries included (lines 124-156). *)
SentOnce == \A i, j \in 1..Len(wire) : wire[i] = wire[j] => i = j

(***************************************************************************)
(* As long as the interface has been opened only once, the queue is        *)
(* stopped while priv->skb is in use (lines 74, 80, 170), so rpmsg_eth_xmit *)
(* never overwrites it.                                                    *)
(***************************************************************************)
OneFrameInFlight == opens <= 1 => (skb # NULL => xoff)

(***************************************************************************)
(* As long as the interface has been opened only once, every packet the    *)
(* driver owns is reachable: it is priv->skb or the argument of the call   *)
(* of rpmsg_eth_xmit in progress.  Nothing is leaked, in particular not    *)
(* when a retry is abandoned for a shutdown (lines 146-154).               *)
(***************************************************************************)
NoLeak ==
  opens <= 1 =>
    \A s \in Skb : own[s] = "driver" =>
      s = skb \/ (xmit_pc \in {"enqueue", "drop"} /\ s = xmit_skb)

(***************************************************************************)
(* As long as the interface has been opened only once, is_delayed tells    *)
(* the first attempt from the second (lines 126-136): a packet is dropped  *)
(* for a full ring only after exactly two attempts.                        *)
(***************************************************************************)
RetryIsSecondAttempt ==
  opens <= 1 =>
    (imm_pc = "send" => attempts[skb] = IF is_delayed THEN 1 ELSE 0)

(***************************************************************************)
(* An interface that is opened once handles one packet at a time from      *)
(* rpmsg_eth_xmit to its return (lines 68-173): it is not overwritten,     *)
(* not leaked by an abandoned retry, and has two attempts of its own.      *)
(***************************************************************************)
OpenedOnceSafe == OneFrameInFlight /\ NoLeak /\ RetryIsSecondAttempt

(***************************************************************************)
(* After is_shutdown is set (line 285) no work item is scheduled and the   *)
(* work handler does not wake the queue (comments at 289-290 and 296-297). *)
(* Only opening the device again starts the queue.                         *)
(***************************************************************************)
NothingStartsAfterShutdown ==
  [][is_shutdown => /\ imm_pending' => imm_pending
                    /\ del_pending' => del_pending
                    /\ (xoff /\ ~xoff') => opens' # opens]_vars

(***************************************************************************)
(* A stopped queue of an open interface is started again unless the        *)
(* interface is closed or removed: a full ring delays the transmitter      *)
(* (line 142) and never wedges it.                                         *)
(***************************************************************************)
QueueResumes == (up /\ xoff) ~> (~xoff \/ ~up \/ is_shutdown)

(***************************************************************************)
(* Every packet handed to rpmsg_eth_xmit goes back to the stack, sent or   *)
(* dropped, unless the interface is opened a second time.                  *)
(***************************************************************************)
PacketsReturned ==
  \A s \in Skb : (own[s] = "driver") ~> (own[s] = "consumed" \/ opens > 1)

(***************************************************************************)
(* rpmsg_eth_remove terminates: cancelling the work items and waiting for  *)
(* a lingering rpmsg_eth_xmit never blocks it for ever.                    *)
(***************************************************************************)
RemoveTerminates == (rm_pc # "none") ~> (rm_pc = "removed")

(***************************************************************************)
(* What was begun is finished: a packet accepted at line 68 is given       *)
(* back, and a removal begun at line 278 returns.                          *)
(***************************************************************************)
CallsComplete == PacketsReturned /\ RemoveTerminates

-----------------------------------------------------------------------------
(***************************************************************************)
(* What comments in the code say and the code does not ensure.             *)
(***************************************************************************)

(* Line 159, "return the skb to the network stack": a packet that was given
   back is not used any more, by the statistics at line 92 either, while the
   device stays (a removal adds the drop path of line 87). *)
NoUseAfterReturn == xmit_pc = "stats" /\ ~is_shutdown => own[xmit_skb] = "driver"

(* Line 74, "stop the net device transmitter. will be re-enabled by the work
   queue": while a frame is in priv->skb the transmitter is stopped. *)
ReenabledByWorkQueue == skb # NULL => xoff

=============================================================================
