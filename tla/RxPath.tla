------------------------------- MODULE RxPath -------------------------------
(***************************************************************************)
(* The way of a received frame through the FreeRTOS side: the rpmsg        *)
(* callback of the driver (freertos/rpmsg_eth.c, lines 104-144) takes a    *)
(* pbuf from the pool (core/pbuf.c), tcpip_inpkt posts it to the mailbox   *)
(* of the tcpip thread (api/tcpip.c, sys_arch.c), the thread hands it to   *)
(* reassembly (IpReass), to TCP's out-of-sequence queue or to the mailbox  *)
(* of a netconn, and an application task frees it.                         *)
(*                                                                         *)
(* When the pool is empty the callback asks the thread to drop the         *)
(* out-of-sequence segments of a connection, once, with a flag and a       *)
(* message that may find no room.  Other tasks post callbacks of their own *)
(* (tcpip_callback, tcpip_try_callback).  memp_malloc, memp_free and the   *)
(* queue operations of FreeRTOS are critical sections: one step each.      *)
(***************************************************************************)
EXTENDS Integers, Sequences, FiniteSets

CONSTANTS
  Pbuf, Id, Fragment, MaxPbufs, NumReassdata, MaxAge, MaxLen, MaxEnd,   \* as in IpReass
  Conn,        \* TCP connections with an out-of-sequence queue
  NumInpkt,    \* MEMP_NUM_TCPIP_MSG_INPKT
  NumApi,      \* MEMP_NUM_TCPIP_MSG_API
  MboxSize,    \* TCPIP_MBOX_SIZE
  RecvSize     \* DEFAULT_UDP_RECVMBOX_SIZE

ASSUME SizeAssumption ==
  NumInpkt \in Nat /\ NumApi \in Nat /\ MboxSize \in Nat \ {0} /\ RecvSize \in Nat

VARIABLES
  pool, pkt, reass,  \* as in IpReass
  rx,        \* the rpmsg callback: where it is, and its pbuf
  mbox,      \* tcpip_mbox
  inpkts,    \* free messages of MEMP_TCPIP_MSG_INPKT
  apis,      \* free messages of MEMP_TCPIP_MSG_API
  pending,   \* pbuf_free_ooseq_pending
  thread,    \* the message tcpip_thread handles, with how far it got
  ooseq,     \* the pbufs on the out-of-sequence queues
  recvmbox,  \* the datagrams in the mailbox of the netconn
  app,       \* the datagram the application reads
  poster     \* a task in tcpip_callback or tcpip_try_callback with its message

R == INSTANCE IpReass
ASSUME ReassParameters == R!ReassAssumption

netVars == <<reass, ooseq, recvmbox>>
vars == <<pool, pkt, reass, rx, mbox, inpkts, apis, pending, thread, ooseq, recvmbox, app, poster>>

None == [type |-> "none", p |-> {}]
Packet == Fragment \cup {[kind |-> k, conn |-> 0] : k \in {"unknown", "dropped", "udp"}}
                   \cup {[kind |-> "ooseq", conn |-> c] : c \in Conn}
Kind(p) == IF pkt[p] \in Fragment THEN "fragment" ELSE pkt[p].kind
Msg(t, S) == [type |-> t, p |-> S]
Forget(S) == pkt' = [p \in Pbuf |-> IF p \in S THEN R!Blank ELSE pkt[p]]   \* no one reads S again
Give(S) == pool' = pool \cup S /\ Forget(S)          \* pbuf_free of a pbuf of the pool
Room == Len(mbox) < MboxSize

Init ==
  /\ pool = Pbuf /\ pkt = [p \in Pbuf |-> R!Blank] /\ reass = R!InitReass
  /\ rx = Msg("idle", {}) /\ mbox = <<>>
  /\ inpkts = NumInpkt /\ apis = NumApi /\ pending = FALSE
  /\ thread = None /\ ooseq = {} /\ recvmbox = <<>> /\ app = {} /\ poster = "none"

-----------------------------------------------------------------------------
(* rpmsg_endpoint_cb: pbuf_alloc of PBUF_POOL, and pbuf_take. *)
RxAlloc(f) ==
  /\ rx.type = "idle"
  /\ \/ /\ pool # {}
        /\ LET p == CHOOSE q \in pool : TRUE
           IN  /\ rx' = Msg("input", {p}) /\ pool' = pool \ {p}
               /\ pkt' = [pkt EXCEPT ![p] = f]
     \/ /\ pool = {} /\ rx' = Msg("empty", {}) /\ UNCHANGED <<pool, pkt>>
  /\ UNCHANGED <<netVars, mbox, inpkts, apis, pending, thread, app, poster>>

(* pbuf_pool_is_empty *)
RxMark ==
  /\ rx.type = "empty"
  /\ pending' = TRUE
  /\ rx' = Msg(IF pending THEN "idle" ELSE "reclaim", {})
  /\ UNCHANGED <<pool, pkt, netVars, mbox, inpkts, apis, thread, app, poster>>

(* tcpip_try_callback(pbuf_free_ooseq_callback): the message, then the post. *)
RxReclaim ==
  /\ rx.type = "reclaim"
  /\ \/ apis > 0 /\ apis' = apis - 1 /\ rx' = Msg("postreclaim", {})
     \/ apis = 0 /\ rx' = Msg("unmark", {}) /\ UNCHANGED apis
  /\ UNCHANGED <<pool, pkt, netVars, mbox, inpkts, pending, thread, app, poster>>

RxPostReclaim ==
  /\ rx.type = "postreclaim"
  /\ \/ Room /\ mbox' = Append(mbox, Msg("reclaim", {})) /\ rx' = Msg("idle", {}) /\ UNCHANGED apis
     \/ ~Room /\ apis' = apis + 1 /\ rx' = Msg("unmark", {}) /\ UNCHANGED mbox
  /\ UNCHANGED <<pool, pkt, netVars, inpkts, pending, thread, app, poster>>

UnmarkNot == UNCHANGED pending                       \* mutant: no PBUF_POOL_FREE_OOSEQ_QUEUE_CALL
Unmark == pending' = FALSE
RxUnmark ==
  /\ rx.type = "unmark" /\ Unmark /\ rx' = Msg("idle", {})
  /\ UNCHANGED <<pool, pkt, netVars, mbox, inpkts, apis, thread, app, poster>>

(* The switch on the type of frame, and tcpip_inpkt up to its message.
   A frame that is not passed on is freed. *)
InpktRefusedLeaks(S) == UNCHANGED <<pool, pkt>>      \* mutant: netif->input's error ignored
InpktRefused(S) == Give(S)
RxInput ==
  /\ rx.type = "input"
  /\ LET known == \A p \in rx.p : Kind(p) # "unknown"
     IN  \/ /\ known /\ inpkts > 0
            /\ inpkts' = inpkts - 1 /\ rx' = Msg("post", rx.p) /\ UNCHANGED <<pool, pkt>>
         \/ /\ known /\ inpkts = 0
            /\ InpktRefused(rx.p) /\ rx' = Msg("idle", {}) /\ UNCHANGED inpkts
         \/ /\ ~known
            /\ Give(rx.p) /\ rx' = Msg("idle", {}) /\ UNCHANGED inpkts
  /\ UNCHANGED <<netVars, mbox, apis, pending, thread, app, poster>>

RxPost ==
  /\ rx.type = "post"
  /\ \/ /\ Room /\ mbox' = Append(mbox, Msg("inpkt", rx.p)) /\ UNCHANGED <<pool, pkt, inpkts>>
     \/ /\ ~Room /\ inpkts' = inpkts + 1 /\ InpktRefused(rx.p) /\ UNCHANGED mbox
  /\ rx' = Msg("idle", {})
  /\ UNCHANGED <<netVars, apis, pending, thread, app, poster>>

-----------------------------------------------------------------------------
(* tcpip_thread takes a message. *)
ThreadFetch ==
  /\ thread = None /\ mbox # <<>>
  /\ thread' = Head(mbox) /\ mbox' = Tail(mbox)
  /\ UNCHANGED <<pool, pkt, netVars, rx, inpkts, apis, pending, app, poster>>

(* recv_udp: a datagram that finds the mailbox of the netconn full, no netbuf
   left or the receive buffer used up is freed. *)
Deliver(S, freed) ==
  \/ Len(recvmbox) < RecvSize /\ recvmbox' = Append(recvmbox, S)
                              /\ pool' = pool \cup freed /\ Forget(freed \cup S)
  \/ Give(freed \cup S) /\ UNCHANGED recvmbox

(* ethernet_input: what the packet in the message becomes. *)
InputFragment(p) ==
  /\ Kind(p) = "fragment"
  /\ LET r == R!Ip4Reass(R!Call(reass), pkt, p)
     IN  /\ reass' = R!Call(r)
         /\ \/ r.out = R!NoOut /\ Give(r.freed) /\ UNCHANGED recvmbox
            \/ r.out # R!NoOut /\ Deliver(r.out.frags, r.freed)
  /\ UNCHANGED ooseq

InputPacket(p) ==
  /\ \/ Kind(p) = "udp" /\ Deliver({p}, {}) /\ UNCHANGED ooseq
     \/ Kind(p) = "ooseq" /\ ooseq' = ooseq \cup {p} /\ UNCHANGED <<pool, pkt, recvmbox>>
     \/ Kind(p) = "dropped" /\ Give({p}) /\ UNCHANGED <<ooseq, recvmbox>>
  /\ UNCHANGED reass

ThreadInput ==
  /\ thread.type = "inpkt"
  /\ \E p \in thread.p : InputFragment(p) \/ InputPacket(p)
  /\ thread' = Msg("handled", {})
  /\ UNCHANGED <<rx, mbox, inpkts, apis, pending, app, poster>>

ThreadFreeInpkt ==
  /\ thread.type = "handled"
  /\ inpkts' = inpkts + 1 /\ thread' = None
  /\ UNCHANGED <<pool, pkt, netVars, rx, mbox, apis, pending, app, poster>>

(* pbuf_free_ooseq: first the flag, then one connection's segments. *)
ThreadUnmark ==
  /\ thread.type = "reclaim"
  /\ pending' = FALSE /\ thread' = Msg("unmarked", {})
  /\ UNCHANGED <<pool, pkt, netVars, rx, mbox, inpkts, apis, app, poster>>

OoseqOf(c) == {p \in ooseq : pkt[p].conn = c}
FreeOoseqNot == UNCHANGED <<ooseq, pool, pkt>>         \* mutant: nothing is freed
FreeOoseq ==
  \/ ooseq = {} /\ UNCHANGED <<ooseq, pool, pkt>>
  \/ \E c \in Conn : OoseqOf(c) # {} /\ ooseq' = ooseq \ OoseqOf(c) /\ Give(OoseqOf(c))

ThreadReclaim ==
  /\ thread.type = "unmarked"
  /\ FreeOoseq
  /\ apis' = apis + 1 /\ thread' = None
  /\ UNCHANGED <<reass, recvmbox, rx, mbox, inpkts, pending, app, poster>>

ReturnApiTwice == apis + 2                           \* mutant: freed by the callback too
ReturnApi == apis + 1
ThreadCallback ==
  /\ thread.type = "callback"
  /\ apis' = ReturnApi /\ thread' = None
  /\ UNCHANGED <<pool, pkt, netVars, rx, mbox, inpkts, pending, app, poster>>

(* ip_reass_tmr, run between two messages. *)
ThreadTick ==
  /\ thread = None /\ reass.list # <<>>
  /\ LET r == R!ReassTmr(R!Call(reass))
     IN  reass' = R!Call(r) /\ Give(r.freed)
  /\ UNCHANGED <<ooseq, recvmbox, rx, mbox, inpkts, apis, pending, thread, app, poster>>

-----------------------------------------------------------------------------
(* The application reads a datagram and frees it. *)
AppRecv ==
  /\ app = {} /\ recvmbox # <<>>
  /\ app' = Head(recvmbox) /\ recvmbox' = Tail(recvmbox)
  /\ UNCHANGED <<pool, pkt, reass, ooseq, rx, mbox, inpkts, apis, pending, thread, poster>>

AppFree ==
  /\ app # {} /\ Give(app) /\ app' = {}
  /\ UNCHANGED <<netVars, rx, mbox, inpkts, apis, pending, thread, poster>>

(* Another task in tcpip_callback, which waits for room, or in
   tcpip_try_callback, which gives its message back. *)
CallbackNew(how) ==
  /\ poster = "none" /\ apis > 0
  /\ apis' = apis - 1 /\ poster' = how
  /\ UNCHANGED <<pool, pkt, netVars, rx, mbox, inpkts, pending, thread, app>>

CallbackPost ==
  /\ poster # "none"
  /\ \/ Room /\ mbox' = Append(mbox, Msg("callback", {})) /\ UNCHANGED apis
     \/ ~Room /\ poster = "try" /\ apis' = apis + 1 /\ UNCHANGED mbox
  /\ poster' = "none"
  /\ UNCHANGED <<pool, pkt, netVars, rx, inpkts, pending, thread, app>>

-----------------------------------------------------------------------------
RxStep == RxMark \/ RxReclaim \/ RxPostReclaim \/ RxUnmark \/ RxInput \/ RxPost
ThreadStep == ThreadFetch \/ ThreadInput \/ ThreadFreeInpkt \/ ThreadUnmark \/ ThreadReclaim \/ ThreadCallback
AppStep == AppRecv \/ AppFree
Arrival == \E f \in Packet : RxAlloc(f)

Next ==
  \/ Arrival \/ RxStep \/ ThreadStep \/ ThreadTick \/ AppStep
  \/ \E how \in {"wait", "try"} : CallbackNew(how)
  \/ CallbackPost

(***************************************************************************)
(* Tasks that can run do.  The thread looks at its timers before every     *)
(* fetch (tcpip.c, lines 89-102), so messages cannot starve a timer.  The  *)
(* peer goes on sending: it retransmits while segments are out of sequence.*)
(***************************************************************************)
Spec ==
  /\ Init /\ [][Next]_vars
  /\ WF_vars(RxStep) /\ WF_vars(Arrival) /\ WF_vars(ThreadStep) /\ SF_vars(ThreadTick)
  /\ WF_vars(AppStep) /\ WF_vars(CallbackPost)

-----------------------------------------------------------------------------
InMbox(t) == {i \in DOMAIN mbox : mbox[i].type = t}
Carried == [i \in DOMAIN mbox |-> mbox[i].p] \o recvmbox \o <<rx.p, thread.p, app, ooseq, R!Held, pool>>
Busy(b) == IF b THEN 1 ELSE 0

TypeOK ==
  /\ pool \subseteq Pbuf /\ pkt \in [Pbuf -> Packet] /\ ooseq \subseteq Pbuf /\ app \subseteq Pbuf
  /\ rx \in [type : {"idle", "empty", "reclaim", "postreclaim", "unmark", "input", "post"}, p : SUBSET Pbuf]
  /\ Len(mbox) <= MboxSize /\ Len(recvmbox) <= RecvSize
  /\ inpkts \in 0..NumInpkt /\ apis \in 0..NumApi /\ pending \in BOOLEAN
  /\ thread.type \in {"none", "inpkt", "handled", "reclaim", "unmarked", "callback"}
  /\ poster \in {"none", "wait", "try"}

(***************************************************************************)
(* Every pbuf is in one place: the pool, the callback, a message, the      *)
(* thread, reassembly, an out-of-sequence queue or the application.  When  *)
(* the message pool is empty or the mailbox full, tcpip_inpkt gives the    *)
(* pbuf back and the driver frees it once (tcpip.c:261, rpmsg_eth.c:131).  *)
(***************************************************************************)
PbufsConserved ==
  /\ UNION {Carried[i] : i \in DOMAIN Carried} = Pbuf
  /\ \A i, j \in DOMAIN Carried : i # j => Carried[i] \cap Carried[j] = {}

(***************************************************************************)
(* Every message is free, queued, or in the hands of one task.  Hence the  *)
(* mailbox holds at most NumInpkt + NumApi messages, and with the shipped  *)
(* sizes (64 + 16 against 200) no post ever fails or blocks.               *)
(***************************************************************************)
MessagesConserved ==
  /\ inpkts + Cardinality(InMbox("inpkt"))
       + Busy(rx.type = "post") + Busy(thread.type \in {"inpkt", "handled"}) = NumInpkt
  /\ apis + Cardinality(InMbox("callback")) + Cardinality(InMbox("reclaim"))
       + Busy(rx.type = "postreclaim") + Busy(poster # "none")
       + Busy(thread.type \in {"callback", "reclaim", "unmarked"}) = NumApi

(***************************************************************************)
(* On every path of a frame, the refused and discarded ones included, no   *)
(* pbuf and no message is lost or given back twice (rpmsg_eth.c:104-144,   *)
(* tcpip.c:239-269 and 171-198, api_msg.c:217-282).                        *)
(***************************************************************************)
Conserved == PbufsConserved /\ MessagesConserved

(***************************************************************************)
(* pbuf_free_ooseq_pending is set only while a reclaim is on its way, or   *)
(* pbuf_pool_is_empty would never ask for one again (pbuf.c:169); and the  *)
(* flag keeps more than one from being queued.                             *)
(***************************************************************************)
PendingIsQueued ==
  LET onTheWay == Cardinality(InMbox("reclaim")) + Busy(thread.type = "reclaim")
                    + Busy(rx.type \in {"reclaim", "postreclaim", "unmark"})
  IN  onTheWay = Busy(pending)

(***************************************************************************)
(* If messages and mailbox do not stay exhausted, the receive path never   *)
(* stays without pbufs: whatever holds them lets go, the out-of-sequence   *)
(* queues because they are told to.                                        *)
(***************************************************************************)
PoolRefills == <>[](apis > 0 /\ Room) => []<>(pool # {})

=============================================================================
