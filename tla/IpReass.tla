------------------------------- MODULE IpReass -------------------------------
(***************************************************************************)
(* Reassembly of IPv4 fragments (core/ipv4/ip4_frag.c, lines 53-693), in   *)
(* the tcpip thread.  A fragment fills one pbuf: rpmsg frames are shorter  *)
(* than PBUF_POOL_BUFSIZE, so pbuf_clen is 1, and the loop of              *)
(* ip_reass_remove_oldest_datagram ends after one datagram.                *)
(*                                                                         *)
(* Offsets count units of eight bytes.  The functions take the state of    *)
(* the reassembly as a record, and RxPath uses them too:                   *)
(*   list  : the datagrams of reassdatagrams, newest first                 *)
(*   ipr   : the struct ip_reassdata of each datagram                      *)
(*   count : ip_reass_pbufcount                                            *)
(*   freed : the pbufs given to pbuf_free                                  *)
(*   out   : the datagram returned, as its pbufs and its length            *)
(***************************************************************************)
EXTENDS Integers, Sequences, FiniteSets

CONSTANTS
  Pbuf,          \* the pbufs of the pool
  Id,            \* source, destination and identification of a datagram
  Fragment,      \* the fragments senders put on the wire
  MaxPbufs,      \* IP_REASS_MAX_PBUFS
  NumReassdata,  \* MEMP_NUM_REASSDATA
  MaxAge,        \* IP_REASS_MAXAGE
  MaxLen,        \* the longest datagram, 0xFFFF - IP_HLEN
  MaxEnd         \* the end of a fragment that does not overflow a u16_t

ASSUME ReassAssumption ==
  /\ IsFiniteSet(Pbuf) /\ Fragment # {}
  /\ MaxPbufs \in Nat \ {0} /\ NumReassdata \in Nat \ {0} /\ MaxAge \in Nat /\ MaxLen \in Nat /\ MaxEnd \in Nat
  /\ \A f \in Fragment :
       /\ f.id \in Id /\ f.start \in Nat /\ f.end \in Nat /\ f.start < f.end
       /\ f.last \in BOOLEAN /\ f.options \in BOOLEAN

NoData == [frags |-> {}, last |-> FALSE, len |-> 0, timer |-> 0]
NoOut == [frags |-> {}, len |-> 0]

-----------------------------------------------------------------------------
IdsOf(list) == {list[i] : i \in DOMAIN list}

(* The list without the datagrams of S; the others keep their order. *)
Without(list, S) ==
  LET kept[i \in 0..Len(list)] ==
        IF i = 0 THEN <<>>
        ELSE IF list[i] \in S THEN kept[i - 1] ELSE Append(kept[i - 1], list[i])
  IN  kept[Len(list)]

Dequeue(s, d) ==      \* ip_reass_dequeue_datagram
  [s EXCEPT !.list = Without(@, {d}), !.ipr[d] = NoData]

FreeComplete(s, d) ==
  [Dequeue(s, d) EXCEPT !.freed = @ \cup s.ipr[d].frags,
                        !.count = @ - Cardinality(s.ipr[d].frags)]

(* The datagram with the lowest timer other than d; of several, the one
   furthest down the list. *)
Oldest(s, d) ==
  LET other == {i \in DOMAIN s.list : s.list[i] # d}
      age(i) == s.ipr[s.list[i]].timer
  IN  s.list[CHOOSE i \in other : \A j \in other : age(i) < age(j) \/ (age(i) = age(j) /\ j <= i)]

RemoveOldest(s, d) ==
  IF IdsOf(s.list) \subseteq {d} THEN s ELSE FreeComplete(s, Oldest(s, d))

EnqueueNew(s, d) ==   \* ip_reass_enqueue_new_datagram, given a free struct
  [s EXCEPT !.list = <<d>> \o @, !.ipr[d] = [NoData EXCEPT !.timer = MaxAge]]

-----------------------------------------------------------------------------
(* ip_reass_chain_frag_into_datagram_and_validate on the fragment in pbuf p.
   The fragments of a datagram do not overlap, so comparing p with each of
   them is what the walk along the sorted list does. *)
OverlapsStartOnly(f, g) == f.start = g.start         \* mutant: IP_REASS_CHECK_OVERLAP 0
Overlaps(f, g) == f.start = g.start \/ (f.start < g.end /\ g.start < f.end)

TooLongNever(f) == FALSE                             \* mutant: no test for overflow
TooLong(f) == f.end > MaxEnd \/ (f.last /\ f.end > MaxLen)
Dropped(s, pkt, p) ==
  TooLong(pkt[p]) \/ \E q \in s.ipr[pkt[p].id].frags : Overlaps(pkt[p], pkt[q])

(* From offset 0 on, every fragment but one is followed by the next. *)
NoHoles(pkt, S) ==
  /\ \E q \in S : pkt[q].start = 0
  /\ Cardinality({q \in S : \A r \in S : pkt[r].start # pkt[q].end}) = 1

NoteLast(e, f) == IF f.last THEN [e EXCEPT !.last = TRUE, !.len = f.end] ELSE e

Chain(s, pkt, p) ==
  LET d == pkt[p].id
      e == NoteLast([s.ipr[d] EXCEPT !.frags = @ \cup {p}], pkt[p])
  IN  IF e.last /\ NoHoles(pkt, e.frags)
      THEN [Dequeue(s, d) EXCEPT !.count = @ + 1 - Cardinality(e.frags),
                                 !.out = [frags |-> e.frags, len |-> e.len]]
      ELSE [s EXCEPT !.ipr[d] = e, !.count = @ + 1]

-----------------------------------------------------------------------------
(* ip4_reass *)
NullReturn(s, p) == [s EXCEPT !.freed = @ \cup {p}]

NullReturnIprKeeps(s, d, p) == NullReturn(s, p)      \* mutant: the new entry stays
NullReturnIpr(s, d, p) ==
  NullReturn(IF s.ipr[d].frags = {} THEN Dequeue(s, d) ELSE s, p)

OverLimit(s) == s.count + 1 > MaxPbufs

MakeRoom(s, d) == IF OverLimit(s) THEN RemoveOldest(s, d) ELSE s

(* A struct for datagram d, if need be that of the oldest other one. *)
FindStruct(s, d) ==
  IF d \in IdsOf(s.list) \/ Len(s.list) < NumReassdata THEN s ELSE RemoveOldest(s, d)
NoStruct(s, d) == d \notin IdsOf(s.list) /\ Len(s.list) >= NumReassdata
Lookup(s, d) == IF d \in IdsOf(s.list) THEN s ELSE EnqueueNew(s, d)

Ip4Reass(s, pkt, p) ==
  LET d == pkt[p].id
      r == MakeRoom(s, d)
      t == FindStruct(r, d)
      u == Lookup(t, d)
  IN  IF pkt[p].options THEN NullReturn(s, p)
      ELSE IF OverLimit(r) THEN NullReturn(r, p)
      ELSE IF NoStruct(t, d) THEN NullReturn(t, p)
      ELSE IF Dropped(u, pkt, p) THEN NullReturnIpr(u, d, p)
      ELSE Chain(u, pkt, p)

(* ip_reass_tmr: the expired datagrams go, the others age. *)
AgedHead(s) == {s.list[1]}                           \* mutant: stops after the first
Aged(s) == IdsOf(s.list)
ReassTmr(s) ==
  LET expired == {d \in Aged(s) : s.ipr[d].timer = 0}
      gone == UNION {s.ipr[d].frags : d \in expired}
  IN  [s EXCEPT !.list = Without(@, expired),
                !.ipr = [d \in Id |-> IF d \in expired THEN NoData
                                      ELSE IF d \in Aged(s) THEN [s.ipr[d] EXCEPT !.timer = @ - 1]
                                      ELSE s.ipr[d]],
                !.count = @ - Cardinality(gone), !.freed = @ \cup gone]

-----------------------------------------------------------------------------
(* The reassembly alone: fragments arrive in any order, any number of times,
   or never. *)
VARIABLES
  reass,   \* list, ipr and count, with freed and out of the last call
  pkt,     \* the fragment in each pbuf that is in use or was just returned
  pool     \* the free pbufs

vars == <<reass, pkt, pool>>

Blank == CHOOSE f \in Fragment : TRUE
InitReass == [list |-> <<>>, ipr |-> [d \in Id |-> NoData], count |-> 0, freed |-> {}, out |-> NoOut]

Init ==
  /\ reass = InitReass
  /\ pkt = [p \in Pbuf |-> Blank]
  /\ pool = Pbuf

Call(s) == [s EXCEPT !.freed = {}, !.out = NoOut]

(* Any pbuf of the pool is as good as another.  What ip4_reass returns goes
   up the stack, which frees it. *)
Receive(f) ==
  /\ pool # {}
  /\ LET p == CHOOSE q \in pool : TRUE
         filled == [q \in Pbuf |-> IF q = p THEN f ELSE IF q \in pool THEN Blank ELSE pkt[q]]
     IN  /\ reass' = Ip4Reass(Call(reass), filled, p)
         /\ pkt' = [q \in Pbuf |-> IF q \in reass'.freed THEN Blank ELSE filled[q]]
         /\ pool' = (pool \ {p}) \cup reass'.freed \cup reass'.out.frags

Tick ==
  /\ reass.list # <<>>
  /\ reass' = ReassTmr(Call(reass))
  /\ pool' = pool \cup reass'.freed
  /\ pkt' = [q \in Pbuf |-> IF q \in pool' THEN Blank ELSE pkt[q]]

Next == Tick \/ \E f \in Fragment : Receive(f)

(* ip_reass_tmr is a cyclic timer (timeouts.c, line 88). *)
Spec == Init /\ [][Next]_vars /\ WF_vars(Tick)

-----------------------------------------------------------------------------
Held == UNION {reass.ipr[d].frags : d \in Id}
Units(f) == f.start..(f.end - 1)

TypeOK ==
  /\ IdsOf(reass.list) \subseteq Id /\ reass.count \in Nat
  /\ reass.ipr \in [Id -> [frags : SUBSET Pbuf, last : BOOLEAN, len : 0..MaxLen, timer : 0..MaxAge]]
  /\ reass.freed \subseteq Pbuf /\ reass.out.frags \subseteq Pbuf
  /\ pkt \in [Pbuf -> Fragment] /\ pool \subseteq Pbuf

(***************************************************************************)
(* ip_reass_pbufcount is the number of pbufs enqueued, through every drop, *)
(* eviction, completion and timeout: a drift upwards would refuse every    *)
(* fragment for ever, one downwards would wrap the u16_t (line 211).       *)
(***************************************************************************)
CountExact == reass.count = Cardinality(Held)

(***************************************************************************)
(* A pbuf is in the pool or in one datagram, never in both and never in    *)
(* neither: no leak and no double free on any return path of ip4_reass.    *)
(***************************************************************************)
PbufsOwned ==
  /\ pool = Pbuf \ Held
  /\ \A d, e \in Id : d # e => reass.ipr[d].frags \cap reass.ipr[e].frags = {}

(***************************************************************************)
(* The limits hold, so that fragments cannot use up the pbuf pool, and     *)
(* every datagram of the list has a fragment: ip_reass_free_complete_      *)
(* datagram reads ipr->p without a test (line 178).                        *)
(***************************************************************************)
WithinLimits ==
  /\ reass.count <= MaxPbufs /\ Len(reass.list) <= NumReassdata
  /\ \A d \in Id : d \in IdsOf(reass.list) <=> reass.ipr[d].frags # {}

(***************************************************************************)
(* Whatever ip4_reass and ip_reass_tmr do with a fragment, the pbufs,      *)
(* their count and the entries stay in step (lines 113-692).               *)
(***************************************************************************)
ReassSane == CountExact /\ PbufsOwned /\ WithinLimits

(* Senders that agree on where each datagram ends, in fragments that are not
   too long to be taken. *)
Fits(f) == f.end <= MaxEnd /\ (f.last => f.end <= MaxLen)
SendersAgree ==
  \A f, g \in Fragment : f.id = g.id /\ f.last /\ Fits(f) /\ Fits(g) => g.end <= f.end

(***************************************************************************)
(* What ip4_reass returns is one whole datagram: each unit of it once, and *)
(* the length written into the header is the length of the chain, for      *)
(* senders whose fragments agree on where the datagram ends.               *)
(***************************************************************************)
ReturnsWhole ==
  LET o == reass.out
  IN  o # NoOut =>
        /\ UNION {Units(pkt[p]) : p \in o.frags} = 0..(o.len - 1)
        /\ \A p, q \in o.frags : p # q => Units(pkt[p]) \cap Units(pkt[q]) = {}
        /\ Cardinality({pkt[p].id : p \in o.frags}) = 1

(***************************************************************************)
(* No datagram waits although all of it is here: the fragment that fills   *)
(* the last hole completes it, whatever the order of arrival (lines        *)
(* 456-490).                                                               *)
(***************************************************************************)
NoneComplete ==
  \A d \in Id :
    LET S == reass.ipr[d].frags
    IN  \A q \in S : pkt[q].last => UNION {Units(pkt[p]) : p \in S} # 0..(pkt[q].end - 1)

(***************************************************************************)
(* A datagram is returned when it is whole, not earlier and not later      *)
(* (lines 419-490, 596-677).                                               *)
(***************************************************************************)
ReturnedWhenWhole == ReturnsWhole /\ NoneComplete

(* An enqueued pbuf comes back, even if fragments of its datagram keep
   arriving: the timer is set once (line 301). *)
FragmentsReleased == \A p \in Pbuf : p \in Held ~> p \in pool

=============================================================================
