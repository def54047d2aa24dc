------------------------------- MODULE EthArp -------------------------------
(***************************************************************************)
(* Address resolution (core/ipv4/etharp.c) on the one netif of this        *)
(* system: the ARP table, the packets that wait for an answer, and the     *)
(* index etharp_output keeps of the entry it used last.  All of it runs    *)
(* under the core lock, one call at a time; answers, timer ticks and       *)
(* packets to send come in any order, and an answer may never come.        *)
(*                                                                         *)
(* Addresses are those the table is asked for: etharp_output has chosen    *)
(* the gateway by then, and sends broadcasts and multicasts without it.    *)
(***************************************************************************)
EXTENDS Integers, Sequences, FiniteSets, FiniteSetsExt

CONSTANTS
  Ip, Mac,
  Watched,        \* the address whose repeated requests are observed
  TableSize,      \* ARP_TABLE_SIZE
  QueueLen,       \* ARP_QUEUE_LEN
  NumArpQueue,    \* MEMP_NUM_ARP_QUEUE
  MaxAge,         \* ARP_MAXAGE
  MaxPending,     \* ARP_MAXPENDING
  RerequestAge,   \* ARP_AGE_REREQUEST_USED_UNICAST
  MaxPackets      \* bound on the packets given for one pending entry

NoMac == "nomac"
NoIp == "noip"

ASSUME EthArpAssumption ==
  /\ Watched \in Ip /\ NoIp \notin Ip /\ NoMac \notin Mac /\ MaxPackets \in Nat
  /\ TableSize \in Nat \ {0} /\ QueueLen \in Nat \ {0} /\ NumArpQueue \in Nat
  /\ MaxAge \in Nat \ {0} /\ MaxPending \in 1..MaxAge /\ RerequestAge \in 2..MaxAge

Slot == 1..TableSize
Empty == [state |-> "empty", ip |-> NoIp, mac |-> NoMac, ctime |-> 0, q |-> <<>>]
Stable == {"stable", "rerequesting1", "rerequesting2"}

VARIABLES
  arp_table,
  cached,     \* etharp_cached_entry
  free,       \* free elements of MEMP_ARP_QUEUE
  wire,       \* the packets the last step sent, in order
  learned,    \* the hardware address last heard from each address
  asked       \* requests about Watched's stable entry since the last tick, and in the tick before

vars == <<arp_table, cached, free, wire, learned, asked>>

Init ==
  /\ arp_table = [i \in Slot |-> Empty] /\ cached = 1 /\ free = NumArpQueue
  /\ wire = <<>>
  /\ learned = [a \in Ip |-> NoMac] /\ asked = <<0, 0>>

-----------------------------------------------------------------------------
(* etharp_free_entry gives a slot's queue elements back. *)
FreedBy(i) == Len(arp_table[i].q)

(* The slot and the place of each packet that waits in table t. *)
InUse(t) == UNION {{i} \X DOMAIN t[i].q : i \in Slot}

Matching(a) == {i \in Slot : arp_table[i].state # "empty" /\ arp_table[i].ip = a}
Oldest(S) == CHOOSE i \in S :
  \A j \in S : arp_table[j].ctime < arp_table[i].ctime \/ (arp_table[j].ctime = arp_table[i].ctime /\ j <= i)

(* etharp_find_entry with ETHARP_FLAG_TRY_HARD and no match: an empty slot,
   else the least important one. *)
Recycle ==
  LET in(states) == {i \in Slot : arp_table[i].state \in states}
      waiting == {i \in in({"pending"}) : arp_table[i].q # <<>>}
  IN  IF in({"empty"}) # {} THEN Min(in({"empty"}))
      ELSE IF in(Stable) # {} THEN Oldest(in(Stable))
      ELSE IF in({"pending"}) \ waiting # {} THEN Oldest(in({"pending"}) \ waiting)
      ELSE Oldest(waiting)

FindEntry(a) == IF Matching(a) # {} THEN Min(Matching(a)) ELSE Recycle

(* The slot as etharp_find_entry leaves it. *)
Found(a, i) == IF i \in Matching(a) THEN arp_table[i] ELSE [Empty EXCEPT !.ip = a]
FreedForNone(a, i) == 0                              \* mutant: the old queue is forgotten
FreedFor(a, i) == IF i \in Matching(a) THEN 0 ELSE FreedBy(i)

Frame(a, mac, n) == [ip |-> a, mac |-> mac, n |-> n]

(* The number of the next packet for an address: after those that wait. *)
NextNumber(a) ==
  1 + Max({0} \cup UNION {{arp_table[i].q[k] : k \in DOMAIN arp_table[i].q} : i \in Matching(a)})

-----------------------------------------------------------------------------
(* etharp_tmr on one entry. *)
ExpiresStableOnly(e) == e.ctime + 1 >= MaxAge /\ e.state # "pending"   \* mutant: pending entries stay
Expires(e) == e.ctime + 1 >= MaxAge \/ (e.state = "pending" /\ e.ctime + 1 >= MaxPending)

NextStateAtOnce(s) == IF s = "pending" THEN s ELSE "stable"   \* mutant: no second tick
NextState(s) ==
  CASE s = "rerequesting1" -> "rerequesting2"
    [] s = "rerequesting2" -> "stable"
    [] OTHER -> s

Aged(e) ==
  IF e.state = "empty" THEN e
  ELSE IF Expires(e) THEN Empty
  ELSE [e EXCEPT !.ctime = IF @ < MaxAge THEN @ + 1 ELSE @, !.state = NextState(@)]

Tmr ==
  /\ arp_table' = [i \in Slot |-> Aged(arp_table[i])]
  /\ free' = free + Cardinality(InUse(arp_table) \ InUse(arp_table'))
  /\ asked' = <<0, asked[1]>>
  /\ wire' = <<>>
  /\ UNCHANGED <<cached, learned>>

(* etharp_update_arp_entry, which sends what was waiting. *)
Flush(e, mac) == [k \in 1..Len(e.q) |-> Frame(e.ip, mac, e.q[k])]

Update(e, mac) == [e EXCEPT !.state = "stable", !.mac = mac, !.ctime = 0, !.q = <<>>]

(* etharp_input: an address pair from an ARP message.  A message to another
   host only updates an entry that exists. *)
Input(a, mac, for_us) ==
  /\ learned' = [learned EXCEPT ![a] = IF for_us \/ Matching(a) # {} THEN mac ELSE @]
  /\ \/ /\ for_us \/ Matching(a) # {}
        /\ LET i == FindEntry(a)
               e == Found(a, i)
           IN  /\ arp_table' = [arp_table EXCEPT ![i] = Update(e, mac)]
               /\ wire' = Flush(e, mac)
               /\ free' = free + FreedFor(a, i) + Len(e.q)
     \/ /\ ~for_us /\ Matching(a) = {}
        /\ wire' = <<>> /\ UNCHANGED <<arp_table, free>>
  /\ UNCHANGED <<cached, asked>>

-----------------------------------------------------------------------------
(* etharp_output_to_arp_index: send, and ask again before the entry expires.
   The request fails if there is no memory for it. *)
SendTo(a, i, n) ==
  /\ \/ /\ arp_table[i].state = "stable" /\ arp_table[i].ctime >= RerequestAge
        /\ arp_table' = [arp_table EXCEPT ![i].state = "rerequesting1"]
        /\ asked' = IF a = Watched THEN [asked EXCEPT ![1] = @ + 1] ELSE asked
     \/ UNCHANGED <<arp_table, asked>>
  /\ wire' = <<Frame(a, arp_table[i].mac, n)>>
  /\ UNCHANGED free

(* etharp_query with a packet for an address that is not resolved.  If there
   is no element for it, or no memory for a copy, the packet is not queued. *)
AppendToAll(q, n) == Append(q, n)                    \* mutant: no limit
AppendTo(q, n) == Append(IF Len(q) >= QueueLen THEN Tail(q) ELSE q, n)

QueueOn(a, i, n, ok) ==
  LET e == [Found(a, i) EXCEPT !.state = "pending"]
      had == free + FreedFor(a, i)
  IN  /\ \/ /\ ok /\ had > 0
            /\ arp_table' = [arp_table EXCEPT ![i] = [e EXCEPT !.q = AppendTo(e.q, n)]]
            /\ free' = had - (Len(AppendTo(e.q, n)) - Len(e.q))
         \/ /\ ~ok \/ had = 0
            /\ arp_table' = [arp_table EXCEPT ![i] = e] /\ free' = had
      /\ wire' = <<>> /\ UNCHANGED asked

CacheHitAnyIp(a) == arp_table[cached].state \in Stable   \* mutant: the address is not compared
CacheHit(a) == arp_table[cached].state \in Stable /\ arp_table[cached].ip = a

(* etharp_output: the entry used last, another stable one, or a query. *)
Output(a, ok) ==
  /\ NextNumber(a) <= MaxPackets
  /\ LET n == NextNumber(a)
         known == {i \in Matching(a) : arp_table[i].state \in Stable}
     IN  \/ CacheHit(a) /\ SendTo(a, cached, n) /\ UNCHANGED cached
         \/ /\ ~CacheHit(a) /\ known # {}
            /\ cached' = Min(known) /\ SendTo(a, Min(known), n)
         \/ /\ ~CacheHit(a) /\ known = {}
            /\ QueueOn(a, FindEntry(a), n, ok) /\ UNCHANGED cached
  /\ UNCHANGED learned

(* etharp_query without a packet. *)
Query(a) ==
  /\ LET i == FindEntry(a)
         e == Found(a, i)
     IN  /\ arp_table' = [arp_table EXCEPT ![i] = [e EXCEPT !.state = IF @ = "empty" THEN "pending" ELSE @]]
         /\ free' = free + FreedFor(a, i)
  /\ wire' = <<>>
  /\ UNCHANGED <<cached, learned, asked>>

(* etharp_cleanup_netif, when the netif goes down. *)
CleanupNetif ==
  /\ arp_table' = [i \in Slot |-> Empty]
  /\ free' = free + Cardinality(InUse(arp_table))
  /\ wire' = <<>>
  /\ UNCHANGED <<cached, learned, asked>>

-----------------------------------------------------------------------------
Next ==
  \/ Tmr
  \/ \E a \in Ip, mac \in Mac, for_us \in BOOLEAN : Input(a, mac, for_us)
  \/ \E a \in Ip, ok \in BOOLEAN : Output(a, ok)
  \/ \E a \in Ip : Query(a)
  \/ CleanupNetif

(* etharp_tmr is a cyclic timer (timeouts.c, line 92). *)
Spec == Init /\ [][Next]_vars /\ WF_vars(Tmr)

-----------------------------------------------------------------------------
TypeOK ==
  /\ \A i \in Slot :
       /\ arp_table[i].state \in Stable \cup {"empty", "pending"} /\ arp_table[i].ctime \in 0..(MaxAge - 1)
       /\ arp_table[i].mac \in Mac \cup {NoMac} /\ Len(arp_table[i].q) <= QueueLen
  /\ cached \in Slot /\ free \in 0..NumArpQueue
  /\ learned \in [Ip -> Mac \cup {NoMac}] /\ asked \in Nat \X Nat

(***************************************************************************)
(* An address has one entry, and packets wait only on a pending one: those *)
(* of a resolved entry were sent, or would never be (line 365).            *)
(***************************************************************************)
WaitOnlyPending ==
  \A i, j \in Slot :
    /\ arp_table[i].q # <<>> => arp_table[i].state = "pending"
    /\ arp_table[i].state # "empty" /\ arp_table[i].ip = arp_table[j].ip => i = j

(* Every element of MEMP_ARP_QUEUE is free or holds one waiting packet,
   through expiry, recycling, overflow and answers. *)
QueueConserved == free + Cardinality(InUse(arp_table)) = NumArpQueue

(***************************************************************************)
(* The table and the pool of queue elements agree: whatever recycles,      *)
(* expires or resolves an entry takes care of the packets on it (lines     *)
(* 146-401, 468-489).                                                      *)
(***************************************************************************)
QueuesSane == WaitOnlyPending /\ QueueConserved

(***************************************************************************)
(* A packet goes to the hardware address last heard from its destination,  *)
(* although the slot etharp_cached_entry names may have been recycled for  *)
(* another address since (lines 861-868).                                  *)
(***************************************************************************)
SentToLearned ==
  \A k \in DOMAIN wire : wire[k].mac = learned[wire[k].ip] /\ wire[k].mac # NoMac

(***************************************************************************)
(* Packets to one destination leave in the order they were given: none     *)
(* overtakes another that still waits for the answer.                      *)
(***************************************************************************)
SentInOrder ==
  /\ \A k, l \in DOMAIN wire : k < l => wire[k].n < wire[l].n
  /\ \A k \in DOMAIN wire, i \in Slot :
       arp_table[i].ip = wire[k].ip => \A m \in DOMAIN arp_table[i].q : wire[k].n < arp_table[i].q[m]

(***************************************************************************)
(* What etharp_output and etharp_update_arp_entry send (lines 468-489,     *)
(* 747-891) goes to the right place and in order.                          *)
(***************************************************************************)
SentRight == SentToLearned /\ SentInOrder

(***************************************************************************)
(* "Don't send more than one request every 2 seconds" (line 220): a used   *)
(* entry that is about to expire is asked about again only after two       *)
(* ticks of the timer.  This counts ticks of ARP_TMR_INTERVAL (1 s), as    *)
(* the code does: two requests two ticks apart may be little more than one *)
(* second apart, so it is weaker than the comment's words.                 *)
(***************************************************************************)
RerequestRate == asked[1] + asked[2] <= 1

(***************************************************************************)
(* The packets that wait for an address are sent or dropped, even if no    *)
(* answer ever comes and more packets keep being queued behind them.       *)
(***************************************************************************)
Waiting(a) == \E i \in Matching(a) : arp_table[i].q # <<>>
WaitEnds == \A a \in Ip : Waiting(a) ~> ~Waiting(a)

=============================================================================
