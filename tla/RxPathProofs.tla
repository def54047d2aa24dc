---------------------------- MODULE RxPathProofs ----------------------------
(***************************************************************************)
(* Theorems about RxPath, for every pool, every mix of packets, and every  *)
(* number of messages, mailbox and receive buffer size.  What ip4_reass    *)
(* and ip_reass_tmr do with pbufs is taken from IpReassProofs.             *)
(***************************************************************************)
EXTENDS RxPath, FiniteSetTheorems, TLAPS

P == INSTANCE IpReassProofs

-----------------------------------------------------------------------------
(***************************************************************************)
(* R and P are instances of the same definitions: what is proved of P!X    *)
(* holds of R!X.                                                           *)
(***************************************************************************)

(* Finite means the same in both. *)
LEMMA SameFinite ==
  ASSUME NEW S
  PROVE  /\ IsFiniteSet(S) <=> P!IsFiniteSet(S)
         /\ IsFiniteSet(S) <=> R!IsFiniteSet(S)
  BY DEF IsFiniteSet, P!IsFiniteSet, R!IsFiniteSet

(* The number of elements is the same in both. *)
LEMMA SameCardinality ==
  ASSUME NEW S
  PROVE  R!Cardinality(S) = P!Cardinality(S)
  BY DEF R!Cardinality, P!Cardinality, R!IsFiniteSet, P!IsFiniteSet

(* The parameters are those the lemmas of IpReassProofs ask for. *)
LEMMA SameAssumption == P!ReassAssumption
  BY ReassParameters, SameFinite DEF R!ReassAssumption, P!ReassAssumption

(* The functions of ip4_frag.c, from the smallest up. *)
LEMMA SameReass ==
  /\ \A s, pk, p : R!Ip4Reass(s, pk, p) = P!Ip4Reass(s, pk, p)
  /\ \A s : R!ReassTmr(s) = P!ReassTmr(s) /\ R!Call(s) = P!Call(s)
  /\ R!NoOut = P!NoOut /\ R!InitReass = P!InitReass
  <1>1. R!NoData = P!NoData /\ R!NoOut = P!NoOut
    BY DEF R!NoData, P!NoData, R!NoOut, P!NoOut
  <1>2. \A l : R!IdsOf(l) = P!IdsOf(l)  BY DEF R!IdsOf, P!IdsOf
  <1>3. \A l, S : R!Without(l, S) = P!Without(l, S)  BY DEF R!Without, P!Without
  <1>4. \A s, d : R!Dequeue(s, d) = P!Dequeue(s, d)
    BY <1>1, <1>3 DEF R!Dequeue, P!Dequeue
  <1>5. \A s, d : R!FreeComplete(s, d) = P!FreeComplete(s, d)
    BY <1>4, SameCardinality DEF R!FreeComplete, P!FreeComplete
  <1>6. \A s, d : R!Oldest(s, d) = P!Oldest(s, d)  BY DEF R!Oldest, P!Oldest
  <1>7. \A s, d : R!RemoveOldest(s, d) = P!RemoveOldest(s, d)
    BY <1>2, <1>5, <1>6 DEF R!RemoveOldest, P!RemoveOldest
  <1>8. \A s, d : R!EnqueueNew(s, d) = P!EnqueueNew(s, d)
    BY <1>1 DEF R!EnqueueNew, P!EnqueueNew
  <1>9. \A s, pk, p : R!Dropped(s, pk, p) <=> P!Dropped(s, pk, p)
    BY DEF R!Dropped, P!Dropped, R!TooLong, P!TooLong, R!Overlaps, P!Overlaps
  <1>10. \A pk, S : R!NoHoles(pk, S) <=> P!NoHoles(pk, S)
    <2> TAKE pk, S
    <2> DEFINE E == {q \in S : \A r \in S : pk[r].start # pk[q].end}
    <2>1. R!Cardinality(E) = P!Cardinality(E)  BY SameCardinality
    <2> QED  BY <2>1 DEF R!NoHoles, P!NoHoles
  <1>11. \A e, f : R!NoteLast(e, f) = P!NoteLast(e, f)  BY DEF R!NoteLast, P!NoteLast
  <1>12. \A s, pk, p : R!Chain(s, pk, p) = P!Chain(s, pk, p)
    <2> TAKE s, pk, p
    <2> DEFINE e == P!NoteLast([s.ipr[pk[p].id] EXCEPT !.frags = @ \cup {p}], pk[p])
    <2>1. e = R!NoteLast([s.ipr[pk[p].id] EXCEPT !.frags = @ \cup {p}], pk[p])  BY <1>11
    <2>2. /\ R!Cardinality(e.frags) = P!Cardinality(e.frags)
          /\ R!Dequeue(s, pk[p].id) = P!Dequeue(s, pk[p].id)
          /\ R!NoHoles(pk, e.frags) <=> P!NoHoles(pk, e.frags)
      BY <1>4, <1>10, SameCardinality
    <2> HIDE DEF e
    <2> QED  BY <2>1, <2>2 DEF R!Chain, P!Chain, e
  <1>13. \A s, p : R!NullReturn(s, p) = P!NullReturn(s, p)
    BY DEF R!NullReturn, P!NullReturn
  <1>14. \A s, d, p : R!NullReturnIpr(s, d, p) = P!NullReturnIpr(s, d, p)
    BY <1>4, <1>13 DEF R!NullReturnIpr, P!NullReturnIpr
  <1>15. \A s : R!OverLimit(s) <=> P!OverLimit(s)  BY DEF R!OverLimit, P!OverLimit
  <1>16. \A s, d : R!MakeRoom(s, d) = P!MakeRoom(s, d)
    BY <1>7, <1>15 DEF R!MakeRoom, P!MakeRoom
  <1>17. \A s, d : /\ R!FindStruct(s, d) = P!FindStruct(s, d)
                   /\ R!NoStruct(s, d) <=> P!NoStruct(s, d)
                   /\ R!Lookup(s, d) = P!Lookup(s, d)
    BY <1>2, <1>7, <1>8 DEF R!FindStruct, P!FindStruct, R!NoStruct, P!NoStruct, R!Lookup, P!Lookup
  <1>18. \A s, pk, p : R!Ip4Reass(s, pk, p) = P!Ip4Reass(s, pk, p)
    BY <1>9, <1>12, <1>13, <1>14, <1>15, <1>16, <1>17 DEF R!Ip4Reass, P!Ip4Reass
  <1>19. \A s : R!ReassTmr(s) = P!ReassTmr(s)
    <2>1. \A s : R!Aged(s) = P!Aged(s)  BY <1>2 DEF R!Aged, P!Aged
    <2> QED  BY <1>1, <1>3, <2>1, SameCardinality DEF R!ReassTmr, P!ReassTmr
  <1>20. \A s : R!Call(s) = P!Call(s)  BY <1>1 DEF R!Call, P!Call
  <1>21. R!InitReass = P!InitReass  BY <1>1 DEF R!InitReass, P!InitReass
  <1> QED  BY <1>1, <1>18, <1>19, <1>20, <1>21

-----------------------------------------------------------------------------
(***************************************************************************)
(* Queues of sets of pbufs, and how many messages of a type one holds.     *)
(***************************************************************************)
Sets(q) == UNION {q[i] : i \in DOMAIN q}
Apart(q) == \A i, j \in DOMAIN q : i # j => q[i] \cap q[j] = {}
Loads(q) == [i \in DOMAIN q |-> q[i].p]
Positions(q, t) == {i \in DOMAIN q : q[i].type = t}

Message == [type : {"inpkt", "reclaim", "callback"}, p : SUBSET Pbuf]

(* A set that is queued is among the queued ones, and stays apart. *)
LEMMA SetsAppend ==
  ASSUME NEW X, NEW q \in Seq(SUBSET X), NEW S \in SUBSET X
  PROVE  /\ Append(q, S) \in Seq(SUBSET X)
         /\ Sets(Append(q, S)) = Sets(q) \cup S
         /\ Apart(q) /\ S \cap Sets(q) = {} => Apart(Append(q, S))
  <1> DEFINE n == Len(q)
             r == Append(q, S)
  <1>1. n \in Nat /\ DOMAIN q = 1..n /\ DOMAIN r = (1..n) \cup {n + 1} /\ n + 1 \notin 1..n
    OBVIOUS
  <1>2. r[n + 1] = S /\ \A i \in 1..n : r[i] = q[i]  OBVIOUS
  <1>3. Append(q, S) \in Seq(SUBSET X)  OBVIOUS
  <1> HIDE DEF r, n
  <1>4. Sets(r) = Sets(q) \cup S  BY <1>1, <1>2 DEF Sets
  <1>5. Apart(q) /\ S \cap Sets(q) = {} => Apart(r)  BY <1>1, <1>2 DEF Apart, Sets
  <1> QED  BY <1>3, <1>4, <1>5 DEF r

(* The first of a queue leaves the others, apart from it. *)
LEMMA SetsTail ==
  ASSUME NEW X, NEW q \in Seq(SUBSET X), q # <<>>
  PROVE  /\ Tail(q) \in Seq(SUBSET X) /\ Head(q) \in SUBSET X
         /\ Sets(q) = Sets(Tail(q)) \cup Head(q)
         /\ Apart(q) => Apart(Tail(q)) /\ Head(q) \cap Sets(Tail(q)) = {}
  <1> DEFINE n == Len(q)
             r == Tail(q)
  <1>1. n \in Nat \ {0} /\ DOMAIN q = 1..n /\ DOMAIN r = 1..(n - 1)  OBVIOUS
  <1>2. Head(q) = q[1] /\ \A i \in 1..(n - 1) : r[i] = q[i + 1]  OBVIOUS
  <1>3. Tail(q) \in Seq(SUBSET X) /\ Head(q) \in SUBSET X  OBVIOUS
  <1>4. \A i \in 1..(n - 1) : i + 1 \in 1..n /\ i + 1 # 1  BY <1>1
  <1>5. \A i \in 1..n : i = 1 \/ (i - 1 \in 1..(n - 1) /\ (i - 1) + 1 = i)  BY <1>1
  <1>6. 1 \in 1..n  BY <1>1
  <1> HIDE DEF r, n
  <1>7. Sets(q) = Sets(r) \cup q[1]
    <2>1. Sets(r) \subseteq Sets(q) /\ q[1] \subseteq Sets(q)
      BY <1>1, <1>2, <1>4, <1>6 DEF Sets
    <2>2. \A i \in 1..n : q[i] \subseteq Sets(r) \cup q[1]
      <3> TAKE i \in 1..n
      <3>1. CASE i = 1  BY <3>1
      <3>2. CASE i # 1
        <4>1. i - 1 \in DOMAIN r /\ r[i - 1] = q[i]  BY <1>1, <1>2, <1>5, <3>2
        <4> QED  BY <4>1 DEF Sets
      <3> QED  BY <3>1, <3>2
    <2> QED  BY <1>1, <2>1, <2>2 DEF Sets
  <1>8. ASSUME Apart(q) PROVE Apart(r) /\ q[1] \cap Sets(r) = {}
    <2>1. \A i, j \in 1..(n - 1) : i # j => i + 1 # j + 1  BY <1>1
    <2>2. Apart(r)
      <3> SUFFICES ASSUME NEW i \in 1..(n - 1), NEW j \in 1..(n - 1), i # j
                   PROVE  r[i] \cap r[j] = {}
        BY <1>1 DEF Apart
      <3>1. r[i] = q[i + 1] /\ r[j] = q[j + 1] /\ i + 1 # j + 1  BY <1>2, <2>1
      <3>2. i + 1 \in DOMAIN q /\ j + 1 \in DOMAIN q  BY <1>1, <1>4
      <3> QED  BY <1>8, <3>1, <3>2 DEF Apart
    <2>3. \A i \in 1..(n - 1) : q[1] \cap r[i] = {}  BY <1>1, <1>2, <1>4, <1>6, <1>8 DEF Apart
    <2> QED  BY <1>1, <2>2, <2>3 DEF Sets
  <1> QED  BY <1>2, <1>3, <1>7, <1>8 DEF r

(* The loads of a queue of messages follow the messages. *)
LEMMA LoadsOf ==
  ASSUME NEW q \in Seq(Message)
  PROVE  /\ Loads(q) \in Seq(SUBSET Pbuf)
         /\ \A m \in Message : Loads(Append(q, m)) = Append(Loads(q), m.p)
         /\ q # <<>> => /\ Loads(q) # <<>> /\ Head(q) \in Message /\ Tail(q) \in Seq(Message)
                        /\ Loads(Tail(q)) = Tail(Loads(q)) /\ Head(q).p = Head(Loads(q))
  <1> DEFINE n == Len(q)
             l == Loads(q)
  <1>1. n \in Nat /\ DOMAIN q = 1..n /\ \A i \in 1..n : q[i] \in Message  OBVIOUS
  <1>2. l = [i \in 1..n |-> q[i].p]  BY <1>1 DEF Loads
  <1>3. \A i \in 1..n : q[i].p \in SUBSET Pbuf  BY <1>1 DEF Message
  <1>4. l \in Seq(SUBSET Pbuf) /\ Len(l) = n /\ DOMAIN l = 1..n
    <2>1. l \in [1..n -> SUBSET Pbuf]  BY <1>2, <1>3
    <2> QED  BY <1>1, <2>1
  <1>5. ASSUME NEW m \in Message PROVE Loads(Append(q, m)) = Append(l, m.p)
    <2>0. m.p \in SUBSET Pbuf  BY DEF Message
    <2>1. DOMAIN Append(q, m) = 1..(n + 1) /\ DOMAIN Append(l, m.p) = 1..(n + 1)
      BY <1>1, <1>4, <2>0
    <2>2. \A i \in 1..(n + 1) : Append(q, m)[i] = IF i = n + 1 THEN m ELSE q[i]
      BY <1>1
    <2>3. \A i \in 1..(n + 1) : Append(l, m.p)[i] = IF i = n + 1 THEN m.p ELSE q[i].p
      <3>1. \A i \in 1..(n + 1) : Append(l, m.p)[i] = IF i = n + 1 THEN m.p ELSE l[i]
        <4> HIDE DEF l, n
        <4> QED  BY <1>4, <2>0
      <3>2. \A i \in 1..(n + 1) : i # n + 1 => i \in 1..n  BY <1>1
      <3> QED  BY <1>2, <3>1, <3>2
    <2>4. Append(l, m.p) = [i \in 1..(n + 1) |-> Append(l, m.p)[i]]
      <3> HIDE DEF l
      <3> QED  BY <1>4, <2>0, <2>1
    <2>5. Loads(Append(q, m)) = [i \in 1..(n + 1) |-> Append(q, m)[i].p]
      BY <2>1 DEF Loads
    <2> HIDE DEF l, n
    <2> QED  BY <2>2, <2>3, <2>4, <2>5
  <1>6. ASSUME q # <<>>
        PROVE  /\ l # <<>> /\ Head(q) \in Message /\ Tail(q) \in Seq(Message)
               /\ Loads(Tail(q)) = Tail(l) /\ Head(q).p = Head(l)
    <2>1. n # 0 /\ Head(q) \in Message /\ Tail(q) \in Seq(Message) /\ Head(q) = q[1]
      BY <1>6
    <2>2. l # <<>> /\ Head(l) = l[1]
      <3> HIDE DEF l
      <3> QED  BY <1>4, <2>1
    <2>3. 1 \in 1..n  BY <1>1, <2>1
    <2>4. Head(q).p = Head(l)  BY <1>2, <2>1, <2>2, <2>3
    <2>5. DOMAIN Tail(q) = 1..(n - 1) /\ \A i \in 1..(n - 1) : Tail(q)[i] = q[i + 1]
      BY <1>6
    <2>6. Tail(l) = [i \in 1..(n - 1) |-> Tail(l)[i]] /\ \A i \in 1..(n - 1) : Tail(l)[i] = l[i + 1]
      <3> HIDE DEF l, n
      <3>1. Len(Tail(l)) = n - 1 /\ Tail(l) \in Seq(SUBSET Pbuf)  BY <1>4, <2>2
      <3>2. \A i \in 1..(n - 1) : Tail(l)[i] = l[i + 1]  BY <1>4, <2>2
      <3>3. Tail(l) = [i \in 1..Len(Tail(l)) |-> Tail(l)[i]]
        <4> DEFINE u == Tail(l)
        <4> HIDE DEF u
        <4>1. u \in Seq(SUBSET Pbuf)  BY <3>1 DEF u
        <4>2. u = [i \in 1..Len(u) |-> u[i]]  BY <4>1
        <4> QED  BY <4>2 DEF u
      <3> QED  BY <3>1, <3>2, <3>3
    <2>7. \A i \in 1..(n - 1) : i + 1 \in 1..n  BY <1>1
    <2>8. Loads(Tail(q)) = [i \in 1..(n - 1) |-> Tail(q)[i].p]  BY <2>5 DEF Loads
    <2>9. \A i \in 1..(n - 1) : l[i + 1] = q[i + 1].p  BY <1>2, <2>7
    <2>10. Loads(Tail(q)) = Tail(l)
      <3> HIDE DEF l, n
      <3>1. \A i \in 1..(n - 1) : Tail(q)[i].p = Tail(l)[i]  BY <2>5, <2>6, <2>9
      <3> QED  BY <2>6, <2>8, <3>1
    <2> HIDE DEF l, n
    <2> QED  BY <2>1, <2>2, <2>4, <2>10
  <1> QED  BY <1>4, <1>5, <1>6

(* Counting the messages of a type: a post adds one, a fetch takes one. *)
LEMMA PositionsFinite ==
  ASSUME NEW q \in Seq(Message), NEW t
  PROVE  IsFiniteSet(Positions(q, t)) /\ Cardinality(Positions(q, t)) \in Nat
  <1>1. IsFiniteSet(1..Len(q)) /\ DOMAIN q = 1..Len(q)  BY FS_Interval
  <1>2. Positions(q, t) \subseteq 1..Len(q)  BY <1>1 DEF Positions
  <1> QED  BY <1>1, <1>2, FS_Subset, FS_CardinalityType

(* A post. *)
LEMMA CountAppend ==
  ASSUME NEW q \in Seq(Message), NEW m \in Message, NEW t
  PROVE  Cardinality(Positions(Append(q, m), t))
           = Cardinality(Positions(q, t)) + Busy(m.type = t)
  <1> DEFINE n == Len(q)
  <1>1. n \in Nat /\ DOMAIN q = 1..n /\ DOMAIN Append(q, m) = (1..n) \cup {n + 1}  OBVIOUS
  <1>2. Append(q, m)[n + 1] = m /\ \A i \in 1..n : Append(q, m)[i] = q[i]  OBVIOUS
  <1>3. n + 1 \notin Positions(q, t)  BY <1>1 DEF Positions
  <1>4. IsFiniteSet(Positions(q, t)) /\ Cardinality(Positions(q, t)) \in Nat
    BY PositionsFinite
  <1> HIDE DEF n
  <1>5. CASE m.type = t
    <2>1. Positions(Append(q, m), t) = Positions(q, t) \cup {n + 1}
      BY <1>1, <1>2, <1>5 DEF Positions
    <2> QED  BY <1>3, <1>4, <1>5, <2>1, FS_AddElement DEF Busy
  <1>6. CASE m.type # t
    <2>1. Positions(Append(q, m), t) = Positions(q, t)  BY <1>1, <1>2, <1>6 DEF Positions
    <2> QED  BY <1>4, <1>6, <2>1 DEF Busy
  <1> QED  BY <1>5, <1>6

(* A fetch. *)
LEMMA CountTail ==
  ASSUME NEW q \in Seq(Message), q # <<>>, NEW t
  PROVE  Cardinality(Positions(q, t))
           = Cardinality(Positions(Tail(q), t)) + Busy(Head(q).type = t)
  <1> DEFINE n == Len(q)
             A == Positions(Tail(q), t)
             B == Positions(q, t) \ {1}
  <1>1. n \in Nat \ {0} /\ DOMAIN q = 1..n /\ DOMAIN Tail(q) = 1..(n - 1)  OBVIOUS
  <1>2. Head(q) = q[1] /\ \A i \in 1..(n - 1) : Tail(q)[i] = q[i + 1]  OBVIOUS
  <1>3. Tail(q) \in Seq(Message)  OBVIOUS
  <1>4. /\ IsFiniteSet(Positions(q, t)) /\ Cardinality(Positions(q, t)) \in Nat
        /\ IsFiniteSet(A) /\ Cardinality(A) \in Nat
    BY <1>3, PositionsFinite
  <1>5. Cardinality(A) = Cardinality(B)
    <2> DEFINE f == [i \in A |-> i + 1]
    <2>1. A \subseteq 1..(n - 1) /\ B \subseteq 2..n  BY <1>1 DEF Positions
    <2>2. \A i \in A : i + 1 \in B  BY <1>1, <1>2, <2>1 DEF Positions
    <2>3. \A j \in B : j - 1 \in A /\ (j - 1) + 1 = j
      <3> TAKE j \in B
      <3>1. j \in 2..n /\ j - 1 \in 1..(n - 1) /\ (j - 1) + 1 = j  BY <1>1, <2>1
      <3>2. Tail(q)[j - 1] = q[j]  BY <1>2, <3>1
      <3> QED  BY <1>1, <3>1, <3>2 DEF Positions
    <2>4. \A i, j \in A : i + 1 = j + 1 => i = j  BY <1>1, <2>1
    <2> HIDE DEF A, B
    <2>5. f \in Bijection(A, B)
      BY <2>2, <2>3, <2>4 DEF Bijection, Injection, Surjection, IsInjective
    <2>6. ExistsBijection(A, B)  BY <2>5 DEF ExistsBijection
    <2>7. IsFiniteSet(B)  BY <1>4, FS_Subset DEF B
    <2> QED  BY <1>4, <2>6, <2>7, FS_Bijection
  <1>6. Cardinality(B) = IF 1 \in Positions(q, t) THEN Cardinality(Positions(q, t)) - 1
                         ELSE Cardinality(Positions(q, t))
    BY <1>4, FS_RemoveElement
  <1>7. 1 \in Positions(q, t) <=> Head(q).type = t  BY <1>1, <1>2 DEF Positions
  <1> HIDE DEF A, B
  <1> QED  BY <1>4, <1>5, <1>6, <1>7 DEF Busy, A

-----------------------------------------------------------------------------
(***************************************************************************)
(* The inductive invariant: what the variables range over, who carries a   *)
(* pbuf at which point, where the pbufs are, and the messages.  Types and  *)
(* Loaded are what makes Conserved inductive: the thread frees one pbuf of *)
(* its message, which is all of them only because a message of type        *)
(* TCPIP_MSG_INPKT carries one, and the other types carry none.            *)
(***************************************************************************)
RxType == {"idle", "empty", "reclaim", "postreclaim", "unmark", "input", "post"}
ThreadType == {"none", "inpkt", "handled", "reclaim", "unmarked", "callback"}

Quiet(s) == P!Sound(s, {}) /\ s.out = P!NoOut /\ s.freed = {}

Types ==
  /\ pool \subseteq Pbuf /\ ooseq \subseteq Pbuf /\ app \subseteq Pbuf
  /\ pkt \in [Pbuf -> Packet]
  /\ rx \in [type : RxType, p : SUBSET Pbuf]
  /\ thread \in [type : ThreadType, p : SUBSET Pbuf]
  /\ mbox \in Seq(Message) /\ recvmbox \in Seq(SUBSET Pbuf)
  /\ inpkts \in Nat /\ apis \in Nat /\ pending \in BOOLEAN /\ poster \in {"none", "wait", "try"}
  /\ Quiet(reass)

Loads1(m) ==
  IF m.type \in {"input", "post", "inpkt"} THEN \E p \in Pbuf : m.p = {p} ELSE m.p = {}
Loaded == Loads1(rx) /\ Loads1(thread) /\ \A i \in DOMAIN mbox : Loads1(mbox[i])

Parts(a, b, c, d, e, f, g, h) ==
  /\ a \cup b \cup c \cup d \cup e \cup f \cup g \cup h = Pbuf
  /\ a \cap b = {} /\ a \cap c = {} /\ a \cap d = {} /\ a \cap e = {} /\ a \cap f = {}
  /\ a \cap g = {} /\ a \cap h = {} /\ b \cap c = {} /\ b \cap d = {} /\ b \cap e = {}
  /\ b \cap f = {} /\ b \cap g = {} /\ b \cap h = {} /\ c \cap d = {} /\ c \cap e = {}
  /\ c \cap f = {} /\ c \cap g = {} /\ c \cap h = {} /\ d \cap e = {} /\ d \cap f = {}
  /\ d \cap g = {} /\ d \cap h = {} /\ e \cap f = {} /\ e \cap g = {} /\ e \cap h = {}
  /\ f \cap g = {} /\ f \cap h = {} /\ g \cap h = {}

OnePlace ==
  /\ Apart(Loads(mbox)) /\ Apart(recvmbox)
  /\ Parts(pool, rx.p, Sets(Loads(mbox)), thread.p, Sets(recvmbox), app, ooseq, P!HeldIn(reass))

Sizes == Len(mbox) <= MboxSize /\ Len(recvmbox) <= RecvSize

Count(q, t) == Cardinality(Positions(q, t))
Books ==
  /\ inpkts + Count(mbox, "inpkt")
       + Busy(rx.type = "post") + Busy(thread.type \in {"inpkt", "handled"}) = NumInpkt
  /\ apis + Count(mbox, "callback") + Count(mbox, "reclaim")
       + Busy(rx.type = "postreclaim") + Busy(poster # "none")
       + Busy(thread.type \in {"callback", "reclaim", "unmarked"}) = NumApi
Flag ==
  Count(mbox, "reclaim") + Busy(thread.type = "reclaim")
    + Busy(rx.type \in {"reclaim", "postreclaim", "unmark"}) = Busy(pending)

RxInv == Types /\ Loaded /\ OnePlace /\ Sizes /\ Books /\ Flag

(* What a reassembly call returns, as RxPath uses it. *)
Splits(s, r, S) ==
  /\ Quiet(R!Call(r))
  /\ r.freed \subseteq Pbuf /\ r.out.frags \subseteq Pbuf
  /\ P!HeldIn(R!Call(r)) \cup r.freed \cup r.out.frags = P!HeldIn(s) \cup S
  /\ P!HeldIn(R!Call(r)) \cap r.freed = {}
  /\ r.out.frags \cap r.freed = {} /\ r.out.frags \cap P!HeldIn(R!Call(r)) = {}
  /\ r.out = R!NoOut => r.out.frags = {}

(* Between two calls nothing is freed or returned. *)
LEMMA QuietCall ==
  ASSUME NEW s, P!Sound(s, {})
  PROVE  Quiet(R!Call(s)) /\ P!HeldIn(R!Call(s)) = P!HeldIn(s) /\ R!Call(s) = P!Call(s)
  <1>1. R!Call(s) = P!Call(s)  BY SameReass
  <1>2. /\ P!Sound(P!Call(s), {}) /\ P!Call(s).out = P!NoOut /\ P!Call(s).freed = {}
        /\ P!HeldIn(P!Call(s)) = P!HeldIn(s)
    BY P!CallSound, SameAssumption, ReassParameters, SameFinite
  <1> QED  BY <1>1, <1>2 DEF Quiet

(* ip4_reass keeps, frees or returns the fragment and the pbufs it holds. *)
LEMMA FragmentSplits ==
  ASSUME NEW s, Quiet(s), NEW pk, NEW p \in Pbuf, pk[p] \in Fragment, p \notin P!HeldIn(s)
  PROVE  Splits(s, R!Ip4Reass(R!Call(s), pk, p), {p})
  <1> DEFINE c == R!Call(s)
             r == R!Ip4Reass(c, pk, p)
  <1>1. Quiet(c) /\ P!HeldIn(c) = P!HeldIn(s)  BY QuietCall DEF Quiet
  <1>2. r = P!Ip4Reass(c, pk, p) /\ R!NoOut = P!NoOut  BY SameReass
  <1> HIDE DEF c, r
  <1>3. P!Sound(c, {}) /\ c.out = P!NoOut /\ p \notin P!HeldIn(c) \cup c.freed /\ c.freed = {}
    BY <1>1 DEF Quiet
  <1>4. P!Returns(c, P!Ip4Reass(c, pk, p), p)
    BY <1>3, P!Ip4ReassSound, SameAssumption, ReassParameters, SameFinite
  <1>5. /\ P!Sound(r, {}) /\ P!HeldIn(r) \cup r.freed \cup r.out.frags = P!HeldIn(s) \cup {p}
        /\ r.out.frags \cap (P!HeldIn(r) \cup r.freed) = {}
    BY <1>1, <1>2, <1>3, <1>4 DEF P!Returns
  <1>6. Quiet(R!Call(r)) /\ P!HeldIn(R!Call(r)) = P!HeldIn(r)  BY <1>5, QuietCall
  <1>7. r \in P!State /\ P!HeldIn(r) \cap r.freed = {}  BY <1>5 DEF P!Sound
  <1>8. r.freed \subseteq Pbuf /\ r.out.frags \subseteq Pbuf  BY <1>7 DEF P!State
  <1>9. r.out = R!NoOut => r.out.frags = {}  BY <1>2 DEF P!NoOut
  <1> QED  BY <1>5, <1>6, <1>7, <1>8, <1>9 DEF Splits, r, c

(* ip_reass_tmr keeps or frees the pbufs it holds. *)
LEMMA TickSplits ==
  ASSUME NEW s, Quiet(s)
  PROVE  LET r == R!ReassTmr(R!Call(s)) IN Splits(s, r, {}) /\ r.out.frags = {}
  <1> DEFINE c == R!Call(s)
             r == R!ReassTmr(c)
  <1>1. Quiet(c) /\ P!HeldIn(c) = P!HeldIn(s)  BY QuietCall DEF Quiet
  <1>2. r = P!ReassTmr(c) /\ R!NoOut = P!NoOut  BY SameReass
  <1> HIDE DEF c, r
  <1>3. P!Sound(c, {}) /\ c.out = P!NoOut /\ c.freed = {}  BY <1>1 DEF Quiet
  <1>4. LET t == P!ReassTmr(c)
        IN  P!Sound(t, {}) /\ P!Accounts(c, t, {}) /\ t.out = c.out
    BY <1>3, P!ReassTmrSound, SameAssumption, ReassParameters, SameFinite
  <1>5. P!Sound(r, {}) /\ P!HeldIn(r) \cup r.freed = P!HeldIn(s) /\ r.out = P!NoOut
    BY <1>1, <1>2, <1>3, <1>4 DEF P!Accounts
  <1>6. Quiet(R!Call(r)) /\ P!HeldIn(R!Call(r)) = P!HeldIn(r)  BY <1>5, QuietCall
  <1>7. r \in P!State /\ P!HeldIn(r) \cap r.freed = {}  BY <1>5 DEF P!Sound
  <1>8. r.freed \subseteq Pbuf  BY <1>7 DEF P!State
  <1>9. r.out.frags = {}  BY <1>5 DEF P!NoOut
  <1> QED  BY <1>5, <1>6, <1>7, <1>8, <1>9 DEF Splits, r, c

(* A blank pbuf holds a packet, so forgetting some keeps the type. *)
LEMMA ForgetType ==
  ASSUME pkt \in [Pbuf -> Packet], NEW S, Forget(S)
  PROVE  pkt' \in [Pbuf -> Packet]
  <1>1. R!Blank \in Packet  BY ReassParameters DEF R!Blank, R!ReassAssumption, Packet
  <1> QED  BY <1>1 DEF Forget

(* At the start the whole pool is free. *)
LEMMA InitRx == Init => RxInv
  <1> SUFFICES ASSUME Init PROVE RxInv  OBVIOUS
  <1>1. P!Init
    <2>1. R!Blank = P!Blank  BY DEF R!Blank, P!Blank
    <2> QED  BY <2>1, SameReass DEF Init, P!Init
  <1>2. P!ReassInv  BY <1>1, P!InitReassInv, SameAssumption, ReassParameters, SameFinite
  <1>3. P!Sound(reass, {}) /\ pool = Pbuf \ P!HeldIn(reass)  BY <1>2 DEF P!ReassInv
  <1>4. P!HeldIn(reass) = {}  BY SameReass DEF Init, P!HeldIn, P!InitReass, P!NoData
  <1>5. reass.out = P!NoOut /\ reass.freed = {}  BY SameReass DEF Init, P!InitReass
  <1>6. R!Blank \in Packet  BY ReassParameters DEF R!Blank, R!ReassAssumption, Packet
  <1>7. Types
    <2>0. mbox = <<>> /\ recvmbox = <<>> /\ pending = FALSE  BY DEF Init
    <2>1. mbox \in Seq(Message)  BY <2>0
    <2>4. recvmbox \in Seq(SUBSET Pbuf)  BY <2>0
    <2>5. pending \in BOOLEAN  BY <2>0
    <2>2. rx \in [type : RxType, p : SUBSET Pbuf] /\ thread \in [type : ThreadType, p : SUBSET Pbuf]
      BY DEF Init, RxType, ThreadType, Msg, None
    <2>3. pkt \in [Pbuf -> Packet]  BY <1>6 DEF Init
    <2> QED  BY <1>3, <1>5, <2>1, <2>2, <2>3, <2>4, <2>5, SizeAssumption DEF Types, Quiet, Init
  <1>8. Loaded  BY DEF Loaded, Loads1, Init, Msg, None
  <1>9. Sets(Loads(mbox)) = {} /\ Sets(recvmbox) = {} /\ Apart(Loads(mbox)) /\ Apart(recvmbox)
    BY DEF Init, Sets, Loads, Apart
  <1>10. OnePlace  BY <1>4, <1>9 DEF OnePlace, Parts, Init, Msg, None
  <1>11. Sizes  BY SizeAssumption DEF Sizes, Init
  <1>12. \A t : Count(mbox, t) = 0
    <2>1. \A t : Positions(mbox, t) = {}  BY DEF Positions, Init
    <2> QED  BY <2>1, FS_EmptySet DEF Count
  <1>13. Books  BY <1>12, SizeAssumption DEF Books, Busy, Init, Msg, None
  <1>14. Flag  BY <1>12 DEF Flag, Busy, Init, Msg, None
  <1> QED  BY <1>7, <1>8, <1>10, <1>11, <1>13, <1>14 DEF RxInv

(* A task posts a message. *)
LEMMA Posted ==
  ASSUME mbox \in Seq(Message), Len(mbox) < MboxSize, NEW m \in Message, Loads1(m),
         \A i \in DOMAIN mbox : Loads1(mbox[i]), mbox' = Append(mbox, m)
  PROVE  /\ mbox' \in Seq(Message) /\ Len(mbox') <= MboxSize
         /\ \A i \in DOMAIN mbox' : Loads1(mbox'[i])
         /\ Sets(Loads(mbox')) = Sets(Loads(mbox)) \cup m.p
         /\ Apart(Loads(mbox)) /\ m.p \cap Sets(Loads(mbox)) = {} => Apart(Loads(mbox'))
         /\ \A t : Count(mbox, t) \in Nat /\ Count(mbox', t) = Count(mbox, t) + Busy(m.type = t)
  <1>1. mbox' \in Seq(Message) /\ Len(mbox') = Len(mbox) + 1  OBVIOUS
  <1>2. \A i \in DOMAIN mbox' : mbox'[i] = m \/ (i \in DOMAIN mbox /\ mbox'[i] = mbox[i])
    OBVIOUS
  <1>3. m.p \in SUBSET Pbuf  BY DEF Message
  <1>4. Loads(mbox) \in Seq(SUBSET Pbuf) /\ Loads(mbox') = Append(Loads(mbox), m.p)
    BY LoadsOf
  <1>5. /\ Sets(Loads(mbox')) = Sets(Loads(mbox)) \cup m.p
        /\ Apart(Loads(mbox)) /\ m.p \cap Sets(Loads(mbox)) = {} => Apart(Loads(mbox'))
    BY <1>3, <1>4, SetsAppend
  <1>6. \A t : Count(mbox, t) \in Nat /\ Count(mbox', t) = Count(mbox, t) + Busy(m.type = t)
    BY CountAppend, PositionsFinite DEF Count
  <1> QED  BY <1>1, <1>2, <1>5, <1>6, SizeAssumption

(* The thread takes the first message. *)
LEMMA Fetched ==
  ASSUME mbox \in Seq(Message), mbox # <<>>,
         \A i \in DOMAIN mbox : Loads1(mbox[i]), mbox' = Tail(mbox)
  PROVE  LET m == Head(mbox)
         IN  /\ mbox' \in Seq(Message) /\ Len(mbox') <= Len(mbox) /\ m \in Message /\ Loads1(m)
             /\ \A i \in DOMAIN mbox' : Loads1(mbox'[i])
             /\ Sets(Loads(mbox)) = Sets(Loads(mbox')) \cup m.p
             /\ Apart(Loads(mbox)) => Apart(Loads(mbox')) /\ m.p \cap Sets(Loads(mbox')) = {}
             /\ \A t : Count(mbox', t) \in Nat /\ Count(mbox, t) = Count(mbox', t) + Busy(m.type = t)
  <1> DEFINE m == Head(mbox)
  <1>1. /\ mbox' \in Seq(Message) /\ Len(mbox') <= Len(mbox) /\ m \in Message
        /\ 1 \in DOMAIN mbox /\ m = mbox[1]
    <2>1. Len(mbox) \in Nat \ {0} /\ DOMAIN mbox = 1..Len(mbox)  OBVIOUS
    <2>2. mbox' \in Seq(Message) /\ Len(mbox') = Len(mbox) - 1 /\ m = mbox[1]  OBVIOUS
    <2>3. 1 \in DOMAIN mbox  BY <2>1
    <2>4. m \in Message
      <3> HIDE DEF m
      <3> QED  BY <2>2, <2>3
    <2> QED  BY <2>1, <2>2, <2>3, <2>4
  <1>2. \A i \in DOMAIN mbox' : i + 1 \in DOMAIN mbox /\ mbox'[i] = mbox[i + 1]  OBVIOUS
  <1>3. /\ Loads(mbox) \in Seq(SUBSET Pbuf) /\ Loads(mbox) # <<>>
        /\ Loads(mbox') = Tail(Loads(mbox)) /\ m.p = Head(Loads(mbox))
    BY LoadsOf
  <1>4. /\ Sets(Loads(mbox)) = Sets(Loads(mbox')) \cup m.p
        /\ Apart(Loads(mbox)) => Apart(Loads(mbox')) /\ m.p \cap Sets(Loads(mbox')) = {}
    <2> DEFINE q == Loads(mbox)
    <2> HIDE DEF q
    <2>1. q \in Seq(SUBSET Pbuf) /\ q # <<>>  BY <1>3 DEF q
    <2>2. /\ Sets(q) = Sets(Tail(q)) \cup Head(q)
          /\ Apart(q) => Apart(Tail(q)) /\ Head(q) \cap Sets(Tail(q)) = {}
      BY <2>1, SetsTail
    <2> QED  BY <1>3, <2>2 DEF q
  <1>5. \A t : Count(mbox', t) \in Nat /\ Count(mbox, t) = Count(mbox', t) + Busy(m.type = t)
    BY <1>1, CountTail, PositionsFinite DEF Count
  <1> QED  BY <1>1, <1>2, <1>4, <1>5

-----------------------------------------------------------------------------
(***************************************************************************)
(* Each step keeps the invariant.  First the steps of the rpmsg callback.  *)
(***************************************************************************)
LEMMA CountNat ==
  ASSUME Types
  PROVE  \A t : Count(mbox, t) \in Nat
  BY PositionsFinite DEF Types, Count

(* pbuf_alloc: a pbuf goes from the pool to the callback. *)
LEMMA RxAllocKeeps ==
  ASSUME RxInv, NEW f \in Packet, RxAlloc(f)
  PROVE  RxInv'
  <1> USE DEF RxInv
  <1>0. UNCHANGED <<reass, ooseq, recvmbox, mbox, inpkts, apis, pending, thread, app, poster>> /\ rx.type = "idle"
    BY DEF RxAlloc, netVars
  <1>1. CASE pool # {}
    <2> DEFINE p == CHOOSE q \in pool : TRUE
    <2>1. p \in pool  BY <1>1
    <2>2. rx' = Msg("input", {p}) /\ pool' = pool \ {p} /\ pkt' = [pkt EXCEPT ![p] = f]
      BY <1>1 DEF RxAlloc
    <2> HIDE DEF p
    <2>3. rx' = [type |-> "input", p |-> {p}] /\ p \in Pbuf  BY <2>1, <2>2 DEF Msg, Types
    <2>4. Types'
      <3>1. pkt' \in [Pbuf -> Packet]  BY <2>2, <2>3 DEF Types
      <3>2. rx' \in [type : RxType, p : SUBSET Pbuf]  BY <2>3 DEF RxType
      <3> QED  BY <1>0, <2>2, <3>1, <3>2 DEF Types
    <2>5. Loaded'  BY <1>0, <2>3 DEF Loaded, Loads1
    <2>6. rx.p = {}  BY <1>0 DEF Loaded, Loads1
    <2>7. OnePlace'  BY <1>0, <2>1, <2>2, <2>3, <2>6 DEF OnePlace, Parts
    <2>8. Sizes' /\ Books' /\ Flag'  BY <1>0, <2>3 DEF Sizes, Books, Flag, Busy
    <2> QED  BY <2>4, <2>5, <2>7, <2>8
  <1>2. CASE pool = {}
    <2>1. rx' = [type |-> "empty", p |-> {}] /\ UNCHANGED <<pool, pkt>>  BY <1>2 DEF RxAlloc, Msg
    <2>2. rx.p = {}  BY <1>0 DEF Loaded, Loads1
    <2>3. Types'  BY <1>0, <2>1 DEF Types, RxType
    <2>4. Loaded'  BY <1>0, <2>1 DEF Loaded, Loads1
    <2>5. OnePlace'  BY <1>0, <2>1, <2>2 DEF OnePlace, Parts
    <2>6. Sizes' /\ Books' /\ Flag'  BY <1>0, <2>1 DEF Sizes, Books, Flag, Busy
    <2> QED  BY <2>3, <2>4, <2>5, <2>6
  <1> QED  BY <1>1, <1>2

(* The steps that only move the callback, between points at which it has no
   pbuf, with what they do to the flag and the messages. *)
LEMMA RxMoves ==
  ASSUME RxInv, NEW t \in RxType \ {"input", "post"}, rx.type \notin {"input", "post"},
         rx' = Msg(t, {}), UNCHANGED <<pool, pkt, netVars, mbox, thread, app>>,
         inpkts' = inpkts, apis' \in Nat, pending' \in BOOLEAN, poster' = poster, Books', Flag'
  PROVE  RxInv'
  <1> USE DEF RxInv, netVars
  <1>1. rx' = [type |-> t, p |-> {}] /\ rx.p = {}  BY DEF Msg, Loaded, Loads1, Types, RxType
  <1>2. Types'  BY <1>1 DEF Types
  <1>3. Loaded'  BY <1>1 DEF Loaded, Loads1, RxType
  <1>4. OnePlace'  BY <1>1 DEF OnePlace, Parts
  <1>5. Sizes'  BY DEF Sizes
  <1> QED  BY <1>2, <1>3, <1>4, <1>5

(* pbuf_pool_is_empty asks for a reclaim unless one is on its way. *)
LEMMA RxMarkKeeps ==
  ASSUME RxInv, RxMark
  PROVE  RxInv'
  <1> USE DEF netVars
  <1>0. Types /\ Books /\ Flag /\ apis \in Nat /\ pending \in BOOLEAN  BY DEF RxInv, Types
  <1>1. pending' = TRUE /\ rx.type = "empty"  BY DEF RxMark
  <1>2. UNCHANGED <<pool, pkt, reass, ooseq, recvmbox, mbox, inpkts, apis, thread, app, poster>>  BY DEF RxMark
  <1>3. \A t : Count(mbox, t) \in Nat  BY <1>0, CountNat
  <1>4. CASE pending
    <2>1. rx' = Msg("idle", {}) /\ pending' = pending  BY <1>0, <1>1, <1>4 DEF RxMark
    <2>2. rx'.type = "idle"  BY <2>1 DEF Msg
    <2>3. Books' /\ Flag'  BY <1>0, <1>1, <1>2, <2>1, <2>2 DEF Books, Flag, Busy
    <2>4. apis' \in Nat /\ pending' \in BOOLEAN  BY <1>0, <1>1, <1>2
    <2> QED  BY <1>1, <1>2, <2>1, <2>3, <2>4, RxMoves DEF RxType
  <1>5. CASE ~pending
    <2>1. rx' = Msg("reclaim", {})  BY <1>5 DEF RxMark
    <2>2. rx'.type = "reclaim"  BY <2>1 DEF Msg
    <2>3. Busy(pending) = 0 /\ Busy(pending') = 1  BY <1>1, <1>5 DEF Busy
    <2>4. Books' /\ Flag'  BY <1>0, <1>1, <1>2, <1>3, <2>2, <2>3 DEF Books, Flag, Busy
    <2>5. apis' \in Nat /\ pending' \in BOOLEAN  BY <1>0, <1>1, <1>2
    <2> QED  BY <1>1, <1>2, <2>1, <2>4, <2>5, RxMoves DEF RxType
  <1> QED  BY <1>4, <1>5

(* tcpip_try_callback takes a message, or there is none. *)
LEMMA RxReclaimKeeps ==
  ASSUME RxInv, RxReclaim
  PROVE  RxInv'
  <1> USE DEF netVars
  <1>0. Types /\ Books /\ Flag /\ apis \in Nat /\ pending \in BOOLEAN  BY DEF RxInv, Types
  <1>1. /\ UNCHANGED <<pool, pkt, reass, ooseq, recvmbox, mbox, inpkts, pending, thread, app, poster>>
        /\ rx.type = "reclaim"
    BY DEF RxReclaim
  <1>2. \A t : Count(mbox, t) \in Nat  BY <1>0, CountNat
  <1>3. CASE apis > 0 /\ apis' = apis - 1 /\ rx' = Msg("postreclaim", {})
    <2>1. rx'.type = "postreclaim" /\ apis' \in Nat  BY <1>0, <1>3 DEF Msg
    <2>2. Books' /\ Flag'  BY <1>0, <1>1, <1>2, <1>3, <2>1, SizeAssumption DEF Books, Flag, Busy
    <2> QED  BY <1>0, <1>1, <1>3, <2>1, <2>2, RxMoves DEF RxType
  <1>4. CASE apis = 0 /\ rx' = Msg("unmark", {}) /\ UNCHANGED apis
    <2>1. rx'.type = "unmark" /\ apis' \in Nat  BY <1>0, <1>4 DEF Msg
    <2>2. Books' /\ Flag'  BY <1>0, <1>1, <1>2, <1>4, <2>1 DEF Books, Flag, Busy
    <2> QED  BY <1>0, <1>1, <1>4, <2>1, <2>2, RxMoves DEF RxType
  <1> QED  BY <1>3, <1>4 DEF RxReclaim

(* The flag is cleared where no reclaim could be sent. *)
LEMMA RxUnmarkKeeps ==
  ASSUME RxInv, RxUnmark
  PROVE  RxInv'
  <1> USE DEF netVars
  <1>0. Types /\ Books /\ Flag /\ apis \in Nat /\ pending \in BOOLEAN  BY DEF RxInv, Types
  <1>1. /\ UNCHANGED <<pool, pkt, reass, ooseq, recvmbox, mbox, inpkts, apis, thread, app, poster>>
        /\ rx.type = "unmark" /\ pending' = FALSE /\ rx' = Msg("idle", {})
    BY DEF RxUnmark, Unmark
  <1>2. \A t : Count(mbox, t) \in Nat  BY <1>0, CountNat
  <1>3. rx'.type = "idle"  BY <1>1 DEF Msg
  <1>4. Busy(pending') = 0 /\ Busy(pending) \in {0, 1}  BY <1>1 DEF Busy
  <1>5. Count(mbox, "reclaim") = 0 /\ Busy(thread.type = "reclaim") = 0
    BY <1>0, <1>1, <1>2, <1>4 DEF Flag, Busy
  <1>6. Books'  BY <1>0, <1>1, <1>3 DEF Books, Busy
  <1>7. Flag'  BY <1>1, <1>3, <1>4, <1>5 DEF Flag, Busy
  <1>8. apis' \in Nat /\ pending' \in BOOLEAN  BY <1>0, <1>1
  <1> QED  BY <1>1, <1>6, <1>7, <1>8, RxMoves DEF RxType

(* The reclaim message is posted, or given back. *)
LEMMA RxPostReclaimKeeps ==
  ASSUME RxInv, RxPostReclaim
  PROVE  RxInv'
  <1> USE DEF netVars
  <1>0. Types /\ Loaded /\ OnePlace /\ Sizes /\ Books /\ Flag /\ apis \in Nat /\ mbox \in Seq(Message)
    BY DEF RxInv, Types
  <1>1. /\ UNCHANGED <<pool, pkt, reass, ooseq, recvmbox, inpkts, pending, thread, app, poster>>
        /\ rx.type = "postreclaim"
    BY DEF RxPostReclaim
  <1>2. \A t : Count(mbox, t) \in Nat  BY <1>0, CountNat
  <1>3. CASE Room /\ mbox' = Append(mbox, Msg("reclaim", {})) /\ rx' = Msg("idle", {}) /\ UNCHANGED apis
    <2> DEFINE m == Msg("reclaim", {})
    <2>1. m \in Message /\ Loads1(m) /\ m.p = {} /\ m.type = "reclaim"  BY DEF Message, Msg, Loads1
    <2>2. rx' = [type |-> "idle", p |-> {}] /\ rx.p = {}  BY <1>0, <1>1, <1>3 DEF Msg, Loaded, Loads1
    <2> HIDE DEF m
    <2>3. /\ mbox' \in Seq(Message) /\ Len(mbox') <= MboxSize
          /\ \A i \in DOMAIN mbox' : Loads1(mbox'[i])
          /\ Sets(Loads(mbox')) = Sets(Loads(mbox)) /\ Apart(Loads(mbox'))
          /\ Count(mbox', "inpkt") = Count(mbox, "inpkt")
          /\ Count(mbox', "reclaim") = Count(mbox, "reclaim") + 1
          /\ Count(mbox', "callback") = Count(mbox, "callback")
      <3>1. mbox' = Append(mbox, m) /\ Len(mbox) < MboxSize /\ \A i \in DOMAIN mbox : Loads1(mbox[i])
        BY <1>0, <1>3 DEF Loaded, Room, m
      <3>2. /\ mbox' \in Seq(Message) /\ Len(mbox') <= MboxSize
            /\ \A i \in DOMAIN mbox' : Loads1(mbox'[i])
            /\ Sets(Loads(mbox')) = Sets(Loads(mbox)) \cup m.p
            /\ Apart(Loads(mbox)) /\ m.p \cap Sets(Loads(mbox)) = {} => Apart(Loads(mbox'))
            /\ \A t : Count(mbox, t) \in Nat /\ Count(mbox', t) = Count(mbox, t) + Busy(m.type = t)
        BY <1>0, <2>1, <3>1, Posted
      <3>3. Apart(Loads(mbox))  BY <1>0 DEF OnePlace
      <3>4. /\ Count(mbox', "inpkt") = Count(mbox, "inpkt") + Busy(m.type = "inpkt")
            /\ Count(mbox', "reclaim") = Count(mbox, "reclaim") + Busy(m.type = "reclaim")
            /\ Count(mbox', "callback") = Count(mbox, "callback") + Busy(m.type = "callback")
        BY <3>2
      <3> QED  BY <1>2, <2>1, <3>2, <3>3, <3>4 DEF Busy
    <2>4. Types'  BY <1>0, <1>1, <1>3, <2>2, <2>3 DEF Types, RxType
    <2>5. Loaded'  BY <1>0, <1>1, <2>2, <2>3 DEF Loaded, Loads1
    <2>6. OnePlace'  BY <1>0, <1>1, <2>2, <2>3 DEF OnePlace, Parts
    <2>7. Sizes'  BY <1>0, <1>1, <2>3 DEF Sizes
    <2>8. Books' /\ Flag'  BY <1>0, <1>1, <1>2, <1>3, <2>2, <2>3 DEF Books, Flag, Busy
    <2> QED  BY <2>4, <2>5, <2>6, <2>7, <2>8 DEF RxInv
  <1>4. CASE ~Room /\ apis' = apis + 1 /\ rx' = Msg("unmark", {}) /\ UNCHANGED mbox
    <2>1. rx'.type = "unmark" /\ apis' \in Nat  BY <1>0, <1>4 DEF Msg
    <2>2. Books' /\ Flag'  BY <1>0, <1>1, <1>2, <1>4, <2>1 DEF Books, Flag, Busy
    <2>3. pending' \in BOOLEAN  BY <1>0, <1>1 DEF Types
    <2> QED  BY <1>0, <1>1, <1>4, <2>1, <2>2, <2>3, RxMoves DEF RxType
  <1> QED  BY <1>3, <1>4 DEF RxPostReclaim

(* The frame is refused and freed, or goes on with a message. *)
LEMMA RxInputKeeps ==
  ASSUME RxInv, RxInput
  PROVE  RxInv'
  <1> USE DEF netVars
  <1>0. /\ Types /\ Loaded /\ OnePlace /\ Sizes /\ Books /\ Flag
        /\ inpkts \in Nat /\ rx.p \subseteq Pbuf /\ pkt \in [Pbuf -> Packet]
    BY DEF RxInv, Types
  <1>1. /\ UNCHANGED <<reass, ooseq, recvmbox, mbox, apis, pending, thread, app, poster>>
        /\ rx.type = "input"
    BY DEF RxInput
  <1>2. \A t : Count(mbox, t) \in Nat  BY <1>0, CountNat
  <1>3. CASE inpkts > 0 /\ inpkts' = inpkts - 1 /\ rx' = Msg("post", rx.p) /\ UNCHANGED <<pool, pkt>>
    <2>1. rx' = [type |-> "post", p |-> rx.p]  BY <1>3 DEF Msg
    <2>2. Types'  BY <1>0, <1>1, <1>3, <2>1 DEF Types, RxType
    <2>3. Loaded'  BY <1>0, <1>1, <2>1 DEF Loaded, Loads1
    <2>4. OnePlace'  BY <1>0, <1>1, <1>3, <2>1 DEF OnePlace
    <2>5. Sizes'  BY <1>0, <1>1 DEF Sizes
    <2>6. Books' /\ Flag'  BY <1>0, <1>1, <1>2, <1>3, <2>1 DEF Books, Flag, Busy
    <2> QED  BY <2>2, <2>3, <2>4, <2>5, <2>6 DEF RxInv
  <1>4. CASE Give(rx.p) /\ rx' = Msg("idle", {}) /\ UNCHANGED inpkts
    <2>1. rx' = [type |-> "idle", p |-> {}] /\ pool' = pool \cup rx.p  BY <1>4 DEF Msg, Give
    <2>2. pkt' \in [Pbuf -> Packet]  BY <1>0, <1>4, ForgetType DEF Give
    <2>3. Types'  BY <1>0, <1>1, <1>4, <2>1, <2>2 DEF Types, RxType
    <2>4. Loaded'  BY <1>0, <1>1, <2>1 DEF Loaded, Loads1
    <2>5. OnePlace'  BY <1>0, <1>1, <2>1 DEF OnePlace, Parts
    <2>6. Sizes'  BY <1>0, <1>1 DEF Sizes
    <2>7. Books' /\ Flag'  BY <1>0, <1>1, <1>2, <1>4, <2>1 DEF Books, Flag, Busy
    <2> QED  BY <2>3, <2>4, <2>5, <2>6, <2>7 DEF RxInv
  <1> QED  BY <1>3, <1>4 DEF RxInput, InpktRefused

(* tcpip_inpkt posts the frame, or gives the message and the pbuf back. *)
LEMMA RxPostKeeps ==
  ASSUME RxInv, RxPost
  PROVE  RxInv'
  <1> USE DEF netVars
  <1>0. /\ Types /\ Loaded /\ OnePlace /\ Sizes /\ Books /\ Flag /\ mbox \in Seq(Message)
        /\ inpkts \in Nat /\ rx.p \subseteq Pbuf /\ pkt \in [Pbuf -> Packet]
    BY DEF RxInv, Types
  <1>1. /\ UNCHANGED <<reass, ooseq, recvmbox, apis, pending, thread, app, poster>>
        /\ rx.type = "post" /\ rx' = [type |-> "idle", p |-> {}]
    BY DEF RxPost, Msg
  <1>2. \A t : Count(mbox, t) \in Nat  BY <1>0, CountNat
  <1>3. CASE Room /\ mbox' = Append(mbox, Msg("inpkt", rx.p)) /\ UNCHANGED <<pool, pkt, inpkts>>
    <2> DEFINE m == Msg("inpkt", rx.p)
    <2>1. m \in Message /\ Loads1(m) /\ m.p = rx.p /\ m.type = "inpkt"
      BY <1>0, <1>1 DEF Message, Msg, Loads1, Loaded
    <2> HIDE DEF m
    <2>2. m.p \cap Sets(Loads(mbox)) = {}  BY <1>0, <2>1 DEF OnePlace, Parts
    <2>3. /\ mbox' \in Seq(Message) /\ Len(mbox') <= MboxSize
          /\ \A i \in DOMAIN mbox' : Loads1(mbox'[i])
          /\ Sets(Loads(mbox')) = Sets(Loads(mbox)) \cup rx.p /\ Apart(Loads(mbox'))
          /\ Count(mbox', "inpkt") = Count(mbox, "inpkt") + 1
          /\ Count(mbox', "reclaim") = Count(mbox, "reclaim")
          /\ Count(mbox', "callback") = Count(mbox, "callback")
      <3>1. mbox' = Append(mbox, m) /\ Len(mbox) < MboxSize /\ \A i \in DOMAIN mbox : Loads1(mbox[i])
        BY <1>0, <1>3 DEF Loaded, Room, m
      <3>2. /\ mbox' \in Seq(Message) /\ Len(mbox') <= MboxSize
            /\ \A i \in DOMAIN mbox' : Loads1(mbox'[i])
            /\ Sets(Loads(mbox')) = Sets(Loads(mbox)) \cup m.p
            /\ Apart(Loads(mbox)) /\ m.p \cap Sets(Loads(mbox)) = {} => Apart(Loads(mbox'))
            /\ \A t : Count(mbox, t) \in Nat /\ Count(mbox', t) = Count(mbox, t) + Busy(m.type = t)
        BY <1>0, <2>1, <3>1, Posted
      <3>3. Apart(Loads(mbox))  BY <1>0 DEF OnePlace
      <3>4. /\ Count(mbox', "inpkt") = Count(mbox, "inpkt") + Busy(m.type = "inpkt")
            /\ Count(mbox', "reclaim") = Count(mbox, "reclaim") + Busy(m.type = "reclaim")
            /\ Count(mbox', "callback") = Count(mbox, "callback") + Busy(m.type = "callback")
        BY <3>2
      <3> QED  BY <1>2, <2>1, <2>2, <3>2, <3>3, <3>4 DEF Busy
    <2>4. Types'  BY <1>0, <1>1, <1>3, <2>3 DEF Types, RxType
    <2>5. Loaded'  BY <1>0, <1>1, <2>3 DEF Loaded, Loads1
    <2>6. OnePlace'  BY <1>0, <1>1, <1>3, <2>3 DEF OnePlace, Parts
    <2>7. Sizes'  BY <1>0, <1>1, <2>3 DEF Sizes
    <2>8. Books' /\ Flag'  BY <1>0, <1>1, <1>2, <1>3, <2>3 DEF Books, Flag, Busy
    <2> QED  BY <2>4, <2>5, <2>6, <2>7, <2>8 DEF RxInv
  <1>4. CASE inpkts' = inpkts + 1 /\ Give(rx.p) /\ UNCHANGED mbox
    <2>1. pool' = pool \cup rx.p  BY <1>4 DEF Give
    <2>2. pkt' \in [Pbuf -> Packet]  BY <1>0, <1>4, ForgetType DEF Give
    <2>3. Types'  BY <1>0, <1>1, <1>4, <2>1, <2>2 DEF Types, RxType
    <2>4. Loaded'  BY <1>0, <1>1, <1>4 DEF Loaded, Loads1
    <2>5. OnePlace'  BY <1>0, <1>1, <1>4, <2>1 DEF OnePlace, Parts
    <2>6. Sizes'  BY <1>0, <1>1, <1>4 DEF Sizes
    <2>7. Books' /\ Flag'  BY <1>0, <1>1, <1>2, <1>4 DEF Books, Flag, Busy
    <2> QED  BY <2>3, <2>4, <2>5, <2>6, <2>7 DEF RxInv
  <1> QED  BY <1>3, <1>4 DEF RxPost, InpktRefused

-----------------------------------------------------------------------------
(***************************************************************************)
(* The steps of the tcpip thread.                                          *)
(***************************************************************************)
(* The thread takes a message, and the pbuf with it. *)
LEMMA ThreadFetchKeeps ==
  ASSUME RxInv, ThreadFetch
  PROVE  RxInv'
  <1> USE DEF netVars
  <1>0. Types /\ Loaded /\ OnePlace /\ Sizes /\ Books /\ Flag /\ mbox \in Seq(Message)
    BY DEF RxInv, Types
  <1>1. UNCHANGED <<pool, pkt, reass, ooseq, recvmbox, rx, inpkts, apis, pending, app, poster>>
    BY DEF ThreadFetch
  <1>2. /\ thread.type = "none" /\ thread.p = {} /\ mbox # <<>>
        /\ thread' = Head(mbox) /\ mbox' = Tail(mbox)
    BY DEF ThreadFetch, None
  <1> DEFINE m == Head(mbox)
  <1>3. /\ mbox' \in Seq(Message) /\ Len(mbox') <= Len(mbox) /\ m \in Message /\ Loads1(m)
        /\ \A i \in DOMAIN mbox' : Loads1(mbox'[i])
        /\ Sets(Loads(mbox)) = Sets(Loads(mbox')) \cup m.p
        /\ Apart(Loads(mbox)) => Apart(Loads(mbox')) /\ m.p \cap Sets(Loads(mbox')) = {}
        /\ \A t : Count(mbox', t) \in Nat /\ Count(mbox, t) = Count(mbox', t) + Busy(m.type = t)
    BY <1>0, <1>2, Fetched DEF Loaded
  <1> HIDE DEF m
  <1>4. thread' = m  BY <1>2 DEF m
  <1>5. m \in [type : ThreadType, p : SUBSET Pbuf] /\ m.type \in {"inpkt", "reclaim", "callback"}
    BY <1>3 DEF Message, ThreadType
  <1>6. Types'  BY <1>0, <1>1, <1>3, <1>4, <1>5 DEF Types
  <1>7. Loaded'
    <2>1. Loads1(thread')  BY <1>3, <1>4
    <2> QED  BY <1>0, <1>1, <1>3, <2>1 DEF Loaded
  <1>8. OnePlace'
    <2>1. Apart(Loads(mbox')) /\ m.p \cap Sets(Loads(mbox')) = {}  BY <1>0, <1>3 DEF OnePlace
    <2> QED  BY <1>0, <1>1, <1>2, <1>3, <1>4, <2>1 DEF OnePlace, Parts
  <1>9. Sizes'
    <2>1. Len(mbox) \in Nat /\ Len(mbox') \in Nat  BY <1>0, <1>3
    <2> QED  BY <1>0, <1>1, <1>3, <2>1, SizeAssumption DEF Sizes
  <1>10. /\ Count(mbox, "inpkt") = Count(mbox', "inpkt") + Busy(m.type = "inpkt")
         /\ Count(mbox, "reclaim") = Count(mbox', "reclaim") + Busy(m.type = "reclaim")
         /\ Count(mbox, "callback") = Count(mbox', "callback") + Busy(m.type = "callback")
         /\ Count(mbox', "inpkt") \in Nat /\ Count(mbox', "reclaim") \in Nat
         /\ Count(mbox', "callback") \in Nat /\ inpkts \in Nat /\ apis \in Nat
    BY <1>0, <1>3 DEF Types
  <1>11. Books' /\ Flag'
    <2> DEFINE b == Busy(pending)
    <2>1. Busy(pending') = b  BY <1>1
    <2>2. thread'.type = m.type  BY <1>4
    <2>3. Count(mbox, "reclaim") + Busy(rx.type \in {"reclaim", "postreclaim", "unmark"}) = b
      BY <1>0, <1>2, <1>10 DEF Flag, Busy
    <2> HIDE DEF b
    <2>4. CASE m.type = "inpkt"
      <3>1. Books'  BY <1>0, <1>1, <1>2, <1>10, <2>2, <2>4 DEF Books, Busy
      <3>2. Flag'  BY <1>1, <1>10, <2>1, <2>2, <2>3, <2>4 DEF Flag, Busy
      <3> QED  BY <3>1, <3>2
    <2>5. CASE m.type \in {"reclaim", "callback"}
      <3>1. Books'
        <4>1. Count(mbox, "inpkt") = Count(mbox', "inpkt")  BY <1>10, <2>5 DEF Busy
        <4>2. Count(mbox, "callback") + Count(mbox, "reclaim")
                = Count(mbox', "callback") + Count(mbox', "reclaim") + 1
          BY <1>10, <2>5 DEF Busy
        <4> DEFINE x == Busy(rx.type = "post")
                   y == Busy(rx.type = "postreclaim")
                   z == Busy(poster # "none")
                   c == Count(mbox, "callback")
                   k == Count(mbox, "reclaim")
                   d == Count(mbox', "callback")
                   l == Count(mbox', "reclaim")
        <4>3. x \in {0, 1} /\ y \in {0, 1} /\ z \in {0, 1}  BY DEF Busy
        <4>4. Busy(rx'.type = "post") = x /\ Busy(rx'.type = "postreclaim") = y /\ Busy(poster' # "none") = z
          BY <1>1
        <4>5. c \in Int /\ k \in Int /\ d \in Int /\ l \in Int /\ apis \in Int  BY <1>10, CountNat, <1>0
        <4>6. inpkts' = inpkts /\ apis' = apis  BY <1>1
        <4> HIDE DEF x, y, z, c, k, d, l
        <4>7. /\ inpkts + Count(mbox, "inpkt") + x + 0 = NumInpkt
              /\ apis + c + k + y + z + 0 = NumApi
          BY <1>0, <1>2 DEF Books, Busy, x, y, z, c, k
        <4>8. c + k = d + l + 1  BY <4>2 DEF c, k, d, l
        <4>9. apis + d + l + y + z + 1 = NumApi  BY <4>3, <4>5, <4>7, <4>8
        <4>10. /\ Busy(thread'.type \in {"inpkt", "handled"}) = 0
               /\ Busy(thread'.type \in {"callback", "reclaim", "unmarked"}) = 1
          BY <2>2, <2>5 DEF Busy
        <4> QED  BY <4>1, <4>4, <4>6, <4>7, <4>9, <4>10 DEF Books, d, l
      <3>2. Flag'  BY <1>1, <1>10, <2>1, <2>2, <2>3, <2>5 DEF Flag, Busy
      <3> QED  BY <3>1, <3>2
    <2> QED  BY <1>5, <2>4, <2>5
  <1> QED  BY <1>6, <1>7, <1>8, <1>9, <1>11 DEF RxInv

(* The steps after which the thread holds nothing, and that move no pbuf. *)
LEMMA ThreadMoves ==
  ASSUME RxInv, NEW t \in ThreadType \ {"inpkt"}, thread.type # "inpkt",
         thread' = Msg(t, {}), UNCHANGED <<pool, pkt, netVars, rx, mbox, app>>,
         inpkts' \in Nat, apis' \in Nat, pending' \in BOOLEAN, poster' = poster, Books', Flag'
  PROVE  RxInv'
  <1> USE DEF RxInv, netVars
  <1>1. thread' = [type |-> t, p |-> {}] /\ thread.p = {}
    BY DEF Msg, Loaded, Loads1, Types, ThreadType
  <1>2. Types'  BY <1>1 DEF Types
  <1>3. Loaded'  BY <1>1 DEF Loaded, Loads1, ThreadType
  <1>4. OnePlace'  BY <1>1 DEF OnePlace, Parts
  <1>5. Sizes'  BY DEF Sizes
  <1> QED  BY <1>2, <1>3, <1>4, <1>5

(* The message of a packet goes back to its pool. *)
LEMMA ThreadFreeInpktKeeps ==
  ASSUME RxInv, ThreadFreeInpkt
  PROVE  RxInv'
  <1> USE DEF netVars
  <1>0. /\ Types /\ Books /\ Flag /\ inpkts \in Nat /\ apis \in Nat /\ pending \in BOOLEAN
    BY DEF RxInv, Types
  <1>1. /\ UNCHANGED <<pool, pkt, reass, ooseq, recvmbox, rx, mbox, apis, pending, app, poster>>
        /\ thread.type = "handled" /\ inpkts' = inpkts + 1 /\ thread' = Msg("none", {})
    BY DEF ThreadFreeInpkt, None, Msg
  <1>2. \A t : Count(mbox, t) \in Nat  BY <1>0, CountNat
  <1>3. thread'.type = "none" /\ inpkts' \in Nat  BY <1>0, <1>1 DEF Msg
  <1>4. Books' /\ Flag'  BY <1>0, <1>1, <1>2, <1>3 DEF Books, Flag, Busy
  <1> QED  BY <1>0, <1>1, <1>3, <1>4, ThreadMoves DEF ThreadType

(* pbuf_free_ooseq clears the flag first. *)
LEMMA ThreadUnmarkKeeps ==
  ASSUME RxInv, ThreadUnmark
  PROVE  RxInv'
  <1> USE DEF netVars
  <1>0. /\ Types /\ Books /\ Flag /\ inpkts \in Nat /\ apis \in Nat /\ pending \in BOOLEAN
    BY DEF RxInv, Types
  <1>1. /\ UNCHANGED <<pool, pkt, reass, ooseq, recvmbox, rx, mbox, inpkts, apis, app, poster>>
        /\ thread.type = "reclaim" /\ pending' = FALSE /\ thread' = Msg("unmarked", {})
    BY DEF ThreadUnmark
  <1>2. \A t : Count(mbox, t) \in Nat  BY <1>0, CountNat
  <1>3. thread'.type = "unmarked"  BY <1>1 DEF Msg
  <1>4. Busy(pending') = 0 /\ Busy(pending) \in {0, 1}  BY <1>1 DEF Busy
  <1>5. Count(mbox, "reclaim") = 0 /\ Busy(rx.type \in {"reclaim", "postreclaim", "unmark"}) = 0
    BY <1>0, <1>1, <1>2, <1>4 DEF Flag, Busy
  <1>6. Books'  BY <1>0, <1>1, <1>3 DEF Books, Busy
  <1>7. Flag'  BY <1>1, <1>3, <1>4, <1>5 DEF Flag, Busy
  <1>8. apis' \in Nat /\ inpkts' \in Nat /\ pending' \in BOOLEAN  BY <1>0, <1>1
  <1> QED  BY <1>1, <1>6, <1>7, <1>8, ThreadMoves DEF ThreadType

(* A callback message goes back to its pool, once. *)
LEMMA ThreadCallbackKeeps ==
  ASSUME RxInv, ThreadCallback
  PROVE  RxInv'
  <1> USE DEF netVars
  <1>0. /\ Types /\ Books /\ Flag /\ inpkts \in Nat /\ apis \in Nat /\ pending \in BOOLEAN
    BY DEF RxInv, Types
  <1>1. /\ UNCHANGED <<pool, pkt, reass, ooseq, recvmbox, rx, mbox, inpkts, pending, app, poster>>
        /\ thread.type = "callback" /\ apis' = apis + 1 /\ thread' = Msg("none", {})
    BY DEF ThreadCallback, ReturnApi, None, Msg
  <1>2. \A t : Count(mbox, t) \in Nat  BY <1>0, CountNat
  <1>3. thread'.type = "none" /\ apis' \in Nat  BY <1>0, <1>1 DEF Msg
  <1>4. Books' /\ Flag'  BY <1>0, <1>1, <1>2, <1>3 DEF Books, Flag, Busy
  <1> QED  BY <1>0, <1>1, <1>3, <1>4, ThreadMoves DEF ThreadType

(* pbuf_free_ooseq frees the segments of one connection. *)
LEMMA ThreadReclaimKeeps ==
  ASSUME RxInv, ThreadReclaim
  PROVE  RxInv'
  <1>0. /\ Types /\ Loaded /\ OnePlace /\ Sizes /\ Books /\ Flag /\ apis \in Nat
        /\ ooseq \subseteq Pbuf /\ pkt \in [Pbuf -> Packet]
    BY DEF RxInv, Types
  <1>1. /\ UNCHANGED <<reass, recvmbox, rx, mbox, inpkts, pending, app, poster>>
        /\ thread.type = "unmarked" /\ apis' = apis + 1 /\ thread' = [type |-> "none", p |-> {}]
    BY DEF ThreadReclaim, None
  <1>2. \E S \in SUBSET ooseq : ooseq' = ooseq \ S /\ pool' = pool \cup S /\ pkt' \in [Pbuf -> Packet]
    <2>1. CASE ooseq = {} /\ UNCHANGED <<ooseq, pool, pkt>>
      <3>1. ooseq' = ooseq \ {} /\ pool' = pool \cup {} /\ pkt' \in [Pbuf -> Packet]  BY <1>0, <2>1
      <3> WITNESS {} \in SUBSET ooseq
      <3> QED  BY <3>1
    <2>2. ASSUME NEW c \in Conn, ooseq' = ooseq \ OoseqOf(c), Give(OoseqOf(c))
          PROVE  \E S \in SUBSET ooseq :
                   ooseq' = ooseq \ S /\ pool' = pool \cup S /\ pkt' \in [Pbuf -> Packet]
      <3>1. OoseqOf(c) \subseteq ooseq  BY DEF OoseqOf
      <3>2. pkt' \in [Pbuf -> Packet]  BY <1>0, <2>2, ForgetType DEF Give
      <3> QED  BY <2>2, <3>1, <3>2 DEF Give
    <2> QED  BY <2>1, <2>2 DEF ThreadReclaim, FreeOoseq
  <1>3. PICK S \in SUBSET ooseq : ooseq' = ooseq \ S /\ pool' = pool \cup S /\ pkt' \in [Pbuf -> Packet]
    BY <1>2
  <1>4. \A t : Count(mbox, t) \in Nat  BY <1>0, CountNat
  <1>5. thread.p = {}  BY <1>0, <1>1 DEF Loaded, Loads1
  <1>6. Types'  BY <1>0, <1>1, <1>3 DEF Types, ThreadType
  <1>7. Loaded'  BY <1>0, <1>1 DEF Loaded, Loads1
  <1>8. OnePlace'  BY <1>0, <1>1, <1>3, <1>5 DEF OnePlace, Parts
  <1>9. Sizes'  BY <1>0, <1>1 DEF Sizes
  <1>10. Books' /\ Flag'  BY <1>0, <1>1, <1>4 DEF Books, Flag, Busy
  <1> QED  BY <1>6, <1>7, <1>8, <1>9, <1>10 DEF RxInv

(* ip_reass_tmr frees what it does not keep. *)
LEMMA ThreadTickKeeps ==
  ASSUME RxInv, ThreadTick
  PROVE  RxInv'
  <1>0. /\ Types /\ Loaded /\ OnePlace /\ Sizes /\ Books /\ Flag /\ Quiet(reass)
        /\ pkt \in [Pbuf -> Packet]
    BY DEF RxInv, Types
  <1> DEFINE r == R!ReassTmr(R!Call(reass))
  <1>1. /\ UNCHANGED <<ooseq, recvmbox, rx, mbox, inpkts, apis, pending, thread, app, poster>>
        /\ reass' = R!Call(r) /\ Give(r.freed)
    BY DEF ThreadTick
  <1>2. Splits(reass, r, {}) /\ r.out.frags = {}  BY <1>0, TickSplits
  <1> HIDE DEF r
  <1>3. pool' = pool \cup r.freed /\ pkt' \in [Pbuf -> Packet]  BY <1>0, <1>1, ForgetType DEF Give
  <1>4. /\ Quiet(reass') /\ r.freed \subseteq Pbuf
        /\ P!HeldIn(reass') \cup r.freed = P!HeldIn(reass) /\ P!HeldIn(reass') \cap r.freed = {}
    BY <1>1, <1>2 DEF Splits
  <1>5. Types'  BY <1>0, <1>1, <1>3, <1>4 DEF Types
  <1>6. Loaded'  BY <1>0, <1>1 DEF Loaded
  <1>7. OnePlace'  BY <1>0, <1>1, <1>3, <1>4 DEF OnePlace, Parts
  <1>8. Sizes' /\ Books' /\ Flag'  BY <1>0, <1>1 DEF Sizes, Books, Flag
  <1> QED  BY <1>5, <1>6, <1>7, <1>8 DEF RxInv

(* recv_udp queues a datagram for the application or frees it. *)
LEMMA DeliverKeeps ==
  ASSUME Types, Sizes, Apart(recvmbox), NEW S \in SUBSET Pbuf, NEW freed \in SUBSET Pbuf,
         S \cap Sets(recvmbox) = {}, Deliver(S, freed)
  PROVE  /\ recvmbox' \in Seq(SUBSET Pbuf) /\ Len(recvmbox') <= RecvSize /\ Apart(recvmbox')
         /\ pkt' \in [Pbuf -> Packet]
         /\ \/ pool' = pool \cup freed /\ Sets(recvmbox') = Sets(recvmbox) \cup S
            \/ pool' = pool \cup freed \cup S /\ Sets(recvmbox') = Sets(recvmbox)
  <1>0. recvmbox \in Seq(SUBSET Pbuf) /\ pkt \in [Pbuf -> Packet]  BY DEF Types
  <1>1. CASE /\ Len(recvmbox) < RecvSize /\ recvmbox' = Append(recvmbox, S)
             /\ pool' = pool \cup freed /\ Forget(freed \cup S)
    <2>1. /\ recvmbox' \in Seq(SUBSET Pbuf) /\ Sets(recvmbox') = Sets(recvmbox) \cup S
          /\ Apart(recvmbox')
      <3>1. /\ Append(recvmbox, S) \in Seq(SUBSET Pbuf)
            /\ Sets(Append(recvmbox, S)) = Sets(recvmbox) \cup S
            /\ Apart(recvmbox) /\ S \cap Sets(recvmbox) = {} => Apart(Append(recvmbox, S))
        BY <1>0, SetsAppend
      <3> QED  BY <1>1, <3>1
    <2>2. Len(recvmbox') = Len(recvmbox) + 1 /\ Len(recvmbox) \in Nat  BY <1>0, <1>1
    <2>3. pkt' \in [Pbuf -> Packet]  BY <1>0, <1>1, ForgetType
    <2> QED  BY <1>1, <2>1, <2>2, <2>3, SizeAssumption
  <1>2. CASE Give(freed \cup S) /\ UNCHANGED recvmbox
    <2>1. pkt' \in [Pbuf -> Packet]  BY <1>0, <1>2, ForgetType DEF Give
    <2> QED  BY <1>0, <1>2, <2>1 DEF Give, Sizes
  <1> QED  BY <1>1, <1>2 DEF Deliver

(* Where the pbufs go that the thread and reassembly had. *)
Sorted(p, G, V, O) ==
  /\ pool' = pool \cup G /\ Sets(recvmbox') = Sets(recvmbox) \cup V /\ ooseq' = ooseq \cup O
  /\ G \cup V \cup O \cup P!HeldIn(reass') = P!HeldIn(reass) \cup {p}
  /\ G \cap V = {} /\ G \cap O = {} /\ V \cap O = {}
  /\ G \cap P!HeldIn(reass') = {} /\ V \cap P!HeldIn(reass') = {} /\ O \cap P!HeldIn(reass') = {}

(* A fragment: reassembly keeps it, frees it, or has a datagram to deliver. *)
LEMMA FragmentSorted ==
  ASSUME RxInv, NEW p \in Pbuf, thread.p = {p}, InputFragment(p)
  PROVE  /\ Quiet(reass') /\ recvmbox' \in Seq(SUBSET Pbuf) /\ Len(recvmbox') <= RecvSize
         /\ Apart(recvmbox') /\ pkt' \in [Pbuf -> Packet]
         /\ \E G, V, O \in SUBSET Pbuf : Sorted(p, G, V, O)
  <1>0. /\ Types /\ OnePlace /\ Sizes /\ Apart(recvmbox) /\ Quiet(reass) /\ pkt \in [Pbuf -> Packet]
        /\ recvmbox \in Seq(SUBSET Pbuf)
    BY DEF RxInv, Types, OnePlace
  <1>1. p \notin P!HeldIn(reass)  BY <1>0 DEF OnePlace, Parts
  <1>2. pkt[p] \in Fragment
    <2>1. CASE pkt[p] \notin Fragment
      <3>1. pkt[p].kind = "fragment" /\ pkt[p] \in Packet  BY <1>0, <2>1 DEF InputFragment, Kind
      <3> QED  BY <2>1, <3>1 DEF Packet
    <2> QED  BY <2>1
  <1> DEFINE r == R!Ip4Reass(R!Call(reass), pkt, p)
  <1>3. Splits(reass, r, {p})  BY <1>0, <1>1, <1>2, FragmentSplits
  <1>4. /\ reass' = R!Call(r) /\ ooseq' = ooseq
        /\ \/ r.out = R!NoOut /\ Give(r.freed) /\ UNCHANGED recvmbox
           \/ Deliver(r.out.frags, r.freed)
    BY DEF InputFragment
  <1> HIDE DEF r
  <1>5. /\ Quiet(reass') /\ r.freed \in SUBSET Pbuf /\ r.out.frags \in SUBSET Pbuf
        /\ P!HeldIn(reass') \cup r.freed \cup r.out.frags = P!HeldIn(reass) \cup {p}
        /\ P!HeldIn(reass') \cap r.freed = {}
        /\ r.out.frags \cap r.freed = {} /\ r.out.frags \cap P!HeldIn(reass') = {}
        /\ r.out = R!NoOut => r.out.frags = {}
    BY <1>3, <1>4 DEF Splits
  <1>6. CASE r.out = R!NoOut /\ Give(r.freed) /\ UNCHANGED recvmbox
    <2>1. pkt' \in [Pbuf -> Packet]  BY <1>0, <1>6, ForgetType DEF Give
    <2>2. Sorted(p, r.freed, {}, {})  BY <1>4, <1>5, <1>6 DEF Sorted, Give
    <2>3. \E G, V, O \in SUBSET Pbuf : Sorted(p, G, V, O)
      <3> USE <1>5
      <3> WITNESS r.freed \in SUBSET Pbuf, {} \in SUBSET Pbuf, {} \in SUBSET Pbuf
      <3> QED  BY <2>2
    <2> QED  BY <1>0, <1>5, <1>6, <2>1, <2>3 DEF Sizes
  <1>7. CASE Deliver(r.out.frags, r.freed)
    <2>1. r.out.frags \cap Sets(recvmbox) = {}  BY <1>0, <1>5 DEF OnePlace, Parts
    <2>2. /\ recvmbox' \in Seq(SUBSET Pbuf) /\ Len(recvmbox') <= RecvSize /\ Apart(recvmbox')
          /\ pkt' \in [Pbuf -> Packet]
          /\ \/ pool' = pool \cup r.freed /\ Sets(recvmbox') = Sets(recvmbox) \cup r.out.frags
             \/ pool' = pool \cup r.freed \cup r.out.frags /\ Sets(recvmbox') = Sets(recvmbox)
      BY <1>0, <1>5, <1>7, <2>1, DeliverKeeps
    <2>3. CASE pool' = pool \cup r.freed /\ Sets(recvmbox') = Sets(recvmbox) \cup r.out.frags
      <3>1. Sorted(p, r.freed, r.out.frags, {})  BY <1>4, <1>5, <2>3 DEF Sorted
      <3>2. \E G, V, O \in SUBSET Pbuf : Sorted(p, G, V, O)
        <4> USE <1>5
        <4> WITNESS r.freed \in SUBSET Pbuf, r.out.frags \in SUBSET Pbuf, {} \in SUBSET Pbuf
        <4> QED  BY <3>1
      <3> QED  BY <1>5, <2>2, <3>2
    <2>4. CASE pool' = pool \cup r.freed \cup r.out.frags /\ Sets(recvmbox') = Sets(recvmbox)
      <3> DEFINE G0 == r.freed \cup r.out.frags
      <3>1. Sorted(p, G0, {}, {})  BY <1>4, <1>5, <2>4 DEF Sorted
      <3>2. \E G, V, O \in SUBSET Pbuf : Sorted(p, G, V, O)
        <4>1. G0 \in SUBSET Pbuf  BY <1>5
        <4> HIDE DEF G0
        <4> WITNESS G0 \in SUBSET Pbuf, {} \in SUBSET Pbuf, {} \in SUBSET Pbuf
        <4> QED  BY <3>1
      <3> QED  BY <1>5, <2>2, <3>2
    <2> QED  BY <2>2, <2>3, <2>4
  <1> QED  BY <1>4, <1>6, <1>7

(* Any other packet: delivered, queued out of sequence, or freed. *)
LEMMA PacketSorted ==
  ASSUME RxInv, NEW p \in Pbuf, thread.p = {p}, InputPacket(p)
  PROVE  /\ Quiet(reass') /\ recvmbox' \in Seq(SUBSET Pbuf) /\ Len(recvmbox') <= RecvSize
         /\ Apart(recvmbox') /\ pkt' \in [Pbuf -> Packet]
         /\ \E G, V, O \in SUBSET Pbuf : Sorted(p, G, V, O)
  <1>0. /\ Types /\ OnePlace /\ Sizes /\ Apart(recvmbox) /\ Quiet(reass) /\ pkt \in [Pbuf -> Packet]
        /\ recvmbox \in Seq(SUBSET Pbuf)
    BY DEF RxInv, Types, OnePlace
  <1>1. reass' = reass /\ Quiet(reass') /\ {p} \in SUBSET Pbuf  BY <1>0 DEF InputPacket
  <1>2. p \notin P!HeldIn(reass) /\ {p} \cap Sets(recvmbox) = {}  BY <1>0 DEF OnePlace, Parts
  <1>3. CASE Deliver({p}, {}) /\ UNCHANGED ooseq
    <2>1. /\ recvmbox' \in Seq(SUBSET Pbuf) /\ Len(recvmbox') <= RecvSize /\ Apart(recvmbox')
          /\ pkt' \in [Pbuf -> Packet]
          /\ \/ pool' = pool \cup {} /\ Sets(recvmbox') = Sets(recvmbox) \cup {p}
             \/ pool' = pool \cup {} \cup {p} /\ Sets(recvmbox') = Sets(recvmbox)
      BY <1>0, <1>1, <1>2, <1>3, DeliverKeeps
    <2>2. Sorted(p, {}, {p}, {}) \/ Sorted(p, {p}, {}, {})
      BY <1>1, <1>2, <1>3, <2>1 DEF Sorted
    <2>3. \E G, V, O \in SUBSET Pbuf : Sorted(p, G, V, O)
      <3>1. CASE Sorted(p, {}, {p}, {})
        <4> WITNESS {} \in SUBSET Pbuf, {p} \in SUBSET Pbuf, {} \in SUBSET Pbuf
        <4> QED  BY <3>1
      <3>2. CASE Sorted(p, {p}, {}, {})
        <4> WITNESS {p} \in SUBSET Pbuf, {} \in SUBSET Pbuf, {} \in SUBSET Pbuf
        <4> QED  BY <3>2
      <3> QED  BY <2>2, <3>1, <3>2
    <2> QED  BY <1>1, <2>1, <2>3
  <1>4. CASE ooseq' = ooseq \cup {p} /\ UNCHANGED <<pool, pkt, recvmbox>>
    <2>1. Sorted(p, {}, {}, {p})  BY <1>1, <1>2, <1>4 DEF Sorted
    <2>2. \E G, V, O \in SUBSET Pbuf : Sorted(p, G, V, O)
      <3> WITNESS {} \in SUBSET Pbuf, {} \in SUBSET Pbuf, {p} \in SUBSET Pbuf
      <3> QED  BY <2>1
    <2> QED  BY <1>0, <1>1, <1>4, <2>2 DEF Sizes
  <1>5. CASE Give({p}) /\ UNCHANGED <<ooseq, recvmbox>>
    <2>1. Sorted(p, {p}, {}, {})  BY <1>1, <1>2, <1>5 DEF Sorted, Give
    <2>2. \E G, V, O \in SUBSET Pbuf : Sorted(p, G, V, O)
      <3> WITNESS {p} \in SUBSET Pbuf, {} \in SUBSET Pbuf, {} \in SUBSET Pbuf
      <3> QED  BY <2>1
    <2>3. pkt' \in [Pbuf -> Packet]  BY <1>0, <1>5, ForgetType DEF Give
    <2> QED  BY <1>0, <1>1, <1>5, <2>2, <2>3 DEF Sizes
  <1> QED  BY <1>3, <1>4, <1>5 DEF InputPacket

(* tcpip_thread hands the packet of its message to ethernet_input. *)
LEMMA ThreadInputKeeps ==
  ASSUME RxInv, ThreadInput
  PROVE  RxInv'
  <1>0. Types /\ Loaded /\ OnePlace /\ Sizes /\ Books /\ Flag  BY DEF RxInv
  <1>1. /\ UNCHANGED <<rx, mbox, inpkts, apis, pending, app, poster>>
        /\ thread.type = "inpkt" /\ thread' = [type |-> "handled", p |-> {}]
    BY DEF ThreadInput, Msg
  <1>2. PICK p \in Pbuf : thread.p = {p}  BY <1>0, <1>1 DEF Loaded, Loads1
  <1>3. InputFragment(p) \/ InputPacket(p)  BY <1>2 DEF ThreadInput
  <1>4. /\ Quiet(reass') /\ recvmbox' \in Seq(SUBSET Pbuf) /\ Len(recvmbox') <= RecvSize
        /\ Apart(recvmbox') /\ pkt' \in [Pbuf -> Packet]
        /\ \E G, V, O \in SUBSET Pbuf : Sorted(p, G, V, O)
    <2>1. CASE InputFragment(p)  BY <1>2, <2>1, FragmentSorted
    <2>2. CASE InputPacket(p)  BY <1>2, <2>2, PacketSorted
    <2> QED  BY <1>3, <2>1, <2>2
  <1>5. PICK G \in SUBSET Pbuf, V \in SUBSET Pbuf, O \in SUBSET Pbuf : Sorted(p, G, V, O)
    BY <1>4
  <1>6. Types'  BY <1>0, <1>1, <1>4, <1>5 DEF Types, ThreadType, Sorted
  <1>7. Loaded'  BY <1>0, <1>1 DEF Loaded, Loads1
  <1>8. OnePlace'  BY <1>0, <1>1, <1>2, <1>4, <1>5 DEF OnePlace, Parts, Sorted
  <1>9. Sizes'  BY <1>0, <1>1, <1>4 DEF Sizes
  <1>10. Books' /\ Flag'  BY <1>0, <1>1 DEF Books, Flag, Busy
  <1> QED  BY <1>6, <1>7, <1>8, <1>9, <1>10 DEF RxInv

-----------------------------------------------------------------------------
(***************************************************************************)
(* The steps of the application and of the other tasks.                    *)
(***************************************************************************)
(* The application takes a datagram. *)
LEMMA AppRecvKeeps ==
  ASSUME RxInv, AppRecv
  PROVE  RxInv'
  <1>0. Types /\ Loaded /\ OnePlace /\ Sizes /\ Books /\ Flag /\ recvmbox \in Seq(SUBSET Pbuf)
    BY DEF RxInv, Types
  <1>1. /\ UNCHANGED <<pool, pkt, reass, ooseq, rx, mbox, inpkts, apis, pending, thread, poster>>
        /\ app = {} /\ recvmbox # <<>> /\ app' = Head(recvmbox) /\ recvmbox' = Tail(recvmbox)
    BY DEF AppRecv
  <1>2. /\ Tail(recvmbox) \in Seq(SUBSET Pbuf) /\ Head(recvmbox) \in SUBSET Pbuf
        /\ Sets(recvmbox) = Sets(Tail(recvmbox)) \cup Head(recvmbox)
        /\ Apart(recvmbox) => Apart(Tail(recvmbox)) /\ Head(recvmbox) \cap Sets(Tail(recvmbox)) = {}
    BY <1>0, <1>1, SetsTail
  <1>3. Len(recvmbox') = Len(recvmbox) - 1 /\ Len(recvmbox) \in Nat  BY <1>0, <1>1
  <1>4. /\ recvmbox' \in Seq(SUBSET Pbuf) /\ app' \in SUBSET Pbuf /\ Apart(recvmbox')
        /\ Sets(recvmbox) = Sets(recvmbox') \cup app' /\ app' \cap Sets(recvmbox') = {}
    BY <1>0, <1>1, <1>2 DEF OnePlace
  <1>5. Types'  BY <1>0, <1>1, <1>4 DEF Types
  <1>6. Loaded'  BY <1>0, <1>1 DEF Loaded
  <1>7. OnePlace'  BY <1>0, <1>1, <1>4 DEF OnePlace, Parts
  <1>8. Sizes'  BY <1>0, <1>1, <1>3, SizeAssumption DEF Sizes
  <1>9. Books' /\ Flag'  BY <1>0, <1>1 DEF Books, Flag
  <1> QED  BY <1>5, <1>6, <1>7, <1>8, <1>9 DEF RxInv

(* The application frees it. *)
LEMMA AppFreeKeeps ==
  ASSUME RxInv, AppFree
  PROVE  RxInv'
  <1>0. Types /\ Loaded /\ OnePlace /\ Sizes /\ Books /\ Flag /\ pkt \in [Pbuf -> Packet]
    BY DEF RxInv, Types
  <1>1. /\ UNCHANGED <<reass, ooseq, recvmbox, rx, mbox, inpkts, apis, pending, thread, poster>>
        /\ Give(app) /\ app' = {}
    BY DEF AppFree, netVars
  <1>2. pool' = pool \cup app /\ pkt' \in [Pbuf -> Packet]  BY <1>0, <1>1, ForgetType DEF Give
  <1>3. Types'  BY <1>0, <1>1, <1>2 DEF Types
  <1>4. Loaded'  BY <1>0, <1>1 DEF Loaded
  <1>5. OnePlace'  BY <1>0, <1>1, <1>2 DEF OnePlace, Parts
  <1>6. Sizes' /\ Books' /\ Flag'  BY <1>0, <1>1 DEF Sizes, Books, Flag
  <1> QED  BY <1>3, <1>4, <1>5, <1>6 DEF RxInv

(* A task takes a message for a callback of its own. *)
LEMMA CallbackNewKeeps ==
  ASSUME RxInv, NEW how \in {"wait", "try"}, CallbackNew(how)
  PROVE  RxInv'
  <1>0. Types /\ Loaded /\ OnePlace /\ Sizes /\ Books /\ Flag /\ apis \in Nat
    BY DEF RxInv, Types
  <1>1. /\ UNCHANGED <<pool, pkt, reass, ooseq, recvmbox, rx, mbox, inpkts, pending, thread, app>>
        /\ poster = "none" /\ apis > 0 /\ apis' = apis - 1 /\ poster' = how
    BY DEF CallbackNew, netVars
  <1>2. \A t : Count(mbox, t) \in Nat  BY <1>0, CountNat
  <1>3. Types'  BY <1>0, <1>1 DEF Types
  <1>4. Loaded' /\ OnePlace' /\ Sizes' /\ Flag'  BY <1>0, <1>1 DEF Loaded, OnePlace, Sizes, Flag
  <1>5. Books'  BY <1>0, <1>1, <1>2 DEF Books, Busy
  <1> QED  BY <1>3, <1>4, <1>5 DEF RxInv

(* It posts the message, or gives it back. *)
LEMMA CallbackPostKeeps ==
  ASSUME RxInv, CallbackPost
  PROVE  RxInv'
  <1>0. Types /\ Loaded /\ OnePlace /\ Sizes /\ Books /\ Flag /\ apis \in Nat /\ mbox \in Seq(Message)
    BY DEF RxInv, Types
  <1>1. /\ UNCHANGED <<pool, pkt, reass, ooseq, recvmbox, rx, inpkts, pending, thread, app>>
        /\ poster # "none" /\ poster' = "none"
    BY DEF CallbackPost, netVars
  <1>2. \A t : Count(mbox, t) \in Nat  BY <1>0, CountNat
  <1>3. CASE Room /\ mbox' = Append(mbox, Msg("callback", {})) /\ UNCHANGED apis
    <2> DEFINE m == Msg("callback", {})
    <2>1. m \in Message /\ Loads1(m) /\ m.p = {} /\ m.type = "callback"  BY DEF Message, Msg, Loads1
    <2> HIDE DEF m
    <2>2. mbox' = Append(mbox, m) /\ Len(mbox) < MboxSize /\ \A i \in DOMAIN mbox : Loads1(mbox[i])
      BY <1>0, <1>3 DEF Loaded, Room, m
    <2>3. /\ mbox' \in Seq(Message) /\ Len(mbox') <= MboxSize
          /\ \A i \in DOMAIN mbox' : Loads1(mbox'[i])
          /\ Sets(Loads(mbox')) = Sets(Loads(mbox)) \cup m.p
          /\ Apart(Loads(mbox)) /\ m.p \cap Sets(Loads(mbox)) = {} => Apart(Loads(mbox'))
          /\ \A t : Count(mbox, t) \in Nat /\ Count(mbox', t) = Count(mbox, t) + Busy(m.type = t)
      BY <1>0, <2>1, <2>2, Posted
    <2>4. /\ Count(mbox', "inpkt") = Count(mbox, "inpkt") + Busy(m.type = "inpkt")
          /\ Count(mbox', "reclaim") = Count(mbox, "reclaim") + Busy(m.type = "reclaim")
          /\ Count(mbox', "callback") = Count(mbox, "callback") + Busy(m.type = "callback")
      BY <2>3
    <2>5. /\ Count(mbox', "inpkt") = Count(mbox, "inpkt")
          /\ Count(mbox', "reclaim") = Count(mbox, "reclaim")
          /\ Count(mbox', "callback") = Count(mbox, "callback") + 1
      BY <1>2, <2>1, <2>4 DEF Busy
    <2>6. Types'  BY <1>0, <1>1, <1>3, <2>3 DEF Types
    <2>7. Loaded'  BY <1>0, <1>1, <2>3 DEF Loaded
    <2>8. OnePlace'  BY <1>0, <1>1, <2>1, <2>3 DEF OnePlace
    <2>9. Sizes'  BY <1>0, <1>1, <2>3 DEF Sizes
    <2>10. Flag'  BY <1>0, <1>1, <2>5 DEF Flag
    <2>11. Books'  BY <1>0, <1>1, <1>2, <1>3, <2>5 DEF Books, Busy
    <2> QED  BY <2>6, <2>7, <2>8, <2>9, <2>10, <2>11 DEF RxInv
  <1>4. CASE apis' = apis + 1 /\ UNCHANGED mbox
    <2>1. Types'  BY <1>0, <1>1, <1>4 DEF Types
    <2>2. Loaded' /\ OnePlace' /\ Sizes' /\ Flag'
      BY <1>0, <1>1, <1>4 DEF Loaded, OnePlace, Sizes, Flag
    <2>3. Books'  BY <1>0, <1>1, <1>2, <1>4 DEF Books, Busy
    <2> QED  BY <2>1, <2>2, <2>3 DEF RxInv
  <1> QED  BY <1>3, <1>4 DEF CallbackPost

(* Every step keeps the invariant. *)
LEMMA RxInvKept == RxInv /\ [Next]_vars => RxInv'
  <1> SUFFICES ASSUME RxInv, [Next]_vars PROVE RxInv'  OBVIOUS
  <1>1. CASE Arrival  BY <1>1, RxAllocKeeps DEF Arrival
  <1>2. CASE RxStep
    BY <1>2, RxMarkKeeps, RxReclaimKeeps, RxPostReclaimKeeps, RxUnmarkKeeps, RxInputKeeps, RxPostKeeps
       DEF RxStep
  <1>3. CASE ThreadStep
    BY <1>3, ThreadFetchKeeps, ThreadInputKeeps, ThreadFreeInpktKeeps, ThreadUnmarkKeeps,
       ThreadReclaimKeeps, ThreadCallbackKeeps DEF ThreadStep
  <1>4. CASE ThreadTick  BY <1>4, ThreadTickKeeps
  <1>5. CASE AppStep  BY <1>5, AppRecvKeeps, AppFreeKeeps DEF AppStep
  <1>6. CASE \E how \in {"wait", "try"} : CallbackNew(how)  BY <1>6, CallbackNewKeeps
  <1>7. CASE CallbackPost  BY <1>7, CallbackPostKeeps
  <1>8. CASE UNCHANGED vars
    BY <1>8 DEF vars, RxInv, Types, Loaded, OnePlace, Sizes, Books, Flag
  <1> QED  BY <1>1, <1>2, <1>3, <1>4, <1>5, <1>6, <1>7, <1>8 DEF Next

(***************************************************************************)
(* The inductive invariant holds of every run of the receive path.         *)
(***************************************************************************)
THEOREM RxInvariant == Spec => []RxInv
  <1> QED  BY InitRx, RxInvKept, PTL DEF Spec

-----------------------------------------------------------------------------
(***************************************************************************)
(* What follows.                                                           *)
(***************************************************************************)
(* The sets of a concatenation. *)
LEMMA SetsConcat ==
  ASSUME NEW X, NEW a \in Seq(SUBSET X), NEW b \in Seq(SUBSET X)
  PROVE  /\ a \o b \in Seq(SUBSET X) /\ Sets(a \o b) = Sets(a) \cup Sets(b)
         /\ Apart(a) /\ Apart(b) /\ Sets(a) \cap Sets(b) = {} => Apart(a \o b)
  <1> DEFINE m == Len(a)
             n == Len(b)
             c == a \o b
  <1>1. m \in Nat /\ n \in Nat /\ DOMAIN a = 1..m /\ DOMAIN b = 1..n /\ DOMAIN c = 1..(m + n)
    OBVIOUS
  <1>2. \A i \in 1..(m + n) : c[i] = IF i <= m THEN a[i] ELSE b[i - m]  OBVIOUS
  <1>3. c \in Seq(SUBSET X)  OBVIOUS
  <1> HIDE DEF m, n, c
  <1>4. \A i \in DOMAIN c : \/ i \in DOMAIN a /\ c[i] = a[i]
                            \/ i - m \in DOMAIN b /\ c[i] = b[i - m] /\ i \notin DOMAIN a
    BY <1>1, <1>2
  <1>5. \A i \in DOMAIN a : i \in DOMAIN c /\ c[i] = a[i]  BY <1>1, <1>2
  <1>6. \A i \in DOMAIN b : m + i \in DOMAIN c /\ c[m + i] = b[i]  BY <1>1, <1>2
  <1>7. Sets(c) = Sets(a) \cup Sets(b)
    <2>1. Sets(c) \subseteq Sets(a) \cup Sets(b)  BY <1>4 DEF Sets
    <2>2. Sets(a) \subseteq Sets(c)  BY <1>5 DEF Sets
    <2>3. Sets(b) \subseteq Sets(c)
      <3> SUFFICES ASSUME NEW i \in DOMAIN b PROVE b[i] \subseteq Sets(c)  BY DEF Sets
      <3> QED  BY <1>6 DEF Sets
    <2> QED  BY <2>1, <2>2, <2>3
  <1>8. ASSUME Apart(a), Apart(b), Sets(a) \cap Sets(b) = {} PROVE Apart(c)
    <2> SUFFICES ASSUME NEW i \in DOMAIN c, NEW j \in DOMAIN c, i # j PROVE c[i] \cap c[j] = {}
      BY DEF Apart
    <2>1. \A k \in DOMAIN a, l \in DOMAIN b : a[k] \cap b[l] = {}  BY <1>8 DEF Sets
    <2>2. CASE i \in DOMAIN a /\ j \in DOMAIN a  BY <1>5, <1>8, <2>2 DEF Apart
    <2>3. CASE i \in DOMAIN a /\ j \notin DOMAIN a  BY <1>4, <1>5, <2>1, <2>3
    <2>4. CASE i \notin DOMAIN a /\ j \in DOMAIN a  BY <1>4, <1>5, <2>1, <2>4
    <2>5. CASE i \notin DOMAIN a /\ j \notin DOMAIN a
      <3>1. i - m \in DOMAIN b /\ j - m \in DOMAIN b /\ c[i] = b[i - m] /\ c[j] = b[j - m]
        BY <1>4, <2>5
      <3>2. i - m # j - m  BY <1>1
      <3> QED  BY <1>8, <3>1, <3>2 DEF Apart
    <2> QED  BY <2>2, <2>3, <2>4, <2>5
  <1> QED  BY <1>3, <1>7, <1>8 DEF c

(* Every pbuf is in one place. *)
LEMMA PlacesConserved == RxInv => PbufsConserved
  <1> SUFFICES ASSUME RxInv PROVE PbufsConserved  OBVIOUS
  <1>0. /\ mbox \in Seq(Message) /\ recvmbox \in Seq(SUBSET Pbuf) /\ pool \in SUBSET Pbuf
        /\ ooseq \in SUBSET Pbuf /\ app \in SUBSET Pbuf
        /\ rx.p \in SUBSET Pbuf /\ thread.p \in SUBSET Pbuf /\ OnePlace
    BY DEF RxInv, Types
  <1> DEFINE l == Loads(mbox)
             t == <<rx.p, thread.p, app, ooseq, R!Held, pool>>
  <1>1. R!Held = P!HeldIn(reass)  BY DEF R!Held, P!HeldIn
  <1>2. P!HeldIn(reass) \in SUBSET Pbuf  BY <1>0 DEF OnePlace, Parts
  <1>3. l \in Seq(SUBSET Pbuf)  BY <1>0, LoadsOf
  <1>4. /\ t \in Seq(SUBSET Pbuf) /\ DOMAIN t = 1..6 /\ t[1] = rx.p /\ t[2] = thread.p /\ t[3] = app
        /\ t[4] = ooseq /\ t[5] = P!HeldIn(reass) /\ t[6] = pool
    BY <1>0, <1>1, <1>2
  <1>5. Carried = (l \o recvmbox) \o t  BY DEF Carried, Loads
  <1> HIDE DEF l, t
  <1>6. 1..6 = {1, 2, 3, 4, 5, 6}  OBVIOUS
  <1>7. Sets(t) = rx.p \cup thread.p \cup app \cup ooseq \cup P!HeldIn(reass) \cup pool
    BY <1>4, <1>6 DEF Sets
  <1>8. Apart(t)
    <2> SUFFICES ASSUME NEW i \in {1, 2, 3, 4, 5, 6}, NEW j \in {1, 2, 3, 4, 5, 6}, i # j
                 PROVE  t[i] \cap t[j] = {}
      BY <1>4, <1>6 DEF Apart
    <2>1. \A k \in {1, 2, 3, 4, 5, 6} : t[k] = t[1] \/ k # 1  OBVIOUS
    <2> QED  BY <1>0, <1>4 DEF OnePlace, Parts
  <1>9. /\ l \o recvmbox \in Seq(SUBSET Pbuf)
        /\ Sets(l \o recvmbox) = Sets(l) \cup Sets(recvmbox) /\ Apart(l \o recvmbox)
    <2>1. Apart(l) /\ Apart(recvmbox) /\ Sets(l) \cap Sets(recvmbox) = {}
      BY <1>0 DEF OnePlace, Parts, l
    <2>2. /\ l \o recvmbox \in Seq(SUBSET Pbuf) /\ Sets(l \o recvmbox) = Sets(l) \cup Sets(recvmbox)
          /\ Apart(l) /\ Apart(recvmbox) /\ Sets(l) \cap Sets(recvmbox) = {} => Apart(l \o recvmbox)
      BY <1>0, <1>3, SetsConcat, Zenon
    <2> QED  BY <2>1, <2>2, Zenon
  <1> DEFINE a == l \o recvmbox
  <1> HIDE DEF a
  <1>10. Sets(a) \cap Sets(t) = {} /\ Sets(a) \cup Sets(t) = Pbuf
    BY <1>0, <1>7, <1>9 DEF OnePlace, Parts, a, l
  <1>11. Sets(a \o t) = Pbuf /\ Apart(a \o t)
    <2>1. a \in Seq(SUBSET Pbuf) /\ Apart(a)  BY <1>9 DEF a
    <2>2. /\ Sets(a \o t) = Sets(a) \cup Sets(t)
          /\ Apart(a) /\ Apart(t) /\ Sets(a) \cap Sets(t) = {} => Apart(a \o t)
      BY <1>4, <2>1, SetsConcat, Zenon
    <2> QED  BY <1>8, <1>10, <2>1, <2>2, Zenon
  <1>12. Carried = a \o t  BY <1>5 DEF a
  <1> QED  BY <1>11, <1>12 DEF PbufsConserved, Sets, Apart

(* The counts are those of the invariant. *)
LEMMA BooksBalance == RxInv => MessagesConserved /\ PendingIsQueued
  <1> SUFFICES ASSUME RxInv PROVE MessagesConserved /\ PendingIsQueued  OBVIOUS
  <1>1. \A t : Cardinality(InMbox(t)) = Count(mbox, t)  BY DEF InMbox, Count, Positions
  <1>2. Books /\ Flag  BY DEF RxInv
  <1>3. MessagesConserved  BY <1>1, <1>2 DEF MessagesConserved, Books
  <1>4. PendingIsQueued  BY <1>1, <1>2 DEF PendingIsQueued, Flag
  <1> QED  BY <1>3, <1>4

(* What of the messages is not free is in the mailbox or with a task. *)
LEMMA MessagesInUse ==
  ASSUME Types, Books
  PROVE  /\ inpkts \in 0..NumInpkt /\ apis \in 0..NumApi
         /\ Count(mbox, "inpkt") + Busy(rx.type = "post") <= NumInpkt
         /\ Count(mbox, "callback") + Count(mbox, "reclaim")
              + Busy(rx.type = "postreclaim") + Busy(poster # "none") <= NumApi
  <1> DEFINE u == Busy(rx.type = "post")
             v == Busy(thread.type \in {"inpkt", "handled"})
             x == Busy(rx.type = "postreclaim")
             y == Busy(poster # "none")
             z == Busy(thread.type \in {"callback", "reclaim", "unmarked"})
             a == Count(mbox, "inpkt")
             b == Count(mbox, "callback")
             c == Count(mbox, "reclaim")
  <1>1. u \in Nat /\ v \in Nat /\ x \in Nat /\ y \in Nat /\ z \in Nat  BY DEF Busy
  <1>2. a \in Nat /\ b \in Nat /\ c \in Nat  BY CountNat
  <1>3. inpkts \in Nat /\ apis \in Nat  BY DEF Types
  <1>4. inpkts + a + u + v = NumInpkt /\ apis + b + c + x + y + z = NumApi  BY DEF Books
  <1> HIDE DEF u, v, x, y, z, a, b, c
  <1>5. /\ inpkts \in 0..NumInpkt /\ apis \in 0..NumApi
        /\ a + u <= NumInpkt /\ b + c + x + y <= NumApi
    BY <1>1, <1>2, <1>3, <1>4, SizeAssumption
  <1> QED  BY <1>5 DEF u, v, x, y, z, a, b, c

(* No more messages are free than there are. *)
LEMMA TypesImplied == RxInv => TypeOK
  <1> SUFFICES ASSUME RxInv PROVE TypeOK  OBVIOUS
  <1>0. Types /\ Sizes /\ Books  BY DEF RxInv
  <1>2. inpkts \in 0..NumInpkt /\ apis \in 0..NumApi  BY <1>0, MessagesInUse
  <1>3. /\ rx \in [type : {"idle", "empty", "reclaim", "postreclaim", "unmark", "input", "post"}, p : SUBSET Pbuf]
        /\ thread.type \in {"none", "inpkt", "handled", "reclaim", "unmarked", "callback"}
    BY <1>0 DEF Types, RxType, ThreadType
  <1> QED  BY <1>0, <1>2, <1>3 DEF TypeOK, Types, Sizes

(* Every message in the mailbox has one of three types. *)
LEMMA MailboxLength ==
  ASSUME mbox \in Seq(Message)
  PROVE  Len(mbox) = Count(mbox, "inpkt") + Count(mbox, "callback") + Count(mbox, "reclaim")
  <1> DEFINE A == Positions(mbox, "inpkt")
             B == Positions(mbox, "callback")
             C == Positions(mbox, "reclaim")
  <1>1. DOMAIN mbox = 1..Len(mbox) /\ Len(mbox) \in Nat  OBVIOUS
  <1>2. \A i \in DOMAIN mbox : mbox[i].type \in {"inpkt", "callback", "reclaim"}
    <2>1. \A i \in DOMAIN mbox : mbox[i] \in Message  BY <1>1
    <2> QED  BY <2>1 DEF Message
  <1>3. A \cup B \cup C = DOMAIN mbox /\ A \cap B = {} /\ (A \cup B) \cap C = {}
    BY <1>2 DEF Positions
  <1>4. IsFiniteSet(A) /\ IsFiniteSet(B) /\ IsFiniteSet(C)  BY PositionsFinite
  <1>5. Cardinality(A) \in Nat /\ Cardinality(B) \in Nat /\ Cardinality(C) \in Nat
    BY PositionsFinite
  <1> HIDE DEF A, B, C
  <1>6. Cardinality({}) = 0  BY FS_EmptySet
  <1>7. IsFiniteSet(A \cup B) /\ Cardinality(A \cup B) = Cardinality(A) + Cardinality(B)
    <2>1. /\ IsFiniteSet(A \cup B)
          /\ Cardinality(A \cup B) = Cardinality(A) + Cardinality(B) - Cardinality(A \cap B)
      BY <1>4, FS_Union, Zenon
    <2>2. Cardinality(A \cap B) = 0  BY <1>3, <1>6
    <2> QED  BY <1>5, <2>1, <2>2
  <1>8. Cardinality((A \cup B) \cup C) = Cardinality(A) + Cardinality(B) + Cardinality(C)
    <2> DEFINE D == A \cup B
    <2>1. IsFiniteSet(D) /\ D \cap C = {} /\ Cardinality(D) = Cardinality(A) + Cardinality(B)
      BY <1>3, <1>7
    <2> HIDE DEF D
    <2>2. Cardinality(D \cup C) = Cardinality(D) + Cardinality(C) - Cardinality(D \cap C)
      BY <1>4, <2>1, FS_Union, Zenon
    <2>3. Cardinality(D \cap C) = 0  BY <1>6, <2>1
    <2>4. Cardinality(D \cup C) = Cardinality(A) + Cardinality(B) + Cardinality(C)
      BY <1>5, <2>1, <2>2, <2>3
    <2> QED  BY <2>4 DEF D
  <1>9. Cardinality(DOMAIN mbox) = Len(mbox)  BY <1>1, FS_Interval
  <1> QED  BY <1>3, <1>8, <1>9 DEF Count, A, B, C

(***************************************************************************)
(* The variables keep their types: in particular no pool of messages ever  *)
(* holds more than it has, and no mailbox more than its size.              *)
(***************************************************************************)
THEOREM RxTypeCorrect == Spec => []TypeOK
  <1> QED  BY RxInvariant, TypesImplied, PTL

(***************************************************************************)
(* On every path of a frame no pbuf and no message is lost or given back   *)
(* twice, for every size of the pools and mailboxes (rpmsg_eth.c:104-144,  *)
(* tcpip.c:239-269 and 171-198, ip4_frag.c, api_msg.c:217-282).            *)
(***************************************************************************)
THEOREM RxConserves == Spec => []Conserved
  <1>1. RxInv => Conserved  BY PlacesConserved, BooksBalance DEF Conserved
  <1> QED  BY <1>1, RxInvariant, PTL

(***************************************************************************)
(* pbuf_free_ooseq_pending is set exactly while one reclaim is on its way  *)
(* (pbuf.c:156-183): it is never left set, which would end reclaiming.     *)
(***************************************************************************)
THEOREM RxPendingIsQueued == Spec => []PendingIsQueued
  <1> QED  BY RxInvariant, BooksBalance, PTL

(* Whoever is about to post finds room. *)
NoPostFails == rx.type \in {"post", "postreclaim"} \/ poster # "none" => Room

(***************************************************************************)
(* If the mailbox is as long as the message pools together, as lwipopts.h  *)
(* has it, no task that has a message ever finds tcpip_mbox full: neither  *)
(* sys_mbox_trypost fails nor sys_mbox_post blocks.                        *)
(***************************************************************************)
THEOREM MailboxNeverFull ==
  ASSUME NumInpkt + NumApi <= MboxSize
  PROVE  Spec => []NoPostFails
  <1>1. RxInv => NoPostFails
    <2> SUFFICES ASSUME RxInv, rx.type \in {"post", "postreclaim"} \/ poster # "none" PROVE Room
      BY DEF NoPostFails
    <2>0. Types /\ Books /\ mbox \in Seq(Message) /\ inpkts \in Nat /\ apis \in Nat
      BY DEF RxInv, Types
    <2>1. \A t : Count(mbox, t) \in Nat  BY <2>0, CountNat
    <2>2. Len(mbox) = Count(mbox, "inpkt") + Count(mbox, "callback") + Count(mbox, "reclaim")
      BY <2>0, MailboxLength
    <2>3. /\ Count(mbox, "inpkt") + Busy(rx.type = "post") <= NumInpkt
          /\ Count(mbox, "callback") + Count(mbox, "reclaim")
               + Busy(rx.type = "postreclaim") + Busy(poster # "none") <= NumApi
      BY <2>0, MessagesInUse
    <2>4. Len(mbox) + 1 <= NumInpkt + NumApi
      BY <2>1, <2>2, <2>3, SizeAssumption DEF Busy
    <2> QED  BY <2>0, <2>4, SizeAssumption DEF Room
  <1> QED  BY <1>1, RxInvariant, PTL

=============================================================================
