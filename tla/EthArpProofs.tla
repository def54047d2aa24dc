---------------------------- MODULE EthArpProofs ----------------------------
(***************************************************************************)
(* Theorems about EthArp, for every set of addresses, every size of the    *)
(* table, of the queues and of their pool, and all ages.                   *)
(***************************************************************************)
EXTENDS EthArp, FiniteSetTheorems, NaturalsInduction, WellFoundedInduction, TLAPS

-----------------------------------------------------------------------------
(***************************************************************************)
(* The inductive invariant.  Good says what holds of each entry by itself: *)
(* an empty one is blank, packets wait in order and only on a pending one, *)
(* and a stable one has the address last heard.  Paced says how far the    *)
(* entry of Watched is from the next request, given what was asked: this   *)
(* is what makes RerequestRate inductive.                                  *)
(***************************************************************************)
States == Stable \cup {"empty", "pending"}
Entry == [state : States, ip : Ip \cup {NoIp}, mac : Mac \cup {NoMac},
          ctime : 0..(MaxAge - 1), q : Seq(1..MaxPackets)]

Increasing(q) == \A k, l \in DOMAIN q : k < l => q[k] < q[l]

Good(e, heard) ==
  /\ e \in Entry
  /\ e.state = "empty" => e = Empty
  /\ e.state # "empty" => e.ip \in Ip
  /\ Len(e.q) <= QueueLen /\ Increasing(e.q)
  /\ e.q # <<>> => e.state = "pending"
  /\ e.state \in Stable => e.mac = heard[e.ip] /\ e.mac # NoMac

Paced(e, x) ==
  /\ x[1] > 0 => e.state \in {"rerequesting1", "pending"} \/ e.ctime = 0
  /\ x[2] > 0 => e.state \in {"rerequesting2", "pending"} \/ e.ctime <= 1

AllGood == \A i \in Slot : Good(arp_table[i], learned)
OneEntry == \A i, j \in Slot : arp_table[i].state # "empty" /\ arp_table[i].ip = arp_table[j].ip => i = j
AllPaced == \A i \in Slot : arp_table[i].ip = Watched => Paced(arp_table[i], asked)

Variables ==
  /\ arp_table \in [Slot -> Entry] /\ cached \in Slot /\ free \in Nat
  /\ learned \in [Ip -> Mac \cup {NoMac}] /\ asked \in Nat \X Nat

ArpInv ==
  Variables /\ AllGood /\ OneEntry /\ QueueConserved /\ AllPaced /\ RerequestRate /\ SentRight

-----------------------------------------------------------------------------
(***************************************************************************)
(* Least, greatest and oldest.                                             *)
(***************************************************************************)
(* A set of naturals that is not empty has a least element. *)
LEMMA LeastNat ==
  ASSUME NEW T \in SUBSET Nat, T # {}
  PROVE  \E n \in T : \A m \in T : n <= m
  <1> DEFINE R == OpToRel(<, Nat)
  <1>1. IsWellFoundedOn(R, Nat)  BY NatLessThanWellFounded
  <1>2. PICK n \in T : \A m \in T : <<m, n>> \notin R
    <2> HIDE DEF R
    <2> QED  BY <1>1, WFMin
  <1>3. \A m \in T : ~(m < n)  BY <1>2 DEF R, OpToRel
  <1> QED  BY <1>3

(* A bounded set of naturals that is not empty has a greatest element. *)
LEMMA GreatestNat ==
  ASSUME NEW N \in Nat, NEW T \in SUBSET (0..N), T # {}
  PROVE  \E n \in T : \A m \in T : m <= n
  <1> DEFINE U == {N - m : m \in T}
  <1>0. \A m \in T : m \in Nat /\ m <= N /\ N - m \in Nat  OBVIOUS
  <1>1. U \in SUBSET Nat /\ U # {}  BY <1>0
  <1>2. PICK u \in U : \A v \in U : u <= v
    <2> HIDE DEF U
    <2> QED  BY <1>1, LeastNat
  <1>3. PICK n \in T : u = N - n  BY <1>2
  <1>4. \A m \in T : N - n <= N - m  BY <1>2, <1>3
  <1> QED  BY <1>0, <1>4

(* The least slot of some is one of them. *)
LEMMA MinIn ==
  ASSUME NEW S \in SUBSET Slot, S # {}
  PROVE  Min(S) \in S
  <1>1. S \in SUBSET Nat  BY DEF Slot
  <1>2. \E x \in S : \A y \in S : x <= y  BY <1>1, LeastNat
  <1> QED  BY <1>2 DEF Min

(* So is the oldest. *)
LEMMA OldestIn ==
  ASSUME Variables, NEW S \in SUBSET Slot, S # {}
  PROVE  Oldest(S) \in S
  <1> DEFINE A == {arp_table[i].ctime : i \in S}
  <1>0. MaxAge - 1 \in Nat /\ TableSize \in Nat /\ \A i \in S : arp_table[i].ctime \in 0..(MaxAge - 1)
    BY EthArpAssumption DEF Variables, Entry
  <1>1. A \in SUBSET (0..(MaxAge - 1)) /\ A # {}  BY <1>0
  <1>2. PICK a \in A : \A b \in A : b <= a
    <2> HIDE DEF A
    <2> QED  BY <1>0, <1>1, GreatestNat
  <1> DEFINE B == {i \in S : arp_table[i].ctime = a}
  <1>3. B \in SUBSET (0..TableSize) /\ B # {}
    <2>1. S \in SUBSET (0..TableSize)  BY <1>0 DEF Slot
    <2>2. \E i \in S : arp_table[i].ctime = a  BY <1>2
    <2> QED  BY <2>1, <2>2
  <1>4. PICK i \in B : \A j \in B : j <= i
    <2> HIDE DEF B
    <2> QED  BY <1>0, <1>3, GreatestNat
  <1>5. \A j \in S : arp_table[j].ctime < arp_table[i].ctime
                      \/ (arp_table[j].ctime = arp_table[i].ctime /\ j <= i)
    <2> TAKE j \in S
    <2>1. arp_table[j].ctime <= a /\ arp_table[i].ctime = a  BY <1>2, <1>4
    <2>2. CASE arp_table[j].ctime = a  BY <1>4, <2>1, <2>2
    <2>3. CASE arp_table[j].ctime # a  BY <1>0, <1>1, <1>2, <2>1, <2>3
    <2> QED  BY <2>2, <2>3
  <1>6. i \in S  BY <1>4
  <1> QED  BY <1>5, <1>6 DEF Oldest

(* etharp_find_entry with ETHARP_FLAG_TRY_HARD always finds a slot: that of
   the address, if it has one. *)
LEMMA FindEntryIn ==
  ASSUME Variables, NEW a \in Ip
  PROVE  /\ FindEntry(a) \in Slot
         /\ FindEntry(a) \in Matching(a) \/ Matching(a) = {}
  <1> DEFINE in(states) == {i \in Slot : arp_table[i].state \in states}
             waiting == {i \in in({"pending"}) : arp_table[i].q # <<>>}
  <1>1. Matching(a) \in SUBSET Slot  BY DEF Matching
  <1>2. CASE Matching(a) # {}  BY <1>1, <1>2, MinIn DEF FindEntry
  <1>3. CASE Matching(a) = {}
    <2>1. FindEntry(a) = Recycle  BY <1>3 DEF FindEntry
    <2>2. CASE in({"empty"}) # {}
      <3>1. Recycle = Min(in({"empty"}))  BY <2>2 DEF Recycle
      <3>2. in({"empty"}) \in SUBSET Slot  OBVIOUS
      <3>3. Min(in({"empty"})) \in in({"empty"})
        <4> HIDE DEF in
        <4> QED  BY <2>2, <3>2, MinIn
      <3> QED  BY <1>3, <2>1, <3>1, <3>2, <3>3
    <2>3. CASE in({"empty"}) = {} /\ in(Stable) # {}
      <3>1. Recycle = Oldest(in(Stable))  BY <2>3 DEF Recycle
      <3>2. in(Stable) \in SUBSET Slot  OBVIOUS
      <3>3. Oldest(in(Stable)) \in in(Stable)
        <4> HIDE DEF in
        <4> QED  BY <2>3, <3>2, OldestIn
      <3> QED  BY <1>3, <2>1, <3>1, <3>2, <3>3
    <2>4. CASE in({"empty"}) = {} /\ in(Stable) = {} /\ in({"pending"}) \ waiting # {}
      <3> DEFINE W == in({"pending"}) \ waiting
      <3>1. Recycle = Oldest(W)  BY <2>4 DEF Recycle
      <3>2. W \in SUBSET Slot /\ W # {}  BY <2>4
      <3>3. Oldest(W) \in W
        <4> HIDE DEF W
        <4> QED  BY <3>2, OldestIn
      <3> QED  BY <1>3, <2>1, <3>1, <3>2, <3>3
    <2>5. CASE in({"empty"}) = {} /\ in(Stable) = {} /\ in({"pending"}) \ waiting = {}
      <3>1. Recycle = Oldest(waiting)  BY <2>5 DEF Recycle
      <3>2. 1 \in Slot /\ arp_table[1].state \in States
        BY EthArpAssumption DEF Slot, Variables, Entry
      <3>3. 1 \in waiting  BY <2>5, <3>2 DEF States
      <3>4. waiting \in SUBSET Slot /\ waiting # {}  BY <3>3
      <3>5. Oldest(waiting) \in waiting
        <4> HIDE DEF waiting
        <4> QED  BY <3>4, OldestIn
      <3> QED  BY <1>3, <2>1, <3>1, <3>4, <3>5
    <2> QED  BY <2>2, <2>3, <2>4, <2>5
  <1> QED  BY <1>2, <1>3

(* The next packet for an address has a number above those that wait. *)
LEMMA NextNumberAbove ==
  ASSUME Variables, NEW a \in Ip
  PROVE  /\ NextNumber(a) \in Nat \ {0}
         /\ \A i \in Matching(a) : \A k \in DOMAIN arp_table[i].q : arp_table[i].q[k] < NextNumber(a)
  <1> DEFINE W == {0} \cup UNION {{arp_table[i].q[k] : k \in DOMAIN arp_table[i].q} : i \in Matching(a)}
  <1>0. MaxPackets \in Nat  BY EthArpAssumption
  <1>1. \A i \in Matching(a) : arp_table[i].q \in Seq(1..MaxPackets)
    BY DEF Matching, Variables, Entry
  <1>2. \A i \in Matching(a) : \A k \in DOMAIN arp_table[i].q : arp_table[i].q[k] \in 0..MaxPackets
    <2> TAKE i \in Matching(a)
    <2> DEFINE q == arp_table[i].q
    <2>1. q \in Seq(1..MaxPackets)  BY <1>1
    <2> HIDE DEF q
    <2>2. \A k \in DOMAIN q : q[k] \in 0..MaxPackets  BY <1>0, <2>1
    <2> QED  BY <2>2 DEF q
  <1>3. W \in SUBSET (0..MaxPackets) /\ W # {}  BY <1>0, <1>2
  <1>4. \A i \in Matching(a) : \A k \in DOMAIN arp_table[i].q : arp_table[i].q[k] \in W  OBVIOUS
  <1>5. NextNumber(a) = 1 + Max(W)  BY DEF NextNumber
  <1> HIDE DEF W
  <1>6. \E x \in W : \A y \in W : y <= x  BY <1>0, <1>3, GreatestNat
  <1>7. \A x, y \in W : x \in Nat /\ (y <= x <=> x >= y)  BY <1>3
  <1>8. Max(W) \in W /\ \A y \in W : Max(W) >= y  BY <1>6, <1>7 DEF Max
  <1>9. Max(W) \in Nat  BY <1>7, <1>8
  <1>10. \A y \in W : y < 1 + Max(W)
    <2> DEFINE m == Max(W)
    <2>1. m \in Nat /\ \A y \in W : y \in Nat /\ m >= y  BY <1>7, <1>8, <1>9
    <2> HIDE DEF m
    <2>2. \A y \in W : y < 1 + m  BY <2>1
    <2> QED  BY <2>2 DEF m
  <1> QED  BY <1>4, <1>5, <1>9, <1>10

-----------------------------------------------------------------------------
(***************************************************************************)
(* The elements in use, when one entry changes.                            *)
(***************************************************************************)
(* They are finitely many. *)
LEMMA InUseFinite ==
  ASSUME NEW t \in [Slot -> Entry]
  PROVE  IsFiniteSet(InUse(t)) /\ Cardinality(InUse(t)) \in Nat
  <1> DEFINE f == [i \in Slot |-> {i} \X DOMAIN t[i].q]
             F == {f[i] : i \in Slot}
  <1>1. IsFiniteSet(Slot)  BY EthArpAssumption, FS_Interval DEF Slot
  <1>2. \A i \in Slot : IsFiniteSet(f[i])
    <2> TAKE i \in Slot
    <2>1. t[i].q \in Seq(1..MaxPackets)  BY DEF Entry
    <2>2. DOMAIN t[i].q = 1..Len(t[i].q) /\ Len(t[i].q) \in Nat  BY <2>1
    <2>3. IsFiniteSet(DOMAIN t[i].q)  BY <2>2, FS_Interval
    <2>4. IsFiniteSet({i})  BY FS_Singleton
    <2> QED  BY <2>3, <2>4, FS_Product
  <1>3. InUse(t) = UNION F  BY DEF InUse
  <1>4. IsFiniteSet(F)
    <2>1. f \in [Slot -> F] /\ \A x \in F : \E i \in Slot : f[i] = x  OBVIOUS
    <2> HIDE DEF f, F
    <2>2. f \in Surjection(Slot, F)  BY <2>1 DEF Surjection
    <2> QED  BY <1>1, <2>2, FS_Surjection
  <1>5. IsFiniteSet(UNION F)
    <2>1. \A x \in F : IsFiniteSet(x)  BY <1>2
    <2> HIDE DEF F
    <2> QED  BY <1>4, <2>1, FS_UNION
  <1> QED  BY <1>3, <1>5, FS_CardinalityType

(* The places of a queue: as many as it has packets. *)
LEMMA PlacesOf ==
  ASSUME NEW i, NEW n \in Nat
  PROVE  IsFiniteSet({i} \X (1..n)) /\ Cardinality({i} \X (1..n)) = n
  <1>1. IsFiniteSet(1..n) /\ Cardinality(1..n) = n  BY FS_Interval
  <1>2. IsFiniteSet({i}) /\ Cardinality({i}) = 1  BY FS_Singleton
  <1>3. IsFiniteSet({i} \X (1..n)) /\ Cardinality({i} \X (1..n)) = Cardinality({i}) * Cardinality(1..n)
    BY <1>1, <1>2, FS_Product, Zenon
  <1> QED  BY <1>1, <1>2, <1>3

(* A new entry in slot i: its packets instead of those of the old one. *)
LEMMA InUseChange ==
  ASSUME NEW t \in [Slot -> Entry], NEW i \in Slot, NEW e \in Entry
  PROVE  LET u == [t EXCEPT ![i] = e]
         IN  Cardinality(InUse(u)) = Cardinality(InUse(t)) - Len(t[i].q) + Len(e.q)
  <1> DEFINE u == [t EXCEPT ![i] = e]
             m == Len(t[i].q)
             n == Len(e.q)
             A == {i} \X (1..m)
             B == {i} \X (1..n)
             Rest == UNION {{j} \X DOMAIN t[j].q : j \in Slot \ {i}}
  <1>1. t[i].q \in Seq(1..MaxPackets) /\ e.q \in Seq(1..MaxPackets)  BY DEF Entry
  <1>2. m \in Nat /\ n \in Nat /\ DOMAIN t[i].q = 1..m /\ DOMAIN e.q = 1..n  BY <1>1
  <1>3. u[i] = e /\ \A j \in Slot \ {i} : u[j] = t[j]  OBVIOUS
  <1> HIDE DEF u
  <1>4. InUse(t) = Rest \cup A
    <2>1. InUse(t) = Rest \cup ({i} \X DOMAIN t[i].q)  BY DEF InUse
    <2> QED  BY <1>2, <2>1
  <1>5. InUse(u) = Rest \cup B
    <2>1. \A j \in Slot \ {i} : {j} \X DOMAIN u[j].q = {j} \X DOMAIN t[j].q  BY <1>3
    <2>2. {i} \X DOMAIN u[i].q = B  BY <1>2, <1>3
    <2>3. ASSUME NEW x PROVE x \in InUse(u) <=> \E j \in Slot : x \in {j} \X DOMAIN u[j].q
      BY DEF InUse
    <2>4. ASSUME NEW x PROVE x \in Rest <=> \E j \in Slot \ {i} : x \in {j} \X DOMAIN t[j].q
      OBVIOUS
    <2> HIDE DEF Rest, B
    <2>5. ASSUME NEW x PROVE x \in InUse(u) <=> x \in Rest \cup B
      BY <2>1, <2>2, <2>3, <2>4, Zenon
    <2> QED  BY <2>5
  <1>6. \A x \in Rest : \E j \in Slot \ {i} : x \in {j} \X DOMAIN t[j].q  OBVIOUS
  <1>7. \A x \in Rest : x[1] # i  BY <1>6
  <1>8. \A x \in A \cup B : x[1] = i  OBVIOUS
  <1>9. Rest \cap A = {} /\ Rest \cap B = {}
    <2> HIDE DEF Rest, A, B
    <2> QED  BY <1>7, <1>8
  <1>10. IsFiniteSet(A) /\ IsFiniteSet(B) /\ Cardinality(A) = m /\ Cardinality(B) = n
    BY <1>2, PlacesOf
  <1>11. IsFiniteSet(Rest)
    <2> HIDE DEF Rest, A
    <2>1. IsFiniteSet(InUse(t)) /\ Rest \subseteq InUse(t)  BY <1>4, InUseFinite
    <2> QED  BY <2>1, FS_Subset
  <1> HIDE DEF Rest, A, B, m, n
  <1>12. Cardinality(Rest) \in Nat /\ Cardinality({}) = 0  BY <1>11, FS_CardinalityType, FS_EmptySet
  <1>13. Cardinality(Rest \cup A) = Cardinality(Rest) + Cardinality(A) - Cardinality(Rest \cap A)
    BY <1>10, <1>11, FS_Union, Zenon
  <1>14. Cardinality(Rest \cup B) = Cardinality(Rest) + Cardinality(B) - Cardinality(Rest \cap B)
    BY <1>10, <1>11, FS_Union, Zenon
  <1>15. Cardinality(Rest \cap A) = 0 /\ Cardinality(Rest \cap B) = 0  BY <1>9, <1>12
  <1>16. Cardinality(InUse(t)) = Cardinality(Rest) + m /\ Cardinality(InUse(u)) = Cardinality(Rest) + n
    BY <1>2, <1>4, <1>5, <1>10, <1>12, <1>13, <1>14, <1>15
  <1>17. Cardinality(InUse(u)) = Cardinality(InUse(t)) - m + n  BY <1>2, <1>12, <1>16
  <1> QED  BY <1>17 DEF u, m, n

(* When queues only empty, what is no longer in use was given back. *)
LEMMA InUseDrop ==
  ASSUME NEW t \in [Slot -> Entry], NEW u \in [Slot -> Entry],
         \A i \in Slot : u[i].q = t[i].q \/ u[i].q = <<>>
  PROVE  Cardinality(InUse(t) \ InUse(u)) = Cardinality(InUse(t)) - Cardinality(InUse(u))
  <1>1. InUse(u) \subseteq InUse(t)
    <2> SUFFICES ASSUME NEW i \in Slot PROVE {i} \X DOMAIN u[i].q \subseteq InUse(t)
      BY DEF InUse
    <2>1. DOMAIN u[i].q \subseteq DOMAIN t[i].q
      <3>1. CASE u[i].q = t[i].q  BY <3>1
      <3>2. CASE u[i].q = <<>>  BY <3>2
      <3> QED  BY <3>1, <3>2
    <2>2. {i} \X DOMAIN u[i].q \subseteq {i} \X DOMAIN t[i].q  BY <2>1
    <2> QED  BY <2>2 DEF InUse
  <1> DEFINE X == InUse(t)
             Y == InUse(u)
  <1>2. IsFiniteSet(X) /\ IsFiniteSet(Y) /\ Cardinality(X) \in Nat /\ Cardinality(Y) \in Nat
    BY InUseFinite
  <1> HIDE DEF X, Y
  <1>3. X \cap Y = Y  BY <1>1 DEF X, Y
  <1>4. Cardinality(X \ Y) = Cardinality(X) - Cardinality(X \cap Y)
    BY <1>2, FS_Difference, Zenon
  <1> QED  BY <1>3, <1>4 DEF X, Y

-----------------------------------------------------------------------------
(***************************************************************************)
(* Single entries.                                                         *)
(***************************************************************************)
(* A blank entry is good, and so is one that has only its address. *)
LEMMA BlankEntry ==
  ASSUME NEW heard
  PROVE  Good(Empty, heard) /\ Empty \in Entry
  <1>1. 0 \in 0..(MaxAge - 1) /\ 0 <= QueueLen  BY EthArpAssumption
  <1>2. <<>> \in Seq(1..MaxPackets) /\ Len(<<>>) = 0 /\ Increasing(<<>>)  BY DEF Increasing
  <1>3. Empty \in Entry  BY <1>1, <1>2 DEF Empty, Entry, States
  <1> QED  BY <1>1, <1>2, <1>3 DEF Good, Empty, Stable

(* A tick keeps an entry good and its address, or empties it. *)
LEMMA AgedGood ==
  ASSUME NEW e, NEW heard, Good(e, heard)
  PROVE  /\ Good(Aged(e), heard)
         /\ Aged(e) = Empty \/ (Aged(e).ip = e.ip /\ Aged(e).q = e.q /\ e.state # "empty")
  <1>1. CASE e.state = "empty"  BY <1>1, BlankEntry DEF Aged, Good
  <1>2. CASE e.state # "empty" /\ Expires(e)  BY <1>2, BlankEntry DEF Aged
  <1>3. CASE e.state # "empty" /\ ~Expires(e)
    <2> DEFINE c == IF e.ctime < MaxAge THEN e.ctime + 1 ELSE e.ctime
               s == NextState(e.state)
    <2>1. e \in Entry /\ e.ctime \in 0..(MaxAge - 1) /\ ~(e.ctime + 1 >= MaxAge)
      BY <1>3 DEF Good, Entry, Expires
    <2>2. c \in 0..(MaxAge - 1)  BY <2>1, EthArpAssumption
    <2>3. e.state \in States  BY <2>1 DEF Entry
    <2>4. s \in States /\ s # "empty" /\ (s \in Stable <=> e.state \in Stable)
           /\ (e.state = "pending" => s = "pending")
      BY <1>3, <2>3 DEF NextState, States, Stable
    <2>5. Aged(e) = [e EXCEPT !.ctime = c, !.state = s]  BY <1>3 DEF Aged
    <2> HIDE DEF c, s
    <2> DEFINE d == [e EXCEPT !.ctime = c, !.state = s]
    <2>6. d \in Entry  BY <2>1, <2>2, <2>4 DEF Entry
    <2>7. d.state = s /\ d.ip = e.ip /\ d.mac = e.mac /\ d.q = e.q  BY <2>1 DEF Entry
    <2> HIDE DEF d
    <2>8. Good(d, heard)  BY <1>3, <2>4, <2>6, <2>7 DEF Good
    <2> QED  BY <1>3, <2>5, <2>7, <2>8 DEF d
  <1> QED  BY <1>1, <1>2, <1>3

(* A tick brings the entry of Watched nearer to the next request, as far as
   the requests before are behind it. *)
LEMMA AgedPaced ==
  ASSUME NEW e, NEW heard, Good(e, heard), NEW x \in Nat \X Nat, Paced(e, x), e.state # "empty",
         ~Expires(e)
  PROVE  Paced(Aged(e), <<0, x[1]>>)
  <1> DEFINE c == IF e.ctime < MaxAge THEN e.ctime + 1 ELSE e.ctime
             s == NextState(e.state)
             d == [e EXCEPT !.ctime = c, !.state = s]
  <1>1. e \in Entry /\ e.ctime \in 0..(MaxAge - 1)  BY DEF Good, Entry
  <1>2. Aged(e) = d  BY DEF Aged
  <1>3. d.state = s /\ d.ctime = c  BY <1>1 DEF Entry
  <1>4. x[1] > 0 => s \in {"rerequesting2", "pending"} \/ c <= 1
    <2>1. x[1] > 0 => e.state \in {"rerequesting1", "pending"} \/ e.ctime = 0  BY DEF Paced
    <2>2. e.state = "rerequesting1" => s = "rerequesting2"  BY DEF NextState
    <2>3. e.state = "pending" => s = "pending"  BY DEF NextState
    <2>4. e.ctime = 0 => c <= 1  BY <1>1
    <2> QED  BY <2>1, <2>2, <2>3, <2>4
  <1> HIDE DEF c, s, d
  <1> QED  BY <1>2, <1>3, <1>4 DEF Paced

(* The slot as etharp_find_entry leaves it has the address; its packets are
   those of the old entry, or those were given back. *)
LEMMA FoundIs ==
  ASSUME Variables, AllGood, NEW a \in Ip, NEW i \in Slot
  PROVE  LET e == Found(a, i)
         IN  /\ e \in Entry /\ e.ip = a
             /\ Len(e.q) \in Nat /\ Len(e.q) <= QueueLen /\ Increasing(e.q)
             /\ e.q # <<>> => e.state = "pending"
             /\ e.state \in Stable => e.mac = learned[a] /\ e.mac # NoMac
             /\ FreedFor(a, i) \in Nat /\ FreedFor(a, i) + Len(e.q) = Len(arp_table[i].q)
             /\ \/ i \in Matching(a) /\ e = arp_table[i] /\ e.state # "empty"
                \/ e = [Empty EXCEPT !.ip = a] /\ e.ctime = 0 /\ e.q = <<>>
  <1> DEFINE e == Found(a, i)
  <1>1. Good(arp_table[i], learned) /\ arp_table[i] \in Entry  BY DEF AllGood, Variables
  <1>2. arp_table[i].q \in Seq(1..MaxPackets)  BY <1>1 DEF Entry
  <1>3. Len(arp_table[i].q) \in Nat  BY <1>2
  <1>4. CASE i \in Matching(a)
    <2>1. e = arp_table[i] /\ e.ip = a /\ e.state # "empty"  BY <1>4 DEF Found, Matching
    <2>2. FreedFor(a, i) = 0  BY <1>4 DEF FreedFor
    <2> QED  BY <1>1, <1>3, <1>4, <2>1, <2>2 DEF Good
  <1>5. CASE i \notin Matching(a)
    <2>1. e = [Empty EXCEPT !.ip = a]  BY <1>5 DEF Found
    <2>2. e.ip = a /\ e.ctime = 0 /\ e.q = <<>> /\ e.state = "empty"  BY <2>1 DEF Empty
    <2>3. e \in Entry  BY <2>1, BlankEntry DEF Entry, Empty
    <2>4. Len(e.q) = 0 /\ Increasing(e.q) /\ 0 <= QueueLen  BY <2>2, EthArpAssumption DEF Increasing
    <2>5. FreedFor(a, i) = Len(arp_table[i].q)  BY <1>5 DEF FreedFor, FreedBy
    <2>6. e.state \notin Stable  BY <2>2 DEF Stable
    <2> DEFINE m == Len(arp_table[i].q)
    <2> HIDE DEF e, m
    <2>7. Len(e.q) \in Nat /\ Len(e.q) <= QueueLen /\ m + Len(e.q) = m  BY <1>3, <2>4 DEF m
    <2>8. e.q # <<>> => e.state = "pending"  BY <2>2
    <2>9. e.state \in Stable => e.mac = learned[a] /\ e.mac # NoMac  BY <2>6
    <2>10. FreedFor(a, i) \in Nat /\ FreedFor(a, i) + Len(e.q) = Len(arp_table[i].q)
      BY <1>3, <2>5, <2>7 DEF m
    <2> QED  BY <2>1, <2>2, <2>3, <2>4, <2>7, <2>8, <2>9, <2>10, Zenon DEF e
  <1> QED  BY <1>4, <1>5

(* A queue that is full loses its oldest packet to a new one: the packets
   stay in order, and at most one more waits. *)
LEMMA AppendToOrdered ==
  ASSUME NEW q \in Seq(1..MaxPackets), Increasing(q), Len(q) <= QueueLen,
         NEW n \in 1..MaxPackets, \A k \in DOMAIN q : q[k] < n
  PROVE  LET r == AppendTo(q, n)
         IN  r \in Seq(1..MaxPackets) /\ Len(r) <= QueueLen /\ Increasing(r) /\ Len(r) - Len(q) \in {0, 1}
  <1> DEFINE r == AppendTo(q, n)
  <1>0. QueueLen \in Nat \ {0} /\ MaxPackets \in Nat  BY EthArpAssumption
  <1>1. CASE Len(q) < QueueLen
    <2>1. r = Append(q, n)  BY <1>0, <1>1 DEF AppendTo
    <2>2. r \in Seq(1..MaxPackets) /\ Len(r) = Len(q) + 1  BY <2>1
    <2>3. \A k \in 1..Len(q) : r[k] = q[k]  BY <2>1
    <2>4. r[Len(q) + 1] = n /\ DOMAIN r = 1..(Len(q) + 1)  BY <2>1
    <2> HIDE DEF r
    <2>5. Increasing(r)
      <3> SUFFICES ASSUME NEW k \in 1..(Len(q) + 1), NEW l \in 1..(Len(q) + 1), k < l PROVE r[k] < r[l]
        BY <2>4 DEF Increasing
      <3>1. CASE l = Len(q) + 1  BY <2>3, <2>4, <3>1
      <3>2. CASE l \in 1..Len(q)  BY <2>3, <3>2 DEF Increasing
      <3> QED  BY <3>1, <3>2
    <2> QED  BY <1>0, <1>1, <2>2, <2>5 DEF r
  <1>2. CASE Len(q) = QueueLen
    <2> DEFINE p == Tail(q)
    <2>1. q # <<>> /\ r = Append(p, n)  BY <1>0, <1>2 DEF AppendTo
    <2>2. p \in Seq(1..MaxPackets) /\ Len(p) = Len(q) - 1 /\ \A k \in 1..Len(p) : p[k] = q[k + 1]
      BY <2>1
    <2> HIDE DEF p
    <2>3. r \in Seq(1..MaxPackets) /\ Len(r) = Len(q) /\ DOMAIN r = 1..Len(q)  BY <2>1, <2>2
    <2>4. \A k \in 1..(Len(q) - 1) : r[k] = q[k + 1]
      <3>1. \A k \in 1..Len(p) : r[k] = p[k]  BY <2>1, <2>2
      <3> QED  BY <2>2, <3>1
    <2>5. r[Len(q)] = n
      <3>1. Len(p) + 1 = Len(q)  BY <2>2
      <3>2. r[Len(p) + 1] = n  BY <2>1, <2>2
      <3> QED  BY <3>1, <3>2
    <2> HIDE DEF r
    <2>6. Increasing(r)
      <3> SUFFICES ASSUME NEW k \in 1..Len(q), NEW l \in 1..Len(q), k < l PROVE r[k] < r[l]
        BY <2>3 DEF Increasing
      <3>1. k \in 1..(Len(q) - 1) /\ k + 1 \in DOMAIN q  OBVIOUS
      <3>2. CASE l = Len(q)  BY <2>4, <2>5, <3>1, <3>2
      <3>3. CASE l \in 1..(Len(q) - 1)
        <4>1. l + 1 \in DOMAIN q /\ k + 1 < l + 1  BY <3>3
        <4> QED  BY <2>4, <3>1, <3>3, <4>1 DEF Increasing
      <3> QED  BY <3>2, <3>3
    <2> QED  BY <1>0, <1>2, <2>3, <2>6 DEF r
  <1> QED  BY <1>0, <1>1, <1>2

-----------------------------------------------------------------------------
(***************************************************************************)
(* The table, when the entry of one address changes.                       *)
(***************************************************************************)
(* Slot i gets a good entry for address a, which has no other: the rest of
   the table is about other addresses. *)
LEMMA ReplaceEntry ==
  ASSUME Variables, AllGood, OneEntry, QueueConserved, NEW a \in Ip, NEW i \in Slot,
         i \in Matching(a) \/ Matching(a) = {},
         NEW e, Good(e, learned'), e.ip = a, e.state # "empty",
         arp_table' = [arp_table EXCEPT ![i] = e],
         \A b \in Ip \ {a} : learned'[b] = learned[b]
  PROVE  /\ arp_table' \in [Slot -> Entry] /\ AllGood' /\ OneEntry'
         /\ Cardinality(InUse(arp_table')) =
              Cardinality(InUse(arp_table)) - Len(arp_table[i].q) + Len(e.q)
         /\ arp_table'[i] = e
         /\ \A j \in Slot \ {i} : arp_table'[j] = arp_table[j] /\ arp_table[j].ip # a
  <1>1. e \in Entry  BY DEF Good
  <1>2. arp_table' \in [Slot -> Entry]  BY <1>1 DEF Variables
  <1>3. arp_table'[i] = e /\ \A j \in Slot \ {i} : arp_table'[j] = arp_table[j]  BY DEF Variables
  <1>4. ASSUME NEW j \in Slot \ {i} PROVE arp_table[j].ip # a
    <2>1. CASE arp_table[j].state = "empty"
      <3>1. arp_table[j] = Empty  BY <2>1 DEF AllGood, Good
      <3> QED  BY <3>1, EthArpAssumption DEF Empty
    <2>2. CASE arp_table[j].state # "empty"
      <3> SUFFICES ASSUME arp_table[j].ip = a PROVE FALSE  OBVIOUS
      <3>1. j \in Matching(a)  BY <2>2 DEF Matching
      <3>2. i \in Matching(a)  BY <3>1
      <3>3. arp_table[i].ip = arp_table[j].ip  BY <3>2 DEF Matching
      <3>4. i = j  BY <2>2, <3>3 DEF OneEntry
      <3> QED  BY <3>4
    <2> QED  BY <2>1, <2>2
  <1>5. AllGood'
    <2> SUFFICES ASSUME NEW j \in Slot PROVE Good(arp_table'[j], learned')  BY DEF AllGood
    <2>1. CASE j = i  BY <1>3, <2>1
    <2>2. CASE j # i
      <3> DEFINE d == arp_table[j]
      <3>1. Good(d, learned) /\ d.ip # a /\ arp_table'[j] = d  BY <1>3, <1>4, <2>2 DEF AllGood
      <3> HIDE DEF d
      <3>2. d.state \in Stable => d.ip \in Ip \ {a}  BY <3>1 DEF Good, Stable
      <3>3. d.state \in Stable => learned'[d.ip] = learned[d.ip]  BY <3>2
      <3>4. Good(d, learned')  BY <3>1, <3>3 DEF Good
      <3> QED  BY <3>1, <3>4
    <2> QED  BY <2>1, <2>2
  <1>6. OneEntry'
    <2> SUFFICES ASSUME NEW j \in Slot, NEW k \in Slot, arp_table'[j].state # "empty",
                        arp_table'[j].ip = arp_table'[k].ip
                 PROVE  j = k
      BY DEF OneEntry
    <2>1. CASE j = i  BY <1>3, <1>4, <2>1
    <2>2. CASE j # i /\ k = i  BY <1>3, <1>4, <2>2
    <2>3. CASE j # i /\ k # i  BY <1>3, <2>3 DEF OneEntry
    <2> QED  BY <2>1, <2>2, <2>3
  <1>7. Cardinality(InUse(arp_table')) =
          Cardinality(InUse(arp_table)) - Len(arp_table[i].q) + Len(e.q)
    <2>1. arp_table \in [Slot -> Entry]  BY DEF Variables
    <2> DEFINE u == [arp_table EXCEPT ![i] = e]
    <2>2. Cardinality(InUse(u)) = Cardinality(InUse(arp_table)) - Len(arp_table[i].q) + Len(e.q)
      BY <1>1, <2>1, InUseChange
    <2> QED  BY <2>2
  <1> QED  BY <1>2, <1>3, <1>4, <1>5, <1>6, <1>7

(* So do the books of the pool, when free accounts for the difference. *)
LEMMA BooksBalance ==
  ASSUME Variables, QueueConserved, NEW m \in Nat, NEW n \in Nat,
         Cardinality(InUse(arp_table')) = Cardinality(InUse(arp_table)) - m + n,
         free' = free + m - n
  PROVE  QueueConserved'
  <1>1. Cardinality(InUse(arp_table)) \in Nat /\ free \in Nat /\ NumArpQueue \in Nat
    BY InUseFinite, EthArpAssumption DEF Variables
  <1> DEFINE c == Cardinality(InUse(arp_table))
             d == Cardinality(InUse(arp_table'))
  <1>2. c \in Nat /\ d = c - m + n /\ free + c = NumArpQueue  BY <1>1 DEF QueueConserved
  <1> HIDE DEF c, d
  <1>3. free' + d = NumArpQueue  BY <1>1, <1>2
  <1> QED  BY <1>3 DEF QueueConserved, d

-----------------------------------------------------------------------------
(***************************************************************************)
(* The actions.                                                            *)
(***************************************************************************)
(* etharp_tmr: entries age, expire and give their elements back. *)
LEMMA TmrKeeps ==
  ASSUME ArpInv, Tmr
  PROVE  ArpInv'
  <1> USE DEF ArpInv
  <1>1. arp_table \in [Slot -> Entry] /\ asked \in Nat \X Nat /\ learned' = learned /\ free \in Nat
    BY DEF Tmr, Variables
  <1>2. \A i \in Slot : arp_table'[i] = Aged(arp_table[i])  BY DEF Tmr
  <1>3. \A i \in Slot : Good(arp_table[i], learned)  BY DEF AllGood
  <1>4. \A i \in Slot :
          /\ Good(Aged(arp_table[i]), learned)
          /\ \/ Aged(arp_table[i]) = Empty
             \/ /\ Aged(arp_table[i]).ip = arp_table[i].ip /\ Aged(arp_table[i]).q = arp_table[i].q
                /\ arp_table[i].state # "empty"
    BY <1>3, AgedGood
  <1>5. AllGood'  BY <1>1, <1>2, <1>4 DEF AllGood
  <1>6. arp_table' \in [Slot -> Entry]
    <2>1. \A i \in Slot : Aged(arp_table[i]) \in Entry  BY <1>4 DEF Good
    <2> QED  BY <2>1 DEF Tmr
  <1>7. OneEntry'
    <2> SUFFICES ASSUME NEW i \in Slot, NEW j \in Slot, arp_table'[i].state # "empty",
                        arp_table'[i].ip = arp_table'[j].ip
                 PROVE  i = j
      BY DEF OneEntry
    <2>1. arp_table'[i] # Empty  BY DEF Empty
    <2>2. arp_table'[i].ip = arp_table[i].ip /\ arp_table[i].state # "empty"  BY <1>2, <1>4, <2>1
    <2>3. arp_table'[i].ip \in Ip  BY <1>5 DEF AllGood, Good
    <2>4. arp_table'[j] # Empty  BY <2>3, EthArpAssumption DEF Empty
    <2>5. arp_table'[j].ip = arp_table[j].ip  BY <1>2, <1>4, <2>4
    <2> QED  BY <2>2, <2>5 DEF OneEntry
  <1>8. \A i \in Slot : arp_table'[i].q = arp_table[i].q \/ arp_table'[i].q = <<>>
    BY <1>2, <1>4 DEF Empty
  <1>9. QueueConserved' /\ free' \in Nat
    <2> DEFINE c == Cardinality(InUse(arp_table))
               d == Cardinality(InUse(arp_table'))
    <2>1. Cardinality(InUse(arp_table) \ InUse(arp_table')) = c - d  BY <1>1, <1>6, <1>8, InUseDrop
    <2>2. c \in Nat /\ d \in Nat  BY <1>1, <1>6, InUseFinite
    <2>3. Cardinality(InUse(arp_table) \ InUse(arp_table')) \in Nat
      <3>1. IsFiniteSet(InUse(arp_table))  BY <1>1, InUseFinite
      <3> QED  BY <3>1, FS_Difference, FS_CardinalityType
    <2>4. free + c = NumArpQueue /\ NumArpQueue \in Nat  BY EthArpAssumption DEF QueueConserved
    <2>5. free' = free + (c - d)  BY <2>1 DEF Tmr
    <2> HIDE DEF c, d
    <2>6. free' + d = NumArpQueue  BY <1>1, <2>2, <2>4, <2>5
    <2>7. free' \in Nat  BY <1>1, <2>1, <2>3, <2>5
    <2> QED  BY <2>6, <2>7 DEF QueueConserved, d
  <1>10. asked' = <<0, asked[1]>> /\ asked' \in Nat \X Nat  BY <1>1 DEF Tmr
  <1>11. AllPaced'
    <2> SUFFICES ASSUME NEW i \in Slot, arp_table'[i].ip = Watched PROVE Paced(arp_table'[i], asked')
      BY DEF AllPaced
    <2>1. arp_table'[i] # Empty  BY EthArpAssumption DEF Empty
    <2>2. arp_table[i].ip = Watched /\ arp_table[i].state # "empty"  BY <1>2, <1>4, <2>1
    <2>3. ~Expires(arp_table[i])  BY <1>2, <2>1, <2>2 DEF Aged
    <2>4. Paced(arp_table[i], asked)  BY <2>2 DEF AllPaced
    <2>5. Paced(Aged(arp_table[i]), <<0, asked[1]>>)  BY <1>1, <1>3, <2>2, <2>3, <2>4, AgedPaced
    <2> QED  BY <1>2, <1>10, <2>5
  <1>12. RerequestRate'  BY <1>1, <1>10 DEF RerequestRate
  <1>13. SentRight'  BY DEF Tmr, SentRight, SentToLearned, SentInOrder
  <1>14. Variables'  BY <1>6, <1>9, <1>10 DEF Variables, Tmr
  <1> QED  BY <1>5, <1>7, <1>9, <1>11, <1>12, <1>13, <1>14

(* etharp_input: what waited goes out to the address just heard. *)
LEMMA InputKeeps ==
  ASSUME ArpInv, NEW a \in Ip, NEW mac \in Mac, NEW for_us \in BOOLEAN, Input(a, mac, for_us)
  PROVE  ArpInv'
  <1> USE DEF ArpInv
  <1>0. learned \in [Ip -> Mac \cup {NoMac}] /\ asked' = asked /\ cached' = cached
    BY DEF Variables, Input
  <1>1. CASE for_us \/ Matching(a) # {}
    <2> DEFINE i == FindEntry(a)
               e == Found(a, i)
               d == Update(e, mac)
    <2>1. i \in Slot /\ (i \in Matching(a) \/ Matching(a) = {})  BY FindEntryIn
    <2>2. /\ learned' = [learned EXCEPT ![a] = mac]
          /\ arp_table' = [arp_table EXCEPT ![i] = d] /\ wire' = Flush(e, mac)
          /\ free' = free + FreedFor(a, i) + Len(e.q)
      BY <1>1 DEF Input
    <2> HIDE DEF i
    <2>3. /\ e \in Entry /\ e.ip = a /\ Len(e.q) \in Nat /\ Increasing(e.q)
          /\ FreedFor(a, i) \in Nat /\ FreedFor(a, i) + Len(e.q) = Len(arp_table[i].q)
      BY <2>1, FoundIs
    <2>4. learned' \in [Ip -> Mac \cup {NoMac}] /\ learned'[a] = mac
           /\ \A b \in Ip \ {a} : learned'[b] = learned[b]
      BY <1>0, <2>2
    <2> HIDE DEF e
    <2>5. /\ d \in Entry /\ d.ip = a /\ d.state = "stable" /\ d.mac = mac /\ d.ctime = 0 /\ d.q = <<>>
      <3>1. 0 \in 0..(MaxAge - 1) /\ <<>> \in Seq(1..MaxPackets)  BY EthArpAssumption
      <3> QED  BY <2>3, <3>1 DEF Update, Entry, States, Stable
    <2> HIDE DEF d
    <2>6. Len(d.q) = 0 /\ Increasing(d.q) /\ 0 <= QueueLen  BY <2>5, EthArpAssumption DEF Increasing
    <2>7. Good(d, learned')  BY <2>4, <2>5, <2>6, EthArpAssumption DEF Good
    <2>8. /\ arp_table' \in [Slot -> Entry] /\ AllGood' /\ OneEntry'
          /\ Cardinality(InUse(arp_table')) =
               Cardinality(InUse(arp_table)) - Len(arp_table[i].q) + Len(d.q)
          /\ arp_table'[i] = d
          /\ \A j \in Slot \ {i} : arp_table'[j] = arp_table[j] /\ arp_table[j].ip # a
      BY <2>1, <2>2, <2>4, <2>5, <2>7, ReplaceEntry
    <2>9. QueueConserved' /\ free' \in Nat
      <3> DEFINE m == Len(arp_table[i].q)
      <3>1. free \in Nat  BY DEF Variables
      <3>2. m \in Nat /\ m = FreedFor(a, i) + Len(e.q)  BY <2>3
      <3>3. Cardinality(InUse(arp_table')) = Cardinality(InUse(arp_table)) - m + 0  BY <2>6, <2>8
      <3> HIDE DEF m
      <3>4. free' = free + m - 0 /\ free' \in Nat  BY <2>2, <2>3, <3>1, <3>2
      <3> QED  BY <3>2, <3>3, <3>4, BooksBalance
    <2>10. AllPaced'
      <3> SUFFICES ASSUME NEW j \in Slot, arp_table'[j].ip = Watched PROVE Paced(arp_table'[j], asked')
        BY DEF AllPaced
      <3>1. CASE j = i  BY <2>5, <2>8, <3>1 DEF Paced
      <3>2. CASE j # i  BY <1>0, <2>8, <3>2 DEF AllPaced
      <3> QED  BY <3>1, <3>2
    <2>11. SentRight'
      <3>1. DOMAIN wire' = 1..Len(e.q) /\ DOMAIN e.q = 1..Len(e.q)
        <4>1. e.q \in Seq(1..MaxPackets)  BY <2>3 DEF Entry
        <4> QED  BY <2>2, <4>1 DEF Flush
      <3>2. \A k \in DOMAIN wire' : wire'[k].ip = a /\ wire'[k].mac = mac /\ wire'[k].n = e.q[k]
        BY <2>2, <2>3, <3>1 DEF Flush, Frame
      <3>3. SentToLearned'  BY <2>4, <3>2, EthArpAssumption DEF SentToLearned
      <3>4. \A k, l \in DOMAIN wire' : k < l => wire'[k].n < wire'[l].n
        BY <2>3, <3>1, <3>2 DEF Increasing
      <3>5. \A k \in DOMAIN wire', j \in Slot : arp_table'[j].ip = wire'[k].ip => arp_table'[j].q = <<>>
        BY <2>5, <2>8, <3>2
      <3>6. SentInOrder'  BY <3>4, <3>5 DEF SentInOrder
      <3> QED  BY <3>3, <3>6 DEF SentRight
    <2>12. Variables'  BY <1>0, <2>4, <2>8, <2>9 DEF Variables
    <2>13. RerequestRate'  BY <1>0 DEF RerequestRate
    <2> QED  BY <2>8, <2>9, <2>10, <2>11, <2>12, <2>13
  <1>2. CASE ~for_us /\ Matching(a) = {}
    <2>1. learned' = learned /\ arp_table' = arp_table /\ free' = free /\ wire' = <<>>
      BY <1>0, <1>2 DEF Input
    <2>2. SentRight'  BY <2>1 DEF SentRight, SentToLearned, SentInOrder
    <2>3. Variables' /\ AllGood' /\ OneEntry' /\ QueueConserved' /\ AllPaced' /\ RerequestRate'
      BY <1>0, <2>1 DEF Variables, AllGood, OneEntry, QueueConserved, AllPaced, RerequestRate
    <2> QED  BY <2>2, <2>3
  <1> QED  BY <1>1, <1>2

(* etharp_output_to_arp_index on a stable entry. *)
LEMMA SendToKeeps ==
  ASSUME ArpInv, NEW a \in Ip, NEW i \in Slot, NEW n \in Nat, arp_table[i].state \in Stable,
         arp_table[i].ip = a, SendTo(a, i, n), learned' = learned, cached' \in Slot
  PROVE  ArpInv'
  <1> USE DEF ArpInv
  <1>0. /\ arp_table \in [Slot -> Entry] /\ asked \in Nat \X Nat /\ free' = free /\ free \in Nat
        /\ learned \in [Ip -> Mac \cup {NoMac}]
    BY DEF Variables, SendTo
  <1> DEFINE e == arp_table[i]
  <1>1. /\ Good(e, learned) /\ e \in Entry /\ e.state \in Stable /\ e.ip = a /\ e.state # "pending"
        /\ e.state # "empty"
    BY <1>0 DEF AllGood, Stable
  <1>2. e.q = <<>> /\ e.mac = learned[a] /\ e.mac # NoMac  BY <1>1 DEF Good
  <1>3. i \in Matching(a)  BY <1>1 DEF Matching
  <1>4. wire' = <<Frame(a, e.mac, n)>>  BY DEF SendTo
  <1>5. ASSUME /\ \A j \in Slot : arp_table'[j].ip = a => arp_table'[j].q = <<>>
        PROVE  SentRight'
    <2>1. DOMAIN wire' = {1} /\ wire'[1].ip = a /\ wire'[1].mac = learned'[a] /\ wire'[1].mac # NoMac
      BY <1>2, <1>4 DEF Frame
    <2>2. SentToLearned'  BY <2>1 DEF SentToLearned
    <2>3. SentInOrder'  BY <1>5, <2>1 DEF SentInOrder
    <2> QED  BY <2>2, <2>3 DEF SentRight
  <1> HIDE DEF e
  <1>6. CASE arp_table' = arp_table /\ asked' = asked
    <2>1. \A j \in Slot : arp_table'[j].ip = a => arp_table'[j].q = <<>>
      <3> SUFFICES ASSUME NEW j \in Slot, arp_table[j].ip = a PROVE arp_table[j].q = <<>>  BY <1>6
      <3>1. j = i  BY <1>1 DEF OneEntry, e
      <3> QED  BY <1>2, <3>1 DEF e
    <2>2. SentRight'  BY <1>5, <2>1
    <2>3. Variables' /\ AllGood' /\ OneEntry' /\ QueueConserved' /\ AllPaced' /\ RerequestRate'
      BY <1>0, <1>6 DEF Variables, AllGood, OneEntry, QueueConserved, AllPaced, RerequestRate
    <2> QED  BY <2>2, <2>3
  <1>7. CASE /\ e.state = "stable" /\ e.ctime >= RerequestAge
             /\ arp_table' = [arp_table EXCEPT ![i].state = "rerequesting1"]
             /\ asked' = IF a = Watched THEN [asked EXCEPT ![1] = @ + 1] ELSE asked
    <2> DEFINE d == [e EXCEPT !.state = "rerequesting1"]
    <2>1. arp_table' = [arp_table EXCEPT ![i] = d]  BY <1>0, <1>7 DEF e
    <2>2. d \in Entry /\ d.state = "rerequesting1" /\ d.ip = a /\ d.q = e.q /\ d.mac = e.mac
      BY <1>1 DEF Entry, States, Stable
    <2> HIDE DEF d
    <2>3. Good(d, learned')  BY <1>1, <1>2, <2>2 DEF Good, Stable
    <2>4. /\ arp_table' \in [Slot -> Entry] /\ AllGood' /\ OneEntry'
          /\ Cardinality(InUse(arp_table')) =
               Cardinality(InUse(arp_table)) - Len(arp_table[i].q) + Len(d.q)
          /\ arp_table'[i] = d
          /\ \A j \in Slot \ {i} : arp_table'[j] = arp_table[j] /\ arp_table[j].ip # a
      BY <1>3, <2>1, <2>2, <2>3, ReplaceEntry
    <2>5. QueueConserved'
      <3>1. Len(arp_table[i].q) = 0 /\ Len(d.q) = 0  BY <1>2, <2>2 DEF e
      <3>2. Cardinality(InUse(arp_table')) = Cardinality(InUse(arp_table)) - 0 + 0  BY <2>4, <3>1
      <3>3. free' = free + 0 - 0 /\ 0 \in Nat  BY <1>0
      <3> QED  BY <3>2, <3>3, BooksBalance
    <2>6. a = Watched => asked[1] = 0 /\ asked[2] = 0
      <3> SUFFICES ASSUME a = Watched PROVE asked[1] = 0 /\ asked[2] = 0  OBVIOUS
      <3>1. Paced(e, asked)  BY <1>1 DEF AllPaced, e
      <3>2. e.ctime \in Nat /\ e.ctime > 1  BY <1>1, <1>7, EthArpAssumption DEF Entry
      <3> QED  BY <1>0, <1>7, <3>1, <3>2 DEF Paced
    <2>7. /\ asked' \in Nat \X Nat
          /\ a = Watched => asked' = <<1, 0>>
          /\ a # Watched => asked' = asked
      BY <1>0, <1>7, <2>6
    <2>8. RerequestRate'  BY <2>7 DEF RerequestRate
    <2>9. AllPaced'
      <3> SUFFICES ASSUME NEW j \in Slot, arp_table'[j].ip = Watched PROVE Paced(arp_table'[j], asked')
        BY DEF AllPaced
      <3>1. CASE j = i
        <4>1. arp_table'[j] = d /\ asked' = <<1, 0>>  BY <2>2, <2>4, <2>7, <3>1
        <4> QED  BY <2>2, <4>1 DEF Paced
      <3>2. CASE j # i
        <4>1. arp_table'[j] = arp_table[j] /\ asked' = asked  BY <2>4, <2>7, <3>2
        <4> QED  BY <4>1 DEF AllPaced
      <3> QED  BY <3>1, <3>2
    <2>10. SentRight'
      <3>1. \A j \in Slot : arp_table'[j].ip = a => arp_table'[j].q = <<>>  BY <1>2, <2>2, <2>4
      <3> QED  BY <1>5, <3>1
    <2>11. Variables'  BY <1>0, <2>4, <2>7 DEF Variables
    <2> QED  BY <2>4, <2>5, <2>8, <2>9, <2>10, <2>11
  <1> QED  BY <1>6, <1>7 DEF SendTo, e

(* The entry of an unresolved address becomes d, and some packets are freed. *)
LEMMA ResolveKeeps ==
  ASSUME ArpInv, NEW a \in Ip, NEW d, NEW i \in Slot, i \in Matching(a) \/ Matching(a) = {},
         Good(d, learned), d.ip = a, d.state # "empty", Paced(d, asked) \/ a # Watched,
         arp_table' = [arp_table EXCEPT ![i] = d],
         free' = free + Len(arp_table[i].q) - Len(d.q), free' \in Nat,
         wire' = <<>>, asked' = asked, learned' = learned, cached' = cached
  PROVE  ArpInv'
  <1> USE DEF ArpInv
  <1>1. /\ arp_table' \in [Slot -> Entry] /\ AllGood' /\ OneEntry'
        /\ Cardinality(InUse(arp_table')) =
             Cardinality(InUse(arp_table)) - Len(arp_table[i].q) + Len(d.q)
        /\ arp_table'[i] = d
        /\ \A j \in Slot \ {i} : arp_table'[j] = arp_table[j] /\ arp_table[j].ip # a
    BY ReplaceEntry
  <1>2. QueueConserved'
    <2>1. arp_table[i].q \in Seq(1..MaxPackets) /\ d.q \in Seq(1..MaxPackets)
      BY DEF Variables, Good, Entry
    <2>2. Len(arp_table[i].q) \in Nat /\ Len(d.q) \in Nat  BY <2>1
    <2> QED  BY <1>1, <2>2, BooksBalance
  <1>3. AllPaced'
    <2> SUFFICES ASSUME NEW j \in Slot, arp_table'[j].ip = Watched PROVE Paced(arp_table'[j], asked')
      BY DEF AllPaced
    <2>1. CASE j = i  BY <1>1, <2>1
    <2>2. CASE j # i  BY <1>1, <2>2 DEF AllPaced
    <2> QED  BY <2>1, <2>2
  <1>4. RerequestRate' /\ SentRight'
    BY DEF RerequestRate, SentRight, SentToLearned, SentInOrder
  <1>5. Variables'  BY <1>1 DEF Variables
  <1> QED  BY <1>1, <1>2, <1>3, <1>4, <1>5

(* etharp_query with a packet for an address that is not resolved. *)
LEMMA QueueOnKeeps ==
  ASSUME ArpInv, NEW a \in Ip, NEW i \in Slot, i \in Matching(a) \/ Matching(a) = {},
         NEW n \in 1..MaxPackets, NEW ok \in BOOLEAN, QueueOn(a, i, n, ok),
         \A j \in Matching(a) : \A k \in DOMAIN arp_table[j].q : arp_table[j].q[k] < n,
         learned' = learned, cached' = cached
  PROVE  ArpInv'
  <1> DEFINE f == Found(a, i)
             e == [f EXCEPT !.state = "pending"]
             had == free + FreedFor(a, i)
             r == AppendTo(e.q, n)
  <1>1. /\ f \in Entry /\ f.ip = a /\ Len(f.q) \in Nat /\ Len(f.q) <= QueueLen /\ Increasing(f.q)
        /\ FreedFor(a, i) \in Nat /\ FreedFor(a, i) + Len(f.q) = Len(arp_table[i].q)
        /\ (i \in Matching(a) /\ f = arp_table[i]) \/ f.q = <<>>
    BY FoundIs DEF ArpInv
  <1>2. free \in Nat /\ wire' = <<>> /\ asked' = asked  BY DEF ArpInv, Variables, QueueOn
  <1>3. /\ \/ /\ had > 0
              /\ arp_table' = [arp_table EXCEPT ![i] = [e EXCEPT !.q = r]]
              /\ free' = had - (Len(r) - Len(e.q))
           \/ arp_table' = [arp_table EXCEPT ![i] = e] /\ free' = had
    BY DEF QueueOn
  <1> HIDE DEF f
  <1>4. e \in Entry /\ e.ip = a /\ e.q = f.q /\ e.state = "pending"  BY <1>1 DEF Entry, States
  <1>5. had \in Nat /\ had = free + FreedFor(a, i)  BY <1>1, <1>2
  <1> HIDE DEF e, had
  <1>6. ASSUME NEW d, d \in Entry, d.ip = a, d.state = "pending", Len(d.q) <= QueueLen, Increasing(d.q)
        PROVE  Good(d, learned) /\ Paced(d, asked)
    BY <1>6 DEF Good, Paced, Stable
  <1>7. CASE arp_table' = [arp_table EXCEPT ![i] = e] /\ free' = had
    <2>1. free' = free + Len(arp_table[i].q) - Len(e.q) /\ free' \in Nat
      <3> DEFINE y == Len(e.q)
                 z == Len(arp_table[i].q)
                 w == FreedFor(a, i)
      <3>1. y \in Nat /\ w \in Nat /\ w + y = z /\ free' = free + w  BY <1>1, <1>4, <1>5, <1>7
      <3> HIDE DEF y, z, w
      <3>2. free' = free + z - y /\ free' \in Nat  BY <1>2, <3>1
      <3> QED  BY <3>2 DEF y, z
    <2>2. Good(e, learned) /\ Paced(e, asked)  BY <1>1, <1>4, <1>6
    <2> QED  BY <1>2, <1>4, <1>7, <2>1, <2>2, ResolveKeeps
  <1>8. CASE /\ had > 0
             /\ arp_table' = [arp_table EXCEPT ![i] = [e EXCEPT !.q = r]]
             /\ free' = had - (Len(r) - Len(e.q))
    <2> DEFINE d == [e EXCEPT !.q = r]
    <2>1. \A k \in DOMAIN f.q : f.q[k] < n  BY <1>1
    <2>2. e.q \in Seq(1..MaxPackets)  BY <1>4 DEF Entry
    <2>3. r \in Seq(1..MaxPackets) /\ Len(r) <= QueueLen /\ Increasing(r) /\ Len(r) - Len(e.q) \in {0, 1}
      BY <1>1, <1>4, <2>1, <2>2, AppendToOrdered
    <2> HIDE DEF r
    <2>4. d \in Entry /\ d.ip = a /\ d.state = "pending" /\ d.q = r  BY <1>4, <2>3 DEF Entry
    <2> HIDE DEF d
    <2>5. Good(d, learned) /\ Paced(d, asked)  BY <1>6, <2>3, <2>4
    <2>6. free' = free + Len(arp_table[i].q) - Len(d.q) /\ free' \in Nat
      <3>1. Len(r) \in Nat /\ Len(e.q) \in Nat  BY <2>2, <2>3
      <3> DEFINE x == Len(r)
                 y == Len(e.q)
                 z == Len(arp_table[i].q)
                 w == FreedFor(a, i)
      <3>2. /\ x \in Nat /\ y \in Nat /\ w \in Nat /\ w + y = z /\ x - y \in {0, 1}
            /\ free' = had - (x - y) /\ had = free + w /\ had > 0
        BY <1>1, <1>4, <1>5, <1>8, <2>3, <3>1
      <3> HIDE DEF x, y, z, w
      <3>3. free' = free + z - x /\ free' \in Nat  BY <1>2, <3>2
      <3> QED  BY <2>4, <3>3 DEF x, z
    <2>7. arp_table' = [arp_table EXCEPT ![i] = d]  BY <1>8 DEF d
    <2>8. d.state # "empty"  BY <2>4
    <2> QED  BY <1>2, <2>4, <2>5, <2>6, <2>7, <2>8, ResolveKeeps
  <1> QED  BY <1>3, <1>7, <1>8

(* etharp_output. *)
LEMMA OutputKeeps ==
  ASSUME ArpInv, NEW a \in Ip, NEW ok \in BOOLEAN, Output(a, ok)
  PROVE  ArpInv'
  <1> DEFINE n == NextNumber(a)
             known == {i \in Matching(a) : arp_table[i].state \in Stable}
  <1>1. Variables /\ cached \in Slot /\ learned' = learned  BY DEF ArpInv, Variables, Output
  <1>2. /\ n \in Nat \ {0} /\ n <= MaxPackets
        /\ \A i \in Matching(a) : \A k \in DOMAIN arp_table[i].q : arp_table[i].q[k] < n
    BY <1>1, NextNumberAbove DEF Output
  <1>3. n \in 1..MaxPackets /\ n \in Nat  BY <1>2, EthArpAssumption
  <1>4. \/ CacheHit(a) /\ SendTo(a, cached, n) /\ UNCHANGED cached
        \/ ~CacheHit(a) /\ known # {} /\ cached' = Min(known) /\ SendTo(a, Min(known), n)
        \/ QueueOn(a, FindEntry(a), n, ok) /\ UNCHANGED cached
    BY DEF Output
  <1>5. known \in SUBSET Slot  BY DEF Matching
  <1>6. \A i \in known : arp_table[i].state \in Stable /\ arp_table[i].ip = a  BY DEF Matching
  <1> HIDE DEF n, known
  <1>7. CASE CacheHit(a) /\ SendTo(a, cached, n) /\ UNCHANGED cached
    BY <1>1, <1>3, <1>7, SendToKeeps DEF CacheHit
  <1>8. CASE known # {} /\ cached' = Min(known) /\ SendTo(a, Min(known), n)
    <2>1. Min(known) \in known  BY <1>5, <1>8, MinIn
    <2>2. Min(known) \in Slot /\ arp_table[Min(known)].state \in Stable /\ arp_table[Min(known)].ip = a
      BY <1>5, <1>6, <2>1
    <2> QED  BY <1>1, <1>3, <1>8, <2>2, SendToKeeps
  <1>9. CASE QueueOn(a, FindEntry(a), n, ok) /\ UNCHANGED cached
    <2>1. FindEntry(a) \in Slot /\ (FindEntry(a) \in Matching(a) \/ Matching(a) = {})
      BY <1>1, FindEntryIn
    <2> QED  BY <1>1, <1>2, <1>3, <1>9, <2>1, QueueOnKeeps
  <1> QED  BY <1>4, <1>7, <1>8, <1>9

(* etharp_query without a packet. *)
LEMMA QueryKeeps ==
  ASSUME ArpInv, NEW a \in Ip, Query(a)
  PROVE  ArpInv'
  <1> DEFINE i == FindEntry(a)
             e == Found(a, i)
             s == IF e.state = "empty" THEN "pending" ELSE e.state
             d == [e EXCEPT !.state = s]
  <1>1. i \in Slot /\ (i \in Matching(a) \/ Matching(a) = {})  BY FindEntryIn DEF ArpInv
  <1>2. /\ arp_table' = [arp_table EXCEPT ![i] = d] /\ free' = free + FreedFor(a, i) /\ wire' = <<>>
        /\ cached' = cached /\ learned' = learned /\ asked' = asked /\ free \in Nat
    BY DEF Query, ArpInv, Variables
  <1> HIDE DEF i
  <1>3. /\ e \in Entry /\ e.ip = a /\ Len(e.q) \in Nat /\ Len(e.q) <= QueueLen /\ Increasing(e.q)
        /\ e.q # <<>> => e.state = "pending"
        /\ e.state \in Stable => e.mac = learned[a] /\ e.mac # NoMac
        /\ FreedFor(a, i) \in Nat /\ FreedFor(a, i) + Len(e.q) = Len(arp_table[i].q)
        /\ (i \in Matching(a) /\ e = arp_table[i]) \/ e.ctime = 0
    BY <1>1, FoundIs DEF ArpInv
  <1> HIDE DEF e
  <1>4. /\ s \in States /\ s # "empty" /\ (e.state = "pending" => s = "pending")
        /\ (s \in Stable => e.state \in Stable) /\ (s = e.state \/ s = "pending")
    BY <1>3 DEF Entry, States, Stable
  <1> HIDE DEF s
  <1>5. /\ d \in Entry /\ d.ip = a /\ d.q = e.q /\ d.state = s /\ d.mac = e.mac /\ d.ctime = e.ctime
    BY <1>3, <1>4 DEF Entry
  <1> HIDE DEF d
  <1>6. Good(d, learned)  BY <1>3, <1>4, <1>5 DEF Good
  <1>7. Paced(d, asked) \/ a # Watched
    <2> SUFFICES ASSUME a = Watched PROVE Paced(d, asked)  OBVIOUS
    <2>1. CASE i \in Matching(a) /\ e = arp_table[i]
      <3>1. Paced(e, asked)  BY <1>1, <1>3, <2>1 DEF ArpInv, AllPaced
      <3> QED  BY <1>4, <1>5, <3>1 DEF Paced
    <2>2. CASE e.ctime = 0  BY <1>5, <2>2 DEF Paced
    <2> QED  BY <1>3, <2>1, <2>2
  <1>8. free' = free + Len(arp_table[i].q) - Len(d.q) /\ free' \in Nat
    <2> DEFINE x == Len(e.q)
               y == FreedFor(a, i)
               z == Len(arp_table[i].q)
    <2>1. x \in Nat /\ y \in Nat /\ y + x = z /\ free' = free + y /\ free \in Nat  BY <1>2, <1>3
    <2> HIDE DEF x, y, z
    <2>2. free' = free + z - x /\ free' \in Nat  BY <2>1
    <2> QED  BY <1>5, <2>2 DEF x, z
  <1>9. d.state # "empty"  BY <1>4, <1>5
  <1> QED  BY <1>1, <1>2, <1>5, <1>6, <1>7, <1>8, <1>9, ResolveKeeps

(* A table of empty entries: nothing is in use. *)
LEMMA EmptyTable ==
  ASSUME NEW t, t = [i \in Slot |-> Empty]
  PROVE  /\ t \in [Slot -> Entry] /\ InUse(t) = {}
         /\ \A i \in Slot : t[i] = Empty
  <1>1. \A i \in Slot : t[i] = Empty /\ t[i].q = <<>>  BY DEF Empty
  <1>2. t \in [Slot -> Entry]  BY BlankEntry
  <1>3. \A i \in Slot : {i} \X DOMAIN t[i].q = {}  BY <1>1
  <1>4. InUse(t) = {}  BY <1>3 DEF InUse
  <1> QED  BY <1>1, <1>2, <1>4

(* What an empty table leaves to show. *)
LEMMA EmptyTableInv ==
  ASSUME arp_table = [i \in Slot |-> Empty], cached \in Slot, free = NumArpQueue, wire = <<>>,
         learned \in [Ip -> Mac \cup {NoMac}], asked \in Nat \X Nat, RerequestRate
  PROVE  ArpInv
  <1>1. /\ arp_table \in [Slot -> Entry] /\ InUse(arp_table) = {}
        /\ \A i \in Slot : arp_table[i] = Empty
    BY EmptyTable
  <1>2. Variables  BY <1>1, EthArpAssumption DEF Variables
  <1>3. AllGood  BY <1>1, BlankEntry DEF AllGood
  <1>4. OneEntry  BY <1>1 DEF OneEntry, Empty
  <1>5. QueueConserved
    <2>1. Cardinality(InUse(arp_table)) = 0  BY <1>1, FS_EmptySet
    <2> QED  BY <2>1, EthArpAssumption DEF QueueConserved
  <1>6. AllPaced  BY <1>1, EthArpAssumption DEF AllPaced, Empty
  <1>7. SentRight  BY DEF SentRight, SentToLearned, SentInOrder
  <1> QED  BY <1>2, <1>3, <1>4, <1>5, <1>6, <1>7 DEF ArpInv

(* etharp_cleanup_netif. *)
LEMMA CleanupNetifKeeps ==
  ASSUME ArpInv, CleanupNetif
  PROVE  ArpInv'
  <1>1. free' = NumArpQueue  BY DEF CleanupNetif, ArpInv, QueueConserved
  <1>2. /\ arp_table' = [i \in Slot |-> Empty] /\ cached' \in Slot /\ wire' = <<>>
        /\ learned' \in [Ip -> Mac \cup {NoMac}] /\ asked' \in Nat \X Nat /\ RerequestRate'
    BY DEF CleanupNetif, ArpInv, Variables, RerequestRate
  <1>3. /\ arp_table' \in [Slot -> Entry] /\ InUse(arp_table') = {}
        /\ \A i \in Slot : arp_table'[i] = Empty
    BY <1>2, EmptyTable
  <1>4. Variables'  BY <1>1, <1>2, <1>3, EthArpAssumption DEF Variables
  <1>5. AllGood'  BY <1>3, BlankEntry DEF AllGood
  <1>6. OneEntry'  BY <1>3 DEF OneEntry, Empty
  <1>7. QueueConserved'
    <2>1. Cardinality(InUse(arp_table')) = 0  BY <1>3, FS_EmptySet
    <2> QED  BY <1>1, <2>1, EthArpAssumption DEF QueueConserved
  <1>8. AllPaced'  BY <1>3, EthArpAssumption DEF AllPaced, Empty
  <1>9. SentRight'  BY <1>2 DEF SentRight, SentToLearned, SentInOrder
  <1> QED  BY <1>2, <1>4, <1>5, <1>6, <1>7, <1>8, <1>9 DEF ArpInv

-----------------------------------------------------------------------------
(***************************************************************************)
(* The theorems.                                                           *)
(***************************************************************************)
(* ArpInv holds in the initial state and every step keeps it: whatever the
   order of answers, ticks, packets and queries, and whichever allocations
   fail. *)
THEOREM ArpInvariant == Spec => []ArpInv
  <1>1. Init => ArpInv
    <2> SUFFICES ASSUME Init PROVE ArpInv  OBVIOUS
    <2>1. 1 \in Slot  BY EthArpAssumption DEF Slot
    <2>2. RerequestRate /\ asked \in Nat \X Nat  BY DEF Init, RerequestRate
    <2> QED  BY <2>1, <2>2, EmptyTableInv DEF Init
  <1>2. ArpInv /\ [Next]_vars => ArpInv'
    <2> SUFFICES ASSUME ArpInv, [Next]_vars PROVE ArpInv'  OBVIOUS
    <2>1. CASE Tmr  BY <2>1, TmrKeeps
    <2>2. ASSUME NEW a \in Ip, NEW mac \in Mac, NEW for_us \in BOOLEAN, Input(a, mac, for_us)
          PROVE  ArpInv'
      BY <2>2, InputKeeps
    <2>3. ASSUME NEW a \in Ip, NEW ok \in BOOLEAN, Output(a, ok) PROVE ArpInv'  BY <2>3, OutputKeeps
    <2>4. ASSUME NEW a \in Ip, Query(a) PROVE ArpInv'  BY <2>4, QueryKeeps
    <2>5. CASE CleanupNetif  BY <2>5, CleanupNetifKeeps
    <2>6. CASE UNCHANGED vars
      BY <2>6 DEF vars, ArpInv, Variables, AllGood, OneEntry, QueueConserved, AllPaced, RerequestRate,
                  SentRight, SentToLearned, SentInOrder
    <2> QED  BY <2>1, <2>2, <2>3, <2>4, <2>5, <2>6 DEF Next
  <1> QED  BY <1>1, <1>2, PTL DEF Spec

(* The types, ARP_QUEUE_LEN and the size of the pool are kept. *)
THEOREM ArpTypeCorrect == Spec => []TypeOK
  <1>1. ArpInv => TypeOK
    <2> SUFFICES ASSUME ArpInv PROVE TypeOK  OBVIOUS
    <2>1. free \in 0..NumArpQueue
      <3>1. Cardinality(InUse(arp_table)) \in Nat /\ free \in Nat  BY InUseFinite DEF ArpInv, Variables
      <3> QED  BY <3>1, EthArpAssumption DEF ArpInv, QueueConserved
    <2>2. ASSUME NEW i \in Slot
          PROVE  /\ arp_table[i].state \in Stable \cup {"empty", "pending"}
                 /\ arp_table[i].ctime \in 0..(MaxAge - 1)
                 /\ arp_table[i].mac \in Mac \cup {NoMac} /\ Len(arp_table[i].q) <= QueueLen
      BY DEF ArpInv, AllGood, Good, Entry, States
    <2>3. /\ cached \in Slot /\ learned \in [Ip -> Mac \cup {NoMac}] /\ asked \in Nat \X Nat
      BY DEF ArpInv, Variables
    <2> QED  BY <2>1, <2>2, <2>3, Zenon DEF TypeOK
  <1> QED  BY <1>1, ArpInvariant, PTL

(* An address has one entry, packets wait only on a pending one, and every
   element of MEMP_ARP_QUEUE is free or holds one of them. *)
THEOREM ArpQueuesSane == Spec => []QueuesSane
  <1>1. ArpInv => QueuesSane
    BY DEF ArpInv, AllGood, Good, OneEntry, QueuesSane, WaitOnlyPending
  <1> QED  BY <1>1, ArpInvariant, PTL

(* A packet goes to the hardware address last heard from its destination,
   and before those that were given after it. *)
THEOREM ArpSentRight == Spec => []SentRight
  <1>1. ArpInv => SentRight  BY DEF ArpInv
  <1> QED  BY <1>1, ArpInvariant, PTL

(* A used entry is asked about again at most once in two ticks. *)
THEOREM ArpRerequestRate == Spec => []RerequestRate
  <1>1. ArpInv => RerequestRate  BY DEF ArpInv
  <1> QED  BY <1>1, ArpInvariant, PTL

=============================================================================
