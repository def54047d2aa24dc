-------------------------- MODULE TcpipTimersProofs --------------------------
(***************************************************************************)
(* Theorems about TcpipTimers, for every set of timers, every pool that    *)
(* has room for them and every length of the stack's intervals.            *)
(*                                                                         *)
(* That no timer is lost holds on any clock.  That the list is sorted and  *)
(* no handler runs early holds as long as every tick moves sys_now on by   *)
(* the length of a tick, modulo the word: always on a clock that uses the  *)
(* whole word, and until the product of sys_now first overflows on the     *)
(* clock of the port.                                                      *)
(***************************************************************************)
EXTENDS TcpipTimers, FiniteSetTheorems, NaturalsInduction, SequenceTheorems,
        WellFoundedInduction, TLAPS

-----------------------------------------------------------------------------
(***************************************************************************)
(* The timeout list.                                                       *)
(***************************************************************************)
Timeo == [timer : Timer, time : U32]

(* r is l with e put in at place k, or without what is at place k. *)
PutIn(l, r, k, e) ==
  /\ k \in 1..(Len(l) + 1) /\ r \in Seq(Timeo) /\ Len(r) = Len(l) + 1 /\ r[k] = e
  /\ \A i \in 1..(k - 1) : r[i] = l[i]
  /\ \A i \in (k + 1)..Len(r) : r[i] = l[i - 1]

TakenOut(l, r, k) ==
  /\ k \in 1..Len(l) /\ r \in Seq(Timeo) /\ Len(r) = Len(l) - 1
  /\ \A i \in 1..(k - 1) : r[i] = l[i]
  /\ \A i \in k..Len(r) : r[i] = l[i + 1]

(* A set of naturals that is not empty has a least element. *)
LEMMA LeastNat ==
  ASSUME NEW S \in SUBSET Nat, S # {}
  PROVE  \E n \in S : \A m \in S : n <= m
  <1> DEFINE R == OpToRel(<, Nat)
  <1>1. IsWellFoundedOn(R, Nat)  BY NatLessThanWellFounded
  <1>2. PICK n \in S : \A m \in S : ~(<<m, n>> \in R)
    <2> HIDE DEF R
    <2> QED  BY <1>1, WFMin
  <1>3. \A m \in S : ~(m < n)  BY <1>2 DEF OpToRel
  <1> QED  BY <1>3

(* Min is the least element. *)
LEMMA MinIs ==
  ASSUME NEW S \in SUBSET Nat, S # {}
  PROVE  Min(S) \in S /\ \A m \in S : Min(S) <= m
  BY LeastNat DEF Min

(* What InsertAt returns. *)
LEMMA InsertAtIs ==
  ASSUME NEW l \in Seq(Timeo), NEW k \in 1..(Len(l) + 1), NEW e \in Timeo
  PROVE  PutIn(l, InsertAt(l, k, e), k, e)
  <1> DEFINE a == SubSeq(l, 1, k - 1)
             b == SubSeq(l, k, Len(l))
             r == a \o <<e>> \o b
  <1>1. Len(l) \in Nat /\ k \in Nat /\ \A i \in 1..Len(l) : l[i] \in Timeo
    BY LenProperties, ElementOfSeq
  <1>2. a \in Seq(Timeo) /\ Len(a) = k - 1 /\ \A i \in 1..(k - 1) : a[i] = l[i]
    BY <1>1, SubSeqProperties
  <1>3. b \in Seq(Timeo) /\ Len(b) = Len(l) - k + 1 /\ \A i \in 1..(Len(l) - k + 1) : b[i] = l[k + i - 1]
    BY <1>1, SubSeqProperties
  <1>4. <<e>> \in Seq(Timeo) /\ Len(<<e>>) = 1 /\ <<e>>[1] = e  OBVIOUS
  <1> DEFINE c == a \o <<e>>
  <1> HIDE DEF a, b
  <1>5. c \in Seq(Timeo) /\ Len(c) = k /\ c[k] = e /\ \A i \in 1..(k - 1) : c[i] = l[i]
    BY <1>1, <1>2, <1>4, ConcatProperties
  <1> HIDE DEF c
  <1>6. r = c \o b  BY DEF c
  <1>7. r \in Seq(Timeo) /\ Len(r) = Len(l) + 1
         /\ \A i \in 1..(Len(l) + 1) : r[i] = IF i <= k THEN c[i] ELSE b[i - k]
    <2> HIDE DEF r
    <2>1. r \in Seq(Timeo) /\ Len(r) = Len(c) + Len(b)
           /\ \A i \in 1..(Len(c) + Len(b)) : r[i] = IF i <= Len(c) THEN c[i] ELSE b[i - Len(c)]
      BY <1>3, <1>5, <1>6, ConcatProperties
    <2>2. Len(c) + Len(b) = Len(l) + 1  BY <1>1, <1>3, <1>5
    <2> QED  BY <1>5, <2>1, <2>2
  <1>8. InsertAt(l, k, e) = r  BY DEF InsertAt, a, b
  <1> HIDE DEF r
  <1>9. r[k] = e /\ \A i \in 1..(k - 1) : r[i] = l[i]  BY <1>1, <1>5, <1>7
  <1>10. ASSUME NEW i \in (k + 1)..Len(r) PROVE r[i] = l[i - 1]
    <2>1. i \in 1..(Len(l) + 1) /\ ~(i <= k) /\ i - k \in 1..(Len(l) - k + 1) /\ k + (i - k) - 1 = i - 1
      BY <1>1, <1>7
    <2>2. r[i] = b[i - k]  BY <1>7, <2>1
    <2> QED  BY <1>3, <2>1, <2>2
  <1> QED  BY <1>7, <1>8, <1>9, <1>10 DEF PutIn

(* sys_timeout_abs puts the timeout before the first later one (lines 205-220). *)
LEMMA InsertIs ==
  ASSUME NEW l \in Seq(Timeo), NEW e \in Timeo
  PROVE  \E k \in 1..(Len(l) + 1) :
           /\ PutIn(l, Insert(l, e), k, e)
           /\ \A i \in 1..(k - 1) : ~TimeLessThan(e.time, l[i].time)
           /\ k <= Len(l) => TimeLessThan(e.time, l[k].time)
  <1> DEFINE I == {i \in 1..Len(l) : TimeLessThan(e.time, l[i].time)}
             later == IF I # {} THEN Min(I) ELSE 0
             k == IF later = 0 THEN Len(l) + 1 ELSE later
  <1>1. Insert(l, e) = InsertAt(l, k, e)  BY DEF Insert, SelectInSeq
  <1>2. Len(l) \in Nat /\ I \in SUBSET Nat  BY LenProperties
  <1>3. CASE I = {}
    <2>1. k = Len(l) + 1  BY <1>3
    <2>2. \A i \in 1..Len(l) : ~TimeLessThan(e.time, l[i].time)  BY <1>3
    <2> HIDE DEF k
    <2>3. PutIn(l, InsertAt(l, k, e), k, e)  BY <1>2, <2>1, InsertAtIs
    <2> QED  BY <1>1, <1>2, <2>1, <2>2, <2>3
  <1>4. CASE I # {}
    <2> HIDE DEF I
    <2>1. Min(I) \in I /\ \A m \in I : Min(I) <= m  BY <1>2, <1>4, MinIs
    <2>2. Min(I) \in 1..Len(l)  BY <2>1 DEF I
    <2>3. k \in I /\ k \in 1..Len(l) /\ \A m \in I : k <= m  BY <1>2, <1>4, <2>1, <2>2
    <2> HIDE DEF k
    <2>4. PutIn(l, InsertAt(l, k, e), k, e)  BY <1>2, <2>3, InsertAtIs
    <2>5. ASSUME NEW i \in 1..(k - 1) PROVE ~TimeLessThan(e.time, l[i].time)
      <3>1. i \in 1..Len(l) /\ ~(k <= i)  BY <1>2, <2>3
      <3> QED  BY <2>3, <3>1 DEF I
    <2>6. TimeLessThan(e.time, l[k].time)  BY <2>3 DEF I
    <2> QED  BY <1>1, <1>2, <2>3, <2>4, <2>5, <2>6
  <1> QED  BY <1>3, <1>4

(* sys_untimeout takes out the timeout it is given (lines 320-340). *)
LEMMA RemoveIs ==
  ASSUME NEW l \in Seq(Timeo), NEW tm, \E i \in 1..Len(l) : l[i].timer = tm
  PROVE  \E k \in 1..Len(l) :
           l[k].timer = tm /\ TakenOut(l, RemoveFirstMatch(l, LAMBDA x : x.timer = tm), k)
  <1> DEFINE I == {i \in 1..Len(l) : l[i].timer = tm}
             k == Min(I)
             a == SubSeq(l, 1, k - 1)
             b == SubSeq(l, k + 1, Len(l))
             r == a \o b
  <1>1. RemoveFirstMatch(l, LAMBDA x : x.timer = tm) = r
    BY DEF RemoveFirstMatch, RemoveAt, SelectInSeq
  <1>2. Len(l) \in Nat /\ I \in SUBSET Nat /\ I # {} /\ \A i \in 1..Len(l) : l[i] \in Timeo
    BY LenProperties, ElementOfSeq
  <1>3. k \in I
    <2> HIDE DEF I
    <2> QED  BY <1>2, MinIs
  <1>4. k \in 1..Len(l) /\ l[k].timer = tm  BY <1>3
  <1> HIDE DEF k
  <1>5. a \in Seq(Timeo) /\ Len(a) = k - 1 /\ \A i \in 1..(k - 1) : a[i] = l[i]
    BY <1>2, <1>4, SubSeqProperties
  <1>6. b \in Seq(Timeo) /\ Len(b) = Len(l) - k /\ \A i \in 1..(Len(l) - k) : b[i] = l[k + i]
    <2>1. \A i \in (k + 1)..Len(l) : l[i] \in Timeo  BY <1>2, <1>4
    <2>2. b \in Seq(Timeo) /\ Len(b) = (IF k + 1 <= Len(l) THEN Len(l) - (k + 1) + 1 ELSE 0)
           /\ \A i \in 1..(Len(l) - (k + 1) + 1) : b[i] = l[(k + 1) + i - 1]
      BY <1>2, <1>4, <2>1, SubSeqProperties
    <2> HIDE DEF b
    <2>3. Len(b) = Len(l) - k  BY <1>2, <1>4, <2>2
    <2>4. ASSUME NEW i \in 1..(Len(l) - k) PROVE b[i] = l[k + i]
      <3>1. i \in 1..(Len(l) - (k + 1) + 1) /\ (k + 1) + i - 1 = k + i  BY <1>2, <1>4
      <3> QED  BY <2>2, <3>1
    <2> QED  BY <2>2, <2>3, <2>4
  <1> HIDE DEF a, b
  <1>7. r \in Seq(Timeo) /\ Len(r) = Len(l) - 1
         /\ \A i \in 1..(Len(l) - 1) : r[i] = IF i <= k - 1 THEN a[i] ELSE b[i - (k - 1)]
    <2>1. r \in Seq(Timeo) /\ Len(r) = Len(a) + Len(b)
           /\ \A i \in 1..(Len(a) + Len(b)) : r[i] = IF i <= Len(a) THEN a[i] ELSE b[i - Len(a)]
      BY <1>5, <1>6, ConcatProperties
    <2>2. Len(a) + Len(b) = Len(l) - 1  BY <1>2, <1>4, <1>5, <1>6
    <2> HIDE DEF r
    <2> QED  BY <1>5, <2>1, <2>2
  <1> HIDE DEF r
  <1>8. \A i \in 1..(k - 1) : r[i] = l[i]  BY <1>2, <1>4, <1>5, <1>7
  <1>9. ASSUME NEW i \in k..Len(r) PROVE r[i] = l[i + 1]
    <2>1. i \in 1..(Len(l) - 1) /\ ~(i <= k - 1) /\ i - (k - 1) \in 1..(Len(l) - k) /\ k + (i - (k - 1)) = i + 1
      BY <1>2, <1>4, <1>7
    <2>2. r[i] = b[i - (k - 1)]  BY <1>7, <2>1
    <2> QED  BY <1>6, <2>1, <2>2
  <1> QED  BY <1>1, <1>4, <1>7, <1>8, <1>9 DEF TakenOut

(* Tail takes out the first. *)
LEMMA TailIs ==
  ASSUME NEW l \in Seq(Timeo), l # <<>>
  PROVE  TakenOut(l, Tail(l), 1)
  <1>1. Tail(l) \in Seq(Timeo) /\ Len(Tail(l)) = Len(l) - 1
         /\ \A i \in 1..Len(Tail(l)) : Tail(l)[i] = l[i + 1]
    BY HeadTailProperties
  <1>2. Len(l) \in Nat \ {0}  BY EmptySeq
  <1>3. 1..(1 - 1) = {}  OBVIOUS
  <1> QED  BY <1>1, <1>2, <1>3 DEF TakenOut

(* The timers of a list, and that none is in it twice. *)
Timers(l) == {l[i].timer : i \in 1..Len(l)}
Distinct(l) == \A i, j \in 1..Len(l) : l[i].timer = l[j].timer => i = j

(* Where the elements of the new list come from. *)
LEMMA PutFrom ==
  ASSUME NEW l \in Seq(Timeo), NEW r, NEW k, NEW e, PutIn(l, r, k, e)
  PROVE  /\ Len(l) \in Nat /\ Len(r) = Len(l) + 1 /\ k \in 1..Len(r) /\ r[k] = e
         /\ \A i \in 1..Len(r) : i # k =>
              \E m \in 1..Len(l) : r[i] = l[m] /\ ((m = i /\ i < k) \/ (m = i - 1 /\ i > k))
         /\ \A m \in 1..Len(l) : \E i \in 1..Len(r) : r[i] = l[m]
  <1>1. Len(l) \in Nat /\ Len(r) = Len(l) + 1 /\ k \in 1..Len(r) /\ r[k] = e
    BY LenProperties DEF PutIn
  <1>2. ASSUME NEW i \in 1..Len(r), i # k
        PROVE  \E m \in 1..Len(l) : r[i] = l[m] /\ ((m = i /\ i < k) \/ (m = i - 1 /\ i > k))
    <2>1. CASE i < k
      <3>1. i \in 1..(k - 1) /\ i \in 1..Len(l)  BY <1>1, <2>1
      <3> QED  BY <2>1, <3>1 DEF PutIn
    <2>2. CASE i > k
      <3>1. i \in (k + 1)..Len(r) /\ i - 1 \in 1..Len(l)  BY <1>1, <2>2
      <3> QED  BY <2>2, <3>1 DEF PutIn
    <2> QED  BY <1>1, <1>2, <2>1, <2>2
  <1>3. ASSUME NEW m \in 1..Len(l) PROVE \E i \in 1..Len(r) : r[i] = l[m]
    <2>1. CASE m < k
      <3>1. m \in 1..(k - 1) /\ m \in 1..Len(r)  BY <1>1, <2>1
      <3> QED  BY <3>1 DEF PutIn
    <2>2. CASE ~(m < k)
      <3>1. m + 1 \in (k + 1)..Len(r) /\ m + 1 \in 1..Len(r) /\ (m + 1) - 1 = m  BY <1>1, <2>2
      <3>2. r[m + 1] = l[m]  BY <3>1 DEF PutIn
      <3> QED  BY <3>1, <3>2
    <2> QED  BY <2>1, <2>2
  <1> QED  BY <1>1, <1>2, <1>3

(* Where the elements of a shortened list come from. *)
LEMMA OutFrom ==
  ASSUME NEW l \in Seq(Timeo), NEW r, NEW k, TakenOut(l, r, k)
  PROVE  /\ Len(l) \in Nat /\ Len(r) = Len(l) - 1 /\ k \in 1..Len(l)
         /\ \A i \in 1..Len(r) :
              \E m \in 1..Len(l) : r[i] = l[m] /\ ((m = i /\ i < k) \/ (m = i + 1 /\ i >= k))
         /\ \A m \in 1..Len(l) : m # k => \E i \in 1..Len(r) : r[i] = l[m]
  <1>1. Len(l) \in Nat /\ Len(r) = Len(l) - 1 /\ k \in 1..Len(l)
    BY LenProperties DEF TakenOut
  <1>2. ASSUME NEW i \in 1..Len(r)
        PROVE  \E m \in 1..Len(l) : r[i] = l[m] /\ ((m = i /\ i < k) \/ (m = i + 1 /\ i >= k))
    <2>1. CASE i < k
      <3>1. i \in 1..(k - 1) /\ i \in 1..Len(l)  BY <1>1, <2>1
      <3> QED  BY <2>1, <3>1 DEF TakenOut
    <2>2. CASE ~(i < k)
      <3>1. i \in k..Len(r) /\ i + 1 \in 1..Len(l) /\ i >= k  BY <1>1, <2>2
      <3> QED  BY <3>1 DEF TakenOut
    <2> QED  BY <2>1, <2>2
  <1>3. ASSUME NEW m \in 1..Len(l), m # k PROVE \E i \in 1..Len(r) : r[i] = l[m]
    <2>1. CASE m < k
      <3>1. m \in 1..(k - 1) /\ m \in 1..Len(r)  BY <1>1, <2>1
      <3> QED  BY <3>1 DEF TakenOut
    <2>2. CASE m > k
      <3>1. m - 1 \in k..Len(r) /\ m - 1 \in 1..Len(r) /\ (m - 1) + 1 = m  BY <1>1, <2>2
      <3>2. r[m - 1] = l[m]  BY <3>1 DEF TakenOut
      <3> QED  BY <3>1, <3>2
    <2> QED  BY <1>1, <1>3, <2>1, <2>2
  <1> QED  BY <1>1, <1>2, <1>3

(* The timers of a list with one more. *)
LEMMA PutTimers ==
  ASSUME NEW l \in Seq(Timeo), Distinct(l), NEW r, NEW k, NEW e, PutIn(l, r, k, e), e.timer \notin Timers(l)
  PROVE  Timers(r) = Timers(l) \cup {e.timer} /\ Distinct(r)
  <1>1. /\ Len(l) \in Nat /\ Len(r) = Len(l) + 1 /\ k \in 1..Len(r) /\ r[k] = e
        /\ \A i \in 1..Len(r) : i # k =>
             \E m \in 1..Len(l) : r[i] = l[m] /\ ((m = i /\ i < k) \/ (m = i - 1 /\ i > k))
        /\ \A m \in 1..Len(l) : \E i \in 1..Len(r) : r[i] = l[m]
    BY PutFrom
  <1>2. Timers(r) = Timers(l) \cup {e.timer}
    <2>1. ASSUME NEW t \in Timers(r) PROVE t \in Timers(l) \cup {e.timer}
      <3>1. PICK i \in 1..Len(r) : t = r[i].timer  BY DEF Timers
      <3>2. CASE i = k  BY <1>1, <3>1, <3>2
      <3>3. CASE i # k
        <4>1. PICK m \in 1..Len(l) : r[i] = l[m]  BY <1>1, <3>3
        <4> QED  BY <3>1, <4>1 DEF Timers
      <3> QED  BY <3>2, <3>3
    <2>2. Timers(l) \subseteq Timers(r)  BY <1>1 DEF Timers
    <2>3. e.timer \in Timers(r)  BY <1>1 DEF Timers
    <2> QED  BY <2>1, <2>2, <2>3
  <1>3. ASSUME NEW i \in 1..Len(r), NEW j \in 1..Len(r), r[i].timer = r[j].timer PROVE i = j
    <2>1. CASE i = k \/ j = k  BY <1>1, <1>3, <2>1 DEF Timers
    <2>2. CASE i # k /\ j # k
      <3>1. PICK m \in 1..Len(l) : r[i] = l[m] /\ ((m = i /\ i < k) \/ (m = i - 1 /\ i > k))  BY <1>1, <2>2
      <3>2. PICK n \in 1..Len(l) : r[j] = l[n] /\ ((n = j /\ j < k) \/ (n = j - 1 /\ j > k))  BY <1>1, <2>2
      <3>3. m = n  BY <1>3, <3>1, <3>2 DEF Distinct
      <3> QED  BY <1>1, <3>1, <3>2, <3>3
    <2> QED  BY <2>1, <2>2
  <1> QED  BY <1>2, <1>3 DEF Distinct

(* The timers of a list with one fewer. *)
LEMMA OutTimers ==
  ASSUME NEW l \in Seq(Timeo), Distinct(l), NEW r, NEW k, TakenOut(l, r, k)
  PROVE  Timers(r) = Timers(l) \ {l[k].timer} /\ Distinct(r)
  <1>1. /\ Len(l) \in Nat /\ Len(r) = Len(l) - 1 /\ k \in 1..Len(l)
        /\ \A i \in 1..Len(r) :
             \E m \in 1..Len(l) : r[i] = l[m] /\ ((m = i /\ i < k) \/ (m = i + 1 /\ i >= k))
        /\ \A m \in 1..Len(l) : m # k => \E i \in 1..Len(r) : r[i] = l[m]
    BY OutFrom
  <1>2. \A i \in 1..Len(r) : \E m \in 1..Len(l) : r[i] = l[m] /\ m # k  BY <1>1
  <1>3. Timers(r) = Timers(l) \ {l[k].timer}
    <2>1. ASSUME NEW t \in Timers(r) PROVE t \in Timers(l) \ {l[k].timer}
      <3>1. PICK i \in 1..Len(r) : t = r[i].timer  BY DEF Timers
      <3>2. PICK m \in 1..Len(l) : r[i] = l[m] /\ m # k  BY <1>2
      <3>3. l[m].timer # l[k].timer  BY <1>1, <3>2 DEF Distinct
      <3> QED  BY <3>1, <3>2, <3>3 DEF Timers
    <2>2. ASSUME NEW t \in Timers(l) \ {l[k].timer} PROVE t \in Timers(r)
      <3>1. PICK m \in 1..Len(l) : t = l[m].timer  BY DEF Timers
      <3>2. m # k  BY <3>1
      <3> QED  BY <1>1, <3>1, <3>2 DEF Timers
    <2> QED  BY <2>1, <2>2
  <1>4. ASSUME NEW i \in 1..Len(r), NEW j \in 1..Len(r), r[i].timer = r[j].timer PROVE i = j
    <2>1. PICK m \in 1..Len(l) : r[i] = l[m] /\ ((m = i /\ i < k) \/ (m = i + 1 /\ i >= k))  BY <1>1
    <2>2. PICK n \in 1..Len(l) : r[j] = l[n] /\ ((n = j /\ j < k) \/ (n = j + 1 /\ j >= k))  BY <1>1
    <2>3. m = n  BY <1>4, <2>1, <2>2 DEF Distinct
    <2> QED  BY <1>1, <2>1, <2>2, <2>3
  <1> QED  BY <1>3, <1>4 DEF Distinct

(* The pool has room for a timer that is not in the list. *)
LEMMA CountTimers ==
  ASSUME NEW l \in Seq(Timeo), Distinct(l)
  PROVE  IsFiniteSet(Timers(l)) /\ Cardinality(Timers(l)) = Len(l)
  <1> DEFINE f == [i \in 1..Len(l) |-> l[i].timer]
  <1>1. Len(l) \in Nat  BY LenProperties
  <1>2. f \in Bijection(1..Len(l), Timers(l))
    BY DEF Distinct, Timers, Bijection, Injection, Surjection, IsInjective
  <1>3. IsFiniteSet(1..Len(l)) /\ Cardinality(1..Len(l)) = Len(l)
    <2>1. 1 \in Int /\ Len(l) \in Int  BY <1>1
    <2>2. Cardinality(1..Len(l)) = (IF 1 > Len(l) THEN 0 ELSE Len(l) - 1 + 1)  BY <2>1, FS_Interval
    <2> QED  BY <1>1, <2>1, <2>2, FS_Interval
  <1>4. ExistsBijection(1..Len(l), Timers(l))  BY <1>2 DEF ExistsBijection
  <1> QED  BY <1>3, <1>4, FS_Bijection

(* A timer that is not in the list finds an entry in the pool. *)
LEMMA PoolHasRoom ==
  ASSUME NEW l \in Seq(Timeo), Distinct(l), NEW tm \in Timer, tm \notin Timers(l)
  PROVE  Len(l) < PoolSize
  <1>1. Timers(l) \subseteq Timer
    <2>1. \A i \in 1..Len(l) : l[i] \in Timeo  BY ElementOfSeq
    <2> QED  BY <2>1 DEF Timers, Timeo
  <1>2. IsFiniteSet(Timer) /\ PoolSize \in Nat /\ Cardinality(Timer) <= PoolSize  BY PoolAssumption
  <1>3. Cardinality(Timers(l)) <= Cardinality(Timer) /\ Timers(l) # Timer
         /\ (Cardinality(Timers(l)) = Cardinality(Timer) => Timers(l) = Timer)
    BY <1>1, <1>2, FS_Subset
  <1>4. Cardinality(Timers(l)) = Len(l) /\ Len(l) \in Nat /\ Cardinality(Timer) \in Nat
    BY <1>2, CountTimers, LenProperties, FS_CardinalityType
  <1> QED  BY <1>2, <1>3, <1>4

-----------------------------------------------------------------------------
(***************************************************************************)
(* No timer is lost, whatever the clock says.                              *)
(***************************************************************************)
ListInv ==
  /\ ticks \in U32 /\ due \in U32 /\ list \in Seq(Timeo)
  /\ pc \in {"again", "wait", "start", "check", "handler"}
  /\ cur \in Cyclic \cup {TcpTmr, None} /\ (cur # None <=> pc = "handler")
  /\ tcpActive \in BOOLEAN /\ pcbs \in BOOLEAN
  /\ Distinct(list) /\ cur \notin Pending
  /\ Cyclic \subseteq Running /\ (TcpTmr \in Running <=> tcpActive) /\ (pcbs => tcpActive)

(* Pending, as a function of the list. *)
LEMMA PendingIs == Pending = Timers(list) /\ Pending' = Timers(list')
  BY DEF Pending, Timers

(* The word is at least 4 wide. *)
LEMMA WordIs ==
  /\ Word \in Nat /\ Word \div 4 \in Nat \ {0} /\ Word = 4 * (Word \div 4) /\ Word # 0
  /\ \A x \in Int : x % Word \in U32
  /\ \A tm \in Timer : Interval[tm] \in Nat \ {0} /\ Interval[tm] <= Word \div 4 /\ Interval[tm] \in U32
  <1>1. Word \in Nat /\ Word % 4 = 0  BY ClockAssumption
  <1>2. TcpTmr \in Timer  BY DEF Timer
  <1>3. Interval[TcpTmr] \in 1..(Word \div 4)  BY <1>2, IntervalAssumption
  <1>4. Word \div 4 \in Nat /\ Word = 4 * (Word \div 4)  BY <1>1
  <1> DEFINE q == Word \div 4
  <1> HIDE DEF q
  <1>5. q \in Nat \ {0} /\ Word = 4 * q  BY <1>3, <1>4 DEF q
  <1>6. Word # 0 /\ q <= Word - 1  BY <1>5
  <1>7. \A x \in Int : x % Word \in U32  BY <1>1, <1>6 DEF U32
  <1>8. ASSUME NEW tm \in Timer PROVE Interval[tm] \in Nat \ {0} /\ Interval[tm] <= q /\ Interval[tm] \in U32
    <2>1. Interval[tm] \in 1..q  BY IntervalAssumption DEF q
    <2> QED  BY <1>1, <1>5, <1>6, <2>1 DEF U32
  <1> QED  BY <1>1, <1>5, <1>6, <1>7, <1>8 DEF q

(* sys_now is a word. *)
LEMMA SysNowIs ==
  ASSUME ticks \in U32
  PROVE  SysNow \in U32 /\ SysNow \in Nat
  <1> DEFINE p == (ticks * MsPerSec) % Word
  <1>1. ticks * MsPerSec \in Int  BY WordIs, ClockAssumption DEF U32
  <1>2. p \in U32  BY <1>1, WordIs
  <1> HIDE DEF p
  <1>3. p \in Nat /\ p <= Word - 1 /\ Hz \in Nat \ {0} /\ Word \in Nat  BY <1>2, WordIs, ClockAssumption DEF U32
  <1>4. p \div Hz \in Nat /\ p \div Hz <= p
    <2>1. p \div Hz \in Nat /\ p = Hz * (p \div Hz) + (p % Hz) /\ p % Hz \in Nat  BY <1>3
    <2> DEFINE d == p \div Hz
    <2> HIDE DEF d
    <2>2. d \in Nat /\ Hz * d <= p  BY <1>3, <2>1 DEF d
    <2>3. d <= Hz * d  BY <1>3, <2>2
    <2>4. Hz * d \in Nat  BY <1>3, <2>2
    <2>5. d <= p  BY <1>3, <2>2, <2>3, <2>4
    <2> QED  BY <2>2, <2>5 DEF d
  <1>5. SysNow = p \div Hz  BY DEF SysNow, p
  <1> QED  BY <1>3, <1>4, <1>5 DEF U32

(* Arming a timer that is not in the list never fails for want of an entry. *)
LEMMA ArmIs ==
  ASSUME ListInv, NEW tm \in Timer, tm \notin Pending, NEW at \in Int, Arm(tm, at)
  PROVE  \E k \in 1..(Len(list) + 1) :
           /\ PutIn(list, list', k, [timer |-> tm, time |-> at % Word])
           /\ \A i \in 1..(k - 1) : ~TimeLessThan(at % Word, list[i].time)
           /\ k <= Len(list) => TimeLessThan(at % Word, list[k].time)
  <1> DEFINE e == [timer |-> tm, time |-> at % Word]
  <1>1. list \in Seq(Timeo) /\ Distinct(list) /\ tm \notin Timers(list)  BY PendingIs DEF ListInv
  <1>2. Len(list) < PoolSize  BY <1>1, PoolHasRoom
  <1>3. list' = Insert(list, e)  BY <1>2 DEF Arm, PoolUsed
  <1>4. e \in Timeo /\ e.time = at % Word  BY WordIs DEF Timeo
  <1> HIDE DEF e
  <1>5. \E k \in 1..(Len(list) + 1) :
           /\ PutIn(list, Insert(list, e), k, e)
           /\ \A i \in 1..(k - 1) : ~TimeLessThan(e.time, list[i].time)
           /\ k <= Len(list) => TimeLessThan(e.time, list[k].time)
    BY <1>1, <1>4, InsertIs
  <1> QED  BY <1>3, <1>4, <1>5 DEF e

(* Arming a timer adds it to the list, once. *)
LEMMA ArmAdds ==
  ASSUME ListInv, NEW tm \in Timer, tm \notin Pending, NEW at \in Int, Arm(tm, at)
  PROVE  list' \in Seq(Timeo) /\ Distinct(list') /\ Pending' = Pending \cup {tm}
  <1> DEFINE e == [timer |-> tm, time |-> at % Word]
  <1>1. PICK k \in 1..(Len(list) + 1) : PutIn(list, list', k, e)  BY ArmIs
  <1>2. e.timer = tm  OBVIOUS
  <1> HIDE DEF e
  <1>3. Timers(list') = Timers(list) \cup {tm} /\ Distinct(list')
    BY <1>1, <1>2, PutTimers, PendingIs DEF ListInv
  <1> QED  BY <1>1, <1>3, PendingIs DEF PutIn

(* sys_check_timeouts takes the first timeout off the list. *)
LEMMA FireRemoves ==
  ASSUME ListInv, list # <<>>
  PROVE  /\ Tail(list) \in Seq(Timeo) /\ Distinct(Tail(list)) /\ TakenOut(list, Tail(list), 1)
         /\ list[1] \in Timeo /\ list[1].timer \in Pending /\ Len(list) \in Nat \ {0}
         /\ Timers(Tail(list)) = Pending \ {list[1].timer}
  <1>1. list \in Seq(Timeo) /\ Distinct(list)  BY DEF ListInv
  <1>2. TakenOut(list, Tail(list), 1)  BY <1>1, TailIs
  <1>3. Timers(Tail(list)) = Timers(list) \ {list[1].timer} /\ Distinct(Tail(list))
    BY <1>1, <1>2, OutTimers
  <1>4. Len(list) \in Nat \ {0} /\ 1 \in 1..Len(list)  BY <1>1, EmptySeq
  <1>5. list[1] \in Timeo /\ list[1].timer \in Timers(list)  BY <1>1, <1>4, ElementOfSeq DEF Timers
  <1> QED  BY <1>2, <1>3, <1>4, <1>5, PendingIs DEF TakenOut

(* sys_timeouts_init: every cyclic timer is in the list, once. *)
LEMMA InitList ==
  ASSUME Init
  PROVE  /\ list \in Seq(Timeo) /\ Distinct(list) /\ Pending = Cyclic
         /\ \A i \in 1..Len(list) : list[i].timer \in Cyclic /\ list[i].time = Interval[list[i].timer]
         /\ \A i, j \in 1..Len(list) : i < j => list[i].time <= list[j].time
  <1> DEFINE S == {[timer |-> c, time |-> Interval[c]] : c \in Cyclic}
             n == Cardinality(S)
             g == [c \in Cyclic |-> [timer |-> c, time |-> Interval[c]]]
  <1>1. IsFiniteSet(Cyclic)
    <2>1. IsFiniteSet(Timer) /\ Cyclic \in SUBSET Timer  BY PoolAssumption DEF Timer
    <2> QED  BY <2>1, FS_Subset
  <1>2. IsFiniteSet(S)
    <2>1. g \in Surjection(Cyclic, S)  BY DEF Surjection
    <2> HIDE DEF g, S
    <2> QED  BY <1>1, <2>1, FS_Surjection DEF ExistsSurjection
  <1>3. n \in Nat
    <2> HIDE DEF S
    <2> QED  BY <1>2, FS_CardinalityType
  <1>4. list \in SetToSeqs(S) /\ \A i, j \in DOMAIN list : i < j => list[i].time <= list[j].time
    BY DEF Init
  <1>5. list \in [1..n -> S] /\ \A i, j \in 1..n : i # j => list[i] # list[j]
    <2> HIDE DEF S
    <2> QED  BY <1>4 DEF SetToSeqs
  <1>6. S \in SUBSET Timeo
    <2>1. \A c \in Cyclic : c \in Timer /\ Interval[c] \in U32  BY WordIs DEF Timer
    <2> QED  BY <2>1 DEF Timeo
  <1>7. \A s \in S : s.timer \in Cyclic /\ s.time = Interval[s.timer] /\ s = [timer |-> s.timer, time |-> Interval[s.timer]]
    OBVIOUS
  <1>8. \A c \in Cyclic : \E s \in S : s.timer = c
    <2> TAKE c \in Cyclic
    <2>1. [timer |-> c, time |-> Interval[c]] \in S  OBVIOUS
    <2>2. [timer |-> c, time |-> Interval[c]].timer = c  OBVIOUS
    <2> HIDE DEF S
    <2> QED  BY <2>1, <2>2
  <1> HIDE DEF S, n, g
  <1>9. list \in Seq(Timeo) /\ Len(list) = n /\ DOMAIN list = 1..n
    BY <1>3, <1>5, <1>6
  <1>10. \A i \in 1..n : list[i] \in S  BY <1>5
  <1>11. Distinct(list)
    <2> SUFFICES ASSUME NEW i \in 1..n, NEW j \in 1..n, list[i].timer = list[j].timer PROVE i = j
      BY <1>9 DEF Distinct
    <2>1. list[i] = list[j]  BY <1>7, <1>10
    <2> QED  BY <1>5, <2>1
  <1>12. {list[i] : i \in 1..n} = S
    <2> DEFINE R == {list[i] : i \in 1..n}
    <2>1. R \in SUBSET S  BY <1>10
    <2>2. list \in Bijection(1..n, R)
      BY <1>5 DEF Bijection, Injection, Surjection, IsInjective
    <2>3. IsFiniteSet(1..n) /\ Cardinality(1..n) = n
      <3>1. Cardinality(1..n) = (IF 1 > n THEN 0 ELSE n - 1 + 1)  BY <1>3, FS_Interval
      <3> QED  BY <1>3, <3>1, FS_Interval
    <2> HIDE DEF R
    <2>4. Cardinality(R) = n  BY <2>2, <2>3, FS_Bijection DEF ExistsBijection
    <2>5. R = S  BY <1>2, <2>1, <2>4, FS_Subset DEF n
    <2> QED  BY <2>5 DEF R
  <1>13. Pending = Cyclic
    <2>1. Pending = {list[i].timer : i \in 1..n}  BY <1>9 DEF Pending
    <2>2. Pending \subseteq Cyclic  BY <1>7, <1>10, <2>1
    <2>3. ASSUME NEW c \in Cyclic PROVE c \in Pending
      <3>1. PICK s \in S : s.timer = c  BY <1>8
      <3>2. PICK i \in 1..n : list[i] = s  BY <1>12
      <3> QED  BY <2>1, <3>1, <3>2
    <2> QED  BY <2>2, <2>3
  <1> QED  BY <1>4, <1>7, <1>9, <1>10, <1>11, <1>13

(* sys_timeouts_init establishes the invariant. *)
LEMMA ListInvInit ==
  ASSUME Init
  PROVE  ListInv
  <1>1. list \in Seq(Timeo) /\ Distinct(list) /\ Pending = Cyclic  BY InitList
  <1>2. None \notin Timer /\ TcpTmr \notin Cyclic  BY PoolAssumption
  <1>3. None \notin Cyclic /\ TcpTmr # None  BY <1>2 DEF Timer
  <1>4. 0 \in U32  BY WordIs DEF U32
  <1>5. Running = Cyclic  BY <1>1 DEF Running, Init
  <1> QED  BY <1>1, <1>2, <1>3, <1>4, <1>5 DEF Init, ListInv

(* Every step keeps it, whatever the clock does. *)
LEMMA ListInvStep ==
  ASSUME ListInv, [Next]_vars
  PROVE  ListInv'
  <1>1. None \notin Timer /\ TcpTmr \notin Cyclic \cup OneShot /\ Cyclic \cap OneShot = {}  BY PoolAssumption
  <1>2. Cyclic \subseteq Timer /\ TcpTmr \in Timer /\ OneShot \subseteq Timer /\ None \notin Cyclic /\ TcpTmr # None
        /\ None \notin OneShot
    BY <1>1 DEF Timer
  <1>3. SysNow \in Nat /\ due \in Nat /\ \A tm \in Timer : Interval[tm] \in Nat
    <2>1. ticks \in U32 /\ due \in U32  BY DEF ListInv
    <2>2. SysNow \in Nat  BY <2>1, SysNowIs
    <2>3. due \in Nat  BY <2>1 DEF U32
    <2> QED  BY <2>2, <2>3, WordIs
  <1>4. ASSUME UNCHANGED <<list, cur, tcpActive, pcbs, due>>, ticks' \in U32,
               pc' \in {"again", "wait", "start", "check", "handler"}, pc' = "handler" <=> pc = "handler"
        PROVE  ListInv'
    BY <1>4 DEF ListInv, Running, Pending
  <1>5. CASE Tick
    <2>1. ticks' \in U32
      <3>1. ticks + 1 \in Int  BY WordIs DEF ListInv, U32
      <3> QED  BY <1>5, <3>1, WordIs DEF Tick
    <2> QED  BY <1>4, <1>5, <2>1 DEF Tick, ListInv, tcp
  <1>6. CASE Post \/ Again \/ FetchMsg \/ FetchTimeout \/ CheckStart \/ CheckDone
    BY <1>4, <1>6 DEF Post, Again, FetchMsg, FetchTimeout, CheckStart, CheckDone, ListInv, tcp
  <1>7. CASE CheckFire
    <2>1. list # <<>> /\ pc = "check" /\ list' = Tail(list) /\ due' = list[1].time
           /\ UNCHANGED <<ticks, tcpActive, pcbs>>
      BY <1>7 DEF CheckFire, Expired, tcp
    <2>2. /\ list' \in Seq(Timeo) /\ Distinct(list') /\ list[1].timer \in Pending
          /\ Pending' = Pending \ {list[1].timer} /\ list[1] \in Timeo
      BY <2>1, FireRemoves, PendingIs
    <2>3. due' \in U32 /\ list[1].timer \in Timer  BY <2>1, <2>2 DEF Timeo
    <2>4. cur = None  BY <2>1 DEF ListInv
    <2>5. Running = Pending  BY <2>4 DEF Running
    <2>6. CASE list[1].timer \in Cyclic \cup {TcpTmr} /\ cur' = list[1].timer /\ pc' = "handler"
      <3>1. Running' = Running  BY <1>2, <2>2, <2>5, <2>6 DEF Running
      <3> QED  BY <1>2, <2>1, <2>2, <2>3, <2>6, <3>1 DEF ListInv
    <2>7. CASE list[1].timer \in OneShot /\ UNCHANGED <<cur, pc>>
      <3>1. Running' = Running \ {list[1].timer}  BY <2>2, <2>4, <2>5, <2>7 DEF Running
      <3>2. None \notin Pending'  BY <2>2, <2>4 DEF ListInv
      <3> QED  BY <1>1, <1>2, <2>1, <2>2, <2>3, <2>4, <2>7, <3>1, <3>2 DEF ListInv
    <2> QED  BY <1>7, <2>6, <2>7 DEF CheckFire
  <1>8. ASSUME NEW tm \in Timer, tm \notin Pending, NEW at \in Int, Arm(tm, at), UNCHANGED <<ticks, due>>,
               cur' = None, pc' \in {"again", "wait", "start", "check"}, tm = cur \/ cur = None,
               pcbs' \in BOOLEAN, tcpActive' \in BOOLEAN, pcbs' => tcpActive',
               tcpActive' = (tcpActive \/ tm = TcpTmr)
        PROVE  ListInv'
    <2>1. list' \in Seq(Timeo) /\ Distinct(list') /\ Pending' = Pending \cup {tm}  BY <1>8, ArmAdds
    <2>2. Running' = Running \cup {tm}  BY <1>1, <1>8, <2>1 DEF Running
    <2>3. None \notin Pending'
      <3>1. \A i \in 1..Len(list') : list'[i] \in Timeo  BY <2>1, ElementOfSeq
      <3> QED  BY <1>1, <3>1 DEF Pending, Timeo
    <2> QED  BY <1>2, <1>8, <2>1, <2>2, <2>3 DEF ListInv
  <1>9. CASE CyclicRearm
    <2>1. PICK at \in Int : Arm(cur, at)
      <3>1. cur \in Timer  BY <1>2, <1>9 DEF CyclicRearm
      <3>2. (IF Overload THEN SysNow + Interval[cur] ELSE due + Interval[cur]) \in Int  BY <1>3, <3>1
      <3> QED  BY <1>9, <3>2 DEF CyclicRearm
    <2>2. cur \in Timer /\ cur # TcpTmr /\ UNCHANGED <<ticks, due, tcpActive, pcbs>> /\ cur' = None /\ pc' = "check"
      BY <1>1, <1>2, <1>9 DEF CyclicRearm, tcp
    <2> QED  BY <1>8, <2>1, <2>2 DEF ListInv
  <1>10. CASE TcpTimer
    <2>1. PICK more \in {pcbs, FALSE} :
            /\ pcbs' = more /\ tcpActive' = more
            /\ IF more THEN Arm(TcpTmr, SysNow + Interval[TcpTmr]) ELSE UNCHANGED list
      BY <1>10 DEF TcpTimer, TcpTimerStops
    <2>2. cur = TcpTmr /\ UNCHANGED <<ticks, due>> /\ cur' = None /\ pc' = "check" /\ pc = "handler"
      BY <1>10 DEF TcpTimer
    <2>3. CASE more
      <3>1. SysNow + Interval[TcpTmr] \in Int  BY <1>2, <1>3
      <3>2. tcpActive' = TRUE /\ pcbs' = TRUE /\ pcbs  BY <2>1, <2>3 DEF ListInv
      <3> QED  BY <1>2, <1>8, <2>1, <2>2, <2>3, <3>1, <3>2 DEF ListInv
    <2>4. CASE ~more
      <3>1. UNCHANGED list /\ pcbs' = FALSE /\ tcpActive' = FALSE  BY <2>1, <2>4 DEF ListInv
      <3>2. Pending' = Pending /\ Running' = Pending  BY <2>2, <3>1 DEF Running, Pending
      <3>3. TcpTmr \notin Pending /\ Cyclic \subseteq Pending  BY <1>1, <2>2 DEF ListInv, Running
      <3>4. None \notin Pending
        <4>1. \A i \in 1..Len(list) : list[i] \in Timeo  BY ElementOfSeq DEF ListInv
        <4> QED  BY <1>1, <4>1 DEF Pending, Timeo
      <3> QED  BY <2>2, <3>1, <3>2, <3>3, <3>4 DEF ListInv
    <2> QED  BY <2>3, <2>4
  <1>11. ASSUME NEW tm \in OneShot, SysTimeout(tm) PROVE ListInv'
    <2>1. SysNow + Interval[tm] \in Int /\ tm # TcpTmr  BY <1>1, <1>2, <1>3
    <2>2. tm \notin Pending /\ Arm(tm, SysNow + Interval[tm])
          /\ UNCHANGED <<ticks, due, pc, cur, tcpActive, pcbs>> /\ pc \in {"wait", "again", "check"}
      BY <1>11 DEF SysTimeout, CoreCall, tcp
    <2>3. cur = None  BY <2>2 DEF ListInv
    <2> QED  BY <1>2, <1>8, <2>1, <2>2, <2>3 DEF ListInv
  <1>12. ASSUME NEW tm \in OneShot, SysUntimeout(tm) PROVE ListInv'
    <2>1. /\ tm \in Pending /\ list' = RemoveFirstMatch(list, LAMBDA x : x.timer = tm)
          /\ UNCHANGED <<ticks, due, pc, cur, tcpActive, pcbs>> /\ pc \in {"wait", "again", "check"}
      BY <1>12 DEF SysUntimeout, CoreCall, tcp
    <2>2. \E i \in 1..Len(list) : list[i].timer = tm  BY <2>1 DEF Pending
    <2>3. PICK k \in 1..Len(list) : list[k].timer = tm /\ TakenOut(list, list', k)
      BY <2>1, <2>2, RemoveIs DEF ListInv
    <2>4. list' \in Seq(Timeo) /\ Distinct(list') /\ Pending' = Pending \ {tm}
      BY <2>3, OutTimers, PendingIs DEF ListInv, TakenOut
    <2>5. cur = None /\ Running' = Running \ {tm}  BY <2>1, <2>4 DEF ListInv, Running
    <2> QED  BY <1>1, <2>1, <2>4, <2>5 DEF ListInv
  <1>13. CASE TcpReg
    <2>1. pcbs' = TRUE /\ tcpActive' = TRUE /\ UNCHANGED <<ticks, due, pc, cur>> /\ pc \in {"wait", "again", "check"}
      BY <1>13 DEF TcpReg, CoreCall
    <2>2. cur = None  BY <2>1 DEF ListInv
    <2>3. CASE tcpActive
      <3>1. UNCHANGED list  BY <1>13, <2>3 DEF TcpReg
      <3> QED  BY <2>1, <2>3, <3>1 DEF ListInv, Running, Pending
    <2>4. CASE ~tcpActive
      <3>1. Arm(TcpTmr, SysNow + Interval[TcpTmr])  BY <1>13, <2>4 DEF TcpReg
      <3>2. SysNow + Interval[TcpTmr] \in Int  BY <1>2, <1>3
      <3>3. TcpTmr \notin Pending  BY <2>4 DEF ListInv, Running
      <3> QED  BY <1>2, <1>8, <2>1, <2>2, <2>4, <3>1, <3>2, <3>3
    <2> QED  BY <2>3, <2>4 DEF ListInv
  <1>14. CASE TcpRmv
    BY <1>14 DEF TcpRmv, ListInv, Running, Pending
  <1>15. CASE UNCHANGED vars
    BY <1>15 DEF vars, ListInv, Running, Pending
  <1> QED
    BY <1>5, <1>6, <1>7, <1>9, <1>10, <1>11, <1>12, <1>13, <1>14, <1>15 DEF Next, ThreadStep

(* The timeout list and the TCP timer flag agree for ever, on any clock (timeouts.c, lines 137-221). *)
THEOREM ListInvariant == Spec => []ListInv
  <1>1. Init => ListInv  BY ListInvInit
  <1>2. ListInv /\ [Next]_vars => ListInv'  BY ListInvStep
  <1> QED  BY <1>1, <1>2, PTL DEF Spec

(* What the invariant says of a single state. *)
LEMMA ListInvLosesNone ==
  ASSUME ListInv
  PROVE  NoTimerLost
  <1>1. Cardinality(Pending) = Len(list)  BY CountTimers, PendingIs DEF ListInv
  <1> QED  BY <1>1 DEF ListInv, NoTimerLost

(* The stack's timers stay in the list, each once, or in their handler, and
   the TCP timer exactly while its flag says so: the pool never runs dry, on
   whatever clock and however late the thread is (timeouts.c, lines 136-190). *)
THEOREM TimersNeverLost == Spec => []NoTimerLost
  BY ListInvariant, ListInvLosesNone, PTL

-----------------------------------------------------------------------------
(***************************************************************************)
(* The clock.                                                              *)
(***************************************************************************)
Longest == Quarter - MaxLate   \* the longest interval with a margin for lateness

(* A tick moves sys_now on by the length of a tick. *)
KeepsTime == Tick => SysNow' = (SysNow + TickMs) % Word

(* x and y are the same time modulo the word. *)
Cong(x, y) == \E k \in Int : x = y + k * Word

(* The remainder is the only number of the word that differs by a multiple. *)
LEMMA ModIs ==
  ASSUME NEW x \in Int, NEW k \in Int, NEW r \in 0..(Word - 1), x = r + k * Word
  PROVE  x % Word = r
  <1>1. Word \in Nat \ {0}  BY WordIs
  <1> DEFINE d == x \div Word
             m == x % Word
  <1>2. d \in Int /\ m \in 0..(Word - 1) /\ x = Word * d + m  BY <1>1
  <1> HIDE DEF d, m
  <1>3. PICK j \in Int : j = k - d  BY <1>2
  <1>4. Word * j = m - r
    <2>1. Word * (k - d) = Word * k - Word * d  BY <1>1, <1>2
    <2>2. k * Word = Word * k  BY <1>1
    <2> QED  BY <1>1, <1>2, <1>3, <2>1, <2>2
  <1>5. CASE j = 0  BY <1>1, <1>2, <1>4, <1>5 DEF m
  <1>6. CASE j >= 1
    <2>1. Word * j >= Word  BY <1>1, <1>6
    <2> QED  BY <1>1, <1>2, <1>4, <2>1
  <1>7. CASE j <= -1
    <2>1. Word * j <= -Word  BY <1>1, <1>7
    <2> QED  BY <1>1, <1>2, <1>4, <2>1
  <1> QED  BY <1>5, <1>6, <1>7

(* Reducing modulo the word does not change the time. *)
LEMMA CongMod ==
  ASSUME NEW x \in Int
  PROVE  Cong(x % Word, x)
  <1>1. Word \in Nat \ {0}  BY WordIs
  <1> DEFINE d == x \div Word
             m == x % Word
  <1>2. d \in Int /\ m \in Int /\ x = Word * d + m  BY <1>1
  <1> HIDE DEF d, m
  <1>3. m = x + (-d) * Word /\ -d \in Int
    <2>1. (-d) * Word = -(Word * d)  BY <1>1, <1>2
    <2> QED  BY <1>1, <1>2, <2>1
  <1>4. Cong(m, x)  BY <1>3 DEF Cong
  <1> QED  BY <1>4 DEF m

(* Times of the word can be shifted. *)
LEMMA CongShift ==
  ASSUME NEW x \in Int, NEW y \in Int, NEW n \in Int, Cong(x, y)
  PROVE  Cong(x + n, y + n)
  BY WordIs DEF Cong

(* A time is the same as itself. *)
LEMMA CongSame ==
  ASSUME NEW x \in Int
  PROVE  Cong(x, x)
  <1>1. x = x + 0 * Word  BY WordIs
  <1> QED  BY <1>1 DEF Cong

(* Two times that are the same as a third are the same. *)
LEMMA CongTrans ==
  ASSUME NEW x \in Int, NEW y \in Int, NEW z \in Int, Cong(x, y), Cong(y, z) \/ Cong(z, y)
  PROVE  Cong(x, z)
  <1>0. Word \in Nat  BY WordIs
  <1>1. PICK k \in Int : x = y + k * Word  BY DEF Cong
  <1>2. CASE Cong(y, z)
    <2>1. PICK j \in Int : y = z + j * Word  BY <1>2 DEF Cong
    <2>2. (k + j) * Word = k * Word + j * Word  BY <1>0
    <2>3. x = z + (k + j) * Word  BY <1>0, <1>1, <2>1, <2>2
    <2> QED  BY <2>3 DEF Cong
  <1>3. CASE Cong(z, y)
    <2>1. PICK j \in Int : z = y + j * Word  BY <1>3 DEF Cong
    <2>2. (k - j) * Word = k * Word - j * Word  BY <1>0
    <2>3. x = z + (k - j) * Word  BY <1>0, <1>1, <2>1, <2>2
    <2> QED  BY <2>3 DEF Cong
  <1> QED  BY <1>2, <1>3

(* TIME_LESS_THAN compares two times of the clock rightly if they are less
   than half the word apart. *)
LEMMA LessIs ==
  ASSUME NEW t \in Int, NEW c \in Int, NEW s \in Int, NEW a \in Int, NEW b \in Int,
         Cong(t, s + a), Cong(c, s + b), a - b < 2 * Quarter, b - a <= 2 * Quarter
  PROVE  TimeLessThan(t, c) <=> a < b
  <1>1. Word \in Nat /\ Quarter \in Nat \ {0} /\ Word = 4 * Quarter /\ Word \div 2 = 2 * Quarter
    <2>1. Quarter \in Nat \ {0} /\ Word = 4 * Quarter  BY WordIs DEF Quarter
    <2> HIDE DEF Quarter
    <2>2. (4 * Quarter) \div 2 = 2 * Quarter  BY <2>1
    <2> QED  BY <2>1, <2>2
  <1>2. PICK i \in Int : t = s + a + i * Word  BY DEF Cong
  <1>3. PICK j \in Int : c = s + b + j * Word  BY DEF Cong
  <1> HIDE DEF Quarter
  <1>4. t - c = (a - b) + (i - j) * Word
    <2>1. (i - j) * Word = i * Word - j * Word  BY <1>1
    <2> QED  BY <1>1, <1>2, <1>3, <2>1
  <1>5. CASE a >= b
    <2>1. a - b \in 0..(Word - 1)  BY <1>1, <1>5
    <2>2. (t - c) % Word = a - b  BY <1>4, <2>1, ModIs
    <2> QED  BY <1>1, <1>5, <2>2 DEF TimeLessThan
  <1>6. CASE a < b
    <2>1. (a - b) + Word \in 0..(Word - 1)  BY <1>1, <1>6
    <2>2. t - c = ((a - b) + Word) + (i - j - 1) * Word
      <3>1. (i - j - 1) * Word = (i - j) * Word - Word  BY <1>1
      <3> QED  BY <1>1, <1>4, <3>1
    <2>3. (t - c) % Word = (a - b) + Word  BY <2>1, <2>2, ModIs
    <2> QED  BY <1>1, <1>6, <2>3 DEF TimeLessThan
  <1> QED  BY <1>5, <1>6

(* What the margin gives, in the form the proofs use. *)
LEMMA MarginIs ==
  ASSUME Margin
  PROVE  /\ Quarter \in Nat \ {0} /\ Word = 4 * Quarter /\ MaxLate \in Nat \ {0} /\ TickMs \in Nat \ {0}
         /\ TickMs <= MaxLate /\ Longest \in Nat \ {0} /\ Longest + MaxLate = Quarter
         /\ \A tm \in Timer : Interval[tm] \in Nat \ {0} /\ Interval[tm] <= Longest
  <1>1. Quarter \in Nat \ {0} /\ Word = 4 * Quarter  BY WordIs DEF Quarter
  <1>2. TickMs \in Nat \ {0}
    <2>1. Hz \in Nat \ {0} /\ MsPerSec \in Nat \ {0} /\ MsPerSec % Hz = 0  BY ClockAssumption
    <2>2. MsPerSec \div Hz \in Nat /\ MsPerSec = Hz * (MsPerSec \div Hz)  BY <2>1
    <2>3. MsPerSec \div Hz # 0  BY <2>1, <2>2
    <2> QED  BY <2>2, <2>3 DEF TickMs
  <1>3. MaxLate \in Nat \ {0} /\ TickMs <= MaxLate  BY <1>2, BoundsAssumption DEF Margin
  <1>4. \A tm \in Timer : Interval[tm] \in Nat \ {0}  BY WordIs
  <1>5. TcpTmr \in Timer  BY DEF Timer
  <1>6. \A tm \in Timer : Interval[tm] + MaxLate <= Quarter  BY DEF Margin
  <1> HIDE DEF Quarter
  <1>7. Longest = Quarter - MaxLate  BY DEF Longest
  <1>8. \A tm \in Timer : Interval[tm] <= Longest  BY <1>1, <1>3, <1>4, <1>6, <1>7
  <1>9. Longest \in Nat \ {0} /\ Longest + MaxLate = Quarter
    <2>1. Interval[TcpTmr] <= Longest /\ Interval[TcpTmr] \in Nat \ {0}  BY <1>4, <1>5, <1>8
    <2> QED  BY <1>1, <1>3, <1>7, <2>1
  <1> QED  BY <1>1, <1>2, <1>3, <1>4, <1>8, <1>9

(***************************************************************************)
(* The invariant speaks of the true time real[tm] until a timer is due,    *)
(* which `left' only follows down to -MaxLate, and of the age of the `now' *)
(* of sys_check_timeouts.                                                  *)
(***************************************************************************)
Clamped(x) == IF x < -MaxLate THEN -MaxLate ELSE x
Dated(l, s, real) == \A i \in 1..Len(l) : Cong(l[i].time, s + real[l[i].timer])
Ordered(l, real) == \A i, j \in 1..Len(l) : i < j => real[l[i].timer] <= real[l[j].timer]

(* Timers that run are at most a quarter of the word away, and a cyclic one
   is never later than the thread. *)
Spans(real) ==
  /\ \A tm \in Running : real[tm] \in -Quarter..Longest /\ left[tm] = Clamped(real[tm])
  /\ \A c \in Cyclic : real[c] >= -MaxLate

(* In a handler: it was not called early. *)
Served(real) == pc = "handler" => Cong(due, SysNow + real[cur]) /\ real[cur] <= 0

(* The thread sleeps no longer than until the cyclic timers are due; what
   another thread has set meanwhile waits at most as long. *)
Asleep(real) ==
  pc = "wait" =>
    /\ wait * TickMs <= Longest
    /\ \A tm \in Pending : real[tm] >= wait * TickMs - Quarter
    /\ wait > 0 => \A c \in Cyclic : real[c] >= wait * TickMs

(* The `now' of sys_check_timeouts is not too old: a cyclic timer that it has
   served is due again before it is. *)
Checking(real, age) ==
  pc \in {"check", "handler"} =>
    /\ Cong(now, SysNow - age)
    /\ \A c \in Cyclic : real[c] + age <= MaxLate + Longest
    /\ cur \in Cyclic => real[cur] + age <= 0

ClockInvOf(real, age) ==
  /\ real \in [Timer -> Int] /\ age \in Nat
  /\ now \in U32 /\ msgs \in 0..MaxMsgs /\ wait \in 0..Longest /\ left \in [Timer -> -MaxLate..Longest]
  /\ Spans(real) /\ Dated(list, SysNow, real) /\ Ordered(list, real)
  /\ Served(real) /\ Asleep(real) /\ Checking(real, age)

ClockInv == \E real \in [Timer -> Int], age \in Nat : ClockInvOf(real, age)

(* The timers in the list. *)
LEMMA ListTimers ==
  ASSUME ListInv, NEW i \in 1..Len(list)
  PROVE  list[i].timer \in Pending /\ list[i].timer \in Running /\ list[i].timer \in Timer
         /\ list[i].time \in U32 /\ list[i].time \in Nat /\ Len(list) \in Nat
  <1>1. list[i] \in Timeo /\ Len(list) \in Nat  BY ElementOfSeq, LenProperties DEF ListInv
  <1> QED  BY <1>1 DEF Pending, Running, Timeo, U32

(* TIME_LESS_THAN on two times within the span. *)
LEMMA SpanLess ==
  ASSUME Margin, NEW s \in Int, NEW a \in -Quarter..Longest, NEW b \in -Quarter..Longest,
         NEW t \in Int, NEW c \in Int, Cong(t, s + a), Cong(c, s + b)
  PROVE  TimeLessThan(t, c) <=> a < b
  <1>1. Quarter \in Nat \ {0} /\ Longest \in Nat /\ MaxLate \in Nat \ {0} /\ Longest + MaxLate = Quarter
    BY MarginIs
  <1>2. a \in Int /\ b \in Int /\ a - b < 2 * Quarter /\ b - a <= 2 * Quarter
    <2> HIDE DEF Quarter, Longest
    <2> QED  BY <1>1
  <1> QED  BY <1>2, LessIs

(* A timer armed for x from now goes to its place in the list. *)
LEMMA ArmKeepsOrder ==
  ASSUME Margin, ListInv, NEW real, NEW age, ClockInvOf(real, age),
         NEW tm \in Timer, tm \notin Pending, NEW at \in Int, Arm(tm, at),
         NEW x \in -Quarter..Longest, Cong(at % Word, SysNow + x)
  PROVE  Dated(list', SysNow, [real EXCEPT ![tm] = x]) /\ Ordered(list', [real EXCEPT ![tm] = x])
  <1> DEFINE e == [timer |-> tm, time |-> at % Word]
             l == list
             r == list'
             f == [real EXCEPT ![tm] = x]
             s == SysNow
  <1>1. PICK k \in 1..(Len(l) + 1) :
          /\ PutIn(l, r, k, e)
          /\ \A i \in 1..(k - 1) : ~TimeLessThan(at % Word, l[i].time)
          /\ k <= Len(l) => TimeLessThan(at % Word, l[k].time)
    BY ArmIs
  <1>2. /\ Len(l) \in Nat /\ Len(r) = Len(l) + 1 /\ k \in 1..Len(r) /\ r[k] = e
        /\ \A i \in 1..Len(r) : i # k =>
             \E m \in 1..Len(l) : r[i] = l[m] /\ ((m = i /\ i < k) \/ (m = i - 1 /\ i > k))
    <2> HIDE DEF e
    <2> QED  BY <1>1, PutFrom DEF ListInv
  <1>3. e.timer = tm /\ e.time = at % Word /\ at % Word \in Int
    <2>1. at % Word \in U32  BY WordIs
    <2> QED  BY <2>1 DEF U32
  <1>4. real \in [Timer -> Int] /\ f \in [Timer -> Int] /\ f[tm] = x /\ s \in Int
        /\ \A y \in Timer : y # tm => f[y] = real[y]
    <2>1. Quarter \in Nat /\ Longest \in Nat  BY MarginIs
    <2>2. x \in Int  BY <2>1
    <2>3. s \in Nat  BY SysNowIs DEF ListInv
    <2> QED  BY <2>2, <2>3 DEF ClockInvOf
  <1>5. \A m \in 1..Len(l) : /\ l[m].timer \in Timer /\ l[m].timer # tm /\ f[l[m].timer] = real[l[m].timer]
                             /\ real[l[m].timer] \in -Quarter..Longest
                             /\ Cong(l[m].time, s + real[l[m].timer]) /\ l[m].time \in Int
    BY <1>4, ListTimers DEF ClockInvOf, Spans, Dated
  <1>6. \A m, n \in 1..Len(l) : m < n => real[l[m].timer] <= real[l[n].timer]
    BY DEF ClockInvOf, Ordered
  <1>7. \A m \in 1..Len(l) : TimeLessThan(at % Word, l[m].time) <=> x < real[l[m].timer]
    <2> TAKE m \in 1..Len(l)
    <2> DEFINE b == real[l[m].timer]
    <2>1. b \in -Quarter..Longest /\ Cong(l[m].time, s + b) /\ l[m].time \in Int  BY <1>5
    <2> HIDE DEF b
    <2>2. TimeLessThan(at % Word, l[m].time) <=> x < b
      <3> HIDE DEF s
      <3>1. Cong(at % Word, s + x)  BY DEF s
      <3> QED  BY <1>3, <1>4, <2>1, <3>1, SpanLess
    <2> QED  BY <2>2 DEF b
  <1>8. PICK y \in Int : y = x  BY <1>4
  <1> HIDE DEF e, f, s
  <1>9. \A m \in 1..Len(l) : real[l[m].timer] \in Int  BY <1>4, <1>5
  <1>10. Dated(r, s, f)
    <2> SUFFICES ASSUME NEW i \in 1..Len(r) PROVE Cong(r[i].time, s + f[r[i].timer])  BY DEF Dated
    <2>1. CASE i = k
      <3>1. Cong(at % Word, s + x)  BY DEF s
      <3> QED  BY <1>2, <1>3, <1>4, <2>1, <3>1
    <2>2. CASE i # k
      <3>1. PICK m \in 1..Len(l) : r[i] = l[m]  BY <1>2, <2>2
      <3> QED  BY <1>5, <3>1
    <2> QED  BY <2>1, <2>2
  <1>11. Ordered(r, f)
    <2> SUFFICES ASSUME NEW i \in 1..Len(r), NEW j \in 1..Len(r), i < j
                 PROVE  f[r[i].timer] <= f[r[j].timer]
      BY DEF Ordered
    <2>1. CASE i = k
      <3>1. j # k /\ j > k  BY <1>2, <2>1
      <3>2. PICK m \in 1..Len(l) : r[j] = l[m] /\ ((m = j /\ j < k) \/ (m = j - 1 /\ j > k))  BY <1>2, <3>1
      <3>3. k <= Len(l) /\ k \in 1..Len(l) /\ (k < m \/ k = m)  BY <1>2, <3>1, <3>2
      <3>4. x < real[l[k].timer]  BY <1>1, <1>7, <3>3
      <3>5. real[l[k].timer] <= real[l[m].timer]  BY <1>6, <1>9, <3>3
      <3>6. y <= real[l[m].timer]  BY <1>8, <1>9, <3>3, <3>4, <3>5
      <3> QED  BY <1>2, <1>3, <1>4, <1>5, <1>8, <2>1, <3>2, <3>6
    <2>2. CASE j = k
      <3>1. i # k /\ i < k  BY <1>2, <2>2
      <3>2. PICK m \in 1..Len(l) : r[i] = l[m] /\ ((m = i /\ i < k) \/ (m = i - 1 /\ i > k))  BY <1>2, <3>1
      <3>3. m \in 1..(k - 1)  BY <1>2, <3>1, <3>2
      <3>4. ~(x < real[l[m].timer])  BY <1>1, <1>7, <3>2, <3>3
      <3>5. real[l[m].timer] <= y  BY <1>8, <1>9, <3>2, <3>4
      <3> QED  BY <1>2, <1>3, <1>4, <1>5, <1>8, <2>2, <3>2, <3>5
    <2>3. CASE i # k /\ j # k
      <3>1. PICK m \in 1..Len(l) : r[i] = l[m] /\ ((m = i /\ i < k) \/ (m = i - 1 /\ i > k))  BY <1>2, <2>3
      <3>2. PICK n \in 1..Len(l) : r[j] = l[n] /\ ((n = j /\ j < k) \/ (n = j - 1 /\ j > k))  BY <1>2, <2>3
      <3>3. m < n  BY <1>2, <3>1, <3>2
      <3> QED  BY <1>5, <1>6, <3>1, <3>2, <3>3
    <2> QED  BY <2>1, <2>2, <2>3
  <1> QED  BY <1>10, <1>11 DEF f, s

(* A timeout taken out leaves the others dated and in order. *)
LEMMA OutKeepsOrder ==
  ASSUME ListInv, NEW real, NEW s, NEW r, NEW k, TakenOut(list, r, k),
         Dated(list, s, real), Ordered(list, real)
  PROVE  Dated(r, s, real) /\ Ordered(r, real)
  <1>1. /\ Len(list) \in Nat /\ Len(r) = Len(list) - 1 /\ k \in 1..Len(list)
        /\ \A i \in 1..Len(r) :
             \E m \in 1..Len(list) : r[i] = list[m] /\ ((m = i /\ i < k) \/ (m = i + 1 /\ i >= k))
    BY OutFrom DEF ListInv
  <1>2. Dated(r, s, real)
    <2> SUFFICES ASSUME NEW i \in 1..Len(r) PROVE Cong(r[i].time, s + real[r[i].timer])  BY DEF Dated
    <2>1. PICK m \in 1..Len(list) : r[i] = list[m]  BY <1>1
    <2> QED  BY <2>1 DEF Dated
  <1>3. Ordered(r, real)
    <2> SUFFICES ASSUME NEW i \in 1..Len(r), NEW j \in 1..Len(r), i < j
                 PROVE  real[r[i].timer] <= real[r[j].timer]
      BY DEF Ordered
    <2>1. PICK m \in 1..Len(list) : r[i] = list[m] /\ ((m = i /\ i < k) \/ (m = i + 1 /\ i >= k))  BY <1>1
    <2>2. PICK n \in 1..Len(list) : r[j] = list[n] /\ ((n = j /\ j < k) \/ (n = j + 1 /\ j >= k))  BY <1>1
    <2>3. m < n  BY <1>1, <2>1, <2>2
    <2> QED  BY <2>1, <2>2, <2>3 DEF Ordered
  <1> QED  BY <1>2, <1>3

-----------------------------------------------------------------------------
(***************************************************************************)
(* The first timeout of the list.                                          *)
(***************************************************************************)
LEMMA FirstIs ==
  ASSUME ListInv, NEW real, NEW age, ClockInvOf(real, age), list # <<>>
  PROVE  /\ list[1].timer \in Pending /\ list[1].timer \in Timer /\ list[1].time \in Int
         /\ real[list[1].timer] \in -Quarter..Longest
         /\ Cong(list[1].time, SysNow + real[list[1].timer])
         /\ \A tm \in Pending : real[list[1].timer] <= real[tm]
  <1>1. Len(list) \in Nat \ {0} /\ 1 \in 1..Len(list)  BY EmptySeq DEF ListInv
  <1>2. list[1].timer \in Pending /\ list[1].timer \in Running /\ list[1].timer \in Timer /\ list[1].time \in Int
    BY <1>1, ListTimers
  <1>3. real[list[1].timer] \in -Quarter..Longest /\ Cong(list[1].time, SysNow + real[list[1].timer])
    BY <1>1, <1>2 DEF ClockInvOf, Spans, Dated
  <1>4. ASSUME NEW tm \in Pending PROVE real[list[1].timer] <= real[tm]
    <2>1. PICK i \in 1..Len(list) : tm = list[i].timer  BY DEF Pending
    <2>2. CASE i = 1
      <3>1. real[list[1].timer] \in Int  BY <1>2 DEF ClockInvOf
      <3> QED  BY <2>1, <2>2, <3>1
    <2>3. CASE i # 1
      <3>1. 1 < i  BY <1>1, <2>3
      <3> QED  BY <1>1, <2>1, <3>1 DEF ClockInvOf, Ordered
    <2> QED  BY <2>2, <2>3
  <1> QED  BY <1>2, <1>3, <1>4

(* Outside handlers all cyclic timers are in the list. *)
LEMMA NotEmpty ==
  ASSUME Margin, ListInv, pc # "handler"
  PROVE  list # <<>> /\ Cyclic \subseteq Pending /\ Running = Pending /\ cur = None
  <1>1. cur = None /\ Running = Pending  BY DEF ListInv, Running
  <1>2. Cyclic \subseteq Pending /\ Cyclic # {}  BY <1>1 DEF ListInv, Margin
  <1>3. list # <<>>
    <2> SUFFICES ASSUME list = <<>> PROVE FALSE  OBVIOUS
    <2>1. Len(list) = 0 /\ 1..0 = {}  OBVIOUS
    <2> QED  BY <1>2, <2>1 DEF Pending
  <1> QED  BY <1>1, <1>2, <1>3

(* The `now' of sys_check_timeouts is at most this old. *)
LEMMA AgeIs ==
  ASSUME Margin, ListInv, NEW real, NEW age, ClockInvOf(real, age), pc \in {"check", "handler"}
  PROVE  age <= 2 * MaxLate + Longest
  <1>1. PICK c : c \in Cyclic  BY DEF Margin
  <1>2. real[c] >= -MaxLate /\ real[c] + age <= MaxLate + Longest /\ real[c] \in Int /\ age \in Nat
    <2>1. c \in Timer  BY <1>1 DEF Timer
    <2>2. real[c] \in Int /\ age \in Nat  BY <2>1 DEF ClockInvOf
    <2>3. real[c] >= -MaxLate  BY <1>1 DEF ClockInvOf, Spans
    <2>4. real[c] + age <= MaxLate + Longest  BY <1>1 DEF ClockInvOf, Checking
    <2> QED  BY <2>2, <2>3, <2>4
  <1> DEFINE v == real[c]
  <1> HIDE DEF v, Longest
  <1>3. v \in Int /\ v >= -MaxLate /\ v + age <= MaxLate + Longest  BY <1>2 DEF v
  <1> QED  BY <1>2, <1>3, MarginIs

(* sys_check_timeouts serves a timeout exactly if it was due at its `now'. *)
LEMMA ExpiredIs ==
  ASSUME Margin, ListInv, NEW real, NEW age, ClockInvOf(real, age), pc = "check", list # <<>>
  PROVE  Expired <=> real[list[1].timer] + age <= 0
  <1> DEFINE f == real[list[1].timer]
             t == list[1].time
             s == SysNow
  <1>1. f \in -Quarter..Longest /\ Cong(t, s + f) /\ t \in Int  BY FirstIs
  <1>2. s \in Int /\ now \in Int /\ age \in Nat /\ Cong(now, s - age)
    <2>1. s \in Nat  BY SysNowIs DEF ListInv
    <2>2. now \in U32  BY DEF ClockInvOf
    <2>3. now \in Int  BY <2>2 DEF U32
    <2> QED  BY <2>1, <2>3 DEF ClockInvOf, Checking
  <1>3. age <= 2 * MaxLate + Longest  BY AgeIs
  <1>4. Expired <=> ~TimeLessThan(now, t)  BY DEF Expired
  <1> HIDE DEF f, t, s, Quarter, Longest
  <1>5. f \in Int /\ -age \in Int /\ s + (-age) = s - age
         /\ (-age) - f < 2 * Quarter /\ f - (-age) <= 2 * Quarter
    <2>1. Quarter \in Nat \ {0} /\ MaxLate \in Nat /\ Longest \in Nat /\ Longest + MaxLate = Quarter
      BY MarginIs
    <2>2. f \in Int /\ -Quarter <= f /\ f <= Longest  BY <1>1, <2>1
    <2>3. -age \in Int /\ s + (-age) = s - age  BY <1>2
    <2>4. (-age) - f < 2 * Quarter  BY <1>2, <2>1, <2>2
    <2>5. f - (-age) = f + age  BY <1>2, <2>2
    <2>6. f + age <= 2 * Quarter  BY <1>2, <1>3, <2>1, <2>2
    <2> QED  BY <2>2, <2>3, <2>4, <2>5, <2>6
  <1>6. Cong(now, s + (-age))  BY <1>2, <1>5
  <1>7. TimeLessThan(now, t) <=> -age < f  BY <1>1, <1>2, <1>5, <1>6, LessIs
  <1>8. -age < f <=> ~(f + age <= 0)  BY <1>2, <1>5
  <1> QED  BY <1>4, <1>7, <1>8 DEF f

(* What HasDue says of the list while no handler runs. *)
LEMMA DueIs ==
  ASSUME Margin, ListInv, NEW real, NEW age, ClockInvOf(real, age), pc # "handler"
  PROVE  HasDue <=> real[list[1].timer] <= 0
  <1> DEFINE f == real[list[1].timer]
             t == list[1].time
             s == SysNow
  <1>1. list # <<>>  BY NotEmpty
  <1>2. f \in -Quarter..Longest /\ Cong(t, s + f) /\ t \in Int  BY <1>1, FirstIs
  <1>3. s \in Nat  BY SysNowIs DEF ListInv
  <1>4. HasDue <=> ~TimeLessThan(s, t)  BY <1>1 DEF HasDue
  <1> HIDE DEF f, t, s, Quarter, Longest
  <1>5. Cong(s, s + 0)  BY <1>3, CongSame
  <1>6. 0 \in -Quarter..Longest /\ f \in Int  BY <1>2, MarginIs
  <1>7. TimeLessThan(s, t) <=> 0 < f  BY <1>2, <1>3, <1>5, <1>6, SpanLess
  <1> QED  BY <1>4, <1>6, <1>7 DEF f

(* sys_timeouts_sleeptime *)
LEMMA SleepIs ==
  ASSUME Margin, ListInv, NEW real, NEW age, ClockInvOf(real, age), pc # "handler"
  PROVE  SleepTime = IF real[list[1].timer] < 0 THEN 0 ELSE real[list[1].timer]
  <1> DEFINE f == real[list[1].timer]
             t == list[1].time
             s == SysNow
  <1>1. list # <<>>  BY NotEmpty
  <1>2. f \in -Quarter..Longest /\ Cong(t, s + f) /\ t \in Int  BY <1>1, FirstIs
  <1>3. s \in Nat  BY SysNowIs DEF ListInv
  <1>4. SleepTime = IF TimeLessThan(t, s) THEN 0 ELSE (t - s) % Word  BY <1>1 DEF SleepTime
  <1> HIDE DEF f, t, s, Quarter, Longest
  <1>5. Cong(s, s + 0)  BY <1>3, CongSame
  <1>6. 0 \in -Quarter..Longest /\ f \in Int  BY <1>2, MarginIs
  <1>7. TimeLessThan(t, s) <=> f < 0  BY <1>2, <1>3, <1>5, <1>6, SpanLess
  <1>8. ASSUME ~(f < 0) PROVE (t - s) % Word = f
    <2>1. PICK k \in Int : t = s + f + k * Word  BY <1>2 DEF Cong
    <2>2. k * Word \in Int  BY WordIs
    <2>3. t - s = f + k * Word /\ t - s \in Int  BY <1>2, <1>3, <1>6, <2>1, <2>2
    <2>4. f \in 0..(Word - 1)  BY <1>2, <1>6, <1>8, MarginIs
    <2> QED  BY <2>3, <2>4, ModIs
  <1> QED  BY <1>4, <1>7, <1>8 DEF f

-----------------------------------------------------------------------------
(***************************************************************************)
(* The steps.                                                              *)
(***************************************************************************)
(* Steps that touch neither the list nor the clock. *)
LEMMA StillKeeps ==
  ASSUME Margin, NEW real, NEW age, ClockInvOf(real, age),
         UNCHANGED <<ticks, list, left, cur, due>>,
         msgs' \in 0..MaxMsgs, now' \in U32, wait' \in 0..Longest,
         (pc' = pc /\ now' = now /\ wait' = wait) \/ pc' \in {"again", "start"}
  PROVE  ClockInv'
  <1>1. SysNow' = SysNow /\ Running' = Running /\ Pending' = Pending
    BY DEF SysNow, Running, Pending
  <1>2. real \in [Timer -> Int] /\ age \in Nat /\ left' \in [Timer -> -MaxLate..Longest]  BY DEF ClockInvOf
  <1>3. Spans(real)' /\ Dated(list', SysNow', real) /\ Ordered(list', real)
    BY <1>1 DEF ClockInvOf, Spans
  <1>4. Served(real)'  BY <1>1 DEF ClockInvOf, Served
  <1>5. Asleep(real)'  BY <1>1 DEF ClockInvOf, Asleep
  <1>6. Checking(real, age)'  BY <1>1 DEF ClockInvOf, Checking
  <1>7. ClockInvOf(real, age)'  BY <1>2, <1>3, <1>4, <1>5, <1>6 DEF ClockInvOf
  <1> QED  BY <1>2, <1>7 DEF ClockInv

(* A timer is armed for x ms from now. *)
LEMMA ArmedKeeps ==
  ASSUME Margin, ListInv, NEW real, NEW age, ClockInvOf(real, age),
         NEW tm \in Timer, tm \notin Pending, NEW at \in Int, Arm(tm, at),
         NEW x \in -MaxLate..Longest, Cong(at % Word, SysNow + x),
         left' = [left EXCEPT ![tm] = x], UNCHANGED <<ticks, now, wait, msgs>>,
         cur' = None, cur = None \/ cur = tm, pc' # "handler",
         pc' = pc \/ (pc = "handler" /\ pc' = "check"),
         pc' = "wait" => x >= 1 /\ tm \notin Cyclic,
         tm \in Cyclic => x + age <= MaxLate + Longest
  PROVE  ClockInv'
  <1> DEFINE f == [real EXCEPT ![tm] = x]
  <1>0. /\ Quarter \in Nat /\ MaxLate \in Nat /\ Longest \in Nat /\ Longest + MaxLate = Quarter
        /\ TickMs \in Nat
    BY MarginIs
  <1>1. SysNow' = SysNow  BY DEF SysNow
  <1>2. Pending' = Pending \cup {tm}  BY ArmAdds
  <1>3. Running' = Pending \cup {tm} /\ Running' \subseteq Running \cup {tm}
    BY <1>2 DEF Running
  <1>4. x \in Int /\ x >= -MaxLate /\ x <= Longest /\ x \in -Quarter..Longest
    <2> HIDE DEF Quarter, Longest
    <2> QED  BY <1>0
  <1>5. real \in [Timer -> Int] /\ age \in Nat /\ left \in [Timer -> -MaxLate..Longest]  BY DEF ClockInvOf
  <1>6. f \in [Timer -> Int] /\ f[tm] = x /\ (\A y \in Timer : y # tm => f[y] = real[y])  BY <1>4, <1>5
  <1>7. left' \in [Timer -> -MaxLate..Longest] /\ left'[tm] = x /\ \A y \in Timer : y # tm => left'[y] = left[y]
    BY <1>5
  <1>8. Dated(list', SysNow', f) /\ Ordered(list', f)  BY <1>1, <1>4, ArmKeepsOrder
  <1>9. Cyclic \subseteq Timer /\ None \notin Cyclic /\ Running \subseteq Timer
    <2>1. None \notin Timer  BY PoolAssumption
    <2>2. \A i \in 1..Len(list) : list[i].timer \in Timer  BY ListTimers
    <2>3. Pending \subseteq Timer  BY <2>2 DEF Pending
    <2> QED  BY <2>1, <2>3 DEF Timer, Running, ListInv
  <1> HIDE DEF f
  <1>10. Spans(f)'
    <2>1. ASSUME NEW y \in Running' PROVE f[y] \in -Quarter..Longest /\ left'[y] = Clamped(f[y])
      <3>1. CASE y = tm
        <4>1. Clamped(x) = x  BY <1>4, <1>0 DEF Clamped
        <4> QED  BY <1>4, <1>6, <1>7, <3>1, <4>1
      <3>2. CASE y # tm
        <4>1. y \in Running /\ y \in Timer  BY <1>3, <1>9, <2>1, <3>2
        <4> QED  BY <1>6, <1>7, <3>2, <4>1 DEF ClockInvOf, Spans
      <3> QED  BY <3>1, <3>2
    <2>2. ASSUME NEW c \in Cyclic PROVE f[c] >= -MaxLate
      <3>1. CASE c = tm  BY <1>4, <1>6, <3>1
      <3>2. CASE c # tm  BY <1>6, <1>9, <3>2 DEF ClockInvOf, Spans
      <3> QED  BY <3>1, <3>2
    <2> QED  BY <2>1, <2>2 DEF Spans
  <1>11. Served(f)'  BY DEF Served
  <1>12. Asleep(f)'
    <2> SUFFICES ASSUME pc' = "wait"
                 PROVE  /\ wait * TickMs <= Longest
                        /\ \A y \in Pending' : f[y] >= wait * TickMs - Quarter
                        /\ wait > 0 => \A c \in Cyclic : f[c] >= wait * TickMs
      BY DEF Asleep
    <2>1. pc = "wait" /\ x >= 1 /\ tm \notin Cyclic  OBVIOUS
    <2>2. /\ wait * TickMs <= Longest
          /\ \A y \in Pending : real[y] >= wait * TickMs - Quarter
          /\ wait > 0 => \A c \in Cyclic : real[c] >= wait * TickMs
      BY <2>1 DEF ClockInvOf, Asleep
    <2>3. x >= wait * TickMs - Quarter
      <3>1. wait * TickMs \in Int
        <4>1. wait \in 0..Longest  BY DEF ClockInvOf
        <4>2. wait \in Nat  BY <1>0, <4>1
        <4> QED  BY <1>0, <4>2
      <3> DEFINE u == wait * TickMs
      <3> HIDE DEF u, Longest, Quarter
      <3>2. u \in Int /\ u <= Longest  BY <2>2, <3>1 DEF u
      <3>3. x >= u - Quarter  BY <1>0, <1>4, <2>1, <3>2
      <3> QED  BY <3>3 DEF u
    <2>4. ASSUME NEW y \in Pending' PROVE f[y] >= wait * TickMs - Quarter
      <3>1. CASE y = tm  BY <1>6, <2>3, <3>1
      <3>2. CASE y # tm
        <4>1. y \in Pending /\ y \in Timer  BY <1>2, <1>9, <3>2 DEF Running
        <4> QED  BY <1>6, <2>2, <3>2, <4>1
      <3> QED  BY <3>1, <3>2
    <2>5. \A c \in Cyclic : f[c] = real[c]  BY <1>6, <1>9, <2>1
    <2> QED  BY <2>2, <2>4, <2>5
  <1>13. Checking(f, age)'
    <2> SUFFICES ASSUME pc' = "check"
                 PROVE  /\ Cong(now, SysNow' - age)
                        /\ \A c \in Cyclic : f[c] + age <= MaxLate + Longest
      BY <1>9 DEF Checking
    <2>1. pc \in {"check", "handler"}  OBVIOUS
    <2>2. Cong(now, SysNow - age) /\ \A c \in Cyclic : real[c] + age <= MaxLate + Longest
      BY <2>1 DEF ClockInvOf, Checking
    <2>3. ASSUME NEW c \in Cyclic PROVE f[c] + age <= MaxLate + Longest
      <3>1. CASE c = tm  BY <1>6, <3>1
      <3>2. CASE c # tm  BY <1>6, <1>9, <2>2, <3>2
      <3> QED  BY <3>1, <3>2
    <2> QED  BY <1>1, <2>2, <2>3
  <1>14. ClockInvOf(f, age)'
    BY <1>5, <1>6, <1>7, <1>8, <1>10, <1>11, <1>12, <1>13 DEF ClockInvOf
  <1> QED  BY <1>5, <1>6, <1>14 DEF ClockInv

(* A timeout of the application goes, served or cancelled. *)
LEMMA DroppedKeeps ==
  ASSUME Margin, ListInv, NEW real, NEW age, ClockInvOf(real, age),
         NEW k, TakenOut(list, list', k), NEW tm \in Timer, tm = list[k].timer, tm \notin Cyclic,
         left' = [left EXCEPT ![tm] = 0], UNCHANGED <<ticks, now, wait, msgs, cur, pc>>, pc # "handler"
  PROVE  ClockInv'
  <1>1. SysNow' = SysNow  BY DEF SysNow
  <1>2. Pending' = Pending \ {tm}  BY OutTimers, PendingIs DEF ListInv
  <1>3. Running' = Running \ {tm}
    <2>1. cur = None  BY DEF ListInv
    <2> QED  BY <1>2, <2>1 DEF Running
  <1>4. real \in [Timer -> Int] /\ age \in Nat /\ left \in [Timer -> -MaxLate..Longest]  BY DEF ClockInvOf
  <1>5. left' \in [Timer -> -MaxLate..Longest] /\ \A y \in Timer : y # tm => left'[y] = left[y]
    <2>1. 0 \in -MaxLate..Longest
      <3> HIDE DEF Longest
      <3> QED  BY MarginIs
    <2> QED  BY <1>4, <2>1
  <1>6. Dated(list', SysNow', real) /\ Ordered(list', real)  BY <1>1, OutKeepsOrder DEF ClockInvOf
  <1>7. Running \subseteq Timer
    <2>1. \A i \in 1..Len(list) : list[i].timer \in Timer  BY ListTimers
    <2> QED  BY <2>1 DEF Timer, Running, ListInv, Pending
  <1>8. Spans(real)'  BY <1>3, <1>5, <1>7 DEF ClockInvOf, Spans
  <1>9. Served(real)' /\ Asleep(real)' /\ Checking(real, age)'
    BY <1>1, <1>2 DEF ClockInvOf, Served, Asleep, Checking
  <1>10. ClockInvOf(real, age)'  BY <1>4, <1>5, <1>6, <1>8, <1>9 DEF ClockInvOf
  <1> QED  BY <1>4, <1>10 DEF ClockInv

(* The handler of a timer of the stack is called. *)
LEMMA FiredKeeps ==
  ASSUME Margin, ListInv, NEW real, NEW age, ClockInvOf(real, age), pc = "check", Expired,
         list' = Tail(list), due' = list[1].time, cur' = list[1].timer, pc' = "handler",
         UNCHANGED <<ticks, now, wait, msgs, left>>
  PROVE  ClockInv'
  <1> DEFINE tm == list[1].timer
  <1>0. list # <<>>  BY DEF Expired
  <1>1. SysNow' = SysNow  BY DEF SysNow
  <1>2. Pending' = Pending \ {tm} /\ TakenOut(list, list', 1)  BY <1>0, FireRemoves, PendingIs
  <1>3. Running' \subseteq Running
    <2>1. tm \in Pending  BY <1>0, FirstIs
    <2> QED  BY <1>2, <2>1 DEF Running
  <1>4. real \in [Timer -> Int] /\ age \in Nat  BY DEF ClockInvOf
  <1>5. Dated(list', SysNow', real) /\ Ordered(list', real)  BY <1>1, <1>2, OutKeepsOrder DEF ClockInvOf
  <1>6. Spans(real)'  BY <1>3 DEF ClockInvOf, Spans
  <1>7. real[tm] + age <= 0 /\ real[tm] \in Int /\ Cong(list[1].time, SysNow + real[tm])
    BY <1>0, <1>4, ExpiredIs, FirstIs
  <1>8. real[tm] <= 0
    <2> DEFINE v == real[tm]
    <2> HIDE DEF v
    <2>1. v + age <= 0 /\ v \in Int  BY <1>7 DEF v
    <2>2. v <= 0  BY <1>4, <2>1
    <2> QED  BY <2>2 DEF v
  <1>9. Served(real)' /\ Asleep(real)'  BY <1>1, <1>7, <1>8 DEF Served, Asleep
  <1>10. Checking(real, age)'  BY <1>1, <1>7 DEF ClockInvOf, Checking
  <1>11. ClockInvOf(real, age)'  BY <1>4, <1>5, <1>6, <1>9, <1>10 DEF ClockInvOf
  <1> QED  BY <1>4, <1>11 DEF ClockInv

(* A tick.  Times of the clock move by TickMs, and so does what is left. *)
LEMMA CongTick ==
  ASSUME NEW s \in Int, NEW x \in Int, NEW t \in Int, NEW n \in Int, Cong(t, s + x),
         NEW z \in Int, z = (s + n) % Word, NEW y \in Int, y = x - n
  PROVE  Cong(t, z + y)
  <1>1. PICK a \in Int : a = s + n  OBVIOUS
  <1>2. Cong(z, a)  BY <1>1, CongMod
  <1>3. Cong(z + y, a + y)  BY <1>2, CongShift
  <1>4. a + y = s + x  BY <1>1
  <1>5. Cong(z + y, s + x)  BY <1>3, <1>4
  <1>6. z + y \in Int /\ s + x \in Int  OBVIOUS
  <1> QED  BY <1>5, <1>6, CongTrans

(* left follows the true time down to -MaxLate. *)
LEMMA ClampTick ==
  ASSUME NEW x \in Int, NEW n \in Nat \ {0}
  PROVE  /\ Clamped(x - n) = IF Clamped(x) - n < -MaxLate THEN -MaxLate ELSE Clamped(x) - n
         /\ Clamped(x) \in Int /\ Clamped(x) >= x /\ (Clamped(x) > -MaxLate => Clamped(x) = x)
  BY BoundsAssumption DEF Clamped

(* How late a timer can get. *)
LEMMA TickSpan ==
  ASSUME Margin, ListInv, NEW real, NEW age, ClockInvOf(real, age), Tick, NEW tm \in Running
  PROVE  real[tm] - TickMs >= -Quarter /\ (tm \in Cyclic => real[tm] - TickMs >= -MaxLate)
  <1> DEFINE x == real[tm]
             y == left[tm]
             u == wait * TickMs
  <1>0. /\ Quarter \in Nat /\ MaxLate \in Nat /\ Longest \in Nat /\ Longest + MaxLate = Quarter
        /\ TickMs \in Nat \ {0} /\ TickMs <= MaxLate
    BY MarginIs
  <1>1. x \in Int /\ y = Clamped(x)
    <2>1. x \in -Quarter..Longest /\ y = Clamped(x)  BY DEF ClockInvOf, Spans
    <2> QED  BY <1>0, <2>1
  <1>2. CASE Blocked
    <2>1. pc = "wait" /\ wait # 0  BY <1>2 DEF Blocked
    <2>2. wait \in Nat \ {0}
      <3>1. wait \in 0..Longest  BY DEF ClockInvOf
      <3> QED  BY <1>0, <2>1, <3>1
    <2>3. u >= TickMs /\ u \in Nat  BY <1>0, <2>2
    <2>4. tm \in Pending  BY <2>1, NotEmpty
    <2>5. x >= u - Quarter /\ (tm \in Cyclic => x >= u)
      <3>1. /\ \A p \in Pending : real[p] >= wait * TickMs - Quarter
            /\ wait > 0 => \A c \in Cyclic : real[c] >= wait * TickMs
        BY <2>1 DEF ClockInvOf, Asleep
      <3> QED  BY <2>2, <2>4, <3>1
    <2> HIDE DEF x, u, Quarter, Longest
    <2>6. x - TickMs >= -Quarter /\ (tm \in Cyclic => x - TickMs >= -MaxLate)
      BY <1>0, <1>1, <2>3, <2>5
    <2> QED  BY <2>6 DEF x
  <1>3. CASE ~Blocked /\ ~HasDue
    <2>1. pc # "handler"  BY <1>3 DEF HasDue
    <2>2. tm \in Pending /\ list # <<>>  BY <2>1, NotEmpty
    <2>3. real[list[1].timer] <= x /\ real[list[1].timer] \in Int
      <3>1. real[list[1].timer] \in -Quarter..Longest /\ real[list[1].timer] <= x  BY <2>2, FirstIs
      <3> QED  BY <1>0, <3>1
    <2>4. ~(real[list[1].timer] <= 0)  BY <1>3, <2>1, DueIs
    <2>5. x > 0  BY <1>1, <2>3, <2>4
    <2> HIDE DEF x, Quarter, Longest
    <2>6. x - TickMs >= -Quarter /\ x - TickMs >= -MaxLate  BY <1>0, <1>1, <2>5
    <2> QED  BY <2>6 DEF x
  <1>4. CASE ~Blocked /\ HasDue
    <2>1. ~(y - TickMs < -MaxLate)  BY <1>4 DEF Tick, Late
    <2> HIDE DEF x, y, Quarter, Longest
    <2>2. Clamped(x) \in Int /\ (Clamped(x) > -MaxLate => Clamped(x) = x)  BY <1>1, ClampTick
    <2>3. y \in Int /\ y > -MaxLate  BY <1>0, <1>1, <2>1, <2>2
    <2>4. y = x  BY <1>1, <2>2, <2>3
    <2>5. x - TickMs >= -Quarter /\ x - TickMs >= -MaxLate  BY <1>0, <1>1, <2>1, <2>4
    <2> QED  BY <2>5 DEF x
  <1> QED  BY <1>2, <1>3, <1>4

(* The tick interrupt. *)
LEMMA TickKeeps ==
  ASSUME Margin, ListInv, NEW real, NEW age, ClockInvOf(real, age), Tick,
         SysNow' = (SysNow + TickMs) % Word
  PROVE  ClockInv'
  <1> DEFINE g == [tm \in Timer |-> real[tm] - TickMs]
             a == age + TickMs
  <1>0. /\ Quarter \in Nat /\ MaxLate \in Nat /\ Longest \in Nat /\ Longest + MaxLate = Quarter
        /\ TickMs \in Nat \ {0} /\ TickMs <= MaxLate
    BY MarginIs
  <1>1. Running' = Running /\ Pending' = Pending /\ UNCHANGED <<list, due, pc, now, cur, msgs>>
    BY DEF Tick, Running, Pending
  <1>2. /\ real \in [Timer -> Int] /\ age \in Nat /\ left \in [Timer -> -MaxLate..Longest]
        /\ wait \in 0..Longest /\ now \in U32 /\ msgs \in 0..MaxMsgs
    BY DEF ClockInvOf
  <1>3. /\ g \in [Timer -> Int] /\ a \in Nat /\ a - TickMs = age
        /\ \A tm \in Timer : g[tm] = real[tm] - TickMs /\ real[tm] \in Int /\ g[tm] \in Int
    BY <1>0, <1>2
  <1>4. Cyclic \subseteq Running /\ Running \subseteq Timer /\ Pending \subseteq Timer
    <2>1. \A i \in 1..Len(list) : list[i].timer \in Timer  BY ListTimers
    <2>2. Pending \subseteq Timer  BY <2>1 DEF Pending
    <2> QED  BY <2>2 DEF Timer, Running, ListInv
  <1>5. SysNow \in Int /\ SysNow' \in Int /\ TickMs \in Int
    <2>1. SysNow \in Nat  BY SysNowIs DEF ListInv
    <2> QED  BY <1>0, <2>1, WordIs DEF U32
  <1> HIDE DEF g, a
  <1>6. ASSUME NEW tm \in Running
        PROVE  /\ g[tm] \in -Quarter..Longest /\ left'[tm] = Clamped(g[tm])
               /\ left'[tm] \in -MaxLate..Longest /\ (tm \in Cyclic => g[tm] >= -MaxLate)
    <2> DEFINE x == real[tm]
               y == left[tm]
    <2>1. tm \in Timer  BY <1>4
    <2>2. x \in -Quarter..Longest /\ y = Clamped(x)  BY DEF ClockInvOf, Spans
    <2>3. x - TickMs >= -Quarter /\ (tm \in Cyclic => x - TickMs >= -MaxLate)  BY TickSpan
    <2>4. left'[tm] = IF y - TickMs < -MaxLate THEN -MaxLate ELSE y - TickMs  BY <2>1 DEF Tick, Late
    <2>5. g[tm] = x - TickMs  BY <1>3, <2>1
    <2> HIDE DEF x, y, Quarter, Longest
    <2>6. x \in Int /\ x <= Longest  BY <1>0, <2>2
    <2>7. left'[tm] = Clamped(x - TickMs)  BY <1>0, <2>2, <2>4, <2>6, ClampTick
    <2>8. x - TickMs \in -Quarter..Longest  BY <1>0, <2>3, <2>6
    <2>9. Clamped(x - TickMs) \in -MaxLate..Longest  BY <1>0, <2>6 DEF Clamped
    <2> QED  BY <2>3, <2>5, <2>7, <2>8, <2>9
  <1>7. left' \in [Timer -> -MaxLate..Longest]
    <2>1. ASSUME NEW tm \in Timer PROVE left'[tm] \in -MaxLate..Longest
      <3>1. CASE tm \in Running  BY <1>6, <3>1
      <3>2. CASE tm \notin Running
        <4>1. left'[tm] = left[tm]  BY <3>2 DEF Tick
        <4> QED  BY <1>2, <4>1
      <3> QED  BY <3>1, <3>2
    <2>2. left' = [tm \in Timer |-> IF tm \notin Running THEN left[tm]
                                    ELSE IF Late(tm) THEN -MaxLate ELSE left[tm] - TickMs]
      BY DEF Tick
    <2>3. left' = [tm \in Timer |-> left'[tm]]  BY <2>2
    <2> QED  BY <2>1, <2>3
  <1>8. Spans(g)'  BY <1>1, <1>4, <1>6 DEF Spans
  <1>9. Dated(list', SysNow', g)
    <2> SUFFICES ASSUME NEW i \in 1..Len(list) PROVE Cong(list[i].time, SysNow' + g[list[i].timer])
      BY <1>1 DEF Dated
    <2>1. list[i].timer \in Timer /\ list[i].time \in Int  BY ListTimers
    <2>2. Cong(list[i].time, SysNow + real[list[i].timer])  BY DEF ClockInvOf, Dated
    <2>3. PICK x \in Int, y \in Int : x = real[list[i].timer] /\ y = g[list[i].timer] /\ y = x - TickMs
      BY <1>3, <2>1
    <2>4. Cong(list[i].time, SysNow + x)  BY <2>2, <2>3
    <2>5. Cong(list[i].time, SysNow' + y)  BY <1>5, <2>1, <2>3, <2>4, CongTick, Zenon
    <2> QED  BY <2>3, <2>5
  <1>10. Ordered(list', g)
    <2> SUFFICES ASSUME NEW i \in 1..Len(list), NEW j \in 1..Len(list), i < j
                 PROVE  g[list[i].timer] <= g[list[j].timer]
      BY <1>1 DEF Ordered
    <2>1. list[i].timer \in Timer /\ list[j].timer \in Timer  BY ListTimers
    <2>2. real[list[i].timer] <= real[list[j].timer]  BY DEF ClockInvOf, Ordered
    <2>3. PICK x \in Int, y \in Int : x = real[list[i].timer] /\ y = real[list[j].timer]  BY <1>3, <2>1
    <2>4. x - TickMs <= y - TickMs  BY <1>0, <2>2, <2>3
    <2> QED  BY <1>3, <2>1, <2>3, <2>4
  <1>11. Served(g)'
    <2> SUFFICES ASSUME pc = "handler" PROVE Cong(due, SysNow' + g[cur]) /\ g[cur] <= 0
      BY <1>1 DEF Served
    <2>1. cur \in Timer /\ due \in Int  BY WordIs DEF ListInv, Timer, U32
    <2>2. Cong(due, SysNow + real[cur]) /\ real[cur] <= 0  BY DEF ClockInvOf, Served
    <2>3. PICK x \in Int, y \in Int : x = real[cur] /\ y = g[cur] /\ y = x - TickMs  BY <1>3, <2>1
    <2>4. Cong(due, SysNow' + y)
      <3>1. Cong(due, SysNow + x)  BY <2>2, <2>3
      <3> QED  BY <1>5, <2>1, <2>3, <3>1, CongTick, Zenon
    <2>5. y <= 0  BY <1>0, <2>2, <2>3
    <2> QED  BY <2>3, <2>4, <2>5
  <1>12. wait' \in 0..Longest
    <2> HIDE DEF Longest
    <2> QED  BY <1>0, <1>2 DEF Tick
  <1>13. Asleep(g)'
    <2> SUFFICES ASSUME pc = "wait"
                 PROVE  /\ wait' * TickMs <= Longest
                        /\ \A tm \in Pending : g[tm] >= wait' * TickMs - Quarter
                        /\ wait' > 0 => \A c \in Cyclic : g[c] >= wait' * TickMs
      BY <1>1 DEF Asleep
    <2>1. /\ wait * TickMs <= Longest
          /\ \A tm \in Pending : real[tm] >= wait * TickMs - Quarter
          /\ wait > 0 => \A c \in Cyclic : real[c] >= wait * TickMs
      BY DEF ClockInvOf, Asleep
    <2>2. wait \in Nat  BY <1>0, <1>2
    <2>3. CASE wait = 0
      <3>1. wait' = 0  BY <2>3 DEF Tick
      <3>2. 0 * TickMs = 0 /\ 0 \in Int  BY <1>0
      <3>3. ASSUME NEW tm \in Pending PROVE g[tm] >= 0 - Quarter
        <4>1. tm \in Running  BY DEF Running
        <4>2. g[tm] \in -Quarter..Longest  BY <1>6, <4>1
        <4> QED  BY <1>0, <4>2
      <3> QED  BY <1>0, <3>1, <3>2, <3>3
    <2>4. CASE wait # 0
      <3>1. wait' = wait - 1 /\ wait > 0  BY <2>2, <2>4 DEF Tick
      <3>2. PICK u \in Int : u = wait * TickMs  BY <1>0, <2>2
      <3>3. wait' * TickMs = u - TickMs  BY <1>0, <2>2, <3>1, <3>2
      <3>4. u - TickMs <= Longest
        <4> HIDE DEF Longest
        <4> QED  BY <1>0, <2>1, <3>2
      <3>5. ASSUME NEW tm \in Pending PROVE g[tm] >= u - TickMs - Quarter
        <4>1. PICK x \in Int : x = real[tm] /\ g[tm] = x - TickMs  BY <1>3, <1>4
        <4>2. x >= u - Quarter  BY <2>1, <3>2, <4>1
        <4> HIDE DEF Quarter
        <4>3. x - TickMs >= u - TickMs - Quarter  BY <1>0, <4>2
        <4> QED  BY <4>1, <4>3
      <3>6. ASSUME NEW c \in Cyclic PROVE g[c] >= u - TickMs
        <4>1. PICK x \in Int : x = real[c] /\ g[c] = x - TickMs  BY <1>3, <1>4
        <4>2. x >= u  BY <2>1, <3>1, <3>2, <4>1
        <4>3. x - TickMs >= u - TickMs  BY <1>0, <4>2
        <4> QED  BY <4>1, <4>3
      <3> QED  BY <3>3, <3>4, <3>5, <3>6
    <2> QED  BY <2>3, <2>4
  <1>14. Checking(g, a)'
    <2> SUFFICES ASSUME pc \in {"check", "handler"}
                 PROVE  /\ Cong(now, SysNow' - a)
                        /\ \A c \in Cyclic : g[c] + a <= MaxLate + Longest
                        /\ cur \in Cyclic => g[cur] + a <= 0
      BY <1>1 DEF Checking
    <2>1. /\ Cong(now, SysNow - age)
          /\ \A c \in Cyclic : real[c] + age <= MaxLate + Longest
          /\ cur \in Cyclic => real[cur] + age <= 0
      BY DEF ClockInvOf, Checking
    <2>2. ASSUME NEW c \in Cyclic PROVE g[c] + a = real[c] + age
      <3>1. PICK x \in Int : x = real[c] /\ g[c] = x - TickMs  BY <1>3, <1>4
      <3>2. (x - TickMs) + a = x + age  BY <1>0, <1>2, <1>3
      <3> QED  BY <3>1, <3>2
    <2>3. Cong(now, SysNow' - a)
      <3>1. -age \in Int /\ now \in Int /\ SysNow + (-age) = SysNow - age  BY <1>2, <1>5, WordIs DEF U32
      <3>2. Cong(now, SysNow + (-age))  BY <2>1, <3>1
      <3>3. PICK x \in Int, y \in Int : x = -age /\ y = -a /\ y = x - TickMs  BY <1>0, <1>2, <1>3
      <3>4. Cong(now, SysNow + x)  BY <3>2, <3>3
      <3>5. Cong(now, SysNow' + y)  BY <1>5, <3>1, <3>3, <3>4, CongTick, Zenon
      <3>6. SysNow' + y = SysNow' - a  BY <1>3, <1>5, <3>3
      <3> QED  BY <3>5, <3>6
    <2> QED  BY <2>1, <2>2, <2>3
  <1>15. ClockInvOf(g, a)'
    BY <1>1, <1>2, <1>3, <1>7, <1>8, <1>9, <1>10, <1>11, <1>12, <1>13, <1>14 DEF ClockInvOf
  <1> QED  BY <1>3, <1>15 DEF ClockInv

(* Rounding down to a whole number of ticks. *)
LEMMA DivIs ==
  ASSUME NEW x \in Nat, NEW n \in Nat \ {0}
  PROVE  x \div n \in Nat /\ (x \div n) * n <= x /\ x \div n <= x /\ (x \div n) * n \in Nat
  <1>1. x \div n \in Nat /\ x = n * (x \div n) + (x % n) /\ x % n \in Nat  OBVIOUS
  <1> DEFINE d == x \div n
  <1> HIDE DEF d
  <1>2. d \in Nat /\ n * d <= x  BY <1>1 DEF d
  <1>3. d <= n * d /\ n * d = d * n /\ n * d \in Nat  BY <1>2
  <1>4. d <= x /\ d * n <= x /\ d * n \in Nat  BY <1>2, <1>3
  <1> QED  BY <1>2, <1>4 DEF d

(* The wait for a message: a whole number of ticks, and no longer than the
   first timeout is away. *)
LEMMA SleepKeeps ==
  ASSUME Margin, ListInv, NEW real, NEW age, ClockInvOf(real, age), pc = "again", SleepTime # 0,
         pc' = "wait", wait' = FetchTicks(SleepTime), UNCHANGED <<ticks, list, due, now, cur, msgs, left>>
  PROVE  ClockInv'
  <1> DEFINE x == real[list[1].timer]
  <1>0. Quarter \in Nat /\ Longest \in Nat /\ TickMs \in Nat \ {0}  BY MarginIs
  <1>1. list # <<>> /\ Cyclic \subseteq Pending  BY NotEmpty
  <1>2. x \in -Quarter..Longest /\ \A tm \in Pending : x <= real[tm]  BY <1>1, FirstIs
  <1>3. SleepTime = IF x < 0 THEN 0 ELSE x  BY SleepIs
  <1>4. SleepTime = x /\ x \in Nat \ {0} /\ x <= Longest
    <2> HIDE DEF x, Quarter, Longest
    <2>1. x \in Int /\ x <= Longest  BY <1>0, <1>2
    <2> QED  BY <1>3, <2>1
  <1>5. wait' = x \div TickMs
    <2> HIDE DEF x
    <2> QED  BY <1>4 DEF FetchTicks, Forever
  <1>6. wait' \in Nat /\ wait' * TickMs <= x /\ wait' <= Longest /\ wait' * TickMs \in Nat
    <2>1. PICK y \in Nat, n \in Nat \ {0} : y = x /\ n = TickMs  BY <1>0, <1>4
    <2>2. PICK q \in Nat : q = y \div n /\ q * n <= y /\ q <= y /\ q * n \in Nat  BY DivIs
    <2>3. wait' = q  BY <1>5, <2>1, <2>2
    <2> HIDE DEF x, Longest
    <2>4. q <= Longest  BY <1>0, <1>4, <2>1, <2>2
    <2> QED  BY <2>1, <2>2, <2>3, <2>4
  <1>7. SysNow' = SysNow /\ Running' = Running /\ Pending' = Pending
    BY DEF SysNow, Running, Pending
  <1>8. real \in [Timer -> Int] /\ age \in Nat  BY DEF ClockInvOf
  <1>9. Asleep(real)'
    <2> DEFINE u == wait' * TickMs
    <2>1. u \in Nat /\ u <= x  BY <1>6
    <2>2. ASSUME NEW tm \in Pending PROVE real[tm] >= u - Quarter /\ real[tm] >= u
      <3>1. tm \in Timer
        <4>1. \A i \in 1..Len(list) : list[i].timer \in Timer  BY ListTimers
        <4> QED  BY <4>1 DEF Pending
      <3>2. PICK y \in Int : y = real[tm]  BY <1>8, <3>1
      <3>3. x <= y  BY <1>2, <3>2
      <3> HIDE DEF u, x, Quarter
      <3>4. y >= u - Quarter /\ y >= u  BY <1>0, <1>4, <2>1, <3>3
      <3> QED  BY <3>2, <3>4
    <2>3. u <= Longest
      <3> HIDE DEF u, x, Longest
      <3> QED  BY <1>0, <1>4, <2>1
    <2> QED  BY <1>1, <1>7, <2>2, <2>3 DEF Asleep
  <1>10. Spans(real)' /\ Dated(list', SysNow', real) /\ Ordered(list', real)
    BY <1>7 DEF ClockInvOf, Spans
  <1>11. Served(real)' /\ Checking(real, age)'  BY DEF Served, Checking
  <1>12. wait' \in 0..Longest  BY <1>0, <1>6
  <1>13. ClockInvOf(real, age)'  BY <1>8, <1>9, <1>10, <1>11, <1>12 DEF ClockInvOf
  <1> QED  BY <1>8, <1>13 DEF ClockInv

(* sys_check_timeouts reads the clock. *)
LEMMA StartKeeps ==
  ASSUME Margin, ListInv, NEW real, NEW age, ClockInvOf(real, age), CheckStart
  PROVE  ClockInv'
  <1>0. Quarter \in Nat /\ Longest \in Nat /\ MaxLate \in Nat  BY MarginIs
  <1>1. /\ now' = SysNow /\ pc = "start" /\ pc' = "check"
        /\ UNCHANGED <<ticks, list, due, cur, wait, msgs, left>>
    BY DEF CheckStart
  <1>2. SysNow' = SysNow /\ Running' = Running /\ Pending' = Pending
    BY <1>1 DEF SysNow, Running, Pending
  <1>3. real \in [Timer -> Int] /\ SysNow \in U32 /\ SysNow \in Int
    <2>1. SysNow \in U32 /\ SysNow \in Nat  BY SysNowIs DEF ListInv
    <2> QED  BY <2>1 DEF ClockInvOf
  <1>4. cur = None /\ Cyclic \subseteq Running  BY <1>1 DEF ListInv
  <1>5. Checking(real, 0)'
    <2>1. SysNow = SysNow - 0  BY <1>3
    <2>2. Cong(SysNow, SysNow - 0)  BY <1>3, <2>1, CongSame
    <2>3. ASSUME NEW c \in Cyclic PROVE real[c] + 0 <= MaxLate + Longest
      <3>1. real[c] \in -Quarter..Longest  BY <1>4 DEF ClockInvOf, Spans
      <3>2. PICK x \in Int : x = real[c] /\ x <= Longest  BY <1>0, <3>1
      <3> HIDE DEF Longest
      <3>3. x + 0 <= MaxLate + Longest  BY <1>0, <3>2
      <3> QED  BY <3>2, <3>3
    <2>4. None \notin Cyclic  BY PoolAssumption DEF Timer
    <2> QED  BY <1>1, <1>2, <1>4, <2>2, <2>3, <2>4 DEF Checking
  <1>6. Spans(real)' /\ Dated(list', SysNow', real) /\ Ordered(list', real)
    BY <1>1, <1>2 DEF ClockInvOf, Spans
  <1>7. Served(real)' /\ Asleep(real)'  BY <1>1 DEF Served, Asleep
  <1>8. ClockInvOf(real, 0)'  BY <1>1, <1>3, <1>5, <1>6, <1>7 DEF ClockInvOf
  <1> QED  BY <1>3, <1>8 DEF ClockInv

(* tcp_tmr drops the last connection, and the TCP timer stops. *)
LEMMA StoppedKeeps ==
  ASSUME Margin, ListInv, NEW real, NEW age, ClockInvOf(real, age), pc = "handler", pc' = "check",
         cur = TcpTmr, cur' = None, left' = [left EXCEPT ![TcpTmr] = 0],
         UNCHANGED <<ticks, list, now, wait, msgs>>
  PROVE  ClockInv'
  <1>1. SysNow' = SysNow /\ Pending' = Pending  BY DEF SysNow, Pending
  <1>2. Running' = Running \ {TcpTmr} /\ Running \subseteq Timer
    <2>1. \A i \in 1..Len(list) : list[i].timer \in Timer  BY ListTimers
    <2>2. TcpTmr \notin Pending /\ TcpTmr # None  BY PoolAssumption DEF ListInv, Timer
    <2> QED  BY <1>1, <2>1, <2>2 DEF Running, Pending, Timer
  <1>3. real \in [Timer -> Int] /\ age \in Nat /\ left \in [Timer -> -MaxLate..Longest]  BY DEF ClockInvOf
  <1>4. left' \in [Timer -> -MaxLate..Longest] /\ \A y \in Timer : y # TcpTmr => left'[y] = left[y]
    <2>1. 0 \in -MaxLate..Longest
      <3> HIDE DEF Longest
      <3> QED  BY MarginIs
    <2> QED  BY <1>3, <2>1
  <1>5. Spans(real)'  BY <1>2, <1>4 DEF ClockInvOf, Spans
  <1>6. Dated(list', SysNow', real) /\ Ordered(list', real)  BY <1>1 DEF ClockInvOf
  <1>7. None \notin Cyclic  BY PoolAssumption DEF Timer
  <1>8. Served(real)' /\ Asleep(real)' /\ Checking(real, age)'
    BY <1>1, <1>7 DEF ClockInvOf, Served, Asleep, Checking
  <1>9. ClockInvOf(real, age)'  BY <1>3, <1>4, <1>5, <1>6, <1>8 DEF ClockInvOf
  <1> QED  BY <1>3, <1>9 DEF ClockInv

(* lwip_cyclic_timer arms itself relative to when it was due, unless that is
   over already. *)
LEMMA RearmKeeps ==
  ASSUME Margin, ListInv, NEW real, NEW age, ClockInvOf(real, age), CyclicRearm
  PROVE  ClockInv'
  <1>0. /\ Quarter \in Nat /\ MaxLate \in Nat \ {0} /\ Longest \in Nat /\ Longest + MaxLate = Quarter
        /\ \A tm \in Timer : Interval[tm] \in Nat \ {0} /\ Interval[tm] <= Longest
    BY MarginIs
  <1>1. /\ pc = "handler" /\ cur \in Cyclic /\ cur \in Timer /\ cur \notin Pending /\ cur \in Running
        /\ pc' = "check" /\ cur' = None /\ UNCHANGED <<ticks, now, wait, msgs>>
    BY DEF CyclicRearm, ListInv, Timer
  <1>2. PICK n \in Int, v \in Int : n = Interval[cur] /\ n <= Longest /\ n >= 1 /\ v = real[cur]
    BY <1>0, <1>1 DEF ClockInvOf
  <1>3. v >= -MaxLate /\ v <= 0 /\ v + age <= 0 /\ left[cur] = v /\ age \in Nat
    <2>1. v >= -MaxLate  BY <1>1, <1>2 DEF ClockInvOf, Spans
    <2>2. left[cur] = Clamped(v)  BY <1>1, <1>2 DEF ClockInvOf, Spans
    <2>3. Clamped(v) = v  BY <1>0, <2>1 DEF Clamped
    <2> QED  BY <1>1, <1>2, <2>1, <2>2, <2>3 DEF ClockInvOf, Served, Checking
  <1>4. SysNow \in Int /\ due \in Int
    <2>1. SysNow \in Nat  BY SysNowIs DEF ListInv
    <2>2. due \in U32  BY DEF ListInv
    <2> QED  BY <2>1, <2>2 DEF U32
  <1>5. Cong(due, SysNow + v)  BY <1>1, <1>2 DEF ClockInvOf, Served
  <1>6. PICK b \in Int : b = v + n  OBVIOUS
  <1>7. PICK at1 \in Int, at2 \in Int : at1 = SysNow + n /\ at2 = due + n  BY <1>4
  <1>8. at1 % Word \in Int /\ at2 % Word \in Int  BY WordIs DEF U32
  <1>9. Cong(at1 % Word, SysNow + n)  BY <1>7, CongMod
  <1>10. Cong(at2 % Word, SysNow + b)
    <2>1. Cong(at2 % Word, at2)  BY CongMod
    <2>2. PICK w \in Int : w = SysNow + v  BY <1>4
    <2>3. Cong(due + n, w + n)  BY <1>4, <1>5, <2>2, CongShift
    <2>4. w + n = SysNow + b  BY <1>4, <1>6, <2>2
    <2>5. Cong(at2, w + n)  BY <1>7, <2>3
    <2>6. Cong(at2 % Word, w + n)  BY <1>8, <2>1, <2>5, CongTrans
    <2> QED  BY <2>4, <2>6
  <1>11. Overload <=> b < 0
    <2>1. Overload <=> TimeLessThan(at2 % Word, SysNow)  BY <1>2, <1>7 DEF Overload
    <2>2. b \in -Quarter..Longest /\ 0 \in -Quarter..Longest
      <3> HIDE DEF Quarter, Longest
      <3> QED  BY <1>0, <1>2, <1>3, <1>6
    <2>3. Cong(SysNow, SysNow + 0)  BY <1>4, CongSame
    <2> QED  BY <1>4, <1>8, <1>10, <2>1, <2>2, <2>3, SpanLess
  <1>12. /\ Arm(cur, IF Overload THEN at1 ELSE at2)
         /\ left' = [left EXCEPT ![cur] = IF Overload THEN n ELSE b]
    BY <1>1, <1>2, <1>3, <1>6, <1>7 DEF CyclicRearm
  <1>13. /\ n \in -MaxLate..Longest /\ n + age <= MaxLate + Longest
         /\ ~(b < 0) => b \in -MaxLate..Longest /\ b + age <= MaxLate + Longest
    <2> HIDE DEF Longest
    <2> QED  BY <1>0, <1>2, <1>3, <1>6
  <1>14. CASE Overload
    <2>1. Arm(cur, at1) /\ left' = [left EXCEPT ![cur] = n]  BY <1>12, <1>14
    <2> QED  BY <1>1, <1>9, <1>13, <2>1, ArmedKeeps
  <1>15. CASE ~Overload
    <2>1. Arm(cur, at2) /\ left' = [left EXCEPT ![cur] = b]  BY <1>12, <1>15
    <2>2. b \in -MaxLate..Longest /\ b + age <= MaxLate + Longest  BY <1>11, <1>13, <1>15
    <2> QED  BY <1>1, <1>10, <2>1, <2>2, ArmedKeeps
  <1> QED  BY <1>14, <1>15

(* sys_timeout: a timer other than a cyclic one is armed for its interval. *)
LEMMA SetKeeps ==
  ASSUME Margin, ListInv, NEW real, NEW age, ClockInvOf(real, age),
         NEW tm \in Timer, tm \notin Pending, tm \notin Cyclic, Arm(tm, SysNow + Interval[tm]),
         left' = [left EXCEPT ![tm] = Interval[tm]], UNCHANGED <<ticks, now, wait, msgs>>,
         cur' = None, cur = None \/ cur = tm, pc' # "handler",
         pc' = pc \/ (pc = "handler" /\ pc' = "check")
  PROVE  ClockInv'
  <1>1. /\ MaxLate \in Nat /\ Longest \in Nat /\ Interval[tm] \in Nat \ {0} /\ Interval[tm] <= Longest
        /\ SysNow \in Nat
    BY MarginIs, SysNowIs DEF ListInv
  <1>2. PICK x \in Int : x = Interval[tm] /\ x >= 1 /\ x \in -MaxLate..Longest
    <2> HIDE DEF Longest
    <2> QED  BY <1>1
  <1>3. PICK at \in Int : at = SysNow + x  BY <1>1
  <1>4. Cong(at % Word, SysNow + x)  BY <1>3, CongMod
  <1>5. Arm(tm, at) /\ left' = [left EXCEPT ![tm] = x]  BY <1>2, <1>3
  <1> QED  BY <1>2, <1>4, <1>5, ArmedKeeps

-----------------------------------------------------------------------------
(* Every step keeps the invariant if a tick moves sys_now by its length. *)
LEMMA ClockInvStep ==
  ASSUME Margin, ListInv, ClockInv, [Next]_vars, [KeepsTime]_vars
  PROVE  ClockInv'
  <1>1. PICK real \in [Timer -> Int], age \in Nat : ClockInvOf(real, age)  BY DEF ClockInv
  <1>2. None \notin Timer /\ TcpTmr \notin Cyclic \cup OneShot /\ Cyclic \cap OneShot = {}  BY PoolAssumption
  <1>3. OneShot \subseteq Timer /\ TcpTmr \in Timer /\ Cyclic \subseteq Timer  BY DEF Timer
  <1>4. /\ now \in U32 /\ msgs \in 0..MaxMsgs /\ wait \in 0..Longest /\ 0 \in U32 /\ 0 \in 0..Longest
    <2>1. 0 \in U32  BY WordIs DEF U32
    <2>2. 0 \in 0..Longest  BY MarginIs
    <2> QED  BY <1>1, <2>1, <2>2 DEF ClockInvOf
  <1>5. CASE Tick
    <2>1. ~UNCHANGED vars
      <3> SUFFICES ASSUME ticks' = ticks PROVE FALSE  BY DEF vars
      <3>1. ticks \in U32 /\ ticks = (ticks + 1) % Word  BY <1>5 DEF ListInv, Tick
      <3>2. Word \in Nat /\ Word >= 4 /\ ticks \in Nat /\ ticks <= Word - 1  BY <3>1, WordIs DEF U32
      <3>3. CASE ticks = Word - 1
        <4>1. ticks + 1 = 0 + 1 * Word /\ 0 \in 0..(Word - 1)  BY <3>2, <3>3
        <4>2. (ticks + 1) % Word = 0  BY <3>2, <4>1, ModIs
        <4> QED  BY <3>1, <3>2, <3>3, <4>2
      <3>4. CASE ticks # Word - 1
        <4>1. ticks + 1 = (ticks + 1) + 0 * Word /\ ticks + 1 \in 0..(Word - 1)  BY <3>2, <3>4
        <4>2. (ticks + 1) % Word = ticks + 1  BY <3>2, <4>1, ModIs
        <4> QED  BY <3>1, <3>2, <4>2
      <3> QED  BY <3>3, <3>4
    <2>2. SysNow' = (SysNow + TickMs) % Word  BY <1>5, <2>1 DEF KeepsTime
    <2> QED  BY <1>1, <1>5, <2>2, TickKeeps
  <1>6. CASE Post
    <2>1. /\ UNCHANGED <<ticks, list, due, pc, now, cur, wait, left>> /\ msgs' = msgs + 1 /\ msgs < MaxMsgs
      BY <1>6 DEF Post
    <2>2. msgs' \in 0..MaxMsgs  BY <1>4, <2>1, BoundsAssumption
    <2> QED  BY <1>1, <1>4, <2>1, <2>2, StillKeeps
  <1>7. CASE Again
    <2>1. pc = "again" /\ UNCHANGED <<ticks, list, due, now, cur, msgs, left>>  BY <1>7 DEF Again
    <2>2. CASE SleepTime = 0 /\ pc' = "start" /\ UNCHANGED wait
      BY <1>1, <1>4, <2>1, <2>2, StillKeeps
    <2>3. CASE SleepTime # 0 /\ pc' = "wait" /\ wait' = FetchTicks(SleepTime)
      BY <1>1, <2>1, <2>3, SleepKeeps
    <2> QED  BY <1>7, <2>2, <2>3 DEF Again
  <1>8. CASE FetchMsg
    <2>1. /\ UNCHANGED <<ticks, list, due, now, cur, left>> /\ msgs' = msgs - 1 /\ msgs > 0
          /\ pc' = "again" /\ wait' = 0
      BY <1>8 DEF FetchMsg
    <2>2. msgs' \in 0..MaxMsgs  BY <1>4, <2>1, BoundsAssumption
    <2> QED  BY <1>1, <1>4, <2>1, <2>2, StillKeeps
  <1>9. CASE FetchTimeout
    BY <1>1, <1>4, <1>9, StillKeeps DEF FetchTimeout
  <1>10. CASE CheckStart
    BY <1>1, <1>10, StartKeeps
  <1>11. CASE CheckFire
    <2>1. /\ pc = "check" /\ Expired /\ list' = Tail(list) /\ due' = list[1].time
          /\ UNCHANGED <<ticks, now, wait, msgs>>
      BY <1>11 DEF CheckFire
    <2>2. CASE cur' = list[1].timer /\ pc' = "handler" /\ UNCHANGED left
      BY <1>1, <2>1, <2>2, FiredKeeps
    <2>3. CASE list[1].timer \in OneShot /\ left' = [left EXCEPT ![list[1].timer] = 0] /\ UNCHANGED <<cur, pc>>
      <3>1. list # <<>>  BY <2>1 DEF Expired
      <3>2. TakenOut(list, list', 1)  BY <2>1, <3>1, FireRemoves
      <3>3. PICK tm \in Timer : tm = list[1].timer /\ tm \notin Cyclic  BY <1>2, <1>3, <2>3
      <3>4. left' = [left EXCEPT ![tm] = 0]  BY <2>3, <3>3
      <3> QED  BY <1>1, <2>1, <2>3, <3>2, <3>3, <3>4, DroppedKeeps
    <2> QED  BY <1>11, <2>2, <2>3 DEF CheckFire
  <1>12. CASE CyclicRearm
    BY <1>1, <1>12, RearmKeeps
  <1>13. CASE TcpTimer
    <2>1. PICK more \in {pcbs, FALSE} :
            /\ IF more THEN Arm(TcpTmr, SysNow + Interval[TcpTmr]) ELSE UNCHANGED list
            /\ left' = [left EXCEPT ![TcpTmr] = IF more THEN Interval[TcpTmr] ELSE 0]
      BY <1>13 DEF TcpTimer
    <2>2. /\ cur = TcpTmr /\ UNCHANGED <<ticks, due, now, wait, msgs>> /\ cur' = None
          /\ pc' = "check" /\ pc = "handler"
      BY <1>13 DEF TcpTimer
    <2>3. TcpTmr \notin Pending /\ TcpTmr \notin Cyclic  BY <1>2, <2>2 DEF ListInv
    <2>4. CASE more
      <3>1. Arm(TcpTmr, SysNow + Interval[TcpTmr]) /\ left' = [left EXCEPT ![TcpTmr] = Interval[TcpTmr]]
        BY <2>1, <2>4
      <3> QED  BY <1>1, <1>3, <2>2, <2>3, <3>1, SetKeeps
    <2>5. CASE ~more
      <3>1. UNCHANGED list /\ left' = [left EXCEPT ![TcpTmr] = 0]  BY <2>1, <2>5
      <3> QED  BY <1>1, <2>2, <3>1, StoppedKeeps
    <2> QED  BY <2>4, <2>5
  <1>14. CASE CheckDone
    BY <1>1, <1>4, <1>14, StillKeeps DEF CheckDone
  <1>15. ASSUME NEW tm \in OneShot, SysTimeout(tm) PROVE ClockInv'
    <2>1. /\ tm \notin Pending /\ Arm(tm, SysNow + Interval[tm]) /\ left' = [left EXCEPT ![tm] = Interval[tm]]
          /\ UNCHANGED <<ticks, due, pc, now, cur, wait, msgs>> /\ pc \in {"wait", "again", "check"}
      BY <1>15 DEF SysTimeout, CoreCall
    <2>2. cur = None /\ tm \in Timer /\ tm \notin Cyclic  BY <1>2, <1>3, <2>1 DEF ListInv
    <2> QED  BY <1>1, <2>1, <2>2, SetKeeps
  <1>16. ASSUME NEW tm \in OneShot, SysUntimeout(tm) PROVE ClockInv'
    <2>1. /\ tm \in Pending /\ list' = RemoveFirstMatch(list, LAMBDA x : x.timer = tm)
          /\ left' = [left EXCEPT ![tm] = 0]
          /\ UNCHANGED <<ticks, due, pc, now, cur, wait, msgs>> /\ pc \in {"wait", "again", "check"}
      BY <1>16 DEF SysUntimeout, CoreCall
    <2>2. \E i \in 1..Len(list) : list[i].timer = tm  BY <2>1 DEF Pending
    <2>3. PICK k \in 1..Len(list) : list[k].timer = tm /\ TakenOut(list, list', k)
      BY <2>1, <2>2, RemoveIs DEF ListInv
    <2>4. tm \in Timer /\ tm \notin Cyclic  BY <1>2, <1>3
    <2> QED  BY <1>1, <2>1, <2>3, <2>4, DroppedKeeps
  <1>17. CASE TcpReg
    <2>1. UNCHANGED <<ticks, due, pc, now, cur, wait, msgs>> /\ pc \in {"wait", "again", "check"}
      BY <1>17 DEF TcpReg, CoreCall
    <2>2. CASE tcpActive
      <3>1. UNCHANGED <<list, left>>  BY <1>17, <2>2 DEF TcpReg
      <3> QED  BY <1>1, <1>4, <2>1, <3>1, StillKeeps
    <2>3. CASE ~tcpActive
      <3>1. Arm(TcpTmr, SysNow + Interval[TcpTmr]) /\ left' = [left EXCEPT ![TcpTmr] = Interval[TcpTmr]]
        BY <1>17, <2>3 DEF TcpReg
      <3>2. TcpTmr \notin Pending /\ TcpTmr \notin Cyclic /\ cur = None  BY <1>2, <2>1, <2>3 DEF ListInv, Running
      <3> QED  BY <1>1, <1>3, <2>1, <3>1, <3>2, SetKeeps
    <2> QED  BY <2>2, <2>3
  <1>18. CASE TcpRmv
    BY <1>1, <1>4, <1>18, StillKeeps DEF TcpRmv
  <1>19. CASE UNCHANGED vars
    BY <1>1, <1>4, <1>19, StillKeeps DEF vars
  <1> QED
    BY <1>5, <1>6, <1>7, <1>8, <1>9, <1>10, <1>11, <1>12, <1>13, <1>14, <1>15, <1>16, <1>17, <1>18, <1>19
    DEF Next, ThreadStep

(* sys_timeouts_init dates the cyclic timers from tick 0. *)
LEMMA ClockInvInit ==
  ASSUME Margin, Init
  PROVE  ClockInv
  <1>0. /\ Quarter \in Nat /\ MaxLate \in Nat /\ Longest \in Nat /\ Longest + MaxLate = Quarter
        /\ \A tm \in Timer : Interval[tm] \in Nat \ {0} /\ Interval[tm] <= Longest
    BY MarginIs
  <1>1. /\ Pending = Cyclic /\ list \in Seq(Timeo)
        /\ \A i \in 1..Len(list) : list[i].timer \in Cyclic /\ list[i].time = Interval[list[i].timer]
        /\ \A i, j \in 1..Len(list) : i < j => list[i].time <= list[j].time
    BY InitList
  <1>2. Cyclic \subseteq Timer /\ None \notin Cyclic  BY PoolAssumption DEF Timer
  <1>3. Running = Cyclic  BY <1>1 DEF Running, Init
  <1>4. left = [tm \in Timer |-> IF tm \in Cyclic THEN Interval[tm] ELSE 0]  BY DEF Init
  <1>5. \A tm \in Timer : left[tm] \in Int /\ left[tm] \in -MaxLate..Longest /\ left[tm] >= 0
    <2> TAKE tm \in Timer
    <2>1. left[tm] = IF tm \in Cyclic THEN Interval[tm] ELSE 0  BY <1>4
    <2>2. Interval[tm] \in Nat \ {0} /\ Interval[tm] <= Longest  BY <1>0
    <2>3. PICK n \in Nat : n = Interval[tm] /\ n <= Longest  BY <2>2
    <2> HIDE DEF Longest
    <2> QED  BY <1>0, <2>1, <2>3
  <1>6. left \in [Timer -> Int] /\ left \in [Timer -> -MaxLate..Longest]  BY <1>4, <1>5
  <1>7. Spans(left)
    <2>1. ASSUME NEW tm \in Timer PROVE left[tm] \in -Quarter..Longest /\ left[tm] = Clamped(left[tm]) /\ left[tm] >= -MaxLate
      <3>1. PICK x \in Int : x = left[tm] /\ x \in -MaxLate..Longest  BY <1>5
      <3> HIDE DEF Quarter, Longest
      <3>2. x \in -Quarter..Longest /\ x >= -MaxLate  BY <1>0, <3>1
      <3>3. x = Clamped(x)  BY <1>0, <3>2 DEF Clamped
      <3> QED  BY <3>1, <3>2, <3>3
    <2> QED  BY <1>2, <1>3, <2>1 DEF Spans
  <1>8. SysNow = 0
    <2>1. ticks = 0 /\ Hz \in Nat \ {0} /\ MsPerSec \in Nat /\ Word \in Nat \ {0}  BY WordIs, ClockAssumption DEF Init
    <2>2. 0 * MsPerSec = 0 /\ 0 % Word = 0 /\ 0 \div Hz = 0  BY <2>1
    <2> QED  BY <2>1, <2>2 DEF SysNow
  <1>9. \A i \in 1..Len(list) : left[list[i].timer] = list[i].time /\ list[i].time \in Int
    <2> TAKE i \in 1..Len(list)
    <2>1. list[i].timer \in Cyclic /\ list[i].timer \in Timer /\ list[i].time = Interval[list[i].timer]
      BY <1>1, <1>2
    <2> QED  BY <1>0, <1>4, <2>1
  <1>10. Dated(list, SysNow, left)
    <2> SUFFICES ASSUME NEW i \in 1..Len(list) PROVE Cong(list[i].time, SysNow + left[list[i].timer])
      BY DEF Dated
    <2>1. PICK t \in Int : t = list[i].time /\ t = left[list[i].timer]  BY <1>9
    <2>2. Cong(t, t) /\ 0 + t = t  BY CongSame
    <2> QED  BY <1>8, <2>1, <2>2
  <1>11. Ordered(list, left)  BY <1>1, <1>9 DEF Ordered
  <1>12. Served(left) /\ Asleep(left) /\ Checking(left, 0)  BY DEF Init, Served, Asleep, Checking
  <1>13. now \in U32 /\ msgs \in 0..MaxMsgs /\ wait \in 0..Longest
    <2>1. 0 \in U32  BY WordIs DEF U32
    <2>2. 0 \in 0..Longest /\ 0 \in 0..MaxMsgs  BY <1>0, BoundsAssumption
    <2> QED  BY <2>1, <2>2 DEF Init
  <1>14. ClockInvOf(left, 0)  BY <1>6, <1>7, <1>10, <1>11, <1>12, <1>13 DEF ClockInvOf
  <1> QED  BY <1>6, <1>14 DEF ClockInv

(* What the invariants say of a single state. *)
LEMMA ClockInvTypes ==
  ASSUME Margin, ListInv, ClockInv
  PROVE  TypeOK
  <1>1. PICK real \in [Timer -> Int], age \in Nat : ClockInvOf(real, age)  BY DEF ClockInv
  <1>2. /\ now \in U32 /\ msgs \in 0..MaxMsgs /\ wait \in 0..Longest /\ left \in [Timer -> -MaxLate..Longest]
    BY <1>1 DEF ClockInvOf
  <1>3. 0..Longest \subseteq U32 /\ -MaxLate..Longest \subseteq -MaxLate..Word
    <2>1. /\ Quarter \in Nat \ {0} /\ Word = 4 * Quarter /\ MaxLate \in Nat /\ Longest \in Nat
          /\ Longest + MaxLate = Quarter
      BY MarginIs
    <2> HIDE DEF Quarter, Longest
    <2>2. Longest <= Word - 1 /\ Word \in Nat  BY <2>1
    <2> QED  BY <2>1, <2>2 DEF U32
  <1>4. left \in [Timer -> -MaxLate..Word]  BY <1>2, <1>3
  <1> QED  BY <1>2, <1>3, <1>4 DEF ListInv, TypeOK, Timeo

(* The list is in the order of what is left. *)
LEMMA ClockInvSorted ==
  ASSUME Margin, ListInv, ClockInv
  PROVE  SortedByTime
  <1>1. PICK real \in [Timer -> Int], age \in Nat : ClockInvOf(real, age)  BY DEF ClockInv
  <1> SUFFICES ASSUME NEW i \in 1..Len(list), NEW j \in 1..Len(list), i < j
               PROVE  ~TimeLessThan(list[j].time, list[i].time)
    BY DEF SortedByTime
  <1>2. /\ list[i].timer \in Running /\ list[i].timer \in Timer /\ list[i].time \in Int
        /\ list[j].timer \in Running /\ list[j].timer \in Timer /\ list[j].time \in Int
    BY ListTimers
  <1>3. PICK a \in Int, b \in Int : a = real[list[i].timer] /\ b = real[list[j].timer]  BY <1>2
  <1>4. a \in -Quarter..Longest /\ b \in -Quarter..Longest  BY <1>1, <1>2, <1>3 DEF ClockInvOf, Spans
  <1>5. Cong(list[i].time, SysNow + a) /\ Cong(list[j].time, SysNow + b)
    BY <1>1, <1>3 DEF ClockInvOf, Dated
  <1>6. a <= b  BY <1>1, <1>3 DEF ClockInvOf, Ordered
  <1>7. SysNow \in Int
    <2>1. SysNow \in Nat  BY SysNowIs DEF ListInv
    <2> QED  BY <2>1
  <1>8. TimeLessThan(list[j].time, list[i].time) <=> b < a
    <2>1. PICK t \in Int, c \in Int, s \in Int : t = list[j].time /\ c = list[i].time /\ s = SysNow  BY <1>2, <1>7
    <2>2. Cong(t, s + b) /\ Cong(c, s + a)  BY <1>5, <2>1
    <2>3. TimeLessThan(t, c) <=> b < a  BY <1>4, <2>2, SpanLess
    <2> QED  BY <2>1, <2>3
  <1> QED  BY <1>3, <1>6, <1>8

(* What has expired at the `now' of sys_check_timeouts is due. *)
LEMMA ClockInvEarly ==
  ASSUME Margin, ListInv, ClockInv
  PROVE  NeverEarly
  <1>1. PICK real \in [Timer -> Int], age \in Nat : ClockInvOf(real, age)  BY DEF ClockInv
  <1> SUFFICES ASSUME pc = "check", Expired PROVE left[list[1].timer] <= 0
    BY DEF NeverEarly
  <1>2. list # <<>>  BY DEF Expired
  <1>3. list[1].timer \in Timer /\ list[1].timer \in Running  BY <1>1, <1>2, FirstIs DEF Running
  <1>4. PICK x \in Int : x = real[list[1].timer]  BY <1>3
  <1>5. x + age <= 0
    <2>1. real[list[1].timer] + age <= 0  BY <1>1, <1>2, ExpiredIs
    <2> QED  BY <1>4, <2>1
  <1>6. left[list[1].timer] = Clamped(x)  BY <1>1, <1>3, <1>4 DEF ClockInvOf, Spans
  <1>7. x <= 0  BY <1>5
  <1>8. Clamped(x) <= 0  BY <1>7, BoundsAssumption DEF Clamped
  <1> QED  BY <1>6, <1>8

(* The invariant is kept as long as every tick moves sys_now by its length. *)
THEOREM ClockInvariant ==
  ASSUME Margin
  PROVE  Spec /\ [][KeepsTime]_vars => [](ListInv /\ ClockInv)
  <1>1. Init => ListInv /\ ClockInv  BY ListInvInit, ClockInvInit
  <1>2. (ListInv /\ ClockInv) /\ [Next]_vars /\ [KeepsTime]_vars => (ListInv /\ ClockInv)'
    BY ListInvStep, ClockInvStep
  <1> QED  BY <1>1, <1>2, PTL DEF Spec

(***************************************************************************)
(* A clock that wraps at the full word, as the one of Hz = 1 does (nothing *)
(* is divided after the product overflowed), moves by TickMs for ever; any *)
(* other of the port does so until the product overflows.                  *)
(***************************************************************************)
LEMMA CongEqual ==
  ASSUME NEW x \in 0..(Word - 1), NEW y \in 0..(Word - 1), NEW z \in Int, Cong(x, z), Cong(y, z)
  PROVE  x = y
  <1>1. Word \in Nat /\ x \in Int /\ y \in Int  BY WordIs
  <1>2. Cong(x, y)  BY <1>1, CongTrans
  <1>3. PICK k \in Int : x = y + k * Word  BY <1>2 DEF Cong
  <1>4. x = x + 0 * Word  BY <1>1
  <1>5. x % Word = y /\ x % Word = x  BY <1>1, <1>3, <1>4, ModIs
  <1> QED  BY <1>5

(* sys_now with nothing to divide by. *)
LEMMA FullWidthKeepsTime ==
  ASSUME Hz = 1, ticks \in U32, Tick
  PROVE  SysNow' = (SysNow + TickMs) % Word
  <1>1. Word \in Nat \ {0} /\ MsPerSec \in Nat /\ ticks \in Nat  BY WordIs, ClockAssumption DEF U32
  <1>2. TickMs = MsPerSec  BY <1>1 DEF TickMs
  <1>3. PICK t \in Nat : t = ticks'
    <2>1. ticks + 1 \in Int  BY <1>1
    <2>2. ticks' \in U32  BY <2>1, WordIs DEF Tick
    <2> QED  BY <2>2 DEF U32
  <1>4. PICK k \in Int : t = (ticks + 1) + k * Word
    <2>1. PICK a \in Int : a = ticks + 1  BY <1>1
    <2>2. t = a % Word  BY <1>3, <2>1 DEF Tick
    <2>3. Cong(t, a)  BY <2>2, CongMod
    <2> QED  BY <2>1, <2>3 DEF Cong
  <1>5. PICK p \in Int, q \in Int : p = ticks * MsPerSec /\ q = t * MsPerSec
    <2>1. ticks * MsPerSec \in Int /\ t * MsPerSec \in Int  BY <1>1
    <2> QED  BY <2>1
  <1>6. q = (p + MsPerSec) + (k * MsPerSec) * Word
    <2>1. t * MsPerSec = (ticks + 1) * MsPerSec + (k * Word) * MsPerSec
      <3>1. PICK a \in Int, w \in Int : a = ticks + 1 /\ w = k * Word  BY <1>1
      <3>2. t = a + w  BY <1>4, <3>1
      <3>3. (a + w) * MsPerSec = a * MsPerSec + w * MsPerSec  BY <1>1
      <3> QED  BY <3>1, <3>2, <3>3
    <2>2. (ticks + 1) * MsPerSec = ticks * MsPerSec + MsPerSec  BY <1>1
    <2>3. (k * Word) * MsPerSec = (k * MsPerSec) * Word  BY <1>1
    <2> QED  BY <1>5, <2>1, <2>2, <2>3
  <1>7. PICK e \in Int : e = p + MsPerSec  BY <1>1
  <1>8. Cong(q, e)
    <2>1. k * MsPerSec \in Int  BY <1>1
    <2> QED  BY <1>6, <1>7, <2>1 DEF Cong
  <1>9. p % Word \in 0..(Word - 1) /\ q % Word \in 0..(Word - 1)  BY WordIs DEF U32
  <1>10. SysNow = p % Word /\ SysNow' = q % Word
    <2>1. \A x \in Int : x \div 1 = x  OBVIOUS
    <2>2. p % Word \in Int /\ q % Word \in Int  BY <1>1, <1>9
    <2>3. SysNow = (p % Word) \div 1  BY <1>5 DEF SysNow
    <2>4. SysNow' = (q % Word) \div 1  BY <1>3, <1>5 DEF SysNow
    <2> QED  BY <2>1, <2>2, <2>3, <2>4
  <1>11. PICK m \in Int : m = p % Word /\ Cong(m, p)
    <2>1. p % Word \in Int  BY <1>1, <1>9
    <2> QED  BY <2>1, CongMod
  <1>12. PICK n \in Int : n = m + MsPerSec  BY <1>1
  <1>13. Cong(n, e)
    <2>1. PICK r \in Int : r = MsPerSec  BY <1>1
    <2>2. Cong(m + r, p + r)  BY <1>11, CongShift
    <2> QED  BY <1>7, <1>12, <2>1, <2>2
  <1>14. n % Word \in 0..(Word - 1) /\ n % Word \in Int  BY <1>1, WordIs DEF U32
  <1>15. Cong(n % Word, e)
    <2>1. Cong(n % Word, n)  BY CongMod
    <2> QED  BY <1>13, <1>14, <2>1, CongTrans
  <1>16. Cong(q % Word, e)
    <2>1. Cong(q % Word, q) /\ q % Word \in Int  BY <1>1, <1>9, CongMod
    <2> QED  BY <1>8, <2>1, CongTrans
  <1>17. q % Word = n % Word  BY <1>9, <1>14, <1>15, <1>16, CongEqual
  <1> QED  BY <1>2, <1>10, <1>11, <1>12, <1>17

(* A number of the word is its own remainder. *)
LEMMA SmallMod ==
  ASSUME NEW x \in Nat, x < Word
  PROVE  x % Word = x
  <1>1. Word \in Nat /\ x = x + 0 * Word /\ x \in 0..(Word - 1)  BY WordIs
  <1> QED  BY <1>1, ModIs

(* Division undoes multiplication. *)
LEMMA DivTimes ==
  ASSUME NEW x \in Nat, NEW n \in Nat \ {0}
  PROVE  (x * n) \div n = x
  OBVIOUS

(* sys_now before the product overflows. *)
LEMMA NoOverflowKeepsTime ==
  ASSUME ticks \in U32, Tick, (ticks + 1) * MsPerSec < Word
  PROVE  SysNow' = (SysNow + TickMs) % Word
  <1>1. Word \in Nat \ {0} /\ MsPerSec \in Nat \ {0} /\ Hz \in Nat \ {0} /\ ticks \in Nat
    BY WordIs, ClockAssumption DEF U32
  <1>2. PICK n \in Nat : n = TickMs /\ MsPerSec = n * Hz
    <2>1. MsPerSec % Hz = 0  BY ClockAssumption
    <2>2. MsPerSec \div Hz \in Nat /\ MsPerSec = Hz * (MsPerSec \div Hz)  BY <1>1, <2>1
    <2>3. PICK d \in Nat : d = MsPerSec \div Hz  BY <2>2
    <2>4. MsPerSec = d * Hz  BY <1>1, <2>2, <2>3
    <2> QED  BY <2>3, <2>4 DEF TickMs
  <1>3. ASSUME NEW t \in Nat, t * MsPerSec < Word PROVE ((t * MsPerSec) % Word) \div Hz = t * n
    <2>1. t * MsPerSec \in Nat /\ t * MsPerSec = (t * n) * Hz /\ t * n \in Nat  BY <1>1, <1>2
    <2>2. (t * MsPerSec) % Word = t * MsPerSec  BY <1>3, <2>1, SmallMod
    <2>3. ((t * n) * Hz) \div Hz = t * n  BY <1>1, <2>1, DivTimes
    <2> QED  BY <2>1, <2>2, <2>3
  <1>4. ticks + 1 \in Nat /\ (ticks + 1) * MsPerSec >= ticks + 1  BY <1>1
  <1>5. (ticks + 1) * MsPerSec = ticks * MsPerSec + MsPerSec  BY <1>1
  <1>6. ticks * MsPerSec < Word /\ ticks + 1 < Word
    <2>1. PICK a \in Nat, b \in Nat : a = ticks * MsPerSec /\ b = (ticks + 1) * MsPerSec  BY <1>1, <1>4
    <2> QED  BY <1>1, <1>4, <1>5, <2>1
  <1>7. ticks' = ticks + 1  BY <1>4, <1>6, SmallMod DEF Tick
  <1>8. SysNow = ticks * n /\ SysNow' = (ticks + 1) * n  BY <1>1, <1>3, <1>4, <1>6, <1>7 DEF SysNow
  <1>9. (ticks + 1) * n = ticks * n + n /\ ticks * n + n \in Nat  BY <1>1, <1>2
  <1>10. (ticks + 1) * n < Word
    <2>1. PICK b \in Nat : b = (ticks + 1) * n  BY <1>1
    <2>2. (ticks + 1) * MsPerSec = b * Hz  BY <1>1, <1>2, <2>1
    <2>3. b <= b * Hz /\ b * Hz \in Nat  BY <1>1
    <2> QED  BY <1>1, <2>1, <2>2, <2>3
  <1>11. (ticks * n + n) % Word = ticks * n + n  BY <1>9, <1>10, SmallMod
  <1> QED  BY <1>2, <1>8, <1>9, <1>11

(* On a clock that wraps at the full word, the variables have the types of
   the C code for ever: in particular no wait of the thread, computed by
   subtracting clock values (sys_timeouts_sleeptime), exceeds a word. *)
THEOREM TimersTypeCorrect ==
  ASSUME Margin, Hz = 1
  PROVE  Spec => []TypeOK
  <1>1. ListInv /\ [Next]_vars => [KeepsTime]_vars  BY FullWidthKeepsTime DEF ListInv, KeepsTime
  <1>2. ListInv /\ ClockInv => TypeOK  BY ClockInvTypes
  <1> QED  BY <1>1, <1>2, ListInvariant, ClockInvariant, PTL DEF Spec

(* On such a clock the list keeps every timer and stays sorted across every
   wraparound (sys_timeout_abs, timeouts.c, lines 205-220). *)
THEOREM TimersListSane ==
  ASSUME Margin, Hz = 1
  PROVE  Spec => []ListSane
  <1>1. ListInv /\ [Next]_vars => [KeepsTime]_vars  BY FullWidthKeepsTime DEF ListInv, KeepsTime
  <1>2. ListInv /\ ClockInv => ListSane  BY ListInvLosesNone, ClockInvSorted DEF ListSane
  <1> QED  BY <1>1, <1>2, ListInvariant, ClockInvariant, PTL DEF Spec

(* On such a clock sys_check_timeouts runs no handler before its time
   (timeouts.c, line 373), however late the thread is. *)
THEOREM TimersNeverEarly ==
  ASSUME Margin, Hz = 1
  PROVE  Spec => []NeverEarly
  <1>1. ListInv /\ [Next]_vars => [KeepsTime]_vars  BY FullWidthKeepsTime DEF ListInv, KeepsTime
  <1>2. ListInv /\ ClockInv => NeverEarly  BY ClockInvEarly
  <1> QED  BY <1>1, <1>2, ListInvariant, ClockInvariant, PTL DEF Spec

(* At every tick rate all of it holds until the product in sys_now overflows
   (sys_arch.c).  The run across the overflow shows that it holds no longer. *)
THEOREM TimersRightUntilOverflow ==
  ASSUME Margin
  PROVE  Spec /\ [][Tick => (ticks + 1) * MsPerSec < Word]_vars
           => [](TypeOK /\ ListSane /\ NeverEarly)
  <1>1. ListInv /\ [Tick => (ticks + 1) * MsPerSec < Word]_vars => [KeepsTime]_vars
    BY NoOverflowKeepsTime DEF ListInv, KeepsTime
  <1>2. ListInv /\ ClockInv => TypeOK /\ ListSane /\ NeverEarly
    BY ListInvLosesNone, ClockInvTypes, ClockInvSorted, ClockInvEarly DEF ListSane
  <1> QED  BY <1>1, <1>2, ListInvariant, ClockInvariant, PTL

=============================================================================
