---------------------------- MODULE IpReassProofs ----------------------------
(***************************************************************************)
(* Theorems about IpReass, for every pool of pbufs, every set of fragments *)
(* on the wire, well formed or not, and every limit.                       *)
(***************************************************************************)
EXTENDS IpReass, FiniteSetTheorems, NaturalsInduction, WellFoundedInduction, TLAPS

-----------------------------------------------------------------------------
(* A set of naturals that is not empty has a least element: the form in which
   the lemmas below use induction. *)
LEMMA LeastNat ==
  ASSUME NEW T \in SUBSET Nat, T # {}
  PROVE  \E n \in T : \A m \in T : n <= m
  <1> DEFINE R == OpToRel(<, Nat)
  <1>1. IsWellFoundedOn(R, Nat)  BY NatLessThanWellFounded
  <1>2. PICK n \in T : \A m \in T : <<m, n>> \notin R
    <2> HIDE DEF R
    <2> QED  BY <1>1, WFMin
  <1>3. \A m \in T : ~(m < n)  BY <1>2 DEF R, OpToRel
  <1> QED  BY <1>3

(* A bounded set of naturals that is not empty has a greatest element. *)
LEMMA GreatestNat ==
  ASSUME NEW N \in Nat, NEW T \in SUBSET (0..N), T # {}
  PROVE  \E n \in T : \A m \in T : m <= n
  <1> DEFINE U == {N - m : m \in T}
  <1>0. \A m \in T : m \in Nat /\ m <= N /\ N - m \in Nat  OBVIOUS
  <1>1. U \in SUBSET Nat /\ U # {}  BY <1>0
  <1>2. PICK u \in U : \A v \in U : u <= v
    <2> HIDE DEF U
    <2> QED  BY <1>1, LeastNat
  <1>3. PICK n \in T : u = N - n  BY <1>2
  <1>4. \A m \in T : N - n <= N - m  BY <1>2, <1>3
  <1> QED  BY <1>0, <1>4

-----------------------------------------------------------------------------
(***************************************************************************)
(* Without: how the list is walked, and what the walk leaves.              *)
(***************************************************************************)
KeptStep(list, S, g, i) ==
  IF i = 0 THEN <<>>
  ELSE IF list[i] \in S THEN g[i - 1] ELSE Append(g[i - 1], list[i])

IsWalk(X, list, S, n, g) ==
  g \in [0..n -> Seq(X)] /\ \A i \in 0..n : g[i] = KeptStep(list, S, g, i)

(* The first n steps of the walk can be taken. *)
LEMMA WalkExists ==
  ASSUME NEW X, NEW list \in Seq(X), NEW S
  PROVE  \A n \in 0..Len(list) : \E g : IsWalk(X, list, S, n, g)
  <1> DEFINE T == {n \in 0..Len(list) : ~\E g : IsWalk(X, list, S, n, g)}
  <1>1. T = {}
    <2> SUFFICES ASSUME T # {} PROVE FALSE  OBVIOUS
    <2>1. T \in SUBSET Nat  OBVIOUS
    <2>2. PICK n \in T : \A m \in T : n <= m
      <3> HIDE DEF T
      <3> QED  BY <2>1, LeastNat
    <2>3. n \in 0..Len(list) /\ n \in Nat /\ Len(list) \in Nat  OBVIOUS
    <2>4. CASE n = 0
      <3>1. IsWalk(X, list, S, 0, [i \in 0..0 |-> <<>>])  BY DEF IsWalk, KeptStep
      <3> QED  BY <3>1, <2>4
    <2>5. CASE n # 0
      <3>1. n - 1 \in 0..Len(list) /\ ~(n <= n - 1)  BY <2>3, <2>5
      <3>2. n - 1 \notin T
        <4> HIDE DEF T
        <4> QED  BY <3>1, <2>2
      <3>3. PICK g : IsWalk(X, list, S, n - 1, g)  BY <3>1, <3>2
      <3>4. g[n - 1] \in Seq(X) /\ list[n] \in X  BY <3>3, <3>1, <2>3, <2>5 DEF IsWalk
      <3>5. KeptStep(list, S, g, n) \in Seq(X)  BY <3>4, <2>5 DEF KeptStep
      <3> DEFINE h == [i \in 0..n |-> IF i = n THEN KeptStep(list, S, g, n) ELSE g[i]]
      <3>6. h \in [0..n -> Seq(X)]
        <4>1. \A i \in 0..n : i # n => i \in 0..(n - 1)  BY <2>3
        <4> QED  BY <3>3, <3>5, <4>1 DEF IsWalk
      <3>7. \A i \in 0..n : h[i] = KeptStep(list, S, h, i)
        <4> TAKE i \in 0..n
        <4>1. CASE i = n
          <5>1. h[n - 1] = g[n - 1]  BY <2>3, <2>5
          <5> QED  BY <4>1, <5>1, <2>3, <2>5 DEF KeptStep
        <4>2. CASE i # n
          <5>1. i \in 0..(n - 1)  BY <4>2, <2>3
          <5>2. g[i] = KeptStep(list, S, g, i)  BY <5>1, <3>3 DEF IsWalk
          <5>3. i # 0 => h[i - 1] = g[i - 1]  BY <5>1, <2>3
          <5>4. h[i] = g[i]  BY <4>2
          <5> QED  BY <5>2, <5>3, <5>4 DEF KeptStep
        <4> QED  BY <4>1, <4>2
      <3>8. IsWalk(X, list, S, n, h)  BY <3>6, <3>7 DEF IsWalk
      <3> QED  BY <3>8
    <2> QED  BY <2>4, <2>5
  <1> QED  BY <1>1

(* Without is the last step of such a walk. *)
LEMMA WithoutWalks ==
  ASSUME NEW X, NEW list \in Seq(X), NEW S
  PROVE  \E g : /\ \A i \in 0..Len(list) : g[i] = KeptStep(list, S, g, i)
                /\ Without(list, S) = g[Len(list)]
  <1> DEFINE N == Len(list)
  <1> DEFINE body(k) == [i \in 0..N |-> KeptStep(list, S, k, i)]
  <1>0. N \in Nat /\ N \in 0..N  OBVIOUS
  <1>1. PICK g : IsWalk(X, list, S, N, g)  BY <1>0, WalkExists
  <1>2. g = body(g)  BY <1>1 DEF IsWalk
  <1> DEFINE kept == CHOOSE k : k = body(k)
  <1>3. kept = body(kept)
    <2> HIDE DEF body
    <2> QED  BY <1>2
  <1>4. Without(list, S) = kept[N]  BY DEF Without, KeptStep
  <1> HIDE DEF kept
  <1>5. \A i \in 0..N : kept[i] = KeptStep(list, S, kept, i)  BY <1>3
  <1> QED  BY <1>4, <1>5

(* What is left is a shorter list of the datagrams that are not in S. *)
LEMMA WithoutList ==
  ASSUME NEW X, NEW list \in Seq(X), NEW S
  PROVE  /\ Without(list, S) \in Seq(X)
         /\ Len(Without(list, S)) <= Len(list)
         /\ IdsOf(Without(list, S)) = IdsOf(list) \ S
  <1> DEFINE N == Len(list)
  <1>0. N \in Nat  OBVIOUS
  <1>1. PICK g : /\ \A i \in 0..N : g[i] = KeptStep(list, S, g, i)
                 /\ Without(list, S) = g[N]
    BY WithoutWalks
  <1> DEFINE Up(i) == {list[j] : j \in 1..i} \ S
  <1> DEFINE Good(i) == g[i] \in Seq(X) /\ Len(g[i]) <= i /\ IdsOf(g[i]) = Up(i)
  <1> DEFINE T == {n \in 0..N : ~Good(n)}
  <1>2. T = {}
    <2> SUFFICES ASSUME T # {} PROVE FALSE  OBVIOUS
    <2>1. T \in SUBSET Nat  BY <1>0
    <2>2. PICK n \in T : \A m \in T : n <= m
      <3> HIDE DEF T
      <3> QED  BY <2>1, LeastNat
    <2>3. n \in 0..N /\ n \in Nat  BY <1>0
    <2>4. g[n] = KeptStep(list, S, g, n)  BY <1>1, <2>3
    <2>5. CASE n = 0
      <3>1. g[0] = <<>>  BY <2>4, <2>5 DEF KeptStep
      <3>2. Good(0)  BY <3>1 DEF IdsOf
      <3> QED  BY <3>2, <2>5
    <2>6. CASE n # 0
      <3>1. n - 1 \in 0..N /\ ~(n <= n - 1)  BY <1>0, <2>3, <2>6
      <3>2. n - 1 \notin T
        <4> HIDE DEF T
        <4> QED  BY <3>1, <2>2
      <3>3. g[n - 1] \in Seq(X) /\ Len(g[n - 1]) <= n - 1 /\ IdsOf(g[n - 1]) = Up(n - 1)
        BY <3>1, <3>2
      <3>4. list[n] \in X /\ 1..n = (1..(n - 1)) \cup {n}  BY <1>0, <2>3, <2>6
      <3>5. {list[j] : j \in 1..n} = {list[j] : j \in 1..(n - 1)} \cup {list[n]}  BY <3>4
      <3>6. CASE list[n] \in S
        <4>1. g[n] = g[n - 1]  BY <2>4, <2>6, <3>6 DEF KeptStep
        <4>2. Up(n) = Up(n - 1)  BY <3>5, <3>6
        <4>3. Len(g[n]) <= n  BY <4>1, <3>3, <2>3
        <4>4. Good(n)  BY <4>1, <4>2, <4>3, <3>3
        <4> QED  BY <4>4
      <3>7. CASE list[n] \notin S
        <4>1. g[n] = Append(g[n - 1], list[n])  BY <2>4, <2>6, <3>7 DEF KeptStep
        <4>2. Up(n) = Up(n - 1) \cup {list[n]}  BY <3>5, <3>7
        <4>3. g[n] \in Seq(X) /\ Len(g[n]) <= n  BY <4>1, <3>3, <3>4, <2>3
        <4>4. IdsOf(g[n]) = IdsOf(g[n - 1]) \cup {list[n]}
          <5> DEFINE q == g[n - 1]
          <5>1. q \in Seq(X) /\ DOMAIN q = 1..Len(q) /\ Len(q) \in Nat  BY <3>3
          <5>2. DOMAIN Append(q, list[n]) = (1..Len(q)) \cup {Len(q) + 1}  BY <5>1, <3>4
          <5>3. Append(q, list[n])[Len(q) + 1] = list[n]  BY <5>1, <3>4
          <5>4. \A i \in 1..Len(q) : Append(q, list[n])[i] = q[i]  BY <5>1, <3>4
          <5> HIDE DEF q
          <5> QED  BY <4>1, <5>1, <5>2, <5>3, <5>4 DEF IdsOf, q
        <4>5. Good(n)  BY <4>2, <4>3, <4>4, <3>3
        <4> QED  BY <4>5
      <3> QED  BY <3>6, <3>7
    <2> QED  BY <2>5, <2>6
  <1>3. Good(N)
    <2> HIDE DEF Good
    <2> QED  BY <1>2, <1>0
  <1>4. Up(N) = IdsOf(list) \ S  BY <1>0 DEF IdsOf
  <1> QED  BY <1>1, <1>3, <1>4

-----------------------------------------------------------------------------
(***************************************************************************)
(* What holds of the reassembly between any two calls, and inside one      *)
(* except for the datagrams of E: those ip_reass_enqueue_new_datagram has  *)
(* put on the list and that have no fragment yet.                          *)
(***************************************************************************)
Entry == [frags : SUBSET Pbuf, last : BOOLEAN, len : 0..MaxLen, timer : 0..MaxAge]
State == [list : Seq(Id), ipr : [Id -> Entry], count : Int, freed : SUBSET Pbuf,
          out : [frags : SUBSET Pbuf, len : Nat]]

HeldIn(s) == UNION {s.ipr[d].frags : d \in Id}

Disjoint(s) == \A d, e \in Id : d # e => s.ipr[d].frags \cap s.ipr[e].frags = {}
Listed(s, E) ==
  \A d \in Id : /\ s.ipr[d].frags # {} => d \in IdsOf(s.list)
                /\ d \in IdsOf(s.list) \ E => s.ipr[d].frags # {}

Sound(s, E) ==
  /\ s \in State
  /\ Disjoint(s) /\ Listed(s, E)
  /\ s.count = Cardinality(HeldIn(s))
  /\ HeldIn(s) \cap s.freed = {}
  /\ s.count <= MaxPbufs /\ Len(s.list) <= NumReassdata

(* No pbuf comes or goes between s and t but those of P, which t has. *)
Accounts(s, t, P) == HeldIn(t) \cup t.freed = HeldIn(s) \cup s.freed \cup P

(* The pbufs a state holds are finitely many. *)
LEMMA HeldFinite ==
  ASSUME NEW s \in State
  PROVE  /\ HeldIn(s) \subseteq Pbuf /\ IsFiniteSet(HeldIn(s))
         /\ Cardinality(HeldIn(s)) \in Nat
         /\ \A d \in Id : /\ s.ipr[d].frags \subseteq HeldIn(s)
                          /\ IsFiniteSet(s.ipr[d].frags)
                          /\ Cardinality(s.ipr[d].frags) \in Nat
  <1>1. \A d \in Id : s.ipr[d].frags \subseteq Pbuf  BY DEF State, Entry
  <1>2. HeldIn(s) \subseteq Pbuf /\ \A d \in Id : s.ipr[d].frags \subseteq HeldIn(s)
    BY <1>1 DEF HeldIn
  <1>3. IsFiniteSet(Pbuf)  BY ReassAssumption
  <1> QED  BY <1>1, <1>2, <1>3, FS_Subset, FS_CardinalityType

(* The fields ip_reass_dequeue_datagram leaves. *)
LEMMA DequeueFields ==
  ASSUME NEW s \in State, NEW d \in Id
  PROVE  LET t == Dequeue(s, d)
         IN  /\ t \in State
             /\ t.list = Without(s.list, {d})
             /\ t.ipr = [s.ipr EXCEPT ![d] = NoData]
             /\ t.count = s.count /\ t.freed = s.freed /\ t.out = s.out
  <1>1. NoData \in Entry  BY ReassAssumption DEF NoData, Entry
  <1>2. Without(s.list, {d}) \in Seq(Id)  BY WithoutList DEF State
  <1>3. [s.ipr EXCEPT ![d] = NoData] \in [Id -> Entry]  BY <1>1 DEF State
  <1> QED  BY <1>2, <1>3 DEF Dequeue, State

(* Taking a datagram off the list leaves the others as they are. *)
LEMMA DequeueHeld ==
  ASSUME NEW s, NEW t, NEW d \in Id, Disjoint(s), s \in State,
         t.ipr = [s.ipr EXCEPT ![d] = NoData]
  PROVE  /\ HeldIn(t) = HeldIn(s) \ s.ipr[d].frags
         /\ Disjoint(t)
  <1>1. \A e \in Id : t.ipr[e].frags = IF e = d THEN {} ELSE s.ipr[e].frags
    BY DEF State, NoData
  <1>2. Disjoint(t)  BY <1>1 DEF Disjoint
  <1>3. HeldIn(t) = HeldIn(s) \ s.ipr[d].frags
    BY <1>1 DEF HeldIn, Disjoint
  <1> QED  BY <1>2, <1>3

(* ip_reass_free_complete_datagram frees the pbufs of a datagram and takes
   them off the count. *)
LEMMA FreeCompleteSound ==
  ASSUME NEW s, Sound(s, {}), NEW d \in Id
  PROVE  LET t == FreeComplete(s, d)
         IN  Sound(t, {}) /\ Accounts(s, t, {}) /\ t.out = s.out
  <1> DEFINE q == Dequeue(s, d)
             t == FreeComplete(s, d)
             F == s.ipr[d].frags
  <1>0. s \in State  BY DEF Sound
  <1>1. /\ q \in State /\ q.list = Without(s.list, {d})
        /\ q.ipr = [s.ipr EXCEPT ![d] = NoData]
        /\ q.count = s.count /\ q.freed = s.freed /\ q.out = s.out
    BY <1>0, DequeueFields
  <1>2. F \subseteq Pbuf /\ F \subseteq HeldIn(s) /\ IsFiniteSet(HeldIn(s)) /\ IsFiniteSet(F)
        /\ Cardinality(F) \in Nat /\ Cardinality(HeldIn(s)) \in Nat
    BY <1>0, HeldFinite
  <1>3. /\ t \in State /\ t.list = q.list /\ t.ipr = q.ipr /\ t.out = q.out
        /\ t.freed = s.freed \cup F /\ t.count = s.count - Cardinality(F)
    <2> HIDE DEF q
    <2>1. t = [q EXCEPT !.freed = q.freed \cup F, !.count = q.count - Cardinality(F)]
      BY DEF FreeComplete, q
    <2>2. F \subseteq Pbuf /\ Cardinality(F) \in Int  BY <1>2
    <2>3. q.freed \cup F \in SUBSET Pbuf /\ q.count - Cardinality(F) \in Int
      BY <1>1, <2>2 DEF State
    <2> HIDE DEF t, F
    <2> QED  BY <1>1, <2>1, <2>3 DEF State
  <1> HIDE DEF q, t
  <1>4. HeldIn(t) = HeldIn(s) \ F /\ Disjoint(t)
    <2>1. Disjoint(s)  BY DEF Sound
    <2> QED  BY <1>0, <1>1, <1>3, <2>1, DequeueHeld
  <1>5. Cardinality(HeldIn(t)) = Cardinality(HeldIn(s)) - Cardinality(F)
    <2>1. HeldIn(s) \cap F = F  BY <1>2
    <2> QED  BY <1>2, <1>4, <2>1, FS_Difference
  <1>6. IdsOf(t.list) = IdsOf(s.list) \ {d} /\ Len(t.list) <= Len(s.list)
    BY <1>0, <1>1, <1>3, WithoutList DEF State
  <1>7. Listed(t, {})
    <2>1. \A e \in Id : t.ipr[e].frags = IF e = d THEN {} ELSE s.ipr[e].frags
      BY <1>0, <1>1, <1>3 DEF State, NoData
    <2> QED  BY <1>6, <2>1 DEF Sound, Listed
  <1>8. t.count = Cardinality(HeldIn(t)) /\ t.count <= MaxPbufs
    BY <1>2, <1>3, <1>5, ReassAssumption DEF Sound
  <1>9. Len(t.list) <= NumReassdata
    <2>1. s.list \in Seq(Id) /\ t.list \in Seq(Id)  BY <1>0, <1>3 DEF State
    <2> QED  BY <1>6, <2>1, ReassAssumption DEF Sound
  <1>10. HeldIn(t) \cap t.freed = {}  BY <1>3, <1>4 DEF Sound
  <1>11. Accounts(s, t, {})  BY <1>2, <1>3, <1>4 DEF Accounts
  <1> QED  BY <1>1, <1>3, <1>4, <1>7, <1>8, <1>9, <1>10, <1>11 DEF Sound, t

(* The oldest datagram other than d is one of the list. *)
LEMMA OldestListed ==
  ASSUME NEW s \in State, NEW d, ~(IdsOf(s.list) \subseteq {d})
  PROVE  Oldest(s, d) \in IdsOf(s.list) \ {d} /\ Oldest(s, d) \in Id
  <1> DEFINE other == {i \in DOMAIN s.list : s.list[i] # d}
             age(i) == s.ipr[s.list[i]].timer
             Last(i) == \A j \in other : age(i) < age(j) \/ (age(i) = age(j) /\ j <= i)
  <1>1. s.list \in Seq(Id) /\ DOMAIN s.list = 1..Len(s.list) /\ Len(s.list) \in Nat
    BY DEF State
  <1>2. \A i \in other : s.list[i] \in Id /\ age(i) \in Nat /\ i \in 1..Len(s.list)
    BY <1>1, ReassAssumption DEF State, Entry
  <1>3. other # {}  BY DEF IdsOf
  <1>4. \E i \in other : Last(i)
    <2> DEFINE Ages == {age(i) : i \in other}
    <2>1. Ages \in SUBSET Nat /\ Ages # {}  BY <1>2, <1>3
    <2>2. PICK a \in Ages : \A b \in Ages : a <= b
      <3> HIDE DEF Ages
      <3> QED  BY <2>1, LeastNat
    <2> DEFINE Youngest == {i \in other : age(i) = a}
    <2>3. Youngest \in SUBSET (0..Len(s.list)) /\ Youngest # {}
      BY <1>1, <1>2, <2>2
    <2>4. PICK i \in Youngest : \A j \in Youngest : j <= i
      <3> HIDE DEF Youngest
      <3> QED  BY <1>1, <2>3, GreatestNat
    <2>5. ASSUME NEW j \in other PROVE age(i) < age(j) \/ (age(i) = age(j) /\ j <= i)
      <3>1. age(i) = a /\ a <= age(j) /\ a \in Nat /\ age(j) \in Nat
        BY <1>2, <2>1, <2>2, <2>4, <2>5
      <3>2. age(j) = a => j <= i  BY <2>4, <2>5
      <3> HIDE DEF age
      <3> QED  BY <3>1, <3>2
    <2> QED  BY <2>4, <2>5
  <1> DEFINE c == CHOOSE i \in other : Last(i)
  <1>5. c \in other
    <2> HIDE DEF other, Last
    <2> QED  BY <1>4
  <1>6. Oldest(s, d) = s.list[c]  BY DEF Oldest
  <1> HIDE DEF c
  <1> QED  BY <1>2, <1>5, <1>6 DEF IdsOf

(* ip_reass_remove_oldest_datagram keeps the books. *)
LEMMA RemoveOldestSound ==
  ASSUME NEW s, Sound(s, {}), NEW d
  PROVE  LET t == RemoveOldest(s, d)
         IN  Sound(t, {}) /\ Accounts(s, t, {}) /\ t.out = s.out
  <1>1. CASE IdsOf(s.list) \subseteq {d}
    BY <1>1 DEF RemoveOldest, Accounts
  <1>2. CASE ~(IdsOf(s.list) \subseteq {d})
    <2>1. Oldest(s, d) \in Id  BY <1>2, OldestListed DEF Sound
    <2> QED  BY <1>2, <2>1, FreeCompleteSound DEF RemoveOldest
  <1> QED  BY <1>1, <1>2

(* It only lets go of pbufs. *)
LEMMA RemoveOldestShrinks ==
  ASSUME NEW s, Sound(s, {}), NEW d
  PROVE  HeldIn(RemoveOldest(s, d)) \subseteq HeldIn(s)
  <1>1. CASE IdsOf(s.list) \subseteq {d}
    BY <1>1 DEF RemoveOldest
  <1>2. CASE ~(IdsOf(s.list) \subseteq {d})
    <2> DEFINE c == Oldest(s, d)
    <2>1. c \in Id /\ s \in State  BY <1>2, OldestListed DEF Sound
    <2> HIDE DEF c
    <2>2. \A e \in Id : FreeComplete(s, c).ipr[e].frags \subseteq s.ipr[e].frags
      BY <2>1 DEF FreeComplete, Dequeue, State, NoData
    <2>3. HeldIn(FreeComplete(s, c)) \subseteq HeldIn(s)  BY <2>2 DEF HeldIn
    <2> QED  BY <1>2, <2>3 DEF RemoveOldest, c
  <1> QED  BY <1>1, <1>2

(* A new entry has no pbuf: nothing else changes. *)
LEMMA LookupSound ==
  ASSUME NEW s, Sound(s, {}), NEW d \in Id, ~NoStruct(s, d)
  PROVE  LET t == Lookup(s, d)
         IN  /\ Sound(t, {d}) /\ Accounts(s, t, {}) /\ t.out = s.out
             /\ t.count = s.count /\ t.freed = s.freed /\ d \in IdsOf(t.list)
  <1>1. CASE d \in IdsOf(s.list)
    BY <1>1 DEF Lookup, Accounts, Sound, Listed
  <1>2. CASE d \notin IdsOf(s.list)
    <2> DEFINE t == EnqueueNew(s, d)
               n == [NoData EXCEPT !.timer = MaxAge]
    <2>0. s \in State /\ s.list \in Seq(Id) /\ Len(s.list) < NumReassdata
      BY <1>2, ReassAssumption DEF Sound, State, NoStruct
    <2>1. n \in Entry /\ n.frags = {}
      <3>1. NoData \in Entry /\ NoData.frags = {}  BY ReassAssumption DEF NoData, Entry
      <3>2. MaxAge \in 0..MaxAge  BY ReassAssumption
      <3> QED  BY <3>1, <3>2 DEF Entry
    <2>2. <<d>> \o s.list \in Seq(Id) /\ Len(<<d>> \o s.list) = Len(s.list) + 1
      BY <2>0
    <2> HIDE DEF n
    <2>3. /\ t \in State /\ t.list = <<d>> \o s.list /\ t.ipr = [s.ipr EXCEPT ![d] = n]
          /\ t.count = s.count /\ t.freed = s.freed /\ t.out = s.out
      BY <2>0, <2>1, <2>2 DEF EnqueueNew, State, n
    <2> HIDE DEF t
    <2>4. IdsOf(t.list) = IdsOf(s.list) \cup {d}
      <3>1. DOMAIN (<<d>> \o s.list) = 1..(Len(s.list) + 1) /\ Len(s.list) \in Nat
        BY <2>0, <2>2
      <3>2. (<<d>> \o s.list)[1] = d  BY <2>0
      <3>3. \A i \in 1..Len(s.list) : (<<d>> \o s.list)[i + 1] = s.list[i]  BY <2>0
      <3>4. IdsOf(t.list) \subseteq IdsOf(s.list) \cup {d}
        <4> SUFFICES ASSUME NEW i \in 1..(Len(s.list) + 1)
                     PROVE  (<<d>> \o s.list)[i] \in IdsOf(s.list) \cup {d}
          BY <2>3, <3>1 DEF IdsOf
        <4>1. CASE i = 1  BY <4>1, <3>2
        <4>2. CASE i # 1
          <5>1. i - 1 \in 1..Len(s.list) /\ (i - 1) + 1 = i  BY <4>2, <3>1
          <5>2. (<<d>> \o s.list)[i] = s.list[i - 1]  BY <5>1, <3>3
          <5> QED  BY <2>0, <5>1, <5>2 DEF IdsOf
        <4> QED  BY <4>1, <4>2
      <3>5. d \in IdsOf(t.list)  BY <2>3, <3>1, <3>2 DEF IdsOf
      <3>6. IdsOf(s.list) \subseteq IdsOf(t.list)
        <4> SUFFICES ASSUME NEW i \in 1..Len(s.list) PROVE s.list[i] \in IdsOf(t.list)
          BY <2>0 DEF IdsOf
        <4>1. i + 1 \in DOMAIN (<<d>> \o s.list)  BY <3>1
        <4> QED  BY <2>3, <3>3, <4>1 DEF IdsOf
      <3> QED  BY <3>4, <3>5, <3>6
    <2>5. s.ipr[d].frags = {}  BY <1>2 DEF Sound, Listed
    <2>6. \A e \in Id : t.ipr[e].frags = s.ipr[e].frags
      BY <2>0, <2>1, <2>3, <2>5 DEF State
    <2>7. HeldIn(t) = HeldIn(s)  BY <2>6 DEF HeldIn
    <2>8. Disjoint(t) /\ Listed(t, {d})  BY <2>4, <2>6 DEF Sound, Disjoint, Listed
    <2>9. Len(t.list) <= NumReassdata  BY <2>0, <2>2, <2>3, ReassAssumption
    <2>10. Sound(t, {d})  BY <2>3, <2>7, <2>8, <2>9 DEF Sound
    <2>11. Accounts(s, t, {})  BY <2>3, <2>7 DEF Accounts
    <2> QED  BY <1>2, <2>3, <2>4, <2>10, <2>11 DEF Lookup, t
  <1> QED  BY <1>1, <1>2

(* nullreturn: the new pbuf is freed. *)
LEMMA NullReturnSound ==
  ASSUME NEW s, Sound(s, {}), NEW p \in Pbuf, p \notin HeldIn(s)
  PROVE  LET t == NullReturn(s, p)
         IN  Sound(t, {}) /\ Accounts(s, t, {p}) /\ t.out = s.out
  <1> DEFINE t == NullReturn(s, p)
  <1>1. s \in State /\ s.freed \cup {p} \in SUBSET Pbuf  BY DEF Sound, State
  <1>2. /\ t \in State /\ t.freed = s.freed \cup {p}
        /\ t.list = s.list /\ t.ipr = s.ipr /\ t.count = s.count /\ t.out = s.out
    BY <1>1 DEF NullReturn, State
  <1> HIDE DEF t
  <1>3. HeldIn(t) = HeldIn(s)  BY <1>2 DEF HeldIn
  <1>4. Disjoint(t) /\ Listed(t, {})  BY <1>2 DEF Sound, Disjoint, Listed
  <1>5. HeldIn(t) \cap t.freed = {}  BY <1>2, <1>3 DEF Sound
  <1> QED  BY <1>2, <1>3, <1>4, <1>5 DEF Sound, Accounts, t

(* nullreturn_ipr: an entry without a pbuf is taken off the list again. *)
LEMMA NullReturnIprSound ==
  ASSUME NEW s, NEW d \in Id, Sound(s, {d}), NEW p \in Pbuf, p \notin HeldIn(s)
  PROVE  LET t == NullReturnIpr(s, d, p)
         IN  Sound(t, {}) /\ Accounts(s, t, {p}) /\ t.out = s.out
  <1>1. CASE s.ipr[d].frags # {}
    <2>1. Sound(s, {})  BY <1>1 DEF Sound, Listed
    <2> QED  BY <1>1, <2>1, NullReturnSound DEF NullReturnIpr
  <1>2. CASE s.ipr[d].frags = {}
    <2> DEFINE q == Dequeue(s, d)
    <2>0. s \in State /\ Disjoint(s)  BY DEF Sound
    <2>1. /\ q \in State /\ q.list = Without(s.list, {d})
          /\ q.ipr = [s.ipr EXCEPT ![d] = NoData]
          /\ q.count = s.count /\ q.freed = s.freed /\ q.out = s.out
      BY <2>0, DequeueFields
    <2> HIDE DEF q
    <2>2. HeldIn(q) = HeldIn(s) \ s.ipr[d].frags /\ Disjoint(q)
      BY <2>0, <2>1, DequeueHeld
    <2>3. IdsOf(q.list) = IdsOf(s.list) \ {d} /\ Len(q.list) <= Len(s.list)
      BY <2>0, <2>1, WithoutList DEF State
    <2>4. Listed(q, {})
      <3>1. \A e \in Id : q.ipr[e].frags = IF e = d THEN {} ELSE s.ipr[e].frags
        BY <2>0, <2>1 DEF State, NoData
      <3> QED  BY <2>3, <3>1 DEF Sound, Listed
    <2>5. Len(q.list) <= NumReassdata
      <3>1. s.list \in Seq(Id) /\ q.list \in Seq(Id)  BY <2>0, <2>1 DEF State
      <3> QED  BY <2>3, <3>1, ReassAssumption DEF Sound
    <2>2a. HeldIn(q) = HeldIn(s)  BY <1>2, <2>2
    <2>6. Sound(q, {})  BY <2>1, <2>2, <2>2a, <2>4, <2>5 DEF Sound
    <2>7. Accounts(s, q, {})  BY <2>1, <2>2a DEF Accounts
    <2>8. Sound(NullReturn(q, p), {}) /\ Accounts(q, NullReturn(q, p), {p})
          /\ NullReturn(q, p).out = q.out
      BY <2>2a, <2>6, NullReturnSound
    <2>9. NullReturnIpr(s, d, p) = NullReturn(q, p)  BY <1>2 DEF NullReturnIpr, q
    <2> QED  BY <2>1, <2>7, <2>8, <2>9 DEF Accounts
  <1> QED  BY <1>1, <1>2

(* The entry with one more pbuf. *)
LEMMA NoteLastEntry ==
  ASSUME NEW e \in Entry, NEW p \in Pbuf, NEW f \in Fragment, ~TooLong(f)
  PROVE  LET n == NoteLast([e EXCEPT !.frags = @ \cup {p}], f)
         IN  n \in Entry /\ n.frags = e.frags \cup {p}
  <1> DEFINE m == [e EXCEPT !.frags = e.frags \cup {p}]
  <1>0. e.frags \cup {p} \in SUBSET Pbuf  BY DEF Entry
  <1>1. m \in Entry /\ m.frags = e.frags \cup {p}  BY <1>0 DEF Entry
  <1>2. f.end \in Nat /\ (f.last => f.end \in 0..MaxLen)
    BY ReassAssumption DEF TooLong
  <1> HIDE DEF m
  <1>3. f.last => [m EXCEPT !.last = TRUE, !.len = f.end] \in Entry
                  /\ [m EXCEPT !.last = TRUE, !.len = f.end].frags = m.frags
    BY <1>1, <1>2 DEF Entry
  <1> QED  BY <1>1, <1>3 DEF NoteLast, m

(* The three places a pbuf can go in a call of ip4_reass with pbuf p. *)
Returns(s, t, p) ==
  /\ Sound(t, {})
  /\ HeldIn(t) \cup t.freed \cup t.out.frags = HeldIn(s) \cup s.freed \cup {p}
  /\ t.out.frags \cap (HeldIn(t) \cup t.freed) = {}

(* A fragment that fits is chained, or completes its datagram. *)
LEMMA ChainSound ==
  ASSUME NEW s, NEW pk, NEW p \in Pbuf, pk[p] \in Fragment, Sound(s, {pk[p].id}),
         s.out = NoOut, p \notin HeldIn(s) \cup s.freed,
         pk[p].id \in IdsOf(s.list), ~OverLimit(s), ~TooLong(pk[p])
  PROVE  Returns(s, Chain(s, pk, p), p)
  <1> DEFINE d == pk[p].id
             F == s.ipr[d].frags
             e == NoteLast([s.ipr[d] EXCEPT !.frags = @ \cup {p}], pk[p])
             t == Chain(s, pk, p)
  <1>0. d \in Id /\ s \in State /\ s.ipr[d] \in Entry
    BY ReassAssumption DEF Sound, State
  <1>1. e \in Entry /\ e.frags = F \cup {p}  BY <1>0, NoteLastEntry
  <1>2. /\ F \subseteq HeldIn(s) /\ IsFiniteSet(F) /\ IsFiniteSet(HeldIn(s))
        /\ Cardinality(F) \in Nat /\ Cardinality(HeldIn(s)) \in Nat
    BY <1>0, HeldFinite
  <1>3. Cardinality(e.frags) = Cardinality(F) + 1
    BY <1>1, <1>2, FS_AddElement
  <1>4. s.count \in Nat /\ s.count + 1 <= MaxPbufs
    BY <1>2, ReassAssumption DEF Sound, OverLimit
  <1> HIDE DEF e
  <1>5. CASE e.last /\ NoHoles(pk, e.frags)
    <2> DEFINE q == Dequeue(s, d)
    <2>1. /\ q \in State /\ q.list = Without(s.list, {d})
          /\ q.ipr = [s.ipr EXCEPT ![d] = NoData]
          /\ q.count = s.count /\ q.freed = s.freed /\ q.out = s.out
      <3> HIDE DEF d
      <3> QED  BY <1>0, DequeueFields
    <2> HIDE DEF q
    <2>2. t = [q EXCEPT !.count = q.count + 1 - Cardinality(e.frags),
                        !.out = [frags |-> e.frags, len |-> e.len]]
      BY <1>5 DEF Chain, q, e
    <2>3. q.count + 1 - Cardinality(e.frags) \in Int
      BY <1>2, <1>3, <1>4, <2>1
    <2>4. [frags |-> e.frags, len |-> e.len] \in [frags : SUBSET Pbuf, len : Nat]
      BY <1>1, ReassAssumption DEF Entry
    <2> HIDE DEF t
    <2>5. /\ t \in State /\ t.list = q.list /\ t.ipr = q.ipr /\ t.freed = q.freed
          /\ t.count = s.count + 1 - Cardinality(e.frags)
          /\ t.out = [frags |-> e.frags, len |-> e.len]
      BY <2>1, <2>2, <2>3, <2>4 DEF State
    <2>6. t.out.frags = F \cup {p}  BY <1>1, <2>5
    <2>7. HeldIn(t) = HeldIn(s) \ F /\ Disjoint(t)
      <3>1. Disjoint(s)  BY DEF Sound
      <3> HIDE DEF d
      <3> QED  BY <1>0, <2>1, <2>5, <3>1, DequeueHeld
    <2>8. Cardinality(HeldIn(t)) = Cardinality(HeldIn(s)) - Cardinality(F)
      <3>1. HeldIn(s) \cap F = F  BY <1>2
      <3> QED  BY <1>2, <2>7, <3>1, FS_Difference
    <2>9. IdsOf(t.list) = IdsOf(s.list) \ {d} /\ Len(t.list) <= Len(s.list)
      BY <1>0, <2>1, <2>5, WithoutList DEF State
    <2>10. Listed(t, {})
      <3>1. \A c \in Id : t.ipr[c].frags = IF c = d THEN {} ELSE s.ipr[c].frags
        BY <1>0, <2>1, <2>5 DEF State, NoData
      <3> QED  BY <2>9, <3>1 DEF Sound, Listed
    <2>11. t.count = Cardinality(HeldIn(t)) /\ t.count <= MaxPbufs
      <3>1. s.count = Cardinality(HeldIn(s))  BY DEF Sound
      <3> HIDE DEF F
      <3> QED  BY <1>2, <1>3, <1>4, <2>5, <2>8, <3>1, ReassAssumption
    <2>12. Len(t.list) <= NumReassdata
      <3>1. s.list \in Seq(Id) /\ t.list \in Seq(Id)  BY <1>0, <2>5 DEF State
      <3> QED  BY <2>9, <3>1, ReassAssumption DEF Sound
    <2>13. HeldIn(t) \cap t.freed = {}  BY <2>1, <2>5, <2>7 DEF Sound
    <2>14. Sound(t, {})  BY <2>5, <2>7, <2>10, <2>11, <2>12, <2>13 DEF Sound
    <2>15. HeldIn(t) \cup t.freed \cup t.out.frags = HeldIn(s) \cup s.freed \cup {p}
      BY <1>2, <2>1, <2>5, <2>6, <2>7
    <2>16. t.out.frags \cap (HeldIn(t) \cup t.freed) = {}
      <3>1. F \cap s.freed = {}  BY <1>2 DEF Sound
      <3> QED  BY <1>2, <2>1, <2>5, <2>6, <2>7, <3>1
    <2> QED  BY <2>14, <2>15, <2>16 DEF Returns, t
  <1>6. CASE ~(e.last /\ NoHoles(pk, e.frags))
    <2>1. t = [s EXCEPT !.ipr[d] = e, !.count = s.count + 1]  BY <1>6 DEF Chain, e
    <2>2. [s.ipr EXCEPT ![d] = e] \in [Id -> Entry] /\ s.count + 1 \in Int
      BY <1>0, <1>1, <1>4 DEF State
    <2> HIDE DEF t
    <2>3. /\ t \in State /\ t.list = s.list /\ t.ipr = [s.ipr EXCEPT ![d] = e]
          /\ t.freed = s.freed /\ t.count = s.count + 1 /\ t.out = s.out
      <3> HIDE DEF d
      <3> QED  BY <1>0, <2>1, <2>2 DEF State
    <2>4. \A c \in Id : t.ipr[c].frags = IF c = d THEN F \cup {p} ELSE s.ipr[c].frags
      BY <1>0, <1>1, <2>3 DEF State
    <2>5. HeldIn(t) = HeldIn(s) \cup {p}
      <3> HIDE DEF d
      <3> QED  BY <1>0, <2>4 DEF HeldIn
    <2>6. Cardinality(HeldIn(t)) = Cardinality(HeldIn(s)) + 1
      <3>1. p \notin HeldIn(s)  OBVIOUS
      <3>2. IsFiniteSet(HeldIn(s))  BY <1>2
      <3>3. Cardinality(HeldIn(s) \cup {p}) = Cardinality(HeldIn(s)) + 1
        BY <3>1, <3>2, FS_AddElement
      <3> QED  BY <2>5, <3>3
    <2>7. Disjoint(t)
      <3>1. \A c \in Id : p \notin s.ipr[c].frags  BY DEF HeldIn
      <3> QED  BY <2>4, <3>1 DEF Sound, Disjoint
    <2>8. Listed(t, {})  BY <2>3, <2>4 DEF Sound, Listed
    <2>9. t.count = Cardinality(HeldIn(t)) /\ t.count <= MaxPbufs
      BY <1>4, <2>3, <2>6 DEF Sound
    <2>10. HeldIn(t) \cap t.freed = {}  BY <2>3, <2>5 DEF Sound
    <2>11. Sound(t, {})  BY <2>3, <2>7, <2>8, <2>9, <2>10 DEF Sound
    <2>12. t.out.frags = {}  BY <2>3 DEF NoOut
    <2> QED  BY <2>3, <2>5, <2>11, <2>12 DEF Returns, t
  <1> QED  BY <1>5, <1>6

(***************************************************************************)
(* Whatever ip4_reass does with a fragment (an option, too many pbufs, no  *)
(* struct, an overlap, a datagram that goes on or is complete), every pbuf *)
(* is then held by one datagram, freed once or returned once.              *)
(***************************************************************************)
LEMMA Ip4ReassSound ==
  ASSUME NEW s, Sound(s, {}), s.out = NoOut, NEW pk, NEW p \in Pbuf,
         pk[p] \in Fragment, p \notin HeldIn(s) \cup s.freed
  PROVE  Returns(s, Ip4Reass(s, pk, p), p)
  <1> DEFINE d == pk[p].id
             r == MakeRoom(s, d)
             t == FindStruct(r, d)
             u == Lookup(t, d)
  <1>0. d \in Id  BY ReassAssumption
  <1>1. \A x : Sound(x, {}) /\ Accounts(s, x, {}) /\ x.out = s.out
                 => Returns(s, NullReturn(x, p), p)
    <2> SUFFICES ASSUME NEW x, Sound(x, {}), Accounts(s, x, {}), x.out = s.out
                 PROVE  Returns(s, NullReturn(x, p), p)
      OBVIOUS
    <2>1. p \notin HeldIn(x)  BY DEF Accounts
    <2>2. Sound(NullReturn(x, p), {}) /\ Accounts(x, NullReturn(x, p), {p})
          /\ NullReturn(x, p).out = NoOut
      BY <2>1, NullReturnSound
    <2>3. NullReturn(x, p).out.frags = {}  BY <2>2 DEF NoOut
    <2> QED  BY <2>2, <2>3 DEF Returns, Accounts
  <1>2. CASE pk[p].options
    <2>1. Accounts(s, s, {})  BY DEF Accounts
    <2> QED  BY <1>1, <1>2, <2>1 DEF Ip4Reass
  <1>3. Sound(r, {}) /\ Accounts(s, r, {}) /\ r.out = s.out
    <2>1. Accounts(s, s, {})  BY DEF Accounts
    <2> QED  BY <2>1, RemoveOldestSound DEF MakeRoom
  <1>4. CASE ~pk[p].options /\ OverLimit(r)
    BY <1>1, <1>3, <1>4 DEF Ip4Reass
  <1>5. Sound(t, {}) /\ Accounts(s, t, {}) /\ t.out = s.out /\ (~OverLimit(r) => ~OverLimit(t))
    <2> HIDE DEF r
    <2>1. CASE t = r  BY <1>3, <2>1
    <2>2. CASE t = RemoveOldest(r, d)
      <3>1. Sound(t, {}) /\ Accounts(r, t, {}) /\ t.out = r.out
        BY <1>3, <2>2, RemoveOldestSound
      <3>2. t.count <= r.count
        <4>1. HeldIn(t) \subseteq HeldIn(r)
          BY <1>3, <2>2, RemoveOldestShrinks
        <4> QED  BY <1>3, <3>1, <4>1, HeldFinite, FS_Subset DEF Sound
      <3>3. r.count \in Int /\ t.count \in Int  BY <1>3, <3>1 DEF Sound, State
      <3>4. Accounts(s, t, {})  BY <1>3, <3>1 DEF Accounts
      <3> QED  BY <1>3, <3>1, <3>2, <3>3, <3>4, ReassAssumption DEF OverLimit
    <2> QED  BY <2>1, <2>2 DEF FindStruct
  <1>6. CASE ~pk[p].options /\ ~OverLimit(r) /\ NoStruct(t, d)
    BY <1>1, <1>5, <1>6 DEF Ip4Reass
  <1>7. ASSUME ~NoStruct(t, d), ~OverLimit(r)
        PROVE  /\ Sound(u, {d}) /\ Accounts(s, u, {}) /\ u.out = s.out
               /\ d \in IdsOf(u.list) /\ ~OverLimit(u)
               /\ p \notin HeldIn(u) \cup u.freed
    <2> HIDE DEF t, d
    <2>1. /\ Sound(u, {d}) /\ Accounts(t, u, {}) /\ u.out = t.out
          /\ u.count = t.count /\ u.freed = t.freed /\ d \in IdsOf(u.list)
      BY <1>0, <1>5, <1>7, LookupSound
    <2> QED  BY <1>5, <1>7, <2>1 DEF Accounts, OverLimit
  <1>8. CASE ~pk[p].options /\ ~OverLimit(r) /\ ~NoStruct(t, d) /\ Dropped(u, pk, p)
    <2>1. Ip4Reass(s, pk, p) = NullReturnIpr(u, d, p)  BY <1>8 DEF Ip4Reass
    <2> DEFINE v == NullReturnIpr(u, d, p)
    <2>2. Sound(v, {}) /\ Accounts(u, v, {p}) /\ v.out = u.out
      <3> HIDE DEF u, d
      <3> QED  BY <1>0, <1>7, <1>8, NullReturnIprSound
    <2>3. v.out.frags = {}  BY <1>7, <1>8, <2>2 DEF NoOut
    <2> HIDE DEF v, u, t, r
    <2> QED  BY <1>7, <1>8, <2>1, <2>2, <2>3 DEF Returns, Accounts, v
  <1>9. CASE ~pk[p].options /\ ~OverLimit(r) /\ ~NoStruct(t, d) /\ ~Dropped(u, pk, p)
    <2>1. Ip4Reass(s, pk, p) = Chain(u, pk, p)  BY <1>9 DEF Ip4Reass
    <2>2. ~TooLong(pk[p])  BY <1>9 DEF Dropped
    <2>3. Returns(u, Chain(u, pk, p), p)
      <3> HIDE DEF u, t, r
      <3> QED  BY <1>7, <1>9, <2>2, ChainSound
    <2> HIDE DEF u, t, r
    <2> QED  BY <1>7, <1>9, <2>1, <2>3 DEF Returns, Accounts
  <1> QED  BY <1>2, <1>4, <1>6, <1>8, <1>9

(* ip_reass_tmr frees the pbufs of the expired datagrams and no others. *)
LEMMA ReassTmrSound ==
  ASSUME NEW s, Sound(s, {})
  PROVE  LET t == ReassTmr(s)
         IN  Sound(t, {}) /\ Accounts(s, t, {}) /\ t.out = s.out
  <1> DEFINE old == {d \in Aged(s) : s.ipr[d].timer = 0}
             gone == UNION {s.ipr[d].frags : d \in old}
             ipr == [d \in Id |-> IF d \in old THEN NoData
                                  ELSE IF d \in Aged(s) THEN [s.ipr[d] EXCEPT !.timer = @ - 1]
                                  ELSE s.ipr[d]]
             t == ReassTmr(s)
  <1>0. s \in State /\ s.list \in Seq(Id)  BY DEF Sound, State
  <1>1. Aged(s) \subseteq Id /\ old \subseteq Id
    BY <1>0 DEF Aged, IdsOf
  <1>2. gone \subseteq HeldIn(s)  BY <1>1 DEF HeldIn
  <1>3. /\ IsFiniteSet(HeldIn(s)) /\ HeldIn(s) \subseteq Pbuf
        /\ Cardinality(HeldIn(s)) \in Nat
    BY <1>0, HeldFinite
  <1>4. IsFiniteSet(gone) /\ Cardinality(gone) \in Nat
    BY <1>2, <1>3, FS_Subset, FS_CardinalityType
  <1>5. ipr \in [Id -> Entry]
    <2>1. NoData \in Entry  BY ReassAssumption DEF NoData, Entry
    <2>2. ASSUME NEW d \in Id, d \notin old, d \in Aged(s)
          PROVE  [s.ipr[d] EXCEPT !.timer = @ - 1] \in Entry
      <3>1. s.ipr[d] \in Entry /\ s.ipr[d].timer # 0  BY <1>0, <2>2 DEF State
      <3>2. s.ipr[d].timer - 1 \in 0..MaxAge  BY <3>1, ReassAssumption DEF Entry
      <3> QED  BY <3>1, <3>2 DEF Entry
    <2>3. \A d \in Id : s.ipr[d] \in Entry  BY <1>0 DEF State
    <2> QED  BY <2>1, <2>2, <2>3
  <1>6. \A d \in Id : ipr[d].frags = IF d \in old THEN {} ELSE s.ipr[d].frags
    <2>1. \A d \in Id : s.ipr[d] \in Entry  BY <1>0 DEF State
    <2>2. \A d \in Id : [s.ipr[d] EXCEPT !.timer = @ - 1].frags = s.ipr[d].frags
      BY <2>1 DEF Entry
    <2> QED  BY <2>2 DEF NoData
  <1>7. Without(s.list, old) \in Seq(Id) /\ Len(Without(s.list, old)) <= Len(s.list)
        /\ IdsOf(Without(s.list, old)) = IdsOf(s.list) \ old
    <2> HIDE DEF old
    <2> QED  BY <1>0, WithoutList
  <1>8. s.freed \cup gone \in SUBSET Pbuf /\ s.count - Cardinality(gone) \in Int
    BY <1>0, <1>2, <1>3, <1>4 DEF State
  <1>9. t = [s EXCEPT !.list = Without(s.list, old), !.ipr = ipr,
                      !.count = s.count - Cardinality(gone), !.freed = s.freed \cup gone]
    BY DEF ReassTmr
  <1> HIDE DEF t, ipr, gone, old
  <1>10. /\ t \in State /\ t.list = Without(s.list, old) /\ t.ipr = ipr
         /\ t.count = s.count - Cardinality(gone) /\ t.freed = s.freed \cup gone
         /\ t.out = s.out
    BY <1>0, <1>5, <1>7, <1>8, <1>9 DEF State
  <1>11. HeldIn(t) = HeldIn(s) \ gone
    <2>1. Disjoint(s)  BY DEF Sound
    <2> QED  BY <1>1, <1>6, <1>10, <2>1 DEF HeldIn, Disjoint, gone
  <1>12. Disjoint(t)  BY <1>6, <1>10 DEF Sound, Disjoint
  <1>13. Listed(t, {})  BY <1>6, <1>7, <1>10 DEF Sound, Listed
  <1>14. t.count = Cardinality(HeldIn(t)) /\ t.count <= MaxPbufs
    <2>1. HeldIn(s) \cap gone = gone  BY <1>2
    <2>2. Cardinality(HeldIn(t)) = Cardinality(HeldIn(s)) - Cardinality(gone)
      BY <1>3, <1>4, <1>11, <2>1, FS_Difference
    <2> QED  BY <1>3, <1>4, <1>10, <2>2, ReassAssumption DEF Sound
  <1>15. Len(t.list) <= NumReassdata
    BY <1>0, <1>7, <1>10, ReassAssumption DEF Sound
  <1>16. HeldIn(t) \cap t.freed = {}  BY <1>10, <1>11 DEF Sound
  <1>17. Accounts(s, t, {})  BY <1>2, <1>10, <1>11 DEF Accounts
  <1> QED  BY <1>10, <1>11, <1>12, <1>13, <1>14, <1>15, <1>16, <1>17 DEF Sound, t

(* A call starts with nothing freed and nothing returned. *)
LEMMA CallSound ==
  ASSUME NEW s, Sound(s, {})
  PROVE  /\ Sound(Call(s), {}) /\ Call(s).out = NoOut /\ Call(s).freed = {}
         /\ HeldIn(Call(s)) = HeldIn(s) /\ Call(s).list = s.list
  <1> DEFINE t == Call(s)
  <1>0. s \in State  BY DEF Sound
  <1>1. NoOut \in [frags : SUBSET Pbuf, len : Nat]  BY DEF NoOut
  <1>2. /\ t \in State /\ t.list = s.list /\ t.ipr = s.ipr /\ t.count = s.count
        /\ t.freed = {} /\ t.out = NoOut
    BY <1>0, <1>1 DEF Call, State
  <1> HIDE DEF t
  <1>3. HeldIn(t) = HeldIn(s)  BY <1>2 DEF HeldIn
  <1>4. Disjoint(t) /\ Listed(t, {})  BY <1>2 DEF Sound, Disjoint, Listed
  <1>5. Sound(t, {})  BY <1>2, <1>3, <1>4 DEF Sound
  <1> QED  BY <1>2, <1>3, <1>5 DEF t

-----------------------------------------------------------------------------
(***************************************************************************)
(* The inductive invariant of the reassembly alone.                        *)
(***************************************************************************)
ReassInv ==
  /\ Sound(reass, {})
  /\ pool = Pbuf \ HeldIn(reass)
  /\ pkt \in [Pbuf -> Fragment]

(* Reassembly starts with no datagram and with the whole pool free. *)
LEMMA InitReassInv == Init => ReassInv
  <1> SUFFICES ASSUME Init PROVE ReassInv  OBVIOUS
  <1>1. Blank \in Fragment  BY ReassAssumption DEF Blank
  <1>2. NoData \in Entry /\ NoData.frags = {}  BY ReassAssumption DEF NoData, Entry
  <1>3. NoOut \in [frags : SUBSET Pbuf, len : Nat]  BY DEF NoOut
  <1>4. <<>> \in Seq(Id) /\ [d \in Id |-> NoData] \in [Id -> Entry]  BY <1>2
  <1>5. /\ reass \in State /\ reass.list = <<>> /\ reass.ipr = [d \in Id |-> NoData]
        /\ reass.count = 0 /\ reass.freed = {}
    BY <1>3, <1>4 DEF Init, InitReass, State
  <1>6. HeldIn(reass) = {}  BY <1>2, <1>5 DEF HeldIn
  <1>7. Cardinality(HeldIn(reass)) = 0  BY <1>6, FS_EmptySet
  <1>8. IdsOf(reass.list) = {} /\ Len(reass.list) = 0  BY <1>5 DEF IdsOf
  <1>9. Disjoint(reass) /\ Listed(reass, {})  BY <1>2, <1>5, <1>8 DEF Disjoint, Listed
  <1>10. Sound(reass, {})
    BY <1>5, <1>6, <1>7, <1>8, <1>9, ReassAssumption DEF Sound
  <1> QED  BY <1>1, <1>6, <1>10 DEF Init, ReassInv

(* A fragment that arrives keeps the invariant. *)
LEMMA ReceiveKeeps ==
  ASSUME ReassInv, NEW f \in Fragment, Receive(f)
  PROVE  ReassInv'
  <1> DEFINE p == CHOOSE q \in pool : TRUE
             filled == [q \in Pbuf |-> IF q = p THEN f ELSE IF q \in pool THEN Blank ELSE pkt[q]]
             s == Call(reass)
  <1>1. p \in pool /\ p \in Pbuf  BY DEF Receive, ReassInv
  <1>2. Blank \in Fragment  BY ReassAssumption DEF Blank
  <1>3. /\ reass' = Ip4Reass(s, filled, p)
        /\ pkt' = [q \in Pbuf |-> IF q \in reass'.freed THEN Blank ELSE filled[q]]
        /\ pool' = (pool \ {p}) \cup reass'.freed \cup reass'.out.frags
    BY DEF Receive
  <1>4. /\ Sound(s, {}) /\ s.out = NoOut /\ s.freed = {} /\ HeldIn(s) = HeldIn(reass)
    BY CallSound DEF ReassInv
  <1> HIDE DEF p, s
  <1>5. filled \in [Pbuf -> Fragment] /\ filled[p] = f  BY <1>1, <1>2 DEF ReassInv
  <1> HIDE DEF filled
  <1>6. Returns(s, reass', p)
    <2>1. p \notin HeldIn(s) \cup s.freed  BY <1>1, <1>4 DEF ReassInv
    <2> QED  BY <1>1, <1>3, <1>4, <1>5, <2>1, Ip4ReassSound
  <1>7. pool' = Pbuf \ HeldIn(reass')
    <2>1. HeldIn(reass) \subseteq Pbuf /\ HeldIn(reass') \subseteq Pbuf
      BY <1>4, <1>6, HeldFinite DEF Returns, Sound
    <2>2. pool = Pbuf \ HeldIn(s)  BY <1>4 DEF ReassInv
    <2>3. HeldIn(reass') \cap (reass'.freed \cup reass'.out.frags) = {}
      BY <1>6 DEF Returns, Sound
    <2> QED  BY <1>1, <1>3, <1>4, <1>6, <2>1, <2>2, <2>3 DEF Returns
  <1>8. pkt' \in [Pbuf -> Fragment]  BY <1>2, <1>3, <1>5
  <1> QED  BY <1>6, <1>7, <1>8 DEF ReassInv, Returns, Sound, HeldIn, Disjoint, Listed

(* A turn of the timer keeps it. *)
LEMMA TickKeeps ==
  ASSUME ReassInv, Tick
  PROVE  ReassInv'
  <1> DEFINE s == Call(reass)
  <1>1. Blank \in Fragment  BY ReassAssumption DEF Blank
  <1>2. /\ reass' = ReassTmr(s) /\ pool' = pool \cup reass'.freed
        /\ pkt' = [q \in Pbuf |-> IF q \in pool' THEN Blank ELSE pkt[q]]
    BY DEF Tick
  <1>3. /\ Sound(s, {}) /\ s.out = NoOut /\ s.freed = {} /\ HeldIn(s) = HeldIn(reass)
    BY CallSound DEF ReassInv
  <1> HIDE DEF s
  <1>4. Sound(reass', {}) /\ Accounts(s, reass', {})  BY <1>2, <1>3, ReassTmrSound
  <1>5. pool' = Pbuf \ HeldIn(reass')
    <2>1. HeldIn(reass) \subseteq Pbuf  BY <1>3, HeldFinite DEF Sound, ReassInv
    <2>2. HeldIn(reass') \cap reass'.freed = {}  BY <1>4 DEF Sound
    <2> QED  BY <1>2, <1>3, <1>4, <2>1, <2>2 DEF Accounts, ReassInv
  <1>6. pkt' \in [Pbuf -> Fragment]  BY <1>1, <1>2 DEF ReassInv
  <1> QED  BY <1>4, <1>5, <1>6 DEF ReassInv, Sound, HeldIn, Disjoint, Listed

(* What the invariant says in the terms of IpReass. *)
LEMMA ReassInvImplies == ReassInv => TypeOK /\ ReassSane
  <1> SUFFICES ASSUME ReassInv PROVE TypeOK /\ ReassSane  OBVIOUS
  <1>1. reass \in State /\ Sound(reass, {})  BY DEF ReassInv, Sound
  <1>2. Held = HeldIn(reass)  BY DEF Held, HeldIn
  <1>3. reass.count \in Nat  BY <1>1, HeldFinite DEF Sound
  <1>4. TypeOK
    <2>1. IdsOf(reass.list) \subseteq Id  BY <1>1 DEF State, IdsOf
    <2>2. reass.freed \subseteq Pbuf /\ reass.out.frags \subseteq Pbuf /\ reass.ipr \in [Id -> Entry]
      BY <1>1 DEF State
    <2> QED  BY <1>3, <2>1, <2>2 DEF TypeOK, ReassInv, Entry
  <1>5. CountExact  BY <1>1, <1>2 DEF CountExact, Sound
  <1>6. PbufsOwned  BY <1>1, <1>2 DEF PbufsOwned, Sound, Disjoint, ReassInv
  <1>7. WithinLimits  BY <1>1 DEF WithinLimits, Sound, Listed
  <1> QED  BY <1>4, <1>5, <1>6, <1>7 DEF ReassSane

(***************************************************************************)
(* The invariant holds in every reachable state, whatever fragments        *)
(* arrive, in whatever order, and however often the timer runs.            *)
(***************************************************************************)
THEOREM ReassInvariant == Spec => []ReassInv
  <1>1. Init => ReassInv  BY InitReassInv
  <1>2. ReassInv /\ [Next]_vars => ReassInv'
    <2> SUFFICES ASSUME ReassInv, [Next]_vars PROVE ReassInv'  OBVIOUS
    <2>1. CASE Tick  BY <2>1, TickKeeps
    <2>2. CASE \E f \in Fragment : Receive(f)  BY <2>2, ReceiveKeeps
    <2>3. CASE UNCHANGED vars
      BY <2>3 DEF vars, ReassInv, Sound, HeldIn, Disjoint, Listed
    <2> QED  BY <2>1, <2>2, <2>3 DEF Next
  <1> QED  BY <1>1, <1>2, PTL DEF Spec

(***************************************************************************)
(* Type correctness of the reassembly.                                     *)
(***************************************************************************)
THEOREM ReassTypeCorrect == Spec => []TypeOK
  <1>1. ReassInv => TypeOK  BY ReassInvImplies
  <1> QED  BY <1>1, ReassInvariant, PTL

(***************************************************************************)
(* ip_reass_pbufcount is exact, no pbuf leaks or is freed twice, the       *)
(* limits hold and no listed datagram is empty.                            *)
(***************************************************************************)
THEOREM ReassAlwaysSane == Spec => []ReassSane
  <1>1. ReassInv => ReassSane  BY ReassInvImplies
  <1> QED  BY <1>1, ReassInvariant, PTL

-----------------------------------------------------------------------------
(***************************************************************************)
(* What ip4_reass returns is whole, and what it keeps is not.  This part   *)
(* needs what an entry says of its fragments (lines 353-490, 608-615).     *)
(***************************************************************************)
Consistent(pk, d, e) ==
  /\ \A q \in e.frags : pk[q] \in Fragment /\ pk[q].id = d /\ ~TooLong(pk[q])
  /\ \A q, r \in e.frags : q # r => ~Overlaps(pk[q], pk[r])
  /\ \A q \in e.frags : pk[q].last => e.last
  /\ e.last => \E q \in e.frags : pk[q].last /\ pk[q].end = e.len

Pieces(s, pk) ==
  \A d \in Id : /\ Consistent(pk, d, s.ipr[d])
                /\ ~(s.ipr[d].last /\ NoHoles(pk, s.ipr[d].frags))

CoveredBy(pk, S) == UNION {Units(pk[q]) : q \in S}

(* Two fragments that do not overlap share no unit. *)
LEMMA UnitsDisjoint ==
  ASSUME NEW f \in Fragment, NEW g \in Fragment, ~Overlaps(f, g)
  PROVE  Units(f) \cap Units(g) = {}
  <1>1. f.start \in Nat /\ f.end \in Nat /\ g.start \in Nat /\ g.end \in Nat
    BY ReassAssumption
  <1> QED  BY <1>1 DEF Overlaps, Units

(***************************************************************************)
(* If every fragment but one is followed by the next, there is no hole     *)
(* before the end: the fragment before the first hole would be a second    *)
(* one without a successor, besides the last.                              *)
(***************************************************************************)
LEMMA WholeIfNoHoles ==
  ASSUME SendersAgree, NEW pk, NEW d, NEW e, Consistent(pk, d, e),
         e.last, NoHoles(pk, e.frags), IsFiniteSet(e.frags)
  PROVE  /\ CoveredBy(pk, e.frags) = 0..(e.len - 1)
         /\ \A q, r \in e.frags : q # r => Units(pk[q]) \cap Units(pk[r]) = {}
  <1> DEFINE S == e.frags
             Ends == {q \in S : \A r \in S : pk[r].start # pk[q].end}
  <1>1. \A q \in S : /\ pk[q] \in Fragment /\ pk[q].start \in Nat /\ pk[q].end \in Nat
                     /\ pk[q].start < pk[q].end
    BY ReassAssumption DEF Consistent
  <1>2. PICK l \in S : pk[l].last /\ pk[l].end = e.len  BY DEF Consistent
  <1>3. \A q \in S : pk[q].end <= e.len
    <2>1. \A q \in S : Fits(pk[q])
      BY <1>1, ReassAssumption DEF Consistent, TooLong, Fits
    <2> QED  BY <1>2, <2>1 DEF Consistent, SendersAgree
  <1>4. e.len \in Nat  BY <1>1, <1>2
  <1>5. CoveredBy(pk, S) \subseteq 0..(e.len - 1)
    BY <1>1, <1>3, <1>4 DEF CoveredBy, Units
  <1>6. l \in Ends
    <2>1. ASSUME NEW r \in S PROVE pk[r].start # pk[l].end
      BY <1>1, <1>2, <1>3, <1>4, <2>1
    <2> QED  BY <2>1
  <1>7. 0..(e.len - 1) \subseteq CoveredBy(pk, S)
    <2> DEFINE T == {x \in 0..(e.len - 1) : x \notin CoveredBy(pk, S)}
    <2> SUFFICES ASSUME T # {} PROVE FALSE  OBVIOUS
    <2>1. T \in SUBSET Nat  BY <1>4
    <2>2. PICK x \in T : \A y \in T : x <= y
      <3> HIDE DEF T
      <3> QED  BY <2>1, LeastNat
    <2>3. x \in Nat /\ x <= e.len - 1 /\ x \notin CoveredBy(pk, S)  BY <1>4, <2>2
    <2>4. x # 0
      <3>1. PICK q \in S : pk[q].start = 0  BY DEF NoHoles
      <3>2. 0 \in Units(pk[q])  BY <1>1, <3>1 DEF Units
      <3> QED  BY <2>3, <3>2 DEF CoveredBy
    <2>5. x - 1 \in CoveredBy(pk, S)
      <3>1. x - 1 \in 0..(e.len - 1) /\ ~(x <= x - 1)  BY <1>4, <2>3, <2>4
      <3>2. x - 1 \notin T
        <4> HIDE DEF T
        <4> QED  BY <2>2, <3>1
      <3> QED  BY <3>1, <3>2
    <2>6. PICK q \in S : x - 1 \in Units(pk[q])  BY <2>5 DEF CoveredBy
    <2>7. x \notin Units(pk[q])  BY <2>3 DEF CoveredBy
    <2>8. pk[q].end = x  BY <1>1, <2>3, <2>6, <2>7 DEF Units
    <2>9. q \in Ends
      <3>1. ASSUME NEW r \in S, pk[r].start = x PROVE FALSE
        <4>1. x \in Units(pk[r])  BY <1>1, <2>3, <3>1 DEF Units
        <4> QED  BY <2>3, <4>1 DEF CoveredBy
      <3> QED  BY <2>8, <3>1
    <2>10. q # l  BY <1>2, <1>4, <2>3, <2>8
    <2>11. Cardinality(Ends) = 1  BY DEF NoHoles
    <2>12. \E z : Ends = {z}
      <3>1. IsFiniteSet(Ends)  BY FS_Subset
      <3> HIDE DEF Ends
      <3> QED  BY <2>11, <3>1, FS_Singleton
    <2> HIDE DEF Ends
    <2> QED  BY <1>6, <2>9, <2>10, <2>12
  <1>8. \A q, r \in S : q # r => Units(pk[q]) \cap Units(pk[r]) = {}
    BY <1>1, UnitsDisjoint DEF Consistent
  <1> QED  BY <1>5, <1>7, <1>8

(***************************************************************************)
(* The converse: if the fragments up to the last one cover the datagram,   *)
(* each but the last is followed by the next, so that ip4_reass does not   *)
(* go on waiting.                                                          *)
(***************************************************************************)
LEMMA NoHolesIfWhole ==
  ASSUME NEW pk, NEW d, NEW e, Consistent(pk, d, e), NEW l \in e.frags,
         pk[l].last, CoveredBy(pk, e.frags) = 0..(pk[l].end - 1)
  PROVE  NoHoles(pk, e.frags)
  <1> DEFINE S == e.frags
             E == pk[l].end
             Ends == {q \in S : \A r \in S : pk[r].start # pk[q].end}
  <1>1. \A q \in S : /\ pk[q].start \in Nat /\ pk[q].end \in Nat
                     /\ pk[q].start < pk[q].end
    BY ReassAssumption DEF Consistent
  <1>2. E \in Nat /\ E > 0  BY <1>1
  <1>3. \E q \in S : pk[q].start = 0
    <2>1. 0 \in CoveredBy(pk, S)  BY <1>2
    <2>2. PICK q \in S : 0 \in Units(pk[q])  BY <2>1 DEF CoveredBy
    <2> QED  BY <1>1, <2>2 DEF Units
  <1>4. \A q \in S : pk[q].end <= E
    <2> TAKE q \in S
    <2>1. pk[q].end - 1 \in Units(pk[q])  BY <1>1 DEF Units
    <2>2. pk[q].end - 1 \in CoveredBy(pk, S)  BY <2>1 DEF CoveredBy
    <2>3. pk[q].end - 1 \in 0..(E - 1)  BY <2>2
    <2> HIDE DEF E
    <2> QED  BY <1>1, <1>2, <2>3
  <1>5. ASSUME NEW q \in S, q # l PROVE pk[q].end < E /\ q \notin Ends
    <2>1. ~Overlaps(pk[q], pk[l])  BY <1>5 DEF Consistent
    <2>2. pk[q].end < E  BY <1>1, <1>4, <1>5, <2>1 DEF Overlaps
    <2>3. pk[q].end \in CoveredBy(pk, S)
      <3>1. pk[q].end \in 0..(E - 1)  BY <1>1, <1>2, <2>2
      <3> QED  BY <3>1
    <2>4. PICK r \in S : pk[q].end \in Units(pk[r])  BY <2>3 DEF CoveredBy
    <2>5. pk[r].start <= pk[q].end /\ pk[q].end < pk[r].end  BY <1>1, <2>4 DEF Units
    <2>6. r # q  BY <1>1, <2>5
    <2>7. ~Overlaps(pk[q], pk[r])  BY <2>6 DEF Consistent
    <2>8. pk[r].start = pk[q].end  BY <1>1, <2>5, <2>7 DEF Overlaps
    <2> QED  BY <2>2, <2>8
  <1>6. l \in Ends  BY <1>1, <1>4
  <1>7. Ends = {l}  BY <1>5, <1>6
  <1>8. Cardinality(Ends) = 1  BY <1>7, FS_Singleton
  <1> QED  BY <1>3, <1>8 DEF NoHoles

-----------------------------------------------------------------------------
(***************************************************************************)
(* An operation leaves an entry's fragments as they were, or takes all.    *)
(***************************************************************************)
Kept(s, t, d) ==
  /\ t.ipr[d].frags = s.ipr[d].frags
  /\ t.ipr[d].last = s.ipr[d].last /\ t.ipr[d].len = s.ipr[d].len
Emptied(t, d) == t.ipr[d].frags = {} /\ ~t.ipr[d].last
KeptOrEmptied(s, t) == \A d \in Id : Kept(s, t, d) \/ Emptied(t, d)

(* Nothing is changed by such an operation about the entries that are left. *)
LEMMA PiecesKept ==
  ASSUME NEW s, NEW t, NEW pk, Pieces(s, pk), KeptOrEmptied(s, t)
  PROVE  Pieces(t, pk)
  <1> SUFFICES ASSUME NEW d \in Id
               PROVE  /\ Consistent(pk, d, t.ipr[d])
                      /\ ~(t.ipr[d].last /\ NoHoles(pk, t.ipr[d].frags))
    BY DEF Pieces
  <1>1. CASE Kept(s, t, d)  BY <1>1 DEF Kept, Pieces, Consistent
  <1>2. CASE Emptied(t, d)  BY <1>2 DEF Emptied, Consistent
  <1> QED  BY <1>1, <1>2 DEF KeptOrEmptied

(* The helpers of ip4_reass, up to the fragment itself, are such operations. *)
LEMMA HelpersKeep ==
  ASSUME NEW s \in State, NEW d \in Id
  PROVE  /\ KeptOrEmptied(s, Dequeue(s, d))
         /\ KeptOrEmptied(s, FreeComplete(s, d))
         /\ KeptOrEmptied(s, EnqueueNew(s, d))
         /\ \A p : KeptOrEmptied(s, NullReturn(s, p)) /\ KeptOrEmptied(s, NullReturnIpr(s, d, p))
  <1>0. s.ipr \in [Id -> Entry] /\ NoData.frags = {} /\ ~NoData.last
    BY DEF State, NoData
  <1>1. Dequeue(s, d).ipr = [s.ipr EXCEPT ![d] = NoData] /\ FreeComplete(s, d).ipr = [s.ipr EXCEPT ![d] = NoData]
    BY DEF Dequeue, FreeComplete, State
  <1>2. EnqueueNew(s, d).ipr = [s.ipr EXCEPT ![d] = [NoData EXCEPT !.timer = MaxAge]]
    BY DEF EnqueueNew, State
  <1>3. [NoData EXCEPT !.timer = MaxAge].frags = {} /\ ~[NoData EXCEPT !.timer = MaxAge].last
    BY DEF NoData
  <1>4. \A x : \A p : NullReturn(x, p).ipr = x.ipr \/ x \notin State  BY DEF NullReturn, State
  <1>5. KeptOrEmptied(s, Dequeue(s, d)) /\ KeptOrEmptied(s, FreeComplete(s, d))
    BY <1>0, <1>1 DEF KeptOrEmptied, Kept, Emptied
  <1>6. KeptOrEmptied(s, EnqueueNew(s, d))
    BY <1>0, <1>2, <1>3 DEF KeptOrEmptied, Kept, Emptied
  <1>7. \A p : KeptOrEmptied(s, NullReturn(s, p))
    BY <1>4 DEF KeptOrEmptied, Kept
  <1>8. \A p : KeptOrEmptied(s, NullReturnIpr(s, d, p))
    <2> TAKE p
    <2>1. CASE s.ipr[d].frags = {}
      <3>1. Dequeue(s, d) \in State  BY DequeueFields
      <3>2. NullReturn(Dequeue(s, d), p).ipr = Dequeue(s, d).ipr  BY <1>4, <3>1
      <3> QED  BY <1>5, <2>1, <3>2 DEF NullReturnIpr, KeptOrEmptied, Kept, Emptied
    <2>2. CASE s.ipr[d].frags # {}  BY <1>7, <2>2 DEF NullReturnIpr
    <2> QED  BY <2>1, <2>2
  <1> QED  BY <1>5, <1>6, <1>7, <1>8

(* ip_reass_remove_oldest_datagram is one too. *)
LEMMA RemoveOldestKeeps ==
  ASSUME NEW s, Sound(s, {}), NEW d
  PROVE  KeptOrEmptied(s, RemoveOldest(s, d))
  <1>1. CASE IdsOf(s.list) \subseteq {d}
    BY <1>1 DEF RemoveOldest, KeptOrEmptied, Kept
  <1>2. CASE ~(IdsOf(s.list) \subseteq {d})
    <2>1. Oldest(s, d) \in Id /\ s \in State  BY <1>2, OldestListed DEF Sound
    <2> QED  BY <1>2, <2>1, HelpersKeep DEF RemoveOldest
  <1> QED  BY <1>1, <1>2

(* One after the other they still are. *)
LEMMA KeepsTransitive ==
  ASSUME NEW s, NEW t, NEW u, KeptOrEmptied(s, t), KeptOrEmptied(t, u)
  PROVE  KeptOrEmptied(s, u)
  BY DEF KeptOrEmptied, Kept, Emptied

(* The timer is one. *)
LEMMA ReassTmrKeeps ==
  ASSUME NEW s \in State
  PROVE  KeptOrEmptied(s, ReassTmr(s))
  <1> DEFINE old == {d \in Aged(s) : s.ipr[d].timer = 0}
             ipr == [d \in Id |-> IF d \in old THEN NoData
                                  ELSE IF d \in Aged(s) THEN [s.ipr[d] EXCEPT !.timer = @ - 1]
                                  ELSE s.ipr[d]]
  <1>1. ReassTmr(s).ipr = ipr  BY DEF ReassTmr, State
  <1>2. \A d \in Id : s.ipr[d] \in Entry  BY DEF State
  <1>3. \A d \in Id : LET a == [s.ipr[d] EXCEPT !.timer = @ - 1]
                      IN  /\ a.frags = s.ipr[d].frags /\ a.last = s.ipr[d].last
                          /\ a.len = s.ipr[d].len
    BY <1>2 DEF Entry
  <1>4. NoData.frags = {} /\ ~NoData.last  BY DEF NoData
  <1> QED  BY <1>1, <1>3, <1>4 DEF KeptOrEmptied, Kept, Emptied

(* A datagram is returned in one piece, or nothing is. *)
WholeOut(pk, o) ==
  o # NoOut =>
    /\ CoveredBy(pk, o.frags) = 0..(o.len - 1)
    /\ \A p, q \in o.frags : p # q => Units(pk[p]) \cap Units(pk[q]) = {}
    /\ Cardinality({pk[p].id : p \in o.frags}) = 1

(* The chained fragment leaves the entries right, and completes its datagram
   exactly when it fills the last hole. *)
LEMMA ChainPieces ==
  ASSUME SendersAgree, NEW s \in State, NEW pk, NEW p \in Pbuf, pk[p] \in Fragment,
         s.out = NoOut, Pieces(s, pk), ~Dropped(s, pk, p), p \notin HeldIn(s)
  PROVE  LET t == Chain(s, pk, p)
         IN  Pieces(t, pk) /\ WholeOut(pk, t.out)
  <1> DEFINE d == pk[p].id
             e == NoteLast([s.ipr[d] EXCEPT !.frags = @ \cup {p}], pk[p])
             m == [s.ipr[d] EXCEPT !.frags = s.ipr[d].frags \cup {p}]
             t == Chain(s, pk, p)
  <1>0. d \in Id /\ s.ipr[d] \in Entry /\ s.ipr \in [Id -> Entry]
    BY ReassAssumption DEF State
  <1>1. ~TooLong(pk[p]) /\ \A q \in s.ipr[d].frags : ~Overlaps(pk[p], pk[q])
    BY DEF Dropped
  <1>2. e \in Entry /\ e.frags = s.ipr[d].frags \cup {p}  BY <1>0, <1>1, NoteLastEntry
  <1>3. /\ pk[p].last => e.last /\ e.len = pk[p].end
        /\ ~pk[p].last => e.last = s.ipr[d].last /\ e.len = s.ipr[d].len
    <2>1. m \in Entry /\ m.last = s.ipr[d].last /\ m.len = s.ipr[d].len
      <3>1. s.ipr[d].frags \cup {p} \in SUBSET Pbuf  BY <1>0 DEF Entry
      <3> QED  BY <1>0, <3>1 DEF Entry
    <2>2. e = NoteLast(m, pk[p])  OBVIOUS
    <2> HIDE DEF m, e
    <2>3. LET n == [m EXCEPT !.last = TRUE, !.len = pk[p].end]
          IN  n.last /\ n.len = pk[p].end
      BY <2>1 DEF Entry
    <2> QED  BY <2>1, <2>2, <2>3 DEF NoteLast
  <1> HIDE DEF e
  <1>4. Consistent(pk, d, e)
    <2>1. Consistent(pk, d, s.ipr[d])  BY <1>0 DEF Pieces
    <2>2. \A q \in s.ipr[d].frags : ~Overlaps(pk[q], pk[p])
      <3>1. \A q \in s.ipr[d].frags : pk[q] \in Fragment  BY <2>1 DEF Consistent
      <3>2. \A q \in s.ipr[d].frags : Overlaps(pk[q], pk[p]) => Overlaps(pk[p], pk[q])
        BY DEF Overlaps
      <3> QED  BY <1>1, <3>2
    <2>3. \A q \in e.frags : pk[q] \in Fragment /\ pk[q].id = d /\ ~TooLong(pk[q])
      BY <1>1, <1>2, <2>1 DEF Consistent
    <2>4. \A q, r \in e.frags : q # r => ~Overlaps(pk[q], pk[r])
      BY <1>1, <1>2, <2>1, <2>2 DEF Consistent
    <2>5. \A q \in e.frags : pk[q].last => e.last
      BY <1>2, <1>3, <2>1 DEF Consistent
    <2>6. e.last => \E q \in e.frags : pk[q].last /\ pk[q].end = e.len
      BY <1>2, <1>3, <2>1 DEF Consistent
    <2> QED  BY <2>3, <2>4, <2>5, <2>6 DEF Consistent
  <1>5. IsFiniteSet(e.frags)
    BY <1>2, ReassAssumption, FS_Subset DEF Entry
  <1>6. CASE e.last /\ NoHoles(pk, e.frags)
    <2> DEFINE q == Dequeue(s, d)
    <2>1. t = [q EXCEPT !.count = q.count + 1 - Cardinality(e.frags),
                        !.out = [frags |-> e.frags, len |-> e.len]]
      BY <1>6 DEF Chain, e
    <2>2. q \in State /\ KeptOrEmptied(s, q)
      <3> HIDE DEF d
      <3> QED  BY <1>0, DequeueFields, HelpersKeep
    <2> HIDE DEF q, t
    <2>3. t.ipr = q.ipr /\ t.out = [frags |-> e.frags, len |-> e.len]
      BY <2>1, <2>2 DEF State
    <2>4. KeptOrEmptied(s, t)  BY <2>2, <2>3 DEF KeptOrEmptied, Kept, Emptied
    <2>5. Pieces(t, pk)  BY <2>4, PiecesKept
    <2>6. t.out.frags = e.frags /\ t.out.len = e.len  BY <2>3
    <2>7. /\ CoveredBy(pk, e.frags) = 0..(e.len - 1)
          /\ \A x, y \in e.frags : x # y => Units(pk[x]) \cap Units(pk[y]) = {}
      <3> HIDE DEF d
      <3> QED  BY <1>4, <1>5, <1>6, WholeIfNoHoles
    <2>8. {pk[x].id : x \in e.frags} = {d}  BY <1>2, <1>4 DEF Consistent
    <2>9. Cardinality({pk[x].id : x \in e.frags}) = 1  BY <2>8, FS_Singleton
    <2>10. WholeOut(pk, t.out)  BY <2>6, <2>7, <2>9 DEF WholeOut
    <2> QED  BY <2>5, <2>10 DEF t
  <1>7. CASE ~(e.last /\ NoHoles(pk, e.frags))
    <2>1. t = [s EXCEPT !.ipr[d] = e, !.count = s.count + 1]  BY <1>7 DEF Chain, e
    <2> HIDE DEF t
    <2>2. t.ipr = [s.ipr EXCEPT ![d] = e] /\ t.out = s.out
      <3> HIDE DEF d
      <3> QED  BY <1>0, <2>1 DEF State
    <2>3. \A c \in Id : t.ipr[c] = IF c = d THEN e ELSE s.ipr[c]  BY <1>0, <2>2
    <2>4. Pieces(t, pk)  BY <1>4, <1>7, <2>3 DEF Pieces
    <2>5. WholeOut(pk, t.out)  BY <2>2 DEF WholeOut
    <2> QED  BY <2>4, <2>5 DEF t
  <1> QED  BY <1>6, <1>7

(* So does the whole of ip4_reass. *)
LEMMA Ip4ReassPieces ==
  ASSUME SendersAgree, NEW s, Sound(s, {}), s.out = NoOut, NEW pk, NEW p \in Pbuf,
         pk[p] \in Fragment, p \notin HeldIn(s) \cup s.freed, Pieces(s, pk)
  PROVE  LET t == Ip4Reass(s, pk, p)
         IN  Pieces(t, pk) /\ WholeOut(pk, t.out)
  <1> DEFINE d == pk[p].id
             r == MakeRoom(s, d)
             t == FindStruct(r, d)
             u == Lookup(t, d)
             v == Ip4Reass(s, pk, p)
  <1>0. d \in Id /\ KeptOrEmptied(s, s) /\ Accounts(s, s, {})
    BY ReassAssumption DEF KeptOrEmptied, Kept, Accounts
  <1>1. Sound(r, {}) /\ Accounts(s, r, {}) /\ r.out = NoOut /\ KeptOrEmptied(s, r)
    BY <1>0, RemoveOldestSound, RemoveOldestKeeps DEF MakeRoom
  <1> HIDE DEF r
  <1>2. Sound(t, {}) /\ Accounts(s, t, {}) /\ t.out = NoOut /\ KeptOrEmptied(s, t)
    <2>1. CASE t = r  BY <1>1, <2>1
    <2>2. CASE t = RemoveOldest(r, d)
      <3>1. Sound(t, {}) /\ Accounts(r, t, {}) /\ t.out = r.out /\ KeptOrEmptied(r, t)
        BY <1>1, <2>2, RemoveOldestSound, RemoveOldestKeeps
      <3>2. KeptOrEmptied(s, t)
        <4> HIDE DEF t
        <4> QED  BY <1>1, <3>1, KeepsTransitive
      <3>3. Accounts(s, t, {})  BY <1>1, <3>1 DEF Accounts
      <3> QED  BY <1>1, <3>1, <3>2, <3>3
    <2> QED  BY <2>1, <2>2 DEF FindStruct
  <1> HIDE DEF t
  <1>3. ASSUME NEW x, x \in State, KeptOrEmptied(s, x), x.out = NoOut, v = NullReturn(x, p)
        PROVE  Pieces(v, pk) /\ WholeOut(pk, v.out)
    <2> HIDE DEF v
    <2>1. v.ipr = x.ipr /\ v.out = x.out  BY <1>3 DEF NullReturn, State
    <2>2. KeptOrEmptied(s, v)  BY <1>3, <2>1 DEF KeptOrEmptied, Kept, Emptied
    <2> QED  BY <1>3, <2>1, <2>2, PiecesKept DEF WholeOut
  <1>4. CASE pk[p].options
    <2>1. v = NullReturn(s, p)  BY <1>4 DEF Ip4Reass
    <2> HIDE DEF v
    <2> QED  BY <1>0, <1>3, <2>1 DEF Sound, v
  <1>5. CASE ~pk[p].options /\ OverLimit(r)
    <2>1. v = NullReturn(r, p)  BY <1>5 DEF Ip4Reass, r
    <2> HIDE DEF v
    <2> QED  BY <1>1, <1>3, <2>1 DEF Sound, v
  <1>6. CASE ~pk[p].options /\ ~OverLimit(r) /\ NoStruct(t, d)
    <2>1. v = NullReturn(t, p)  BY <1>6 DEF Ip4Reass, r, t
    <2> HIDE DEF v
    <2> QED  BY <1>2, <1>3, <2>1 DEF Sound, v
  <1>7. ASSUME ~NoStruct(t, d)
        PROVE  /\ u \in State /\ u.out = NoOut /\ KeptOrEmptied(s, u)
               /\ p \notin HeldIn(u)
    <2> HIDE DEF d
    <2>1. Sound(u, {d}) /\ Accounts(t, u, {}) /\ u.out = t.out
      BY <1>0, <1>2, <1>7, LookupSound
    <2>2. t \in State  BY <1>2 DEF Sound
    <2>3. KeptOrEmptied(t, u)
      <3>1. CASE u = t  BY <3>1 DEF KeptOrEmptied, Kept
      <3>2. CASE u = EnqueueNew(t, d)  BY <1>0, <2>2, <3>2, HelpersKeep
      <3> QED  BY <3>1, <3>2 DEF Lookup
    <2> HIDE DEF u
    <2>4. KeptOrEmptied(s, u)  BY <1>2, <2>3, KeepsTransitive
    <2> QED  BY <1>2, <2>1, <2>4 DEF Sound, Accounts
  <1> HIDE DEF u
  <1>8. CASE ~pk[p].options /\ ~OverLimit(r) /\ ~NoStruct(t, d) /\ Dropped(u, pk, p)
    <2>1. v = NullReturnIpr(u, d, p)  BY <1>8 DEF Ip4Reass, r, t, u
    <2> HIDE DEF v, d
    <2>2. KeptOrEmptied(u, v)  BY <1>0, <1>7, <1>8, <2>1, HelpersKeep
    <2>3. KeptOrEmptied(s, v)  BY <1>7, <1>8, <2>2, KeepsTransitive
    <2>4. v.out = u.out
      <3>1. Dequeue(u, d) \in State /\ Dequeue(u, d).out = u.out
        BY <1>0, <1>7, <1>8, DequeueFields
      <3>2. \A x \in State : NullReturn(x, p).out = x.out  BY DEF NullReturn, State
      <3> QED  BY <1>7, <1>8, <2>1, <3>1, <3>2 DEF NullReturnIpr
    <2>5. WholeOut(pk, v.out)  BY <1>7, <1>8, <2>4 DEF WholeOut
    <2> QED  BY <2>3, <2>5, PiecesKept DEF v
  <1>9. CASE ~pk[p].options /\ ~OverLimit(r) /\ ~NoStruct(t, d) /\ ~Dropped(u, pk, p)
    <2>1. v = Chain(u, pk, p)  BY <1>9 DEF Ip4Reass, r, t, u
    <2>2. Pieces(u, pk)  BY <1>7, <1>9, PiecesKept
    <2> HIDE DEF v
    <2> QED  BY <1>7, <1>9, <2>1, <2>2, ChainPieces DEF v
  <1> QED  BY <1>4, <1>5, <1>6, <1>8, <1>9

-----------------------------------------------------------------------------
(***************************************************************************)
(* The invariant for what is returned and what waits.                      *)
(***************************************************************************)
WholeInv == ReassInv /\ Pieces(reass, pkt) /\ WholeOut(pkt, reass.out)

(* Pieces looks only at the fragments of the pbufs that are held. *)
LEMMA PiecesLocal ==
  ASSUME NEW s, NEW pk, NEW qk, Pieces(s, pk), \A q \in HeldIn(s) : pk[q] = qk[q]
  PROVE  Pieces(s, qk)
  <1> SUFFICES ASSUME NEW d \in Id
               PROVE  /\ Consistent(qk, d, s.ipr[d])
                      /\ ~(s.ipr[d].last /\ NoHoles(qk, s.ipr[d].frags))
    BY DEF Pieces
  <1>1. \A q \in s.ipr[d].frags : pk[q] = qk[q]  BY DEF HeldIn
  <1>2. Consistent(qk, d, s.ipr[d])  BY <1>1 DEF Pieces, Consistent
  <1>3. NoHoles(qk, s.ipr[d].frags) => NoHoles(pk, s.ipr[d].frags)
    <2> DEFINE S == s.ipr[d].frags
    <2>1. {q \in S : \A r \in S : pk[r].start # pk[q].end}
            = {q \in S : \A r \in S : qk[r].start # qk[q].end}
      BY <1>1
    <2> QED  BY <1>1, <2>1 DEF NoHoles
  <1> QED  BY <1>2, <1>3 DEF Pieces

(* A returned datagram is as whole after the freed pbufs are forgotten. *)
LEMMA WholeOutLocal ==
  ASSUME NEW o, NEW pk, NEW qk, WholeOut(pk, o), \A q \in o.frags : pk[q] = qk[q]
  PROVE  WholeOut(qk, o)
  <1> SUFFICES ASSUME o # NoOut
               PROVE  /\ CoveredBy(qk, o.frags) = 0..(o.len - 1)
                      /\ \A p, q \in o.frags : p # q => Units(qk[p]) \cap Units(qk[q]) = {}
                      /\ Cardinality({qk[p].id : p \in o.frags}) = 1
    BY DEF WholeOut
  <1>1. CoveredBy(qk, o.frags) = CoveredBy(pk, o.frags)  BY DEF CoveredBy
  <1>2. {qk[p].id : p \in o.frags} = {pk[p].id : p \in o.frags}  OBVIOUS
  <1> QED  BY <1>1, <1>2 DEF WholeOut

(***************************************************************************)
(* The invariant holds in every reachable state, if senders agree on where *)
(* each datagram ends.                                                     *)
(***************************************************************************)
THEOREM WholeInvariant == ASSUME SendersAgree PROVE Spec => []WholeInv
  <1>1. Init => WholeInv
    <2> SUFFICES ASSUME Init PROVE WholeInv  OBVIOUS
    <2>1. ReassInv  BY InitReassInv
    <2>2. reass.ipr = [d \in Id |-> NoData] /\ reass.out = NoOut  BY DEF Init, InitReass
    <2>3. NoData.frags = {} /\ ~NoData.last  BY DEF NoData
    <2>4. Pieces(reass, pkt)  BY <2>2, <2>3 DEF Pieces, Consistent
    <2> QED  BY <2>1, <2>2, <2>4 DEF WholeInv, WholeOut
  <1>2. ASSUME WholeInv, NEW f \in Fragment, Receive(f) PROVE WholeInv'
    <2> DEFINE p == CHOOSE q \in pool : TRUE
               filled == [q \in Pbuf |-> IF q = p THEN f
                                         ELSE IF q \in pool THEN Blank ELSE pkt[q]]
               s == Call(reass)
    <2>0. ReassInv /\ ReassInv'  BY <1>2, ReceiveKeeps DEF WholeInv
    <2>1. p \in pool /\ p \in Pbuf  BY <1>2, <2>0 DEF Receive, ReassInv
    <2>2. /\ reass' = Ip4Reass(s, filled, p)
          /\ pkt' = [q \in Pbuf |-> IF q \in reass'.freed THEN Blank ELSE filled[q]]
      BY <1>2 DEF Receive
    <2>3. /\ Sound(s, {}) /\ s.out = NoOut /\ s.freed = {} /\ HeldIn(s) = HeldIn(reass)
          /\ s.ipr = reass.ipr
      BY <2>0, CallSound DEF ReassInv, Sound, Call, State
    <2> HIDE DEF p, s
    <2>4. HeldIn(s) \subseteq Pbuf /\ HeldIn(s) \cap pool = {}
      BY <2>0, <2>3, HeldFinite DEF ReassInv, Sound
    <2>5. filled[p] = f /\ \A q \in HeldIn(s) : filled[q] = pkt[q]  BY <2>1, <2>4
    <2> HIDE DEF filled
    <2>6. Pieces(s, filled)
      <3>1. Pieces(s, pkt)  BY <1>2, <2>3 DEF WholeInv, Pieces
      <3> QED  BY <2>5, <3>1, PiecesLocal
    <2>7. p \notin HeldIn(s) \cup s.freed  BY <2>1, <2>3, <2>4
    <2>8. Pieces(reass', filled) /\ WholeOut(filled, reass'.out)
      BY <2>1, <2>2, <2>3, <2>5, <2>6, <2>7, Ip4ReassPieces
    <2>9. Returns(s, reass', p)
      BY <2>1, <2>2, <2>3, <2>5, <2>7, Ip4ReassSound
    <2>10. /\ HeldIn(reass') \cup reass'.out.frags \subseteq Pbuf
           /\ (HeldIn(reass') \cup reass'.out.frags) \cap reass'.freed = {}
      BY <2>9, HeldFinite DEF Returns, Sound, State
    <2>11. \A q \in HeldIn(reass') \cup reass'.out.frags : filled[q] = pkt'[q]
      BY <2>2, <2>10
    <2>12. Pieces(reass', pkt') /\ WholeOut(pkt', reass'.out)
      BY <2>8, <2>11, PiecesLocal, WholeOutLocal
    <2> QED  BY <2>0, <2>12 DEF WholeInv, Pieces, Consistent, NoHoles, WholeOut, CoveredBy
  <1>3. ASSUME WholeInv, Tick PROVE WholeInv'
    <2> DEFINE s == Call(reass)
    <2>0. ReassInv /\ ReassInv'  BY <1>3, TickKeeps DEF WholeInv
    <2>1. /\ reass' = ReassTmr(s) /\ pool' = pool \cup reass'.freed
          /\ pkt' = [q \in Pbuf |-> IF q \in pool' THEN Blank ELSE pkt[q]]
      BY <1>3 DEF Tick
    <2>2. /\ Sound(s, {}) /\ s.out = NoOut /\ s.ipr = reass.ipr
      BY <2>0, CallSound DEF ReassInv, Sound, Call, State
    <2> HIDE DEF s
    <2>3. Pieces(s, pkt)  BY <1>3, <2>2 DEF WholeInv, Pieces
    <2>4. KeptOrEmptied(s, reass')  BY <2>1, <2>2, ReassTmrKeeps DEF Sound
    <2>5. Pieces(reass', pkt)  BY <2>3, <2>4, PiecesKept
    <2>6. pool' = Pbuf \ HeldIn(reass')  BY <2>0 DEF ReassInv, HeldIn
    <2>7. HeldIn(reass') \subseteq Pbuf
      <3>1. reass' \in State  BY <2>1, <2>2, ReassTmrSound DEF Sound
      <3> QED  BY <3>1, HeldFinite
    <2>8. \A q \in HeldIn(reass') : pkt[q] = pkt'[q]  BY <2>1, <2>6, <2>7
    <2>9. Pieces(reass', pkt')  BY <2>5, <2>8, PiecesLocal
    <2>10. reass'.out = NoOut  BY <2>1, <2>2, ReassTmrSound
    <2> QED  BY <2>0, <2>9, <2>10
          DEF WholeInv, Pieces, Consistent, NoHoles, WholeOut, CoveredBy
  <1>4. WholeInv /\ UNCHANGED vars => WholeInv'
    <2> SUFFICES ASSUME WholeInv, UNCHANGED vars PROVE WholeInv'  OBVIOUS
    <2>1. ReassInv'
      BY DEF vars, WholeInv, ReassInv, Sound, HeldIn, Disjoint, Listed
    <2>2. Pieces(reass, pkt)'
      BY DEF vars, WholeInv, Pieces, Consistent, NoHoles
    <2>3. WholeOut(pkt, reass.out)'
      BY DEF vars, WholeInv, WholeOut, CoveredBy
    <2> QED  BY <2>1, <2>2, <2>3 DEF WholeInv
  <1>5. WholeInv /\ [Next]_vars => WholeInv'  BY <1>2, <1>3, <1>4 DEF Next
  <1> QED  BY <1>1, <1>5, PTL DEF Spec

(***************************************************************************)
(* If senders agree on where a datagram ends, ip4_reass returns it when it *)
(* is whole, each unit once and with its length, and no whole datagram is  *)
(* kept waiting.                                                           *)
(***************************************************************************)
THEOREM ReassReturnsWhole == ASSUME SendersAgree PROVE Spec => []ReturnedWhenWhole
  <1>1. WholeInv => ReturnedWhenWhole
    <2> SUFFICES ASSUME WholeInv PROVE ReturnedWhenWhole  OBVIOUS
    <2>1. ReturnsWhole  BY DEF WholeInv, WholeOut, CoveredBy, ReturnsWhole
    <2>2. NoneComplete
      <3> SUFFICES ASSUME NEW d \in Id, NEW l \in reass.ipr[d].frags, pkt[l].last,
                          CoveredBy(pkt, reass.ipr[d].frags) = 0..(pkt[l].end - 1)
                   PROVE  FALSE
        BY DEF NoneComplete, CoveredBy
      <3>1. Consistent(pkt, d, reass.ipr[d])  BY DEF WholeInv, Pieces
      <3>2. NoHoles(pkt, reass.ipr[d].frags)  BY <3>1, NoHolesIfWhole
      <3>3. reass.ipr[d].last  BY <3>1 DEF Consistent
      <3> QED  BY <3>2, <3>3 DEF WholeInv, Pieces
    <2> QED  BY <2>1, <2>2 DEF ReturnedWhenWhole
  <1> QED  BY <1>1, WholeInvariant, PTL

=============================================================================
