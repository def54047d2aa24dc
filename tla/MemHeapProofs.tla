---------------------------- MODULE MemHeapProofs ----------------------------
(***************************************************************************)
(* Theorems about MemHeap, for every alignment, every size of the heap and *)
(* every set of requests: the heap stays sane, mem_malloc fails only when  *)
(* no free block is large enough, and the heap implements Allocator.       *)
(***************************************************************************)
EXTENDS MemHeap, NaturalsInduction, SequenceTheorems, WellFoundedInduction, TLAPS

-----------------------------------------------------------------------------
(***************************************************************************)
(* The inductive invariant speaks of a set B, the offsets of the blocks    *)
(* and the end of the heap, instead of the list from offset 0.  Each step  *)
(* changes B by a block or two; that B is the list is shown once.          *)
(***************************************************************************)
Chain(B, h) ==
  /\ B \in SUBSET Offset /\ 0 \in B /\ MemSize \in B
  /\ h \in [Offset -> Mem] /\ h[MemSize].used /\ h[0].prev = 0
  /\ \A p \in B \ {MemSize} :
       /\ h[p].next \in B /\ p + Header + MinSize <= h[p].next
       /\ h[p].next # MemSize => h[h[p].next].prev = p
       /\ \A q \in B : q <= p \/ h[p].next <= q

Coalesced(B, h) == \A p \in B \ {MemSize} : ~h[p].used => h[h[p].next].used

(* lfree is the lowest free block, or the one mem_malloc has just taken. *)
LowestIs(B) ==
  /\ lfree \in B
  /\ \A p \in B : ~heap[p].used => lfree <= p
  /\ (pc = "adjust" /\ lfree = ptr) \/ lfree = MemSize \/ ~heap[lfree].used

(* Callers hold used blocks that are large enough, and all but the one that
   mem_malloc is about to hand out. *)
HeldBy(B) ==
  /\ live \in [DOMAIN live -> Nat \ {0}]
  /\ \A m \in DOMAIN live :
       m \in B /\ m # MemSize /\ heap[m].used /\ m + Header + live[m] <= heap[m].next
  /\ \A p \in B \ {MemSize} : heap[p].used => p \in DOMAIN live \/ (pc = "adjust" /\ p = ptr)

(* mem_malloc between two blocks.  Unless it was disturbed, no free block it
   has passed is large enough, or free at all when it looks for lfree. *)
InMalloc(B) ==
  /\ pc \in {"idle", "scan", "adjust"} /\ ptr \in Offset /\ cur \in Offset /\ want \in Nat
  /\ disturbed \in BOOLEAN
  /\ pc # "idle" => want \in Request \ {0}
  /\ pc = "scan" /\ ~disturbed =>
       /\ ptr \in B \ {MemSize}
       /\ \A p \in B : p < ptr /\ ~heap[p].used => Room(heap, p) < Aligned(want)
  /\ pc = "adjust" =>
       /\ ptr \in B \ {MemSize} /\ heap[ptr].used /\ ptr \notin DOMAIN live
       /\ ptr + Header + want <= heap[ptr].next
       /\ ~disturbed => /\ cur \in B \ {MemSize}
                        /\ \A p \in B : ~heap[p].used => cur < p

(* mem_trim: the sizes it has computed are still those of the block. *)
InTrim(B) ==
  trim = NoTrim \/
    /\ trim \in [mem : Offset, new : Request \ {0}, size : Int]
    /\ trim.mem \in DOMAIN live /\ trim.new < live[trim.mem]
    /\ trim.size = Room(heap, trim.mem) /\ Aligned(trim.new) < trim.size

HeapInvOf(B) ==
  Chain(B, heap) /\ Coalesced(B, heap) /\ LowestIs(B) /\ HeldBy(B) /\ InMalloc(B) /\ InTrim(B)

HeapInv == \E B \in SUBSET Offset : HeapInvOf(B)

-----------------------------------------------------------------------------
(***************************************************************************)
(* Arithmetic.                                                             *)
(***************************************************************************)
(* Division with remainder. *)
LEMMA Euclid ==
  ASSUME NEW a \in Nat \ {0}, NEW x \in Nat
  PROVE  x \div a \in Nat /\ x % a \in 0..(a - 1) /\ x = a * (x \div a) + (x % a)
  OBVIOUS

(* A multiple leaves no remainder. *)
LEMMA MultipleRemainder ==
  ASSUME NEW a \in Nat \ {0}, NEW k \in Nat
  PROVE  (a * k) % a = 0
  <1> DEFINE x == a * k
             d == x \div a
             r == x % a
  <1>0. x \in Nat  OBVIOUS
  <1>1. d \in Nat /\ r \in 0..(a - 1) /\ x = a * d + r  BY <1>0, Euclid
  <1>2. x = a * k  OBVIOUS
  <1> HIDE DEF d, r, x
  <1>3. r = a * (k - d)  BY <1>1, <1>2
  <1>4. k - d >= 1 => a * (k - d) >= a  BY <1>1
  <1>5. k - d <= -1 => a * (k - d) <= -a  BY <1>1
  <1>6. k - d = 0  BY <1>1, <1>3, <1>4, <1>5
  <1> QED  BY <1>1, <1>3, <1>6 DEF r, x

(* Multiples add up. *)
LEMMA SumOfMultiples ==
  ASSUME NEW a \in Nat \ {0}, NEW x \in Nat, NEW y \in Nat, x % a = 0, y % a = 0
  PROVE  (x + y) % a = 0
  <1> DEFINE k == x \div a
             l == y \div a
  <1>1. x = a * k + 0 /\ y = a * l + 0 /\ k \in Nat /\ l \in Nat  BY Euclid
  <1> HIDE DEF k, l
  <1>2. x + y = a * (k + l) /\ k + l \in Nat  BY <1>1
  <1> QED  BY <1>2, MultipleRemainder

(* LWIP_MEM_ALIGN_SIZE rounds up to a multiple. *)
LEMMA AlignedUp ==
  ASSUME NEW n \in Nat \ {0}
  PROVE  Aligned(n) \in Nat /\ n <= Aligned(n) /\ Aligned(n) >= MinSize /\ Aligned(n) % Align = 0
  <1> DEFINE x == n + Align - 1
             d == x \div Align
             r == x % Align
  <1>0. Align \in Nat \ {0}  BY AlignAssumption
  <1>1. x \in Nat /\ Aligned(n) = d * Align  BY <1>0 DEF Aligned
  <1> HIDE DEF x
  <1>2. d \in Nat /\ r \in 0..(Align - 1) /\ x = Align * d + r  BY <1>0, <1>1, Euclid
  <1> HIDE DEF d, r
  <1>3. d * Align = Align * d /\ Align * d \in Nat  BY <1>0, <1>2
  <1>4. d # 0
    <2> SUFFICES ASSUME d = 0 PROVE FALSE  OBVIOUS
    <2>1. x = r  BY <1>0, <1>2
    <2> QED  BY <1>0, <1>2, <2>1 DEF x
  <1>5. Align * d >= Align  BY <1>0, <1>2, <1>4
  <1>6. n <= Align * d  BY <1>0, <1>2, <1>3 DEF x
  <1>7. (Align * d) % Align = 0  BY <1>0, <1>2, MultipleRemainder
  <1> QED  BY <1>1, <1>3, <1>5, <1>6, <1>7 DEF MinSize

(* The offsets, without the arithmetic. *)
LEMMA Offsets ==
  /\ Offset \in SUBSET Nat /\ \A p \in Offset : p <= MemSize
  /\ 0 \in Offset /\ MemSize \in Offset /\ MemSize \in Nat /\ MemSize # 0
  /\ Header \in Nat \ {0} /\ MinSize \in Nat \ {0}
  <1>1. Align \in Nat \ {0} /\ MemSize \in Nat /\ MemSize % Align = 0  BY AlignAssumption
  <1>2. 0 % Align = 0
    <2>1. (Align * 0) % Align = 0  BY <1>1, MultipleRemainder
    <2> QED  BY <1>1, <2>1
  <1>3. MemSize # 0  BY <1>1, HeapNotEmpty
  <1> QED  BY <1>1, <1>2, <1>3 DEF Offset, Header, MinSize

(* The offset a block of n bytes leaves for the next one. *)
LEMMA NextOffset ==
  ASSUME NEW p \in Offset, NEW n \in Nat \ {0}, p + Header + Aligned(n) <= MemSize
  PROVE  p + Header + Aligned(n) \in Offset
  <1> DEFINE c == Aligned(n)
  <1>0. Align \in Nat \ {0} /\ Header = Align  BY AlignAssumption DEF Header
  <1>1. c \in Nat /\ c % Align = 0  BY AlignedUp
  <1>2. p \in Nat /\ p % Align = 0  BY DEF Offset
  <1> HIDE DEF c
  <1>3. Align % Align = 0
    <2>1. (Align * 1) % Align = 0  BY <1>0, MultipleRemainder
    <2> QED  BY <1>0, <2>1
  <1>4. (p + Align) % Align = 0  BY <1>0, <1>2, <1>3, SumOfMultiples
  <1>5. (p + Align + c) % Align = 0
    <2>1. p + Align \in Nat  BY <1>0, <1>2
    <2> QED  BY <1>0, <1>1, <1>4, <2>1, SumOfMultiples
  <1>6. p + Align + c \in 0..MemSize  BY <1>0, <1>1, <1>2, AlignAssumption DEF c
  <1>7. p + Align + c \in Offset  BY <1>5, <1>6 DEF Offset
  <1> QED  BY <1>0, <1>7 DEF c

-----------------------------------------------------------------------------
(***************************************************************************)
(* The list: what Relink and Split do to each struct mem, and to a chain.  *)
(***************************************************************************)
LEMMA RelinkIs ==
  ASSUME NEW h \in [Offset -> Mem], NEW m \in Offset, NEW n \in Offset
  PROVE  /\ Relink(h, m, n) \in [Offset -> Mem]
         /\ \A p \in Offset :
              /\ Relink(h, m, n)[p].next = IF p = m THEN n ELSE h[p].next
              /\ Relink(h, m, n)[p].prev = IF p = n /\ n # MemSize THEN m ELSE h[p].prev
              /\ Relink(h, m, n)[p].used = h[p].used
  <1> DEFINE g == [h EXCEPT ![m].next = n]
  <1>1. g \in [Offset -> Mem]  BY DEF Mem
  <1>2. \A p \in Offset : /\ g[p].next = IF p = m THEN n ELSE h[p].next
                          /\ g[p].prev = h[p].prev /\ g[p].used = h[p].used
    BY DEF Mem
  <1> HIDE DEF g
  <1>3. CASE n = MemSize
    <2>1. Relink(h, m, n) = g  BY <1>3 DEF Relink, g
    <2> QED  BY <1>1, <1>2, <1>3, <2>1
  <1>4. CASE n # MemSize
    <2> DEFINE f == [g EXCEPT ![n].prev = m]
    <2>1. Relink(h, m, n) = f  BY <1>4 DEF Relink, g
    <2>2. f \in [Offset -> Mem]  BY <1>1 DEF Mem
    <2>3. \A p \in Offset : /\ f[p].prev = IF p = n THEN m ELSE g[p].prev
                            /\ f[p].next = g[p].next /\ f[p].used = g[p].used
      BY <1>1 DEF Mem
    <2> HIDE DEF f
    <2> QED  BY <1>2, <1>4, <2>1, <2>2, <2>3
  <1> QED  BY <1>3, <1>4

(* Heap g is h with a free block q between m and n. *)
Inserted(h, g, m, q, n) ==
  /\ g \in [Offset -> Mem]
  /\ \A p \in Offset :
       /\ g[p].next = IF p = m THEN q ELSE IF p = q THEN n ELSE h[p].next
       /\ g[p].prev = IF p = q THEN m ELSE IF p = n /\ n # MemSize THEN q ELSE h[p].prev
       /\ g[p].used = IF p = q THEN FALSE ELSE h[p].used

(* A block cut in two: the chain has one offset more. *)
LEMMA SplitIs ==
  ASSUME NEW h \in [Offset -> Mem], NEW m \in Offset, NEW q \in Offset, m # q, q # MemSize
  PROVE  Inserted(h, Split(h, m, q), m, q, h[m].next)
  <1> DEFINE n == h[m].next
             u == [h EXCEPT ![q].used = FALSE]
             v == Relink(u, q, n)
             w == Relink(v, m, q)
  <1>1. n \in Offset  BY DEF Mem
  <1>2. u \in [Offset -> Mem]
    <2>1. h[q] \in Mem  OBVIOUS
    <2>2. [h[q] EXCEPT !.used = FALSE] \in Mem  BY <2>1 DEF Mem
    <2> QED  BY <2>2
  <1>3. \A p \in Offset : /\ u[p].next = h[p].next /\ u[p].prev = h[p].prev
                          /\ u[p].used = IF p = q THEN FALSE ELSE h[p].used
    BY DEF Mem
  <1>4. Split(h, m, q) = w  BY DEF Split
  <1> HIDE DEF n, u
  <1>5. /\ v \in [Offset -> Mem]
        /\ \A p \in Offset :
             /\ v[p].next = IF p = q THEN n ELSE u[p].next
             /\ v[p].prev = IF p = n /\ n # MemSize THEN q ELSE u[p].prev
             /\ v[p].used = u[p].used
    BY <1>1, <1>2, RelinkIs
  <1> HIDE DEF v
  <1>6. /\ w \in [Offset -> Mem]
        /\ \A p \in Offset :
             /\ w[p].next = IF p = m THEN q ELSE v[p].next
             /\ w[p].prev = IF p = q /\ q # MemSize THEN m ELSE v[p].prev
             /\ w[p].used = v[p].used
    BY <1>5, RelinkIs
  <1> HIDE DEF w
  <1> QED  BY <1>3, <1>4, <1>5, <1>6 DEF Inserted, n

(* Two blocks p..x and m..n that do not overlap, and q inside the latter. *)
LEMMA Apart ==
  ASSUME NEW m \in Nat, NEW q \in Nat, NEW n \in Nat, NEW p \in Nat, NEW x \in Nat,
         m < q, q < n, p < x, p # m, p <= m \/ n <= p, m <= p \/ x <= m
  PROVE  (q <= p \/ x <= q) /\ x # n
  OBVIOUS

(* A new block between two others. *)
LEMMA ChainInsert ==
  ASSUME NEW B, NEW h, Chain(B, h), NEW m \in B \ {MemSize}, NEW q \in Offset,
         m + Header + MinSize <= q, q + Header + MinSize <= h[m].next,
         NEW g, Inserted(h, g, m, q, h[m].next)
  PROVE  Chain(B \cup {q}, g) /\ q \notin B /\ m < q /\ q < h[m].next
  <1> DEFINE n == h[m].next
             C == B \cup {q}
  <1>0. B \in SUBSET Nat /\ Header \in Nat \ {0} /\ MinSize \in Nat \ {0} /\ q \in Nat
         /\ MemSize \in Nat /\ \A p \in B : p <= MemSize
    BY Offsets DEF Chain
  <1>1. B \in SUBSET Offset /\ 0 \in B /\ MemSize \in B /\ h \in [Offset -> Mem] /\ h[MemSize].used
         /\ h[0].prev = 0
    BY DEF Chain
  <1>2. /\ n \in B /\ m + Header + MinSize <= n
        /\ n # MemSize => h[n].prev = m
        /\ \A p \in B : p <= m \/ n <= p
        /\ q + Header + MinSize <= n
    BY DEF Chain
  <1> HIDE DEF n
  <1>3. m \in Nat /\ n \in Nat /\ m < q /\ q < n /\ q < MemSize /\ m < MemSize
    <2>1. m \in Nat /\ n \in Nat /\ n <= MemSize  BY <1>0, <1>2
    <2>2. m < q /\ q < n  BY <1>0, <1>2, <2>1
    <2> QED  BY <1>0, <2>1, <2>2
  <1>4. q \notin B  BY <1>0, <1>2, <1>3
  <1>5. n # q /\ m # q /\ m # n /\ q # MemSize /\ q # 0 /\ n # 0  BY <1>0, <1>3
  <1> HIDE DEF n
  <1>6. /\ g \in [Offset -> Mem]
        /\ g[m].next = q /\ g[q].next = n
        /\ \A p \in Offset : p # m /\ p # q => g[p].next = h[p].next
        /\ g[q].prev = m /\ (n # MemSize => g[n].prev = q)
        /\ \A p \in Offset : p # n /\ p # q => g[p].prev = h[p].prev
        /\ \A p \in Offset : p # q => g[p].used = h[p].used
    BY <1>1, <1>2, <1>5 DEF Inserted, n
  <1>7. C \in SUBSET Offset /\ 0 \in C /\ MemSize \in C  BY <1>1
  <1>8. g[MemSize].used /\ g[0].prev = 0  BY <1>1, <1>5, <1>6
  <1>9. ASSUME NEW p \in C \ {MemSize}
        PROVE  /\ g[p].next \in C /\ p + Header + MinSize <= g[p].next
               /\ g[p].next # MemSize => g[g[p].next].prev = p
               /\ \A x \in C : x <= p \/ g[p].next <= x
    <2>1. CASE p = m  BY <1>0, <1>2, <1>3, <1>5, <1>6, <2>1
    <2>2. CASE p = q  BY <1>0, <1>2, <1>3, <1>5, <1>6, <2>2 DEF n
    <2>3. CASE p # m /\ p # q
      <3> DEFINE x == h[p].next
      <3>1. p \in B \ {MemSize} /\ g[p].next = x  BY <1>1, <1>6, <2>3
      <3>2. /\ x \in B /\ p + Header + MinSize <= x
            /\ x # MemSize => h[x].prev = p
            /\ \A y \in B : y <= p \/ x <= y
        BY <3>1 DEF Chain
      <3> HIDE DEF x
      <3>3. (q <= p \/ x <= q) /\ x # n
        <4>1. p \in Nat /\ x \in Nat  BY <1>0, <3>1, <3>2
        <4>2. p < x  BY <1>0, <3>2, <4>1
        <4>3. (p <= m \/ n <= p) /\ (m <= p \/ x <= m)  BY <1>2, <3>1, <3>2
        <4> QED  BY <1>0, <1>3, <2>3, <4>1, <4>2, <4>3, Apart
      <3>4. x # q  BY <1>4, <3>2
      <3>5. x # MemSize => g[x].prev = p  BY <1>1, <1>6, <3>2, <3>3, <3>4
      <3> QED  BY <3>1, <3>2, <3>3, <3>5
    <2> QED  BY <2>1, <2>2, <2>3
  <1> QED  BY <1>3, <1>4, <1>6, <1>7, <1>8, <1>9 DEF Chain, n

(* A block is joined to the one before it. *)
LEMMA ChainRemove ==
  ASSUME NEW B, NEW h, Chain(B, h), NEW m \in B \ {MemSize}, NEW n, n = h[m].next, n # MemSize
  PROVE  /\ Chain(B \ {n}, Relink(h, m, h[n].next))
         /\ n \in B /\ m < n /\ h[n].next \in B /\ n < h[n].next
         /\ \A p \in B \ {m, n, MemSize} : h[p].next # n
  <1> DEFINE o == h[n].next
             g == Relink(h, m, o)
             C == B \ {n}
  <1>0. B \in SUBSET Nat /\ Header \in Nat \ {0} /\ MinSize \in Nat \ {0} /\ MemSize \in Nat
         /\ \A p \in B : p <= MemSize
    BY Offsets DEF Chain
  <1>1. B \in SUBSET Offset /\ 0 \in B /\ MemSize \in B /\ h \in [Offset -> Mem] /\ h[MemSize].used
         /\ h[0].prev = 0
    BY DEF Chain
  <1>2. /\ n \in B /\ m + Header + MinSize <= n
        /\ h[n].prev = m
        /\ \A p \in B : p <= m \/ n <= p
    BY DEF Chain
  <1>3. /\ o \in B /\ n + Header + MinSize <= o
        /\ o # MemSize => h[o].prev = n
        /\ \A p \in B : p <= n \/ o <= p
    BY <1>2 DEF Chain
  <1> HIDE DEF o
  <1>4. m \in Nat /\ n \in Nat /\ o \in Nat /\ m < n /\ n < o /\ n # 0 /\ m # o
    <2>1. m \in Nat /\ n \in Nat /\ o \in Nat  BY <1>0, <1>2, <1>3
    <2> QED  BY <1>0, <1>2, <1>3, <2>1
  <1>5. /\ g \in [Offset -> Mem]
        /\ \A p \in Offset :
             /\ g[p].next = IF p = m THEN o ELSE h[p].next
             /\ g[p].prev = IF p = o /\ o # MemSize THEN m ELSE h[p].prev
             /\ g[p].used = h[p].used
    <2>1. m \in Offset /\ o \in Offset  BY <1>1, <1>3
    <2> QED  BY <1>1, <2>1, RelinkIs
  <1> HIDE DEF g
  <1>6. C \in SUBSET Offset /\ 0 \in C /\ MemSize \in C  BY <1>1, <1>4
  <1>7. g[MemSize].used /\ g[0].prev = 0  BY <1>1, <1>4, <1>5
  <1>8. ASSUME NEW p \in B \ {MemSize}, p # m, p # n
        PROVE  /\ h[p].next # n /\ h[p].next # o
    <2> DEFINE x == h[p].next
    <2>1. /\ x \in B /\ p + Header + MinSize <= x
          /\ \A y \in B : y <= p \/ x <= y
      BY <1>8 DEF Chain
    <2> HIDE DEF x
    <2>2. p \in Nat /\ x \in Nat /\ p < x  BY <1>0, <1>8, <2>1
    <2>3. p <= m \/ n <= p  BY <1>2, <1>8
    <2>4. p <= n \/ o <= p  BY <1>3, <1>8
    <2>5. m <= p \/ x <= m  BY <2>1
    <2>6. n <= p \/ x <= n  BY <1>2, <2>1
    <2>7. x # n /\ x # o  BY <1>4, <1>8, <2>2, <2>3, <2>4, <2>5, <2>6
    <2> QED  BY <2>7 DEF x
  <1>9. ASSUME NEW p \in C \ {MemSize}
        PROVE  /\ g[p].next \in C /\ p + Header + MinSize <= g[p].next
               /\ g[p].next # MemSize => g[g[p].next].prev = p
               /\ \A x \in C : x <= p \/ g[p].next <= x
    <2>1. CASE p = m
      <3>1. g[p].next = o /\ o \in C /\ (o # MemSize => g[o].prev = m)
        BY <1>1, <1>3, <1>4, <1>5, <2>1
      <3>2. p + Header + MinSize <= o  BY <1>0, <1>2, <1>3, <1>4, <2>1
      <3>3. ASSUME NEW x \in C PROVE x <= p \/ o <= x
        <4>1. x \in Nat /\ x # n /\ (x <= m \/ n <= x) /\ (x <= n \/ o <= x)  BY <1>0, <1>2, <1>3
        <4> QED  BY <1>4, <2>1, <4>1
      <3> QED  BY <2>1, <3>1, <3>2, <3>3
    <2>2. CASE p # m
      <3> DEFINE x == h[p].next
      <3>1. p \in B \ {MemSize} /\ p # n /\ g[p].next = x  BY <1>1, <1>5, <2>2
      <3>2. /\ x \in B /\ p + Header + MinSize <= x
            /\ x # MemSize => h[x].prev = p
            /\ \A y \in B : y <= p \/ x <= y
        BY <3>1 DEF Chain
      <3>3. x # n /\ x # o  BY <1>8, <2>2, <3>1
      <3> HIDE DEF x
      <3>4. x # MemSize => g[x].prev = p  BY <1>1, <1>5, <3>2, <3>3
      <3> QED  BY <3>1, <3>2, <3>3, <3>4
    <2> QED  BY <2>1, <2>2
  <1>10. \A p \in B \ {m, n, MemSize} : h[p].next # n  BY <1>8
  <1> QED  BY <1>2, <1>3, <1>4, <1>5, <1>6, <1>7, <1>9, <1>10 DEF Chain, o, g

-----------------------------------------------------------------------------
(***************************************************************************)
(* The chain is the list that starts at offset 0.                          *)
(***************************************************************************)
(* A set of naturals that is not empty has a least element. *)
LEMMA LeastNat ==
  ASSUME NEW T \in SUBSET Nat, T # {}
  PROVE  \E n \in T : \A m \in T : n <= m
  <1> DEFINE R == OpToRel(<, Nat)
  <1>1. IsWellFoundedOn(R, Nat)  BY NatLessThanWellFounded
  <1>2. PICK n \in T : \A m \in T : <<m, n>> \notin R
    <2> HIDE DEF R
    <2> QED  BY <1>1, WFMin
  <1>3. \A m \in T : ~(m < n)  BY <1>2 DEF R, OpToRel
  <1> QED  BY <1>3

(* A bounded set of naturals that is not empty has a greatest element. *)
LEMMA GreatestNat ==
  ASSUME NEW N \in Nat, NEW T \in SUBSET (0..N), T # {}
  PROVE  \E n \in T : \A m \in T : m <= n
  <1> DEFINE U == {N - m : m \in T}
  <1>0. \A m \in T : m \in Nat /\ m <= N /\ N - m \in Nat  OBVIOUS
  <1>1. U \in SUBSET Nat /\ U # {}  BY <1>0
  <1>2. PICK u \in U : \A v \in U : u <= v
    <2> HIDE DEF U
    <2> QED  BY <1>1, LeastNat
  <1>3. PICK n \in T : u = N - n  BY <1>2
  <1>4. \A m \in T : N - n <= N - m  BY <1>2, <1>3
  <1> QED  BY <1>0, <1>4

(* Every block but the first has one before it. *)
LEMMA Predecessor ==
  ASSUME NEW B, NEW h, Chain(B, h), NEW p \in B \ {0}
  PROVE  \E m \in B \ {MemSize} : h[m].next = p /\ m < p
  <1> DEFINE T == {m \in B : m < p}
  <1>1. B \in SUBSET Nat /\ MemSize \in Nat /\ 0 \in B /\ \A x \in B : x <= MemSize
    BY Offsets DEF Chain
  <1>2. p \in Nat /\ p # 0 /\ p <= MemSize  BY <1>1
  <1>3. T \in SUBSET (0..MemSize) /\ 0 \in T
    <2>1. \A x \in B : x \in 0..MemSize  BY <1>1
    <2>2. 0 < p  BY <1>2
    <2> QED  BY <1>1, <2>1, <2>2
  <1>4. PICK m \in T : \A x \in T : x <= m
    <2> HIDE DEF T
    <2> QED  BY <1>1, <1>3, GreatestNat
  <1>5. m \in B /\ m < p /\ m \in Nat /\ m # MemSize  BY <1>1, <1>2, <1>4
  <1> DEFINE n == h[m].next
  <1>6. /\ n \in B /\ m + Header + MinSize <= n /\ (p <= m \/ n <= p)
    BY <1>5 DEF Chain
  <1> HIDE DEF n
  <1>7. n \in Nat /\ n <= p
    <2>1. n \in Nat  BY <1>1, <1>6
    <2> QED  BY <1>2, <1>5, <1>6, <2>1
  <1>8. m < n  BY <1>5, <1>6, <1>7, Offsets
  <1>9. ~(n < p)
    <2> SUFFICES ASSUME n < p PROVE FALSE  OBVIOUS
    <2>1. n \in T  BY <1>6
    <2>2. n <= m
      <3> HIDE DEF T
      <3> QED  BY <1>4, <2>1
    <2> QED  BY <1>5, <1>7, <1>8, <2>2
  <1>10. n = p  BY <1>2, <1>7, <1>9
  <1> QED  BY <1>5, <1>10 DEF n

(* So the blocks of the list are those of the chain. *)
LEMMA OnListIs ==
  ASSUME NEW B, Chain(B, heap)
  PROVE  \A p \in Offset : OnList[p] <=> p \in B
  <1> DEFINE body(f) == [p \in Offset |-> p = 0 \/ \E q \in 0..(p - 1) : q \in Offset /\ f[q] /\ heap[q].next = p]
             b == [p \in Offset |-> p \in B]
  <1>1. B \in SUBSET Offset /\ 0 \in B /\ \A x \in Offset : x \in Nat /\ x <= MemSize
    BY Offsets DEF Chain
  <1>2. b = body(b)
    <2> SUFFICES ASSUME NEW p \in Offset
                 PROVE  p \in B <=> (p = 0 \/ \E q \in 0..(p - 1) : q \in Offset /\ q \in B /\ heap[q].next = p)
      <3>1. \A q \in Offset : b[q] = (q \in B)  OBVIOUS
      <3>2. \A p \in Offset : (p = 0 \/ \E q \in 0..(p - 1) : q \in Offset /\ b[q] /\ heap[q].next = p)
                             = (p = 0 \/ \E q \in 0..(p - 1) : q \in Offset /\ q \in B /\ heap[q].next = p)
        BY <3>1
      <3>3. b = [p \in Offset |-> p = 0 \/ \E q \in 0..(p - 1) : q \in Offset /\ q \in B /\ heap[q].next = p]
        OBVIOUS
      <3> QED  BY <3>2, <3>3
    <2>1. ASSUME p \in B PROVE p = 0 \/ \E q \in 0..(p - 1) : q \in Offset /\ q \in B /\ heap[q].next = p
      <3>1. CASE p = 0  BY <3>1
      <3>2. CASE p # 0
        <4>1. PICK m \in B \ {MemSize} : heap[m].next = p /\ m < p  BY <2>1, <3>2, Predecessor
        <4>2. m \in Offset /\ m \in 0..(p - 1)  BY <1>1, <4>1
        <4> QED  BY <4>1, <4>2
      <3> QED  BY <3>1, <3>2
    <2>2. ASSUME NEW q \in 0..(p - 1), q \in B, heap[q].next = p PROVE p \in B
      <3>1. q # MemSize  BY <1>1, Offsets
      <3> QED  BY <2>2, <3>1 DEF Chain
    <2> QED  BY <1>1, <2>1, <2>2
  <1>3. OnList = CHOOSE f : f = body(f)  BY DEF OnList
  <1>4. OnList = body(OnList)
    <2> HIDE DEF body
    <2> QED  BY <1>2, <1>3
  <1>5. \A p \in Offset : OnList[p] = (p = 0 \/ \E q \in 0..(p - 1) : q \in Offset /\ OnList[q] /\ heap[q].next = p)
    BY <1>4
  <1>6. \A p \in Offset : b[p] = (p = 0 \/ \E q \in 0..(p - 1) : q \in Offset /\ b[q] /\ heap[q].next = p)
    BY <1>2
  <1> DEFINE T == {p \in Offset : OnList[p] # b[p]}
  <1> HIDE DEF OnList, b
  <1>7. T = {}
    <2> SUFFICES ASSUME T # {} PROVE FALSE  OBVIOUS
    <2>1. T \in SUBSET Nat  BY <1>1
    <2>2. PICK p \in T : \A q \in T : p <= q
      <3> HIDE DEF T
      <3> QED  BY <2>1, LeastNat
    <2>3. p \in Offset /\ p \in Nat /\ OnList[p] # b[p]  BY <1>1, <2>2
    <2>4. ASSUME NEW q \in 0..(p - 1), q \in Offset PROVE OnList[q] = b[q]
      <3>1. ~(p <= q)  BY <2>3
      <3>2. q \notin T
        <4> HIDE DEF T
        <4> QED  BY <2>2, <3>1
      <3> QED  BY <2>4, <3>2
    <2>5. OnList[p] = b[p]  BY <1>5, <1>6, <2>3, <2>4
    <2> QED  BY <2>3, <2>5
  <1>8. \A p \in Offset : OnList[p] = b[p]  BY <1>7
  <1> QED  BY <1>8 DEF b

-----------------------------------------------------------------------------
(***************************************************************************)
(* mem_malloc, where it does not change the heap.                          *)
(***************************************************************************)
(* What a state with the same blocks, callers and trim keeps. *)
LEMMA SameBlocks ==
  ASSUME NEW B, HeapInvOf(B), UNCHANGED <<heap, trim>>, UNCHANGED live
  PROVE  Chain(B, heap') /\ Coalesced(B, heap') /\ InTrim(B)'
  BY DEF HeapInvOf, Chain, Coalesced, InTrim, Room

(* The head of the scan loop, at a block p no free block below which fits. *)
LEMMA LookKeeps ==
  ASSUME NEW B, HeapInvOf(B), pc # "adjust", NEW p \in B, NEW n \in Request \ {0},
         \A r \in B : r < p /\ ~heap[r].used => Room(heap, r) < Aligned(n),
         Look(p, n), UNCHANGED <<heap, lfree, cur, live, trim>>
  PROVE  HeapInvOf(B)'
  <1>1. Chain(B, heap') /\ Coalesced(B, heap') /\ InTrim(B)'  BY SameBlocks
  <1>2. pc' \in {"scan", "idle"}  BY DEF Look
  <1>3. LowestIs(B)'  BY <1>2 DEF HeapInvOf, LowestIs
  <1>4. HeldBy(B)'  BY <1>2 DEF HeapInvOf, HeldBy
  <1>5. B \in SUBSET Offset /\ 0 \in Offset /\ 0 \in Nat /\ cur \in Offset /\ n \in Nat
         /\ disturbed \in BOOLEAN /\ p \in Nat
    BY Offsets, RequestAssumption DEF HeapInvOf, Chain, InMalloc
  <1>6. InMalloc(B)'
    <2>1. CASE /\ InReach(p, n)
               /\ pc' = "scan" /\ ptr' = p /\ want' = n /\ disturbed' = FALSE
      <3>1. p # MemSize
        <4>1. n \in Nat \ {0}  BY <1>5
        <4>2. Aligned(n) \in Nat  BY <4>1, AlignedUp
        <4>3. p < MemSize - Aligned(n)  BY <2>1 DEF InReach
        <4> QED  BY <1>5, <4>2, <4>3, Offsets
      <3>2. \A r \in B : r < ptr' /\ ~heap'[r].used => Room(heap', r) < Aligned(want')
        BY <2>1
      <3> QED  BY <1>5, <2>1, <3>1, <3>2 DEF InMalloc
    <2>2. CASE /\ ~InReach(p, n)
               /\ pc' = "idle" /\ want' = 0 /\ ptr' = 0 /\ UNCHANGED disturbed
      BY <1>5, <2>2 DEF InMalloc
    <2> QED  BY <2>1, <2>2 DEF Look
  <1> QED  BY <1>1, <1>3, <1>4, <1>6 DEF HeapInvOf

(* No free block lies below lfree. *)
LEMMA NothingBelow ==
  ASSUME NEW B, HeapInvOf(B)
  PROVE  lfree \in B /\ \A r \in B : r < lfree => heap[r].used
  <1>1. lfree \in B /\ B \in SUBSET Nat  BY Offsets DEF HeapInvOf, LowestIs, Chain
  <1>2. \A r \in B : ~heap[r].used => lfree <= r  BY DEF HeapInvOf, LowestIs
  <1>3. \A r \in B : r < lfree => ~(lfree <= r)  BY <1>1
  <1> QED  BY <1>1, <1>2, <1>3

(* mem_malloc starts at lfree, the lowest block that may be free. *)
LEMMA MallocStartKeeps ==
  ASSUME NEW B, HeapInvOf(B), NEW n \in Request, MallocStart(n)
  PROVE  HeapInvOf(B)'
  <1>1. lfree \in B /\ \A r \in B : r < lfree => heap[r].used  BY NothingBelow
  <1> QED  BY <1>1, LookKeeps DEF MallocStart

(* The list changed while the search had let go: it starts again at lfree. *)
LEMMA MallocRestartKeeps ==
  ASSUME NEW B, HeapInvOf(B), MallocRestart
  PROVE  HeapInvOf(B)'
  <1>1. lfree \in B /\ \A r \in B : r < lfree => heap[r].used  BY NothingBelow
  <1>2. want \in Request \ {0}  BY DEF HeapInvOf, InMalloc, MallocRestart
  <1> QED  BY <1>1, <1>2, LookKeeps DEF MallocRestart, Restart

(* What is below the next block is below this one, or is this one. *)
LEMMA BelowNext ==
  ASSUME NEW B, NEW h, Chain(B, h), NEW p \in B \ {MemSize}, NEW r \in B
  PROVE  /\ h[p].next \in B /\ p < h[p].next
         /\ r < h[p].next => r < p \/ r = p
         /\ p < r => h[p].next <= r
  <1> DEFINE n == h[p].next
  <1>1. n \in B /\ p + Header + MinSize <= n /\ (r <= p \/ n <= r)  BY DEF Chain
  <1>2. p \in Nat /\ n \in Nat /\ r \in Nat  BY <1>1, Offsets DEF Chain
  <1> HIDE DEF n
  <1>3. p < n /\ (r < n => r < p \/ r = p) /\ (p < r => n <= r)  BY <1>1, <1>2, Offsets
  <1> QED  BY <1>1, <1>3 DEF n

(* A block that is not taken is no free block that fits. *)
LEMMA SkippedBelow ==
  ASSUME NEW B, HeapInvOf(B), MallocSkip
  PROVE  /\ want \in Request \ {0} /\ ptr \in B \ {MemSize} /\ heap[ptr].next \in B
         /\ \A r \in B : r < heap[ptr].next /\ ~heap[r].used => Room(heap, r) < Aligned(want)
  <1>1. /\ want \in Request \ {0} /\ ptr \in B \ {MemSize}
        /\ \A r \in B : r < ptr /\ ~heap[r].used => Room(heap, r) < Aligned(want)
    BY DEF HeapInvOf, InMalloc, MallocSkip
  <1>2. Chain(B, heap)  BY DEF HeapInvOf
  <1>3. heap[ptr].next \in B /\ \A r \in B : r < heap[ptr].next => r < ptr \/ r = ptr
    BY <1>1, <1>2, BelowNext
  <1>4. ~heap[ptr].used => Room(heap, ptr) < Aligned(want)
    <2>1. ~heap[ptr].used => ~(Room(heap, ptr) >= Aligned(want))  BY DEF MallocSkip, Fits
    <2>2. Room(heap, ptr) \in Int
      <3>1. ptr \in Nat /\ heap[ptr].next \in Nat /\ Header \in Nat
        BY <1>1, <1>2, <1>3, Offsets DEF Chain
      <3> QED  BY <3>1 DEF Room
    <2>3. Aligned(want) \in Nat
      <3>1. want \in Nat \ {0}  BY <1>1, RequestAssumption
      <3> QED  BY <3>1, AlignedUp
    <2> QED  BY <2>1, <2>2, <2>3
  <1> QED  BY <1>1, <1>3, <1>4

(* The block is used or too small: the search goes on to the next. *)
LEMMA MallocSkipKeeps ==
  ASSUME NEW B, HeapInvOf(B), MallocSkip
  PROVE  HeapInvOf(B)'
  <1>1. /\ want \in Request \ {0} /\ heap[ptr].next \in B
        /\ \A r \in B : r < heap[ptr].next /\ ~heap[r].used => Room(heap, r) < Aligned(want)
    BY SkippedBelow
  <1> QED  BY <1>1, LookKeeps DEF MallocSkip

-----------------------------------------------------------------------------
(***************************************************************************)
(* mem_malloc, from the block it takes.                                    *)
(***************************************************************************)
(* The callers' blocks are in C with heap g, and so is the one of ptr. *)
Kept(C, g) ==
  /\ live \in [DOMAIN live -> Nat \ {0}]
  /\ \A m \in DOMAIN live : m \in C /\ m # MemSize /\ g[m].used /\ m + Header + live[m] <= g[m].next
  /\ ptr \in C \ {MemSize} /\ g[ptr].used /\ ptr \notin DOMAIN live
  /\ ptr + Header + want <= g[ptr].next /\ want \in Request \ {0}
  /\ \A p \in C \ {MemSize} : g[p].used => p \in DOMAIN live \/ p = ptr
  /\ \A m \in DOMAIN live : g[m].next = heap[m].next

(* The block is handed out. *)
LEMMA ReturnKeeps ==
  ASSUME NEW B, HeapInvOf(B), NEW C, Chain(C, heap'), Coalesced(C, heap'), Kept(C, heap'),
         lfree' \in C, \A p \in C : ~heap'[p].used => lfree' <= p,
         lfree' = MemSize \/ ~heap'[lfree'].used,
         Return, UNCHANGED <<disturbed, trim>>
  PROVE  HeapInvOf(C)'
  <1>1. live' = With(live, ptr, want) /\ pc' = "idle" /\ want' = 0 /\ ptr' = 0 /\ cur' = 0  BY DEF Return
  <1>2. LowestIs(C)'  BY DEF LowestIs
  <1>3. /\ DOMAIN live' = DOMAIN live \cup {ptr} /\ live'[ptr] = want
        /\ \A m \in DOMAIN live : live'[m] = live[m]
        /\ live' = [y \in DOMAIN live \cup {ptr} |-> IF y = ptr THEN want ELSE live[y]]
    BY <1>1 DEF With, Kept
  <1>4. want \in Nat \ {0}  BY RequestAssumption DEF Kept
  <1>5. live' \in [DOMAIN live' -> Nat \ {0}]  BY <1>3, <1>4 DEF Kept
  <1>6. HeldBy(C)'
    <2>1. ASSUME NEW m \in DOMAIN live'
          PROVE  m \in C /\ m # MemSize /\ heap'[m].used /\ m + Header + live'[m] <= heap'[m].next
      <3>1. CASE m = ptr  BY <1>3, <3>1 DEF Kept
      <3>2. CASE m # ptr  BY <1>3, <3>2 DEF Kept
      <3> QED  BY <3>1, <3>2
    <2>2. \A p \in C \ {MemSize} : heap'[p].used => p \in DOMAIN live'  BY <1>3 DEF Kept
    <2> QED  BY <1>5, <2>1, <2>2 DEF HeldBy
  <1>7. InMalloc(C)'  BY <1>1, Offsets DEF InMalloc, HeapInvOf
  <1>8. InTrim(C)'
    <2>1. CASE trim = NoTrim  BY <2>1 DEF InTrim
    <2>2. CASE trim # NoTrim
      <3>1. /\ trim \in [mem : Offset, new : Request \ {0}, size : Int]
            /\ trim.mem \in DOMAIN live /\ trim.new < live[trim.mem]
            /\ trim.size = Room(heap, trim.mem) /\ Aligned(trim.new) < trim.size
        BY <2>2 DEF HeapInvOf, InTrim
      <3>2. heap'[trim.mem].next = heap[trim.mem].next  BY <3>1 DEF Kept
      <3>3. Room(heap', trim.mem) = Room(heap, trim.mem)  BY <3>2 DEF Room
      <3>4. trim.mem \in DOMAIN live' /\ live'[trim.mem] = live[trim.mem]  BY <1>3, <3>1
      <3> QED  BY <3>1, <3>3, <3>4 DEF InTrim
    <2> QED  BY <2>1, <2>2
  <1> QED  BY <1>2, <1>6, <1>7, <1>8 DEF HeapInvOf

(* It is not handed out yet: lfree must be found first. *)
LEMMA AdjustFrom ==
  ASSUME NEW B, HeapInvOf(B), NEW C, Chain(C, heap'), Coalesced(C, heap'), Kept(C, heap'),
         lfree = ptr, \A p \in C : ~heap'[p].used => lfree <= p,
         pc' = "adjust", cur' = ptr, disturbed' = FALSE, UNCHANGED <<want, ptr, live, lfree, trim>>
  PROVE  HeapInvOf(C)'
  <1>1. LowestIs(C)'  BY DEF LowestIs, Kept
  <1>2. HeldBy(C)'  BY DEF HeldBy, Kept
  <1>3. InMalloc(C)'
    <2>1. ptr \in Offset /\ C \in SUBSET Nat /\ want \in Nat
      BY Offsets, RequestAssumption DEF HeapInvOf, InMalloc, Chain, Kept
    <2>2. \A p \in C : ~heap'[p].used => ptr < p
      <3> SUFFICES ASSUME NEW p \in C, ~heap'[p].used PROVE ptr < p  OBVIOUS
      <3>1. ptr <= p /\ p # ptr /\ p \in Nat /\ ptr \in Nat  BY <2>1 DEF Kept
      <3> QED  BY <3>1
    <2> QED  BY <2>1, <2>2 DEF InMalloc, Kept
  <1>4. InTrim(C)'
    <2>1. CASE trim = NoTrim  BY <2>1 DEF InTrim
    <2>2. CASE trim # NoTrim
      <3>1. /\ trim \in [mem : Offset, new : Request \ {0}, size : Int]
            /\ trim.mem \in DOMAIN live /\ trim.new < live[trim.mem]
            /\ trim.size = Room(heap, trim.mem) /\ Aligned(trim.new) < trim.size
        BY <2>2 DEF HeapInvOf, InTrim
      <3>2. heap'[trim.mem].next = heap[trim.mem].next  BY <3>1 DEF Kept
      <3>3. Room(heap', trim.mem) = Room(heap, trim.mem)  BY <3>2 DEF Room
      <3> QED  BY <3>1, <3>3 DEF InTrim
    <2> QED  BY <2>1, <2>2
  <1> QED  BY <1>1, <1>2, <1>3, <1>4 DEF HeapInvOf

(* In mem_malloc_adjust_lfree everything is kept but lfree and cur. *)
LEMMA AdjustKept ==
  ASSUME NEW B, HeapInvOf(B), pc = "adjust"
  PROVE  Kept(B, heap)
  BY DEF HeapInvOf, HeldBy, InMalloc, Kept

(* The list changed while lfree was looked for: from lfree again. *)
LEMMA AdjustRestartKeeps ==
  ASSUME NEW B, HeapInvOf(B), AdjustRestart
  PROVE  HeapInvOf(B)'
  <1>1. Kept(B, heap) /\ heap' = heap /\ lfree' = lfree /\ trim' = trim
    BY AdjustKept DEF AdjustRestart
  <1>2. Chain(B, heap') /\ Coalesced(B, heap') /\ Kept(B, heap')  BY <1>1 DEF HeapInvOf
  <1>3. lfree \in B /\ \A p \in B : ~heap[p].used => lfree <= p  BY DEF HeapInvOf, LowestIs
  <1>4. CASE ptr # lfree /\ Return /\ UNCHANGED disturbed
    <2>1. lfree = MemSize \/ ~heap[lfree].used  BY <1>4 DEF HeapInvOf, LowestIs
    <2> QED  BY <1>1, <1>2, <1>3, <1>4, <2>1, ReturnKeeps
  <1>5. CASE ptr = lfree /\ cur' = ptr /\ disturbed' = FALSE /\ UNCHANGED <<pc, want, ptr, live>>
    <2>1. pc' = "adjust"  BY <1>5 DEF AdjustRestart
    <2> QED  BY <1>1, <1>2, <1>3, <1>5, <2>1, AdjustFrom
  <1> QED  BY <1>4, <1>5 DEF AdjustRestart

(* lfree moves on past a used block, or has been found. *)
LEMMA AdjustStepKeeps ==
  ASSUME NEW B, HeapInvOf(B), AdjustStep
  PROVE  HeapInvOf(B)'
  <1> DEFINE n == heap[cur].next
  <1>1. Kept(B, heap) /\ heap' = heap /\ disturbed' = disturbed /\ trim' = trim
    BY AdjustKept DEF AdjustStep
  <1>2. Chain(B, heap) /\ Chain(B, heap') /\ Coalesced(B, heap') /\ Kept(B, heap')
    BY <1>1 DEF HeapInvOf
  <1>3. cur \in B \ {MemSize} /\ \A p \in B : ~heap[p].used => cur < p
    BY DEF HeapInvOf, InMalloc, AdjustStep
  <1>4. n \in B /\ \A p \in B : cur < p => n <= p  BY <1>2, <1>3, BelowNext
  <1>5. \A p \in B : ~heap[p].used => n <= p  BY <1>3, <1>4
  <1> HIDE DEF n
  <1>6. CASE heap[n].used /\ n # MemSize /\ cur' = n /\ UNCHANGED <<lfree, pc, want, ptr, live>>
    <2>1. Chain(B, heap') /\ Coalesced(B, heap') /\ InTrim(B)'  BY <1>1, <1>6, SameBlocks
    <2>2. LowestIs(B)'  BY <1>1, <1>6 DEF HeapInvOf, LowestIs
    <2>3. HeldBy(B)'  BY <1>1, <1>6 DEF HeapInvOf, HeldBy
    <2>4. \A p \in B : ~heap[p].used => n < p
      <3> SUFFICES ASSUME NEW p \in B, ~heap[p].used PROVE n < p  OBVIOUS
      <3>1. n <= p /\ n # p /\ n \in Nat /\ p \in Nat  BY <1>2, <1>4, <1>5, <1>6, Offsets DEF Chain
      <3> QED  BY <3>1
    <2>5. n \in Offset  BY <1>2, <1>4 DEF Chain
    <2>6. InMalloc(B)'  BY <1>1, <1>4, <1>6, <2>4, <2>5 DEF HeapInvOf, InMalloc, AdjustStep
    <2> QED  BY <2>1, <2>2, <2>3, <2>6 DEF HeapInvOf
  <1>7. CASE (~heap[n].used \/ n = MemSize) /\ lfree' = n /\ Return
    <2>1. lfree' \in B /\ (lfree' = MemSize \/ ~heap'[lfree'].used)  BY <1>1, <1>4, <1>7
    <2>2. \A p \in B : ~heap'[p].used => lfree' <= p  BY <1>1, <1>5, <1>7
    <2> QED  BY <1>1, <1>2, <1>7, <2>1, <2>2, ReturnKeeps
  <1> QED  BY <1>6, <1>7 DEF AdjustStep, n

(* A block that only changes its used flag leaves the chain as it is. *)
LEMMA ChainUsed ==
  ASSUME NEW B, NEW h, Chain(B, h), NEW m \in B \ {MemSize}, NEW g \in [Offset -> Mem],
         \A p \in Offset : g[p].next = h[p].next /\ g[p].prev = h[p].prev,
         \A p \in Offset \ {m} : g[p].used = h[p].used
  PROVE  Chain(B, g)
  <1>1. m \in Offset /\ B \in SUBSET Offset /\ 0 \in B /\ MemSize \in B  BY DEF Chain
  <1>2. g[MemSize].used /\ g[0].prev = 0  BY <1>1 DEF Chain
  <1>3. ASSUME NEW p \in B \ {MemSize}
        PROVE  /\ g[p].next \in B /\ p + Header + MinSize <= g[p].next
               /\ g[p].next # MemSize => g[g[p].next].prev = p
               /\ \A q \in B : q <= p \/ g[p].next <= q
    <2>1. g[p].next = h[p].next /\ p \in Offset  BY <1>1
    <2>2. /\ h[p].next \in B /\ p + Header + MinSize <= h[p].next
          /\ h[p].next # MemSize => h[h[p].next].prev = p
          /\ \A q \in B : q <= p \/ h[p].next <= q
      BY DEF Chain
    <2>3. g[h[p].next].prev = h[h[p].next].prev  BY <1>1, <2>2
    <2> QED  BY <2>1, <2>2, <2>3
  <1> QED  BY <1>1, <1>2, <1>3 DEF Chain

(* The block that mem_malloc takes, and splits if the rest can hold data. *)
LEMMA TakeKept ==
  ASSUME NEW B, HeapInvOf(B), MallocTake
  PROVE  \E C \in SUBSET Offset :
           /\ Chain(C, heap') /\ Coalesced(C, heap') /\ Kept(C, heap')
           /\ \A p \in C : ~heap'[p].used => lfree <= p
           /\ lfree \in C
           /\ lfree # ptr => lfree = MemSize \/ ~heap'[lfree].used
  <1> DEFINE h == [heap EXCEPT ![ptr].used = TRUE]
             a == Aligned(want)
             q == ptr + Header + a
             n == heap[ptr].next
  <1>1. Chain(B, heap) /\ ptr \in B \ {MemSize} /\ ~heap[ptr].used /\ Room(heap, ptr) >= a
         /\ want \in Request \ {0} /\ pc = "scan"
    BY DEF HeapInvOf, InMalloc, MallocTake, Fits
  <1>2. /\ Chain(B, h) /\ h[ptr].used = TRUE
        /\ \A p \in Offset : h[p].next = heap[p].next /\ h[p].prev = heap[p].prev
        /\ \A p \in Offset \ {ptr} : h[p].used = heap[p].used
    <2>1. ptr \in Offset /\ heap \in [Offset -> Mem]  BY <1>1 DEF Chain
    <2>2. h \in [Offset -> Mem]
      <3>1. heap[ptr] \in Mem  BY <2>1
      <3>2. [heap[ptr] EXCEPT !.used = TRUE] \in Mem  BY <3>1 DEF Mem
      <3> QED  BY <2>1, <3>2
    <2>3. /\ \A p \in Offset : h[p].next = heap[p].next /\ h[p].prev = heap[p].prev
          /\ \A p \in Offset \ {ptr} : h[p].used = heap[p].used
          /\ h[ptr].used = TRUE
      BY <2>1 DEF Mem
    <2> HIDE DEF h
    <2> QED  BY <1>1, <2>2, <2>3, ChainUsed
  <1>3. heap' = IF Room(heap, ptr) >= a + Header + MinSize THEN Split(h, ptr, q) ELSE h
    BY DEF MallocTake
  <1>4. B \in SUBSET Offset /\ Offset \in SUBSET Nat /\ MemSize \in B /\ h \in [Offset -> Mem]
    BY <1>2, Offsets DEF Chain
  <1>5. n \in B /\ n \in Nat /\ ptr \in Nat /\ ptr \in Offset /\ Header \in Nat \ {0} /\ MinSize \in Nat \ {0}
         /\ n <= MemSize
    <2>1. n \in B  BY <1>1 DEF Chain
    <2>2. n \in Offset /\ ptr \in Offset  BY <1>1, <1>4, <2>1
    <2> HIDE DEF n
    <2> QED  BY <2>1, <2>2, Offsets
  <1>6. want \in Nat \ {0} /\ a \in Nat /\ want <= a /\ a >= MinSize
    BY <1>1, RequestAssumption, AlignedUp
  <1>7. Room(heap, ptr) = n - (ptr + Header)  BY DEF Room
  <1>8. heap[n].used  BY <1>1 DEF HeapInvOf, Coalesced
  <1>9. ptr \notin DOMAIN live  BY <1>1 DEF HeapInvOf, HeldBy
  <1>10. n # ptr  BY <1>1, <1>8
  <1>11. h[ptr].next = n  BY <1>2, <1>5
  <1> HIDE DEF h, a, n
  <1>12. ptr + Header + want <= n  BY <1>1, <1>5, <1>6, <1>7
  <1>13. lfree \in B /\ \A p \in B : ~heap[p].used => lfree <= p  BY DEF HeapInvOf, LowestIs
  <1>14. lfree = MemSize \/ ~heap[lfree].used  BY <1>1 DEF HeapInvOf, LowestIs
  <1>15. \A p \in B \ {MemSize} : ~heap[p].used => heap[heap[p].next].used  BY DEF HeapInvOf, Coalesced
  <1>16. CASE ~(Room(heap, ptr) >= a + Header + MinSize)
    <2>1. heap' = h  BY <1>3, <1>16
    <2>2. Coalesced(B, h)
      <3> SUFFICES ASSUME NEW p \in B \ {MemSize}, ~h[p].used PROVE h[h[p].next].used  BY DEF Coalesced
      <3>1. p # ptr /\ ~heap[p].used /\ h[p].next = heap[p].next  BY <1>2, <1>4
      <3>2. heap[heap[p].next].used /\ heap[p].next \in B  BY <1>1, <1>15, <3>1 DEF Chain
      <3> QED  BY <1>2, <1>4, <3>1, <3>2
    <2>3. Kept(B, h)
      <3>1. live \in [DOMAIN live -> Nat \ {0}]  BY DEF HeapInvOf, HeldBy
      <3>2. \A m \in DOMAIN live : /\ m \in B /\ m # MemSize /\ heap[m].used
                                   /\ m + Header + live[m] <= heap[m].next
        BY DEF HeapInvOf, HeldBy
      <3>3. \A p \in B \ {MemSize} : heap[p].used => p \in DOMAIN live  BY <1>1 DEF HeapInvOf, HeldBy
      <3>4. \A m \in DOMAIN live : /\ m \in B /\ m # MemSize /\ h[m].used /\ h[m].next = heap[m].next
                                   /\ m + Header + live[m] <= h[m].next
        BY <1>2, <1>4, <1>9, <3>2
      <3>5. \A p \in B \ {MemSize} : h[p].used => p \in DOMAIN live \/ p = ptr  BY <1>2, <1>4, <3>3
      <3> QED  BY <1>1, <1>2, <1>9, <1>11, <1>12, <3>1, <3>4, <3>5 DEF Kept
    <2>4. \A p \in B : ~h[p].used => lfree <= p  BY <1>2, <1>4, <1>13
    <2>5. lfree # ptr => lfree = MemSize \/ ~h[lfree].used  BY <1>2, <1>4, <1>13, <1>14
    <2> QED  BY <1>2, <1>4, <1>13, <2>1, <2>2, <2>3, <2>4, <2>5
  <1>17. CASE Room(heap, ptr) >= a + Header + MinSize
    <2> DEFINE C == B \cup {q}
               g == Split(h, ptr, q)
    <2>1. ptr + Header + MinSize <= q /\ q + Header + MinSize <= n /\ q \in Nat /\ q < n /\ ptr < q
      BY <1>5, <1>6, <1>7, <1>17
    <2>2. q \in Offset
      <3>1. ptr + Header + a <= MemSize  BY <1>4, <1>5, <2>1, Offsets
      <3> QED  BY <1>5, <1>6, <3>1, NextOffset DEF a
    <2>3. q # MemSize /\ q # ptr  BY <1>5, <2>1, Offsets
    <2> HIDE DEF q
    <2>4. Inserted(h, g, ptr, q, n)  BY <1>4, <1>5, <1>11, <2>2, <2>3, SplitIs
    <2>5. Chain(C, g) /\ q \notin B  BY <1>1, <1>2, <1>11, <2>1, <2>2, <2>4, ChainInsert
    <2>6. heap' = g  BY <1>3, <1>17 DEF q
    <2> HIDE DEF g
    <2>7. /\ g[ptr].next = q /\ g[q].next = n /\ ~g[q].used
          /\ \A p \in Offset : p # ptr /\ p # q => g[p].next = heap[p].next
          /\ \A p \in Offset : p # ptr /\ p # q => g[p].used = heap[p].used
          /\ g[ptr].used
      BY <1>2, <1>5, <2>2, <2>3, <2>4 DEF Inserted
    <2>8. Coalesced(C, g)
      <3> SUFFICES ASSUME NEW p \in C \ {MemSize}, ~g[p].used PROVE g[g[p].next].used  BY DEF Coalesced
      <3>1. CASE p = q
        <4>1. n # q /\ n \in Offset  BY <1>4, <1>5, <2>5
        <4> QED  BY <1>8, <1>10, <2>7, <3>1, <4>1
      <3>2. CASE p # q
        <4>1. p \in B \ {MemSize} /\ p # ptr /\ p \in Offset  BY <1>4, <2>7, <3>2
        <4>2. ~heap[p].used /\ g[p].next = heap[p].next  BY <2>7, <3>2, <4>1
        <4>3. heap[heap[p].next].used /\ heap[p].next \in B  BY <1>1, <1>15, <4>1, <4>2 DEF Chain
        <4>4. heap[p].next # q /\ heap[p].next # ptr  BY <1>1, <2>5, <4>3
        <4> QED  BY <1>4, <2>7, <4>2, <4>3, <4>4
      <3> QED  BY <3>1, <3>2
    <2>9. Kept(C, g)
      <3>1. live \in [DOMAIN live -> Nat \ {0}]  BY DEF HeapInvOf, HeldBy
      <3>2. \A m \in DOMAIN live : /\ m \in B /\ m # MemSize /\ heap[m].used
                                   /\ m + Header + live[m] <= heap[m].next
        BY DEF HeapInvOf, HeldBy
      <3>3. \A p \in B \ {MemSize} : heap[p].used => p \in DOMAIN live  BY <1>1 DEF HeapInvOf, HeldBy
      <3>4. \A m \in DOMAIN live : m \in Offset /\ m # q /\ m # ptr  BY <1>4, <1>9, <2>5, <3>2
      <3>5. \A m \in DOMAIN live : /\ m \in C /\ m # MemSize /\ g[m].used /\ g[m].next = heap[m].next
                                   /\ m + Header + live[m] <= g[m].next
        BY <2>7, <3>2, <3>4
      <3>6. \A p \in C \ {MemSize} : g[p].used => p \in DOMAIN live \/ p = ptr  BY <1>4, <2>7, <3>3
      <3>7. ptr + Header + want <= q  BY <1>5, <1>6 DEF q
      <3> QED  BY <1>1, <1>9, <2>7, <3>1, <3>5, <3>6, <3>7 DEF Kept
    <2>10. \A p \in C : ~g[p].used => lfree <= p
      <3> SUFFICES ASSUME NEW p \in C, ~g[p].used PROVE lfree <= p  OBVIOUS
      <3>1. CASE p = q
        <4>1. lfree \in Nat /\ lfree <= ptr /\ q \in Nat  BY <1>1, <1>4, <1>13, <2>1
        <4> QED  BY <1>5, <2>1, <3>1, <4>1
      <3>2. CASE p # q  BY <1>4, <1>13, <2>7, <3>2
      <3> QED  BY <3>1, <3>2
    <2>11. lfree # ptr => lfree = MemSize \/ ~g[lfree].used
      <3>1. lfree # q /\ lfree \in Offset  BY <1>4, <1>13, <2>5
      <3> QED  BY <1>14, <2>7, <3>1
    <2>12. C \in SUBSET Offset /\ lfree \in C  BY <1>4, <1>13, <2>2
    <2> QED  BY <2>5, <2>6, <2>8, <2>9, <2>10, <2>11, <2>12
  <1> QED  BY <1>16, <1>17

(* The block is taken, and what is left of it split off if that is large enough. *)
LEMMA MallocTakeKeeps ==
  ASSUME NEW B, HeapInvOf(B), MallocTake
  PROVE  HeapInv'
  <1>1. PICK C \in SUBSET Offset :
          /\ Chain(C, heap') /\ Coalesced(C, heap') /\ Kept(C, heap')
          /\ \A p \in C : ~heap'[p].used => lfree <= p
          /\ lfree \in C
          /\ lfree # ptr => lfree = MemSize \/ ~heap'[lfree].used
    BY TakeKept
  <1>2. lfree' = lfree /\ trim' = trim  BY DEF MallocTake
  <1>3. CASE ptr # lfree /\ Return /\ UNCHANGED disturbed
    <2>1. HeapInvOf(C)'  BY <1>1, <1>2, <1>3, ReturnKeeps
    <2> QED  BY <2>1 DEF HeapInv
  <1>4. CASE ptr = lfree /\ pc' = "adjust" /\ cur' = ptr /\ disturbed' = FALSE
             /\ UNCHANGED <<want, ptr, live>>
    <2>1. HeapInvOf(C)'  BY <1>1, <1>2, <1>4, AdjustFrom
    <2> QED  BY <2>1 DEF HeapInv
  <1> QED  BY <1>3, <1>4 DEF MallocTake

-----------------------------------------------------------------------------
(***************************************************************************)
(* mem_free.                                                               *)
(***************************************************************************)
(* Chain C with heap g has the used blocks of chain B with heap h, and some
   of the free ones; lfree stays the lowest. *)
Merged(B, h, C, g) ==
  /\ C \in SUBSET B /\ Chain(C, g)
  /\ \A p \in C : g[p].used = h[p].used
  /\ \A p \in B : h[p].used => p \in C /\ g[p].next = h[p].next

LowestOf(C, g, k) == k \in C /\ \A p \in C : ~g[p].used => k <= p

(* plug_holes, forward: the free block m is followed by a used one. *)
LEMMA PlugForwardMerges ==
  ASSUME NEW B, NEW h, Chain(B, h), NEW m \in B \ {MemSize}, ~h[m].used,
         NEW l, LowestOf(B, h, l),
         \A p \in B \ {MemSize, m} : ~h[p].used /\ h[p].next # m => h[h[p].next].used
  PROVE  LET s == PlugForward([heap |-> h, lfree |-> l], m)
         IN  \E C \in SUBSET Offset :
               /\ Merged(B, h, C, s.heap) /\ m \in C /\ LowestOf(C, s.heap, s.lfree)
               /\ s.lfree = l \/ ~s.heap[s.lfree].used
               /\ \A p \in C \ {MemSize} :
                    ~s.heap[p].used /\ s.heap[p].next # m => s.heap[s.heap[p].next].used
  <1> DEFINE n == h[m].next
             s0 == [heap |-> h, lfree |-> l]
             s == PlugForward(s0, m)
  <1>0. B \in SUBSET Offset /\ B \in SUBSET Nat /\ h \in [Offset -> Mem]  BY Offsets DEF Chain
  <1>1. n \in B /\ m < n /\ m # n
    <2>1. n \in B /\ m < n  BY BelowNext
    <2>2. m \in Nat /\ n \in Nat  BY <1>0, <2>1
    <2> HIDE DEF n
    <2> QED  BY <2>1, <2>2
  <1>2. CASE ~h[n].used /\ n # MemSize
    <2> DEFINE o == h[n].next
               g == Relink(h, m, o)
               C == B \ {n}
    <2>1. s = [heap |-> g, lfree |-> IF l = n THEN m ELSE l]  BY <1>1, <1>2 DEF PlugForward
    <2>2. /\ Chain(C, g) /\ o \in B /\ n < o /\ m < n
          /\ \A p \in B \ {m, n, MemSize} : h[p].next # n
      BY <1>2, ChainRemove
    <2>3. \A p \in Offset : g[p].next = (IF p = m THEN o ELSE h[p].next) /\ g[p].used = h[p].used
      <3>1. m \in Offset /\ o \in Offset  BY <1>0, <2>2
      <3> HIDE DEF o
      <3> QED  BY <1>0, <3>1, RelinkIs
    <2>4. m \in C  BY <1>1
    <2> HIDE DEF g, o
    <2>5. Merged(B, h, C, g)  BY <1>0, <1>2, <2>2, <2>3 DEF Merged
    <2>6. l # n /\ l \in C /\ LowestOf(C, g, l)
      <3>1. l \in B /\ l <= m  BY DEF LowestOf
      <3>2. l \in Nat /\ m \in Nat /\ n \in Nat  BY <1>0, <1>1, <3>1
      <3> HIDE DEF n
      <3>3. l # n  BY <1>1, <3>1, <3>2
      <3> QED  BY <1>0, <2>3, <3>1, <3>3 DEF LowestOf
    <2>7. s.heap = g /\ s.lfree = l  BY <2>1, <2>6
    <2>8. ASSUME NEW p \in C \ {MemSize}, ~g[p].used, g[p].next # m PROVE g[g[p].next].used
      <3>1. CASE p = m
        <4>1. g[p].next = o /\ n \in B \ {MemSize, m}  BY <1>0, <1>1, <1>2, <2>3, <3>1
        <4>2. h[n].next = o /\ o # m /\ o \in Offset  BY <1>0, <2>2, <2>8, <4>1 DEF o
        <4> QED  BY <1>2, <2>3, <4>1, <4>2
      <3>2. CASE p # m
        <4>1. g[p].next = h[p].next /\ ~h[p].used /\ p \in B \ {MemSize, m}  BY <1>0, <2>3, <2>8, <3>2
        <4>2. h[h[p].next].used /\ h[p].next \in Offset  BY <1>0, <2>8, <4>1 DEF Chain
        <4> QED  BY <2>3, <4>1, <4>2
      <3> QED  BY <3>1, <3>2
    <2>9. C \in SUBSET Offset  BY <1>0
    <2> QED  BY <2>4, <2>5, <2>6, <2>7, <2>8, <2>9
  <1>3. CASE ~(~h[n].used /\ n # MemSize)
    <2>1. s = s0  BY <1>3 DEF PlugForward
    <2>2. s.heap = h /\ s.lfree = l  BY <2>1
    <2>3. Merged(B, h, B, h)  BY DEF Merged
    <2>4. h[n].used  BY <1>3 DEF Chain
    <2>5. \A p \in B \ {MemSize} : ~h[p].used /\ h[p].next # m => h[h[p].next].used  BY <2>4
    <2> QED  BY <1>0, <2>2, <2>3, <2>5
  <1> QED  BY <1>2, <1>3

(* plug_holes, backward: nor does a free block come before it. *)
LEMMA PlugBackwardMerges ==
  ASSUME NEW B, NEW h, Chain(B, h), NEW m \in B \ {MemSize}, ~h[m].used,
         NEW l, LowestOf(B, h, l),
         \A p \in B \ {MemSize} : ~h[p].used /\ h[p].next # m => h[h[p].next].used
  PROVE  LET s == PlugBackward([heap |-> h, lfree |-> l], m)
         IN  \E C \in SUBSET Offset :
               /\ Merged(B, h, C, s.heap) /\ Coalesced(C, s.heap) /\ LowestOf(C, s.heap, s.lfree)
               /\ s.lfree = l \/ ~s.heap[s.lfree].used
  <1> DEFINE x == h[m].prev
             s0 == [heap |-> h, lfree |-> l]
             s == PlugBackward(s0, m)
  <1>0. B \in SUBSET Offset /\ B \in SUBSET Nat /\ h \in [Offset -> Mem] /\ MemSize \in B /\ h[MemSize].used
    BY Offsets DEF Chain
  <1>1. ASSUME s = s0, \A p \in B \ {MemSize} : h[p].next = m => h[p].used
        PROVE  \E C \in SUBSET Offset :
                 /\ Merged(B, h, C, s.heap) /\ Coalesced(C, s.heap) /\ LowestOf(C, s.heap, s.lfree)
                 /\ s.lfree = l \/ ~s.heap[s.lfree].used
    <2>1. s.heap = h /\ s.lfree = l  BY <1>1
    <2>2. Merged(B, h, B, h)  BY DEF Merged
    <2>3. Coalesced(B, h)  BY <1>1 DEF Coalesced
    <2> HIDE DEF s
    <2> QED  BY <1>0, <2>1, <2>2, <2>3
  <1>2. CASE m = 0
    <2>1. x = m  BY <1>2 DEF Chain
    <2>2. s = s0  BY <2>1 DEF PlugBackward
    <2>3. ASSUME NEW p \in B \ {MemSize} PROVE h[p].next # m
      <3> DEFINE y == h[p].next
      <3>1. y \in B /\ p < y  BY BelowNext
      <3>2. p \in Nat /\ y \in Nat  BY <1>0, <3>1
      <3> HIDE DEF y
      <3>3. y # m  BY <1>2, <3>1, <3>2
      <3> QED  BY <3>3 DEF y
    <2> QED  BY <1>1, <2>2, <2>3
  <1>3. CASE m # 0
    <2>1. PICK w \in B \ {MemSize} : h[w].next = m /\ w < m  BY <1>3, Predecessor
    <2>2. x = w  BY <2>1 DEF Chain
    <2>3. w \in Nat /\ m \in Nat /\ w # m  BY <1>0, <2>1
    <2>4. \A p \in B \ {w, m, MemSize} : h[p].next # m
      <3> SUFFICES ASSUME NEW p \in B \ {w, m, MemSize}, h[p].next = m PROVE FALSE  OBVIOUS
      <3>1. w < m /\ p < m  BY <2>1, BelowNext
      <3>2. (p < w => h[p].next <= w) /\ (w < p => h[w].next <= p)  BY <2>1, BelowNext
      <3>3. p \in Nat  BY <1>0
      <3> QED  BY <2>1, <2>3, <3>1, <3>2, <3>3
    <2>5. h[m].next # m
      <3> DEFINE y == h[m].next
      <3>1. y \in B /\ m < y  BY BelowNext
      <3>2. y \in Nat  BY <1>0, <3>1
      <3> HIDE DEF y
      <3>3. y # m  BY <2>3, <3>1, <3>2
      <3> QED  BY <3>3 DEF y
    <2>6. CASE h[w].used
      <3>1. s = s0  BY <2>2, <2>6 DEF PlugBackward
      <3> QED  BY <1>1, <2>4, <2>5, <2>6, <3>1
    <2>7. CASE ~h[w].used
      <3> DEFINE o == h[m].next
                 g == Relink(h, w, o)
                 C == B \ {m}
      <3>1. s = [heap |-> g, lfree |-> IF l = m THEN w ELSE l]  BY <2>2, <2>3, <2>7 DEF PlugBackward
      <3>2. Chain(C, g) /\ o \in B  BY <2>1, ChainRemove
      <3>3. \A p \in Offset : g[p].next = (IF p = w THEN o ELSE h[p].next) /\ g[p].used = h[p].used
        <4>1. w \in Offset /\ o \in Offset  BY <1>0, <3>2
        <4> HIDE DEF o
        <4> QED  BY <1>0, <4>1, RelinkIs
      <3> HIDE DEF g, o
      <3>4. Merged(B, h, C, g)
        BY <1>0, <2>7, <3>2, <3>3 DEF Merged
      <3>5. l # m /\ LowestOf(C, g, l)
        <4>1. l \in B /\ l <= w  BY <2>1, <2>7 DEF LowestOf
        <4>2. l \in Nat  BY <1>0, <4>1
        <4>3. l # m  BY <2>1, <2>3, <4>1, <4>2
        <4> QED  BY <1>0, <3>3, <4>1, <4>3 DEF LowestOf
      <3>6. s.heap = g /\ s.lfree = l  BY <3>1, <3>5
      <3>7. Coalesced(C, g)
        <4> SUFFICES ASSUME NEW p \in C \ {MemSize}, ~g[p].used PROVE g[g[p].next].used  BY DEF Coalesced
        <4>1. CASE p = w
          <5>1. g[p].next = o /\ h[m].next = o /\ o # m /\ o \in Offset  BY <1>0, <2>5, <3>2, <3>3, <4>1 DEF o
          <5>2. h[o].used  BY <5>1
          <5> QED  BY <3>3, <5>1, <5>2
        <4>2. CASE p # w
          <5>1. g[p].next = h[p].next /\ ~h[p].used /\ h[p].next # m  BY <1>0, <2>4, <3>3, <4>2
          <5>2. h[h[p].next].used /\ h[p].next \in Offset  BY <1>0, <5>1 DEF Chain
          <5> QED  BY <3>3, <5>1, <5>2
        <4> QED  BY <4>1, <4>2
      <3>8. C \in SUBSET Offset  BY <1>0
      <3> QED  BY <3>4, <3>5, <3>6, <3>7, <3>8
    <2> QED  BY <2>6, <2>7
  <1> QED  BY <1>2, <1>3

(* Merging twice. *)
LEMMA MergedTwice ==
  ASSUME NEW B, NEW h, NEW C, NEW g, NEW D, NEW f, Merged(B, h, C, g), Merged(C, g, D, f)
  PROVE  Merged(B, h, D, f)
  BY DEF Merged

(* Both ways: the free block m is no longer next to another. *)
LEMMA PlugHolesMerges ==
  ASSUME NEW B, NEW h, Chain(B, h), NEW m \in B \ {MemSize}, ~h[m].used,
         NEW l, LowestOf(B, h, l),
         \A p \in B \ {MemSize, m} : ~h[p].used /\ h[p].next # m => h[h[p].next].used
  PROVE  LET s == PlugHoles([heap |-> h, lfree |-> l], m)
         IN  \E C \in SUBSET Offset :
               /\ Merged(B, h, C, s.heap) /\ Coalesced(C, s.heap) /\ LowestOf(C, s.heap, s.lfree)
               /\ s.lfree = l \/ ~s.heap[s.lfree].used
  <1> DEFINE s1 == PlugForward([heap |-> h, lfree |-> l], m)
             s2 == PlugBackward(s1, m)
  <1>1. PICK C \in SUBSET Offset :
          /\ Merged(B, h, C, s1.heap) /\ m \in C /\ LowestOf(C, s1.heap, s1.lfree)
          /\ s1.lfree = l \/ ~s1.heap[s1.lfree].used
          /\ \A p \in C \ {MemSize} :
               ~s1.heap[p].used /\ s1.heap[p].next # m => s1.heap[s1.heap[p].next].used
    BY PlugForwardMerges
  <1>2. s1 = [heap |-> s1.heap, lfree |-> s1.lfree]  BY DEF PlugForward
  <1> DEFINE g == s1.heap
             k == s1.lfree
  <1>3. s2 = PlugBackward([heap |-> g, lfree |-> k], m)  BY <1>2
  <1>4. PlugHoles([heap |-> h, lfree |-> l], m) = s2  BY DEF PlugHoles
  <1> HIDE DEF s1, s2
  <1>5. Chain(C, g) /\ m \in C \ {MemSize} /\ ~g[m].used /\ LowestOf(C, g, k)  BY <1>1 DEF Merged
  <1>6. \A p \in C \ {MemSize} : ~g[p].used /\ g[p].next # m => g[g[p].next].used  BY <1>1
  <1>7. Merged(B, h, C, g) /\ (k = l \/ ~g[k].used)  BY <1>1
  <1> HIDE DEF g, k
  <1>8. PICK D \in SUBSET Offset :
          /\ Merged(C, g, D, s2.heap) /\ Coalesced(D, s2.heap) /\ LowestOf(D, s2.heap, s2.lfree)
          /\ s2.lfree = k \/ ~s2.heap[s2.lfree].used
    BY <1>3, <1>5, <1>6, PlugBackwardMerges
  <1>9. Merged(B, h, D, s2.heap)  BY <1>7, <1>8, MergedTwice
  <1>10. s2.lfree = l \/ ~s2.heap[s2.lfree].used
    <2>1. CASE s2.lfree = k /\ k # l
      <3>1. k \in D /\ ~g[k].used  BY <1>7, <1>8, <2>1 DEF LowestOf
      <3>2. ~s2.heap[k].used  BY <1>8, <3>1 DEF Merged
      <3> QED  BY <2>1, <3>2
    <2> QED  BY <1>8, <2>1
  <1> QED  BY <1>4, <1>8, <1>9, <1>10

(* A block a caller holds passes the sanity checks of mem_free. *)
LEMMA HeldIsValid ==
  ASSUME NEW B, HeapInvOf(B), NEW m \in DOMAIN live
  PROVE  m \in B \ {MemSize} /\ heap[m].used /\ LinkValid(m)
  <1>1. m \in B \ {MemSize} /\ heap[m].used  BY DEF HeapInvOf, HeldBy
  <1>2. Chain(B, heap)  BY DEF HeapInvOf
  <1>3. heap[m].next = MemSize \/ heap[heap[m].next].prev = m  BY <1>1, <1>2 DEF Chain
  <1>4. heap[m].prev = m \/ heap[heap[m].prev].next = m
    <2>1. CASE m = 0  BY <1>2, <2>1 DEF Chain
    <2>2. CASE m # 0
      <3>1. PICK w \in B \ {MemSize} : heap[w].next = m /\ w < m  BY <1>1, <1>2, <2>2, Predecessor
      <3>2. heap[m].prev = w  BY <1>1, <1>2, <3>1 DEF Chain
      <3> QED  BY <3>1, <3>2
    <2> QED  BY <2>1, <2>2
  <1> QED  BY <1>1, <1>3, <1>4 DEF LinkValid

(* mem_free, which joins the block with its free neighbours. *)
LEMMA MemFreeKeeps ==
  ASSUME NEW B, HeapInvOf(B), NEW m \in Offset, MemFree(m)
  PROVE  HeapInv'
  <1> DEFINE h == [heap EXCEPT ![m].used = FALSE]
             l == Lowest(m)
             s == PlugHoles([heap |-> h, lfree |-> l], m)
  <1>1. m \in DOMAIN live /\ m # trim.mem /\ live' = Without(live, m) /\ UNCHANGED <<pc, want, ptr, cur, trim>>
    BY DEF MemFree
  <1>2. m \in B \ {MemSize} /\ heap[m].used /\ LinkValid(m)  BY <1>1, HeldIsValid
  <1>3. heap' = s.heap /\ lfree' = s.lfree /\ disturbed' = TRUE  BY <1>2 DEF MemFree, Disturb
  <1>4. Chain(B, heap) /\ B \in SUBSET Offset /\ B \in SUBSET Nat /\ heap \in [Offset -> Mem]
    BY Offsets DEF HeapInvOf, Chain
  <1>5. h \in [Offset -> Mem]
    <2>1. heap[m] \in Mem  BY <1>4
    <2>2. [heap[m] EXCEPT !.used = FALSE] \in Mem  BY <2>1 DEF Mem
    <2> QED  BY <1>4, <2>2
  <1>6. /\ \A p \in Offset : h[p].next = heap[p].next /\ h[p].prev = heap[p].prev
        /\ \A p \in Offset \ {m} : h[p].used = heap[p].used
        /\ ~h[m].used
    BY <1>4 DEF Mem
  <1> HIDE DEF h
  <1>7. Chain(B, h)  BY <1>2, <1>4, <1>5, <1>6, ChainUsed
  <1>8. lfree \in B /\ lfree \in Nat /\ \A p \in B : ~heap[p].used => lfree <= p
    BY <1>4 DEF HeapInvOf, LowestIs
  <1>9. l \in B /\ l \in Nat /\ l <= m /\ l <= lfree /\ (l = m \/ l = lfree)
    BY <1>2, <1>4, <1>8 DEF Lowest
  <1> HIDE DEF l
  <1>10. LowestOf(B, h, l)
    <2> SUFFICES ASSUME NEW p \in B, ~h[p].used PROVE l <= p  BY <1>9 DEF LowestOf
    <2>1. CASE p = m  BY <1>9, <2>1
    <2>2. CASE p # m
      <3>1. lfree <= p /\ p \in Nat  BY <1>4, <1>6, <1>8, <2>2
      <3> QED  BY <1>8, <1>9, <3>1
    <2> QED  BY <2>1, <2>2
  <1>11. l # MemSize
    <2>1. m \in Nat /\ m <= MemSize /\ m # MemSize  BY <1>2, <1>4, Offsets
    <2> QED  BY <1>9, <2>1, Offsets
  <1>12. ASSUME NEW p \in B \ {MemSize, m}, ~h[p].used, h[p].next # m PROVE h[h[p].next].used
    <2>1. ~heap[p].used /\ h[p].next = heap[p].next  BY <1>4, <1>6, <1>12
    <2>2. heap[heap[p].next].used /\ heap[p].next \in B  BY <1>4, <2>1 DEF HeapInvOf, Coalesced, Chain
    <2> QED  BY <1>4, <1>6, <1>12, <2>1, <2>2
  <1>13. PICK C \in SUBSET Offset :
           /\ Merged(B, h, C, s.heap) /\ Coalesced(C, s.heap) /\ LowestOf(C, s.heap, s.lfree)
           /\ s.lfree = l \/ ~s.heap[s.lfree].used
    BY <1>2, <1>6, <1>7, <1>10, <1>11, <1>12, PlugHolesMerges
  <1> HIDE DEF s
  <1>14. Chain(C, heap') /\ Coalesced(C, heap')  BY <1>3, <1>13 DEF Merged
  <1>15. /\ \A p \in B \ {m} : heap[p].used => p \in C /\ heap'[p].used /\ heap'[p].next = heap[p].next
         /\ \A p \in C : heap'[p].used => p \in B \ {m} /\ heap[p].used
    BY <1>3, <1>4, <1>6, <1>13 DEF Merged
  <1>16. LowestIs(C)'
    <2>1. lfree' \in C /\ \A p \in C : ~heap'[p].used => lfree' <= p  BY <1>3, <1>13 DEF LowestOf
    <2>2. (pc' = "adjust" /\ lfree' = ptr') \/ lfree' = MemSize \/ ~heap'[lfree'].used
      <3>1. CASE ~heap'[lfree'].used  BY <3>1
      <3>2. CASE heap'[lfree'].used
        <4>1. lfree' = l /\ l # m  BY <1>3, <1>13, <1>15, <2>1, <3>2
        <4>2. l = lfree /\ heap[lfree].used  BY <1>9, <1>15, <2>1, <3>2, <4>1
        <4>3. pc = "adjust" /\ lfree = ptr  BY <1>11, <4>2 DEF HeapInvOf, LowestIs
        <4> QED  BY <1>1, <4>1, <4>2, <4>3
      <3> QED  BY <3>1, <3>2
    <2> QED  BY <2>1, <2>2 DEF LowestIs
  <1>17. /\ DOMAIN live' = DOMAIN live \ {m}
         /\ \A x \in DOMAIN live' : live'[x] = live[x]
         /\ live' \in [DOMAIN live' -> Nat \ {0}]
    BY <1>1 DEF Without, HeapInvOf, HeldBy
  <1>18. HeldBy(C)'
    <2>1. ASSUME NEW x \in DOMAIN live'
          PROVE  x \in C /\ x # MemSize /\ heap'[x].used /\ x + Header + live'[x] <= heap'[x].next
      <3>1. x \in DOMAIN live /\ x # m /\ live'[x] = live[x]  BY <1>17
      <3>2. x \in B /\ x # MemSize /\ heap[x].used /\ x + Header + live[x] <= heap[x].next
        BY <3>1 DEF HeapInvOf, HeldBy
      <3>3. x \in C /\ heap'[x].used /\ heap'[x].next = heap[x].next  BY <1>15, <3>1, <3>2
      <3> QED  BY <3>1, <3>2, <3>3
    <2>2. ASSUME NEW p \in C \ {MemSize}, heap'[p].used
          PROVE  p \in DOMAIN live' \/ (pc' = "adjust" /\ p = ptr')
      <3>1. p \in B \ {MemSize} /\ p # m /\ heap[p].used  BY <1>15, <2>2
      <3>2. p \in DOMAIN live \/ (pc = "adjust" /\ p = ptr)  BY <3>1 DEF HeapInvOf, HeldBy
      <3> QED  BY <1>1, <1>17, <3>1, <3>2
    <2> QED  BY <1>17, <2>1, <2>2 DEF HeldBy
  <1>19. InMalloc(C)'
    <2>1. pc = "adjust" =>
            /\ ptr \in B \ {MemSize} /\ heap[ptr].used /\ ptr \notin DOMAIN live
            /\ ptr + Header + want <= heap[ptr].next
      BY DEF HeapInvOf, InMalloc
    <2>2. pc = "adjust" =>
            /\ ptr \in C \ {MemSize} /\ heap'[ptr].used /\ ptr \notin DOMAIN live'
            /\ ptr + Header + want <= heap'[ptr].next
      BY <1>1, <1>15, <1>17, <2>1
    <2> QED  BY <1>1, <1>3, <2>2 DEF HeapInvOf, InMalloc
  <1>20. InTrim(C)'
    <2>1. CASE trim = NoTrim  BY <1>1, <2>1 DEF InTrim
    <2>2. CASE trim # NoTrim
      <3>1. /\ trim \in [mem : Offset, new : Request \ {0}, size : Int]
            /\ trim.mem \in DOMAIN live /\ trim.new < live[trim.mem]
            /\ trim.size = Room(heap, trim.mem) /\ Aligned(trim.new) < trim.size
        BY <2>2 DEF HeapInvOf, InTrim
      <3>2. trim.mem \in B \ {m} /\ heap[trim.mem].used  BY <1>1, <3>1 DEF HeapInvOf, HeldBy
      <3>3. heap'[trim.mem].next = heap[trim.mem].next  BY <1>15, <3>2
      <3>4. Room(heap', trim.mem) = Room(heap, trim.mem)  BY <3>3 DEF Room
      <3>5. trim.mem \in DOMAIN live' /\ live'[trim.mem] = live[trim.mem]  BY <1>1, <1>17, <3>1
      <3> QED  BY <1>1, <3>1, <3>4, <3>5 DEF InTrim
    <2> QED  BY <2>1, <2>2
  <1>21. HeapInvOf(C)'  BY <1>14, <1>16, <1>18, <1>19, <1>20 DEF HeapInvOf
  <1> QED  BY <1>21 DEF HeapInv

-----------------------------------------------------------------------------
(***************************************************************************)
(* mem_trim.                                                               *)
(***************************************************************************)
LEMMA TrimReadKeeps ==
  ASSUME NEW B, HeapInvOf(B), NEW m \in Offset, NEW n \in Request, TrimRead(m, n)
  PROVE  HeapInvOf(B)'
  <1> DEFINE r == Room(heap, m)
  <1>1. /\ m \in DOMAIN live /\ n > 0 /\ n < live[m] /\ Aligned(n) < r
        /\ trim' = [mem |-> m, new |-> n, size |-> r]
        /\ UNCHANGED <<heap, lfree, disturbed, pc, want, ptr, cur, live>>
    BY DEF TrimRead
  <1>2. r \in Int
    <2>1. m \in B \ {MemSize} /\ Chain(B, heap)  BY <1>1 DEF HeapInvOf, HeldBy
    <2>2. m \in Nat /\ heap[m].next \in Nat  BY <2>1, Offsets DEF Chain
    <2> QED  BY <2>2, Offsets DEF Room
  <1>3. n \in Request \ {0}  BY <1>1, RequestAssumption
  <1> HIDE DEF r
  <1>4. /\ trim' \in [mem : Offset, new : Request \ {0}, size : Int]
        /\ trim'.mem = m /\ trim'.new = n /\ trim'.size = r
    BY <1>1, <1>2, <1>3
  <1>5. InTrim(B)'  BY <1>1, <1>4 DEF InTrim, r
  <1>6. Chain(B, heap') /\ Coalesced(B, heap') /\ LowestIs(B)' /\ HeldBy(B)' /\ InMalloc(B)'
    BY <1>1 DEF HeapInvOf, Chain, Coalesced, LowestIs, HeldBy, InMalloc, Room
  <1> QED  BY <1>5, <1>6 DEF HeapInvOf

(* The callers' blocks are kept, and that of m ends at q or where it did. *)
LEMMA ShrunkKeeps ==
  ASSUME NEW B, HeapInvOf(B), NEW C \in SUBSET Offset, NEW m, NEW n,
         trim # NoTrim, m = trim.mem, n = trim.new,
         Chain(C, heap'), Coalesced(C, heap'),
         lfree' \in C, \A p \in C : ~heap'[p].used => lfree' <= p,
         lfree' = lfree \/ ~heap'[lfree'].used,
         \A p \in B \ {m} : heap[p].used => p \in C /\ heap'[p].used /\ heap'[p].next = heap[p].next,
         \A p \in C : heap'[p].used => p \in B /\ heap[p].used,
         m \in C /\ heap'[m].used, m + Header + n <= heap'[m].next,
         live' = [live EXCEPT ![m] = n], disturbed' = TRUE, trim' = NoTrim,
         UNCHANGED <<pc, want, ptr, cur>>
  PROVE  HeapInv'
  <1>1. m \in DOMAIN live /\ n \in Nat \ {0} /\ live \in [DOMAIN live -> Nat \ {0}]
    BY RequestAssumption DEF HeapInvOf, InTrim, HeldBy
  <1>2. DOMAIN live' = DOMAIN live /\ live'[m] = n /\ (\A x \in DOMAIN live \ {m} : live'[x] = live[x])
         /\ live' \in [DOMAIN live' -> Nat \ {0}]
    BY <1>1
  <1>3. m \in B \ {MemSize}  BY <1>1 DEF HeapInvOf, HeldBy
  <1>4. LowestIs(C)'
    <2>1. (pc' = "adjust" /\ lfree' = ptr') \/ lfree' = MemSize \/ ~heap'[lfree'].used
      <3>1. CASE ~heap'[lfree'].used  BY <3>1
      <3>2. CASE heap'[lfree'].used
        <4>1. lfree' = lfree /\ heap[lfree].used  BY <3>2
        <4> QED  BY <4>1 DEF HeapInvOf, LowestIs
      <3> QED  BY <3>1, <3>2
    <2> QED  BY <2>1 DEF LowestIs
  <1>5. HeldBy(C)'
    <2>1. ASSUME NEW x \in DOMAIN live'
          PROVE  x \in C /\ x # MemSize /\ heap'[x].used /\ x + Header + live'[x] <= heap'[x].next
      <3>1. CASE x = m  BY <1>2, <1>3, <3>1
      <3>2. CASE x # m
        <4>1. x \in DOMAIN live /\ live'[x] = live[x]  BY <1>2, <3>2
        <4>2. x \in B /\ x # MemSize /\ heap[x].used /\ x + Header + live[x] <= heap[x].next
          BY <4>1 DEF HeapInvOf, HeldBy
        <4>3. x \in C /\ heap'[x].used /\ heap'[x].next = heap[x].next  BY <3>2, <4>2
        <4> QED  BY <4>1, <4>2, <4>3
      <3> QED  BY <3>1, <3>2
    <2>2. ASSUME NEW p \in C \ {MemSize}, heap'[p].used
          PROVE  p \in DOMAIN live' \/ (pc' = "adjust" /\ p = ptr')
      <3>1. p \in B \ {MemSize} /\ heap[p].used  BY <2>2
      <3> QED  BY <1>2, <3>1 DEF HeapInvOf, HeldBy
    <2> QED  BY <1>2, <2>1, <2>2 DEF HeldBy
  <1>6. InMalloc(C)'
    <2>1. pc = "adjust" =>
            /\ ptr \in B \ {MemSize} /\ heap[ptr].used /\ ptr \notin DOMAIN live
            /\ ptr + Header + want <= heap[ptr].next
      BY DEF HeapInvOf, InMalloc
    <2>2. pc = "adjust" =>
            /\ ptr \in C \ {MemSize} /\ heap'[ptr].used /\ ptr \notin DOMAIN live'
            /\ ptr + Header + want <= heap'[ptr].next
      BY <1>1, <1>2, <2>1
    <2> QED  BY <2>2 DEF HeapInvOf, InMalloc
  <1>7. InTrim(C)'  BY DEF InTrim
  <1>8. HeapInvOf(C)'  BY <1>4, <1>5, <1>6, <1>7 DEF HeapInvOf
  <1> QED  BY <1>8 DEF HeapInv

(* The second half of mem_trim, which gives back the end of the block. *)
LEMMA TrimApplyKeeps ==
  ASSUME NEW B, HeapInvOf(B), TrimApply
  PROVE  HeapInv'
  <1> DEFINE m == trim.mem
             w == trim.new
             a == Aligned(w)
             q == m + Header + a
             n == heap[m].next
  <1>1. trim # NoTrim /\ live' = [live EXCEPT ![m] = w] /\ disturbed' = TRUE /\ trim' = NoTrim
         /\ UNCHANGED <<pc, want, ptr, cur>>
    BY DEF TrimApply, Disturb
  <1>2. /\ m \in Offset /\ w \in Request \ {0} /\ m \in DOMAIN live /\ w < live[m]
        /\ trim.size = Room(heap, m) /\ a < trim.size
    BY <1>1 DEF HeapInvOf, InTrim
  <1>3. m \in B \ {MemSize} /\ heap[m].used /\ m + Header + live[m] <= n
    BY <1>2 DEF HeapInvOf, HeldBy
  <1>4. Chain(B, heap) /\ B \in SUBSET Offset /\ Offset \in SUBSET Nat /\ heap \in [Offset -> Mem]
         /\ MemSize \in B /\ heap[MemSize].used
    BY Offsets DEF HeapInvOf, Chain
  <1>5. n \in B /\ m < n /\ \A r \in B : (r < n => r < m \/ r = m) /\ (m < r => n <= r)
    BY <1>3, <1>4, BelowNext
  <1>6. \/ /\ ~heap[n].used
           /\ heap' = Split([heap EXCEPT ![m].next = heap[n].next], m, q)
           /\ lfree' = IF lfree = n THEN q ELSE lfree
        \/ /\ heap[n].used /\ TrimFits(a)
           /\ heap' = Split(heap, m, q)
           /\ lfree' = Lowest(q)
        \/ /\ heap[n].used /\ ~TrimFits(a)
           /\ UNCHANGED <<heap, lfree>>
    BY DEF TrimApply
  <1>7. Room(heap, m) = n - (m + Header)  BY DEF Room
  <1>8. m \in Nat /\ n \in Nat /\ n <= MemSize /\ Header \in Nat \ {0} /\ MinSize \in Nat \ {0} /\ MemSize \in Nat
    <2>1. m \in Offset /\ n \in Offset  BY <1>3, <1>4, <1>5
    <2> HIDE DEF m, n
    <2> QED  BY <2>1, Offsets
  <1>9. w \in Nat \ {0} /\ a \in Nat /\ w <= a /\ a >= MinSize
    BY <1>2, RequestAssumption, AlignedUp
  <1>10. q < n /\ m < q /\ q \in Nat /\ m + Header + MinSize <= q /\ m + Header + w <= q
    <2>1. a < n - (m + Header)  BY <1>2, <1>7
    <2> HIDE DEF m, n, a, w
    <2> QED  BY <1>8, <1>9, <2>1
  <1>11. q \in Offset
    <2>1. m + Header + Aligned(w) <= MemSize
      <3> HIDE DEF m, n, a, w
      <3>1. m + Header + a <= MemSize  BY <1>8, <1>9, <1>10
      <3> QED  BY <3>1 DEF a
    <2> QED  BY <1>2, <1>9, <2>1, NextOffset
  <1>12. lfree \in B /\ lfree \in Nat /\ \A p \in B : ~heap[p].used => lfree <= p
    BY <1>4 DEF HeapInvOf, LowestIs
  <1>13. \A p \in B \ {MemSize} : ~heap[p].used => heap[heap[p].next].used /\ heap[p].next \in B
    BY <1>4 DEF HeapInvOf, Coalesced, Chain
  <1>14. q # m /\ q # MemSize /\ q # n /\ n # m
    <2> HIDE DEF m, n, q
    <2> QED  BY <1>8, <1>10, <1>5
  <1>16. CASE heap[n].used /\ ~TrimFits(a) /\ UNCHANGED <<heap, lfree>>
    <2>1. Chain(B, heap') /\ Coalesced(B, heap')  BY <1>4, <1>16 DEF HeapInvOf
    <2>2. m + Header + w <= heap'[m].next
      <3>1. heap'[m].next = n  BY <1>16
      <3> HIDE DEF m, n, q, w
      <3> QED  BY <1>8, <1>9, <1>10, <3>1
    <2>3. /\ B \in SUBSET Offset /\ trim # NoTrim /\ m = trim.mem /\ w = trim.new
           /\ Chain(B, heap') /\ Coalesced(B, heap')
           /\ lfree' \in B /\ (\A p \in B : ~heap'[p].used => lfree' <= p)
           /\ (lfree' = lfree \/ ~heap'[lfree'].used)
           /\ (\A p \in B \ {m} : heap[p].used => p \in B /\ heap'[p].used /\ heap'[p].next = heap[p].next)
           /\ (\A p \in B : heap'[p].used => p \in B /\ heap[p].used)
           /\ m \in B /\ heap'[m].used /\ m + Header + w <= heap'[m].next
           /\ live' = [live EXCEPT ![m] = w] /\ disturbed' = TRUE /\ trim' = NoTrim
           /\ UNCHANGED <<pc, want, ptr, cur>>
      BY <1>1, <1>3, <1>4, <1>12, <1>16, <2>1, <2>2
    <2> HIDE DEF m, w, a, q, n
    <2> QED  BY <2>3, ShrunkKeeps
  <1>17. CASE heap[n].used /\ TrimFits(a) /\ heap' = Split(heap, m, q) /\ lfree' = Lowest(q)
    <2> DEFINE C == B \cup {q}
               g == Split(heap, m, q)
    <2>1. q + Header + MinSize <= n
      <3>1. a + Header + MinSize <= n - (m + Header)  BY <1>2, <1>7, <1>17 DEF TrimFits
      <3> HIDE DEF m, n, a, w
      <3> QED  BY <1>8, <1>9, <3>1
    <2> HIDE DEF m, q, w, a
    <2>2. Inserted(heap, g, m, q, n)  BY <1>2, <1>4, <1>11, <1>14, SplitIs
    <2>3. Chain(C, g) /\ q \notin B  BY <1>3, <1>4, <1>10, <1>11, <2>1, <2>2, ChainInsert
    <2>4. heap' = g  BY <1>17
    <2> HIDE DEF g, n
    <2>5. /\ g[m].next = q /\ g[q].next = n /\ ~g[q].used
          /\ \A p \in Offset : p # m /\ p # q => g[p].next = heap[p].next
          /\ \A p \in Offset : p # q => g[p].used = heap[p].used
      BY <1>2, <1>11, <1>14, <2>2 DEF Inserted
    <2>6. Coalesced(C, g)
      <3> SUFFICES ASSUME NEW p \in C \ {MemSize}, ~g[p].used PROVE g[g[p].next].used  BY DEF Coalesced
      <3>1. CASE p = q  BY <1>4, <1>5, <1>14, <1>17, <2>5, <3>1
      <3>2. CASE p # q
        <4>1. p \in B \ {MemSize} /\ p # m /\ ~heap[p].used  BY <1>3, <1>4, <2>5, <3>2
        <4>2. g[p].next = heap[p].next /\ heap[p].next \in B /\ heap[heap[p].next].used
          BY <1>4, <1>13, <2>5, <3>2, <4>1
        <4>3. heap[p].next # q  BY <2>3, <4>2
        <4> QED  BY <1>4, <2>5, <4>2, <4>3
      <3> QED  BY <3>1, <3>2
    <2>7. lfree' \in C /\ (lfree' = lfree \/ lfree' = q)  BY <1>12, <1>17 DEF Lowest
    <2>8. \A p \in C : ~g[p].used => lfree' <= p
      <3> SUFFICES ASSUME NEW p \in C, ~g[p].used PROVE lfree' <= p  OBVIOUS
      <3>1. lfree' \in Nat /\ lfree' <= q /\ lfree' <= lfree  BY <1>10, <1>12, <1>17 DEF Lowest
      <3>2. CASE p = q  BY <3>1, <3>2
      <3>3. CASE p # q
        <4>1. lfree <= p /\ p \in Nat  BY <1>4, <1>12, <2>5, <3>3
        <4> QED  BY <1>12, <3>1, <4>1
      <3> QED  BY <3>2, <3>3
    <2>9. lfree' = lfree \/ ~g[lfree'].used  BY <2>5, <2>7
    <2>10. /\ \A p \in B \ {m} : heap[p].used => p \in C /\ g[p].used /\ g[p].next = heap[p].next
           /\ \A p \in C : g[p].used => p \in B /\ heap[p].used
           /\ m \in C /\ g[m].used /\ C \in SUBSET Offset
      BY <1>3, <1>4, <1>11, <1>14, <2>3, <2>5
    <2>11. m + Header + w <= g[m].next  BY <1>10, <2>5
    <2> QED  BY <1>1, <2>3, <2>4, <2>6, <2>7, <2>8, <2>9, <2>10, <2>11, ShrunkKeeps DEF m, w
  <1>18. CASE /\ ~heap[n].used
              /\ heap' = Split([heap EXCEPT ![m].next = heap[n].next], m, q)
              /\ lfree' = IF lfree = n THEN q ELSE lfree
    <2> DEFINE o == heap[n].next
               f == [heap EXCEPT ![m].next = o]
               h == Relink(heap, m, o)
               D == B \ {n}
               C == D \cup {q}
               g == Split(f, m, q)
    <2>1. n # MemSize  BY <1>4, <1>18
    <2>2. Chain(D, h) /\ o \in B /\ n < o  BY <1>3, <1>4, <2>1, ChainRemove
    <2>3. o \in Offset /\ o \in Nat /\ o # q /\ o # m
      <3>1. o \in Offset /\ o \in Nat  BY <1>4, <2>2
      <3> HIDE DEF o, m, n, q
      <3> QED  BY <1>8, <1>10, <2>2, <3>1
    <2>4. n + Header + MinSize <= o  BY <1>4, <1>5, <2>1 DEF Chain
    <2>5. f \in [Offset -> Mem] /\ f[m].next = o
           /\ \A p \in Offset : /\ f[p].prev = heap[p].prev /\ f[p].used = heap[p].used
                                /\ p # m => f[p].next = heap[p].next
      BY <1>2, <1>4, <2>3 DEF Mem
    <2>6. /\ h[m].next = o
          /\ \A p \in Offset : /\ p # m => h[p].next = heap[p].next
                               /\ h[p].prev = IF p = o /\ o # MemSize THEN m ELSE heap[p].prev
                               /\ h[p].used = heap[p].used
      <3> HIDE DEF o, m
      <3> QED  BY <1>2, <1>4, <2>3, RelinkIs
    <2>7. heap' = g  BY <1>18
    <2> HIDE DEF m, q, w, a, n, o, f, h
    <2>8. Inserted(f, g, m, q, o)  BY <1>2, <1>11, <1>14, <2>5, SplitIs
    <2> HIDE DEF g
    <2>9. Inserted(h, g, m, q, o)  BY <2>5, <2>6, <2>8 DEF Inserted
    <2>10. q + Header + MinSize <= h[m].next  BY <1>8, <1>10, <2>3, <2>4, <2>6
    <2>11. Chain(C, g) /\ q \notin D
      <3>1. m \in D \ {MemSize}  BY <1>3, <1>14
      <3> HIDE DEF D
      <3> QED  BY <1>10, <1>11, <2>2, <2>6, <2>9, <2>10, <3>1, ChainInsert
    <2>12. /\ g[m].next = q /\ g[q].next = o /\ ~g[q].used
           /\ \A p \in Offset : p # m /\ p # q => g[p].next = heap[p].next
           /\ \A p \in Offset : p # q => g[p].used = heap[p].used
      BY <1>2, <1>11, <1>14, <2>6, <2>9 DEF Inserted
    <2>13. q \notin B  BY <1>14, <2>11
    <2>14. Coalesced(C, g)
      <3> SUFFICES ASSUME NEW p \in C \ {MemSize}, ~g[p].used PROVE g[g[p].next].used  BY DEF Coalesced
      <3>1. CASE p = q
        <4>1. heap[o].used  BY <1>5, <1>13, <1>18, <2>1 DEF o
        <4> QED  BY <2>3, <2>12, <3>1, <4>1
      <3>2. CASE p # q
        <4>1. p \in B \ {MemSize} /\ p # m /\ ~heap[p].used  BY <1>3, <1>4, <2>12, <3>2
        <4>2. g[p].next = heap[p].next /\ heap[p].next \in B /\ heap[heap[p].next].used
          BY <1>4, <1>13, <2>12, <3>2, <4>1
        <4>3. heap[p].next # q  BY <2>13, <4>2
        <4> QED  BY <1>4, <2>12, <4>2, <4>3
      <3> QED  BY <3>1, <3>2
    <2>15. lfree' \in C /\ (lfree' = lfree \/ lfree' = q)  BY <1>12, <1>18
    <2>16. \A p \in C : ~g[p].used => lfree' <= p
      <3> SUFFICES ASSUME NEW p \in C, ~g[p].used PROVE lfree' <= p  OBVIOUS
      <3>0. lfree <= n  BY <1>5, <1>12, <1>18
      <3>1. lfree' <= q /\ lfree' <= lfree /\ lfree' \in Nat
        <4>1. CASE lfree = n  BY <1>8, <1>10, <1>18, <4>1
        <4>2. CASE lfree # n
          <5>1. lfree < n  BY <1>8, <1>12, <3>0, <4>2
          <5>2. lfree < m \/ lfree = m  BY <1>5, <1>12, <5>1
          <5> QED  BY <1>8, <1>10, <1>12, <1>18, <4>2, <5>2
        <4> QED  BY <4>1, <4>2
      <3>2. CASE p = q  BY <3>1, <3>2
      <3>3. CASE p # q
        <4>1. lfree <= p /\ p \in Nat  BY <1>4, <1>12, <2>12, <3>3
        <4> QED  BY <1>12, <3>1, <4>1
      <3> QED  BY <3>2, <3>3
    <2>17. lfree' = lfree \/ ~g[lfree'].used  BY <2>12, <2>15
    <2>18. /\ \A p \in B \ {m} : heap[p].used => p \in C /\ g[p].used /\ g[p].next = heap[p].next
           /\ \A p \in C : g[p].used => p \in B /\ heap[p].used
           /\ m \in C /\ g[m].used /\ C \in SUBSET Offset
      BY <1>3, <1>4, <1>11, <1>14, <1>18, <2>12, <2>13
    <2>19. m + Header + w <= g[m].next  BY <1>10, <2>12
    <2>20. /\ C \in SUBSET Offset /\ trim # NoTrim /\ m = trim.mem /\ w = trim.new
           /\ Chain(C, heap') /\ Coalesced(C, heap')
           /\ lfree' \in C /\ (\A p \in C : ~heap'[p].used => lfree' <= p)
           /\ (lfree' = lfree \/ ~heap'[lfree'].used)
           /\ (\A p \in B \ {m} : heap[p].used => p \in C /\ heap'[p].used /\ heap'[p].next = heap[p].next)
           /\ (\A p \in C : heap'[p].used => p \in B /\ heap[p].used)
           /\ m \in C /\ heap'[m].used /\ m + Header + w <= heap'[m].next
           /\ live' = [live EXCEPT ![m] = w] /\ disturbed' = TRUE /\ trim' = NoTrim
           /\ UNCHANGED <<pc, want, ptr, cur>>
      BY <1>1, <2>7, <2>11, <2>14, <2>15, <2>16, <2>17, <2>18, <2>19 DEF m, w
    <2> HIDE DEF C, D
    <2> QED  BY <2>20, ShrunkKeeps
  <1> QED  BY <1>6, <1>16, <1>17, <1>18

-----------------------------------------------------------------------------
(***************************************************************************)
(* The invariant, and what follows from it.                                *)
(***************************************************************************)
(* mem_init: one free block from offset 0 to the end of the heap. *)
LEMMA InitHeap ==
  ASSUME Init
  PROVE  HeapInv
  <1> DEFINE B == {0, MemSize}
  <1>1. /\ heap \in [Offset -> Mem] /\ heap[MemSize].used /\ heap[0].prev = 0
        /\ heap[0].next = MemSize /\ ~heap[0].used
    BY Offsets DEF Init, Mem
  <1>2. Header + MinSize <= MemSize /\ 0 + Header + MinSize <= MemSize
    BY HeapNotEmpty, AlignAssumption DEF Header, MinSize
  <1>3. Chain(B, heap) /\ B \in SUBSET Offset
    BY <1>1, <1>2, Offsets DEF Chain
  <1>4. Coalesced(B, heap)  BY <1>1 DEF Coalesced
  <1>5. LowestIs(B)  BY <1>1, Offsets DEF LowestIs, Init
  <1>6. HeldBy(B)
    <2>1. live = <<>> /\ DOMAIN live = {}  BY DEF Init
    <2>2. live \in [DOMAIN live -> Nat \ {0}]
      <3>1. <<>> \in Seq(Nat \ {0}) /\ Len(<<>>) = 0  OBVIOUS
      <3>2. <<>> \in [1..0 -> Nat \ {0}]  BY <3>1, LenProperties
      <3>3. 1..0 = {}  OBVIOUS
      <3> QED  BY <2>1, <3>2, <3>3
    <2>3. \A p \in B \ {MemSize} : ~heap[p].used  BY <1>1
    <2> HIDE DEF B
    <2> QED  BY <2>1, <2>2, <2>3 DEF HeldBy
  <1>7. InMalloc(B) /\ InTrim(B)  BY Offsets DEF InMalloc, InTrim, Init
  <1> QED  BY <1>3, <1>4, <1>5, <1>6, <1>7 DEF HeapInv, HeapInvOf

(* Every step of mem_malloc, mem_free and mem_trim keeps the invariant. *)
LEMMA StepKeeps ==
  ASSUME HeapInv, [Next]_vars
  PROVE  HeapInv'
  <1>1. PICK B \in SUBSET Offset : HeapInvOf(B)  BY DEF HeapInv
  <1>2. ASSUME HeapInvOf(B)' PROVE HeapInv'  BY <1>2 DEF HeapInv
  <1>3. CASE \E n \in Request : MallocStart(n)  BY <1>1, <1>2, <1>3, MallocStartKeeps
  <1>4. CASE MallocRestart  BY <1>1, <1>2, <1>4, MallocRestartKeeps
  <1>5. CASE MallocSkip  BY <1>1, <1>2, <1>5, MallocSkipKeeps
  <1>6. CASE MallocTake  BY <1>1, <1>6, MallocTakeKeeps
  <1>7. CASE AdjustRestart  BY <1>1, <1>2, <1>7, AdjustRestartKeeps
  <1>8. CASE AdjustStep  BY <1>1, <1>2, <1>8, AdjustStepKeeps
  <1>9. CASE \E m \in Offset : MemFree(m)  BY <1>1, <1>9, MemFreeKeeps
  <1>10. CASE \E m \in Offset, n \in Request : TrimRead(m, n)
    <2>1. PICK m \in Offset, n \in Request : TrimRead(m, n)  BY <1>10
    <2> QED  BY <1>1, <1>2, <2>1, TrimReadKeeps
  <1>11. CASE TrimApply  BY <1>1, <1>11, TrimApplyKeeps
  <1>12. CASE UNCHANGED vars
    BY <1>1, <1>2, <1>12 DEF vars, HeapInvOf, Chain, Coalesced, LowestIs, HeldBy, InMalloc, InTrim, Room
  <1> QED
    BY <1>3, <1>4, <1>5, <1>6, <1>7, <1>8, <1>9, <1>10, <1>11, <1>12 DEF Next, MallocStep

(* The invariant holds in every reachable state of the heap (mem.c, lines
   564-1000), however mem_malloc, mem_free and mem_trim interleave. *)
THEOREM HeapInvariant == Spec => []HeapInv
  <1>1. Init => HeapInv  BY InitHeap
  <1>2. HeapInv /\ [Next]_vars => HeapInv'  BY StepKeeps
  <1> QED  BY <1>1, <1>2, PTL DEF Spec

(* Every offset the heap keeps, in a struct mem, in lfree or in a running
   call, is an aligned offset inside ram (lines 391-421). *)
THEOREM HeapTypeCorrect == Spec => []TypeOK
  <1>1. HeapInv => TypeOK
    <2> SUFFICES ASSUME HeapInv PROVE TypeOK  OBVIOUS
    <2>1. PICK B \in SUBSET Offset : HeapInvOf(B)  BY DEF HeapInv
    <2>2. heap \in [Offset -> Mem] /\ lfree \in Offset  BY <2>1 DEF HeapInvOf, Chain, LowestIs
    <2>3. pc \in {"idle", "scan", "adjust"} /\ want \in Nat /\ ptr \in Offset /\ cur \in Offset
           /\ disturbed \in BOOLEAN
      BY <2>1 DEF HeapInvOf, InMalloc
    <2>4. DOMAIN live \subseteq Offset /\ \A m \in DOMAIN live : live[m] \in Nat \ {0}
      BY <2>1 DEF HeapInvOf, HeldBy
    <2>5. trim \in [mem : Offset \cup {-1}, new : Nat, size : Int]
      <3>1. NoTrim \in [mem : Offset \cup {-1}, new : Nat, size : Int]  BY DEF NoTrim
      <3>2. [mem : Offset, new : Request \ {0}, size : Int] \subseteq [mem : Offset \cup {-1}, new : Nat, size : Int]
        BY RequestAssumption
      <3>3. trim = NoTrim \/ trim \in [mem : Offset, new : Request \ {0}, size : Int]
        BY <2>1 DEF HeapInvOf, InTrim
      <3> QED  BY <3>1, <3>2, <3>3
    <2> QED  BY <2>2, <2>3, <2>4, <2>5 DEF TypeOK
  <1> QED  BY <1>1, HeapInvariant, PTL

(* B is the list from offset 0 with the end of the heap. *)
LEMMA BlocksAre ==
  ASSUME NEW B, HeapInvOf(B)
  PROVE  Block = B \ {MemSize} /\ OnList[MemSize] /\ Free = {p \in B : ~heap[p].used}
  <1>1. Chain(B, heap)  BY DEF HeapInvOf
  <1>2. B \in SUBSET Offset /\ MemSize \in B /\ heap[MemSize].used  BY <1>1 DEF Chain
  <1>3. \A p \in Offset : OnList[p] <=> p \in B  BY <1>1, OnListIs
  <1>4. Block = B \ {MemSize}  BY <1>2, <1>3 DEF Block
  <1>5. OnList[MemSize]  BY <1>2, <1>3
  <1> QED  BY <1>2, <1>4, <1>5 DEF Free

(* The heap is consistent after every step: mem_sanity's list, lfree the
   lowest free block, no overlap, nothing lost (lines 421, 474-510, 567-608). *)
THEOREM HeapAlwaysSane == Spec => []HeapSane
  <1>1. HeapInv => HeapSane
    <2> SUFFICES ASSUME HeapInv PROVE HeapSane  OBVIOUS
    <2>1. PICK B \in SUBSET Offset : HeapInvOf(B)  BY DEF HeapInv
    <2>2. Block = B \ {MemSize} /\ OnList[MemSize] /\ Free = {p \in B : ~heap[p].used}
      BY <2>1, BlocksAre
    <2>3. Chain(B, heap) /\ Coalesced(B, heap) /\ LowestIs(B) /\ HeldBy(B)  BY <2>1 DEF HeapInvOf
    <2>4. \A p \in Block :
            /\ heap[p].next >= p + Header + MinSize
            /\ heap[p].next # MemSize => heap[heap[p].next].prev = p
            /\ p \in Free => heap[p].next \notin Free
      <3> SUFFICES ASSUME NEW p \in B \ {MemSize}
                   PROVE  /\ heap[p].next >= p + Header + MinSize
                          /\ heap[p].next # MemSize => heap[heap[p].next].prev = p
                          /\ p \in Free => heap[p].next \notin Free
        BY <2>2
      <3>1. p + Header + MinSize <= heap[p].next /\ p \in Nat /\ heap[p].next \in Nat
            /\ (heap[p].next # MemSize => heap[heap[p].next].prev = p)
        BY <2>3, Offsets DEF Chain
      <3>2. p \in Free => heap[p].next \notin Free  BY <2>2, <2>3 DEF Coalesced
      <3>3. heap[p].next >= p + Header + MinSize
        <4> DEFINE x == heap[p].next
        <4> HIDE DEF x
        <4>1. x \in Nat /\ p + Header + MinSize <= x  BY <3>1 DEF x
        <4>2. x >= p + Header + MinSize  BY <3>1, <4>1, Offsets
        <4> QED  BY <4>2 DEF x
      <3> QED  BY <3>1, <3>2, <3>3
    <2>5. ListSane  BY <2>2, <2>4 DEF ListSane
    <2>6. LowestFree  BY <2>2, <2>3 DEF LowestFree, LowestIs
    <2>7. BlocksDisjoint
      <3>1. \A m \in DOMAIN live : m \in B \ {MemSize} /\ heap[m].used /\ LinkValid(m)
        BY <2>1, HeldIsValid
      <3> QED  BY <2>2, <2>3, <3>1 DEF BlocksDisjoint, HeldBy
    <2>8. NothingLost  BY <2>2, <2>3 DEF NothingLost, HeldBy
    <2> QED  BY <2>5, <2>6, <2>7, <2>8 DEF HeapSane
  <1> QED  BY <1>1, HeapInvariant, PTL

-----------------------------------------------------------------------------
(***************************************************************************)
(* mem_malloc fails only when nothing fits.                                *)
(***************************************************************************)
(* Beyond the last offset the scan looks at, no block has room. *)
LEMMA OutOfReach ==
  ASSUME NEW B, HeapInvOf(B), NEW n \in Request \ {0}, NEW p \in B, ~InReach(p, n),
         \A r \in B : r < p /\ ~heap[r].used => Room(heap, r) < Aligned(n)
  PROVE  \A r \in Free : Room(heap, r) < Aligned(n)
  <1> SUFFICES ASSUME NEW r \in B \ {MemSize}, ~heap[r].used PROVE Room(heap, r) < Aligned(n)
    BY BlocksAre DEF Free
  <1> DEFINE a == Aligned(n)
             x == heap[r].next
  <1>1. B \in SUBSET Offset /\ x \in B  BY DEF HeapInvOf, Chain
  <1>2. a \in Nat  BY RequestAssumption, AlignedUp
  <1>3. ~(p < MemSize - a)  BY DEF InReach
  <1>4. p \in Nat /\ r \in Nat /\ x \in Nat /\ x <= MemSize  BY <1>1, Offsets
  <1>5. CASE r < p  BY <1>5
  <1>6. CASE ~(r < p)
    <2>1. Room(heap, r) = x - (r + Header)  BY DEF Room
    <2> HIDE DEF a, x
    <2>2. x - (r + Header) < a  BY <1>2, <1>3, <1>4, <1>6, Offsets
    <2> QED  BY <2>1, <2>2 DEF a
  <1> QED  BY <1>5, <1>6

(* The block that mem_malloc hands out was nobody's. *)
LEMMA TakenIsNew ==
  ASSUME NEW B, HeapInvOf(B), MallocTake \/ pc = "adjust"
  PROVE  /\ ptr \in B \ {MemSize} /\ ptr \notin DOMAIN live /\ want \in Request \ {0}
         /\ ptr + Header + want <= heap[ptr].next
  <1>1. CASE MallocTake
    <2>1. pc = "scan" /\ ~disturbed /\ ~heap[ptr].used /\ Room(heap, ptr) >= Aligned(want)
      BY <1>1 DEF MallocTake, Fits
    <2>2. ptr \in B \ {MemSize} /\ want \in Request \ {0}  BY <2>1 DEF HeapInvOf, InMalloc
    <2>3. ptr \notin DOMAIN live  BY <2>1 DEF HeapInvOf, HeldBy
    <2> DEFINE a == Aligned(want)
               x == heap[ptr].next
    <2>4. a \in Nat /\ want \in Nat /\ want <= a  BY <2>2, RequestAssumption, AlignedUp
    <2>5. x - (ptr + Header) >= a  BY <2>1 DEF Room
    <2>6. ptr \in Nat /\ x \in Nat  BY <2>2, Offsets DEF HeapInvOf, Chain
    <2> HIDE DEF a, x
    <2>7. ptr + Header + want <= x  BY <2>4, <2>5, <2>6, Offsets
    <2> QED  BY <2>2, <2>3, <2>7 DEF x
  <1>2. CASE pc = "adjust"  BY <1>2 DEF HeapInvOf, InMalloc
  <1> QED  BY <1>1, <1>2

(* mem_malloc returns NULL only if no free block is large enough at that
   moment (line 827), whatever was freed behind its back during the scan. *)
THEOREM MallocFailsOnlyWhenFull == Spec => FailsOnlyWhenFull
  <1>1. HeapInv /\ [Next]_vars =>
          [pc = "scan" /\ pc' = "idle" /\ live' = live =>
             \A p \in Free : Room(heap, p) < Aligned(want)]_vars
    <2> SUFFICES ASSUME HeapInv, Next, pc = "scan", pc' = "idle", live' = live
                 PROVE  \A p \in Free : Room(heap, p) < Aligned(want)
      OBVIOUS
    <2>1. PICK B \in SUBSET Offset : HeapInvOf(B)  BY DEF HeapInv
    <2>2. want \in Request \ {0}  BY <2>1 DEF HeapInvOf, InMalloc
    <2>3. CASE MallocRestart
      <3>1. ~InReach(lfree, want)  BY <2>3 DEF MallocRestart, Look, Restart
      <3>2. lfree \in B /\ \A r \in B : r < lfree => heap[r].used  BY <2>1, NothingBelow
      <3> QED  BY <2>1, <2>2, <3>1, <3>2, OutOfReach
    <2>4. CASE MallocSkip
      <3>1. ~InReach(heap[ptr].next, want)  BY <2>4 DEF MallocSkip, Look
      <3> QED  BY <2>1, <2>2, <2>4, <3>1, SkippedBelow, OutOfReach
    <2>5. CASE MallocTake
      <3>1. ptr \notin DOMAIN live  BY <2>1, <2>5, TakenIsNew
      <3>2. live' = With(live, ptr, want)  BY <2>5 DEF MallocTake, Return
      <3>3. ptr \in DOMAIN live'  BY <3>2 DEF With
      <3> QED  BY <3>1, <3>3
    <2>6. ~(\E n \in Request : MallocStart(n)) /\ ~AdjustRestart /\ ~AdjustStep
      BY DEF MallocStart, AdjustRestart, AdjustStep
    <2>7. ~(\E m \in Offset : MemFree(m)) /\ ~(\E m \in Offset, n \in Request : TrimRead(m, n)) /\ ~TrimApply
      BY DEF MemFree, TrimRead, TrimApply
    <2> QED  BY <2>3, <2>4, <2>5, <2>6, <2>7 DEF Next, MallocStep
  <1> QED  BY <1>1, HeapInvariant, PTL DEF Spec, FailsOnlyWhenFull

-----------------------------------------------------------------------------
(***************************************************************************)
(* The heap implements Allocator.                                          *)
(***************************************************************************)
(* The refinement mapping: the regions callers see start after the header. *)
Seen(f) == [a \in {m + Header : m \in DOMAIN f} |-> f[a - Header]]

(* The regions of Allocator, seen through the refinement mapping. *)
LEMMA SeenIs ==
  ASSUME NEW f, DOMAIN f \in SUBSET Nat
  PROVE  /\ DOMAIN Seen(f) = {m + Header : m \in DOMAIN f}
         /\ \A m \in DOMAIN f : Seen(f)[m + Header] = f[m]
         /\ \A m \in Nat : m + Header \in DOMAIN Seen(f) <=> m \in DOMAIN f
  <1>1. \A m \in Nat : (m + Header) - Header = m  BY Offsets
  <1>2. DOMAIN Seen(f) = {m + Header : m \in DOMAIN f}  BY DEF Seen
  <1>3. ASSUME NEW m \in DOMAIN f PROVE Seen(f)[m + Header] = f[m]
    <2>1. m + Header \in {k + Header : k \in DOMAIN f}  OBVIOUS
    <2>2. Seen(f)[m + Header] = f[(m + Header) - Header]  BY <2>1 DEF Seen
    <2> QED  BY <1>1, <2>2
  <1>4. ASSUME NEW m \in Nat, m + Header \in DOMAIN Seen(f) PROVE m \in DOMAIN f
    <2>1. PICK k \in DOMAIN f : m + Header = k + Header  BY <1>2, <1>4
    <2>2. m = k  BY <1>1, <2>1
    <2> QED  BY <2>2
  <1> QED  BY <1>2, <1>3, <1>4

(* Two mappings are equal if they have the same blocks and values. *)
LEMMA SeenEqual ==
  ASSUME NEW f, DOMAIN f \in SUBSET Nat, NEW D, NEW g, g = [a \in D |-> g[a]],
         D = {m + Header : m \in DOMAIN f},
         \A m \in DOMAIN f : g[m + Header] = f[m]
  PROVE  Seen(f) = g
  <1>1. \A a \in D : Seen(f)[a] = g[a]  BY SeenIs
  <1>2. Seen(f) = [a \in D |-> Seen(f)[a]]  BY DEF Seen
  <1> QED  BY <1>1, <1>2

(* A new block in live is a new region. *)
LEMMA SeenWith ==
  ASSUME NEW f, DOMAIN f \in SUBSET Nat, NEW x \in Nat, NEW v
  PROVE  Seen(With(f, x, v)) = With(Seen(f), x + Header, v)
  <1> DEFINE w == With(f, x, v)
             D == DOMAIN Seen(f) \cup {x + Header}
             g == [a \in D |-> IF a = x + Header THEN v ELSE Seen(f)[a]]
  <1>1. DOMAIN w = DOMAIN f \cup {x} /\ \A m \in DOMAIN w : w[m] = IF m = x THEN v ELSE f[m]
    BY DEF With
  <1>2. DOMAIN w \in SUBSET Nat /\ D = {m + Header : m \in DOMAIN w}
    <2> HIDE DEF w
    <2>1. DOMAIN Seen(f) = {m + Header : m \in DOMAIN f}  BY SeenIs
    <2>2. DOMAIN w \in SUBSET Nat  BY <1>1
    <2>3. {m + Header : m \in DOMAIN w} = {m + Header : m \in DOMAIN f} \cup {x + Header}
      BY <1>1
    <2> QED  BY <2>1, <2>2, <2>3
  <1>3. g = [a \in D |-> g[a]] /\ \A a \in D : g[a] = IF a = x + Header THEN v ELSE Seen(f)[a]
    OBVIOUS
  <1>4. ASSUME NEW m \in DOMAIN w PROVE g[m + Header] = w[m]
    <2>1. m + Header \in D /\ m \in Nat  BY <1>2
    <2>2. m + Header = x + Header <=> m = x  BY <2>1, Offsets
    <2>3. m # x => m \in DOMAIN f  BY <1>1
    <2> HIDE DEF g, w, D
    <2> QED  BY <1>1, <1>3, <2>1, <2>2, <2>3, SeenIs
  <1> HIDE DEF w, D, g
  <1>5. Seen(w) = g  BY <1>2, <1>3, <1>4, SeenEqual
  <1> QED  BY <1>5 DEF w, D, g, With

(* A block gone from live is a region gone. *)
LEMMA SeenWithout ==
  ASSUME NEW f, DOMAIN f \in SUBSET Nat, NEW x \in Nat
  PROVE  Seen(Without(f, x)) = [a \in DOMAIN Seen(f) \ {x + Header} |-> Seen(f)[a]]
  <1> DEFINE w == Without(f, x)
             D == DOMAIN Seen(f) \ {x + Header}
             g == [a \in D |-> Seen(f)[a]]
  <1>1. DOMAIN w = DOMAIN f \ {x} /\ \A m \in DOMAIN w : w[m] = f[m]  BY DEF Without
  <1>2. D = {m + Header : m \in DOMAIN w}
    <2>1. \A m \in Nat : m + Header = x + Header <=> m = x  BY Offsets
    <2>2. DOMAIN Seen(f) = {m + Header : m \in DOMAIN f}  BY SeenIs
    <2> HIDE DEF w
    <2> QED  BY <1>1, <2>1, <2>2
  <1>3. g = [a \in D |-> g[a]] /\ \A a \in D : g[a] = Seen(f)[a]  OBVIOUS
  <1>4. DOMAIN w \in SUBSET Nat  BY <1>1
  <1>5. ASSUME NEW m \in DOMAIN w PROVE g[m + Header] = w[m]
    <2>1. m + Header \in D  BY <1>2
    <2>2. m \in DOMAIN f  BY <1>1
    <2> HIDE DEF g, w, D
    <2>3. Seen(f)[m + Header] = f[m]  BY <2>2, SeenIs
    <2>4. g[m + Header] = Seen(f)[m + Header]  BY <1>3, <2>1
    <2>5. w[m] = f[m]  BY <1>1
    <2> QED  BY <2>3, <2>4, <2>5
  <1> HIDE DEF w, D, g
  <1>6. Seen(w) = g  BY <1>2, <1>3, <1>4, <1>5, SeenEqual
  <1> QED  BY <1>6 DEF w, D, g

(* A block of a new size is a region of a new size. *)
LEMMA SeenExcept ==
  ASSUME NEW f, f \in [DOMAIN f -> Nat], DOMAIN f \in SUBSET Nat, NEW x \in DOMAIN f, NEW v
  PROVE  Seen([f EXCEPT ![x] = v]) = [Seen(f) EXCEPT ![x + Header] = v]
  <1> DEFINE w == [f EXCEPT ![x] = v]
             D == DOMAIN Seen(f)
             g == [Seen(f) EXCEPT ![x + Header] = v]
  <1>1. DOMAIN w = DOMAIN f /\ \A m \in DOMAIN w : w[m] = IF m = x THEN v ELSE f[m]  OBVIOUS
  <1>2. D = {m + Header : m \in DOMAIN w}  BY <1>1, SeenIs
  <1>3. g = [a \in D |-> g[a]] /\ \A a \in D : g[a] = IF a = x + Header THEN v ELSE Seen(f)[a]
    BY DEF Seen
  <1>4. ASSUME NEW m \in DOMAIN w PROVE g[m + Header] = w[m]
    <2>1. m + Header \in D  BY <1>2
    <2>2. m + Header = x + Header <=> m = x  BY <1>1, Offsets
    <2> HIDE DEF g, w, D
    <2> QED  BY <1>1, <1>3, <2>1, <2>2, SeenIs
  <1> HIDE DEF w, D, g
  <1>5. Seen(w) = g  BY <1>1, <1>2, <1>3, <1>4, SeenEqual
  <1> QED  BY <1>5 DEF w, D, g

(* Two stretches of memory, one ending before the other begins. *)
LEMMA RegionsApart ==
  ASSUME NEW a \in Nat, NEW n \in Nat, NEW b \in Nat, NEW k \in Nat, a + n <= b \/ b + k <= a
  PROVE  (a..(a + n - 1)) \cap (b..(b + k - 1)) = {}
  OBVIOUS

(* Blocks that do not hold each other's memory. *)
LEMMA HeldApart ==
  ASSUME NEW B, HeapInvOf(B), NEW p \in B \ {MemSize}, p \notin DOMAIN live, NEW n \in Nat,
         p + Header + n <= heap[p].next, NEW m \in DOMAIN live
  PROVE  p + Header + n <= m + Header \/ m + Header + live[m] <= p + Header
  <1> DEFINE x == heap[p].next
             y == heap[m].next
             k == live[m]
  <1>1. m \in B \ {MemSize} /\ m + Header + k <= y /\ k \in Nat  BY DEF HeapInvOf, HeldBy
  <1>2. x \in B /\ y \in B /\ p \in Nat /\ m \in Nat /\ x \in Nat /\ y \in Nat /\ B \in SUBSET Offset
    BY <1>1, Offsets DEF HeapInvOf, Chain
  <1>3. (p < m => x <= m) /\ (m < p => y <= p)
    BY <1>1, BelowNext DEF HeapInvOf
  <1>4. p # m  OBVIOUS
  <1> HIDE DEF x, y, k
  <1>5. p + Header + n <= x  BY DEF x
  <1>6. p + Header + n <= m + Header \/ m + Header + k <= p + Header
    BY <1>1, <1>2, <1>3, <1>4, <1>5, Offsets
  <1> QED  BY <1>6 DEF k

(* What the mapping needs of the invariant. *)
LEMMA LiveIs ==
  ASSUME NEW B, HeapInvOf(B)
  PROVE  live \in [DOMAIN live -> Nat] /\ DOMAIN live \in SUBSET Nat /\ DOMAIN live \in SUBSET Offset
  BY Offsets DEF HeapInvOf, HeldBy, Chain

(* Where mem_malloc returns a block (line 959), the allocator hands it out. *)
LEMMA ReturnAllocates ==
  ASSUME NEW B, HeapInvOf(B), MallocTake \/ pc = "adjust", Return
  PROVE  A!Next
  <1>0. PICK a, n : a = ptr + Header /\ n = want  OBVIOUS
  <1>1. /\ ptr \in B \ {MemSize} /\ ptr \notin DOMAIN live /\ n \in Request \ {0}
        /\ ptr + Header + n <= heap[ptr].next
    BY <1>0, TakenIsNew
  <1>2. /\ live \in [DOMAIN live -> Nat] /\ DOMAIN live \in SUBSET Nat
        /\ ptr \in Nat /\ n \in Nat /\ heap[ptr].next \in Nat /\ heap[ptr].next <= MemSize
    BY <1>1, LiveIs, RequestAssumption, Offsets DEF HeapInvOf, Chain
  <1>3. a \in Nat /\ a + n <= MemSize /\ a \in 0..MemSize
    <2> DEFINE x == heap[ptr].next
    <2> HIDE DEF x
    <2>1. x \in Nat /\ x <= MemSize /\ ptr + Header + n <= x  BY <1>1, <1>2 DEF x
    <2> QED  BY <1>0, <1>2, <2>1, Offsets
  <1>4. A!Region(a, n) \subseteq 0..(MemSize - 1)
    BY <1>2, <1>3, Offsets DEF A!Region
  <1>5. \A b \in DOMAIN Seen(live) : A!Region(a, n) \cap A!Region(b, Seen(live)[b]) = {}
    <2> SUFFICES ASSUME NEW b \in DOMAIN Seen(live)
                 PROVE  A!Region(a, n) \cap A!Region(b, Seen(live)[b]) = {}
      OBVIOUS
    <2>0. DOMAIN Seen(live) = {m + Header : m \in DOMAIN live}
           /\ \A m \in DOMAIN live : Seen(live)[m + Header] = live[m]
      BY <1>2, SeenIs
    <2>1. PICK m \in DOMAIN live : b = m + Header  BY <2>0
    <2>2. Seen(live)[b] = live[m] /\ m \in Nat /\ live[m] \in Nat /\ b \in Nat
      <3>1. Seen(live)[b] = live[m]  BY <2>0, <2>1
      <3>2. m \in Nat /\ live[m] \in Nat  BY <1>2, <2>1
      <3> QED  BY <2>1, <3>1, <3>2, Offsets
    <2>3. ptr + Header + n <= m + Header \/ m + Header + live[m] <= ptr + Header
      BY <1>1, <1>2, HeldApart
    <2> DEFINE k == live[m]
    <2>4. a + n <= b \/ b + k <= a  BY <1>0, <2>1, <2>3
    <2> HIDE DEF k
    <2>5. (a..(a + n - 1)) \cap (b..(b + k - 1)) = {}
      BY <1>2, <1>3, <2>2, <2>4, RegionsApart DEF k
    <2> QED  BY <2>2, <2>5 DEF A!Region, k
  <1>6. Seen(live)' = [x \in DOMAIN Seen(live) \cup {a} |-> IF x = a THEN n ELSE Seen(live)[x]]
    <2>1. live' = With(live, ptr, want)  BY DEF Return
    <2>2. Seen(live') = [x \in DOMAIN Seen(live) \cup {a} |-> IF x = a THEN n ELSE Seen(live)[x]]
      <3>1. Seen(With(live, ptr, want)) = With(Seen(live), ptr + Header, want)  BY <1>2, SeenWith
      <3> QED  BY <1>0, <2>1, <3>1 DEF With
    <2> QED  BY <2>2 DEF Seen
  <1>7. A!Alloc(a, n)  BY <1>4, <1>5, <1>6 DEF A!Alloc, Seen
  <1> QED  BY <1>1, <1>3, <1>7 DEF A!Next

(* mem_free gives the region back. *)
LEMMA FreeReleases ==
  ASSUME NEW B, HeapInvOf(B), NEW m \in Offset, MemFree(m)
  PROVE  A!Next
  <1> DEFINE a == m + Header
  <1>1. m \in DOMAIN live /\ live' = Without(live, m)  BY DEF MemFree
  <1>2. DOMAIN live \in SUBSET Nat /\ m \in Nat  BY LiveIs, Offsets
  <1>3. a \in DOMAIN Seen(live)  BY <1>1, <1>2, SeenIs
  <1>4. Seen(live)' = [x \in DOMAIN Seen(live) \ {a} |-> Seen(live)[x]]
    <2>1. Seen(live') = [x \in DOMAIN Seen(live) \ {a} |-> Seen(live)[x]]
      BY <1>1, <1>2, SeenWithout
    <2> QED  BY <2>1 DEF Seen
  <1>5. A!Release(a)  BY <1>3, <1>4 DEF A!Release, Seen
  <1>6. a \in 0..MemSize
    <2> DEFINE x == heap[m].next
               k == live[m]
    <2>1. m + Header + k <= x /\ k \in Nat /\ x \in Nat /\ x <= MemSize
      BY <1>1, Offsets DEF HeapInvOf, HeldBy, Chain
    <2> HIDE DEF x, k
    <2> QED  BY <1>2, <2>1, Offsets
  <1> QED  BY <1>5, <1>6 DEF A!Next

(* mem_trim shortens the region in place. *)
LEMMA TrimShrinks ==
  ASSUME NEW B, HeapInvOf(B), TrimApply
  PROVE  A!Next
  <1>0. PICK m, n, a : m = trim.mem /\ n = trim.new /\ a = m + Header  OBVIOUS
  <1>1. trim # NoTrim /\ live' = [live EXCEPT ![m] = n]  BY <1>0 DEF TrimApply
  <1>2. m \in DOMAIN live /\ n \in Request /\ n < live[m]
    BY <1>0, <1>1 DEF HeapInvOf, InTrim
  <1>3. live \in [DOMAIN live -> Nat] /\ DOMAIN live \in SUBSET Nat /\ m \in Nat /\ m \in Offset
    BY <1>2, LiveIs
  <1>4. a \in DOMAIN Seen(live) /\ Seen(live)[a] = live[m]  BY <1>0, <1>2, <1>3, SeenIs
  <1>5. Seen(live)' = [Seen(live) EXCEPT ![a] = n]
    <2>1. Seen(live') = [Seen(live) EXCEPT ![a] = n]
      <3>1. Seen([live EXCEPT ![m] = n]) = [Seen(live) EXCEPT ![m + Header] = n]
        BY <1>2, <1>3, SeenExcept, Zenon
      <3> QED  BY <1>0, <1>1, <3>1
    <2> QED  BY <2>1 DEF Seen
  <1>6. A!Shrink(a, n)  BY <1>2, <1>4, <1>5 DEF A!Shrink, Seen
  <1>7. a \in 0..MemSize
    <2> DEFINE x == heap[m].next
               k == live[m]
    <2>1. m + Header + k <= x /\ k \in Nat /\ x \in Nat /\ x <= MemSize
      BY <1>2, Offsets DEF HeapInvOf, HeldBy, Chain
    <2> HIDE DEF x, k
    <2> QED  BY <1>0, <1>3, <2>1, Offsets
  <1> QED  BY <1>2, <1>6, <1>7 DEF A!Next

(* To its callers the heap is an allocator (lines 823-827, 652-668, 714-816):
   each step of the code is a step of Allocator or changes nothing that a
   caller sees. *)
THEOREM HeapImplementsAllocator == Spec => ImplementsAllocator
  <1>1. Init => A!Init
    <2> SUFFICES ASSUME Init PROVE Seen(live) = <<>>  BY DEF A!Init, Seen
    <2>1. DOMAIN live = {}  BY DEF Init
    <2>2. Seen(live) \in [{} -> {0}]  BY <2>1 DEF Seen
    <2>3. <<>> \in Seq({0}) /\ Len(<<>>) = 0  OBVIOUS
    <2>4. <<>> \in [1..0 -> {0}]  BY <2>3, LenProperties
    <2>5. 1..0 = {}  OBVIOUS
    <2> QED  BY <2>2, <2>4, <2>5
  <1>2. HeapInv /\ [Next]_vars =>
          [A!Next]_([a \in {m + Header : m \in DOMAIN live} |-> live[a - Header]])
    <2> SUFFICES ASSUME HeapInv, [Next]_vars
                 PROVE  A!Next \/ UNCHANGED live
      OBVIOUS
    <2>1. PICK B \in SUBSET Offset : HeapInvOf(B)  BY DEF HeapInv
    <2>2. CASE MallocTake
      <3>1. CASE Return  BY <2>1, <2>2, <3>1, ReturnAllocates
      <3>2. CASE UNCHANGED live  BY <3>2
      <3> QED  BY <2>2, <3>1, <3>2 DEF MallocTake
    <2>3. CASE AdjustRestart \/ AdjustStep
      <3>1. CASE Return
        <4>1. pc = "adjust"  BY <2>3 DEF AdjustRestart, AdjustStep
        <4> QED  BY <2>1, <3>1, <4>1, ReturnAllocates
      <3>2. CASE UNCHANGED live  BY <3>2
      <3> QED  BY <2>3, <3>1, <3>2 DEF AdjustRestart, AdjustStep
    <2>4. CASE \E m \in Offset : MemFree(m)  BY <2>1, <2>4, FreeReleases
    <2>5. CASE TrimApply  BY <2>1, <2>5, TrimShrinks
    <2>6. CASE \/ \E n \in Request : MallocStart(n)
               \/ MallocRestart \/ MallocSkip
               \/ \E m \in Offset, n \in Request : TrimRead(m, n)
      BY <2>6 DEF MallocStart, MallocRestart, MallocSkip, TrimRead
    <2>7. CASE UNCHANGED vars  BY <2>7 DEF vars
    <2> QED  BY <2>2, <2>3, <2>4, <2>5, <2>6, <2>7 DEF Next, MallocStep
  <1> QED  BY <1>1, <1>2, HeapInvariant, PTL DEF Spec, ImplementsAllocator, A!Spec

=============================================================================
