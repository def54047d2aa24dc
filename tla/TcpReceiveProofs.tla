-------------------------- MODULE TcpReceiveProofs --------------------------
(***************************************************************************)
(* Theorems about TcpReceive, for every length of the stream, every window *)
(* and segment size, and every initial sequence number.                    *)
(*                                                                         *)
(* The code compares sequence numbers modulo 2^32.  The proofs follow the  *)
(* positions in the stream they stand for: byte k has position k, the FIN  *)
(* N + 1.  All positions that meet are less than half the sequence space   *)
(* apart, so TCP_SEQ_LT orders the numbers as < orders the positions.      *)
(***************************************************************************)
EXTENDS TcpReceive, FiniteSetTheorems, NaturalsInduction, SequenceTheorems,
        WellFoundedInduction, TLAPS

-----------------------------------------------------------------------------
(***************************************************************************)
(* The inductive invariant.  n is the position rcv_nxt stands for, e the   *)
(* position of the right edge that was announced.                          *)
(***************************************************************************)
Seg == [seq : Int, at : Nat, len : Nat, fin : BOOLEAN]
After(s) == s.at + TcpLen(s)                \* the position after a segment

(* A segment of the stream that ends at e or before. *)
SegOK(s, e) ==
  /\ s \in Seg /\ s.seq = Seqno(s.at) /\ s.at >= 1 /\ s.at + s.len <= N + 1
  /\ s.fin => s.at + s.len = N + 1
  /\ TcpLen(s) >= 1 /\ After(s) <= e

(* The queue is ordered, without overlaps, above n and below e. *)
QueueOK(q, n, e) ==
  /\ q \in Seq(Seg)
  /\ \A i \in 1..Len(q) : SegOK(q[i], e) /\ n < q[i].at
  /\ \A i, j \in 1..Len(q) : i < j => After(q[i]) <= q[j].at

Heard == [ack : Int, edge : Int]

Pcb == [state : {"established", "close_wait"}, rcv_nxt : Int, rcv_wnd : 0..Wnd, ann_wnd : 0..Wnd,
        right_edge : Int, ooseq : Seq(Seg), ack : SUBSET {"delay", "now"}, told : Heard]

(* The announced edge lies within the window there is, and the window to be
   announced next does not take it back.  A probe of a shut window may have
   moved rcv_nxt one octet beyond the edge. *)
EdgeOK(p, n, e) ==
  /\ n - 1 <= e /\ e <= n + p.rcv_wnd
  /\ e <= n + p.ann_wnd /\ p.ann_wnd <= p.rcv_wnd

CoreOK(p, n, e) ==
  /\ p \in Pcb /\ n \in 1..(N + 2) /\ e \in Nat
  /\ p.rcv_nxt = Seqno(n) /\ p.right_edge = Seqno(e)
  /\ EdgeOK(p, n, e)
  /\ QueueOK(p.ooseq, n, e)

PcbOK(p, n, e) == CoreOK(p, n, e) /\ (p.state = "close_wait" <=> n = N + 2)

(* k bytes of the stream, from position a on. *)
Run(a, k) == [i \in 1..k |-> a + i - 1]

UpRec == [refused : [bytes : Seq(Nat), fin : BOOLEAN], app : Seq(Nat), eof : BOOLEAN, wnd : Int]

(* What the application has, and has refused, of the first n - 1 octets. *)
UpOK(u, rd, n) ==
  /\ u \in UpRec
  /\ rd \in 0..Len(u.app)
  /\ u.app = Run(1, Len(u.app)) /\ u.refused.bytes = Run(Len(u.app) + 1, Len(u.refused.bytes))
  /\ u.refused.bytes = <<>> => ~u.refused.fin
  /\ Len(u.app) + Len(u.refused.bytes) = IF n = N + 2 THEN N ELSE n - 1
  /\ n = N + 2 <=> u.eof \/ u.refused.fin
  /\ ~(u.eof /\ u.refused.fin) /\ (u.eof => u.refused = NoData)
  /\ u.wnd = Wnd - (Len(u.app) - rd) - Len(u.refused.bytes) - (IF u.refused.fin THEN 1 ELSE 0)

Nxt == Len(app) + Len(refused.bytes) + 1 + (IF FinTaken THEN 1 ELSE 0)

TcpInv == PcbOK(pcb, Nxt, Edge) /\ UpOK(Up, read, Nxt) /\ fin_read \in BOOLEAN

-----------------------------------------------------------------------------
(***************************************************************************)
(* Sequence numbers and positions.                                         *)
(***************************************************************************)
(* What the assumption on the constants says, in the form the proofs use. *)
LEMMA ConstIs ==
  /\ N \in Nat /\ N >= 1 /\ Wnd \in Nat /\ Wnd >= 1 /\ Mss \in Nat /\ Mss >= 1
  /\ SeqSpace \in Nat /\ SeqSpace >= 1 /\ WndSpace \in Nat /\ N + Wnd + 2 < WndSpace
  /\ SeqSpace \div 2 \in Nat /\ WndSpace <= SeqSpace \div 2 /\ 2 * (SeqSpace \div 2) <= SeqSpace
  /\ Iss \in 0..(SeqSpace - 1)
  <1>1. SeqSpace \in Nat /\ WndSpace \in Nat /\ 2 * WndSpace <= SeqSpace
    BY TcpReceiveAssumption
  <1>2. SeqSpace \div 2 \in Nat /\ WndSpace <= SeqSpace \div 2 /\ 2 * (SeqSpace \div 2) <= SeqSpace
    BY <1>1
  <1>3. N \in Nat /\ N >= 1 /\ Wnd \in Nat /\ Wnd >= 1 /\ Mss \in Nat /\ Mss >= 1
    BY TcpReceiveAssumption
  <1> QED  BY <1>1, <1>2, <1>3, TcpReceiveAssumption

(* The remainder is the only sequence number that differs by a multiple. *)
LEMMA ModIs ==
  ASSUME NEW x \in Int, NEW k \in Int, NEW r \in 0..(SeqSpace - 1), x = r + k * SeqSpace
  PROVE  x % SeqSpace = r
  <1>1. SeqSpace \in Nat \ {0}  BY ConstIs
  <1> DEFINE d == x \div SeqSpace
             m == x % SeqSpace
  <1>2. d \in Int /\ m \in 0..(SeqSpace - 1) /\ x = SeqSpace * d + m  BY <1>1
  <1> HIDE DEF d, m
  <1>3. PICK j \in Int : j = k - d  BY <1>2
  <1>4. SeqSpace * j = m - r
    <2>1. SeqSpace * (k - d) = SeqSpace * k - SeqSpace * d  BY <1>1, <1>2
    <2>2. k * SeqSpace = SeqSpace * k  BY <1>1
    <2> QED  BY <1>1, <1>2, <1>3, <2>1, <2>2
  <1>5. CASE j = 0  BY <1>1, <1>2, <1>4, <1>5 DEF m
  <1>6. CASE j >= 1
    <2>1. SeqSpace * j >= SeqSpace  BY <1>1, <1>6
    <2> QED  BY <1>1, <1>2, <1>4, <2>1
  <1>7. CASE j <= -1
    <2>1. SeqSpace * j <= -SeqSpace  BY <1>1, <1>7
    <2> QED  BY <1>1, <1>2, <1>4, <2>1
  <1> QED  BY <1>5, <1>6, <1>7

(* A position's sequence number. *)
LEMMA SeqnoIs ==
  ASSUME NEW a \in Int
  PROVE  /\ Seqno(a) \in 0..(SeqSpace - 1)
         /\ \E k \in Int : Seqno(a) = Iss + a + k * SeqSpace
  <1>1. SeqSpace \in Nat \ {0} /\ Iss + a \in Int  BY ConstIs
  <1> DEFINE d == (Iss + a) \div SeqSpace
             m == (Iss + a) % SeqSpace
  <1>2. d \in Int /\ m \in 0..(SeqSpace - 1) /\ Iss + a = SeqSpace * d + m  BY <1>1
  <1>3. Seqno(a) = m  BY DEF Seqno, Plus
  <1> HIDE DEF d, m
  <1>4. (-d) * SeqSpace = -(SeqSpace * d) /\ -d \in Int  BY <1>1, <1>2
  <1>5. m = Iss + a + (-d) * SeqSpace  BY <1>1, <1>2, <1>4
  <1> QED  BY <1>2, <1>3, <1>4, <1>5

(* Sequence numbers whose positions differ by a number are that far apart. *)
LEMMA SeqnoPlus ==
  ASSUME NEW a \in Int, NEW i \in Int
  PROVE  Plus(Seqno(a), i) = Seqno(a + i)
  <1>0. SeqSpace \in Nat /\ Iss \in Int  BY ConstIs
  <1>1. PICK k \in Int : Seqno(a) = Iss + a + k * SeqSpace  BY SeqnoIs
  <1>2. a + i \in Int  OBVIOUS
  <1>3. Seqno(a + i) \in 0..(SeqSpace - 1)  BY <1>2, SeqnoIs
  <1>4. PICK l \in Int : Seqno(a + i) = Iss + (a + i) + l * SeqSpace  BY <1>2, SeqnoIs
  <1>5. (k - l) * SeqSpace = k * SeqSpace - l * SeqSpace /\ k - l \in Int  BY <1>0
  <1>6. Seqno(a) + i = Seqno(a + i) + (k - l) * SeqSpace /\ Seqno(a) + i \in Int
    BY <1>0, <1>1, <1>4, <1>5
  <1>7. (Seqno(a) + i) % SeqSpace = Seqno(a + i)  BY <1>3, <1>5, <1>6, ModIs
  <1> QED  BY <1>7 DEF Plus

LEMMA SeqnoDiff ==
  ASSUME NEW a \in Int, NEW b \in Int, NEW c \in 0..(SeqSpace - 1), NEW j \in {0, 1},
         a - b = c - j * SeqSpace
  PROVE  Diff(Seqno(a), Seqno(b)) = c
  <1>0. SeqSpace \in Nat /\ Iss \in Int  BY ConstIs
  <1>1. PICK k \in Int : Seqno(a) = Iss + a + k * SeqSpace  BY SeqnoIs
  <1>2. PICK l \in Int : Seqno(b) = Iss + b + l * SeqSpace  BY SeqnoIs
  <1>3. Seqno(a) \in Int /\ Seqno(b) \in Int  BY <1>0, SeqnoIs
  <1>4. (k - l - j) * SeqSpace = k * SeqSpace - l * SeqSpace - j * SeqSpace /\ k - l - j \in Int
    BY <1>0
  <1>5. j * SeqSpace \in Int /\ k * SeqSpace \in Int /\ l * SeqSpace \in Int  BY <1>0
  <1>6. Seqno(a) - Seqno(b) = c + (k - l - j) * SeqSpace /\ Seqno(a) - Seqno(b) \in Int
    BY <1>0, <1>1, <1>2, <1>3, <1>4, <1>5
  <1>7. (Seqno(a) - Seqno(b)) % SeqSpace = c  BY <1>4, <1>6, ModIs
  <1> QED  BY <1>7 DEF Diff

(* The difference of two sequence numbers is that of their positions. *)
LEMMA DiffIs ==
  ASSUME NEW a \in Int, NEW b \in Int, b <= a, a - b < WndSpace
  PROVE  Diff(Seqno(a), Seqno(b)) = a - b
  <1>1. a - b \in 0..(SeqSpace - 1) /\ a - b = (a - b) - 0 * SeqSpace /\ 0 \in {0, 1}  BY ConstIs
  <1> QED  BY <1>1, SeqnoDiff

(* TCP_SEQ_LT and TCP_SEQ_LEQ order sequence numbers as their positions. *)
LEMMA SeqOrder ==
  ASSUME NEW a \in Int, NEW b \in Int, a - b < WndSpace, b - a < WndSpace
  PROVE  /\ SeqLT(Seqno(a), Seqno(b)) <=> a < b
         /\ SeqLEQ(Seqno(a), Seqno(b)) <=> a <= b
         /\ Seqno(a) = Seqno(b) <=> a = b
  <1>0. SeqSpace \in Nat /\ SeqSpace \div 2 \in Nat /\ WndSpace <= SeqSpace \div 2
         /\ 2 * (SeqSpace \div 2) <= SeqSpace /\ WndSpace \in Nat
    BY ConstIs
  <1>1. CASE b <= a
    <2>1. Diff(Seqno(a), Seqno(b)) = a - b  BY <1>1, DiffIs
    <2>2. ~SeqLT(Seqno(a), Seqno(b))  BY <1>0, <2>1 DEF SeqLT
    <2>3. Seqno(a) = Seqno(b) => a = b
      <3> SUFFICES ASSUME Seqno(a) = Seqno(b) PROVE a = b  OBVIOUS
      <3>1. Diff(Seqno(b), Seqno(b)) = b - b  BY <1>0, DiffIs
      <3> QED  BY <2>1, <3>1
    <2> QED  BY <1>1, <2>2, <2>3 DEF SeqLEQ
  <1>2. CASE a < b
    <2>1. a - b = (a - b + SeqSpace) - 1 * SeqSpace /\ a - b + SeqSpace \in 0..(SeqSpace - 1)
           /\ 1 \in {0, 1}
      BY <1>0, <1>2
    <2>2. Diff(Seqno(a), Seqno(b)) = a - b + SeqSpace  BY <2>1, SeqnoDiff
    <2>3. SeqLT(Seqno(a), Seqno(b))  BY <1>0, <1>2, <2>2 DEF SeqLT
    <2>4. Seqno(a) # Seqno(b)
      <3>1. Diff(Seqno(b), Seqno(b)) = b - b  BY <1>0, DiffIs
      <3> QED  BY <1>0, <1>2, <2>2, <3>1
    <2> QED  BY <1>2, <2>3, <2>4 DEF SeqLEQ
  <1> QED  BY <1>1, <1>2

(* The position of the announced edge. *)
LEMMA PositionIs ==
  ASSUME NEW e \in Nat, e < WndSpace
  PROVE  Diff(Seqno(e), Iss) = e
  <1>1. SeqSpace \in Nat /\ WndSpace \in Nat /\ Iss \in 0..(SeqSpace - 1)  BY ConstIs
  <1>2. Iss + 0 = Iss + 0 * SeqSpace /\ Iss + 0 \in Int  BY <1>1
  <1>3. (Iss + 0) % SeqSpace = Iss  BY <1>1, <1>2, ModIs
  <1>4. Seqno(0) = Iss  BY <1>3 DEF Seqno, Plus
  <1>5. Diff(Seqno(e), Seqno(0)) = e - 0  BY DiffIs
  <1> QED  BY <1>4, <1>5

(* All positions of segments, windows and edges lie here. *)
Pos == 0..(N + Wnd + 2)

LEMMA PosOrder ==
  ASSUME NEW a \in Pos, NEW b \in Pos
  PROVE  /\ SeqLT(Seqno(a), Seqno(b)) <=> a < b
         /\ SeqLEQ(Seqno(a), Seqno(b)) <=> a <= b
         /\ Seqno(a) = Seqno(b) <=> a = b
         /\ b <= a => Diff(Seqno(a), Seqno(b)) = a - b
  <1>1. a \in Int /\ b \in Int /\ a - b < WndSpace /\ b - a < WndSpace  BY ConstIs DEF Pos
  <1> QED  BY <1>1, SeqOrder, DiffIs

-----------------------------------------------------------------------------
(***************************************************************************)
(* Least and greatest numbers.                                             *)
(***************************************************************************)
(* A set of naturals that is not empty has a least element. *)
LEMMA LeastNat ==
  ASSUME NEW T \in SUBSET Nat, T # {}
  PROVE  \E m \in T : \A k \in T : m <= k
  <1> DEFINE R == OpToRel(<, Nat)
  <1>1. IsWellFoundedOn(R, Nat)  BY NatLessThanWellFounded
  <1>2. PICK m \in T : \A k \in T : <<k, m>> \notin R
    <2> HIDE DEF R
    <2> QED  BY <1>1, WFMin
  <1>3. \A k \in T : ~(k < m)  BY <1>2 DEF R, OpToRel
  <1> QED  BY <1>3

(* Max is the greatest element of a bounded set. *)
LEMMA MaxIs ==
  ASSUME NEW b \in Nat, NEW T \in SUBSET (0..b), T # {}
  PROVE  Max(T) \in T /\ \A k \in T : k <= Max(T)
  <1> DEFINE U == {b - k : k \in T}
  <1>0. \A k \in T : k \in Nat /\ k <= b /\ b - k \in Nat  OBVIOUS
  <1>1. U \in SUBSET Nat /\ U # {}  BY <1>0
  <1>2. PICK u \in U : \A v \in U : u <= v
    <2> HIDE DEF U
    <2> QED  BY <1>1, LeastNat
  <1>3. PICK m \in T : u = b - m  BY <1>2
  <1>4. \A k \in T : b - m <= b - k  BY <1>2, <1>3
  <1>5. \A k \in T : m >= k  BY <1>0, <1>3, <1>4
  <1>6. Max(T) \in T /\ \A k \in T : Max(T) >= k  BY <1>3, <1>5 DEF Max
  <1> QED  BY <1>0, <1>6

(* The first numbers of a sequence that have a property of all that come
   before a place, counted. *)
LEMMA PrefixCount ==
  ASSUME NEW l \in Nat, NEW S \in SUBSET (1..l),
         \A i \in S, j \in 1..l : j < i => j \in S
  PROVE  Cardinality(S) \in 0..l /\ S = 1..Cardinality(S)
  <1> DEFINE T == {k \in 0..l : k + 1 \notin S}
  <1>1. l \in T  OBVIOUS
  <1>2. PICK k \in T : \A j \in T : k <= j
    <2>1. T \in SUBSET Nat  OBVIOUS
    <2>2. T # {}  BY <1>1
    <2> HIDE DEF T
    <2> QED  BY <2>1, <2>2, LeastNat
  <1>3. k \in 0..l /\ k + 1 \notin S  BY <1>2
  <1>4. ASSUME NEW i \in 1..k PROVE i \in S
    <2>1. i - 1 \in 0..l /\ ~(k <= i - 1) /\ (i - 1) + 1 = i  BY <1>3
    <2>2. i - 1 \notin T
      <3> HIDE DEF T
      <3> QED  BY <1>2, <2>1
    <2> QED  BY <2>1, <2>2
  <1>5. ASSUME NEW i \in S PROVE i \in 1..k
    <2>1. i \in 1..l  OBVIOUS
    <2>2. CASE k + 1 < i
      <3>1. k + 1 \in 1..l  BY <1>3, <2>1, <2>2
      <3> QED  BY <1>3, <2>2, <3>1
    <2> QED  BY <1>3, <2>1, <2>2
  <1> HIDE DEF T
  <1>6. S = 1..k  BY <1>4, <1>5
  <1>7. Cardinality(1..k) = k  BY <1>3, FS_Interval
  <1> QED  BY <1>3, <1>6, <1>7

-----------------------------------------------------------------------------
(***************************************************************************)
(* Segments and queues of segments.                                        *)
(***************************************************************************)
(* A segment's fields, and the positions its sequence numbers stand for. *)
LEMMA SegIs ==
  ASSUME NEW s, NEW e \in Pos, SegOK(s, e)
  PROVE  /\ s \in Seg /\ s.at \in Pos /\ s.len \in Nat /\ s.fin \in BOOLEAN
         /\ s.at + s.len \in Pos /\ After(s) \in Pos
         /\ s.at >= 1 /\ s.at <= N + 1 /\ s.at < After(s) /\ s.at + s.len <= After(s)
         /\ After(s) <= N + 2 /\ After(s) <= e
         /\ ~s.fin => After(s) = s.at + s.len
         /\ s.fin => s.at + s.len = N + 1 /\ After(s) = N + 2
         /\ s.seq = Seqno(s.at) /\ End(s) = Seqno(s.at + s.len) /\ Next1(s) = Seqno(After(s))
  <1>0. N \in Nat /\ Wnd \in Nat  BY ConstIs
  <1>1. s \in Seg /\ s.at \in Nat /\ s.len \in Nat /\ s.fin \in BOOLEAN  BY DEF SegOK, Seg
  <1>2. TcpLen(s) = (IF s.fin THEN s.len + 1 ELSE s.len) /\ TcpLen(s) \in Nat
    BY <1>1 DEF TcpLen
  <1>3. s.seq = Seqno(s.at) /\ s.at >= 1 /\ s.at + s.len <= N + 1
         /\ (s.fin => s.at + s.len = N + 1) /\ TcpLen(s) >= 1 /\ s.at + TcpLen(s) <= e
    BY DEF SegOK, After
  <1>4. End(s) = Seqno(s.at + s.len)
    <2>1. s.at \in Int /\ s.len \in Int  BY <1>1
    <2>2. Plus(Seqno(s.at), s.len) = Seqno(s.at + s.len)  BY <2>1, SeqnoPlus
    <2> QED  BY <1>3, <2>2 DEF End
  <1>5. Next1(s) = Seqno(s.at + TcpLen(s))
    <2>1. s.at \in Int /\ TcpLen(s) \in Int  BY <1>1, <1>2
    <2>2. Plus(Seqno(s.at), TcpLen(s)) = Seqno(s.at + TcpLen(s))  BY <2>1, SeqnoPlus
    <2> QED  BY <1>3, <2>2 DEF Next1
  <1> QED  BY <1>0, <1>1, <1>2, <1>3, <1>4, <1>5 DEF After, Pos

(* The parts of a queue. *)
LEMMA UpToIs ==
  ASSUME NEW q \in Seq(Seg), NEW k \in 0..Len(q)
  PROVE  /\ UpTo(q, k) \in Seq(Seg) /\ Len(UpTo(q, k)) = k
         /\ \A i \in 1..k : UpTo(q, k)[i] = q[i]
  <1>1. Len(q) \in Nat /\ \A i \in 1..Len(q) : q[i] \in Seg  BY LenProperties, ElementOfSeq
  <1>2. \A i \in 1..k : q[i] \in Seg  BY <1>1
  <1>3. 1 \in Int /\ k \in Int  BY <1>1
  <1>4. /\ SubSeq(q, 1, k) \in Seq(Seg)
        /\ Len(SubSeq(q, 1, k)) = IF 1 <= k THEN k - 1 + 1 ELSE 0
        /\ \A i \in 1..(k - 1 + 1) : SubSeq(q, 1, k)[i] = q[1 + i - 1]
    BY <1>2, <1>3, SubSeqProperties
  <1>5. Len(SubSeq(q, 1, k)) = k  BY <1>1, <1>4
  <1>6. \A i \in 1..k : i \in 1..(k - 1 + 1) /\ 1 + i - 1 = i  BY <1>1
  <1> QED  BY <1>4, <1>5, <1>6 DEF UpTo

LEMMA BeyondIs ==
  ASSUME NEW q \in Seq(Seg), NEW k \in 0..Len(q)
  PROVE  /\ Beyond(q, k) \in Seq(Seg) /\ Len(Beyond(q, k)) = Len(q) - k
         /\ \A i \in 1..(Len(q) - k) : Beyond(q, k)[i] = q[k + i]
  <1>1. Len(q) \in Nat /\ \A i \in 1..Len(q) : q[i] \in Seg  BY LenProperties, ElementOfSeq
  <1>2. \A i \in (k + 1)..Len(q) : q[i] \in Seg  BY <1>1
  <1>3. k + 1 \in Int /\ Len(q) \in Int  BY <1>1
  <1> DEFINE b == SubSeq(q, k + 1, Len(q))
  <1>4. /\ b \in Seq(Seg)
        /\ Len(b) = IF k + 1 <= Len(q) THEN Len(q) - (k + 1) + 1 ELSE 0
        /\ \A i \in 1..(Len(q) - (k + 1) + 1) : b[i] = q[k + 1 + i - 1]
    BY <1>2, <1>3, SubSeqProperties
  <1> HIDE DEF b
  <1>5. Len(b) = Len(q) - k  BY <1>1, <1>4
  <1>6. \A i \in 1..(Len(q) - k) : i \in 1..(Len(q) - (k + 1) + 1) /\ k + 1 + i - 1 = k + i  BY <1>1
  <1>7. \A i \in 1..(Len(q) - k) : b[i] = q[k + i]  BY <1>4, <1>6
  <1> QED  BY <1>4, <1>5, <1>7 DEF Beyond, b

(* What a queue is, in the form the proofs use. *)
LEMMA QueueIs ==
  ASSUME NEW q, NEW a, NEW e, QueueOK(q, a, e)
  PROVE  /\ q \in Seq(Seg) /\ Len(q) \in Nat /\ DOMAIN q = 1..Len(q)
         /\ \A i \in 1..Len(q) : SegOK(q[i], e) /\ a < q[i].at
         /\ \A i, j \in 1..Len(q) : i < j => After(q[i]) <= q[j].at
  BY LenProperties DEF QueueOK

(* A part of a queue is a queue. *)
LEMMA UpToOK ==
  ASSUME NEW q, NEW a, NEW e, QueueOK(q, a, e), NEW k \in 0..Len(q)
  PROVE  QueueOK(UpTo(q, k), a, e)
  <1>1. q \in Seq(Seg) /\ Len(q) \in Nat  BY QueueIs
  <1> DEFINE b == UpTo(q, k)
  <1>2. b \in Seq(Seg) /\ Len(b) = k /\ \A i \in 1..k : b[i] = q[i]  BY <1>1, UpToIs
  <1> HIDE DEF b
  <1>3. \A i \in 1..k : i \in 1..Len(q)  BY <1>1
  <1>4. QueueOK(b, a, e)  BY <1>2, <1>3 DEF QueueOK
  <1> QED  BY <1>4 DEF b

LEMMA BeyondOK ==
  ASSUME NEW q, NEW a, NEW e, QueueOK(q, a, e), NEW k \in 0..Len(q), NEW m \in Int,
         \A i \in (k + 1)..Len(q) : m < q[i].at
  PROVE  QueueOK(Beyond(q, k), m, e)
  <1>1. q \in Seq(Seg) /\ Len(q) \in Nat  BY QueueIs
  <1> DEFINE b == Beyond(q, k)
  <1>2. b \in Seq(Seg) /\ Len(b) = Len(q) - k /\ \A i \in 1..(Len(q) - k) : b[i] = q[k + i]
    BY <1>1, BeyondIs
  <1> HIDE DEF b
  <1>3. \A i \in 1..Len(b) : k + i \in 1..Len(q) /\ k + i \in (k + 1)..Len(q) /\ b[i] = q[k + i]
    BY <1>1, <1>2
  <1>4. \A i \in 1..Len(b) : SegOK(b[i], e) /\ m < b[i].at  BY <1>3, QueueIs
  <1>5. \A i, j \in 1..Len(b) : i < j => k + i < k + j  BY <1>1, <1>2
  <1>6. \A i, j \in 1..Len(b) : i < j => After(b[i]) <= b[j].at  BY <1>3, <1>5, QueueIs
  <1>7. QueueOK(b, m, e)  BY <1>2, <1>4, <1>6 DEF QueueOK
  <1> QED  BY <1>7 DEF b

(* The empty queue. *)
LEMMA EmptyOK == ASSUME NEW a, NEW e PROVE QueueOK(<<>>, a, e)
  <1>1. <<>> \in Seq(Seg) /\ Len(<<>>) = 0  OBVIOUS
  <1> QED  BY <1>1 DEF QueueOK

(* Two queues, the second after the first, make one. *)
LEMMA JoinOK ==
  ASSUME NEW q, NEW a \in Int, NEW e \in Pos, QueueOK(q, a, e), NEW r, NEW m \in Int, QueueOK(r, m, e),
         a <= m, \A i \in 1..Len(q) : After(q[i]) <= m + 1
  PROVE  QueueOK(q \o r, a, e)
  <1>1. q \in Seq(Seg) /\ Len(q) \in Nat /\ r \in Seq(Seg) /\ Len(r) \in Nat  BY QueueIs
  <1> DEFINE b == q \o r
  <1>2. b \in Seq(Seg) /\ Len(b) = Len(q) + Len(r)
         /\ \A i \in 1..(Len(q) + Len(r)) : b[i] = IF i <= Len(q) THEN q[i] ELSE r[i - Len(q)]
    BY <1>1, ConcatProperties
  <1> HIDE DEF b
  <1>3. ASSUME NEW i \in 1..Len(b)
        PROVE  \/ i \in 1..Len(q) /\ b[i] = q[i]
               \/ i > Len(q) /\ i - Len(q) \in 1..Len(r) /\ b[i] = r[i - Len(q)]
    BY <1>1, <1>2
  <1>4. \A i \in 1..Len(q) : SegOK(q[i], e) /\ a < q[i].at  BY QueueIs
  <1>5. \A i \in 1..Len(r) : SegOK(r[i], e) /\ m < r[i].at  BY QueueIs
  <1>6. \A i \in 1..Len(r) : r[i].at \in Int  BY <1>5, SegIs DEF Pos
  <1>7. \A i \in 1..Len(r) : a < r[i].at /\ m + 1 <= r[i].at  BY <1>5, <1>6
  <1>8. \A i \in 1..Len(b) : SegOK(b[i], e) /\ a < b[i].at  BY <1>3, <1>4, <1>5, <1>7
  <1>9. ASSUME NEW i \in 1..Len(b), NEW j \in 1..Len(b), i < j
        PROVE  After(b[i]) <= b[j].at
    <2>1. CASE i <= Len(q) /\ j <= Len(q)
      <3>1. i \in 1..Len(q) /\ b[i] = q[i] /\ j \in 1..Len(q) /\ b[j] = q[j]  BY <1>1, <1>2, <1>3, <2>1
      <3> QED  BY <1>9, <3>1, QueueIs
    <2>2. CASE i <= Len(q) /\ j > Len(q)
      <3>1. b[i] = q[i] /\ i \in 1..Len(q) /\ j - Len(q) \in 1..Len(r) /\ b[j] = r[j - Len(q)]
        BY <1>1, <1>2, <1>3, <2>2
      <3>2. After(q[i]) \in Int  BY <1>4, <3>1, SegIs DEF Pos
      <3>3. After(q[i]) <= m + 1 /\ m + 1 <= r[j - Len(q)].at /\ r[j - Len(q)].at \in Int
        BY <1>6, <1>7, <3>1
      <3> QED  BY <3>1, <3>2, <3>3
    <2>3. CASE i > Len(q)
      <3>1. i - Len(q) \in 1..Len(r) /\ b[i] = r[i - Len(q)] /\ j - Len(q) \in 1..Len(r)
             /\ b[j] = r[j - Len(q)] /\ i - Len(q) < j - Len(q)
        BY <1>1, <1>2, <1>3, <1>9, <2>3
      <3> QED  BY <3>1, QueueIs
    <2> QED  BY <1>1, <1>2, <2>1, <2>2, <2>3
  <1>10. QueueOK(b, a, e)  BY <1>2, <1>8, <1>9 DEF QueueOK
  <1> QED  BY <1>10 DEF b

(* A segment is a queue. *)
LEMMA OneOK ==
  ASSUME NEW s, NEW e \in Pos, SegOK(s, e), NEW a, a < s.at
  PROVE  QueueOK(<<s>>, a, e) /\ Len(<<s>>) = 1 /\ <<s>>[1] = s
  <1>1. s \in Seg  BY SegIs
  <1>2. <<s>> \in Seq(Seg) /\ Len(<<s>>) = 1 /\ <<s>>[1] = s  BY <1>1
  <1>3. \A i \in 1..Len(<<s>>) : i = 1  BY <1>2
  <1> QED  BY <1>2, <1>3 DEF QueueOK

(* Only the last segment of a queue can have the FIN. *)
LEMMA FinLast ==
  ASSUME NEW q, NEW a, NEW e \in Pos, QueueOK(q, a, e), NEW i \in 1..Len(q), q[i].fin
  PROVE  i = Len(q)
  <1>1. Len(q) \in Nat /\ SegOK(q[i], e) /\ SegOK(q[Len(q)], e)  BY QueueIs
  <1>2. After(q[i]) = N + 2 /\ q[Len(q)].at <= N + 1 /\ q[Len(q)].at \in Int  BY <1>1, SegIs DEF Pos
  <1>3. N \in Nat  BY ConstIs
  <1>4. CASE i < Len(q)
    <2>1. After(q[i]) <= q[Len(q)].at  BY <1>1, <1>4, QueueIs
    <2> QED  BY <1>2, <1>3, <2>1
  <1> QED  BY <1>1, <1>4

-----------------------------------------------------------------------------
(***************************************************************************)
(* The out-of-sequence queue.                                              *)
(***************************************************************************)
(* Covered counts the segments that end at c or before; they come first. *)
LEMMA CoveredIs ==
  ASSUME NEW q, NEW a, NEW e \in Pos, QueueOK(q, a, e), NEW c \in Pos
  PROVE  LET k == Covered(q, Seqno(c))
         IN  /\ k \in 0..Len(q)
             /\ \A i \in 1..k : q[i].at + q[i].len <= c
             /\ \A i \in (k + 1)..Len(q) : q[i].at + q[i].len > c
  <1> DEFINE T == {0} \cup {k \in 1..Len(q) : \A i \in 1..k : SeqLEQ(End(q[i]), Seqno(c))}
             m == Covered(q, Seqno(c))
  <1>0. Len(q) \in Nat /\ \A i \in 1..Len(q) : SegOK(q[i], e)  BY QueueIs
  <1>1. T \in SUBSET (0..Len(q)) /\ T # {}  BY <1>0
  <1>2. m = Max(T)  BY DEF Covered
  <1> HIDE DEF T, m
  <1>3. m \in T /\ \A k \in T : k <= m  BY <1>0, <1>1, <1>2, MaxIs
  <1>4. ASSUME NEW i \in 1..Len(q)
        PROVE  /\ SeqLEQ(End(q[i]), Seqno(c)) <=> q[i].at + q[i].len <= c
               /\ q[i].at \in Int /\ q[i].at + q[i].len \in Int /\ After(q[i]) \in Int
               /\ q[i].at + q[i].len <= After(q[i]) /\ q[i].at <= q[i].at + q[i].len
    <2>1. SegOK(q[i], e)  BY <1>0
    <2>2. q[i].at + q[i].len \in Pos /\ End(q[i]) = Seqno(q[i].at + q[i].len)  BY <2>1, SegIs
    <2>3. q[i].at \in Pos /\ q[i].len \in Nat /\ After(q[i]) \in Pos /\ q[i].at + q[i].len <= After(q[i])
      BY <2>1, SegIs
    <2>4. SeqLEQ(End(q[i]), Seqno(c)) <=> q[i].at + q[i].len <= c  BY <2>2, PosOrder
    <2> QED  BY <2>2, <2>3, <2>4 DEF Pos
  <1>5. m \in 0..Len(q)  BY <1>1, <1>3
  <1>6. \A i \in 1..m : i \in 1..Len(q)  BY <1>0, <1>5
  <1>7. \A i \in 1..m : q[i].at + q[i].len <= c
    <2>1. CASE m = 0  BY <2>1
    <2>2. CASE m # 0
      <3>1. \A i \in 1..m : SeqLEQ(End(q[i]), Seqno(c))  BY <1>3, <2>2 DEF T
      <3> QED  BY <1>4, <1>6, <3>1
    <2> QED  BY <2>1, <2>2
  <1>8. ASSUME NEW i \in (m + 1)..Len(q) PROVE q[i].at + q[i].len > c
    <2>1. m + 1 \in 1..Len(q) /\ ~(m + 1 <= m) /\ i \in 1..Len(q)  BY <1>0, <1>5
    <2>2. m + 1 \notin T  BY <1>3, <2>1
    <2>3. PICK j \in 1..(m + 1) : ~SeqLEQ(End(q[j]), Seqno(c))  BY <2>1, <2>2 DEF T
    <2>4. j \in 1..Len(q)  BY <2>1, <2>3, <1>0, <1>5
    <2>5. ~(q[j].at + q[j].len <= c)  BY <1>4, <2>3, <2>4
    <2>6. j = m + 1  BY <1>5, <1>7, <2>3, <2>5
    <2>7. CASE i = m + 1  BY <1>4, <2>1, <2>5, <2>6, <2>7 DEF Pos
    <2>8. CASE i # m + 1
      <3>1. j < i  BY <1>5, <2>1, <2>6, <2>8
      <3>2. After(q[j]) <= q[i].at  BY <2>1, <2>4, <3>1, QueueIs
      <3>3. q[j].at + q[j].len \in Int /\ q[j].at + q[j].len <= After(q[j]) /\ After(q[j]) \in Int
        BY <1>4, <2>4
      <3>4. q[i].at \in Int /\ q[i].at + q[i].len \in Int /\ q[i].at <= q[i].at + q[i].len
        BY <1>4, <2>1
      <3> QED  BY <2>5, <3>2, <3>3, <3>4 DEF Pos
    <2> QED  BY <2>7, <2>8
  <1> QED  BY <1>5, <1>7, <1>8 DEF m

(* Follow counts the segments at the head that follow on c without a gap. *)
LEMMA FollowIs ==
  ASSUME NEW q, NEW a, NEW e \in Pos, QueueOK(q, a, e), NEW c \in Pos
  PROVE  LET k == Follow(q, Seqno(c))
         IN  /\ k \in 0..Len(q)
             /\ k >= 1 => q[1].at = c
             /\ \A i \in 2..k : q[i].at = After(q[i - 1])
             /\ k = 0 /\ Len(q) >= 1 => q[1].at # c
             /\ k >= 1 /\ k < Len(q) => q[k + 1].at # After(q[k])
  <1> DEFINE T == {0} \cup {k \in 1..Len(q) :
                     q[1].seq = Seqno(c) /\ \A i \in 2..k : q[i].seq = Next1(q[i - 1])}
             m == Follow(q, Seqno(c))
  <1>0. Len(q) \in Nat /\ \A i \in 1..Len(q) : SegOK(q[i], e)  BY QueueIs
  <1>1. T \in SUBSET (0..Len(q)) /\ T # {}  BY <1>0
  <1>2. m = Max(T)  BY DEF Follow
  <1> HIDE DEF T, m
  <1>3. m \in T /\ \A k \in T : k <= m  BY <1>0, <1>1, <1>2, MaxIs
  <1>4. m \in 0..Len(q)  BY <1>1, <1>3
  <1>5. ASSUME NEW i \in 1..Len(q) PROVE q[i].seq = Seqno(c) <=> q[i].at = c
    BY <1>0, SegIs, PosOrder
  <1>6. ASSUME NEW i \in 2..Len(q) PROVE q[i].seq = Next1(q[i - 1]) <=> q[i].at = After(q[i - 1])
    <2>1. i \in 1..Len(q) /\ i - 1 \in 1..Len(q)  BY <1>0
    <2>2. q[i].at \in Pos /\ q[i].seq = Seqno(q[i].at)  BY <1>0, <2>1, SegIs
    <2>3. After(q[i - 1]) \in Pos /\ Next1(q[i - 1]) = Seqno(After(q[i - 1]))  BY <1>0, <2>1, SegIs
    <2> QED  BY <2>2, <2>3, PosOrder
  <1>7. m >= 1 => q[1].at = c
    <2> SUFFICES ASSUME m >= 1 PROVE q[1].at = c  OBVIOUS
    <2>1. q[1].seq = Seqno(c) /\ 1 \in 1..Len(q)  BY <1>0, <1>3, <1>4 DEF T
    <2> QED  BY <1>5, <2>1
  <1>8. \A i \in 2..m : q[i].at = After(q[i - 1])
    <2> TAKE i \in 2..m
    <2>1. q[i].seq = Next1(q[i - 1]) /\ i \in 2..Len(q)  BY <1>0, <1>3, <1>4 DEF T
    <2> QED  BY <1>6, <2>1
  <1>9. m = 0 /\ Len(q) >= 1 => q[1].at # c
    <2> SUFFICES ASSUME m = 0, Len(q) >= 1 PROVE q[1].at # c  OBVIOUS
    <2>1. 1 \in 1..Len(q) /\ 1 \notin T  BY <1>0, <1>3
    <2>2. q[1].seq # Seqno(c)  BY <2>1 DEF T
    <2> QED  BY <1>5, <2>1, <2>2
  <1>10. m >= 1 /\ m < Len(q) => q[m + 1].at # After(q[m])
    <2> SUFFICES ASSUME m >= 1, m < Len(q) PROVE q[m + 1].at # After(q[m])  OBVIOUS
    <2>1. m + 1 \in 1..Len(q) /\ m + 1 \in 2..Len(q) /\ ~(m + 1 <= m) /\ (m + 1) - 1 = m  BY <1>0, <1>4
    <2>2. m + 1 \notin T  BY <1>3, <2>1
    <2>3. q[1].seq = Seqno(c) /\ \A i \in 2..m : q[i].seq = Next1(q[i - 1])  BY <1>3, <1>4 DEF T
    <2>4. PICK i \in 2..(m + 1) : q[i].seq # Next1(q[i - 1])  BY <2>1, <2>2, <2>3 DEF T
    <2>5. i = m + 1  BY <1>4, <2>3, <2>4
    <2> QED  BY <1>6, <2>1, <2>4, <2>5
  <1> QED  BY <1>4, <1>7, <1>8, <1>9, <1>10 DEF m

(* The FIN of a part of the queue. *)
LEMMA HasFinIs ==
  ASSUME NEW q, NEW a, NEW e \in Pos, QueueOK(q, a, e), NEW k \in 0..Len(q), HasFin(UpTo(q, k))
  PROVE  k = Len(q) /\ k >= 1 /\ q[k].fin
  <1>1. q \in Seq(Seg) /\ Len(q) \in Nat  BY QueueIs
  <1>2. UpTo(q, k) \in Seq(Seg) /\ Len(UpTo(q, k)) = k /\ \A i \in 1..k : UpTo(q, k)[i] = q[i]
    BY <1>1, UpToIs
  <1>3. DOMAIN UpTo(q, k) = 1..k  BY <1>2
  <1>4. PICK i \in 1..k : UpTo(q, k)[i].fin  BY <1>3 DEF HasFin
  <1>5. q[i].fin /\ i \in 1..Len(q)  BY <1>1, <1>2, <1>4
  <1>6. i = Len(q)  BY <1>5, FinLast
  <1> QED  BY <1>1, <1>4, <1>5, <1>6

(* A segment cut where the queue after it begins. *)
LEMMA CutIs ==
  ASSUME NEW s, NEW e \in Pos, SegOK(s, e), NEW r, QueueOK(r, s.at, e), s.fin => r = <<>>
  PROVE  LET t == CutAt(s, r)
         IN  /\ SegOK(t, e) /\ t.at = s.at /\ t.fin = s.fin /\ After(t) <= After(s)
             /\ r = <<>> => t = s
             /\ \A i \in 1..Len(r) : After(t) <= r[i].at
             /\ After(t) = After(s) \/ (Len(r) >= 1 /\ After(t) = r[1].at)
  <1> DEFINE t == CutAt(s, r)
  <1>0. r \in Seq(Seg) /\ Len(r) \in Nat  BY QueueIs
  <1>1. s \in Seg /\ s.at \in Pos /\ s.len \in Nat /\ s.fin \in BOOLEAN /\ After(s) \in Pos
         /\ s.seq = Seqno(s.at) /\ Next1(s) = Seqno(After(s)) /\ s.at < After(s)
    BY SegIs
  <1>2. CASE r = <<>>
    <2>1. t = s /\ Len(r) = 0  BY <1>2 DEF CutAt
    <2> HIDE DEF t
    <2>2. \A i \in 1..Len(r) : After(t) <= r[i].at  BY <2>1
    <2> QED  BY <1>1, <2>1, <2>2 DEF t, Pos
  <1>3. CASE r # <<>>
    <2>0. Len(r) >= 1 /\ 1 \in 1..Len(r) /\ ~s.fin  BY <1>0, <1>1, <1>3
    <2>1. SegOK(r[1], e) /\ s.at < r[1].at  BY <2>0, QueueIs
    <2>2. r[1].at \in Pos /\ r[1].seq = Seqno(r[1].at) /\ r[1].at < After(r[1]) /\ After(r[1]) \in Pos
      BY <2>1, SegIs
    <2>3. SeqLT(r[1].seq, Next1(s)) <=> r[1].at < After(s)  BY <1>1, <2>2, PosOrder
    <2>4. Diff(r[1].seq, s.seq) = r[1].at - s.at  BY <1>1, <2>1, <2>2, PosOrder DEF Pos
    <2>5. \A i \in 1..Len(r) : r[1].at <= r[i].at
      <3> TAKE i \in 1..Len(r)
      <3>1. CASE i = 1  BY <2>2, <3>1 DEF Pos
      <3>2. CASE i # 1
        <4>1. After(r[1]) <= r[i].at  BY <1>0, <2>0, <3>2, QueueIs
        <4>2. r[i].at \in Pos  BY QueueIs, SegIs
        <4> QED  BY <2>2, <4>1, <4>2 DEF Pos
      <3> QED  BY <3>1, <3>2
    <2>6. \A i \in 1..Len(r) : r[i].at \in Pos  BY QueueIs, SegIs
    <2>7. CASE r[1].at < After(s)
      <3>1. t = [s EXCEPT !.len = r[1].at - s.at]  BY <1>3, <2>3, <2>4, <2>7 DEF CutAt
      <3> HIDE DEF t
      <3>2. r[1].at - s.at \in Nat /\ r[1].at - s.at >= 1 /\ r[1].at - s.at <= s.len
             /\ After(s) = s.at + s.len /\ s.at + s.len <= N + 1 /\ After(s) <= e /\ s.at >= 1
        <4>1. After(s) = s.at + s.len /\ After(s) <= e /\ s.at >= 1  BY <2>0, SegIs
        <4>2. s.at + s.len <= N + 1  BY DEF SegOK
        <4> QED  BY <1>1, <2>1, <2>2, <2>7, <4>1, <4>2 DEF Pos
      <3>3. t \in Seg /\ t.at = s.at /\ t.fin = s.fin /\ t.seq = s.seq /\ t.len = r[1].at - s.at
        BY <1>1, <3>1, <3>2 DEF Seg
      <3>4. TcpLen(t) = r[1].at - s.at /\ After(t) = r[1].at
        BY <1>1, <2>0, <2>2, <3>2, <3>3 DEF TcpLen, After, Pos
      <3>5. SegOK(t, e)
        <4>1. s.at + (r[1].at - s.at) <= s.at + s.len /\ r[1].at <= e
          BY <1>1, <2>2, <2>7, <3>2 DEF Pos
        <4>2. s.at + (r[1].at - s.at) <= N + 1
          <5>1. N \in Nat  BY ConstIs
          <5> QED  BY <1>1, <2>2, <3>2, <4>1, <5>1 DEF Pos
        <4> QED  BY <1>1, <2>0, <3>2, <3>3, <3>4, <4>1, <4>2 DEF SegOK
      <3>6. \A i \in 1..Len(r) : After(t) <= r[i].at  BY <2>5, <3>4
      <3> QED  BY <1>1, <1>3, <2>0, <2>2, <2>7, <3>3, <3>4, <3>5, <3>6 DEF t, Pos
    <2>8. CASE ~(r[1].at < After(s))
      <3>1. t = s  BY <2>3, <2>8 DEF CutAt
      <3> HIDE DEF t
      <3>2. \A i \in 1..Len(r) : After(t) <= r[i].at
        BY <1>1, <2>2, <2>5, <2>6, <2>8, <3>1 DEF Pos
      <3> QED  BY <1>1, <1>3, <3>1, <3>2 DEF t, Pos
    <2> QED  BY <2>7, <2>8
  <1> QED  BY <1>2, <1>3

(* tcp_oos_insert_segment: the segment takes the place of what it covers, and
   its FIN. *)
LEMMA OosInsertOK ==
  ASSUME NEW s, NEW e \in Pos, SegOK(s, e), NEW q, QueueOK(q, s.at - 1, e),
         Len(q) >= 1 /\ q[1].at = s.at => q[1].len < s.len
  PROVE  QueueOK(OosInsert(s, q), s.at - 1, e)
  <1>0. s \in Seg /\ s.at \in Pos /\ s.len \in Nat /\ s.fin \in BOOLEAN /\ After(s) \in Pos /\ s.at >= 1
         /\ s.at + s.len \in Pos /\ End(s) = Seqno(s.at + s.len)
    BY SegIs
  <1>1. CASE s.fin
    <2>1. OosInsert(s, q) = <<s>>  BY <1>1 DEF OosInsert
    <2>2. s.at - 1 < s.at  BY <1>0 DEF Pos
    <2> QED  BY <2>1, <2>2, OneOK
  <1>2. CASE ~s.fin
    <2> DEFINE k == Covered(q, End(s))
               r == Beyond(q, k)
               f == HasFin(UpTo(q, k))
               t == CutAt(s, r)
               u == [t EXCEPT !.fin = f]
    <2>1. OosInsert(s, q) = <<u>> \o r  BY <1>2 DEF OosInsert
    <2>2. k \in 0..Len(q) /\ (\A i \in 1..k : q[i].at + q[i].len <= s.at + s.len)
           /\ (\A i \in (k + 1)..Len(q) : q[i].at + q[i].len > s.at + s.len)
      BY <1>0, CoveredIs
    <2>3. q \in Seq(Seg) /\ Len(q) \in Nat
           /\ \A i \in 1..Len(q) : SegOK(q[i], e) /\ s.at - 1 < q[i].at
      BY QueueIs
    <2>4. \A i \in 1..Len(q) : q[i].at \in Nat /\ q[i].len \in Nat /\ s.at <= q[i].at
                                /\ After(q[i]) \in Nat /\ q[i].at < After(q[i])
      <3> HIDE DEF k, r, f, t, u
      <3> TAKE i \in 1..Len(q)
      <3>1. q[i].at \in Pos /\ q[i].len \in Nat /\ After(q[i]) \in Pos /\ q[i].at < After(q[i])
             /\ s.at - 1 < q[i].at
        BY <2>3, SegIs
      <3> QED  BY <1>0, <3>1 DEF Pos
    <2> HIDE DEF k
    <2>5. ASSUME NEW i \in (k + 1)..Len(q) PROVE s.at < q[i].at
      <3> HIDE DEF r, f, t, u
      <3>1. i \in 1..Len(q) /\ 1 \in 1..Len(q) /\ Len(q) >= 1  BY <2>2, <2>3
      <3>2. CASE i = 1
        <4>1. q[1].at + q[1].len > s.at + s.len  BY <2>2, <3>2
        <4>2. q[1].at \in Nat /\ q[1].len \in Nat /\ s.at <= q[1].at /\ s.at \in Nat
          BY <1>0, <2>4, <3>1 DEF Pos
        <4>3. q[1].at # s.at  BY <1>0, <3>1, <4>1, <4>2
        <4> QED  BY <3>2, <4>2, <4>3
      <3>3. CASE i # 1
        <4>1. After(q[1]) <= q[i].at  BY <2>3, <3>1, <3>3, QueueIs
        <4>2. q[1].at \in Nat /\ s.at <= q[1].at /\ After(q[1]) \in Nat /\ q[1].at < After(q[1])
               /\ q[i].at \in Nat
          BY <2>4, <3>1
        <4>3. s.at \in Nat  BY <1>0 DEF Pos
        <4> QED  BY <4>1, <4>2, <4>3
      <3> QED  BY <3>2, <3>3
    <2>6. QueueOK(r, s.at, e)
      <3>1. s.at \in Int  BY <1>0 DEF Pos
      <3> QED  BY <2>2, <2>5, <3>1, BeyondOK
    <2>7. SegOK(t, e) /\ t.at = s.at /\ t.fin = s.fin /\ (r = <<>> => t = s)
           /\ \A i \in 1..Len(r) : After(t) <= r[i].at
      BY <1>2, <2>6, CutIs
    <2>8. r \in Seq(Seg) /\ Len(r) = Len(q) - k /\ Len(r) \in Nat  BY <2>2, <2>3, BeyondIs
    <2>9. f \in BOOLEAN  BY DEF HasFin
    <2> HIDE DEF r, f, t
    <2>10. t \in Seg /\ t.len \in Nat /\ After(t) \in Pos /\ After(t) = t.at + t.len  BY <1>2, <2>7, SegIs
    <2>11. u \in Seg /\ u.seq = t.seq /\ u.at = t.at /\ u.len = t.len /\ u.fin = f
      BY <2>9, <2>10 DEF Seg
    <2> HIDE DEF u
    <2>12. SegOK(u, e) /\ (\A i \in 1..Len(r) : After(u) <= r[i].at)
      <3>1. CASE f
        <4>1. k = Len(q) /\ k >= 1 /\ q[k].fin  BY <2>2, <3>1, HasFinIs DEF f
        <4>2. k \in 1..Len(q) /\ k \in 1..k  BY <2>3, <4>1
        <4>3. q[k].at + q[k].len = N + 1 /\ After(q[k]) = N + 2 /\ After(q[k]) <= e
          BY <2>3, <4>1, <4>2, SegIs
        <4>4. N + 1 <= s.at + s.len  BY <2>2, <4>2, <4>3
        <4>5. r = <<>> /\ Len(r) = 0  BY <2>8, <4>1
        <4>6. t = s  BY <2>7, <4>5
        <4>7. s.at + s.len <= N + 1 /\ s.seq = Seqno(s.at)  BY DEF SegOK
        <4>8. TcpLen(u) = s.len + 1 /\ After(u) = s.at + (s.len + 1)
          BY <1>0, <2>11, <3>1, <4>6 DEF TcpLen, After
        <4>9. s.at + s.len = N + 1 /\ s.at \in Nat /\ N \in Nat  BY <1>0, <4>4, <4>7, ConstIs DEF Pos
        <4>10. After(u) = N + 2  BY <1>0, <4>8, <4>9
        <4>11. SegOK(u, e)
          BY <1>0, <2>11, <4>3, <4>6, <4>7, <4>8, <4>9, <4>10 DEF SegOK
        <4> QED  BY <4>5, <4>11
      <3>2. CASE ~f
        <4>1. u = t  BY <1>2, <2>7, <2>9, <2>10, <2>11, <3>2 DEF Seg
        <4> QED  BY <2>7, <4>1
      <3> QED  BY <3>1, <3>2
    <2>13. After(u) \in Pos /\ u.at = s.at /\ u.at < After(u)  BY <2>7, <2>11, <2>12, SegIs
    <2>14. QueueOK(<<u>>, s.at - 1, e) /\ Len(<<u>>) = 1 /\ <<u>>[1] = u
      <3>1. s.at - 1 < u.at  BY <1>0, <2>13 DEF Pos
      <3> QED  BY <2>12, <3>1, OneOK
    <2>15. QueueOK(r, After(u) - 1, e)
      <3>1. ASSUME NEW i \in 1..Len(r) PROVE After(u) - 1 < r[i].at
        <4>1. r[i].at \in Pos  BY <2>6, QueueIs, SegIs
        <4> QED  BY <2>12, <2>13, <4>1 DEF Pos
      <3> QED  BY <2>6, <3>1 DEF QueueOK
    <2>16. s.at - 1 \in Int /\ After(u) - 1 \in Int /\ s.at - 1 <= After(u) - 1
            /\ After(u) <= (After(u) - 1) + 1
      BY <1>0, <2>13 DEF Pos
    <2>17. \A i \in 1..Len(<<u>>) : After(<<u>>[i]) <= (After(u) - 1) + 1  BY <2>14, <2>16
    <2>18. QueueOK(<<u>> \o r, s.at - 1, e)  BY <2>14, <2>15, <2>16, <2>17, JoinOK
    <2> QED  BY <2>1, <2>18 DEF u, t, r, f
  <1> QED  BY <1>0, <1>1, <1>2

(* The segments before a new one are the first ones, and are counted. *)
LEMMA BeforeIs ==
  ASSUME NEW q, NEW a, NEW e \in Pos, QueueOK(q, a, e), NEW s, SegOK(s, e)
  PROVE  LET b == Cardinality({i \in DOMAIN q : SeqLT(q[i].seq, s.seq)})
         IN  /\ b \in 0..Len(q)
             /\ \A i \in 1..b : q[i].at < s.at
             /\ \A i \in (b + 1)..Len(q) : s.at <= q[i].at
  <1> DEFINE S == {i \in 1..Len(q) : q[i].at < s.at}
  <1>0. Len(q) \in Nat /\ DOMAIN q = 1..Len(q) /\ \A i \in 1..Len(q) : SegOK(q[i], e)  BY QueueIs
  <1>1. s.at \in Pos /\ s.seq = Seqno(s.at)  BY SegIs
  <1>2. \A i \in 1..Len(q) : q[i].at \in Pos /\ q[i].seq = Seqno(q[i].at)
                              /\ After(q[i]) \in Pos /\ q[i].at < After(q[i])
    BY <1>0, SegIs
  <1>3. \A i \in 1..Len(q) : SeqLT(q[i].seq, s.seq) <=> q[i].at < s.at  BY <1>1, <1>2, PosOrder
  <1>4. {i \in DOMAIN q : SeqLT(q[i].seq, s.seq)} = S  BY <1>0, <1>3
  <1>5. ASSUME NEW i \in S, NEW j \in 1..Len(q), j < i PROVE j \in S
    <2>1. i \in 1..Len(q) /\ q[i].at < s.at  OBVIOUS
    <2>2. After(q[j]) <= q[i].at  BY <1>5, <2>1, QueueIs
    <2>3. q[j].at < s.at  BY <1>1, <1>2, <2>1, <2>2 DEF Pos
    <2> QED  BY <2>3
  <1>6. S \in SUBSET (1..Len(q))  OBVIOUS
  <1> HIDE DEF S
  <1>7. Cardinality(S) \in 0..Len(q) /\ S = 1..Cardinality(S)  BY <1>0, <1>5, <1>6, PrefixCount
  <1>8. \A i \in 1..Cardinality(S) : q[i].at < s.at  BY <1>7 DEF S
  <1>9. ASSUME NEW i \in (Cardinality(S) + 1)..Len(q) PROVE s.at <= q[i].at
    <2>1. i \in 1..Len(q) /\ i \notin 1..Cardinality(S)  BY <1>0, <1>7
    <2>2. ~(q[i].at < s.at)  BY <1>7, <2>1 DEF S
    <2> QED  BY <1>1, <1>2, <2>1, <2>2 DEF Pos
  <1> QED  BY <1>4, <1>7, <1>8, <1>9

(* The segments before a new one, the last of them cut where it begins. *)
LEMMA PrevOK ==
  ASSUME NEW q, NEW a \in Int, NEW e \in Pos, QueueOK(q, a, e), NEW s, SegOK(s, e),
         NEW b \in 1..Len(q), ~q[b].fin, q[b].at < s.at
  PROVE  LET prev == UpTo(q, b - 1) \o <<TrimEnd(q[b], s)>>
         IN  QueueOK(prev, a, e) /\ Len(prev) = b /\ \A i \in 1..b : After(prev[i]) <= s.at
  <1> DEFINE w == UpTo(q, b - 1)
             t == TrimEnd(q[b], s)
             prev == w \o <<t>>
  <1>0. q \in Seq(Seg) /\ Len(q) \in Nat /\ SegOK(q[b], e) /\ a < q[b].at  BY QueueIs
  <1>1. s.at \in Pos /\ s.seq = Seqno(s.at)  BY SegIs
  <1>2. q[b] \in Seg /\ q[b].at \in Pos /\ q[b].len \in Nat /\ q[b].fin \in BOOLEAN /\ q[b].at >= 1
         /\ After(q[b]) = q[b].at + q[b].len /\ q[b].at + q[b].len \in Pos /\ After(q[b]) <= e
         /\ q[b].seq = Seqno(q[b].at) /\ End(q[b]) = Seqno(q[b].at + q[b].len)
    BY <1>0, SegIs
  <1>3. SeqLT(s.seq, End(q[b])) <=> s.at < q[b].at + q[b].len  BY <1>1, <1>2, PosOrder
  <1>4. Diff(s.seq, q[b].seq) = s.at - q[b].at
    <2>1. q[b].at <= s.at  BY <1>1, <1>2 DEF Pos
    <2> QED  BY <1>1, <1>2, <2>1, PosOrder
  <1>5. SegOK(t, e) /\ t.at = q[b].at /\ After(t) <= s.at
    <2>1. CASE s.at < q[b].at + q[b].len
      <3>1. t = [q[b] EXCEPT !.len = s.at - q[b].at]  BY <1>3, <1>4, <2>1 DEF TrimEnd
      <3> HIDE DEF t
      <3>2. s.at - q[b].at \in Nat /\ s.at - q[b].at >= 1  BY <1>1, <1>2 DEF Pos
      <3>3. t \in Seg /\ t.at = q[b].at /\ t.fin = q[b].fin /\ t.seq = q[b].seq /\ t.len = s.at - q[b].at
        BY <1>2, <3>1, <3>2 DEF Seg
      <3>4. TcpLen(t) = s.at - q[b].at /\ After(t) = s.at
        BY <1>1, <1>2, <3>2, <3>3 DEF TcpLen, After, Pos
      <3>5. s.at <= N + 1 /\ q[b].at + (s.at - q[b].at) = s.at /\ s.at <= e /\ N \in Nat
        BY <1>1, <1>2, <2>1, SegIs, ConstIs DEF Pos
      <3>6. SegOK(t, e)  BY <1>1, <1>2, <3>2, <3>3, <3>4, <3>5 DEF SegOK
      <3> QED  BY <1>1, <3>3, <3>4, <3>6 DEF t, Pos
    <2>2. CASE ~(s.at < q[b].at + q[b].len)
      <3>1. t = q[b]  BY <1>3, <2>2 DEF TrimEnd
      <3> QED  BY <1>0, <1>1, <1>2, <2>2, <3>1 DEF Pos
    <2> QED  BY <2>1, <2>2
  <1>6. b - 1 \in 0..Len(q)  BY <1>0
  <1>7. QueueOK(w, a, e) /\ Len(w) = b - 1 /\ \A i \in 1..(b - 1) : w[i] = q[i]
    BY <1>0, <1>6, UpToOK, UpToIs
  <1> HIDE DEF w, t
  <1>8. \A i \in 1..(b - 1) : After(w[i]) <= q[b].at
    <2> TAKE i \in 1..(b - 1)
    <2>1. i \in 1..Len(q) /\ i < b  BY <1>0
    <2> QED  BY <1>7, <2>1, QueueIs
  <1>9. q[b].at - 1 \in Int /\ q[b].at - 1 < t.at /\ a <= q[b].at - 1 /\ (q[b].at - 1) + 1 = q[b].at
    BY <1>0, <1>2, <1>5 DEF Pos
  <1>10. QueueOK(<<t>>, q[b].at - 1, e) /\ Len(<<t>>) = 1 /\ <<t>>[1] = t  BY <1>5, <1>9, OneOK
  <1>11. \A i \in 1..Len(w) : After(w[i]) <= (q[b].at - 1) + 1  BY <1>7, <1>8, <1>9
  <1>12. QueueOK(prev, a, e)  BY <1>7, <1>9, <1>10, <1>11, JoinOK
  <1>13. t \in Seg /\ w \in Seq(Seg) /\ <<t>> \in Seq(Seg)  BY <1>5, <1>7, SegIs, QueueIs
  <1>14. Len(prev) = b
    BY <1>0, <1>7, <1>10, <1>13, ConcatProperties
  <1> HIDE DEF prev
  <1>15. ASSUME NEW i \in 1..b PROVE After(prev[i]) <= s.at
    <2>1. Len(w) + Len(<<t>>) = b  BY <1>0, <1>7, <1>10
    <2>2. prev[i] = IF i <= Len(w) THEN w[i] ELSE <<t>>[i - Len(w)]
      BY <1>13, <2>1, ConcatProperties DEF prev
    <2>3. CASE i <= b - 1
      <3>1. prev[i] = w[i] /\ i \in 1..(b - 1) /\ w[i] = q[i] /\ i \in 1..Len(q)
        BY <1>0, <1>7, <2>2, <2>3
      <3>2. After(w[i]) \in Pos  BY <3>1, QueueIs, SegIs
      <3>3. After(w[i]) <= q[b].at  BY <1>8, <3>1
      <3>4. After(w[i]) <= s.at  BY <1>1, <1>2, <3>2, <3>3 DEF Pos
      <3> QED  BY <3>1, <3>4
    <2>4. CASE i = b
      <3>1. prev[i] = t  BY <1>0, <1>7, <1>10, <2>2, <2>4
      <3> QED  BY <1>5, <3>1
    <2> QED  BY <1>0, <2>3, <2>4
  <1> QED  BY <1>12, <1>14, <1>15 DEF prev, w, t

(* tcp_receive puts a segment into the out-of-sequence queue and keeps it one
   (tcp_in.c:1627-1843). *)
LEMMA OutOfSequenceOK ==
  ASSUME NEW p, NEW n, NEW e \in Pos, CoreOK(p, n, e), NEW s, SegOK(s, e), n < s.at
  PROVE  QueueOK(OutOfSequence(p, s), n, e)
  <1> DEFINE q == p.ooseq
             b == Cardinality({i \in DOMAIN q : SeqLT(q[i].seq, s.seq)})
             prev == UpTo(q, b - 1) \o <<TrimEnd(q[b], s)>>
             same == b < Len(q) /\ q[b + 1].seq = s.seq
             o == OutOfSequence(p, s)
             r == Beyond(q, b)
  <1>0. QueueOK(q, n, e) /\ n \in Nat /\ p.rcv_nxt = Seqno(n) /\ p.rcv_wnd \in Nat
         /\ e <= n + p.rcv_wnd /\ n + p.rcv_wnd \in Pos
    BY ConstIs DEF CoreOK, Pcb, EdgeOK, Pos
  <1>1. q \in Seq(Seg) /\ Len(q) \in Nat /\ \A i \in 1..Len(q) : SegOK(q[i], e) /\ n < q[i].at
    BY <1>0, QueueIs
  <1>2. s \in Seg /\ s.at \in Pos /\ s.seq = Seqno(s.at) /\ s.len \in Nat /\ After(s) \in Pos
         /\ After(s) <= e /\ Next1(s) = Seqno(After(s)) /\ s.at < After(s)
    BY SegIs
  <1>3. b \in 0..Len(q) /\ (\A i \in 1..b : q[i].at < s.at) /\ \A i \in (b + 1)..Len(q) : s.at <= q[i].at
    BY <1>0, BeforeIs
  <1>4. o = CASE q = <<>> -> <<s>>
              [] same /\ s.len <= q[b + 1].len -> q
              [] same /\ s.len > q[b + 1].len -> UpTo(q, b) \o OosInsert(s, r)
              [] q # <<>> /\ ~same /\ b = 0 -> OosInsert(s, q)
              [] ~same /\ b \in 1..(Len(q) - 1) -> prev \o OosInsert(s, r)
              [] ~same /\ b > 0 /\ b = Len(q) -> IF q[b].fin THEN q ELSE Append(prev, FitWindow(p, s))
    BY DEF OutOfSequence
  <1>5. \A i \in 1..Len(q) : q[i].at \in Nat /\ q[i].len \in Nat /\ After(q[i]) \in Nat
                              /\ q[i].at < After(q[i]) /\ q[i].seq = Seqno(q[i].at)
    BY <1>1, SegIs DEF Pos
  <1>6. s.at \in Nat /\ s.at - 1 \in Int /\ n <= s.at - 1 /\ s.at - 1 < s.at /\ n \in Int
         /\ (s.at - 1) + 1 = s.at
    BY <1>0, <1>2 DEF Pos
  <1> HIDE DEF q, b, o
  <1>7. same <=> b < Len(q) /\ q[b + 1].at = s.at
    <2>1. ASSUME b < Len(q) PROVE q[b + 1].seq = s.seq <=> q[b + 1].at = s.at
      <3>1. b + 1 \in 1..Len(q)  BY <1>1, <1>3, <2>1
      <3>2. q[b + 1].at \in Pos /\ q[b + 1].seq = Seqno(q[b + 1].at)  BY <1>1, <3>1, SegIs
      <3> QED  BY <1>2, <3>2, PosOrder
    <2> QED  BY <2>1
  <1>8. QueueOK(r, s.at - 1, e)
    <2>1. \A i \in (b + 1)..Len(q) : s.at - 1 < q[i].at
      <3> TAKE i \in (b + 1)..Len(q)
      <3>1. i \in 1..Len(q)  BY <1>1, <1>3
      <3> QED  BY <1>3, <1>5, <1>6, <3>1
    <2> QED  BY <1>0, <1>3, <1>6, <2>1, BeyondOK
  <1>9. Len(r) = Len(q) - b /\ (b < Len(q) => r[1] = q[b + 1])
    BY <1>1, <1>3, BeyondIs
  <1>10. CASE q = <<>>
    <2>1. o = <<s>>  BY <1>3, <1>4, <1>10
    <2> QED  BY <2>1, OneOK DEF o
  <1>11. CASE q # <<>> /\ same /\ s.len <= q[b + 1].len
    <2>1. b + 1 \in 1..Len(q)  BY <1>1, <1>3, <1>11
    <2>2. ~(s.len > q[b + 1].len)  BY <1>2, <1>5, <1>11, <2>1
    <2>3. o = q  BY <1>4, <1>11, <2>2
    <2> QED  BY <1>0, <2>3 DEF o
  <1>12. CASE q # <<>> /\ same /\ s.len > q[b + 1].len
    <2>1. b + 1 \in 1..Len(q) /\ b < Len(q)  BY <1>1, <1>3, <1>12
    <2>2. ~(s.len <= q[b + 1].len)  BY <1>2, <1>5, <1>12, <2>1
    <2> DEFINE w == UpTo(q, b)
               v == OosInsert(s, r)
    <2>3. o = w \o v  BY <1>4, <1>12, <2>2
    <2>4. QueueOK(v, s.at - 1, e)
      <3>1. r[1].len < s.len  BY <1>2, <1>5, <1>9, <1>12, <2>1
      <3> QED  BY <1>8, <3>1, OosInsertOK
    <2>5. QueueOK(w, n, e) /\ Len(w) = b /\ \A i \in 1..b : w[i] = q[i]
      BY <1>0, <1>1, <1>3, UpToOK, UpToIs
    <2> HIDE DEF w, v
    <2>6. ASSUME NEW i \in 1..Len(w) PROVE After(w[i]) <= (s.at - 1) + 1
      <3>1. i \in 1..b /\ i \in 1..Len(q) /\ i < b + 1  BY <1>1, <1>3, <2>5
      <3>2. After(q[i]) <= q[b + 1].at  BY <1>0, <2>1, <3>1, QueueIs
      <3>3. q[b + 1].at = s.at  BY <1>7, <1>12
      <3> QED  BY <1>6, <2>5, <3>1, <3>2, <3>3
    <2>7. QueueOK(w \o v, n, e)  BY <1>6, <2>4, <2>5, <2>6, JoinOK
    <2> QED  BY <2>3, <2>7 DEF o
  <1>13. CASE q # <<>> /\ ~same /\ b = 0
    <2>1. o = OosInsert(s, q)  BY <1>4, <1>13
    <2>2. Len(q) >= 1 /\ 1 \in 1..Len(q)  BY <1>1, <1>13
    <2>3. q[1].at # s.at  BY <1>7, <1>13, <2>2
    <2>4. ASSUME NEW i \in 1..Len(q) PROVE s.at - 1 < q[i].at
      BY <1>3, <1>5, <1>6, <1>13
    <2>5. QueueOK(q, s.at - 1, e)  BY <1>0, <2>4 DEF QueueOK
    <2>6. QueueOK(o, s.at - 1, e)  BY <2>1, <2>3, <2>5, OosInsertOK
    <2>7. QueueOK(o, n, e)
      <3>1. ASSUME NEW i \in 1..Len(o) PROVE n < o[i].at
        <4>1. SegOK(o[i], e) /\ s.at - 1 < o[i].at  BY <2>6, QueueIs
        <4>2. o[i].at \in Pos  BY <4>1, SegIs
        <4> QED  BY <1>6, <4>1, <4>2 DEF Pos
      <3> QED  BY <2>6, <3>1 DEF QueueOK
    <2> QED  BY <2>7 DEF o
  <1>14. CASE q # <<>> /\ ~same /\ b \in 1..(Len(q) - 1)
    <2>1. b \in 1..Len(q) /\ b # 0 /\ b # Len(q) /\ b < Len(q)  BY <1>1, <1>14
    <2> DEFINE v == OosInsert(s, r)
    <2>2. o = prev \o v  BY <1>4, <1>14, <2>1
    <2>3. ~q[b].fin  BY <1>0, <2>1, FinLast
    <2>4. q[b].at < s.at  BY <1>3, <2>1
    <2>5. QueueOK(prev, n, e) /\ Len(prev) = b /\ \A i \in 1..b : After(prev[i]) <= s.at
      BY <1>0, <1>6, <2>1, <2>3, <2>4, PrevOK
    <2>6. r[1].at # s.at  BY <1>7, <1>9, <1>14, <2>1
    <2>7. QueueOK(v, s.at - 1, e)  BY <1>8, <2>6, OosInsertOK
    <2> HIDE DEF prev, v
    <2>8. \A i \in 1..Len(prev) : After(prev[i]) <= (s.at - 1) + 1  BY <1>6, <2>5
    <2>9. QueueOK(prev \o v, n, e)  BY <1>6, <2>5, <2>7, <2>8, JoinOK
    <2> QED  BY <2>2, <2>9 DEF o
  <1>15. CASE q # <<>> /\ ~same /\ b > 0 /\ b = Len(q)
    <2>1. b \in 1..Len(q) /\ b # 0 /\ b \notin 1..(Len(q) - 1)  BY <1>1, <1>15
    <2>2. o = IF q[b].fin THEN q ELSE Append(prev, FitWindow(p, s))  BY <1>4, <1>15, <2>1
    <2>3. CASE q[b].fin  BY <1>0, <2>2, <2>3 DEF o
    <2>4. CASE ~q[b].fin
      <3>1. q[b].at < s.at  BY <1>3, <2>1
      <3>2. QueueOK(prev, n, e) /\ Len(prev) = b /\ \A i \in 1..b : After(prev[i]) <= s.at
        BY <1>0, <1>6, <2>1, <2>4, <3>1, PrevOK
      <3>3. Plus(p.rcv_nxt, p.rcv_wnd) = Seqno(n + p.rcv_wnd)
        <4>1. n \in Int /\ p.rcv_wnd \in Int  BY <1>0
        <4> QED  BY <1>0, <4>1, SeqnoPlus
      <3>4. ~(n + p.rcv_wnd < After(s))  BY <1>0, <1>2 DEF Pos
      <3>5. ~SeqLT(Plus(p.rcv_nxt, p.rcv_wnd), Next1(s))  BY <1>0, <1>2, <3>3, <3>4, PosOrder
      <3>6. FitWindow(p, s) = s  BY <3>5 DEF FitWindow
      <3> HIDE DEF prev
      <3>7. prev \in Seq(Seg)  BY <3>2, QueueIs
      <3>8. o = prev \o <<s>>  BY <1>2, <2>2, <2>4, <3>6, <3>7, AppendIsConcat
      <3>9. QueueOK(<<s>>, s.at - 1, e)  BY <1>6, OneOK
      <3>10. \A i \in 1..Len(prev) : After(prev[i]) <= (s.at - 1) + 1  BY <1>6, <3>2
      <3>11. QueueOK(prev \o <<s>>, n, e)  BY <1>6, <3>2, <3>9, <3>10, JoinOK
      <3> QED  BY <3>8, <3>11 DEF o
    <2> QED  BY <2>3, <2>4
  <1>16. \/ q = <<>>
         \/ q # <<>> /\ same /\ s.len <= q[b + 1].len
         \/ q # <<>> /\ same /\ s.len > q[b + 1].len
         \/ q # <<>> /\ ~same /\ b = 0
         \/ q # <<>> /\ ~same /\ b \in 1..(Len(q) - 1)
         \/ q # <<>> /\ ~same /\ b > 0 /\ b = Len(q)
    <2>1. CASE same
      <3>1. b + 1 \in 1..Len(q)  BY <1>1, <1>3, <2>1
      <3> QED  BY <1>2, <1>5, <2>1, <3>1
    <2>2. CASE ~same
      <3>1. b = 0 \/ b \in 1..(Len(q) - 1) \/ (b > 0 /\ b = Len(q))  BY <1>1, <1>3
      <3> HIDE DEF same
      <3> QED  BY <2>2, <3>1
    <2> QED  BY <2>1, <2>2
  <1> QED  BY <1>10, <1>11, <1>12, <1>13, <1>14, <1>15, <1>16

-----------------------------------------------------------------------------
(***************************************************************************)
(* The bytes of segments that follow on each other.                        *)
(***************************************************************************)
(* A run of bytes. *)
LEMMA RunIs ==
  ASSUME NEW a \in Nat, NEW k \in Nat, a >= 1
  PROVE  /\ Run(a, k) \in Seq(Nat) /\ Len(Run(a, k)) = k
         /\ \A i \in 1..k : Run(a, k)[i] = a + i - 1
  <1>1. \A i \in 1..k : a + i - 1 \in Nat  OBVIOUS
  <1>2. Run(a, k) \in [1..k -> Nat]  BY <1>1 DEF Run
  <1>3. Run(a, k) \in Seq(Nat) /\ Len(Run(a, k)) = k  BY <1>2
  <1> QED  BY <1>3 DEF Run

(* Two runs, the second where the first ends, are one. *)
LEMMA RunJoin ==
  ASSUME NEW a \in Nat, NEW k \in Nat, NEW l \in Nat, a >= 1
  PROVE  Run(a, k) \o Run(a + k, l) = Run(a, k + l)
  <1> DEFINE x == Run(a, k)
             y == Run(a + k, l)
             z == Run(a, k + l)
             c == x \o y
  <1>0. a + k \in Nat /\ a + k >= 1 /\ k + l \in Nat  OBVIOUS
  <1>1. x \in Seq(Nat) /\ Len(x) = k /\ \A i \in 1..k : x[i] = a + i - 1  BY RunIs
  <1>2. y \in Seq(Nat) /\ Len(y) = l /\ \A i \in 1..l : y[i] = a + k + i - 1  BY <1>0, RunIs
  <1>3. z \in Seq(Nat) /\ Len(z) = k + l /\ \A i \in 1..(k + l) : z[i] = a + i - 1  BY <1>0, RunIs
  <1> HIDE DEF x, y, z
  <1>4. c \in Seq(Nat) /\ Len(c) = Len(x) + Len(y)
         /\ \A i \in 1..(Len(x) + Len(y)) : c[i] = IF i <= Len(x) THEN x[i] ELSE y[i - Len(x)]
    BY <1>1, <1>2, ConcatProperties
  <1> HIDE DEF c
  <1>5. Len(c) = Len(z)  BY <1>1, <1>2, <1>3, <1>4
  <1>6. ASSUME NEW i \in 1..Len(c) PROVE c[i] = z[i]
    <2>0. i \in 1..(k + l) /\ i \in 1..(Len(x) + Len(y)) /\ z[i] = a + i - 1  BY <1>3, <1>4, <1>5
    <2>1. CASE i <= k
      <3>1. c[i] = x[i] /\ i \in 1..k  BY <1>1, <1>4, <2>0, <2>1
      <3> QED  BY <1>1, <2>0, <3>1
    <2>2. CASE ~(i <= k)
      <3>1. c[i] = y[i - k] /\ i - k \in 1..l /\ a + k + (i - k) - 1 = a + i - 1
        BY <1>1, <1>4, <2>0, <2>2
      <3> QED  BY <1>2, <2>0, <3>1
    <2> QED  BY <2>1, <2>2
  <1>7. c = z  BY <1>3, <1>4, <1>5, <1>6, SeqEqual
  <1> QED  BY <1>7 DEF c, x, y, z

(* The data of segments without a gap is one run: what pbuf_cat makes of
   them (tcp_in.c:1563-1571). *)
LEMMA FlattenIs ==
  ASSUME NEW w \in Seq(Seg), Len(w) >= 1, w[1].at >= 1,
         \A i \in 1..Len(w) : w[1].at <= w[i].at,
         \A i \in 2..Len(w) : w[i].at = w[i - 1].at + w[i - 1].len
  PROVE  FlattenSeq([i \in DOMAIN w |-> Bytes(w[i])])
           = Run(w[1].at, (w[Len(w)].at + w[Len(w)].len) - w[1].at)
  <1> DEFINE L == Len(w)
             a == w[1].at
             ss == [i \in DOMAIN w |-> Bytes(w[i])]
             upto(i) == (w[i].at + w[i].len) - a
             step(f, i) == IF i = 1 THEN ss[i] ELSE f[i - 1] \o ss[i]
             body(f) == [i \in 1..L |-> step(f, i)]
             g == [i \in 1..L |-> Run(a, upto(i))]
  <1>0. L \in Nat /\ L >= 1 /\ DOMAIN w = 1..L /\ \A i \in 1..L : w[i] \in Seg
    BY LenProperties, ElementOfSeq
  <1>1. \A i \in 1..L : w[i].at \in Nat /\ w[i].len \in Nat /\ a \in Nat /\ a >= 1 /\ a <= w[i].at
                         /\ upto(i) \in Nat
    BY <1>0 DEF Seg
  <1>2. \A i \in 1..L : ss[i] = Run(w[i].at, w[i].len)  BY <1>0 DEF Bytes, Run
  <1>3. Len(ss) = L
    <2>0. \A i \in 1..L : w[i].at \in Nat /\ w[i].len \in Nat /\ w[i].at >= 1  BY <1>1
    <2>1. \A i \in 1..L : ss[i] \in Seq(Nat)
      <3> HIDE DEF ss
      <3> QED  BY <1>2, <2>0, RunIs
    <2>2. ss \in [1..L -> Seq(Nat)]  BY <1>0, <2>1
    <2> QED  BY <1>0, <2>2
  <1> HIDE DEF ss
  <1>4. ASSUME NEW i \in 1..L, NEW f, i > 1 => f[i - 1] = Run(a, upto(i - 1))
        PROVE  step(f, i) = Run(a, upto(i))
    <2>1. CASE i = 1
      <3>1. upto(1) = w[1].len  BY <1>0, <1>1, <2>1
      <3> QED  BY <1>2, <2>1, <3>1
    <2>2. CASE i # 1
      <3>1. i \in 2..L /\ i - 1 \in 1..L /\ i > 1  BY <1>0, <2>2
      <3>2. w[i].at = w[i - 1].at + w[i - 1].len  BY <3>1
      <3>3. w[i].at = a + upto(i - 1) /\ upto(i) = upto(i - 1) + w[i].len
        <4>1. w[i].at \in Nat /\ w[i].len \in Nat /\ w[i - 1].at \in Nat /\ w[i - 1].len \in Nat
               /\ a \in Nat
          BY <1>1, <3>1
        <4> QED  BY <3>2, <4>1
      <3>4. a \in Nat /\ a >= 1 /\ upto(i - 1) \in Nat /\ w[i].len \in Nat  BY <1>1, <3>1
      <3>5. step(f, i) = Run(a, upto(i - 1)) \o Run(w[i].at, w[i].len)  BY <1>2, <1>4, <2>2, <3>1
      <3> HIDE DEF upto, step, a
      <3>6. Run(a, upto(i - 1)) \o Run(a + upto(i - 1), w[i].len) = Run(a, upto(i - 1) + w[i].len)
        BY <3>4, RunJoin
      <3> QED  BY <3>3, <3>5, <3>6
    <2> QED  BY <2>1, <2>2
  <1> HIDE DEF step, upto, a
  <1>5. g = body(g)
    <2>1. ASSUME NEW i \in 1..L PROVE g[i] = step(g, i)
      <3>1. i > 1 => i - 1 \in 1..L  BY <1>0
      <3>2. step(g, i) = Run(a, upto(i))  BY <1>4, <3>1
      <3> QED  BY <3>2
    <2> QED  BY <2>1
  <1> DEFINE flat == CHOOSE f : f = body(f)
  <1>6. flat = body(flat)
    <2> HIDE DEF body, g
    <2> QED  BY <1>5
  <1>7. FlattenSeq(ss) = flat[L]
    <2>1. Len(ss) # 0  BY <1>0, <1>3
    <2>2. FlattenSeq(ss) = (CHOOSE f : f = [i \in 1..Len(ss) |-> IF i = 1 THEN ss[i] ELSE f[i - 1] \o ss[i]])[Len(ss)]
      BY <2>1 DEF FlattenSeq
    <2> QED  BY <1>3, <2>2 DEF step
  <1> HIDE DEF flat
  <1>8. \A i \in 1..L : flat[i] = step(flat, i)  BY <1>6
  <1> DEFINE T == {i \in 1..L : flat[i] # Run(a, upto(i))}
  <1>9. T = {}
    <2> SUFFICES ASSUME T # {} PROVE FALSE  OBVIOUS
    <2>1. T \in SUBSET Nat  BY <1>0
    <2>2. PICK i \in T : \A j \in T : i <= j
      <3> HIDE DEF T
      <3> QED  BY <2>1, LeastNat
    <2>3. i \in 1..L /\ flat[i] # Run(a, upto(i))  BY <2>2
    <2>4. i > 1 => flat[i - 1] = Run(a, upto(i - 1))
      <3> SUFFICES ASSUME i > 1 PROVE flat[i - 1] = Run(a, upto(i - 1))  OBVIOUS
      <3>1. i - 1 \in 1..L /\ ~(i <= i - 1)  BY <1>0, <2>3
      <3>2. i - 1 \notin T
        <4> HIDE DEF T
        <4> QED  BY <2>2, <3>1
      <3> QED  BY <3>1, <3>2
    <2> QED  BY <1>4, <1>8, <2>3, <2>4
  <1>10. L \in 1..L  BY <1>0
  <1>11. flat[L] = Run(a, upto(L))  BY <1>9, <1>10
  <1>12. FlattenSeq(ss) = Run(a, upto(L))  BY <1>7, <1>11
  <1> QED  BY <1>12 DEF ss, a, upto

-----------------------------------------------------------------------------
(***************************************************************************)
(* The announced window.                                                   *)
(***************************************************************************)
(* The step that makes a new announcement worth while. *)
LEMMA AnnStepIs == AnnStep \in Nat /\ AnnStep <= Wnd
  <1> DEFINE S == {Wnd \div 2, Mss}
  <1>1. Wnd \div 2 \in Nat /\ Wnd \div 2 <= Wnd /\ Mss \in Nat
    <2>1. Wnd \in Nat /\ Mss \in Nat  BY ConstIs
    <2> QED  BY <2>1
  <1>2. S \in SUBSET Nat /\ S # {} /\ Wnd \div 2 \in S  BY <1>1
  <1>3. \E m \in S : \A k \in S : m <= k
    <2> HIDE DEF S
    <2> QED  BY <1>2, LeastNat
  <1>4. Min(S) \in S /\ \A k \in S : Min(S) <= k  BY <1>3 DEF Min
  <1>5. AnnStep = Min(S)  BY DEF AnnStep
  <1> HIDE DEF S
  <1>6. PICK h \in Nat : h = Wnd \div 2 /\ h <= Wnd  BY <1>1
  <1>7. AnnStep \in Nat /\ AnnStep <= h  BY <1>2, <1>4, <1>5, <1>6
  <1> QED  BY <1>6, <1>7, ConstIs

(* tcp_update_rcv_ann_wnd keeps the edge where it was or moves it on, within
   the window there is (tcp.c:929-957). *)
LEMMA AnnWndIs ==
  ASSUME NEW p, NEW n \in 1..(N + 2), NEW e \in Nat, p.rcv_nxt = Seqno(n), p.right_edge = Seqno(e),
         p.rcv_wnd \in 0..Wnd, n - 1 <= e, e <= n + p.rcv_wnd
  PROVE  AnnWnd(p) \in 0..Wnd /\ AnnWnd(p) <= p.rcv_wnd /\ e <= n + AnnWnd(p)
  <1>0. N \in Nat /\ Wnd \in Nat /\ WndSpace \in Nat /\ N + Wnd + 2 < WndSpace
         /\ AnnStep \in Nat /\ AnnStep <= Wnd
    BY ConstIs, AnnStepIs
  <1>1. n \in Int /\ e \in Int /\ p.rcv_wnd \in Int /\ AnnStep \in Int  BY <1>0
  <1>2. Plus(p.right_edge, AnnStep) = Seqno(e + AnnStep)  BY <1>1, SeqnoPlus
  <1>3. Plus(p.rcv_nxt, p.rcv_wnd) = Seqno(n + p.rcv_wnd)  BY <1>1, SeqnoPlus
  <1>4. e + AnnStep \in Int /\ n + p.rcv_wnd \in Int
         /\ (e + AnnStep) - (n + p.rcv_wnd) < WndSpace /\ (n + p.rcv_wnd) - (e + AnnStep) < WndSpace
    BY <1>0, <1>1
  <1>5. Worthwhile(p) <=> e + AnnStep <= n + p.rcv_wnd
    BY <1>2, <1>3, <1>4, SeqOrder DEF Worthwhile
  <1>6. n \in Pos /\ e \in Pos  BY <1>0 DEF Pos
  <1>7. SeqLT(p.right_edge, p.rcv_nxt) <=> e < n  BY <1>6, PosOrder
  <1>8. CASE Worthwhile(p)
    <2>1. AnnWnd(p) = p.rcv_wnd  BY <1>8 DEF AnnWnd
    <2> QED  BY <2>1
  <1>9. CASE ~Worthwhile(p) /\ e < n
    <2>1. AnnWnd(p) = 0  BY <1>7, <1>9 DEF AnnWnd
    <2> QED  BY <1>0, <1>9, <2>1
  <1>10. CASE ~Worthwhile(p) /\ ~(e < n)
    <2>1. Diff(p.right_edge, p.rcv_nxt) = e - n
      <3>1. n <= e  BY <1>10
      <3> QED  BY <1>6, <3>1, PosOrder
    <2>2. AnnWnd(p) = e - n  BY <1>7, <1>10, <2>1 DEF AnnWnd
    <2> QED  BY <1>0, <1>10, <2>2
  <1> QED  BY <1>8, <1>9, <1>10

(* A queue stays one when the edge moves on. *)
LEMMA QueueGrows ==
  ASSUME NEW q, NEW a, NEW e \in Pos, QueueOK(q, a, e), NEW f \in Pos, e <= f
  PROVE  QueueOK(q, a, f)
  <1>1. q \in Seq(Seg) /\ \A i \in 1..Len(q) : SegOK(q[i], e) /\ a < q[i].at  BY QueueIs
  <1>2. ASSUME NEW i \in 1..Len(q) PROVE SegOK(q[i], f)
    <2>1. After(q[i]) <= e /\ After(q[i]) \in Pos  BY <1>1, SegIs
    <2>2. After(q[i]) <= f  BY <2>1 DEF Pos
    <2> QED  BY <1>1, <2>2 DEF SegOK
  <1> QED  BY <1>1, <1>2 DEF QueueOK

(* What CoreOK says, in the form the proofs use. *)
LEMMA CoreIs ==
  ASSUME NEW p, NEW n, NEW e, CoreOK(p, n, e)
  PROVE  /\ p \in Pcb /\ n \in Pos /\ n >= 1 /\ n <= N + 2 /\ e \in Pos
         /\ p.rcv_wnd \in 0..Wnd /\ p.ann_wnd \in 0..Wnd /\ p.rcv_wnd \in Int /\ p.ann_wnd \in Int
         /\ p.ooseq \in Seq(Seg)
         /\ p.ack \subseteq {"delay", "now"} /\ p.state \in {"established", "close_wait"}
         /\ p.rcv_nxt = Seqno(n) /\ p.right_edge = Seqno(e)
         /\ n - 1 <= e /\ e <= n + p.rcv_wnd /\ e <= n + p.ann_wnd /\ p.ann_wnd <= p.rcv_wnd
         /\ n + p.rcv_wnd \in Pos /\ n + p.ann_wnd \in Pos
         /\ QueueOK(p.ooseq, n, e)
  <1>0. N \in Nat /\ Wnd \in Nat  BY ConstIs
  <1>1. p \in Pcb /\ n \in 1..(N + 2) /\ e \in Nat /\ QueueOK(p.ooseq, n, e)
         /\ p.rcv_nxt = Seqno(n) /\ p.right_edge = Seqno(e)
    BY DEF CoreOK
  <1>2. n - 1 <= e /\ e <= n + p.rcv_wnd /\ e <= n + p.ann_wnd /\ p.ann_wnd <= p.rcv_wnd
    BY DEF CoreOK, EdgeOK
  <1>3. p.rcv_wnd \in 0..Wnd /\ p.ann_wnd \in 0..Wnd /\ p.ooseq \in Seq(Seg)
         /\ p.ack \subseteq {"delay", "now"} /\ p.state \in {"established", "close_wait"}
    BY <1>1 DEF Pcb
  <1>4. n \in Pos /\ n >= 1 /\ n <= N + 2 /\ e \in Pos /\ p.rcv_wnd \in Int /\ p.ann_wnd \in Int
         /\ n + p.rcv_wnd \in Pos /\ n + p.ann_wnd \in Pos
    <2>1. n \in Pos /\ n >= 1 /\ n <= N + 2  BY <1>0, <1>1 DEF Pos
    <2>2. n \in Int /\ p.rcv_wnd \in Int /\ p.ann_wnd \in Int  BY <1>0, <1>1, <1>3
    <2>3. n + p.rcv_wnd \in Pos /\ n + p.ann_wnd \in Pos  BY <1>0, <1>1, <1>3 DEF Pos
    <2>4. e \in Pos  BY <1>0, <1>1, <1>2, <2>2, <2>3 DEF Pos
    <2> QED  BY <2>1, <2>2, <2>3, <2>4
  <1> QED  BY <1>1, <1>2, <1>3, <1>4

(* Fields that the invariant does not depend on. *)
LEMMA AckOK ==
  ASSUME NEW p, NEW n, NEW e, CoreOK(p, n, e), NEW A \in SUBSET {"delay", "now"}
  PROVE  /\ CoreOK([p EXCEPT !.ack = A], n, e)
         /\ [p EXCEPT !.ack = A].rcv_wnd = p.rcv_wnd /\ [p EXCEPT !.ack = A].state = p.state
         /\ [p EXCEPT !.ack = A].ann_wnd = p.ann_wnd
  <1> DEFINE r == [p EXCEPT !.ack = A]
  <1>1. p \in Pcb  BY CoreIs
  <1>2. r \in Pcb /\ r.rcv_nxt = p.rcv_nxt /\ r.rcv_wnd = p.rcv_wnd /\ r.ann_wnd = p.ann_wnd
         /\ r.right_edge = p.right_edge /\ r.ooseq = p.ooseq /\ r.state = p.state
    BY <1>1 DEF Pcb
  <1> HIDE DEF r
  <1>3. CoreOK(r, n, e)  BY <1>2 DEF CoreOK, EdgeOK
  <1> QED  BY <1>2, <1>3 DEF r

LEMMA HeardOK ==
  ASSUME NEW p, NEW n, NEW e, CoreOK(p, n, e), NEW h \in Heard
  PROVE  /\ CoreOK([p EXCEPT !.told = h], n, e)
         /\ [p EXCEPT !.told = h].rcv_wnd = p.rcv_wnd /\ [p EXCEPT !.told = h].state = p.state
         /\ [p EXCEPT !.told = h].ann_wnd = p.ann_wnd
  <1> DEFINE r == [p EXCEPT !.told = h]
  <1>1. p \in Pcb  BY CoreIs
  <1>2. r \in Pcb /\ r.rcv_nxt = p.rcv_nxt /\ r.rcv_wnd = p.rcv_wnd /\ r.ann_wnd = p.ann_wnd
         /\ r.right_edge = p.right_edge /\ r.ooseq = p.ooseq /\ r.state = p.state
    BY <1>1 DEF Pcb
  <1> HIDE DEF r
  <1>3. CoreOK(r, n, e)  BY <1>2 DEF CoreOK, EdgeOK
  <1> QED  BY <1>2, <1>3 DEF r

(* What an acknowledgement tells the peer. *)
LEMMA ToldOK ==
  ASSUME NEW p, NEW n, NEW e, CoreOK(p, n, e), NEW out
  PROVE  Told(p, out) \in Heard
  <1>1. p \in Pcb /\ p.ann_wnd \in Int  BY CoreIs
  <1>2. p.rcv_nxt \in Int /\ p.told \in Heard  BY <1>1 DEF Pcb
  <1>3. Plus(p.rcv_nxt, p.ann_wnd) \in Int
    <2>1. SeqSpace \in Nat /\ SeqSpace >= 1  BY ConstIs
    <2>2. PICK a, b \in Int : a = p.rcv_nxt /\ b = p.ann_wnd  BY <1>1, <1>2
    <2>3. (a + b) % SeqSpace \in Int  BY <2>1
    <2> QED  BY <2>2, <2>3 DEF Plus
  <1> QED  BY <1>2, <1>3 DEF Told, Heard

(* The window may grow. *)
LEMMA WndOK ==
  ASSUME NEW p, NEW n, NEW e, CoreOK(p, n, e), NEW w \in 0..Wnd, p.rcv_wnd <= w
  PROVE  LET r == [p EXCEPT !.rcv_wnd = w]
         IN  CoreOK(r, n, e) /\ r.rcv_wnd = w /\ r.state = p.state /\ r.ann_wnd = p.ann_wnd
  <1> DEFINE r == [p EXCEPT !.rcv_wnd = w]
  <1>1. p \in Pcb  BY CoreIs
  <1>2. r \in Pcb /\ r.rcv_nxt = p.rcv_nxt /\ r.rcv_wnd = w /\ r.ann_wnd = p.ann_wnd
         /\ r.right_edge = p.right_edge /\ r.ooseq = p.ooseq /\ r.state = p.state
    BY <1>1 DEF Pcb
  <1> HIDE DEF r
  <1>3. Wnd \in Nat /\ n \in Int /\ e \in Int /\ p.rcv_wnd \in Int /\ p.ann_wnd \in Int
    BY ConstIs, CoreIs DEF Pos
  <1>4. EdgeOK(p, n, e)  BY DEF CoreOK
  <1>5. EdgeOK(r, n, e)  BY <1>2, <1>3, <1>4 DEF EdgeOK
  <1>6. CoreOK(r, n, e)  BY <1>2, <1>5 DEF CoreOK
  <1> QED  BY <1>2, <1>6 DEF r

(* The edge moves on to the end of the announced window. *)
LEMMA EdgeMoves ==
  ASSUME NEW p, NEW n, NEW e, CoreOK(p, n, e)
  PROVE  LET r == [p EXCEPT !.right_edge = Plus(p.rcv_nxt, p.ann_wnd)]
         IN  /\ CoreOK(r, n, n + p.ann_wnd) /\ e <= n + p.ann_wnd
             /\ r.rcv_wnd = p.rcv_wnd /\ r.state = p.state /\ r.ack = p.ack
  <1> DEFINE x == Plus(p.rcv_nxt, p.ann_wnd)
             r == [p EXCEPT !.right_edge = x]
             f == n + p.ann_wnd
  <1>0. p \in Pcb /\ n \in Pos /\ e \in Pos /\ f \in Pos /\ e <= f /\ p.ann_wnd \in Int
         /\ p.rcv_nxt = Seqno(n) /\ p.ann_wnd <= p.rcv_wnd /\ QueueOK(p.ooseq, n, e)
         /\ p.rcv_wnd \in Int /\ p.ann_wnd \in 0..Wnd
    BY CoreIs
  <1>1. x = Seqno(f)
    <2>1. n \in Int  BY <1>0 DEF Pos
    <2> QED  BY <1>0, <2>1, SeqnoPlus
  <1>2. f \in Nat /\ n \in Int /\ e \in Int /\ Seqno(f) \in Int
    <2>1. f \in Nat /\ n \in Int /\ e \in Int /\ f \in Int  BY <1>0 DEF Pos
    <2>2. SeqSpace \in Nat  BY ConstIs
    <2>3. Seqno(f) \in 0..(SeqSpace - 1)  BY <2>1, SeqnoIs
    <2> QED  BY <2>1, <2>2, <2>3
  <1> HIDE DEF x
  <1>3. r \in Pcb /\ r.rcv_nxt = p.rcv_nxt /\ r.rcv_wnd = p.rcv_wnd /\ r.ann_wnd = p.ann_wnd
         /\ r.right_edge = x /\ r.ooseq = p.ooseq /\ r.state = p.state /\ r.ack = p.ack
    BY <1>0, <1>1, <1>2 DEF Pcb
  <1> HIDE DEF r
  <1>4. QueueOK(p.ooseq, n, f)  BY <1>0, QueueGrows
  <1>5. n - 1 <= f /\ f <= n + p.rcv_wnd  BY <1>0, <1>2
  <1>6. n \in 1..(N + 2)  BY DEF CoreOK
  <1>7. CoreOK(r, n, f)  BY <1>0, <1>1, <1>2, <1>3, <1>4, <1>5, <1>6 DEF CoreOK, EdgeOK
  <1> QED  BY <1>0, <1>3, <1>7 DEF r, x

(* tcp_send_empty_ack moves the edge on, or leaves it when there is no memory. *)
LEMMA EmptyAckOK ==
  ASSUME NEW p, NEW n, NEW e, CoreOK(p, n, e), NEW out \in Outcome
  PROVE  LET r == EmptyAck(p, out)
         IN  /\ \E f \in Pos : e <= f /\ CoreOK(r, n, f)
             /\ r.rcv_wnd = p.rcv_wnd /\ r.state = p.state
  <1> DEFINE r == EmptyAck(p, out)
             x == Plus(p.rcv_nxt, p.ann_wnd)
             A == IF out \in Sent THEN {} ELSE {"delay", "now"}
             h == Told(p, out)
             y == IF out = "no_memory" THEN p ELSE [p EXCEPT !.right_edge = x]
             z == [y EXCEPT !.ack = A]
  <1>0. p \in Pcb /\ e \in Pos /\ n + p.ann_wnd \in Pos /\ e <= n + p.ann_wnd /\ h \in Heard
    BY CoreIs, ToldOK
  <1>1. A \in SUBSET {"delay", "now"}  OBVIOUS
  <1>2. PICK f \in Pos : e <= f /\ CoreOK(y, n, f) /\ y.rcv_wnd = p.rcv_wnd /\ y.state = p.state
    <2>1. CASE out = "no_memory"
      <3>1. e <= e  BY <1>0 DEF Pos
      <3> QED  BY <1>0, <2>1, <3>1
    <2>2. CASE out # "no_memory"  BY <1>0, <2>2, EdgeMoves
    <2> QED  BY <2>1, <2>2
  <1>3. r = [z EXCEPT !.told = h]
    <2> HIDE DEF h, A, x
    <2>1. CASE out = "no_memory"  BY <1>0, <2>1 DEF EmptyAck, Pcb, h, A, x
    <2>2. CASE out # "no_memory"  BY <1>0, <2>2 DEF EmptyAck, Pcb, h, A, x
    <2> QED  BY <2>1, <2>2
  <1> HIDE DEF y, A, h
  <1>4. CoreOK(z, n, f) /\ z.rcv_wnd = y.rcv_wnd /\ z.state = y.state  BY <1>1, <1>2, AckOK
  <1> HIDE DEF z, r
  <1>5. CoreOK(r, n, f) /\ r.rcv_wnd = z.rcv_wnd /\ r.state = z.state  BY <1>0, <1>3, <1>4, HeardOK
  <1> QED  BY <1>2, <1>4, <1>5 DEF r

(* tcp_output *)
LEMMA OutputOK ==
  ASSUME NEW p, NEW n, NEW e, CoreOK(p, n, e), NEW out \in Outcome
  PROVE  LET r == Output(p, out)
         IN  /\ \E f \in Pos : e <= f /\ CoreOK(r, n, f)
             /\ r.rcv_wnd = p.rcv_wnd /\ r.state = p.state
  <1>1. e \in Pos /\ e <= e  BY CoreIs DEF Pos
  <1>2. CASE "now" \in p.ack
    <2>1. Output(p, out) = EmptyAck(p, out)  BY <1>2 DEF Output
    <2> QED  BY <2>1, EmptyAckOK
  <1>3. CASE "now" \notin p.ack
    <2>1. Output(p, out) = p  BY <1>3 DEF Output
    <2> QED  BY <1>1, <2>1
  <1> QED  BY <1>2, <1>3

(* tcp_update_rcv_ann_wnd *)
LEMMA UpdateAnnOK ==
  ASSUME NEW p \in Pcb, NEW n \in 1..(N + 2), NEW e \in Nat, p.rcv_nxt = Seqno(n),
         p.right_edge = Seqno(e), n - 1 <= e, e <= n + p.rcv_wnd, QueueOK(p.ooseq, n, e)
  PROVE  LET r == UpdateAnn(p)
         IN  CoreOK(r, n, e) /\ r.rcv_wnd = p.rcv_wnd /\ r.state = p.state /\ r.ack = p.ack
  <1> DEFINE w == AnnWnd(p)
             r == [p EXCEPT !.ann_wnd = w]
  <1>0. p.rcv_wnd \in 0..Wnd  BY DEF Pcb
  <1>1. w \in 0..Wnd /\ w <= p.rcv_wnd /\ e <= n + w  BY <1>0, AnnWndIs
  <1>2. UpdateAnn(p) = r  BY DEF UpdateAnn
  <1> HIDE DEF w
  <1>3. r \in Pcb /\ r.rcv_nxt = p.rcv_nxt /\ r.rcv_wnd = p.rcv_wnd /\ r.ann_wnd = w
         /\ r.right_edge = p.right_edge /\ r.ooseq = p.ooseq /\ r.state = p.state /\ r.ack = p.ack
    BY <1>1 DEF Pcb
  <1> HIDE DEF r
  <1>4. CoreOK(r, n, e)  BY <1>1, <1>3 DEF CoreOK, EdgeOK
  <1> QED  BY <1>2, <1>3, <1>4

-----------------------------------------------------------------------------
(***************************************************************************)
(* A segment that starts at rcv_nxt, and what of the queue goes up with    *)
(* it (tcp_in.c:1373-1487).                                                *)
(***************************************************************************)
(* The segment c takes over the FIN of what it covers, and is cut where the
   rest of the queue begins. *)
LEMMA AbsorbIs ==
  ASSUME NEW c, NEW e \in Pos, SegOK(c, e), NEW q, QueueOK(q, c.at, e)
  PROVE  LET b == Absorb(q, c)
         IN  /\ SegOK(b.seg, e) /\ b.seg.at = c.at
             /\ \E k \in 0..Len(q) : b.queue = Beyond(q, k)
             /\ QueueOK(b.queue, After(b.seg) - 1, e)
  <1> DEFINE k == IF c.fin THEN Len(q) ELSE Covered(q, Next1(c))
             r == Beyond(q, k)
             h == HasFin(UpTo(q, k))
             d == [c EXCEPT !.fin = @ \/ h]
             t == CutAt(d, r)
  <1>0. c \in Seg /\ c.at \in Pos /\ c.len \in Nat /\ c.fin \in BOOLEAN /\ After(c) \in Pos /\ c.at >= 1
         /\ Next1(c) = Seqno(After(c)) /\ After(c) <= e /\ (~c.fin => After(c) = c.at + c.len)
    BY SegIs
  <1>1. q \in Seq(Seg) /\ Len(q) \in Nat /\ \A i \in 1..Len(q) : SegOK(q[i], e) /\ c.at < q[i].at
    BY QueueIs
  <1>2. k \in 0..Len(q) /\ (~c.fin => \A i \in 1..k : q[i].at + q[i].len <= After(c))
    <2>1. CASE c.fin  BY <1>1, <2>1
    <2>2. CASE ~c.fin
      <3>1. k = Covered(q, Seqno(After(c)))  BY <1>0, <2>2
      <3> HIDE DEF k
      <3> QED  BY <1>0, <3>1, CoveredIs
    <2> QED  BY <1>0, <2>1, <2>2
  <1>3. Absorb(q, c) = [queue |-> r, seg |-> t]  BY DEF Absorb
  <1>4. h \in BOOLEAN  BY DEF HasFin
  <1>5. c.fin => k = Len(q)  OBVIOUS
  <1> HIDE DEF k
  <1>6. QueueOK(r, c.at, e) /\ r \in Seq(Seg) /\ Len(r) = Len(q) - k
    <2>1. c.at \in Int /\ \A i \in (k + 1)..Len(q) : c.at < q[i].at  BY <1>0, <1>1, <1>2 DEF Pos
    <2> QED  BY <1>1, <1>2, <2>1, BeyondOK, BeyondIs
  <1>7. h => k = Len(q) /\ k >= 1 /\ q[k].fin  BY <1>2, HasFinIs
  <1> HIDE DEF h, r
  <1>8. d \in Seg /\ d.seq = c.seq /\ d.at = c.at /\ d.len = c.len /\ d.fin = (c.fin \/ h)
    BY <1>0, <1>4 DEF Seg
  <1> HIDE DEF d
  <1>9. SegOK(d, e)
    <2>1. CASE h /\ ~c.fin
      <3>1. k \in 1..Len(q) /\ k \in 1..k  BY <1>1, <1>7, <2>1
      <3>2. q[k].at + q[k].len = N + 1 /\ After(q[k]) = N + 2 /\ After(q[k]) <= e
        BY <1>1, <1>7, <2>1, <3>1, SegIs
      <3>3. N + 1 <= c.at + c.len  BY <1>0, <1>2, <2>1, <3>1, <3>2
      <3>4. c.at + c.len <= N + 1 /\ c.seq = Seqno(c.at)  BY DEF SegOK
      <3>5. TcpLen(d) = c.len + 1 /\ After(d) = c.at + (c.len + 1)
        BY <1>0, <1>8, <2>1 DEF TcpLen, After
      <3>6. c.at + c.len = N + 1 /\ c.at \in Nat /\ N \in Nat  BY <1>0, <3>3, <3>4, ConstIs DEF Pos
      <3>7. After(d) = N + 2  BY <1>0, <3>5, <3>6
      <3> QED  BY <1>0, <1>8, <3>2, <3>4, <3>5, <3>6, <3>7 DEF SegOK
    <2>2. CASE ~(h /\ ~c.fin)
      <3>1. d = c  BY <1>0, <1>4, <1>8, <2>2 DEF Seg
      <3> QED  BY <3>1
    <2> QED  BY <2>1, <2>2
  <1>10. d.fin => r = <<>>
    <2> SUFFICES ASSUME d.fin PROVE r = <<>>  OBVIOUS
    <2>1. k = Len(q)  BY <1>5, <1>7, <1>8
    <2>2. Len(r) = 0  BY <1>1, <1>6, <2>1
    <2> QED  BY <1>6, <2>2
  <1>11. SegOK(t, e) /\ t.at = c.at /\ (\A i \in 1..Len(r) : After(t) <= r[i].at)
    BY <1>6, <1>8, <1>9, <1>10, CutIs
  <1> HIDE DEF t
  <1>12. QueueOK(r, After(t) - 1, e)
    <2>1. After(t) \in Pos  BY <1>11, SegIs
    <2>2. ASSUME NEW i \in 1..Len(r) PROVE After(t) - 1 < r[i].at
      <3>1. r[i].at \in Pos  BY <1>6, QueueIs, SegIs
      <3> QED  BY <1>11, <2>1, <3>1 DEF Pos
    <2> QED  BY <1>6, <2>2 DEF QueueOK
  <1>13. Absorb(q, c).seg = t /\ Absorb(q, c).queue = r  BY <1>3
  <1>14. r = Beyond(q, k)  BY DEF r
  <1> QED  BY <1>2, <1>11, <1>12, <1>13, <1>14

(* The segment x and what follows on it in the queue go up together: their
   bytes have no gap, only the last one can have the FIN, and what stays in
   the queue is beyond a gap. *)
LEMMA TakenIs ==
  ASSUME NEW x, NEW e \in Pos, SegOK(x, e), NEW r, QueueOK(r, After(x) - 1, e)
  PROVE  LET j == Follow(r, Next1(x))
             w == <<x>> \o UpTo(r, j)
             y == w[Len(w)]
         IN  /\ j \in 0..Len(r) /\ w \in Seq(Seg) /\ Len(w) = j + 1
             /\ SegOK(y, e) /\ x.at < After(y)
             /\ HasFin(w) <=> y.fin
             /\ FlattenSeq([i \in DOMAIN w |-> Bytes(w[i])]) = Run(x.at, (y.at + y.len) - x.at)
             /\ \A i \in (j + 1)..Len(r) : After(y) < r[i].at
  <1> DEFINE j == Follow(r, Next1(x))
             v == UpTo(r, j)
             w == <<x>> \o v
             y == w[Len(w)]
  <1>0. x \in Seg /\ x.at \in Pos /\ x.len \in Nat /\ x.fin \in BOOLEAN /\ After(x) \in Pos /\ x.at >= 1
         /\ x.at < After(x) /\ Next1(x) = Seqno(After(x))
    BY SegIs
  <1>1. r \in Seq(Seg) /\ Len(r) \in Nat
         /\ (\A i \in 1..Len(r) : SegOK(r[i], e) /\ After(x) - 1 < r[i].at)
         /\ (\A i, k \in 1..Len(r) : i < k => After(r[i]) <= r[k].at)
    BY QueueIs
  <1>2. /\ j \in 0..Len(r)
        /\ j >= 1 => r[1].at = After(x)
        /\ \A i \in 2..j : r[i].at = After(r[i - 1])
        /\ j = 0 /\ Len(r) >= 1 => r[1].at # After(x)
        /\ j >= 1 /\ j < Len(r) => r[j + 1].at # After(r[j])
    <2>1. j = Follow(r, Seqno(After(x)))  BY <1>0
    <2> HIDE DEF j
    <2> QED  BY <1>0, <2>1, FollowIs
  <1> HIDE DEF j
  <1>3. \A i \in 1..Len(r) : r[i].at \in Pos /\ After(r[i]) \in Pos /\ r[i].at < After(r[i])
                              /\ After(x) <= r[i].at
    <2>1. \A i \in 1..Len(r) : r[i].at \in Pos /\ After(r[i]) \in Pos /\ r[i].at < After(r[i])
      BY <1>1, SegIs
    <2> QED  BY <1>0, <1>1, <2>1 DEF Pos
  <1>4. QueueOK(v, After(x) - 1, e) /\ v \in Seq(Seg) /\ Len(v) = j /\ \A i \in 1..j : v[i] = r[i]
    BY <1>1, <1>2, UpToOK, UpToIs
  <1> HIDE DEF v
  <1>5. QueueOK(<<x>>, x.at - 1, e) /\ Len(<<x>>) = 1 /\ <<x>>[1] = x /\ <<x>> \in Seq(Seg)
    <2>1. x.at - 1 < x.at  BY <1>0 DEF Pos
    <2> QED  BY <1>0, <2>1, OneOK
  <1>6. QueueOK(w, x.at - 1, e)
    <2>1. x.at - 1 \in Int /\ After(x) - 1 \in Int /\ x.at - 1 <= After(x) - 1
           /\ After(x) <= (After(x) - 1) + 1
      BY <1>0 DEF Pos
    <2>2. \A i \in 1..Len(<<x>>) : After(<<x>>[i]) <= (After(x) - 1) + 1  BY <1>5, <2>1
    <2> QED  BY <1>4, <1>5, <2>1, <2>2, JoinOK
  <1>7. w \in Seq(Seg) /\ Len(w) = j + 1 /\ w[1] = x /\ \A i \in 2..(j + 1) : w[i] = r[i - 1]
    <2>1. w \in Seq(Seg) /\ Len(w) = 1 + j
           /\ \A i \in 1..(1 + j) : w[i] = IF i <= 1 THEN <<x>>[i] ELSE v[i - 1]
      BY <1>4, <1>5, ConcatProperties
    <2>2. 1 \in 1..(1 + j) /\ 1 <= 1 /\ j \in Nat  BY <1>1, <1>2
    <2>3. ASSUME NEW i \in 2..(j + 1) PROVE i \in 1..(1 + j) /\ ~(i <= 1) /\ i - 1 \in 1..j
      BY <2>2
    <2>4. \A i \in 2..(j + 1) : w[i] = r[i - 1]
      <3> HIDE DEF w
      <3> QED  BY <1>4, <2>1, <2>3
    <2>5. w[1] = x
      <3> HIDE DEF w
      <3> QED  BY <1>5, <2>1, <2>2
    <2> QED  BY <2>1, <2>2, <2>4, <2>5
  <1> HIDE DEF w
  <1>8. j \in Nat /\ Len(w) \in 1..Len(w) /\ 1 \in 1..Len(w)  BY <1>1, <1>2, <1>7
  <1>9. \A i \in 1..Len(w) : SegOK(w[i], e)  BY <1>6, QueueIs
  <1>10. SegOK(y, e) /\ y = w[j + 1]  BY <1>7, <1>8, <1>9
  <1>11. HasFin(w) <=> y.fin
    <2>1. DOMAIN w = 1..Len(w)  BY <1>7
    <2>2. \A i \in 1..Len(w) : w[i].fin => i = Len(w)  BY <1>6, FinLast
    <2> QED  BY <1>8, <2>1, <2>2 DEF HasFin
  <1>12. ASSUME NEW i \in 2..Len(w) PROVE w[i].at = w[i - 1].at + w[i - 1].len
    <2>1. i - 1 \in 1..Len(w) /\ i - 1 # Len(w) /\ i \in 2..(j + 1)  BY <1>7, <1>8
    <2>2. ~w[i - 1].fin  BY <1>6, <2>1, FinLast
    <2>3. After(w[i - 1]) = w[i - 1].at + w[i - 1].len  BY <1>9, <2>1, <2>2, SegIs
    <2>4. w[i].at = After(w[i - 1])
      <3>1. CASE i = 2
        <4>1. j >= 1 /\ w[2] = r[1] /\ w[2 - 1] = x  BY <1>7, <1>8, <2>1, <3>1
        <4> QED  BY <1>2, <3>1, <4>1
      <3>2. CASE i # 2
        <4>1. i - 1 \in 2..j /\ i - 1 \in 2..(j + 1) /\ i \in 2..(j + 1)  BY <1>8, <2>1, <3>2
        <4>2. w[i] = r[i - 1] /\ w[i - 1] = r[(i - 1) - 1]  BY <1>7, <4>1
        <4> QED  BY <1>2, <4>1, <4>2
      <3> QED  BY <3>1, <3>2
    <2> QED  BY <2>3, <2>4
  <1>13. ASSUME NEW i \in 1..Len(w) PROVE w[1].at <= w[i].at
    <2>1. x.at - 1 < w[i].at /\ SegOK(w[i], e)  BY <1>6, QueueIs
    <2>2. w[i].at \in Pos  BY <2>1, SegIs
    <2> QED  BY <1>0, <1>7, <2>1, <2>2 DEF Pos
  <1>14. FlattenSeq([i \in DOMAIN w |-> Bytes(w[i])]) = Run(x.at, (y.at + y.len) - x.at)
    <2>1. Len(w) >= 1 /\ w[1].at >= 1 /\ w[1].at = x.at  BY <1>0, <1>7, <1>8
    <2> QED  BY <1>7, <1>12, <1>13, <2>1, FlattenIs
  <1>15. x.at < After(y)
    <2>1. y.at \in Pos /\ After(y) \in Pos /\ y.at < After(y)  BY <1>10, SegIs
    <2>2. x.at <= y.at  BY <1>7, <1>8, <1>13
    <2> QED  BY <1>0, <2>1, <2>2 DEF Pos
  <1>16. j = 0 => y = x  BY <1>7, <1>10
  <1>17. j >= 1 => y = r[j] /\ j \in 1..Len(r)
    <2> SUFFICES ASSUME j >= 1 PROVE y = r[j] /\ j \in 1..Len(r)  OBVIOUS
    <2>1. j + 1 \in 2..(j + 1) /\ (j + 1) - 1 = j /\ j \in 1..Len(r)  BY <1>2, <1>8
    <2> QED  BY <1>7, <1>10, <2>1
  <1> HIDE DEF y
  <1>18. After(y) \in Pos  BY <1>10, SegIs
  <1>19. ASSUME NEW i \in (j + 1)..Len(r) PROVE After(y) < r[i].at
    <2>1. j + 1 \in 1..Len(r) /\ i \in 1..Len(r) /\ Len(r) >= 1 /\ j < Len(r)  BY <1>1, <1>2, <1>8
    <2>2. After(y) < r[j + 1].at
      <3>1. CASE j = 0
        <4>1. After(x) <= r[1].at /\ r[1].at # After(x) /\ r[1].at \in Pos /\ y = x /\ j + 1 = 1
          BY <1>2, <1>3, <1>16, <2>1, <3>1
        <4> QED  BY <1>0, <4>1 DEF Pos
      <3>2. CASE j >= 1
        <4>1. y = r[j] /\ j \in 1..Len(r) /\ j < j + 1  BY <1>8, <1>17, <3>2
        <4>2. After(r[j]) <= r[j + 1].at /\ r[j + 1].at # After(r[j])  BY <1>1, <1>2, <2>1, <3>2, <4>1
        <4>3. After(r[j]) \in Pos /\ r[j + 1].at \in Pos  BY <1>3, <2>1, <4>1
        <4> QED  BY <4>1, <4>2, <4>3 DEF Pos
      <3> QED  BY <1>8, <3>1, <3>2
    <2>3. CASE i = j + 1  BY <2>2, <2>3
    <2>4. CASE i # j + 1
      <3>1. j + 1 < i  BY <1>1, <1>8, <2>4
      <3>2. After(r[j + 1]) <= r[i].at  BY <1>1, <2>1, <3>1
      <3>3. r[j + 1].at \in Pos /\ After(r[j + 1]) \in Pos /\ r[j + 1].at < After(r[j + 1])
             /\ r[i].at \in Pos
        BY <1>3, <2>1
      <3> QED  BY <1>18, <2>2, <3>2, <3>3 DEF Pos
    <2> QED  BY <2>3, <2>4
  <1> QED  BY <1>2, <1>7, <1>10, <1>11, <1>14, <1>15, <1>19 DEF w, v, j, y

(* What r, the outcome of a segment, yields of the stream: the octets from
   position n to before m, the FIN's being the last one. *)
Yields(p, r, n, m) ==
  /\ r = [pcb |-> r.pcb, bytes |-> r.bytes, fin |-> r.fin]
  /\ n <= m /\ r.pcb.rcv_wnd = p.rcv_wnd - (m - n)
  /\ r.fin \in BOOLEAN /\ (r.fin <=> m = N + 2 /\ n # m)
  /\ r.bytes = Run(n, (m - n) - (IF r.fin THEN 1 ELSE 0))

(* Ack and AckNow only touch the flags. *)
LEMMA AcksOK ==
  ASSUME NEW p, NEW n, NEW e, CoreOK(p, n, e)
  PROVE  /\ CoreOK(Ack(p), n, e) /\ Ack(p).rcv_wnd = p.rcv_wnd /\ Ack(p).state = p.state
         /\ CoreOK(AckNow(p), n, e) /\ AckNow(p).rcv_wnd = p.rcv_wnd /\ AckNow(p).state = p.state
         /\ AckNow(p).ann_wnd = p.ann_wnd
  <1> DEFINE A == IF "delay" \in p.ack THEN (p.ack \ {"delay"}) \cup {"now"} ELSE p.ack \cup {"delay"}
             B == p.ack \cup {"now"}
  <1>1. p \in Pcb /\ p.ack \subseteq {"delay", "now"}  BY CoreIs
  <1>2. A \in SUBSET {"delay", "now"} /\ B \in SUBSET {"delay", "now"}  BY <1>1
  <1>3. Ack(p) = [p EXCEPT !.ack = A] /\ AckNow(p) = [p EXCEPT !.ack = B]  BY <1>1 DEF Ack, AckNow, Pcb
  <1> HIDE DEF A, B
  <1> QED  BY <1>2, <1>3, AckOK

(* The segment x and what follows on it move rcv_nxt and take their part of
   the window. *)
LEMMA AdvanceOK ==
  ASSUME NEW p, NEW n, NEW e, CoreOK(p, n, e), NEW f \in Pos, e <= f, f <= e + 1, f <= n + p.rcv_wnd,
         NEW b, SegOK(b.seg, f), b.seg.at = n, NEW k \in 0..Len(p.ooseq), b.queue = Beyond(p.ooseq, k),
         QueueOK(b.queue, After(b.seg) - 1, f)
  PROVE  LET r == Advance(p, b.queue, Taken(b))
         IN  \E m \in Pos : CoreOK(r.pcb, m, e) /\ Yields(p, r, n, m) /\ n < m /\ r.pcb.state = p.state
  <1> DEFINE x == b.seg
             q == b.queue
             j == Follow(q, Next1(x))
             w == <<x>> \o UpTo(q, j)
             y == w[Len(w)]
             m == After(y)
             r == Advance(p, q, Taken(b))
  <1>1. Taken(b) = w  BY DEF Taken
  <1>2. /\ j \in 0..Len(q) /\ w \in Seq(Seg) /\ Len(w) = j + 1
        /\ SegOK(y, f) /\ x.at < After(y)
        /\ HasFin(w) <=> y.fin
        /\ FlattenSeq([i \in DOMAIN w |-> Bytes(w[i])]) = Run(x.at, (y.at + y.len) - x.at)
        /\ \A i \in (j + 1)..Len(q) : After(y) < q[i].at
    <2> HIDE DEF x, q
    <2> QED  BY TakenIs DEF x, q
  <1> DEFINE nxt == Next1(Last(w))
             wnd == (p.rcv_wnd - Diff(nxt, p.rcv_nxt)) % WndSpace
             rest == Beyond(q, Len(w) - 1)
             got == [p EXCEPT !.rcv_nxt = nxt, !.ooseq = rest, !.rcv_wnd = wnd]
  <1>3. Last(w) = y  BY DEF Last
  <1> HIDE DEF w, j
  <1>4. p \in Pcb
    BY CoreIs
  <1>5. r = [pcb |-> Ack(UpdateAnn(got)), bytes |-> FlattenSeq([i \in DOMAIN w |-> Bytes(w[i])]),
             fin |-> HasFin(w)]
    BY <1>1, <1>4 DEF Advance, Pcb
  <1> HIDE DEF y, r
  <1>6. n \in Pos /\ n >= 1 /\ e \in Pos /\ p.rcv_wnd \in 0..Wnd /\ p.rcv_nxt = Seqno(n)
         /\ p.right_edge = Seqno(e) /\ e <= n + p.rcv_wnd /\ QueueOK(p.ooseq, n, e)
    BY CoreIs
  <1>7. y.at \in Pos /\ y.len \in Nat /\ y.fin \in BOOLEAN /\ m \in Pos /\ m <= N + 2 /\ m <= f
         /\ y.at + y.len \in Pos
         /\ (~y.fin => m = y.at + y.len) /\ (y.fin => y.at + y.len = N + 1 /\ m = N + 2)
         /\ Next1(y) = Seqno(m)
    BY <1>2, SegIs
  <1>8. y.at + y.len <= N + 1  BY <1>2 DEF SegOK
  <1> HIDE DEF m
  <1>9. n < m  BY <1>2 DEF m
  <1>10. N \in Nat /\ Wnd \in Nat /\ WndSpace \in Nat /\ N + Wnd + 2 < WndSpace  BY ConstIs
  <1>11. n \in Int /\ m \in Int /\ e \in Int /\ f \in Int /\ m <= n + p.rcv_wnd /\ m - 1 <= e
          /\ m \in 1..(N + 2) /\ n <= m /\ e \in Nat
    BY <1>6, <1>7, <1>9, <1>10 DEF Pos
  <1>12. nxt = Seqno(m)  BY <1>3, <1>7
  <1>13. wnd = p.rcv_wnd - (m - n) /\ wnd \in 0..Wnd
    <2>1. Diff(nxt, p.rcv_nxt) = m - n  BY <1>6, <1>7, <1>11, <1>12, PosOrder
    <2>2. PICK d \in 0..Wnd : d = p.rcv_wnd - (m - n)
      <3>1. p.rcv_wnd - (m - n) \in 0..Wnd  BY <1>6, <1>9, <1>10, <1>11
      <3> QED  BY <3>1
    <2>3. d % WndSpace = d  BY <1>10
    <2>4. wnd = d % WndSpace  BY <2>1, <2>2
    <2> QED  BY <2>2, <2>3, <2>4
  <1>14. QueueOK(rest, m, e)
    <2>1. QueueOK(q, n, e)
      <3>1. Len(p.ooseq) \in Nat /\ \A i \in 1..Len(p.ooseq) : n < p.ooseq[i].at  BY <1>6, QueueIs
      <3>2. \A i \in (k + 1)..Len(p.ooseq) : n < p.ooseq[i].at  BY <3>1
      <3> QED  BY <1>6, <1>11, <3>2, BeyondOK
    <2>2. Len(q) \in Nat  BY <2>1, QueueIs
    <2>3. Len(w) - 1 = j  BY <1>2, <2>2
    <2>4. \A i \in (j + 1)..Len(q) : m < q[i].at  BY <1>2 DEF m
    <2>5. QueueOK(Beyond(q, j), m, e)
      <3> HIDE DEF q
      <3> QED  BY <1>2, <1>11, <2>1, <2>4, BeyondOK
    <2> QED  BY <2>3, <2>5
  <1>15. rest \in Seq(Seg)  BY <1>14, QueueIs
  <1>16. nxt \in Int
    <2>1. Seqno(m) \in 0..(SeqSpace - 1) /\ SeqSpace \in Nat  BY <1>11, SeqnoIs, ConstIs
    <2> QED  BY <1>12, <2>1
  <1> HIDE DEF nxt, wnd, rest
  <1>17. got \in Pcb /\ got.rcv_nxt = nxt /\ got.rcv_wnd = wnd /\ got.ooseq = rest
          /\ got.right_edge = p.right_edge /\ got.state = p.state
    BY <1>4, <1>13, <1>15, <1>16 DEF Pcb
  <1> HIDE DEF got
  <1>18. e <= m + wnd  BY <1>6, <1>10, <1>11, <1>13
  <1>19. CoreOK(UpdateAnn(got), m, e) /\ UpdateAnn(got).rcv_wnd = wnd /\ UpdateAnn(got).state = p.state
    BY <1>6, <1>11, <1>12, <1>14, <1>17, <1>18, UpdateAnnOK
  <1>20. CoreOK(r.pcb, m, e) /\ r.pcb.rcv_wnd = wnd /\ r.pcb.state = p.state
    BY <1>5, <1>19, AcksOK
  <1>21. r.fin \in BOOLEAN /\ r.fin = HasFin(w) /\ (r.fin <=> y.fin)
    BY <1>2, <1>5 DEF HasFin
  <1>22. r.fin <=> m = N + 2  BY <1>7, <1>8, <1>10, <1>21 DEF Pos
  <1>23. (y.at + y.len) - n = (m - n) - (IF r.fin THEN 1 ELSE 0)  BY <1>7, <1>10, <1>11, <1>21
  <1>24. r.bytes = Run(n, (m - n) - (IF r.fin THEN 1 ELSE 0))  BY <1>2, <1>5, <1>23
  <1>25. r = [pcb |-> r.pcb, bytes |-> r.bytes, fin |-> r.fin]  BY <1>5
  <1>26. Yields(p, r, n, m)  BY <1>9, <1>11, <1>13, <1>20, <1>21, <1>22, <1>24, <1>25 DEF Yields
  <1> QED  BY <1>7, <1>9, <1>20, <1>26 DEF r

(* The element of a set of one. *)
LEMMA OnlyIs == ASSUME NEW z PROVE Only({z}) = z
  BY DEF Only

(* A segment that starts at rcv_nxt and ends within the window. *)
LEMMA InSequenceOK ==
  ASSUME NEW p, NEW n, NEW e, CoreOK(p, n, e), NEW f \in Pos, e <= f, f <= e + 1, f <= n + p.rcv_wnd,
         NEW s, SegOK(s, f), s.at = n
  PROVE  LET r == InSequence(p, s)
         IN  \E m \in Pos : CoreOK(r.pcb, m, e) /\ Yields(p, r, n, m) /\ n < m /\ r.pcb.state = p.state
  <1> DEFINE b == Absorb(p.ooseq, s)
  <1>0. n \in Pos /\ e \in Pos /\ p.rcv_wnd \in Int /\ QueueOK(p.ooseq, n, e)  BY CoreIs
  <1>1. Clip(p, s) = s
    <2>1. After(s) <= f /\ After(s) \in Pos /\ s.len \in Nat /\ s.fin \in BOOLEAN  BY SegIs
    <2>2. TcpLen(s) \in Int /\ After(s) = n + TcpLen(s)  BY <2>1 DEF After, TcpLen
    <2>3. ~(TcpLen(s) > p.rcv_wnd)  BY <1>0, <2>1, <2>2 DEF Pos
    <2> QED  BY <2>3 DEF Clip
  <1>2. {Absorb(p.ooseq, c) : c \in {Clip(p, s)}} = {b}  BY <1>1
  <1> HIDE DEF b
  <1>3. {Advance(p, a.queue, Taken(a)) : a \in {b}} = {Advance(p, b.queue, Taken(b))}  OBVIOUS
  <1>4. InSequence(p, s) = Only({Advance(p, a.queue, Taken(a)) : a \in {b}})  BY <1>2 DEF InSequence
  <1>5. QueueOK(p.ooseq, s.at, f)  BY <1>0, QueueGrows
  <1>6. SegOK(b.seg, f) /\ b.seg.at = n /\ QueueOK(b.queue, After(b.seg) - 1, f)
         /\ \E k \in 0..Len(p.ooseq) : b.queue = Beyond(p.ooseq, k)
    BY <1>5, AbsorbIs DEF b
  <1>7. PICK k \in 0..Len(p.ooseq) : b.queue = Beyond(p.ooseq, k)  BY <1>6
  <1>8. InSequence(p, s) = Advance(p, b.queue, Taken(b))  BY <1>3, <1>4, OnlyIs
  <1> QED  BY <1>6, <1>7, <1>8, AdvanceOK

-----------------------------------------------------------------------------
(***************************************************************************)
(* tcp_receive and tcp_process.                                            *)
(***************************************************************************)
(* The part of a segment that is new starts at rcv_nxt; a segment that is all
   new or all old stays as it is (tcp_in.c:1256-1340). *)
LEMMA FrontTrimIs ==
  ASSUME NEW p, NEW n, NEW e, CoreOK(p, n, e), NEW f \in Pos, NEW s, SegOK(s, f)
  PROVE  LET t == FrontTrim(p, s) IN SegOK(t, f) /\ (t.at = n \/ t = s)
  <1> DEFINE t == FrontTrim(p, s)
             off == Diff(p.rcv_nxt, s.seq)
             between == Between(p.rcv_nxt, Plus(s.seq, 1), Plus(s.seq, TcpLen(s) - 1))
  <1>0. n \in Pos /\ p.rcv_nxt = Seqno(n)  BY CoreIs
  <1>1. s \in Seg /\ s.at \in Pos /\ s.len \in Nat /\ s.fin \in BOOLEAN /\ After(s) \in Pos /\ s.at >= 1
         /\ s.at < After(s) /\ After(s) <= N + 2 /\ After(s) <= f /\ s.seq = Seqno(s.at)
    BY SegIs
  <1>2. TcpLen(s) \in Int /\ After(s) = s.at + TcpLen(s)  BY <1>1 DEF After, TcpLen
  <1>3. Plus(s.seq, 1) = Seqno(s.at + 1) /\ Plus(s.seq, TcpLen(s) - 1) = Seqno(s.at + (TcpLen(s) - 1))
    <2>1. s.at \in Int /\ TcpLen(s) - 1 \in Int  BY <1>1, <1>2 DEF Pos
    <2>2. \A i \in Int : Plus(Seqno(s.at), i) = Seqno(s.at + i)  BY <2>1, SeqnoPlus
    <2>3. PICK i \in Int : i = TcpLen(s) - 1  BY <2>1
    <2> QED  BY <1>1, <2>2, <2>3
  <1>4. s.at + 1 \in Pos /\ s.at + (TcpLen(s) - 1) \in Pos /\ s.at + (TcpLen(s) - 1) = After(s) - 1
    BY <1>1, <1>2, ConstIs DEF Pos
  <1>5. between <=> s.at + 1 <= n /\ n <= s.at + (TcpLen(s) - 1)
    BY <1>0, <1>3, <1>4, PosOrder DEF Between
  <1>6. CASE ~between
    <2>1. t = s  BY <1>6 DEF FrontTrim
    <2> QED  BY <2>1
  <1>7. CASE between
    <2>1. s.at < n /\ n < After(s) /\ s.at <= n  BY <1>0, <1>1, <1>4, <1>5, <1>7 DEF Pos
    <2>2. off = n - s.at  BY <1>0, <1>1, <2>1, PosOrder
    <2>3. t = [s EXCEPT !.seq = p.rcv_nxt, !.at = s.at + (n - s.at), !.len = s.len - (n - s.at)]
      BY <1>1, <1>7, <2>2 DEF FrontTrim, Seg
    <2>4. s.at + (n - s.at) = n /\ n \in Nat /\ s.len - (n - s.at) \in Nat
      <3>1. After(s) = IF s.fin THEN s.at + (s.len + 1) ELSE s.at + s.len  BY <1>1 DEF After, TcpLen
      <3> QED  BY <1>0, <1>1, <2>1, <3>1 DEF Pos
    <2>5. Seqno(n) \in Int
      <3>1. n \in Int  BY <2>4
      <3>2. Seqno(n) \in 0..(SeqSpace - 1) /\ SeqSpace \in Nat  BY <3>1, SeqnoIs, ConstIs
      <3> QED  BY <3>2
    <2> DEFINE l == s.len - (n - s.at)
    <2> HIDE DEF l, t
    <2>6. t = [s EXCEPT !.seq = Seqno(n), !.at = n, !.len = l]  BY <1>0, <2>3, <2>4 DEF l
    <2>7. l \in Nat  BY <2>4 DEF l
    <2>8. t \in Seg /\ t.seq = Seqno(n) /\ t.at = n /\ t.len = l /\ t.fin = s.fin
      BY <1>1, <2>4, <2>5, <2>6, <2>7 DEF Seg
    <2>9. n + l = s.at + s.len  BY <1>0, <1>1 DEF l, Pos
    <2>10. n + TcpLen(t) = After(s) /\ TcpLen(t) \in Int
      BY <1>0, <1>1, <2>7, <2>8, <2>9 DEF TcpLen, After, Pos
    <2>11. TcpLen(t) >= 1 /\ n >= 1  BY <1>0, <1>1, <2>1, <2>10 DEF Pos
    <2>12. s.at + s.len <= N + 1 /\ (s.fin => s.at + s.len = N + 1)  BY DEF SegOK
    <2>13. SegOK(t, f)  BY <1>1, <2>8, <2>9, <2>10, <2>11, <2>12 DEF SegOK, After
    <2> QED  BY <2>8, <2>13 DEF t
  <1> QED  BY <1>6, <1>7

(* A segment is taken only if it starts in the window. *)
LEMMA InWindowIs ==
  ASSUME NEW p, NEW n, NEW e, CoreOK(p, n, e), NEW f \in Pos, NEW s, SegOK(s, f)
  PROVE  InWindow(p, s) => n <= s.at /\ s.at < n + p.rcv_wnd
  <1>0. n \in Pos /\ n >= 1 /\ p.rcv_nxt = Seqno(n) /\ p.rcv_wnd \in 0..Wnd /\ n + p.rcv_wnd \in Pos
    BY CoreIs
  <1>1. s.at \in Pos /\ s.seq = Seqno(s.at)  BY SegIs
  <1>2. n \in Int /\ p.rcv_wnd - 1 \in Int /\ n + (p.rcv_wnd - 1) \in Pos  BY <1>0, ConstIs DEF Pos
  <1>3. Plus(p.rcv_nxt, p.rcv_wnd - 1) = Seqno(n + (p.rcv_wnd - 1))  BY <1>0, <1>2, SeqnoPlus
  <1>4. InWindow(p, s) <=> n <= s.at /\ s.at <= n + (p.rcv_wnd - 1)
    <2>1. SeqLEQ(p.rcv_nxt, s.seq) <=> n <= s.at  BY <1>0, <1>1, PosOrder
    <2>2. SeqLEQ(s.seq, Seqno(n + (p.rcv_wnd - 1))) <=> s.at <= n + (p.rcv_wnd - 1)
      BY <1>1, <1>2, PosOrder
    <2> QED  BY <1>3, <2>1, <2>2 DEF InWindow, Between
  <1> QED  BY <1>0, <1>1, <1>2, <1>4, ConstIs DEF Pos

(* A queue of out-of-sequence segments takes the place of the old one. *)
LEMMA OoseqOK ==
  ASSUME NEW p, NEW n, NEW e, CoreOK(p, n, e), NEW q, QueueOK(q, n, e)
  PROVE  LET r == [p EXCEPT !.ooseq = q] IN CoreOK(r, n, e) /\ r.rcv_wnd = p.rcv_wnd /\ r.state = p.state
  <1> DEFINE r == [p EXCEPT !.ooseq = q]
  <1>1. p \in Pcb /\ q \in Seq(Seg)  BY CoreIs, QueueIs
  <1>2. r \in Pcb /\ r.rcv_nxt = p.rcv_nxt /\ r.rcv_wnd = p.rcv_wnd /\ r.ann_wnd = p.ann_wnd
         /\ r.right_edge = p.right_edge /\ r.ooseq = q /\ r.state = p.state
    BY <1>1 DEF Pcb
  <1> HIDE DEF r
  <1>3. CoreOK(r, n, e)  BY <1>2 DEF CoreOK, EdgeOK
  <1> QED  BY <1>2, <1>3 DEF r

(* What the peer may send to a receiver whose edge is at e: a segment of the
   stream up to the edge, or the octet that probes a shut window; or nothing. *)
Sendable(s, n, e) ==
  /\ TcpLen(s) \in Nat
  /\ TcpLen(s) >= 1 => SegOK(s, e) \/ (e <= n /\ s.at = e /\ SegOK(s, e + 1))

(* A segment that yields nothing. *)
LEMMA NothingYields ==
  ASSUME NEW p, NEW n \in Pos, n >= 1, NEW c, c.rcv_wnd = p.rcv_wnd, p.rcv_wnd \in Int
  PROVE  Yields(p, [pcb |-> c, bytes |-> <<>>, fin |-> FALSE], n, n)
  <1>1. n \in Nat  BY DEF Pos
  <1>2. Run(n, 0) \in Seq(Nat) /\ Len(Run(n, 0)) = 0  BY <1>1, RunIs
  <1>3. Run(n, 0) = <<>>  BY <1>2
  <1>4. (n - n) - 0 = 0 /\ n <= n /\ p.rcv_wnd - (n - n) = p.rcv_wnd  BY <1>1
  <1> QED  BY <1>3, <1>4 DEF Yields

(* tcp_receive: rcv_nxt moves from n to m, the edge from e to g. *)
LEMMA ReceiveOK ==
  ASSUME NEW p, NEW n, NEW e, PcbOK(p, n, e), NEW s, Sendable(s, n, e),
         NEW mem \in BOOLEAN, NEW out \in Outcome
  PROVE  LET r == Receive(p, s, mem, out)
         IN  \E m, g \in Pos : /\ e <= g /\ CoreOK(r.pcb, m, g) /\ Yields(p, r, n, m)
                               /\ r.pcb.state = p.state /\ (TcpLen(s) = 0 => m = n)
                               /\ (p.state = "close_wait" => m = n)
  <1> DEFINE t == FrontTrim(p, s)
             old == t = s /\ SeqLT(s.seq, p.rcv_nxt)
             p1 == IF old THEN AckNow(p) ELSE p
             p2 == IF mem THEN [p1 EXCEPT !.ooseq = OutOfSequence(p1, t)] ELSE p1
             nothing(q) == [pcb |-> q, bytes |-> <<>>, fin |-> FALSE]
             r == Receive(p, s, mem, out)
             Goal == \E m, g \in Pos : /\ e <= g /\ CoreOK(r.pcb, m, g) /\ Yields(p, r, n, m)
                               /\ r.pcb.state = p.state /\ (TcpLen(s) = 0 => m = n)
                               /\ (p.state = "close_wait" => m = n)
  <1>0. CoreOK(p, n, e)  BY DEF PcbOK
  <1>1. n \in Pos /\ n >= 1 /\ e \in Pos /\ e <= n + p.rcv_wnd /\ p.rcv_wnd \in Int /\ p.rcv_nxt = Seqno(n)
         /\ n <= N + 2
    BY <1>0, CoreIs
  <1>2. ASSUME NEW c, NEW g \in Pos, e <= g, CoreOK(c, n, g), c.rcv_wnd = p.rcv_wnd, c.state = p.state,
               r = nothing(c)
        PROVE  Goal
    <2>1. Yields(p, r, n, n)  BY <1>1, <1>2, NothingYields
    <2>2. r.pcb = c  BY <1>2
    <2> HIDE DEF r
    <2> QED  BY <1>1, <1>2, <2>1, <2>2
  <1>3. e <= e  BY <1>1 DEF Pos
  <1>4. CASE TcpLen(s) = 0 \/ p.state = "close_wait"
    <2>1. r = nothing(IF InWindow(p, s) THEN p ELSE AckNow(p))  BY <1>4 DEF Receive, CheckOnly
    <2> DEFINE c == IF InWindow(p, s) THEN p ELSE AckNow(p)
    <2>2. CoreOK(c, n, e) /\ c.rcv_wnd = p.rcv_wnd /\ c.state = p.state  BY <1>0, AcksOK
    <2>3. r = nothing(c)  BY <2>1
    <2> HIDE DEF c, r, Goal
    <2>4. Goal  BY <1>1, <1>2, <1>3, <2>2, <2>3
    <2> QED  BY <2>4 DEF Goal, r
  <1>5. CASE ~(TcpLen(s) = 0 \/ p.state = "close_wait")
    <2>1. r = IF ~InWindow(p, t) THEN nothing(EmptyAck(p1, out))
              ELSE IF t.seq = p.rcv_nxt THEN InSequence(p, t)
              ELSE nothing(EmptyAck(p2, out))
      BY <1>5 DEF Receive
    <2>2. CoreOK(p1, n, e) /\ p1.rcv_wnd = p.rcv_wnd /\ p1.state = p.state  BY <1>0, AcksOK
    <2> HIDE DEF p1
    <2>3. PICK f \in Pos : /\ SegOK(s, f) /\ e <= f /\ f <= e + 1
                           /\ f = e \/ (f = e + 1 /\ e <= n /\ s.at = e)
      <3>1. TcpLen(s) >= 1  BY <1>5 DEF Sendable
      <3>2. CASE SegOK(s, e)
        <4>1. e <= e /\ e <= e + 1  BY <1>1 DEF Pos
        <4> QED  BY <1>1, <3>2, <4>1
      <3>3. CASE e <= n /\ s.at = e /\ SegOK(s, e + 1)
        <4>1. e + 1 \in Pos /\ e <= e + 1 /\ e + 1 <= e + 1  BY <1>1, <3>3, ConstIs DEF Pos
        <4> QED  BY <3>3, <4>1
      <3> QED  BY <3>1, <3>2, <3>3 DEF Sendable
    <2>4. SegOK(t, f) /\ (t.at = n \/ t = s)  BY <1>0, <2>3, FrontTrimIs
    <2>5. InWindow(p, t) => n <= t.at /\ t.at < n + p.rcv_wnd  BY <1>0, <2>4, InWindowIs
    <2> HIDE DEF t
    <2>6. t.at \in Pos /\ t.seq = Seqno(t.at)  BY <2>4, SegIs
    <2>7. CASE ~InWindow(p, t)
      <3> DEFINE c == EmptyAck(p1, out)
      <3>1. PICK g \in Pos : e <= g /\ CoreOK(c, n, g)  BY <2>2, EmptyAckOK
      <3>2. c.rcv_wnd = p.rcv_wnd /\ c.state = p.state  BY <2>2, EmptyAckOK
      <3>3. r = nothing(c)  BY <2>1, <2>7
      <3> HIDE DEF c, r, Goal
      <3>4. Goal  BY <1>2, <3>1, <3>2, <3>3
      <3> QED  BY <3>4 DEF Goal, r
    <2>8. CASE InWindow(p, t) /\ t.seq = p.rcv_nxt
      <3>1. t.at = n  BY <1>1, <2>6, <2>8, PosOrder
      <3>2. f <= n + p.rcv_wnd  BY <1>1, <2>3, <2>5, <2>8, <3>1 DEF Pos
      <3>3. r = InSequence(p, t)  BY <2>1, <2>8
      <3> HIDE DEF r
      <3>4. PICK m \in Pos : CoreOK(r.pcb, m, e) /\ Yields(p, r, n, m) /\ n < m /\ r.pcb.state = p.state
        BY <1>0, <2>3, <2>4, <3>1, <3>2, <3>3, InSequenceOK
      <3> QED  BY <1>1, <1>3, <1>5, <3>4 DEF r
    <2>9. CASE InWindow(p, t) /\ t.seq # p.rcv_nxt
      <3>1. t.at # n  BY <1>1, <2>6, <2>9
      <3>2. n < t.at  BY <1>1, <2>5, <2>6, <2>9, <3>1 DEF Pos
      <3>3. f = e
        <4>1. t = s  BY <2>4, <3>1
        <4>2. ~(e <= n /\ s.at = e)  BY <1>1, <2>6, <3>2, <4>1 DEF Pos
        <4> QED  BY <2>3, <4>2
      <3>4. CoreOK(p2, n, e) /\ p2.rcv_wnd = p.rcv_wnd /\ p2.state = p.state
        <4>1. QueueOK(OutOfSequence(p1, t), n, e)  BY <1>1, <2>2, <2>4, <3>2, <3>3, OutOfSequenceOK
        <4> DEFINE q == OutOfSequence(p1, t)
        <4> HIDE DEF q
        <4>2. CoreOK([p1 EXCEPT !.ooseq = q], n, e) /\ [p1 EXCEPT !.ooseq = q].rcv_wnd = p.rcv_wnd
               /\ [p1 EXCEPT !.ooseq = q].state = p.state
          BY <2>2, <4>1, OoseqOK DEF q
        <4> QED  BY <2>2, <4>2 DEF q
      <3> DEFINE c == EmptyAck(p2, out)
      <3> HIDE DEF p2
      <3>5. PICK g \in Pos : e <= g /\ CoreOK(c, n, g)  BY <3>4, EmptyAckOK
      <3>6. c.rcv_wnd = p.rcv_wnd /\ c.state = p.state  BY <3>4, EmptyAckOK
      <3>7. r = nothing(c)  BY <2>1, <2>9 DEF p2
      <3> HIDE DEF c, r, Goal
      <3>8. Goal  BY <1>2, <3>5, <3>6, <3>7
      <3> QED  BY <3>8 DEF Goal, r
    <2> QED  BY <2>7, <2>8, <2>9
  <1> QED  BY <1>4, <1>5

(* tcp_process: a FIN that was taken moves the connection to CLOSE_WAIT. *)
LEMMA ProcessOK ==
  ASSUME NEW p, NEW n, NEW e, PcbOK(p, n, e), NEW s, Sendable(s, n, e),
         NEW mem \in BOOLEAN, NEW out \in Outcome
  PROVE  LET r == Process(p, s, mem, out)
         IN  \E m, g \in Pos : e <= g /\ PcbOK(r.pcb, m, g) /\ Yields(p, r, n, m)
                               /\ (TcpLen(s) = 0 => m = n)
  <1> DEFINE r == Receive(p, s, mem, out)
             z == Process(p, s, mem, out)
  <1>1. PICK m, g \in Pos : /\ e <= g /\ CoreOK(r.pcb, m, g) /\ Yields(p, r, n, m)
                            /\ r.pcb.state = p.state /\ (TcpLen(s) = 0 => m = n)
                            /\ (p.state = "close_wait" => m = n)
    BY ReceiveOK
  <1>2. z = IF r.fin THEN [r EXCEPT !.pcb = [AckNow(r.pcb) EXCEPT !.state = "close_wait"]] ELSE r
    BY DEF Process
  <1>3. p.state = "close_wait" <=> n = N + 2  BY DEF PcbOK
  <1>4. p.state \in {"established", "close_wait"}  BY CoreIs DEF PcbOK
  <1>5. CASE ~r.fin
    <2>1. z = r  BY <1>2, <1>5
    <2> HIDE DEF r, z
    <2>2. r.fin <=> m = N + 2 /\ n # m  BY <1>1 DEF Yields
    <2>3. r.pcb.state = "close_wait" <=> m = N + 2  BY <1>1, <1>3, <1>4, <1>5, <2>2
    <2>4. PcbOK(z.pcb, m, g)  BY <1>1, <2>1, <2>3 DEF PcbOK
    <2> QED  BY <1>1, <2>1, <2>4 DEF z
  <1>6. CASE r.fin
    <2> DEFINE c == AckNow(r.pcb)
               d == [c EXCEPT !.state = "close_wait"]
    <2>1. CoreOK(c, m, g) /\ c.rcv_wnd = r.pcb.rcv_wnd
      <3> HIDE DEF r
      <3> QED  BY <1>1, AcksOK
    <2> HIDE DEF c
    <2>2. c \in Pcb  BY <2>1, CoreIs
    <2>3. d \in Pcb /\ d.rcv_nxt = c.rcv_nxt /\ d.rcv_wnd = c.rcv_wnd /\ d.ann_wnd = c.ann_wnd
           /\ d.right_edge = c.right_edge /\ d.ooseq = c.ooseq /\ d.state = "close_wait"
      BY <2>2 DEF Pcb
    <2>4. z = [r EXCEPT !.pcb = d]  BY <1>2, <1>6 DEF c
    <2> HIDE DEF d
    <2>5. CoreOK(d, m, g)  BY <2>1, <2>3 DEF CoreOK, EdgeOK
    <2>6. m = N + 2  BY <1>1, <1>6 DEF Yields
    <2>7. PcbOK(d, m, g)  BY <2>3, <2>5, <2>6 DEF PcbOK
    <2>8. r = [pcb |-> r.pcb, bytes |-> r.bytes, fin |-> r.fin]  BY <1>1 DEF Yields
    <2> HIDE DEF r, z
    <2>9. /\ z.pcb = d /\ z.bytes = r.bytes /\ z.fin = r.fin
          /\ z = [pcb |-> z.pcb, bytes |-> z.bytes, fin |-> z.fin]
      BY <2>4, <2>8
    <2>10. Yields(p, z, n, m)  BY <1>1, <2>1, <2>3, <2>9 DEF Yields
    <2> QED  BY <1>1, <2>7, <2>9, <2>10 DEF z
  <1> QED  BY <1>5, <1>6

-----------------------------------------------------------------------------
(***************************************************************************)
(* What is passed up (tcp_in.c:483-546, tcp.c:495-559).                    *)
(***************************************************************************)
(* What UpOK says, in the form the proofs use. *)
LEMMA UpIs ==
  ASSUME NEW u, NEW rd, NEW n, UpOK(u, rd, n)
  PROVE  /\ u \in UpRec /\ u.refused \in [bytes : Seq(Nat), fin : BOOLEAN]
         /\ u.refused.bytes \in Seq(Nat) /\ u.refused.fin \in BOOLEAN
         /\ u.app \in Seq(Nat) /\ u.eof \in BOOLEAN /\ u.wnd \in Int
         /\ Len(u.app) \in Nat /\ Len(u.refused.bytes) \in Nat /\ rd \in 0..Len(u.app)
         /\ u.app = Run(1, Len(u.app)) /\ u.refused.bytes = Run(Len(u.app) + 1, Len(u.refused.bytes))
         /\ (u.refused.bytes = <<>> => ~u.refused.fin)
         /\ Len(u.app) + Len(u.refused.bytes) = (IF n = N + 2 THEN N ELSE n - 1)
         /\ (n = N + 2 <=> u.eof \/ u.refused.fin)
         /\ ~(u.eof /\ u.refused.fin) /\ (u.eof => u.refused = NoData)
         /\ u.wnd = Wnd - (Len(u.app) - rd) - Len(u.refused.bytes) - (IF u.refused.fin THEN 1 ELSE 0)
  <1>1. u \in UpRec  BY DEF UpOK
  <1>2. u.refused \in [bytes : Seq(Nat), fin : BOOLEAN] /\ u.app \in Seq(Nat) /\ u.eof \in BOOLEAN
         /\ u.wnd \in Int
    BY <1>1 DEF UpRec
  <1>3. u.refused.bytes \in Seq(Nat) /\ u.refused.fin \in BOOLEAN  BY <1>2
  <1>4. Len(u.app) \in Nat /\ Len(u.refused.bytes) \in Nat  BY <1>2, <1>3, LenProperties
  <1> QED  BY <1>1, <1>2, <1>3, <1>4 DEF UpOK

(* The window that is left is at most the whole. *)
LEMMA UpWnd ==
  ASSUME NEW u, NEW rd, NEW n, UpOK(u, rd, n)
  PROVE  u.wnd \in Int /\ u.wnd <= Wnd
  <1>1. u.wnd \in Int /\ Len(u.app) \in Nat /\ rd \in 0..Len(u.app) /\ Len(u.refused.bytes) \in Nat
         /\ u.wnd = Wnd - (Len(u.app) - rd) - Len(u.refused.bytes) - (IF u.refused.fin THEN 1 ELSE 0)
    BY UpIs
  <1>2. PICK x, y \in Nat : x = Len(u.app) /\ y = Len(u.refused.bytes)  BY <1>1
  <1>3. rd \in 0..x /\ Wnd \in Nat  BY <1>1, <1>2, ConstIs
  <1>4. PICK f \in Nat : f = (IF u.refused.fin THEN 1 ELSE 0)  OBVIOUS
  <1>5. u.wnd = Wnd - (x - rd) - y - f  BY <1>1, <1>2, <1>4
  <1>6. PICK d \in Nat : d = x - rd  BY <1>3
  <1>7. u.wnd = Wnd - d - y - f  BY <1>5, <1>6
  <1> QED  BY <1>3, <1>7

(* The fields of NoData. *)
LEMMA NoDataIs ==
  /\ NoData \in [bytes : Seq(Nat), fin : BOOLEAN] /\ NoData.bytes = <<>> /\ NoData.fin = FALSE
  /\ Len(NoData.bytes) = 0
  <1>1. NoData.bytes = <<>> /\ NoData.fin = FALSE  BY DEF NoData
  <1>2. <<>> \in Seq(Nat) /\ Len(<<>>) = 0  OBVIOUS
  <1> QED  BY <1>1, <1>2 DEF NoData

(* A run of no bytes. *)
LEMMA RunEmpty == ASSUME NEW a \in Nat, a >= 1 PROVE Run(a, 0) = <<>>
  <1>1. Run(a, 0) \in Seq(Nat) /\ Len(Run(a, 0)) = 0  BY RunIs
  <1> QED  BY <1>1

(* Nothing is refused. *)
LEMMA UpFresh ==
  ASSUME NEW v \in UpRec, NEW rd, NEW n \in 1..(N + 2), NEW k \in Nat, v.refused = NoData,
         v.app = Run(1, k), rd \in 0..k, k = (IF n = N + 2 THEN N ELSE n - 1),
         v.eof <=> n = N + 2, v.wnd = Wnd - (k - rd)
  PROVE  UpOK(v, rd, n)
  <1>1. Len(v.app) = k  BY RunIs
  <1>2. Run(k + 1, 0) = <<>>
    <2>1. k + 1 \in Nat /\ k + 1 >= 1  OBVIOUS
    <2> QED  BY <2>1, RunEmpty
  <1>3. v.refused.bytes = <<>> /\ v.refused.fin = FALSE /\ Len(v.refused.bytes) = 0  BY NoDataIs
  <1>4. k + 0 = k /\ Wnd - (k - rd) - 0 - 0 = Wnd - (k - rd)  BY ConstIs
  <1>5. v.eof \in BOOLEAN  BY DEF UpRec
  <1> QED  BY <1>1, <1>2, <1>3, <1>4, <1>5 DEF UpOK

(* The bytes and the FIN from position n to before m reach the application,
   or wait as refused data, each once; the FIN's octet of the window is given
   back when the application is told of the end. *)
LEMMA DeliverOK ==
  ASSUME NEW u, NEW rd, NEW n \in 1..(N + 2), UpOK(u, rd, n), NEW m \in 1..(N + 2), n <= m,
         NEW w, w = u.wnd - (m - n), NEW fin \in BOOLEAN, fin <=> m = N + 2 /\ n # m,
         NEW bytes, bytes = Run(n, (m - n) - (IF fin THEN 1 ELSE 0)),
         u.refused = NoData \/ m = n, NEW accept \in BOOLEAN
  PROVE  LET v == Deliver([u EXCEPT !.wnd = w], bytes, fin, accept)
         IN  UpOK(v, rd, m) /\ w <= v.wnd
  <1> DEFINE u0 == [u EXCEPT !.wnd = w]
             v == Deliver(u0, bytes, fin, accept)
             a == Len(u.app)
             x == u.app \o bytes
             got == [u0 EXCEPT !.app = x]
  <1>0. N \in Nat /\ Wnd \in Nat  BY ConstIs
  <1>1. PICK l \in Nat : l = (m - n) - (IF fin THEN 1 ELSE 0)
    <2>1. (m - n) - (IF fin THEN 1 ELSE 0) \in Nat
      <3>1. CASE fin
        <4>1. (m - n) - 1 \in Nat  BY <1>0, <3>1
        <4> QED  BY <3>1, <4>1
      <3>2. CASE ~fin
        <4>1. (m - n) - 0 \in Nat  BY <1>0
        <4> QED  BY <3>2, <4>1
      <3> QED  BY <3>1, <3>2
    <2> QED  BY <2>1
  <1>2. bytes = Run(n, l) /\ bytes \in Seq(Nat) /\ Len(bytes) = l /\ (l = 0 <=> bytes = <<>>)
    <2>1. n \in Nat /\ n >= 1  BY <1>0
    <2>2. bytes = Run(n, l)  BY <1>1
    <2>3. \A i \in Nat : i >= 1 => Run(i, l) \in Seq(Nat) /\ Len(Run(i, l)) = l  BY RunIs
    <2>4. bytes \in Seq(Nat) /\ Len(bytes) = l  BY <2>1, <2>2, <2>3
    <2> QED  BY <2>2, <2>4
  <1>3. u \in UpRec /\ u.app \in Seq(Nat) /\ u.wnd \in Int /\ a \in Nat /\ rd \in 0..a
         /\ u.app = Run(1, a) /\ u.refused \in [bytes : Seq(Nat), fin : BOOLEAN] /\ u.eof \in BOOLEAN
    BY UpIs
  <1>4. w \in Int  BY <1>0, <1>3
  <1>5. u0 \in UpRec /\ u0.refused = u.refused /\ u0.app = u.app /\ u0.eof = u.eof /\ u0.wnd = w
    BY <1>3, <1>4 DEF UpRec
  <1>6. CASE m = n
    <2>1. fin = FALSE /\ l = 0 /\ bytes = <<>> /\ w = u.wnd  BY <1>0, <1>1, <1>2, <1>3, <1>6
    <2>2. u0 = u  BY <1>3, <2>1 DEF UpRec
    <2>3. v = u  BY <2>1, <2>2 DEF Deliver
    <2>4. w <= u.wnd  BY <1>3, <2>1
    <2> QED  BY <1>6, <2>3, <2>4
  <1>7. CASE m # n
    <2>0. a \in Int /\ rd \in Int /\ m \in Int /\ n \in Int /\ Wnd \in Int /\ l \in Int
      BY <1>0, <1>3
    <2>1. u.refused = NoData /\ n # N + 2 /\ n < m  BY <1>0, <1>7
    <2>2. Len(u.refused.bytes) = 0 /\ u.refused.fin = FALSE  BY <2>1, NoDataIs
    <2>3. a + 0 = n - 1 /\ u.eof = FALSE /\ u.wnd = Wnd - (a - rd) - 0 - 0
      BY <1>3, <2>1, <2>2, UpIs
    <2>4. n = 1 + a /\ u.wnd = Wnd - (a - rd)  BY <1>0, <1>3, <2>3
    <2>5. x \in Seq(Nat) /\ x = Run(1, a + l) /\ a + l \in Nat
      <3> HIDE DEF a
      <3>1. PICK o \in Nat : o = 1 /\ o >= 1  OBVIOUS
      <3>2. Run(o, a) \o Run(o + a, l) = Run(o, a + l)  BY <1>1, <1>3, <3>1, RunJoin
      <3>3. x = Run(o, a + l)  BY <1>2, <1>3, <2>4, <3>1, <3>2
      <3>4. a + l \in Nat  BY <1>1, <1>3
      <3>5. Run(o, a + l) \in Seq(Nat)  BY <3>1, <3>4, RunIs
      <3> QED  BY <3>1, <3>3, <3>4, <3>5
    <2>6. l = 0 => x = u.app
      <3> SUFFICES ASSUME l = 0 PROVE x = u.app  OBVIOUS
      <3>1. a + l = a  BY <1>3
      <3> QED  BY <1>3, <2>5, <3>1
    <2>7. rd \in 0..(a + l) /\ w = Wnd - (a - rd) - (m - n) /\ w < Wnd
      BY <1>0, <1>1, <1>3, <2>1, <2>4
    <2>8. fin => m = N + 2 /\ l = m - n - 1 /\ a + l = N  BY <1>0, <1>1, <1>3, <2>4
    <2>9. ~fin => m # N + 2 /\ l = m - n /\ a + l = m - 1  BY <1>0, <1>1, <1>3, <1>7, <2>4
    <2> HIDE DEF x, u0, a
    <2>10. got \in UpRec /\ got.refused = NoData /\ got.app = x /\ got.eof = FALSE /\ got.wnd = w
      BY <1>5, <2>1, <2>3, <2>5 DEF UpRec
    <2>11. l = 0 => got = u0  BY <1>5, <2>6, <2>10 DEF UpRec
    <2>12. CASE bytes # <<>> /\ ~accept
      <3>1. v = [u0 EXCEPT !.refused = [bytes |-> bytes, fin |-> fin]]  BY <2>12 DEF Deliver
      <3>2. v \in UpRec /\ v.refused.bytes = bytes /\ v.refused.fin = fin /\ v.app = u.app
             /\ v.eof = FALSE /\ v.wnd = w
        <4> DEFINE f == [bytes |-> bytes, fin |-> fin]
        <4>1. f \in [bytes : Seq(Nat), fin : BOOLEAN] /\ f.bytes = bytes /\ f.fin = fin  BY <1>2
        <4> HIDE DEF f, v
        <4>2. v = [u0 EXCEPT !.refused = f]  BY <3>1 DEF f
        <4>3. v \in UpRec /\ v.refused = f /\ v.app = u0.app /\ v.eof = u0.eof /\ v.wnd = u0.wnd
          BY <1>5, <4>1, <4>2 DEF UpRec
        <4> QED  BY <1>5, <2>3, <4>1, <4>3
      <3> HIDE DEF v
      <3>3. Len(v.app) = a /\ Len(v.refused.bytes) = l /\ bytes = Run(a + 1, l)
        <4>1. a + 1 = n  BY <1>3, <2>4
        <4> QED  BY <1>2, <3>2, <4>1 DEF a
      <3>4. a + l = IF m = N + 2 THEN N ELSE m - 1  BY <2>8, <2>9
      <3>5. w = Wnd - (a - rd) - l - (IF fin THEN 1 ELSE 0)
        <4>1. CASE fin
          <5>1. l = m - n - 1  BY <2>8, <4>1
          <5>2. w = Wnd - (a - rd) - l - 1  BY <2>0, <2>7, <5>1
          <5> QED  BY <4>1, <5>2
        <4>2. CASE ~fin
          <5>1. l = m - n  BY <2>9, <4>2
          <5>2. w = Wnd - (a - rd) - l - 0  BY <2>0, <2>7, <5>1
          <5> QED  BY <4>2, <5>2
        <4> QED  BY <4>1, <4>2
      <3>6. UpOK(v, rd, m)
        BY <1>3, <2>8, <2>9, <2>12, <3>2, <3>3, <3>4, <3>5 DEF UpOK
      <3>7. w <= v.wnd  BY <1>4, <3>2
      <3> QED  BY <3>6, <3>7 DEF v, u0
    <2>13. CASE ~(bytes # <<>> /\ ~accept)
      <3>1. v = IF fin THEN Close(got) ELSE got
        <4>1. CASE bytes = <<>>
          <5>1. got = u0  BY <1>2, <2>11, <4>1
          <5>2. v = IF fin THEN Close(u0) ELSE u0  BY <4>1 DEF Deliver
          <5> QED  BY <5>1, <5>2
        <4>2. CASE bytes # <<>>
          <5>1. accept  BY <2>13, <4>2
          <5>2. v = IF fin THEN Close([u0 EXCEPT !.app = u0.app \o bytes])
                    ELSE [u0 EXCEPT !.app = u0.app \o bytes]
            BY <1>5, <4>2, <5>1 DEF Deliver, UpRec
          <5>3. got = [u0 EXCEPT !.app = u0.app \o bytes]  BY <1>5 DEF x
          <5> QED  BY <5>2, <5>3
        <4> QED  BY <4>1, <4>2
      <3> HIDE DEF v, got
      <3>2. CASE ~fin
        <4>1. v = got  BY <3>1, <3>2
        <4>2. a + l = IF m = N + 2 THEN N ELSE m - 1  BY <2>9, <3>2
        <4>3. w = Wnd - ((a + l) - rd)  BY <1>0, <1>1, <1>3, <2>7, <2>9, <3>2
        <4>4. UpOK(v, rd, m)
          BY <2>5, <2>7, <2>9, <2>10, <3>2, <4>1, <4>2, <4>3, UpFresh
        <4>5. w <= v.wnd  BY <1>4, <2>10, <4>1
        <4> QED  BY <4>4, <4>5 DEF v, u0
      <3>3. CASE fin
        <4>1. v = [got EXCEPT !.eof = TRUE, !.wnd = GiveBackFin(got.wnd)]
          BY <2>10, <3>1, <3>3 DEF Close, UpRec
        <4>2. GiveBackFin(got.wnd) = w + 1 /\ w + 1 \in Int
          BY <1>0, <1>4, <2>7, <2>10 DEF GiveBackFin
        <4>3. v \in UpRec /\ v.refused = NoData /\ v.app = x /\ v.eof = TRUE /\ v.wnd = w + 1
          BY <2>10, <4>1, <4>2 DEF UpRec
        <4>4. a + l = IF m = N + 2 THEN N ELSE m - 1  BY <2>8, <3>3
        <4>5. w + 1 = Wnd - ((a + l) - rd)
          <5>1. l = m - n - 1  BY <2>8, <3>3
          <5> QED  BY <2>0, <2>7, <5>1
        <4>6. UpOK(v, rd, m)
          BY <2>5, <2>7, <2>8, <3>3, <4>3, <4>4, <4>5, UpFresh
        <4>7. w <= v.wnd  BY <1>4, <4>3
        <4> QED  BY <4>6, <4>7 DEF v, u0
      <3> QED  BY <3>2, <3>3
    <2> QED  BY <2>12, <2>13
  <1> QED  BY <1>6, <1>7

(* tcp_process_refused_data: what was refused is taken whole, with its FIN, or
   refused again. *)
LEMMA ProcessRefusedOK ==
  ASSUME NEW u, NEW rd, NEW n \in 1..(N + 2), UpOK(u, rd, n), NEW accept \in BOOLEAN
  PROVE  LET v == ProcessRefused(u, accept) IN UpOK(v, rd, n) /\ u.wnd <= v.wnd
  <1> DEFINE v == ProcessRefused(u, accept)
             a == Len(u.app)
             b == Len(u.refused.bytes)
             fin == u.refused.fin
             c == b + (IF fin THEN 1 ELSE 0)
             z == [u EXCEPT !.refused = NoData, !.wnd = u.wnd + c]
  <1>0. N \in Nat /\ Wnd \in Nat  BY ConstIs
  <1>1. u \in UpRec /\ u.app \in Seq(Nat) /\ u.wnd \in Int /\ a \in Nat /\ b \in Nat /\ rd \in 0..a
         /\ u.app = Run(1, a) /\ u.refused \in [bytes : Seq(Nat), fin : BOOLEAN] /\ u.eof \in BOOLEAN
         /\ u.refused.bytes = Run(a + 1, b) /\ fin \in BOOLEAN /\ u.refused.bytes \in Seq(Nat)
         /\ (u.refused.bytes = <<>> => ~fin) /\ a + b = (IF n = N + 2 THEN N ELSE n - 1)
         /\ (n = N + 2 <=> u.eof \/ fin) /\ (u.eof => u.refused = NoData)
         /\ u.wnd = Wnd - (a - rd) - b - (IF fin THEN 1 ELSE 0)
    BY UpIs
  <1>2. CASE u.refused = NoData
    <2>1. v = u  BY <1>2 DEF ProcessRefused
    <2>2. u.wnd <= u.wnd  BY <1>1
    <2> QED  BY <2>1, <2>2
  <1>3. CASE u.refused # NoData
    <2>1. v = Deliver([u EXCEPT !.refused = NoData], u.refused.bytes, fin, accept)
      BY <1>3 DEF ProcessRefused
    <2>2. u.refused.bytes # <<>> /\ b # 0 /\ u.eof = FALSE
      <3>1. u.refused.bytes # <<>>
        <4> SUFFICES ASSUME u.refused.bytes = <<>> PROVE FALSE  OBVIOUS
        <4>1. u.refused = [bytes |-> <<>>, fin |-> FALSE]  BY <1>1
        <4> QED  BY <1>3, <4>1 DEF NoData
      <3> QED  BY <1>1, <1>3, <3>1
    <2> HIDE DEF a, b, fin
    <2>3. c \in Nat /\ c >= 1  BY <1>1, <2>2
    <2>4. n = (a + 1) + c /\ a + 1 \in 1..(N + 2) /\ a + 1 # N + 2 /\ (fin <=> n = N + 2)
      BY <1>0, <1>1, <2>2
    <2>5. (n - (a + 1)) - (IF fin THEN 1 ELSE 0) = b  BY <1>0, <1>1, <2>4
    <2>6. u.wnd + c = Wnd - (a - rd) /\ u.wnd + c \in Int
      <3>1. CASE fin
        <4>1. c = b + 1 /\ u.wnd = Wnd - (a - rd) - b - 1  BY <1>1, <3>1
        <4> QED  BY <1>0, <1>1, <4>1
      <3>2. CASE ~fin
        <4>1. c = b + 0 /\ u.wnd = Wnd - (a - rd) - b - 0  BY <1>1, <3>2
        <4> QED  BY <1>0, <1>1, <4>1
      <3> QED  BY <3>1, <3>2
    <2> HIDE DEF c
    <2>7. z \in UpRec /\ z.refused = NoData /\ z.app = u.app /\ z.eof = FALSE /\ z.wnd = u.wnd + c
      BY <1>1, <2>2, <2>6, NoDataIs DEF UpRec
    <2>8. [z EXCEPT !.wnd = u.wnd] = [u EXCEPT !.refused = NoData]  BY <1>1, NoDataIs DEF UpRec
    <2> HIDE DEF z, v
    <2>9. UpOK(z, rd, a + 1)
      <3>1. a = (IF a + 1 = N + 2 THEN N ELSE (a + 1) - 1)  BY <1>0, <1>1, <2>4
      <3> QED  BY <1>1, <2>4, <2>6, <2>7, <3>1, UpFresh
    <2>10. u.wnd = z.wnd - (n - (a + 1)) /\ a + 1 <= n /\ a + 1 # n  BY <1>0, <1>1, <2>3, <2>4, <2>7
    <2>11. u.refused.bytes = Run(a + 1, (n - (a + 1)) - (IF fin THEN 1 ELSE 0))  BY <1>1, <2>5
    <2>12. PICK k \in 1..(N + 2) : k = a + 1  BY <2>4
    <2>13. PICK d : d = u.refused.bytes  OBVIOUS
    <2>14. UpOK(Deliver([z EXCEPT !.wnd = u.wnd], d, fin, accept), rd, n)
            /\ u.wnd <= Deliver([z EXCEPT !.wnd = u.wnd], d, fin, accept).wnd
      <3>1. UpOK(z, rd, k) /\ k <= n /\ u.wnd = z.wnd - (n - k)  BY <2>9, <2>10, <2>12
      <3>2. fin <=> n = N + 2 /\ k # n  BY <2>4, <2>10, <2>12
      <3>3. d = Run(k, (n - k) - (IF fin THEN 1 ELSE 0))  BY <2>11, <2>12, <2>13
      <3>4. z.refused = NoData /\ fin \in BOOLEAN  BY <1>1, <2>7
      <3> QED  BY <3>1, <3>2, <3>3, <3>4, DeliverOK
    <2> QED  BY <2>1, <2>8, <2>13, <2>14 DEF v
  <1> QED  BY <1>2, <1>3

-----------------------------------------------------------------------------
(***************************************************************************)
(* The steps.  Each one leaves the receiver at a position m, not before    *)
(* the old one, with an edge g that is not before the old one.             *)
(***************************************************************************)
Moves == \E m, g \in Pos : Edge <= g /\ PcbOK(pcb', m, g) /\ UpOK(Up', read', m)

(* The positions can be read off the state. *)
LEMMA PlaceIs ==
  ASSUME NEW p, NEW u, NEW rd, NEW m, NEW g, PcbOK(p, m, g), UpOK(u, rd, m)
  PROVE  /\ Len(u.app) + Len(u.refused.bytes) + 1 + (IF p.state = "close_wait" THEN 1 ELSE 0) = m
         /\ Diff(p.right_edge, Iss) = g
  <1>1. CoreOK(p, m, g) /\ (p.state = "close_wait" <=> m = N + 2)  BY DEF PcbOK
  <1>2. m \in Pos /\ m <= N + 2 /\ g \in Pos /\ p.right_edge = Seqno(g)  BY <1>1, CoreIs
  <1>3. N \in Nat /\ g \in Nat /\ g < WndSpace /\ m \in Int  BY <1>2, ConstIs DEF Pos
  <1>4. Len(u.app) + Len(u.refused.bytes) = (IF m = N + 2 THEN N ELSE m - 1)
         /\ Len(u.app) \in Nat /\ Len(u.refused.bytes) \in Nat
    BY UpIs
  <1>5. Diff(p.right_edge, Iss) = g  BY <1>2, <1>3, PositionIs
  <1>6. CASE m = N + 2
    <2>1. Len(u.app) + Len(u.refused.bytes) = N /\ p.state = "close_wait"  BY <1>1, <1>4, <1>6
    <2>2. PICK x, y \in Nat : x = Len(u.app) /\ y = Len(u.refused.bytes)  BY <1>4
    <2>3. x + y = N  BY <2>1, <2>2
    <2>4. x + y + 1 + 1 = m  BY <1>3, <1>6, <2>3
    <2> QED  BY <1>5, <2>1, <2>2, <2>4
  <1>7. CASE m # N + 2
    <2>1. Len(u.app) + Len(u.refused.bytes) = m - 1 /\ p.state # "close_wait"  BY <1>1, <1>4, <1>7
    <2>2. PICK x, y \in Nat : x = Len(u.app) /\ y = Len(u.refused.bytes)  BY <1>4
    <2>3. x + y = m - 1  BY <2>1, <2>2
    <2>4. x + y + 1 + 0 = m  BY <1>3, <2>3
    <2> QED  BY <1>5, <2>1, <2>2, <2>4
  <1> QED  BY <1>6, <1>7

(* Moves keeps the invariant and moves the edge on. *)
LEMMA MovesOK == Moves /\ fin_read' \in BOOLEAN => TcpInv' /\ Edge <= Edge'
  <1> SUFFICES ASSUME Moves, fin_read' \in BOOLEAN PROVE TcpInv' /\ Edge <= Edge'  OBVIOUS
  <1>1. PICK m, g \in Pos : Edge <= g /\ PcbOK(pcb', m, g) /\ UpOK(Up', read', m)  BY DEF Moves
  <1>2. Len(Up'.app) + Len(Up'.refused.bytes) + 1 + (IF pcb'.state = "close_wait" THEN 1 ELSE 0) = m
         /\ Diff(pcb'.right_edge, Iss) = g
    BY <1>1, PlaceIs
  <1>3. Up'.app = app' /\ Up'.refused = refused'  BY DEF Up
  <1>4. Nxt' = m  BY <1>2, <1>3 DEF Nxt, FinTaken
  <1>5. Edge' = g  BY <1>2 DEF Edge
  <1>6. PcbOK(pcb', Nxt', Edge') /\ UpOK(Up', read', Nxt')  BY <1>1, <1>4, <1>5
  <1>7. TcpInv'  BY <1>6 DEF TcpInv
  <1> QED  BY <1>1, <1>5, <1>7

(* A pcb whose fields changed, but not its state. *)
LEMMA SameState ==
  ASSUME NEW p, NEW m, NEW g, PcbOK(p, m, g), NEW r, NEW h, CoreOK(r, m, h), r.state = p.state
  PROVE  PcbOK(r, m, h)
  BY DEF PcbOK

(* SetUp: the window that the application's data leaves becomes rcv_wnd. *)
LEMMA SetUpOK ==
  ASSUME NEW p, NEW m \in Pos, NEW g \in Pos, Edge <= g, PcbOK(p, m, g), NEW u, UpOK(u, read, m),
         p.rcv_wnd <= u.wnd, SetUp(u, p), read' = read
  PROVE  Moves
  <1> DEFINE r == [p EXCEPT !.rcv_wnd = u.wnd]
  <1>1. CoreOK(p, m, g)  BY DEF PcbOK
  <1>2. Wnd \in Nat /\ p.rcv_wnd \in 0..Wnd  BY <1>1, CoreIs, ConstIs
  <1>3. u.wnd \in 0..Wnd
    <2>1. u.wnd \in Int /\ u.wnd <= Wnd  BY UpWnd
    <2> QED  BY <1>2, <2>1
  <1>4. CoreOK(r, m, g) /\ r.rcv_wnd = u.wnd /\ r.state = p.state  BY <1>1, <1>3, WndOK
  <1>5. pcb' = r /\ refused' = u.refused /\ app' = u.app /\ eof' = u.eof  BY DEF SetUp
  <1> HIDE DEF r
  <1>6. PcbOK(pcb', m, g)  BY <1>4, <1>5, SameState
  <1>7. u \in UpRec  BY UpIs
  <1>8. u = [refused |-> u.refused, app |-> u.app, eof |-> u.eof, wnd |-> u.wnd]  BY <1>7 DEF UpRec
  <1>9. Up' = u  BY <1>4, <1>5, <1>8 DEF Up
  <1> QED  BY <1>6, <1>9 DEF Moves

(* What the peer may send is a segment of the stream within the edge, or a
   probe. *)
LEMMA SegmentsOK ==
  ASSUME TcpInv, NEW s \in Segments
  PROVE  Sendable(s, Nxt, Edge)
  <1> DEFINE n == Nxt
             e == Edge
  <1>0. CoreOK(pcb, n, e)  BY DEF TcpInv, PcbOK
  <1> HIDE DEF n, e
  <1>1. n \in Pos /\ n <= N + 2 /\ e \in Pos /\ pcb.rcv_nxt = Seqno(n) /\ pcb.right_edge = Seqno(e)
    BY <1>0, CoreIs
  <1>2. N \in Nat /\ Wnd \in Nat /\ Mss \in Nat /\ Wnd >= 1  BY ConstIs
  <1>3. PICK at \in 1..(N + 2), len \in 0..Mss, fin \in BOOLEAN : s = Segment(at, len, fin)
    BY DEF Segments
  <1>4. s = [seq |-> Seqno(at), at |-> at, len |-> len, fin |-> fin]  BY <1>3 DEF Segment
  <1>5. s.seq = Seqno(at) /\ s.at = at /\ s.len = len /\ s.fin = fin  BY <1>4
  <1>6. at \in Nat /\ len \in Nat /\ at \in Int /\ at \in Pos  BY <1>2 DEF Pos
  <1>7. Seqno(at) \in Int
    <2>1. Seqno(at) \in 0..(SeqSpace - 1) /\ SeqSpace \in Nat  BY <1>6, SeqnoIs, ConstIs
    <2> QED  BY <2>1
  <1>8. s \in Seg  BY <1>4, <1>6, <1>7 DEF Seg
  <1>9. TcpLen(s) \in Nat  BY <1>5, <1>6 DEF TcpLen
  <1>10. /\ s.at + s.len <= N + 1 \/ (s.at = N + 2 /\ TcpLen(s) = 0)
         /\ s.fin => s.at + s.len = N + 1
         /\ Allowed(s)
    BY DEF Segments
  <1>11. ASSUME TcpLen(s) >= 1 PROVE SegOK(s, e) \/ (e <= n /\ s.at = e /\ SegOK(s, e + 1))
    <2>1. s.at + s.len <= N + 1 /\ (s.fin => s.at + s.len = N + 1)  BY <1>9, <1>10, <1>11
    <2>2. s.at >= 1  BY <1>2, <1>5
    <2>3. CASE s.at + TcpLen(s) <= Edge
      <3>1. After(s) <= e  BY <2>3 DEF After, e
      <3> QED  BY <1>5, <1>8, <1>11, <2>1, <2>2, <3>1 DEF SegOK
    <2>4. CASE SeqLEQ(pcb.right_edge, pcb.rcv_nxt) /\ s.at >= Edge /\ s.at + TcpLen(s) <= Edge + 1
      <3>1. e <= n  BY <1>1, <2>4, PosOrder
      <3>2. s.at >= e /\ s.at + TcpLen(s) <= e + 1  BY <2>4 DEF e
      <3>3. s.at = e  BY <1>1, <1>5, <1>6, <1>9, <1>11, <3>2 DEF Pos
      <3>4. SegOK(s, e + 1)  BY <1>5, <1>8, <1>11, <2>1, <2>2, <3>2 DEF SegOK, After
      <3> QED  BY <3>1, <3>3, <3>4
    <2> QED  BY <1>10, <2>3, <2>4 DEF Allowed
  <1> QED  BY <1>9, <1>11 DEF Sendable, n, e

(* tcp_input *)
LEMMA InputOK ==
  ASSUME TcpInv, NEW s, Sendable(s, Nxt, Edge), NEW mem \in BOOLEAN, NEW again \in BOOLEAN,
         NEW accept \in BOOLEAN, NEW out \in Outcome, Input(s, mem, again, accept, out)
  PROVE  Moves
  <1> DEFINE n == Nxt
             e == Edge
             u == ProcessRefused(Up, again)
             p == [pcb EXCEPT !.rcv_wnd = u.wnd]
             r == Process(p, s, mem, out)
  <1>0. PcbOK(pcb, n, e) /\ UpOK(Up, read, n) /\ Sendable(s, n, e)  BY DEF TcpInv
  <1>1. CoreOK(pcb, n, e)  BY <1>0 DEF PcbOK
  <1>2. IF DropsSegment(u, s)
          THEN SetUp(u, IF p.ann_wnd = 0 THEN EmptyAck(p, out) ELSE p)
        ELSE SetUp(Deliver([u EXCEPT !.wnd = r.pcb.rcv_wnd], r.bytes, r.fin, accept), Output(r.pcb, out))
    BY DEF Input
  <1>3. read' = read /\ Up.wnd = pcb.rcv_wnd  BY DEF Input, Up
  <1> HIDE DEF n, u
  <1>4. n \in 1..(N + 2) /\ n \in Pos /\ n >= 1 /\ e \in Pos /\ pcb.rcv_wnd \in 0..Wnd
    <2>1. n \in 1..(N + 2)  BY <1>1 DEF CoreOK
    <2> QED  BY <1>1, <2>1, CoreIs
  <1>5. UpOK(u, read, n) /\ pcb.rcv_wnd <= u.wnd  BY <1>0, <1>3, <1>4, ProcessRefusedOK DEF u
  <1>6. u.wnd \in 0..Wnd /\ u.wnd \in Int /\ Wnd \in Nat
    <2>1. u.wnd \in Int /\ u.wnd <= Wnd  BY <1>5, UpWnd
    <2>2. Wnd \in Nat  BY ConstIs
    <2> QED  BY <1>4, <1>5, <2>1, <2>2
  <1>7. CoreOK(p, n, e) /\ p.rcv_wnd = u.wnd /\ p.state = pcb.state  BY <1>1, <1>5, <1>6, WndOK
  <1> HIDE DEF p
  <1>8. PcbOK(p, n, e)  BY <1>0, <1>7, SameState
  <1>9. u.wnd <= u.wnd /\ e <= e  BY <1>4, <1>6 DEF Pos
  <1>10. CASE DropsSegment(u, s)
    <2> DEFINE c == IF p.ann_wnd = 0 THEN EmptyAck(p, out) ELSE p
    <2>1. SetUp(u, c)  BY <1>2, <1>10
    <2>2. c.rcv_wnd = u.wnd /\ c.state = p.state /\ \E g \in Pos : e <= g /\ CoreOK(c, n, g)
      <3>1. CASE p.ann_wnd = 0
        <4>1. c = EmptyAck(p, out)  BY <3>1
        <4> HIDE DEF c
        <4> QED  BY <1>7, <4>1, EmptyAckOK
      <3>2. CASE p.ann_wnd # 0
        <4>1. c = p  BY <3>2
        <4> QED  BY <1>4, <1>7, <1>9, <4>1
      <3> QED  BY <3>1, <3>2
    <2> HIDE DEF c
    <2>3. PICK g \in Pos : e <= g /\ CoreOK(c, n, g)  BY <2>2
    <2>4. PcbOK(c, n, g)  BY <1>8, <2>2, <2>3, SameState
    <2> QED  BY <1>3, <1>4, <1>5, <1>9, <2>1, <2>2, <2>3, <2>4, SetUpOK
  <1>11. CASE ~DropsSegment(u, s)
    <2>1. PICK m, g \in Pos : /\ e <= g /\ PcbOK(r.pcb, m, g) /\ Yields(p, r, n, m)
                              /\ (TcpLen(s) = 0 => m = n)
      BY <1>0, <1>8, ProcessOK
    <2> HIDE DEF r
    <2> DEFINE w == r.pcb.rcv_wnd
               v == Deliver([u EXCEPT !.wnd = w], r.bytes, r.fin, accept)
               c == Output(r.pcb, out)
    <2>2. SetUp(v, c)  BY <1>2, <1>11
    <2>3. CoreOK(r.pcb, m, g)  BY <2>1 DEF PcbOK
    <2>4. m \in 1..(N + 2)  BY <2>3 DEF CoreOK
    <2>5. n <= m /\ w = u.wnd - (m - n) /\ r.fin \in BOOLEAN /\ (r.fin <=> m = N + 2 /\ n # m)
           /\ r.bytes = Run(n, (m - n) - (IF r.fin THEN 1 ELSE 0))
      BY <1>7, <2>1 DEF Yields
    <2>6. u.refused = NoData \/ m = n
      <3>1. u.refused = NoData \/ ~(TcpLen(s) > 0)  BY <1>11 DEF DropsSegment
      <3>2. TcpLen(s) \in Nat  BY <1>0 DEF Sendable
      <3> QED  BY <2>1, <3>1, <3>2
    <2>7. UpOK(v, read, m) /\ w <= v.wnd
      <3>1. PICK b : b = r.bytes  OBVIOUS
      <3>2. PICK f \in BOOLEAN : f = r.fin  BY <2>5
      <3>3. PICK w0 : w0 = w  OBVIOUS
      <3>4. b = Run(n, (m - n) - (IF f THEN 1 ELSE 0)) /\ (f <=> m = N + 2 /\ n # m)
             /\ w0 = u.wnd - (m - n) /\ n <= m
        BY <2>5, <3>1, <3>2, <3>3
      <3>5. UpOK(Deliver([u EXCEPT !.wnd = w0], b, f, accept), read, m)
             /\ w0 <= Deliver([u EXCEPT !.wnd = w0], b, f, accept).wnd
        BY <1>4, <1>5, <2>4, <2>6, <3>4, DeliverOK
      <3> QED  BY <3>1, <3>2, <3>3, <3>5
    <2>8. c.rcv_wnd = w /\ c.state = r.pcb.state  BY <2>3, OutputOK
    <2>9. PICK h \in Pos : g <= h /\ CoreOK(c, m, h)  BY <2>3, OutputOK
    <2> HIDE DEF v, c, w
    <2>10. PcbOK(c, m, h)  BY <2>1, <2>8, <2>9, SameState
    <2>11. e <= h  BY <1>4, <2>1, <2>9 DEF Pos
    <2> QED  BY <1>3, <2>1, <2>2, <2>7, <2>8, <2>9, <2>10, <2>11, SetUpOK
  <1> QED  BY <1>10, <1>11

(* What the invariant says of the state, with n and e for its positions. *)
LEMMA InvIs ==
  ASSUME TcpInv
  PROVE  /\ PcbOK(pcb, Nxt, Edge) /\ CoreOK(pcb, Nxt, Edge) /\ UpOK(Up, read, Nxt)
         /\ Nxt \in 1..(N + 2) /\ Nxt \in Pos /\ Edge \in Pos /\ Edge <= Edge
         /\ Up.wnd = pcb.rcv_wnd /\ Up.app = app /\ Up.refused = refused /\ Up.eof = eof
  <1>1. PcbOK(pcb, Nxt, Edge) /\ UpOK(Up, read, Nxt)  BY DEF TcpInv
  <1>2. CoreOK(pcb, Nxt, Edge)  BY <1>1 DEF PcbOK
  <1>3. Nxt \in 1..(N + 2)  BY <1>2 DEF CoreOK
  <1>4. Nxt \in Pos /\ Edge \in Pos  BY <1>2, CoreIs
  <1>5. Edge <= Edge  BY <1>4 DEF Pos
  <1>6. Up.wnd = pcb.rcv_wnd /\ Up.app = app /\ Up.refused = refused /\ Up.eof = eof  BY DEF Up
  <1> QED  BY <1>1, <1>2, <1>3, <1>4, <1>5, <1>6

(* tcp_fasttmr *)
LEMMA FastTmrOK ==
  ASSUME TcpInv, NEW accept \in BOOLEAN, NEW out \in Outcome, FastTmr(accept, out)
  PROVE  Moves
  <1> DEFINE n == Nxt
             e == Edge
             u == ProcessRefused(Up, accept)
             c == FastAck(pcb, out)
  <1>0. PcbOK(pcb, n, e) /\ CoreOK(pcb, n, e) /\ UpOK(Up, read, n) /\ n \in 1..(N + 2) /\ n \in Pos
         /\ e \in Pos /\ e <= e /\ Up.wnd = pcb.rcv_wnd
    BY InvIs
  <1>1. SetUp(u, c) /\ read' = read  BY DEF FastTmr
  <1> HIDE DEF n
  <1>2. UpOK(u, read, n) /\ pcb.rcv_wnd <= u.wnd  BY <1>0, ProcessRefusedOK
  <1> HIDE DEF u
  <1>3. c.rcv_wnd = pcb.rcv_wnd /\ c.state = pcb.state /\ \E g \in Pos : e <= g /\ CoreOK(c, n, g)
    <2>1. CASE "delay" \in pcb.ack
      <3> DEFINE a == AckNow(pcb)
                 o == Output(a, out)
      <3>1. CoreOK(a, n, e) /\ a.rcv_wnd = pcb.rcv_wnd /\ a.state = pcb.state  BY <1>0, AcksOK
      <3> HIDE DEF a
      <3>2. o.rcv_wnd = pcb.rcv_wnd /\ o.state = pcb.state  BY <3>1, OutputOK
      <3>3. PICK g \in Pos : e <= g /\ CoreOK(o, n, g)  BY <3>1, OutputOK
      <3>4. c = [o EXCEPT !.ack = {}]  BY <2>1 DEF FastAck, a
      <3> HIDE DEF c, o
      <3>5. {} \in SUBSET {"delay", "now"}  OBVIOUS
      <3>6. CoreOK(c, n, g) /\ c.rcv_wnd = o.rcv_wnd /\ c.state = o.state  BY <3>3, <3>4, <3>5, AckOK
      <3> QED  BY <3>2, <3>3, <3>6 DEF c
    <2>2. CASE "delay" \notin pcb.ack
      <3>1. c = pcb  BY <2>2 DEF FastAck
      <3> QED  BY <1>0, <3>1
    <2> QED  BY <2>1, <2>2
  <1> HIDE DEF c
  <1>4. PICK g \in Pos : e <= g /\ CoreOK(c, n, g)  BY <1>3
  <1>5. PcbOK(c, n, g)  BY <1>0, <1>3, <1>4, SameState
  <1> QED  BY <1>0, <1>1, <1>2, <1>3, <1>4, <1>5, SetUpOK

(* tcp_free_ooseq *)
LEMMA FreeOoseqOK ==
  ASSUME TcpInv, FreeOoseq
  PROVE  Moves
  <1>0. PcbOK(pcb, Nxt, Edge) /\ CoreOK(pcb, Nxt, Edge) /\ UpOK(Up, read, Nxt) /\ Nxt \in Pos
         /\ Edge \in Pos /\ Edge <= Edge
    BY InvIs
  <1>1. pcb' = [pcb EXCEPT !.ooseq = <<>>] /\ refused' = refused /\ app' = app /\ read' = read /\ eof' = eof
    BY DEF FreeOoseq
  <1>2. CoreOK(pcb', Nxt, Edge) /\ pcb'.rcv_wnd = pcb.rcv_wnd /\ pcb'.state = pcb.state
    BY <1>0, <1>1, EmptyOK, OoseqOK
  <1>3. PcbOK(pcb', Nxt, Edge)  BY <1>0, <1>2, SameState
  <1>4. Up' = Up  BY <1>1, <1>2 DEF Up
  <1>5. UpOK(Up', read', Nxt)  BY <1>0, <1>1, <1>4
  <1> QED  BY <1>0, <1>3, <1>5 DEF Moves

(* The window after tcp_recved: what was reported fits, or the window is full. *)
LEMMA InflatedIs ==
  ASSUME NEW p, p.rcv_wnd \in 0..Wnd, NEW k \in 1..Wnd, NEW w \in 0..Wnd,
         p.rcv_wnd + k = w \/ (p.rcv_wnd + k = Wnd + 1 /\ w = Wnd)
  PROVE  Inflated(p, k) = w
  <1> DEFINE a == p.rcv_wnd + k
             S == {a, Wnd}
  <1>1. Wnd \in Nat /\ WndSpace \in Nat /\ Wnd + 1 < WndSpace
    <2>1. N \in Nat /\ Wnd \in Nat /\ WndSpace \in Nat /\ N + Wnd + 2 < WndSpace  BY ConstIs
    <2> QED  BY <2>1
  <1>2. a \in Nat /\ a < WndSpace /\ p.rcv_wnd < a  BY <1>1
  <1>3. a % WndSpace = a
    <2> HIDE DEF a
    <2> QED  BY <1>1, <1>2
  <1>4. ~Wraps(p, k)
    <2>1. ~(a <= p.rcv_wnd)  BY <1>1, <1>2
    <2> QED  BY <1>3, <2>1 DEF Wraps
  <1>5. w \in S /\ \A i \in S : w <= i  BY <1>1, <1>2
  <1>6. \A i \in S : i \in Nat  BY <1>1, <1>2
  <1>7. Inflated(p, k) = Min(S)  BY <1>4 DEF Inflated
  <1> HIDE DEF S
  <1>8. Min(S) \in S /\ \A i \in S : Min(S) <= i  BY <1>5 DEF Min
  <1>9. Min(S) <= w /\ w <= Min(S) /\ Min(S) \in Nat /\ w \in Nat  BY <1>1, <1>5, <1>6, <1>8
  <1>10. Min(S) = w  BY <1>9
  <1> QED  BY <1>7, <1>10

(* tcp_recved: the window grows, the edge follows. *)
LEMMA RecvedOK ==
  ASSUME TcpInv, NEW k, NEW out \in Outcome, Recved(k, out),
         NEW w \in 0..Wnd, Inflated(pcb, k) = w, pcb.rcv_wnd <= w
  PROVE  pcb'.rcv_wnd = w /\ \E g \in Pos : Edge <= g /\ PcbOK(pcb', Nxt, g)
  <1> DEFINE n == Nxt
             e == Edge
             p == [pcb EXCEPT !.rcv_wnd = w]
             c == IF Inflation(p) >= UpdateThreshold THEN Output(AckNow(UpdateAnn(p)), out) ELSE UpdateAnn(p)
  <1>0. PcbOK(pcb, n, e) /\ CoreOK(pcb, n, e) /\ n \in 1..(N + 2) /\ n \in Pos /\ e \in Pos /\ e <= e
    BY InvIs
  <1>1. pcb' = c  BY DEF Recved
  <1> HIDE DEF n, p
  <1>10. CoreOK(p, n, e) /\ p.rcv_wnd = w /\ p.state = pcb.state  BY <1>0, WndOK DEF p
  <1> DEFINE a == UpdateAnn(p)
  <1>11. CoreOK(a, n, e) /\ a.rcv_wnd = w /\ a.state = pcb.state
    <2>1. p \in Pcb /\ e \in Nat /\ p.rcv_nxt = Seqno(n) /\ p.right_edge = Seqno(e) /\ n - 1 <= e
           /\ e <= n + p.rcv_wnd /\ QueueOK(p.ooseq, n, e)
      BY <1>0, <1>10, CoreIs DEF Pos
    <2> HIDE DEF e
    <2> QED  BY <1>0, <1>10, <2>1, UpdateAnnOK
  <1> HIDE DEF a
  <1>12. c.rcv_wnd = w /\ c.state = pcb.state /\ \E g \in Pos : e <= g /\ CoreOK(c, n, g)
    <2>1. CASE Inflation(p) >= UpdateThreshold
      <3>1. c = Output(AckNow(a), out)  BY <2>1 DEF a
      <3> DEFINE b == AckNow(a)
      <3>2. CoreOK(b, n, e) /\ b.rcv_wnd = w /\ b.state = pcb.state  BY <1>11, AcksOK
      <3> HIDE DEF b, c
      <3>3. c = Output(b, out)  BY <3>1 DEF b
      <3>4. c.rcv_wnd = w /\ c.state = pcb.state /\ \E g \in Pos : e <= g /\ CoreOK(c, n, g)
        BY <3>2, <3>3, OutputOK
      <3> QED  BY <3>4 DEF c
    <2>2. CASE ~(Inflation(p) >= UpdateThreshold)
      <3>1. c = a  BY <2>2 DEF a
      <3> HIDE DEF c
      <3>2. c.rcv_wnd = w /\ c.state = pcb.state /\ \E g \in Pos : e <= g /\ CoreOK(c, n, g)
        BY <1>0, <1>11, <3>1
      <3> QED  BY <3>2 DEF c
    <2> QED  BY <2>1, <2>2
  <1> HIDE DEF c
  <1>13. PICK g \in Pos : e <= g /\ CoreOK(c, n, g)  BY <1>12
  <1>14. PcbOK(pcb', n, g)  BY <1>0, <1>1, <1>12, <1>13, SameState
  <1> QED  BY <1>1, <1>12, <1>13, <1>14 DEF n

(* The bytes the application has done with are free again. *)
LEMMA DataDoneOK ==
  ASSUME TcpInv, NEW k \in 1..Wnd, NEW out \in Outcome, DataDone(k, out)
  PROVE  Moves
  <1> DEFINE n == Nxt
  <1>0. CoreOK(pcb, n, Edge) /\ UpOK(Up, read, n) /\ n \in Pos /\ Up.wnd = pcb.rcv_wnd
         /\ Up.app = app /\ Up.refused = refused /\ Up.eof = eof
    BY InvIs
  <1>1. k <= Len(app) - read /\ read' = read + k /\ Recved(k, out)
         /\ refused' = refused /\ app' = app /\ eof' = eof
    BY DEF DataDone
  <1> HIDE DEF n
  <1>2. Wnd \in Nat  BY ConstIs
  <1>3. Up.wnd \in Int /\ Len(app) \in Nat /\ read \in 0..Len(app) /\ Len(refused.bytes) \in Nat
         /\ pcb.rcv_wnd = Wnd - (Len(app) - read) - Len(refused.bytes) - (IF refused.fin THEN 1 ELSE 0)
    BY <1>0, UpIs
  <1>4. PICK x, y, f \in Nat : x = Len(app) /\ y = Len(refused.bytes) /\ f = (IF refused.fin THEN 1 ELSE 0)
    <2>1. (IF refused.fin THEN 1 ELSE 0) \in Nat  OBVIOUS
    <2> QED  BY <1>3, <2>1
  <1>5. k <= x - read /\ read \in 0..x /\ pcb.rcv_wnd = Wnd - (x - read) - y - f  BY <1>1, <1>3, <1>4
  <1>6. pcb.rcv_wnd \in 0..Wnd  BY <1>0, CoreIs
  <1>7. PICK w \in 0..Wnd : w = pcb.rcv_wnd + k /\ pcb.rcv_wnd <= w
    <2>1. PICK d \in Nat : d = x - read  BY <1>5
    <2>2. k <= d /\ pcb.rcv_wnd = Wnd - d - y - f  BY <1>5, <2>1
    <2>3. pcb.rcv_wnd + k \in 0..Wnd /\ pcb.rcv_wnd <= pcb.rcv_wnd + k  BY <1>2, <1>6, <2>2
    <2> QED  BY <2>3
  <1>8. Inflated(pcb, k) = w  BY <1>6, <1>7, InflatedIs
  <1>9. pcb'.rcv_wnd = w /\ \E g \in Pos : Edge <= g /\ PcbOK(pcb', n, g)  BY <1>1, <1>7, <1>8, RecvedOK DEF n
  <1>15. UpOK(Up', read', n)
    <2>1. Up'.refused = refused /\ Up'.app = app /\ Up'.eof = eof /\ Up'.wnd = w  BY <1>1, <1>9 DEF Up
    <2>2. Up' \in UpRec
      <3>1. refused \in [bytes : Seq(Nat), fin : BOOLEAN] /\ app \in Seq(Nat) /\ eof \in BOOLEAN /\ w \in Int
        <4>1. w \in Int  BY <1>2
        <4>2. Up.refused \in [bytes : Seq(Nat), fin : BOOLEAN] /\ Up.app \in Seq(Nat) /\ Up.eof \in BOOLEAN
          BY <1>0, UpIs
        <4> QED  BY <1>0, <4>1, <4>2
      <3>2. Up' = [refused |-> refused, app |-> app, eof |-> eof, wnd |-> w]  BY <1>1, <1>9 DEF Up
      <3> QED  BY <3>1, <3>2 DEF UpRec
    <2>3. read' \in 0..Len(app)
      <3>1. read + k \in 0..x  BY <1>2, <1>5
      <3> QED  BY <1>1, <1>4, <3>1
    <2>4. w = Wnd - (Len(app) - read') - Len(refused.bytes) - (IF refused.fin THEN 1 ELSE 0)
      <3>1. read \in Int /\ k \in Int /\ pcb.rcv_wnd \in Int  BY <1>2, <1>5, <1>6
      <3>2. w = Wnd - (x - (read + k)) - y - f  BY <1>2, <1>5, <1>7, <3>1
      <3> QED  BY <1>1, <1>4, <3>2
    <2>5. UpOK(Up, read, n)  BY <1>0
    <2> HIDE DEF Up
    <2> QED  BY <1>0, <2>1, <2>2, <2>3, <2>4, <2>5 DEF UpOK
  <1> QED  BY <1>0, <1>9, <1>15 DEF Moves

(* The FIN is reported when its octet was given back already: the window is
   full and stays so. *)
LEMMA FinDoneOK ==
  ASSUME TcpInv, NEW out \in Outcome, FinDone(out)
  PROVE  Moves /\ fin_read' = TRUE
  <1> DEFINE n == Nxt
  <1>0. CoreOK(pcb, n, Edge) /\ UpOK(Up, read, n) /\ n \in Pos /\ Up.wnd = pcb.rcv_wnd
         /\ Up.app = app /\ Up.refused = refused /\ Up.eof = eof
    BY InvIs
  <1>1. eof /\ read = Len(app) /\ Recved(1, out) /\ fin_read' = TRUE
         /\ refused' = refused /\ app' = app /\ read' = read /\ eof' = eof
    BY DEF FinDone, FinPending
  <1> HIDE DEF n
  <1>2. Wnd \in Nat /\ Wnd >= 1  BY ConstIs
  <1>3. pcb.rcv_wnd = Wnd - (Len(app) - read) - Len(refused.bytes) - (IF refused.fin THEN 1 ELSE 0)
         /\ refused = NoData /\ Len(app) \in Nat
    BY <1>0, <1>1, UpIs
  <1>4. Len(refused.bytes) = 0 /\ ~refused.fin  BY <1>3, NoDataIs DEF NoData
  <1>5. pcb.rcv_wnd = Wnd
    <2>1. Len(app) - read = 0  BY <1>1, <1>3
    <2> QED  BY <1>2, <1>3, <1>4, <2>1
  <1>6. PICK k, w : k = 1 /\ w = Wnd  OBVIOUS
  <1>7. k \in 1..Wnd /\ w \in 0..Wnd /\ pcb.rcv_wnd \in 0..Wnd /\ pcb.rcv_wnd <= w
         /\ pcb.rcv_wnd + k = Wnd + 1 /\ w = Wnd
    BY <1>2, <1>5, <1>6
  <1>8. Inflated(pcb, k) = w  BY <1>7, InflatedIs
  <1>9. pcb'.rcv_wnd = w /\ \E g \in Pos : Edge <= g /\ PcbOK(pcb', n, g)
    BY <1>1, <1>6, <1>7, <1>8, RecvedOK DEF n
  <1>10. Up' = Up  BY <1>1, <1>5, <1>7, <1>9 DEF Up
  <1>11. UpOK(Up', read', n)  BY <1>0, <1>1, <1>10
  <1> QED  BY <1>0, <1>1, <1>9, <1>11 DEF Moves

(* tcp_output_segment *)
LEMMA OutputSegmentOK ==
  ASSUME TcpInv, NEW out \in Outcome, OutputSegment(out)
  PROVE  Moves
  <1> DEFINE p == [pcb EXCEPT !.right_edge = Plus(pcb.rcv_nxt, pcb.ann_wnd)]
             f == Nxt + pcb.ann_wnd
             h == Told(pcb, out)
  <1>0. PcbOK(pcb, Nxt, Edge) /\ CoreOK(pcb, Nxt, Edge) /\ UpOK(Up, read, Nxt) /\ Nxt \in Pos
         /\ Edge \in Pos
    BY InvIs
  <1>1. pcb' = (IF out \in Sent THEN [p EXCEPT !.ack = {}, !.told = h] ELSE p) /\ refused' = refused
         /\ app' = app /\ read' = read /\ eof' = eof
    BY DEF OutputSegment
  <1>2. CoreOK(p, Nxt, f) /\ Edge <= f /\ p.rcv_wnd = pcb.rcv_wnd /\ p.state = pcb.state
    BY <1>0, EdgeMoves
  <1>3. f \in Pos /\ h \in Heard  BY <1>0, CoreIs, ToldOK
  <1> HIDE DEF p, f, h
  <1>4. CoreOK(pcb', Nxt, f) /\ pcb'.rcv_wnd = pcb.rcv_wnd /\ pcb'.state = pcb.state
    <2>1. {} \in SUBSET {"delay", "now"}  OBVIOUS
    <2>2. CASE out \in Sent
      <3> DEFINE z == [p EXCEPT !.ack = {}]
      <3>1. p \in Pcb  BY <1>2, CoreIs
      <3>2. pcb' = [z EXCEPT !.told = h]  BY <1>1, <2>2, <3>1 DEF Pcb
      <3>3. CoreOK(z, Nxt, f) /\ z.rcv_wnd = p.rcv_wnd /\ z.state = p.state  BY <1>2, <2>1, AckOK
      <3> HIDE DEF z
      <3> QED  BY <1>2, <1>3, <3>2, <3>3, HeardOK
    <2>3. CASE out \notin Sent  BY <1>1, <1>2, <2>3
    <2> QED  BY <2>2, <2>3
  <1>5. PcbOK(pcb', Nxt, f)  BY <1>0, <1>4, SameState
  <1>6. Up' = Up  BY <1>1, <1>4 DEF Up
  <1>7. UpOK(Up', read', Nxt)  BY <1>0, <1>1, <1>6
  <1> QED  BY <1>0, <1>2, <1>3, <1>5, <1>7 DEF Moves

-----------------------------------------------------------------------------
(***************************************************************************)
(* The theorems.                                                           *)
(***************************************************************************)
(* The connection starts in the invariant. *)
LEMMA InitOK == Init => TcpInv
  <1> SUFFICES ASSUME Init PROVE TcpInv  OBVIOUS
  <1>0. N \in Nat /\ Wnd \in Nat /\ WndSpace \in Nat /\ N >= 1 /\ SeqSpace \in Nat  BY ConstIs
  <1>1. pcb = [state |-> "established", rcv_nxt |-> Seqno(1), rcv_wnd |-> Wnd, ann_wnd |-> Wnd,
               right_edge |-> Plus(Seqno(1), Wnd), ooseq |-> <<>>, ack |-> {},
               told |-> [ack |-> Seqno(1), edge |-> Plus(Seqno(1), Wnd)]]
         /\ refused = NoData /\ app = <<>> /\ read = 0 /\ eof = FALSE /\ fin_read = FALSE
    BY DEF Init
  <1>2. PICK o \in Int : o = 1  OBVIOUS
  <1>3. Plus(Seqno(o), Wnd) = Seqno(o + Wnd)  BY <1>0, SeqnoPlus
  <1>4. PICK g \in Nat : g = o + Wnd  BY <1>0, <1>2
  <1>5. Seqno(o) \in Int /\ Seqno(g) \in Int
    <2>1. g \in Int  OBVIOUS
    <2>2. Seqno(o) \in 0..(SeqSpace - 1) /\ Seqno(g) \in 0..(SeqSpace - 1)  BY <2>1, SeqnoIs
    <2> QED  BY <1>0, <2>2
  <1>6. pcb = [state |-> "established", rcv_nxt |-> Seqno(o), rcv_wnd |-> Wnd, ann_wnd |-> Wnd,
               right_edge |-> Seqno(g), ooseq |-> <<>>, ack |-> {},
               told |-> [ack |-> Seqno(o), edge |-> Seqno(g)]]
    BY <1>1, <1>2, <1>3, <1>4
  <1>7. Wnd \in 0..Wnd /\ <<>> \in Seq(Seg) /\ {} \in SUBSET {"delay", "now"}  BY <1>0
  <1>8. pcb \in Pcb
    <2>1. [ack |-> Seqno(o), edge |-> Seqno(g)] \in Heard  BY <1>5 DEF Heard
    <2> QED  BY <1>5, <1>6, <1>7, <2>1 DEF Pcb
  <1>9. pcb.rcv_nxt = Seqno(o) /\ pcb.right_edge = Seqno(g) /\ pcb.rcv_wnd = Wnd /\ pcb.ann_wnd = Wnd
         /\ pcb.ooseq = <<>> /\ pcb.state = "established"
    BY <1>6
  <1>10. QueueOK(pcb.ooseq, o, g)  BY <1>9, EmptyOK
  <1>11. o \in 1..(N + 2) /\ o # N + 2 /\ o - 1 <= g /\ g <= o + Wnd /\ Wnd <= Wnd  BY <1>0, <1>2, <1>4
  <1>12. EdgeOK(pcb, o, g)  BY <1>9, <1>11 DEF EdgeOK
  <1>13. PcbOK(pcb, o, g)  BY <1>8, <1>9, <1>10, <1>11, <1>12 DEF PcbOK, CoreOK
  <1>14. Up = [refused |-> NoData, app |-> <<>>, eof |-> FALSE, wnd |-> Wnd]  BY <1>1, <1>9 DEF Up
  <1>15. Up \in UpRec
    <2>1. <<>> \in Seq(Nat) /\ Wnd \in Int  BY <1>0
    <2> QED  BY <1>14, <2>1, NoDataIs DEF UpRec
  <1>16. Up.refused = NoData /\ Up.app = <<>> /\ Up.eof = FALSE /\ Up.wnd = Wnd  BY <1>14
  <1> HIDE DEF Up
  <1>17. UpOK(Up, read, o)
    <2>1. Run(1, 0) = <<>>
      <3>1. o \in Nat /\ o >= 1  BY <1>2
      <3>2. Run(o, 0) = <<>>  BY <3>1, RunEmpty
      <3> QED  BY <1>2, <3>2
    <2>2. 0 \in Nat /\ read \in 0..0 /\ 0 = (IF o = N + 2 THEN N ELSE o - 1) /\ Wnd = Wnd - (0 - read)
      BY <1>0, <1>1, <1>2, <1>11
    <2> QED  BY <1>11, <1>15, <1>16, <2>1, <2>2, UpFresh
  <1>18. Len(Up.app) + Len(Up.refused.bytes) + 1 + (IF pcb.state = "close_wait" THEN 1 ELSE 0) = o
          /\ Diff(pcb.right_edge, Iss) = g
    BY <1>13, <1>17, PlaceIs
  <1>19. Up.app = app /\ Up.refused = refused  BY DEF Up
  <1>20. Nxt = o /\ Edge = g  BY <1>18, <1>19 DEF Nxt, FinTaken, Edge
  <1> QED  BY <1>1, <1>13, <1>17, <1>20 DEF TcpInv

(* Every step keeps the invariant, and the edge does not move back. *)
LEMMA StepOK == TcpInv /\ [Next]_vars => TcpInv' /\ Edge <= Edge'
  <1> SUFFICES ASSUME TcpInv, [Next]_vars PROVE TcpInv' /\ Edge <= Edge'  OBVIOUS
  <1>0. fin_read \in BOOLEAN  BY DEF TcpInv
  <1>1. CASE Arrives
    <2>1. PICK s \in Segments, mem, again, accept \in BOOLEAN, out \in Outcome :
                 Input(s, mem, again, accept, out)
      BY <1>1 DEF Arrives
    <2>2. Sendable(s, Nxt, Edge)  BY SegmentsOK
    <2>3. Moves  BY <2>1, <2>2, InputOK
    <2>4. fin_read' = fin_read  BY <2>1 DEF Input
    <2> QED  BY <1>0, <2>3, <2>4, MovesOK
  <1>2. ASSUME NEW accept \in BOOLEAN, NEW out \in Outcome, FastTmr(accept, out)
        PROVE  TcpInv' /\ Edge <= Edge'
    <2>1. fin_read' = fin_read  BY <1>2 DEF FastTmr
    <2> QED  BY <1>0, <1>2, <2>1, FastTmrOK, MovesOK
  <1>3. CASE FreeOoseq
    <2>1. fin_read' = fin_read  BY <1>3 DEF FreeOoseq
    <2> QED  BY <1>0, <1>3, <2>1, FreeOoseqOK, MovesOK
  <1>4. ASSUME NEW n \in 1..Wnd, NEW out \in Outcome, DataDone(n, out)
        PROVE  TcpInv' /\ Edge <= Edge'
    <2>1. fin_read' = fin_read  BY <1>4 DEF DataDone
    <2> QED  BY <1>0, <1>4, <2>1, DataDoneOK, MovesOK
  <1>5. ASSUME NEW out \in Outcome, OutputSegment(out)
        PROVE  TcpInv' /\ Edge <= Edge'
    <2>1. fin_read' = fin_read  BY <1>5 DEF OutputSegment
    <2> QED  BY <1>0, <1>5, <2>1, OutputSegmentOK, MovesOK
  <1>7. ASSUME NEW out \in Outcome, FinDone(out)
        PROVE  TcpInv' /\ Edge <= Edge'
    BY <1>7, FinDoneOK, MovesOK
  <1>6. CASE UNCHANGED vars
    <2>1. pcb' = pcb /\ refused' = refused /\ app' = app /\ read' = read /\ eof' = eof
           /\ fin_read' = fin_read
      BY <1>6 DEF vars
    <2>2. Nxt' = Nxt /\ Edge' = Edge /\ Up' = Up  BY <2>1 DEF Nxt, Edge, Up, FinTaken
    <2>3. TcpInv'  BY <2>1, <2>2 DEF TcpInv
    <2> QED  BY <2>2, <2>3, InvIs
  <1> QED  BY <1>1, <1>2, <1>3, <1>4, <1>5, <1>6, <1>7 DEF Next

(* What the invariant says of the receiver's types. *)
LEMMA TypeFollows == TcpInv => TypeOK
  <1> SUFFICES ASSUME TcpInv PROVE TypeOK  OBVIOUS
  <1> DEFINE n == Nxt
             e == Edge
  <1>0. CoreOK(pcb, n, e) /\ UpOK(Up, read, n) /\ Up.app = app /\ Up.eof = eof  BY InvIs
  <1> HIDE DEF n, e
  <1>1. pcb.rcv_wnd \in 0..Wnd /\ pcb.ann_wnd \in 0..Wnd /\ n \in Pos /\ e \in Pos
         /\ pcb.ack \subseteq {"delay", "now"} /\ pcb.state \in {"established", "close_wait"}
         /\ pcb.rcv_nxt = Seqno(n) /\ pcb.right_edge = Seqno(e) /\ e <= n + pcb.rcv_wnd
         /\ QueueOK(pcb.ooseq, n, e)
    BY <1>0, CoreIs
  <1>2. n \in Int /\ e \in Int /\ Wnd \in Nat  BY <1>1, ConstIs DEF Pos
  <1>3. pcb.rcv_nxt \in 0..(SeqSpace - 1) /\ pcb.right_edge \in 0..(SeqSpace - 1)  BY <1>1, <1>2, SeqnoIs
  <1>4. read \in 0..Len(app) /\ eof \in BOOLEAN /\ fin_read \in BOOLEAN
    <2>1. fin_read \in BOOLEAN  BY DEF TcpInv
    <2> QED  BY <1>0, <2>1, UpIs
  <1>5. ASSUME NEW i \in DOMAIN pcb.ooseq PROVE TcpLen(pcb.ooseq[i]) \in 1..Wnd
    <2> DEFINE s == pcb.ooseq[i]
    <2>1. SegOK(s, e) /\ n < s.at  BY <1>1, QueueIs
    <2>2. s.at \in Pos /\ s.len \in Nat /\ s.fin \in BOOLEAN /\ After(s) <= e  BY <1>1, <2>1, SegIs
    <2>3. TcpLen(s) >= 1  BY <2>1 DEF SegOK
    <2>4. TcpLen(s) \in Nat  BY <2>2 DEF TcpLen
    <2>5. s.at + TcpLen(s) <= e  BY <2>2 DEF After
    <2> HIDE DEF s
    <2>6. TcpLen(s) <= Wnd  BY <1>1, <1>2, <2>1, <2>2, <2>4, <2>5 DEF Pos
    <2>7. TcpLen(s) \in 1..Wnd  BY <1>2, <2>3, <2>4, <2>6
    <2> QED  BY <2>7 DEF s
  <1> QED  BY <1>1, <1>3, <1>4, <1>5 DEF TypeOK

(* What it says of the bytes and the end of the stream. *)
LEMMA StreamFollows == TcpInv => StreamIntact
  <1> SUFFICES ASSUME TcpInv PROVE StreamIntact  OBVIOUS
  <1> DEFINE n == Nxt
             a == Len(app)
             b == Len(refused.bytes)
  <1>0. PcbOK(pcb, n, Edge) /\ CoreOK(pcb, n, Edge) /\ UpOK(Up, read, n) /\ Up.app = app /\ Up.eof = eof
         /\ Up.refused = refused
    BY InvIs
  <1>1. app \in Seq(Nat) /\ refused.bytes \in Seq(Nat) /\ a \in Nat /\ b \in Nat /\ eof \in BOOLEAN
         /\ refused.fin \in BOOLEAN
         /\ app = Run(1, a) /\ refused.bytes = Run(a + 1, b) /\ (eof => refused = NoData)
         /\ a + b = (IF n = N + 2 THEN N ELSE n - 1) /\ (n = N + 2 <=> eof \/ refused.fin)
    <2> HIDE DEF n
    <2> QED  BY <1>0, UpIs
  <1>2. N \in Nat  BY ConstIs
  <1>3. PICK o \in Nat : o = 1 /\ o >= 1  OBVIOUS
  <1>4. n = a + b + 1 + (IF FinTaken THEN 1 ELSE 0)  BY DEF Nxt
  <1>5. pcb.rcv_nxt = Seqno(n) /\ (FinTaken <=> n = N + 2)
    <2> HIDE DEF n
    <2> QED  BY <1>0, CoreIs DEF PcbOK, FinTaken
  <1> HIDE DEF n, a, b
  <1>6. Received = Run(o, a + b)
    <2>1. Run(o, a) \o Run(o + a, b) = Run(o, a + b)  BY <1>1, <1>3, RunJoin
    <2>2. o + a = a + 1  BY <1>1, <1>3
    <2> QED  BY <1>1, <1>3, <2>1, <2>2 DEF Received
  <1>7. a + b \in Nat  BY <1>1
  <1>8. Received \in Seq(Nat) /\ Len(Received) = a + b /\ \A i \in 1..(a + b) : Received[i] = o + i - 1
    BY <1>3, <1>6, <1>7, RunIs
  <1>9. InOrder
    <2>1. DOMAIN Received = 1..(a + b)  BY <1>8
    <2>2. \A i \in 1..(a + b) : Received[i] = i  BY <1>3, <1>7, <1>8
    <2>3. pcb.rcv_nxt = Seqno(Len(Received) + 1 + (IF FinTaken THEN 1 ELSE 0))  BY <1>4, <1>5, <1>8
    <2> QED  BY <2>1, <2>2, <2>3 DEF InOrder
  <1>10. EofLast
    <2>1. ASSUME eof PROVE app = [i \in 1..N |-> i]
      <3>1. refused = NoData /\ n = N + 2 /\ a + b = N  BY <1>1, <2>1
      <3>2. b = 0  BY <3>1, NoDataIs DEF b
      <3>3. a = N  BY <1>1, <1>2, <3>1, <3>2
      <3>4. app = [i \in 1..N |-> 1 + i - 1]  BY <1>1, <3>3 DEF Run
      <3>5. \A i \in 1..N : 1 + i - 1 = i  BY <1>2
      <3> QED  BY <3>4, <3>5
    <2> QED  BY <1>1, <1>5, <2>1 DEF EofLast
  <1> QED  BY <1>9, <1>10 DEF StreamIntact

(* What it says of the queue and the windows. *)
LEMMA SaneFollows == TcpInv => ReceiverSane
  <1> SUFFICES ASSUME TcpInv PROVE ReceiverSane  OBVIOUS
  <1> DEFINE n == Nxt
             e == Edge
             q == pcb.ooseq
  <1>0. CoreOK(pcb, n, e) /\ UpOK(Up, read, n) /\ Up.app = app /\ Up.wnd = pcb.rcv_wnd
         /\ Up.refused = refused
    BY InvIs
  <1> HIDE DEF n, e
  <1>1. n \in Pos /\ e \in Pos /\ pcb.rcv_nxt = Seqno(n) /\ pcb.right_edge = Seqno(e)
         /\ e <= n + pcb.rcv_wnd /\ n + pcb.rcv_wnd \in Pos /\ pcb.rcv_wnd \in Int /\ QueueOK(q, n, e)
    BY <1>0, CoreIs
  <1>2. Len(q) \in Nat /\ DOMAIN q = 1..Len(q) /\ (\A i \in 1..Len(q) : SegOK(q[i], e) /\ n < q[i].at)
         /\ (\A i, j \in 1..Len(q) : i < j => After(q[i]) <= q[j].at)
    BY <1>1, QueueIs
  <1>3. WindowConserved
    <2>1. Up.wnd = Wnd - (Len(Up.app) - read) - Len(Up.refused.bytes) - (IF Up.refused.fin THEN 1 ELSE 0)
      BY <1>0, UpIs
    <2> QED  BY <1>0, <2>1 DEF WindowConserved
  <1>4. EdgeHonest
    <2>1. n \in Int  BY <1>1 DEF Pos
    <2>2. Plus(pcb.rcv_nxt, pcb.rcv_wnd) = Seqno(n + pcb.rcv_wnd)  BY <1>1, <2>1, SeqnoPlus
    <2>3. SeqLEQ(Seqno(e), Seqno(n + pcb.rcv_wnd))  BY <1>1, PosOrder
    <2> QED  BY <1>1, <2>2, <2>3 DEF EdgeHonest
  <1>5. OoseqSane
    <2> SUFFICES ASSUME NEW i \in DOMAIN q
                 PROVE  /\ q[i].seq = Seqno(q[i].at) /\ SeqLT(pcb.rcv_nxt, q[i].seq)
                        /\ i > 1 => SeqLEQ(Next1(q[i - 1]), q[i].seq)
                        /\ q[i].fin => q[i].at + q[i].len = N + 1
      BY DEF OoseqSane
    <2> HIDE DEF q
    <2>1. i \in 1..Len(q) /\ SegOK(q[i], e) /\ n < q[i].at  BY <1>2
    <2>2. q[i].at \in Pos /\ q[i].seq = Seqno(q[i].at) /\ (q[i].fin => q[i].at + q[i].len = N + 1)
      BY <1>1, <2>1, SegIs
    <2>3. SeqLT(pcb.rcv_nxt, q[i].seq)  BY <1>1, <2>1, <2>2, PosOrder
    <2>4. ASSUME i > 1 PROVE SeqLEQ(Next1(q[i - 1]), q[i].seq)
      <3>1. i - 1 \in 1..Len(q) /\ i - 1 < i  BY <1>2, <2>1, <2>4
      <3>2. SegOK(q[i - 1], e) /\ After(q[i - 1]) <= q[i].at  BY <1>2, <2>1, <3>1
      <3>3. After(q[i - 1]) \in Pos /\ Next1(q[i - 1]) = Seqno(After(q[i - 1]))  BY <1>1, <3>2, SegIs
      <3> QED  BY <2>2, <3>2, <3>3, PosOrder
    <2> QED  BY <2>2, <2>3, <2>4
  <1> QED  BY <1>3, <1>4, <1>5 DEF ReceiverSane

(* The inductive invariant holds of every run of the receiver. *)
THEOREM TcpInvariant == Spec => []TcpInv
  <1>1. Init => TcpInv  BY InitOK
  <1>2. TcpInv /\ [Next]_vars => TcpInv'  BY StepOK
  <1> QED  BY <1>1, <1>2, PTL DEF Spec

(* The fields of the connection keep their types; a queued segment is never
   empty and never longer than the window (tcp_in.c:1459-1625). *)
THEOREM TcpTypeCorrect == Spec => []TypeOK
  <1>1. TcpInv => TypeOK  BY TypeFollows
  <1> QED  BY <1>1, TcpInvariant, PTL

(* The application is given the peer's stream, each byte once and in order,
   and its end after all of it, however the segments were cut, repeated and
   reordered and whatever it refused (tcp_in.c:483-546, 1373-1625). *)
THEOREM TcpStreamIntact == Spec => []StreamIntact
  <1>1. TcpInv => StreamIntact  BY StreamFollows
  <1> QED  BY <1>1, TcpInvariant, PTL

(* The queue of out-of-sequence segments is ordered and without overlaps, no
   octet of the window is lost or counted twice, and what was announced can be
   taken (tcp_in.c:1050-1083, 1459-1625; tcp.c:929-1009). *)
THEOREM TcpReceiverSane == Spec => []ReceiverSane
  <1>1. TcpInv => ReceiverSane  BY SaneFollows
  <1> QED  BY <1>1, TcpInvariant, PTL

(* The right edge the peer was told never moves back (tcp.c:929-957). *)
THEOREM TcpEdgeMonotone == Spec => EdgeMonotone
  <1>1. TcpInv /\ [Next]_vars => SeqLEQ(pcb.right_edge, pcb'.right_edge)
    <2> SUFFICES ASSUME TcpInv, [Next]_vars PROVE SeqLEQ(pcb.right_edge, pcb'.right_edge)  OBVIOUS
    <2>1. TcpInv' /\ Edge <= Edge'  BY StepOK
    <2>2. CoreOK(pcb, Nxt, Edge)  BY InvIs
    <2>3. CoreOK(pcb', Nxt', Edge')  BY <2>1 DEF TcpInv, PcbOK
    <2>4. Edge \in Pos /\ pcb.right_edge = Seqno(Edge)  BY <2>2, CoreIs
    <2>5. Edge' \in Pos /\ pcb'.right_edge = Seqno(Edge')  BY <2>3, CoreIs
    <2>6. \A x, y \in Pos : x <= y => SeqLEQ(Seqno(x), Seqno(y))  BY PosOrder
    <2>7. SeqLEQ(Seqno(Edge), Seqno(Edge'))  BY <2>1, <2>4, <2>5, <2>6
    <2> QED  BY <2>4, <2>5, <2>7
  <1> QED  BY <1>1, TcpInvariant, PTL DEF Spec, EdgeMonotone

=============================================================================
