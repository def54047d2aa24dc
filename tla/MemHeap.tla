------------------------------- MODULE MemHeap -------------------------------
(***************************************************************************)
(* The heap of lwIP (core/mem.c) as lwipopts.h configures it:              *)
(* LWIP_ALLOW_MEM_FREE_FROM_OTHER_CONTEXT lets mem_free and mem_trim run   *)
(* whenever mem_malloc leaves its critical section, which it does between  *)
(* any two blocks it looks at.                                             *)
(*                                                                         *)
(* A pointer is an offset into ram.  One mem_malloc runs at a time, under  *)
(* mem_mutex; any number of contexts free, and one trims.                  *)
(***************************************************************************)
EXTENDS Integers

CONSTANTS
  Align,     \* MEM_ALIGNMENT, which a struct mem and MIN_SIZE round up to
  MemSize,   \* MEM_SIZE_ALIGNED
  Request    \* the sizes callers ask for, in bytes

ASSUME AlignAssumption == Align \in Nat \ {0} /\ MemSize \in Nat /\ MemSize % Align = 0
ASSUME HeapNotEmpty == MemSize >= 2 * Align
ASSUME RequestAssumption == Request \subseteq Nat

Header == Align                        \* SIZEOF_STRUCT_MEM
MinSize == Align                       \* MIN_SIZE_ALIGNED
Offset == {p \in 0..MemSize : p % Align = 0}
AlignedNot(n) == IF n < MinSize THEN MinSize ELSE n  \* mutant: no rounding
Aligned(n) == IF n = 0 THEN MinSize ELSE ((n + Align - 1) \div Align) * Align
NoTrim == [mem |-> -1, new |-> 0, size |-> 0]

VARIABLES
  heap,      \* the struct mem at each offset: next, prev, used
  lfree,     \* the lowest free block
  disturbed, \* mem_free_count
  pc,        \* where mem_malloc is
  want,      \* its size_in
  ptr,       \* the block it looks at or has taken
  cur,       \* how far it has looked for the next free block
  live,      \* the blocks callers hold, and what they asked for
  trim       \* the mem_trim in progress, with the sizes it has computed

vars == <<heap, lfree, disturbed, pc, want, ptr, cur, live, trim>>

Mem == [next : Offset, prev : Offset, used : BOOLEAN]

TypeOK ==
  /\ heap \in [Offset -> Mem] /\ lfree \in Offset /\ disturbed \in BOOLEAN
  /\ pc \in {"idle", "scan", "adjust"} /\ want \in Nat /\ ptr \in Offset /\ cur \in Offset
  /\ DOMAIN live \subseteq Offset /\ \A m \in DOMAIN live : live[m] \in Nat \ {0}
  /\ trim \in [mem : Offset \cup {-1}, new : Nat, size : Int]

(* mem_init *)
Init ==
  /\ heap = [p \in Offset |-> IF p = MemSize THEN [next |-> p, prev |-> p, used |-> TRUE]
                                             ELSE [next |-> MemSize, prev |-> 0, used |-> FALSE]]
  /\ lfree = 0 /\ disturbed = FALSE
  /\ pc = "idle" /\ want = 0 /\ ptr = 0 /\ cur = 0
  /\ live = <<>> /\ trim = NoTrim

-----------------------------------------------------------------------------
(* Make n the block after m; the end of the heap keeps its prev. *)
Relink(h, m, n) ==
  LET g == [h EXCEPT ![m].next = n]
  IN  IF n = MemSize THEN g ELSE [g EXCEPT ![n].prev = m]

(* A free block q between m and the block after it. *)
Split(h, m, q) ==
  Relink(Relink([h EXCEPT ![q].used = FALSE], q, h[m].next), m, q)

Room(h, m) == h[m].next - (m + Header)   \* the user data size of a block

(* plug_holes, forward and backward, on the heap and lfree. *)
PlugForward(s, m) ==
  LET n == s.heap[m].next
  IN  IF n # m /\ ~s.heap[n].used /\ n # MemSize
      THEN [heap |-> Relink(s.heap, m, s.heap[n].next), lfree |-> IF s.lfree = n THEN m ELSE s.lfree]
      ELSE s

PlugBackward(s, m) ==
  LET p == s.heap[m].prev
  IN  IF p # m /\ ~s.heap[p].used
      THEN [heap |-> Relink(s.heap, p, s.heap[m].next), lfree |-> IF s.lfree = m THEN p ELSE s.lfree]
      ELSE s

PlugHolesForwardOnly(s, m) == PlugForward(s, m)      \* mutant: no backward merge
PlugHoles(s, m) == PlugBackward(PlugForward(s, m), m)

LinkValid(m) ==
  /\ heap[m].prev = m \/ heap[heap[m].prev].next = m
  /\ heap[m].next = MemSize \/ heap[heap[m].next].prev = m

-----------------------------------------------------------------------------
Without(f, x) == [y \in DOMAIN f \ {x} |-> f[y]]
With(f, x, v) == [y \in DOMAIN f \cup {x} |-> IF y = x THEN v ELSE f[y]]

Lowest(p) == IF p < lfree THEN p ELSE lfree

DisturbNot == UNCHANGED disturbed                    \* mutant: malloc is not told
Disturb == disturbed' = TRUE

(* mem_free of a block that is not being trimmed.  What fails the sanity
   checks is not freed. *)
MemFree(m) ==
  /\ m \in DOMAIN live /\ m # trim.mem
  /\ live' = Without(live, m)
  /\ \/ /\ heap[m].used /\ LinkValid(m)
        /\ LET s == PlugHoles([heap |-> [heap EXCEPT ![m].used = FALSE],
                               lfree |-> Lowest(m)], m)
           IN  heap' = s.heap /\ lfree' = s.lfree
        /\ Disturb
     \/ /\ ~(heap[m].used /\ LinkValid(m))
        /\ UNCHANGED <<heap, lfree, disturbed>>
  /\ UNCHANGED <<pc, want, ptr, cur, trim>>

(* mem_trim computes both sizes before it enters the critical section.  Its
   caller, pbuf_realloc, calls it only to shorten (pbuf.c, line 438). *)
TrimRead(m, n) ==
  /\ trim = NoTrim /\ m \in DOMAIN live /\ n > 0 /\ n < live[m]
  /\ Aligned(n) < Room(heap, m)
  /\ trim' = [mem |-> m, new |-> n, size |-> Room(heap, m)]
  /\ UNCHANGED <<heap, lfree, disturbed, pc, want, ptr, cur, live>>

TrimFits(q) == q + Header + MinSize <= trim.size

TrimApply ==
  /\ trim # NoTrim
  /\ LET m == trim.mem
         q == m + Header + Aligned(trim.new)
         n == heap[m].next
     IN  /\ live' = [live EXCEPT ![m] = trim.new]
         /\ \/ /\ ~heap[n].used
               /\ heap' = Split([heap EXCEPT ![m].next = heap[n].next], m, q)
               /\ lfree' = IF lfree = n THEN q ELSE lfree
            \/ /\ heap[n].used /\ TrimFits(Aligned(trim.new))
               /\ heap' = Split(heap, m, q)
               /\ lfree' = Lowest(q)
            \/ /\ heap[n].used /\ ~TrimFits(Aligned(trim.new))
               /\ UNCHANGED <<heap, lfree>>
  /\ Disturb
  /\ trim' = NoTrim
  /\ UNCHANGED <<pc, want, ptr, cur>>

-----------------------------------------------------------------------------
(* The head of the scan loop, at block p: leave the critical section to let
   mem_free run, or give up. *)
InReach(p, n) == p < MemSize - Aligned(n)

LookNoReset(p, n) ==                                 \* mutant: mem_free_count stays
  \/ InReach(p, n) /\ pc' = "scan" /\ ptr' = p /\ want' = n /\ UNCHANGED disturbed
  \/ ~InReach(p, n) /\ pc' = "idle" /\ want' = 0 /\ ptr' = 0 /\ UNCHANGED disturbed
Look(p, n) ==
  \/ /\ InReach(p, n)
     /\ pc' = "scan" /\ ptr' = p /\ want' = n /\ disturbed' = FALSE
  \/ /\ ~InReach(p, n)
     /\ pc' = "idle" /\ want' = 0 /\ ptr' = 0 /\ UNCHANGED disturbed

MallocStart(n) ==
  /\ pc = "idle" /\ n # 0 /\ Aligned(n) <= MemSize
  /\ Look(lfree, n)
  /\ UNCHANGED <<heap, lfree, cur, live, trim>>

(* Back in the critical section after mem_free or mem_trim has run. *)
RestartNot == ptr                                    \* mutant: goes on where it was
Restart == lfree
MallocRestart ==
  /\ pc = "scan" /\ disturbed
  /\ Look(Restart, want)
  /\ UNCHANGED <<heap, lfree, cur, live, trim>>

Fits(p) == ~heap[p].used /\ Room(heap, p) >= Aligned(want)

MallocSkip ==
  /\ pc = "scan" /\ ~disturbed /\ ~Fits(ptr)
  /\ Look(heap[ptr].next, want)
  /\ UNCHANGED <<heap, lfree, cur, live, trim>>

Return ==
  /\ live' = With(live, ptr, want)
  /\ pc' = "idle" /\ want' = 0 /\ ptr' = 0 /\ cur' = 0

(* The block is split if what remains can hold data.  If it was the lowest
   free one, the next lowest must be found. *)
MallocTake ==
  /\ pc = "scan" /\ ~disturbed /\ Fits(ptr)
  /\ LET h == [heap EXCEPT ![ptr].used = TRUE]
     IN  heap' = IF Room(heap, ptr) >= Aligned(want) + Header + MinSize
                 THEN Split(h, ptr, ptr + Header + Aligned(want)) ELSE h
  /\ \/ ptr # lfree /\ Return /\ UNCHANGED disturbed
     \/ ptr = lfree /\ pc' = "adjust" /\ cur' = ptr /\ disturbed' = FALSE
                    /\ UNCHANGED <<want, ptr, live>>
  /\ UNCHANGED <<lfree, trim>>

(* mem_malloc_adjust_lfree *)
AdjustRestart ==
  /\ pc = "adjust" /\ disturbed
  /\ \/ ptr # lfree /\ Return /\ UNCHANGED disturbed
     \/ ptr = lfree /\ cur' = ptr /\ disturbed' = FALSE /\ UNCHANGED <<pc, want, ptr, live>>
  /\ UNCHANGED <<heap, lfree, trim>>

AdjustStep ==
  /\ pc = "adjust" /\ ~disturbed
  /\ LET n == heap[cur].next
     IN  \/ /\ heap[n].used /\ n # MemSize
            /\ cur' = n /\ UNCHANGED <<lfree, pc, want, ptr, live>>
         \/ /\ ~heap[n].used \/ n = MemSize
            /\ lfree' = n /\ Return
  /\ UNCHANGED <<heap, disturbed, trim>>

-----------------------------------------------------------------------------
MallocStep == MallocRestart \/ MallocSkip \/ MallocTake \/ AdjustRestart \/ AdjustStep

Next ==
  \/ \E n \in Request : MallocStart(n)
  \/ MallocStep
  \/ \E m \in Offset : MemFree(m)
  \/ \E m \in Offset, n \in Request : TrimRead(m, n)
  \/ TrimApply

Spec == Init /\ [][Next]_vars

(* A task inside mem_malloc gets to run, and so does one inside mem_trim. *)
FairSpec == Spec /\ WF_vars(MallocStep) /\ WF_vars(TrimApply)

-----------------------------------------------------------------------------
(* The blocks of the list that starts at offset 0. *)
OnList[p \in Offset] == p = 0 \/ \E q \in 0..(p - 1) : q \in Offset /\ OnList[q] /\ heap[q].next = p
Block == {p \in Offset \ {MemSize} : OnList[p]}
Free == {p \in Block : ~heap[p].used}

(***************************************************************************)
(* mem_sanity (lines 567-608): the list runs upwards to the end of the     *)
(* heap, is linked both ways, has no two free blocks in a row, and every   *)
(* block has room for data, whatever mem_free and mem_trim did while       *)
(* mem_malloc was between two blocks.                                      *)
(***************************************************************************)
ListSane ==
  /\ OnList[MemSize]
  /\ \A p \in Block :
       /\ heap[p].next >= p + Header + MinSize
       /\ heap[p].next # MemSize => heap[heap[p].next].prev = p
       /\ p \in Free => heap[p].next \notin Free

(***************************************************************************)
(* No free block lies below lfree (line 421), where mem_malloc would never *)
(* find it; between calls lfree is itself free.                            *)
(***************************************************************************)
LowestFree ==
  /\ \A p \in Free : lfree <= p
  /\ pc # "adjust" => lfree \in Free \cup {MemSize}

(***************************************************************************)
(* The memory callers hold does not overlap and holds at least what they   *)
(* asked for (lines 823-827), and mem_free will accept it (652-668).       *)
(***************************************************************************)
BlocksDisjoint ==
  \A m \in DOMAIN live :
    /\ m \in Block /\ heap[m].used /\ LinkValid(m)
    /\ m + Header + live[m] <= heap[m].next

(* Every block that a caller does not hold, and mem_malloc is not about to
   hand out, is free: nothing is lost. *)
NothingLost ==
  \A p \in Block : heap[p].used => p \in DOMAIN live \/ (pc = "adjust" /\ p = ptr)

(***************************************************************************)
(* The heap stays consistent at every step of mem_malloc, mem_free and     *)
(* mem_trim: the list, lfree, the blocks callers hold and the blocks       *)
(* nobody holds agree (lines 421, 474-510, 567-608).                       *)
(***************************************************************************)
HeapSane == ListSane /\ LowestFree /\ BlocksDisjoint /\ NothingLost

(***************************************************************************)
(* mem_malloc returns NULL only if no free block is large enough at that   *)
(* moment ("NULL if no free memory was found", line 827), although blocks  *)
(* were freed behind its back during the scan.                             *)
(***************************************************************************)
FailsOnlyWhenFull ==
  [][pc = "scan" /\ pc' = "idle" /\ live' = live =>
       \A p \in Free : Room(heap, p) < Aligned(want)]_vars

(***************************************************************************)
(* To its callers the heap is an allocator: a region handed out is theirs  *)
(* alone until they give it back, although mem_free and mem_trim run       *)
(* between the steps of mem_malloc and mem_trim uses sizes it read before  *)
(* it entered the critical section (line 740).                             *)
(***************************************************************************)
A == INSTANCE Allocator WITH
       Size <- MemSize, Sizes <- Request,
       held <- [a \in {m + Header : m \in DOMAIN live} |-> live[a - Header]]
ImplementsAllocator == A!Spec

(* mem_malloc returns: only finitely many blocks can be freed to restart it
   (lines 864-970). *)
MallocTerminates == pc # "idle" ~> pc = "idle"

=============================================================================
