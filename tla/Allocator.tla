----------------------------- MODULE Allocator -----------------------------
(***************************************************************************)
(* What a heap promises its callers, whatever its data structure: memory   *)
(* handed out lies inside the heap and apart from all other memory in use, *)
(* stays so until it is given back, and may be shortened in place.         *)
(***************************************************************************)
EXTENDS Integers

CONSTANTS
  Size,      \* the heap is the bytes 0..Size-1
  Sizes      \* what callers ask for

VARIABLE held   \* the start of each region in use, and its length

Region(a, n) == a..(a + n - 1)

Init == held = <<>>

Alloc(a, n) ==
  /\ Region(a, n) \subseteq 0..(Size - 1)
  /\ \A b \in DOMAIN held : Region(a, n) \cap Region(b, held[b]) = {}
  /\ held' = [x \in DOMAIN held \cup {a} |-> IF x = a THEN n ELSE held[x]]

Release(a) ==
  /\ a \in DOMAIN held
  /\ held' = [x \in DOMAIN held \ {a} |-> held[x]]

Shrink(a, n) ==
  /\ a \in DOMAIN held /\ n < held[a]
  /\ held' = [held EXCEPT ![a] = n]

Next == \E a \in 0..Size : Release(a) \/ \E n \in Sizes : Alloc(a, n) \/ Shrink(a, n)

Spec == Init /\ [][Next]_held

=============================================================================
