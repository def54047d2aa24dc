------------------------------ MODULE MCMemHeap ------------------------------
(* MemHeap for TLC: an alignment of 2 makes every request round up or not. *)
EXTENDS MemHeap

=============================================================================
