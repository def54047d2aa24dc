------------------------------ MODULE MCRxPath ------------------------------
(* RxPath for TLC: one datagram in two fragments. *)
EXTENDS RxPath

Half(s) == [id |-> 1, start |-> s, end |-> s + 1, last |-> s = 1, options |-> FALSE]
MCFragment == {Half(0), Half(1)}

=============================================================================
