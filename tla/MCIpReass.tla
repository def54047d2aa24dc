------------------------------ MODULE MCIpReass ------------------------------
(* IpReass for TLC: datagrams of three units, cut in every way; one sender
   uses options, one sends more than the longest datagram and one fragments
   whose end overflows. *)
EXTENDS IpReass

Piece(d, s, e) == [id |-> d, start |-> s, end |-> e, last |-> e = 3, options |-> FALSE]
AllPieces == {Piece(d, s, e) : d \in Id, s \in 0..2, e \in 1..3}
MCFragment ==
  {f \in AllPieces : f.start < f.end /\ f.end - f.start < 3 /\ (f.id = 3 => f.end - f.start = 1)}
  \cup {[Piece(1, 3, 4) EXCEPT !.last = TRUE], Piece(2, 3, 5), [Piece(3, 0, 1) EXCEPT !.options = TRUE]}

(* The hypothesis under which ReturnedWhenWhole is proved. *)
ASSUME MCAssumption == SendersAgree

=============================================================================
