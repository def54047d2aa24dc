------------------------------ MODULE MCEthArp ------------------------------
(* EthArp for TLC: more addresses than slots. *)
EXTENDS EthArp

=============================================================================
