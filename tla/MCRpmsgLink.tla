----------------------------- MODULE MCRpmsgLink -----------------------------
(* RpmsgLink for TLC: two data frames besides the ARP, one of them in a chain
   of two pbufs. *)
EXTENDS RpmsgLink, TLC

CONSTANTS f1, f2

MCFrame == {Arp, f1, f2}
MCPbufCount == Arp :> 1 @@ f1 :> 1 @@ f2 :> 2

=============================================================================
