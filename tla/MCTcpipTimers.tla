---------------------------- MODULE MCTcpipTimers ----------------------------
(* TcpipTimers for TLC: the ARP timer, the TCP timer, and a
   timeout of the application; the pool has no entry to spare. *)
EXTENDS TcpipTimers, TLC

MCCyclic == {"arp"}
MCOneShot == {"app"}
MCPoolSize == Cardinality(Timer)
MCInterval == [tm \in Timer |-> CASE tm = "arp" -> 1 [] tm = "tcp" -> 4 [] tm = "app" -> 3]

ASSUME MCMargin == Margin

=============================================================================
