---------------------------- MODULE MCLinuxXmit ----------------------------
(* LinuxXmit for TLC.  The packets are model values; liveness is checked with
   the invariants, so no symmetry is used. *)
EXTENDS LinuxXmit

=============================================================================
