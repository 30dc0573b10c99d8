---------------------------- MODULE MCDashboardHub ----------------------------
(* Instances of DashboardHub for TLC.                                      *)
EXTENDS DashboardHub, TLC

Symmetry == Permutations(Conn) \cup Permutations(Ticket)
=============================================================================
