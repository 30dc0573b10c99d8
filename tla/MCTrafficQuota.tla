---------------------------- MODULE MCTrafficQuota ----------------------------
(* Instances of TrafficQuota for TLC.                                      *)
EXTENDS TrafficQuota, TLC

Symmetry == Permutations(User) \cup Permutations(Handler)
=============================================================================
