-------------------------- MODULE MCTrafficReporter --------------------------
(* The reporter with two connections. *)
EXTENDS TrafficReporter, TLC

Symmetry == Permutations(Ids)
=============================================================================
