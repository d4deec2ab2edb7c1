----------------------------- MODULE MCRegistry -----------------------------
(* The registry with three connections that share three ids. *)
EXTENDS Registry, TLC

Symmetry == Permutations(Callers) \cup Permutations(Ids)
=============================================================================
