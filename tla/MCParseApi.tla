----------------------------- MODULE MCParseApi -----------------------------
(* Small instances of ParseApi for TLC. *)
EXTENDS ParseApi, TLC

Symmetry == Permutations(Requests) \cup Permutations(Jobs)
=============================================================================
