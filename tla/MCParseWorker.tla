---------------------------- MODULE MCParseWorker ----------------------------
(* Small instances of ParseWorker for TLC. *)
EXTENDS ParseWorker, TLC

CONSTANTS d1, j1, j2, m1, m2, w1, w2, c1, c2, r1

\* One process with a consume loop and a reclaim loop.
OneProcess == (c1 :> w1) @@ (r1 :> w1)

\* A second process whose reclaim loop is idle all along.
TwoProcesses == (c1 :> w1) @@ (r1 :> w1) @@ (c2 :> w2)

Symmetry == Permutations(Jobs) \cup Permutations(Messages)
=============================================================================
