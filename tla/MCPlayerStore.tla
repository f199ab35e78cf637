-------------------------- MODULE MCPlayerStore --------------------------
(* PlayerStore with the symmetry of its windows, for a run with two of them *)
(* that checks an invariant only: every window runs the same program.       *)
EXTENDS PlayerStore, TLC

WindowSymmetry == Permutations(Instances)
===========================================================================
