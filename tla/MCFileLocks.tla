---------------------------- MODULE MCFileLocks ----------------------------
(* FileLocks with the symmetry of its connections.                          *)
EXTENDS FileLocks, TLC

ConnectionSymmetry == Permutations(Connections)
=============================================================================
