---------------------------- MODULE MCScheduling ----------------------------
(* Symmetry for the safety run: the threads of the pool are alike. *)
EXTENDS Scheduling, TLC

Symmetry == Permutations(Pool)
=============================================================================
