---------------------------- MODULE SupervisorMC ----------------------------
(***************************************************************************)
(* Supervisor for TLC: the two children are alike.                         *)
(***************************************************************************)
EXTENDS Supervisor, TLC

Symmetry == Permutations(Child)
=============================================================================
