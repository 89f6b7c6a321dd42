---------------------------- MODULE VictimLogMC ----------------------------
(***************************************************************************)
(* VictimLog for TLC: the dashboards are alike.                            *)
(***************************************************************************)
EXTENDS VictimLog

Symmetry == Permutations(Dash)
=============================================================================
