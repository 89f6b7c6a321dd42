--------------------------- MODULE RobotScreenMC ---------------------------
(***************************************************************************)
(* RobotScreen for TLC: one dashboard, two connections of the screen.      *)
(***************************************************************************)
EXTENDS RobotScreen, TLC

OneHost == [s \in Session |-> CHOOSE h \in Host : TRUE]

Symmetry == Permutations(Kiosk)
=============================================================================
