---------------------------- MODULE ControlHubMC ----------------------------
(***************************************************************************)
(* Model checking of ControlHub: one client numbers its commands, the      *)
(* others do not.                                                          *)
(***************************************************************************)
EXTENDS ControlHub, TLC

CONSTANTS a, b, c

OneNumbers == a :> 2 @@ b :> 0 @@ c :> 0
NoNumbers == a :> 0 @@ b :> 0
=============================================================================
