----------------------------- MODULE VoiceLoopMC -----------------------------
(***************************************************************************)
(* VoiceLoop for TLC: two dashboards, each on a host of its own.           *)
(***************************************************************************)
EXTENDS VoiceLoop, TLC

CONSTANTS a, b, ha, hb

OwnHost == (a :> ha) @@ (b :> hb)

\* The dashboards are alike, each with its host.
Symmetry == {(a :> b) @@ (b :> a) @@ (ha :> hb) @@ (hb :> ha)}
=============================================================================
