---------------------------- MODULE ScreenHubMC ----------------------------
(***************************************************************************)
(* ScreenHub for TLC: two dashboards on one host, one on another.          *)
(***************************************************************************)
EXTENDS ScreenHub, TLC

CONSTANTS s1, s2, s3, h1, h2

HostsOfSessions == [s \in Session |-> IF s = s3 THEN h2 ELSE h1]

\* Sessions of one host are alike, and so are the screen's connections.
Symmetry == Permutations({s1, s2}) \cup Permutations(Kiosk)
=============================================================================
