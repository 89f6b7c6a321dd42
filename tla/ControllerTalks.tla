-------------------------- MODULE ControllerTalks --------------------------
(***************************************************************************)
(* What P1 and P2 together promise: only the host that holds P1's          *)
(* controller slot may use the robot's screen and speaker, and a host that *)
(* has lost the slot may go on for Lag ticks at most.  How P2 learns of    *)
(* the slot is left open; TalkFollow implements this.                      *)
(***************************************************************************)
EXTENDS Integers

CONSTANTS
    Host,       \* addresses of dashboards
    Nobody,
    Lag         \* how long P2 may be behind, in ticks

VARIABLES
    holder,     \* the host whose client has P1's controller slot
    talker,     \* the host whose sessions P2 lets act
    stale       \* ticks since a host last had the slot, as far as Lag + 1

vars == <<holder, talker, stale>>

Init ==
    /\ holder = Nobody
    /\ talker = Nobody
    /\ stale = [h \in Host |-> Lag + 1]

\* The slot goes to a host, or to nobody.
Pass(h) ==
    /\ holder' = h
    /\ stale' = [g \in Host |-> IF g = h THEN 0 ELSE stale[g]]
    /\ UNCHANGED talker

\* P2 lets a host act, which had the slot not long ago.
Allow(h) ==
    /\ h = Nobody \/ (h \in Host /\ stale[h] <= Lag)
    /\ talker' = h
    /\ UNCHANGED <<holder, stale>>

Older(h) == IF h = holder \/ stale[h] > Lag THEN stale[h] ELSE stale[h] + 1

\* Time passes, but never so far that the talker's claim is too old.
Tick ==
    /\ stale' = [h \in Host |-> Older(h)]
    /\ talker \in Host => stale'[talker] <= Lag
    /\ UNCHANGED <<holder, talker>>

Next ==
    \/ \E h \in Host \cup {Nobody} : Pass(h) \/ Allow(h)
    \/ Tick

Spec == Init /\ [][Next]_vars
=============================================================================
