------------------------------ MODULE KeyGate ------------------------------
(***************************************************************************)
(* The controller key check with its per-host lockout (common/access.py).  *)
(* P1 calls it for every hello and for every change to the victim marks,   *)
(* P2 for its own operator calls; each process has a gate of its own.      *)
(*                                                                         *)
(* Time is kept as ages and remaining times, which is all check() compares *)
(* of the clock it reads: an age counts up to a cap from which on nothing  *)
(* tells it from a greater one.                                            *)
(***************************************************************************)
EXTENDS Integers, Sequences, FiniteSets

CONSTANTS
    Host,           \* client addresses
    MaxFailures,    \* MAX_FAILURES (5)
    Lockout         \* LOCKOUT_S (300), in ticks

GateAssumption ==
    MaxFailures \in Nat \ {0} /\ Lockout \in Nat \ {0}

VARIABLES
    configured, \* CONTROLLER_KEY is set
    failures,   \* _failures: the ages of the host's wrong keys, oldest first
    lockLeft,   \* _locked_until: ticks to go, 0 when past or not there
    verdict,    \* what check() answered the host last
    guesses     \* history: ages of the wrong keys that were compared, since
                \* the host last presented the right one

vars == <<configured, failures, lockLeft, verdict, guesses>>

Key == {"missing", "right", "wrong"}

\* Entries younger than `limit`: the oldest come first, so they are the last ones.
Younger(ages, limit) ==
    SubSeq(ages, 1 + Cardinality({i \in DOMAIN ages : ages[i] >= limit}), Len(ages))

Init ==
    /\ configured \in BOOLEAN
    /\ failures = [h \in Host |-> <<>>]
    /\ lockLeft = [h \in Host |-> 0]
    /\ verdict = [h \in Host |-> "none"]
    /\ guesses = [h \in Host |-> <<>>]

-----------------------------------------------------------------------------
Answer(h, v) == verdict' = [verdict EXCEPT ![h] = v]

\* No key: how an observer joins.
NoKey(h) ==
    /\ Answer(h, "no_key")
    /\ UNCHANGED <<configured, failures, lockLeft, guesses>>

\* Locked out: refused without a look at the key.
Locked(h) ==
    /\ lockLeft[h] > 0
    /\ Answer(h, "locked")
    /\ UNCHANGED <<configured, failures, lockLeft, guesses>>

Disabled(h) ==
    /\ lockLeft[h] = 0 /\ ~configured
    /\ Answer(h, "disabled")
    /\ UNCHANGED <<configured, failures, lockLeft, guesses>>

Right(h) ==
    /\ lockLeft[h] = 0 /\ configured
    /\ failures' = [failures EXCEPT ![h] = <<>>]
    /\ guesses' = [guesses EXCEPT ![h] = <<>>]
    /\ Answer(h, "ok")
    /\ UNCHANGED <<configured, lockLeft>>

\* Mutant of Recent: a failure expires a tick early.
RecentTooShort(h) == Append(Younger(failures[h], Lockout - 1), 0)

\* The failures that count after another wrong key.
Recent(h) == Append(Younger(failures[h], Lockout), 0)

Wrong(h) ==
    /\ lockLeft[h] = 0 /\ configured
    /\ guesses' = [guesses EXCEPT ![h] = Append(@, 0)]
    /\ IF Len(Recent(h)) >= MaxFailures
       THEN /\ failures' = [failures EXCEPT ![h] = <<>>]
            /\ lockLeft' = [lockLeft EXCEPT ![h] = Lockout]
            /\ Answer(h, "locked")
       ELSE /\ failures' = [failures EXCEPT ![h] = Recent(h)]
            /\ UNCHANGED lockLeft
            /\ Answer(h, "bad_key")
    /\ UNCHANGED configured

\* KeyGate.check(host, presented).
Check(h, presented) ==
    \/ presented = "missing" /\ NoKey(h)
    \/ presented # "missing" /\ (Locked(h) \/ Disabled(h))
    \/ presented = "right" /\ Right(h)
    \/ presented = "wrong" /\ Wrong(h)

-----------------------------------------------------------------------------
Older(ages, cap) ==
    [i \in DOMAIN ages |-> IF ages[i] < cap THEN ages[i] + 1 ELSE cap]

Tick ==
    /\ failures' = [h \in Host |-> Older(failures[h], Lockout)]
    /\ lockLeft' = [h \in Host |-> IF lockLeft[h] = 0 THEN 0 ELSE lockLeft[h] - 1]
    /\ guesses' = [h \in Host |->
                     Younger(Older(guesses[h], 2 * Lockout), 2 * Lockout)]
    /\ UNCHANGED <<configured, verdict>>

\* The service restarts, its counters are gone.
Restart ==
    /\ failures' = [h \in Host |-> <<>>]
    /\ lockLeft' = [h \in Host |-> 0]
    /\ verdict' = [h \in Host |-> "none"]
    /\ guesses' = [h \in Host |-> <<>>]
    /\ configured' \in BOOLEAN

Next ==
    \/ \E h \in Host, presented \in Key : Check(h, presented)
    \/ Tick
    \/ Restart

Spec == Init /\ [][Next]_vars

-----------------------------------------------------------------------------
(***************************************************************************)
(* Properties.                                                             *)
(***************************************************************************)

TypeOK ==
    /\ configured \in BOOLEAN
    /\ failures \in [Host -> Seq(0 .. Lockout)]
    /\ lockLeft \in [Host -> 0 .. Lockout]
    /\ verdict \in [Host -> {"none", "no_key", "locked", "disabled", "ok", "bad_key"}]
    /\ guesses \in [Host -> Seq(0 .. 2 * Lockout)]

\* However a host spaces its guesses around expiring failures and lockouts, at
\* most MaxFailures wrong keys are compared in any window of Lockout ticks
\* that holds no right key.
GuessBound == \A h \in Host : Len(Younger(guesses[h], Lockout)) <= MaxFailures
=============================================================================
