----------------------------- MODULE TalkFollow -----------------------------
(***************************************************************************)
(* How P2 follows P1's controller slot (p2_media/main.py, the task         *)
(* follow_controller): it asks P1 for the host that has it, in a thread,   *)
(* takes the answer, sleeps, and asks again.  In between the slot passes   *)
(* on, P1 dies, starts again or stands still, and P2 starts again.         *)
(*                                                                         *)
(* ScreenHub leaves SetControllerHost free; this module says when it       *)
(* happens and with which host.                                            *)
(***************************************************************************)
EXTENDS Integers

CONSTANTS
    Host,
    Nobody,     \* None: nobody has the slot, or P1 did not say
    Poll,       \* CONTROLLER_POLL_S (1 s), in ticks
    Timeout     \* of the request (2 s)

FollowAssumption ==
    /\ Nobody \notin Host
    /\ "pending" \notin Host \cup {Nobody} /\ "failed" \notin Host \cup {Nobody}
    /\ Poll \in Nat \ {0} /\ Timeout \in Nat \ {0}

VARIABLES
    p1,         \* "up", "stalled" (its event loop is blocked) or "down"
    holder,     \* hub.controller_host of P1
    talker,     \* hub.controller_host of P2
    task,       \* where follow_controller is: "asking" or "asleep"
    reply,      \* what the request will return
    spent,      \* ticks the task has been there
    stale,      \* history: ticks since a host last had the slot
    held        \* history: ticks since P1 is up and its slot unchanged

vars == <<p1, holder, talker, task, reply, spent, stale, held>>
p1vars == <<p1, holder>>
p2vars == <<talker, task, spent>>

\* An answer read just before the slot passes on may arrive a timeout later,
\* stand until the next request starts, and until that one has ended.
Lag == Poll + 2 * Timeout

Someone == Host \cup {Nobody}

\* What P1 and P2 promise together, of the slot, of whom P2 lets act, and of
\* how long ago a host had the slot.
Promise == INSTANCE ControllerTalks
           WITH holder <- holder, talker <- talker, stale <- stale, Lag <- Lag

TypeOK ==
    /\ p1 \in {"up", "stalled", "down"}
    /\ holder \in Someone /\ talker \in Someone
    /\ task \in {"asking", "asleep"}
    /\ reply \in Someone \cup {"pending", "failed"}
    /\ spent \in Nat
    /\ stale \in [Host -> 0 .. Lag + 1]
    /\ held \in 0 .. Lag + 1

-----------------------------------------------------------------------------
\* P1

Stamp(h) == stale' = [g \in Host |-> IF g = h THEN 0 ELSE stale[g]]

\* A client of host h claims the slot, or the last one leaves it (Nobody).
Pass(h) ==
    /\ p1 = "up" /\ h # holder
    /\ holder' = h
    /\ Stamp(h)
    /\ held' = 0
    /\ UNCHANGED <<p1, p2vars, reply>>

\* The slot lives in P1's memory.  A request that is under way is reset, unless
\* its answer has been sent.
P1Dies ==
    /\ p1 # "down"
    /\ p1' = "down"
    /\ holder' = Nobody
    /\ reply' \in {reply, IF task = "asking" THEN "failed" ELSE reply}
    /\ reply' # "pending"
    /\ held' = 0
    /\ UNCHANGED <<p2vars, stale>>

P1Stalls ==
    /\ p1 = "up"
    /\ p1' = "stalled"
    /\ held' = 0
    /\ UNCHANGED <<holder, p2vars, reply, stale>>

P1Serves ==
    /\ p1 # "up"
    /\ p1' = "up"
    /\ held' = 0
    /\ UNCHANGED <<holder, p2vars, reply, stale>>

\* GET /api/controller reads the slot at one instant.
Answer ==
    /\ p1 = "up" /\ task = "asking" /\ reply = "pending"
    /\ reply' = holder
    /\ UNCHANGED <<p1vars, p2vars, stale, held>>

-----------------------------------------------------------------------------
\* P2

\* While P1 is down the connection is refused at once.
Ask ==
    /\ task' = "asking"
    /\ spent' = 0
    /\ reply' = IF p1 = "down" THEN "failed" ELSE "pending"

\* The second half of the loop: hub.set_controller_host, then the sleep.
Take(h) ==
    /\ talker' = h
    /\ task' = "asleep"
    /\ spent' = 0
    /\ reply' = Nobody

Wake ==
    /\ task = "asleep" /\ spent >= Poll
    /\ Ask
    /\ UNCHANGED <<p1vars, talker, stale, held>>

\* A mutant of Follow: an answer counts only while nobody may talk.
FollowFirst ==
    /\ task = "asking" /\ reply \in Someone
    /\ Take(IF talker = Nobody THEN reply ELSE talker)
    /\ UNCHANGED <<p1vars, stale, held>>

Follow ==
    /\ task = "asking" /\ reply \in Someone
    /\ Take(reply)
    /\ UNCHANGED <<p1vars, stale, held>>

\* A mutant of Fail: P2 keeps the last host it knew.
FailKeeps ==
    /\ task = "asking"
    /\ reply = "failed" \/ (reply = "pending" /\ spent >= Timeout)
    /\ Take(talker)
    /\ UNCHANGED <<p1vars, stale, held>>

\* Whatever goes wrong with the request, nobody may talk.
Fail ==
    /\ task = "asking"
    /\ \/ reply = "failed"
       \/ reply = "pending" /\ spent >= Timeout
    /\ Take(Nobody)
    /\ UNCHANGED <<p1vars, stale, held>>

\* The task asks as soon as the application starts.
P2Restarts ==
    /\ talker' = Nobody
    /\ Ask
    /\ held' = 0
    /\ UNCHANGED <<p1vars, stale>>

-----------------------------------------------------------------------------
\* A P1 whose event loop runs answers within a tick.
Tick ==
    /\ ~(p1 = "up" /\ reply = "pending")
    /\ task = "asleep" => spent < Poll
    /\ task = "asking" => spent < Timeout
    /\ spent' = spent + 1
    /\ stale' = [h \in Host |-> IF h = holder \/ stale[h] > Lag
                                THEN stale[h] ELSE stale[h] + 1]
    /\ held' = IF p1 = "up" /\ held <= Lag THEN held + 1 ELSE held
    /\ UNCHANGED <<p1vars, talker, task, reply>>

Init ==
    /\ p1 = "up" /\ holder = Nobody
    /\ talker = Nobody /\ task = "asking" /\ spent = 0 /\ reply = "pending"
    /\ stale = [h \in Host |-> Lag + 1]
    /\ held = 0

Next ==
    \/ \E h \in Someone : Pass(h)
    \/ P1Dies \/ P1Stalls \/ P1Serves \/ Answer
    \/ Wake \/ Follow \/ Fail \/ P2Restarts
    \/ Tick

Spec == Init /\ [][Next]_vars

-----------------------------------------------------------------------------
\* The poll keeps the promise: a host that lost the slot, to another or because
\* P1 died, may act for Lag more at most (follow_controller,
\* MediaServer._fetch_controller_host).
FollowsSlot == Promise!Spec

\* A host that has had the slot for longer than Lag, with P1 answering all the
\* while, is the one that may act; with nobody in the slot, nobody may.
HolderTalks == held > Lag => talker = holder

-----------------------------------------------------------------------------
(***************************************************************************)
(* The inductive invariant behind both: how old the host may be that an    *)
(* answer under way names, or that P2 lets act, by where the task is; and  *)
(* since when the slot must have stood still for them to be its holder.    *)
(***************************************************************************)
TaskInv ==
    /\ task = "asking" => spent <= Timeout
    /\ task = "asleep" => spent <= Poll /\ reply = Nobody

AgeInv ==
    /\ holder \in Host => stale[holder] = 0
    /\ task = "asking" /\ reply \in Host => stale[reply] <= spent
    /\ talker \in Host =>
          stale[talker] <= spent + (IF task = "asking" THEN Timeout + Poll ELSE Timeout)

StillInv ==
    /\ p1 # "up" => held = 0
    /\ task = "asking" /\ reply = "failed" => held <= spent
    /\ task = "asking" /\ reply = "pending" /\ spent > 0 => held = 0
    /\ task = "asking" /\ reply \in Someone /\ held > spent => reply = holder
    /\ held > spent + (IF task = "asking" THEN Timeout + Poll ELSE Timeout)
          => talker = holder

FollowInv == TypeOK /\ TaskInv /\ AgeInv /\ StillInv
=============================================================================
