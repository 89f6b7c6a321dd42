----------------------------- MODULE Supervisor -----------------------------
(***************************************************************************)
(* The watchdog P3 (pi/p3_watchdog): one task per child on one event loop, *)
(* with P1's process lock and systemd around it.                           *)
(*                                                                         *)
(* Time is in ticks.  A task runs as soon as it is due, so time waits for  *)
(* it, except while kill() blocks the whole loop in proc.wait.  The exit   *)
(* codes change the log and a counter only and are not here.               *)
(***************************************************************************)
EXTENDS Integers, FiniteSets

CONSTANTS
    Child,          \* the supervised processes: P1 and P2
    Poll,           \* POLL_INTERVAL_S (1)
    Period,         \* HEALTH_POLL_INTERVAL_S (10)
    Timeout,        \* HEALTH_TIMEOUT_S (5)
    MissLimit,      \* HEALTH_MISS_LIMIT (3)
    Cooldown,       \* COOLDOWN_S (10)
    KillWait,       \* the timeout of proc.wait in kill (5)
    StartMax        \* bound: how long a sound child takes until it answers

ASSUME SupervisorAssumption ==
    /\ {Poll, Period, Timeout, MissLimit, Cooldown, KillWait} \subseteq Nat \ {0}
    /\ StartMax \in Nat
    /\ Poll + Timeout <= Period

\* What the bounds below need: there are two children, a sound one answers before
\* its last probe but one, kill is shorter than the probes that lead to it, and
\* with a check and the polls in between shorter than a restart.
ASSUME TimingAssumption ==
    /\ \E c, d \in Child : c # d /\ Child = {c, d}
    /\ MissLimit >= 2
    /\ StartMax <= (MissLimit - 2) * Period
    /\ KillWait < (MissLimit - 1) * Period
    /\ KillWait + Timeout + (MissLimit - 1) * (Poll - 1) < 2 * Poll + Cooldown

VARIABLES
    p3,     \* P3: "down", "up", "stopping" (stop_event is set) or "draining"
            \* (main has stopped the children and gathers the tasks)
    busy,   \* how long proc.wait still blocks the event loop
    child   \* per child, its SupervisedProcess, its task and its process

vars == <<p3, busy, child>>

(***************************************************************************)
(* The fields of child[c]:                                                 *)
(*   pc          where run_supervised is: "start" before the first spawn;  *)
(*               asleep in "poll" or "cooldown"; awaiting the "check"; or  *)
(*               "ended", or "failed" by an exception                      *)
(*   wait        what is left of that sleep or of the check's timeout      *)
(*   since       now - last_health_check, as far as Period                 *)
(*   misses      health_misses                                             *)
(*   state       state                                                     *)
(*   proc        child.proc: "none", or a process that is "starting",      *)
(*               "serving", "hung", "stuck" (killed, but not dead yet) or  *)
(*               "exited"                                                  *)
(*   age         history: ticks the process has been starting, hung, or    *)
(*               gone                                                      *)
(*   well        history: it started in time and never hung                *)
(*   lingering   a process P3 gave up on lives on, with lock and port      *)
(***************************************************************************)
Idle == [pc |-> "ended", wait |-> 0, since |-> 0, misses |-> 0,
         state |-> "STOPPED", proc |-> "none", age |-> 0, well |-> FALSE,
         lingering |-> FALSE]

Stopping == p3 \in {"stopping", "draining"}

\* is_alive: poll() has no exit code yet.
IsAlive(r) == r.proc \in {"starting", "serving", "hung", "stuck"}

Put(c, r) == child' = [child EXCEPT ![c] = r]

-----------------------------------------------------------------------------
(***************************************************************************)
(* SupervisedProcess, as functions of the record.                          *)
(***************************************************************************)

\* spawn, and last_health_check = 0.0: the first probe is due at once.
Spawned(r) ==
    [r EXCEPT !.proc = "starting", !.age = 0, !.well = TRUE,
              !.state = "MONITORING", !.misses = 0, !.since = Period]

\* mark_crashed.  A process that is not dead is forgotten.
Crashed(r) ==
    [r EXCEPT !.state = "COOLDOWN", !.proc = "none",
              !.lingering = @ \/ r.proc = "stuck"]

\* kill, when SIGKILL takes effect within KillWait (dies) and when it does not.
Killed(r, dies) ==
    IF IsAlive(r)
    THEN [r EXCEPT !.proc = IF dies THEN "exited" ELSE "stuck",
                   !.age = IF r.proc = "stuck" THEN @ ELSE 0]
    ELSE r

\* For how long its proc.wait may block the event loop.
Blocked(r, dies) ==
    IF ~IsAlive(r) THEN {0} ELSE IF dies THEN 0 .. KillWait ELSE {KillWait}

\* Mutant of Stopped: the process is not killed.
StoppedOnly(r, dies) == [r EXCEPT !.state = "STOPPED"]

\* stop.
Stopped(r, dies) == [Killed(r, dies) EXCEPT !.state = "STOPPED"]

\* `while not stop_event.is_set()`, and stop behind it.
Again(c, r) ==
    IF Stopping
    THEN \E dies \in BOOLEAN :
            /\ Put(c, [Stopped(r, dies) EXCEPT !.pc = "ended", !.wait = 0])
            /\ \E n \in Blocked(r, dies) : busy' = busy + n
    ELSE /\ Put(c, [r EXCEPT !.pc = "poll", !.wait = Poll])
         /\ UNCHANGED busy

-----------------------------------------------------------------------------
(***************************************************************************)
(* run_supervised.                                                         *)
(***************************************************************************)

\* The task of c is to run: it is due and nothing blocks the loop.
Runs(c, pc) ==
    /\ p3 # "down" /\ busy = 0
    /\ child[c].pc = pc /\ child[c].wait = 0

\* The first spawn, and the one after a cooldown, which looks at stop_event
\* first.
Spawn(c) ==
    /\ (Runs(c, "start") \/ Runs(c, "cooldown"))
    /\ Again(c, IF child[c].pc = "cooldown" /\ Stopping THEN child[c]
                ELSE Spawned(child[c]))
    /\ UNCHANGED p3

\* Popen raises: the exception ends the task, and nobody awaits it before the
\* stop.
SpawnFails(c) ==
    /\ Runs(c, "start") \/ (Runs(c, "cooldown") /\ ~Stopping)
    /\ Put(c, [child[c] EXCEPT !.pc = "failed"])
    /\ UNCHANGED <<p3, busy>>

\* Awake in COOLDOWN: the second, longer sleep.
CoolDown(c) ==
    /\ Runs(c, "poll")
    /\ child[c].state = "COOLDOWN"
    /\ Put(c, [child[c] EXCEPT !.pc = "cooldown", !.wait = Cooldown])
    /\ UNCHANGED <<p3, busy>>

\* Mutant of Gone: an exit goes unnoticed.
GoneUnnoticed(r) == r.proc = "none"

\* not is_alive()
Gone(r) == ~IsAlive(r)

\* The child has exited.
NoticeExit(c) ==
    /\ Runs(c, "poll")
    /\ child[c].state # "COOLDOWN" /\ Gone(child[c])
    /\ Again(c, Crashed(child[c]))
    /\ UNCHANGED p3

\* A probe, when one is due.
Probe(c) ==
    /\ Runs(c, "poll")
    /\ child[c].state # "COOLDOWN" /\ ~Gone(child[c])
    /\ IF child[c].since >= Period
       THEN /\ Put(c, [child[c] EXCEPT !.since = 0, !.pc = "check", !.wait = Timeout])
            /\ UNCHANGED busy
       ELSE Again(c, child[c])
    /\ UNCHANGED p3

\* Mutant of Answered: what was missed before an answer still counts.
AnsweredKeepsMisses(r) == r

Answered(r) == [r EXCEPT !.misses = 0]

\* check_health is True: 200 within the timeout.
Healthy(c) ==
    /\ p3 # "down" /\ busy = 0
    /\ child[c].pc = "check" /\ child[c].proc = "serving"
    /\ Again(c, Answered(child[c]))
    /\ UNCHANGED p3

\* Mutant of Missed: the count starts again with each miss.
MissedOnce(r) == [r EXCEPT !.misses = 1]

Missed(r) == [r EXCEPT !.misses = @ + 1]

\* check_health is False: nobody listens, or the time is over.  At the limit
\* the child is killed.  An answer that came while the loop was blocked may
\* lose to the timeout.
Unhealthy(c) ==
    LET r == Missed(child[c]) IN
    /\ p3 # "down" /\ busy = 0
    /\ child[c].pc = "check"
    /\ child[c].wait = 0 \/ child[c].proc \in {"starting", "exited"}
    /\ IF r.misses < MissLimit THEN Again(c, r)
       ELSE \E dies \in BOOLEAN : \E n \in Blocked(r, dies) :
               /\ busy' = n
               /\ LET k == Crashed(Killed(r, dies)) IN
                  Put(c, IF Stopping
                         THEN [k EXCEPT !.state = "STOPPED", !.pc = "ended", !.wait = 0]
                         ELSE [k EXCEPT !.pc = "poll", !.wait = n + Poll])
    /\ UNCHANGED p3

-----------------------------------------------------------------------------
(***************************************************************************)
(* P3 itself.                                                              *)
(***************************************************************************)

\* _run: the tasks are created.
P3Starts ==
    /\ p3 = "down"
    /\ p3' = "up"
    /\ busy' = 0
    /\ child' = [c \in Child |-> [Idle EXCEPT !.pc = "start",
                                              !.lingering =
                   child[c].lingering \/ child[c].proc = "stuck"]]

\* SIGTERM: stop_event.set().  The loop runs the tasks' first steps before it
\* looks at signals.
Signal ==
    /\ p3 = "up"
    /\ \A c \in Child : child[c].pc # "start"
    /\ p3' = "stopping"
    /\ UNCHANGED <<busy, child>>

\* main stops the children one after the other.
StopChildren ==
    LET Alive == {c \in Child : IsAlive(child[c])} IN
    /\ p3 = "stopping" /\ busy = 0
    /\ p3' = "draining"
    /\ \E dies \in [Child -> BOOLEAN] :
          /\ child' = [c \in Child |-> Stopped(child[c], dies[c])]
          /\ busy' \in KillWait * Cardinality({c \in Alive : ~dies[c]})
                       .. KillWait * Cardinality(Alive)

\* gather is through.
P3Stops ==
    /\ p3 = "draining" /\ busy = 0
    /\ \A c \in Child : child[c].pc \in {"ended", "failed"}
    /\ p3' = "down"
    /\ UNCHANGED <<busy, child>>

\* P3 is killed or crashes; systemd kills what is left in its control group
\* (KillMode), except what cannot die yet.
P3Dies ==
    /\ p3 # "down"
    /\ p3' = "down"
    /\ busy' = 0
    /\ \E stuck \in SUBSET {c \in Child : IsAlive(child[c])} :
          child' = [c \in Child |-> [Idle EXCEPT !.lingering =
                                        child[c].lingering \/ c \in stuck]]

-----------------------------------------------------------------------------
(***************************************************************************)
(* The children's processes.                                               *)
(***************************************************************************)

\* The child answers GET /health.  It has the lock (P1) and the port then.
Serves(c) ==
    /\ child[c].proc = "starting" /\ ~child[c].lingering
    /\ Put(c, [child[c] EXCEPT !.proc = "serving", !.age = 0])
    /\ UNCHANGED <<p3, busy>>

Hangs(c) ==
    /\ child[c].proc = "serving"
    /\ Put(c, [child[c] EXCEPT !.proc = "hung", !.age = 0, !.well = FALSE])
    /\ UNCHANGED <<p3, busy>>

Recovers(c) ==
    /\ child[c].proc = "hung"
    /\ Put(c, [child[c] EXCEPT !.proc = "serving", !.age = 0])
    /\ UNCHANGED <<p3, busy>>

\* It ends by itself: a crash, or main returns one of its exit codes, as when
\* the lock is held.
Exits(c) ==
    /\ child[c].proc \in {"starting", "serving", "hung"}
    /\ Put(c, [child[c] EXCEPT !.proc = "exited", !.age = 0])
    /\ UNCHANGED <<p3, busy>>

\* A process that outlived its kill dies at last.
StuckDies(c) ==
    /\ child[c].proc = "stuck"
    /\ Put(c, [child[c] EXCEPT !.proc = "exited"])
    /\ UNCHANGED <<p3, busy>>

LingererDies(c) ==
    /\ child[c].lingering
    /\ Put(c, [child[c] EXCEPT !.lingering = FALSE])
    /\ UNCHANGED <<p3, busy>>

-----------------------------------------------------------------------------
\* A hung process is killed within: MissLimit probes, each a Period after the one
\* before and the poll that finds it due, the timeout of the last one, and the
\* sibling's kill.
HangBound == MissLimit * (Period + Poll - 1) + Timeout + KillWait

\* A process that is gone is spawned again within: a poll that notices it, or its
\* own kill, a poll that goes to the longer sleep, that sleep, and the sibling's
\* kill.
DownBound ==
    (IF KillWait > Poll THEN KillWait ELSE Poll) + Poll + Cooldown + KillWait

AgeMax == IF HangBound > DownBound THEN HangBound + 1 ELSE DownBound + 1

\* A task that is due, or has an answer, runs before time goes on.
IsDue(c) ==
    \/ child[c].pc \in {"start", "poll", "cooldown", "check"} /\ child[c].wait = 0
    \/ child[c].pc = "check" /\ child[c].proc \in {"starting", "serving", "exited"}

Down(n) == IF n = 0 THEN 0 ELSE n - 1

Older(r) ==
    LET late == r.proc = "starting" /\ r.age >= StartMax
        counts == r.proc # "serving" /\ r.age < AgeMax
    IN  [r EXCEPT !.wait = Down(@),
                  !.since = IF @ < Period THEN @ + 1 ELSE @,
                  !.age = IF counts THEN @ + 1 ELSE @,
                  !.well = @ /\ ~late]

Tick ==
    /\ p3 # "down"
    /\ busy = 0 => /\ p3 # "stopping"
                   /\ \A c \in Child : ~IsDue(c)
                   /\ p3 = "draining" =>
                        \E c \in Child : child[c].pc \notin {"ended", "failed"}
    /\ busy' = Down(busy)
    /\ child' = [c \in Child |-> Older(child[c])]
    /\ UNCHANGED p3

Init == p3 = "down" /\ busy = 0 /\ child = [c \in Child |-> Idle]

Task(c) ==
    \/ Spawn(c) \/ SpawnFails(c) \/ CoolDown(c) \/ NoticeExit(c)
    \/ Probe(c) \/ Healthy(c) \/ Unhealthy(c)

Process(c) ==
    \/ Serves(c) \/ Hangs(c) \/ Recovers(c) \/ Exits(c)
    \/ StuckDies(c) \/ LingererDies(c)

Next ==
    \/ \E c \in Child : Task(c) \/ Process(c)
    \/ P3Starts \/ Signal \/ StopChildren \/ P3Stops \/ P3Dies
    \/ Tick

Spec == Init /\ [][Next]_vars

-----------------------------------------------------------------------------
(***************************************************************************)
(* Properties.                                                             *)
(***************************************************************************)

\* The fields keep their range; health_misses stays below the limit.
TypeOK ==
    /\ p3 \in {"down", "up", "stopping", "draining"}
    /\ busy \in 0 .. KillWait * 2 * Cardinality(Child)
    /\ child \in [Child ->
         [pc : {"start", "poll", "cooldown", "check", "ended", "failed"},
          wait : 0 .. Cooldown + Timeout + Poll + KillWait,
          since : 0 .. Period, misses : 0 .. MissLimit,
          state : {"MONITORING", "COOLDOWN", "STOPPED"},
          proc : {"none", "starting", "serving", "hung", "stuck", "exited"},
          age : 0 .. AgeMax, well : BOOLEAN, lingering : BOOLEAN]]

\* A child that started in time and never stopped answering is never killed by
\* the watchdog while it runs, whatever its sibling does to the event loop:
\* "Each supervised process (P1, P2) is independent".
SparesTheWell ==
    [][\A c \in Child :
          p3 = "up" /\ p3' = "up" /\ child[c].well /\ IsAlive(child[c])
            => child'[c].proc # "none"]_vars

\* A child that answers no more is killed within HangBound, even when the loop
\* is blocked by the sibling's kill while a probe is due.
HangEnds ==
    \A c \in Child :
        p3 = "up" /\ child[c].pc # "failed" /\ child[c].proc = "hung"
            => child[c].age <= HangBound

\* A child that is gone is spawned again within DownBound, unless the task that
\* would do it is gone itself.
ComesBack ==
    \A c \in Child :
        p3 = "up" /\ child[c].pc # "failed" /\ child[c].proc \in {"none", "exited"}
            => child[c].age <= DownBound

\* P3 that has stopped leaves no child running, whenever the signal came.
NoneLeft ==
    p3 = "down" => \A c \in Child : child[c].proc \in {"none", "exited", "stuck"}

=============================================================================
