----------------------------- MODULE FaultInject -----------------------------
(***************************************************************************)
(* The fault injector (tools/eval/faultinject.py run): it kills P1, P2 or  *)
(* P3 and times how long it takes until the robot has recovered by itself. *)
(* What it sees of the robot are process ids and the answers of the        *)
(* /health pages, one after the other, while P3 and systemd go on; what P3 *)
(* does in detail is in Supervisor.                                        *)
(***************************************************************************)
EXTENDS Integers, Sequences, Functions

CONSTANT MaxStart   \* bound on the times a program is started

FaultAssumption == MaxStart \in Nat \ {0}

VARIABLES
    pid,        \* of the running "p1", "p2", "p3"; Gone without one
    starts,     \* how often each was started, from which its next pid comes
    answering,  \* those whose /health answers, with all that is required true
    dying,      \* those that were sent SIGKILL and are still there
    fault,      \* the target
    step,       \* "pid", "ask", or "settle" between the trials
    got,        \* the pid this poll read
    left,       \* whose /health it has still to ask
    old,        \* old_pid once the fault is injected; Gone before
    downSeen,   \* down_ms is not None
    outcome,    \* of this trial: "none", "skipped", "failed", "recovered"
    before      \* history: the pids when the fault was injected, or Nothing

robot == <<pid, starts, answering, dying>>
harness == <<fault, step, got, left, old, downSeen, outcome, before>>
vars == <<robot, harness>>

Process == {"p1", "p2", "p3"}
Gone == 0
Nothing == [p \in Process |-> Gone]

\* TARGETS: the pages asked after, in the order of healthy.  P3 takes the whole
\* unit with it.
Pages == [p1 |-> <<"p1">>, p2 |-> <<"p2">>, p3 |-> <<"p1", "p2">>]
Struck(p) == {p} \cup Range(Pages[p])

Init ==
    /\ pid = [p \in Process |-> 1] /\ starts = [p \in Process |-> 1]
    /\ answering = Process /\ dying = {}
    /\ fault \in Process
    /\ step = "pid" /\ got = Gone /\ left = <<>>
    /\ old = Gone /\ downSeen = FALSE /\ outcome = "none"
    /\ before = Nothing

-----------------------------------------------------------------------------
\* The robot

Leaves(gone) ==
    /\ pid' = [p \in Process |-> IF p \in gone THEN Gone ELSE pid[p]]
    /\ answering' = answering \ gone /\ dying' = dying \ gone
    /\ UNCHANGED <<starts, harness>>

Starts(p) ==
    /\ pid[p] = Gone /\ starts[p] < MaxStart
    /\ starts' = [starts EXCEPT ![p] = @ + 1]
    /\ pid' = [pid EXCEPT ![p] = starts'[p]]
    /\ UNCHANGED <<answering, dying, harness>>

\* The signal takes a while to reach a process the kernel is busy with.
Dies == \E p \in dying : Leaves({p})

\* KillMode=control-group: what P3 leaves behind goes, one by one.
SystemdClears == pid["p3"] = Gone /\ \E p \in {"p1", "p2"} : pid[p] # Gone /\ Leaves({p})

\* Restart=on-failure, once the unit is empty.
SystemdStarts == (\A p \in Process : pid[p] = Gone) /\ Starts("p3")

\* run_supervised
WatchdogStarts == pid["p3"] # Gone /\ \E p \in {"p1", "p2"} : Starts(p)

\* A server listens and has its serial port or camera, or loses it.
Readiness ==
    \E p \in {"p1", "p2"} :
        /\ pid[p] # Gone
        /\ answering' = IF p \in answering THEN answering \ {p} ELSE answering \cup {p}
        /\ UNCHANGED <<pid, starts, dying, harness>>

-----------------------------------------------------------------------------
\* The injector

NextPoll == step' = "pid" /\ got' = Gone /\ left' = <<>>

Row(result) ==
    /\ outcome' = result
    /\ step' = "settle" /\ got' = Gone /\ left' = <<>>

\* inject: the system is healthy, or not, before the injection.
Begin(ready) ==
    IF ready
    THEN /\ dying' = dying \cup {fault}
         /\ old' = got /\ downSeen' = FALSE
         /\ before' = pid
         /\ NextPoll /\ UNCHANGED outcome
    ELSE /\ Row("skipped")
         /\ UNCHANGED <<dying, old, downSeen, before>>

\* A mutant of Recovered: being up again is enough.
RecoveredAnyPid(ready) == downSeen /\ ready

Recovered(ready) == downSeen /\ ready /\ got # old

\* inject's loop.
Follow(ready) ==
    /\ downSeen' = (downSeen \/ ~ready)
    /\ IF Recovered(ready) THEN Row("recovered") ELSE NextPoll /\ UNCHANGED outcome
    /\ UNCHANGED <<dying, old, before>>

\* What healthy answers goes to the one or the other.
Judge(ready) == IF old = Gone THEN Begin(ready) ELSE Follow(ready)

\* healthy: one_pid first.
ReadPid ==
    /\ step = "pid"
    /\ IF pid[fault] = Gone
       THEN Judge(FALSE)
       ELSE /\ step' = "ask" /\ got' = pid[fault] /\ left' = Pages[fault]
            /\ UNCHANGED <<dying, old, downSeen, outcome, before>>
    /\ UNCHANGED <<pid, starts, answering, fault>>

\* http_json, which may time out on a server that is well.
Ask ==
    /\ step = "ask"
    /\ \E answer \in BOOLEAN :
          /\ answer => Head(left) \in answering
          /\ IF answer /\ Len(left) > 1
             THEN /\ left' = Tail(left)
                  /\ UNCHANGED <<step, got, dying, old, downSeen, outcome, before>>
             ELSE Judge(answer)
    /\ UNCHANGED <<pid, starts, answering, fault>>

\* The timeout of the trial, seen between two polls.
TimesOut ==
    /\ step = "pid" /\ old # Gone
    /\ Row("failed")
    /\ UNCHANGED <<robot, fault, old, downSeen, before>>

\* cmd_run goes on with the next trial or target.
NextTrial ==
    /\ step = "settle" /\ NextPoll
    /\ fault' \in Process
    /\ old' = Gone /\ downSeen' = FALSE
    /\ outcome' = "none" /\ before' = Nothing
    /\ UNCHANGED robot

Next ==
    \/ Dies \/ SystemdClears \/ SystemdStarts \/ WatchdogStarts \/ Readiness
    \/ ReadPid \/ Ask \/ TimesOut \/ NextTrial

Spec == Init /\ [][Next]_vars

-----------------------------------------------------------------------------
\* A recovery that is recorded is one: every process the fault was to take down
\* is gone or another - with P3 the whole stack, though only the watchdog's own
\* pid is compared - unless the process whose pid was read had already made way
\* for another when the signal was sent (healthy, inject).
RecoveryReal ==
    step = "settle" /\ outcome = "recovered" /\ before[fault] = old =>
        \A p \in Struck(fault) : pid[p] # before[p]
=============================================================================
