-------------------------- MODULE SupervisorProofs --------------------------
(***************************************************************************)
(* The watchdog's stop, for any children and any periods: NoneLeft; and    *)
(* its times, for two children and periods that are far enough apart:      *)
(* HangEnds, ComesBack and SparesTheWell.                                  *)
(*                                                                         *)
(* StopInv says why the first holds.  When the signal comes, every task    *)
(* has made its first spawn; main then stops the children and only waits   *)
(* for the tasks; and a task that wakes up behind that stops its child and *)
(* ends.  TimeInv, further below, says why the others do.                  *)
(***************************************************************************)
EXTENDS Supervisor, TLAPS

Pc == {"start", "poll", "cooldown", "check", "ended", "failed"}
Proc == {"none", "starting", "serving", "hung", "stuck", "exited"}

ChildState ==
    [pc : Pc, wait : Nat, since : Nat, misses : Nat,
     state : {"MONITORING", "COOLDOWN", "STOPPED"}, proc : Proc,
     age : Nat, well : BOOLEAN, lingering : BOOLEAN]

\* A process that is gone, or that no signal can end.
Over(r) == r.proc \in {"none", "exited", "stuck"}

StopInv ==
    /\ p3 \in {"down", "up", "stopping", "draining"}
    /\ child \in [Child -> ChildState]
    /\ Stopping => \A c \in Child : child[c].pc # "start"
    /\ p3 \in {"down", "draining"} => \A c \in Child : Over(child[c])

-----------------------------------------------------------------------------
LEMMA Constants ==
  /\ Poll \in Nat /\ Period \in Nat /\ Timeout \in Nat /\ Cooldown \in Nat
  /\ KillWait \in Nat
  BY SupervisorAssumption

\* What the methods of SupervisedProcess make of a record.
LEMMA SpawnedIs ==
  ASSUME NEW r \in ChildState
  PROVE  Spawned(r) \in ChildState /\ Spawned(r).pc = r.pc
  BY Constants DEF Spawned, ChildState, Proc

LEMMA CrashedIs ==
  ASSUME NEW r \in ChildState
  PROVE  Crashed(r) \in ChildState /\ Crashed(r).pc = r.pc /\ Over(Crashed(r))
  BY DEF Crashed, ChildState, Proc, Over

LEMMA KilledIs ==
  ASSUME NEW r \in ChildState, NEW dies \in BOOLEAN
  PROVE  Killed(r, dies) \in ChildState /\ Killed(r, dies).pc = r.pc /\ Over(Killed(r, dies))
<1>1. CASE IsAlive(r)
  BY <1>1 DEF Killed, ChildState, Proc, Over
<1>2. CASE ~IsAlive(r)
  BY <1>2 DEF Killed, IsAlive, ChildState, Proc, Over
<1> QED BY <1>1, <1>2

LEMMA StoppedIs ==
  ASSUME NEW r \in ChildState, NEW dies \in BOOLEAN
  PROVE  Stopped(r, dies) \in ChildState /\ Stopped(r, dies).pc = r.pc /\ Over(Stopped(r, dies))
<1> DEFINE k == Killed(r, dies)
<1>1. k \in ChildState /\ k.pc = r.pc /\ Over(k)
  BY KilledIs
<1>2. Stopped(r, dies) = [k EXCEPT !.state = "STOPPED"]
  BY DEF Stopped
<1> HIDE DEF k
<1> QED BY <1>1, <1>2 DEF ChildState, Over

-----------------------------------------------------------------------------
\* One child's record is replaced: what the new one must satisfy.
LEMMA PutKeeps ==
  ASSUME StopInv, NEW c \in Child, NEW r \in ChildState, Put(c, r), p3' = p3,
         r.pc # "start" \/ r.pc = child[c].pc,
         p3 \in {"down", "draining"} => Over(r)
  PROVE  StopInv'
<1>1. child \in [Child -> ChildState]
  BY DEF StopInv
<1>2. child' \in [Child -> ChildState]
      /\ \A e \in Child : child'[e] = IF e = c THEN r ELSE child[e]
  BY <1>1 DEF Put
<1>3. Stopping' = Stopping
  BY DEF Stopping
<1> QED BY <1>2, <1>3 DEF StopInv, Over

\* The end of every round of run_supervised.
LEMMA AgainKeeps ==
  ASSUME StopInv, NEW c \in Child, NEW r \in ChildState, Again(c, r), p3' = p3,
         p3 # "down"
  PROVE  StopInv'
<1>1. CASE Stopping
  <2>1. PICK dies \in BOOLEAN :
           Put(c, [Stopped(r, dies) EXCEPT !.pc = "ended", !.wait = 0])
    BY <1>1 DEF Again
  <2> DEFINE k == Stopped(r, dies)
             q == [k EXCEPT !.pc = "ended", !.wait = 0]
  <2>2. k \in ChildState /\ Over(k)
    BY StoppedIs
  <2> HIDE DEF k
  <2>3. q \in ChildState /\ Over(q) /\ q.pc = "ended"
    BY <2>2 DEF ChildState, Over, Pc
  <2>4. Put(c, q)
    BY <2>1 DEF k
  <2> HIDE DEF q
  <2> QED BY <2>3, <2>4, PutKeeps
<1>2. CASE ~Stopping
  <2> DEFINE q == [r EXCEPT !.pc = "poll", !.wait = Poll]
  <2>1. q \in ChildState /\ q.pc = "poll"
    BY Constants DEF ChildState, Pc
  <2>2. Put(c, q) /\ p3 \notin {"down", "draining"}
    BY <1>2 DEF Again, Stopping
  <2> HIDE DEF q
  <2> QED BY <2>1, <2>2, PutKeeps
<1> QED BY <1>1, <1>2

-----------------------------------------------------------------------------
LEMMA SpawnKeeps == ASSUME StopInv, NEW c \in Child, Spawn(c) PROVE StopInv'
<1>1. child[c] \in ChildState /\ p3' = p3 /\ p3 # "down"
  BY DEF StopInv, Spawn, Runs
<1> DEFINE r == IF child[c].pc = "cooldown" /\ Stopping THEN child[c] ELSE Spawned(child[c])
<1>2. r \in ChildState
  BY <1>1, SpawnedIs
<1>3. Again(c, r)
  BY DEF Spawn
<1> HIDE DEF r
<1> QED BY <1>1, <1>2, <1>3, AgainKeeps

LEMMA SpawnFailsKeeps == ASSUME StopInv, NEW c \in Child, SpawnFails(c) PROVE StopInv'
<1> DEFINE r == [child[c] EXCEPT !.pc = "failed"]
<1>1. child[c] \in ChildState /\ p3' = p3
      /\ (p3 \in {"down", "draining"} => Over(child[c]))
  BY DEF StopInv, SpawnFails
<1>2. r \in ChildState /\ r.pc = "failed" /\ r.proc = child[c].proc
  BY <1>1 DEF ChildState, Pc
<1>3. Put(c, r)
  BY DEF SpawnFails
<1> HIDE DEF r
<1> QED BY <1>1, <1>2, <1>3, PutKeeps DEF Over

LEMMA CoolDownKeeps == ASSUME StopInv, NEW c \in Child, CoolDown(c) PROVE StopInv'
<1> DEFINE r == [child[c] EXCEPT !.pc = "cooldown", !.wait = Cooldown]
<1>1. child[c] \in ChildState /\ p3' = p3
      /\ (p3 \in {"down", "draining"} => Over(child[c]))
  BY DEF StopInv, CoolDown
<1>2. r \in ChildState /\ r.pc = "cooldown" /\ r.proc = child[c].proc
  BY <1>1, Constants DEF ChildState, Pc
<1>3. Put(c, r)
  BY DEF CoolDown
<1> HIDE DEF r
<1> QED BY <1>1, <1>2, <1>3, PutKeeps DEF Over

LEMMA NoticeExitKeeps == ASSUME StopInv, NEW c \in Child, NoticeExit(c) PROVE StopInv'
<1>1. child[c] \in ChildState /\ p3' = p3 /\ p3 # "down"
  BY DEF StopInv, NoticeExit, Runs
<1>2. Crashed(child[c]) \in ChildState
  BY <1>1, CrashedIs
<1> QED BY <1>1, <1>2, AgainKeeps DEF NoticeExit

LEMMA ProbeKeeps == ASSUME StopInv, NEW c \in Child, Probe(c) PROVE StopInv'
<1>1. child[c] \in ChildState /\ p3' = p3 /\ p3 # "down"
      /\ (p3 \in {"down", "draining"} => Over(child[c]))
  BY DEF StopInv, Probe, Runs
<1>2. CASE child[c].since >= Period
  <2> DEFINE r == [child[c] EXCEPT !.since = 0, !.pc = "check", !.wait = Timeout]
  <2>1. r \in ChildState /\ r.pc = "check" /\ r.proc = child[c].proc
    BY <1>1, Constants DEF ChildState, Pc
  <2>2. Put(c, r)
    BY <1>2 DEF Probe
  <2> HIDE DEF r
  <2> QED BY <1>1, <2>1, <2>2, PutKeeps DEF Over
<1>3. CASE ~(child[c].since >= Period)
  BY <1>1, <1>3, AgainKeeps DEF Probe
<1> QED BY <1>2, <1>3

LEMMA HealthyKeeps == ASSUME StopInv, NEW c \in Child, Healthy(c) PROVE StopInv'
<1>1. child[c] \in ChildState /\ p3' = p3 /\ p3 # "down"
  BY DEF StopInv, Healthy
<1>2. Answered(child[c]) \in ChildState
  BY <1>1 DEF Answered, ChildState
<1> QED BY <1>1, <1>2, AgainKeeps DEF Healthy

LEMMA UnhealthyKeeps == ASSUME StopInv, NEW c \in Child, Unhealthy(c) PROVE StopInv'
<1>1. child[c] \in ChildState /\ p3' = p3 /\ p3 # "down"
  BY DEF StopInv, Unhealthy
<1> DEFINE m == Missed(child[c])
<1>2. m \in ChildState
  BY <1>1 DEF Missed, ChildState
<1>3. CASE m.misses < MissLimit
  <2>1. Again(c, m)
    BY <1>3 DEF Unhealthy
  <2> HIDE DEF m
  <2> QED BY <1>1, <1>2, <2>1, AgainKeeps
<1>4. CASE ~(m.misses < MissLimit)
  <2>0. PICK dies \in BOOLEAN : \E n \in Blocked(m, dies) :
           LET k == Crashed(Killed(m, dies)) IN
           Put(c, IF Stopping THEN [k EXCEPT !.state = "STOPPED", !.pc = "ended", !.wait = 0]
                  ELSE [k EXCEPT !.pc = "poll", !.wait = n + Poll])
    BY <1>4 DEF Unhealthy
  <2>1. PICK n \in Blocked(m, dies) :
           LET k == Crashed(Killed(m, dies)) IN
           Put(c, IF Stopping THEN [k EXCEPT !.state = "STOPPED", !.pc = "ended", !.wait = 0]
                  ELSE [k EXCEPT !.pc = "poll", !.wait = n + Poll])
    BY <2>0
  <2> DEFINE k == Crashed(Killed(m, dies))
             r == IF Stopping THEN [k EXCEPT !.state = "STOPPED", !.pc = "ended", !.wait = 0]
                  ELSE [k EXCEPT !.pc = "poll", !.wait = n + Poll]
  <2> HIDE DEF m
  <2>5. n \in Nat
    BY <2>1, Constants DEF Blocked
  <2>2. k \in ChildState /\ Over(k)
    BY <1>2, KilledIs, CrashedIs
  <2>3. Put(c, r)
    BY <2>1
  <2> HIDE DEF k
  <2>6. n + Poll \in Nat
    BY <2>5, Constants
  <2>4. r \in ChildState /\ Over(r) /\ r.pc # "start"
    <3>1. CASE Stopping
      BY <2>2, <3>1 DEF ChildState, Over, Pc
    <3>2. CASE ~Stopping
      BY <2>2, <2>6, <3>2 DEF ChildState, Over, Pc
    <3> QED BY <3>1, <3>2
  <2> HIDE DEF r
  <2> QED BY <1>1, <2>3, <2>4, PutKeeps
<1> QED BY <1>3, <1>4

LEMMA TaskKeeps == ASSUME StopInv, NEW c \in Child, Task(c) PROVE StopInv'
  BY SpawnKeeps, SpawnFailsKeeps, CoolDownKeeps, NoticeExitKeeps, ProbeKeeps,
     HealthyKeeps, UnhealthyKeeps DEF Task

\* A process alone changes its own state, and one that is over stays over.
LEMMA ProcessKeeps == ASSUME StopInv, NEW c \in Child, Process(c) PROVE StopInv'
<1>1. child[c] \in ChildState /\ p3' = p3
      /\ (p3 \in {"down", "draining"} => Over(child[c]))
  BY DEF StopInv, Process, Serves, Hangs, Recovers, Exits, StuckDies, LingererDies
<1>2. PICK r \in ChildState : Put(c, r) /\ r.pc = child[c].pc /\ (Over(child[c]) => Over(r))
  <2>1. CASE Serves(c)
    <3> DEFINE r == [child[c] EXCEPT !.proc = "serving", !.age = 0]
    <3>1. r \in ChildState /\ r.pc = child[c].pc /\ ~Over(child[c]) /\ Put(c, r)
      BY <1>1, <2>1 DEF Serves, ChildState, Proc, Over
    <3> QED BY <3>1
  <2>2. CASE Hangs(c)
    <3> DEFINE r == [child[c] EXCEPT !.proc = "hung", !.age = 0, !.well = FALSE]
    <3>1. r \in ChildState /\ r.pc = child[c].pc /\ ~Over(child[c]) /\ Put(c, r)
      BY <1>1, <2>2 DEF Hangs, ChildState, Proc, Over
    <3> QED BY <3>1
  <2>3. CASE Recovers(c)
    <3> DEFINE r == [child[c] EXCEPT !.proc = "serving", !.age = 0]
    <3>1. r \in ChildState /\ r.pc = child[c].pc /\ ~Over(child[c]) /\ Put(c, r)
      BY <1>1, <2>3 DEF Recovers, ChildState, Proc, Over
    <3> QED BY <3>1
  <2>4. CASE Exits(c)
    <3> DEFINE r == [child[c] EXCEPT !.proc = "exited", !.age = 0]
    <3>1. r \in ChildState /\ r.pc = child[c].pc /\ Over(r) /\ Put(c, r)
      BY <1>1, <2>4 DEF Exits, ChildState, Proc, Over
    <3> QED BY <3>1
  <2>5. CASE StuckDies(c)
    <3> DEFINE r == [child[c] EXCEPT !.proc = "exited"]
    <3>1. r \in ChildState /\ r.pc = child[c].pc /\ Over(r) /\ Put(c, r)
      BY <1>1, <2>5 DEF StuckDies, ChildState, Proc, Over
    <3> QED BY <3>1
  <2>6. CASE LingererDies(c)
    <3> DEFINE r == [child[c] EXCEPT !.lingering = FALSE]
    <3>1. r \in ChildState /\ r.pc = child[c].pc /\ r.proc = child[c].proc /\ Put(c, r)
      BY <1>1, <2>6 DEF LingererDies, ChildState
    <3> QED BY <3>1 DEF Over
  <2> QED BY <2>1, <2>2, <2>3, <2>4, <2>5, <2>6 DEF Process
<1> QED BY <1>1, <1>2, PutKeeps

-----------------------------------------------------------------------------
\* Starts, signals and stops of P3, and time.
LEMMA IdleIs == Idle \in ChildState /\ Idle.proc = "none"
  BY DEF Idle, ChildState, Pc, Proc

LEMMA StartKeeps == StopInv /\ P3Starts => StopInv'
<1> SUFFICES ASSUME StopInv, P3Starts PROVE StopInv'
  OBVIOUS
<1>1. \A c \in Child : [Idle EXCEPT !.pc = "start", !.lingering =
                           child[c].lingering \/ child[c].proc = "stuck"] \in ChildState
  BY DEF StopInv, Idle, ChildState, Pc, Proc
<1>2. child' \in [Child -> ChildState] /\ p3' = "up"
  BY <1>1 DEF P3Starts
<1> QED BY <1>2 DEF StopInv, Stopping

LEMMA SignalKeeps == StopInv /\ Signal => StopInv'
  BY DEF StopInv, Signal, Stopping

LEMMA StopChildrenKeeps == StopInv /\ StopChildren => StopInv'
<1> SUFFICES ASSUME StopInv, StopChildren PROVE StopInv'
  OBVIOUS
<1>1. PICK dies \in [Child -> BOOLEAN] :
         child' = [c \in Child |-> Stopped(child[c], dies[c])]
  BY DEF StopChildren
<1>2. \A c \in Child : /\ child'[c] \in ChildState /\ Over(child'[c])
                       /\ child'[c].pc = child[c].pc /\ child[c].pc # "start"
  <2> SUFFICES ASSUME NEW c \in Child
               PROVE  /\ child'[c] \in ChildState /\ Over(child'[c])
                      /\ child'[c].pc = child[c].pc /\ child[c].pc # "start"
    OBVIOUS
  <2>1. child[c] \in ChildState /\ dies[c] \in BOOLEAN /\ child'[c] = Stopped(child[c], dies[c])
        /\ child[c].pc # "start"
    BY <1>1 DEF StopInv, StopChildren, Stopping
  <2> QED BY <2>1, StoppedIs
<1>3. child' \in [Child -> ChildState] /\ p3' = "draining"
  BY <1>1, <1>2 DEF StopChildren
<1> QED BY <1>2, <1>3 DEF StopInv

LEMMA P3EndsKeeps == StopInv /\ (P3Stops \/ P3Dies) => StopInv'
<1> SUFFICES ASSUME StopInv, P3Stops \/ P3Dies PROVE StopInv'
  OBVIOUS
<1>1. CASE P3Stops
  BY <1>1 DEF StopInv, P3Stops, Stopping
<1>2. CASE P3Dies
  <2>1. PICK stuck : child' = [c \in Child |-> [Idle EXCEPT !.lingering =
                                        child[c].lingering \/ c \in stuck]]
    BY <1>2 DEF P3Dies
  <2>2. \A c \in Child : child'[c] \in ChildState /\ Over(child'[c])
    BY <2>1 DEF StopInv, Idle, ChildState, Pc, Proc, Over
  <2>3. child' \in [Child -> ChildState] /\ p3' = "down"
    BY <1>2, <2>1, <2>2 DEF P3Dies
  <2> QED BY <2>2, <2>3 DEF StopInv, Stopping
<1> QED BY <1>1, <1>2

LEMMA OlderIs ==
  ASSUME NEW r \in ChildState
  PROVE  Older(r) \in ChildState /\ Older(r).pc = r.pc /\ Older(r).proc = r.proc
<1>1. Down(r.wait) \in Nat
  BY DEF Down, ChildState
<1> DEFINE since == IF r.since < Period THEN r.since + 1 ELSE r.since
           age == IF r.proc # "serving" /\ r.age < AgeMax THEN r.age + 1 ELSE r.age
           well == r.well /\ ~(r.proc = "starting" /\ r.age >= StartMax)
<1>2. since \in Nat /\ age \in Nat
  BY DEF ChildState
<1>3. well \in BOOLEAN
  OBVIOUS
<1>4. Older(r) = [r EXCEPT !.wait = Down(r.wait), !.since = since, !.age = age, !.well = well]
  BY DEF Older, ChildState
<1> HIDE DEF since, age, well
<1> QED BY <1>1, <1>2, <1>3, <1>4 DEF ChildState

LEMMA TickKeeps == StopInv /\ Tick => StopInv'
<1> SUFFICES ASSUME StopInv, Tick PROVE StopInv'
  OBVIOUS
<1>1. \A c \in Child : /\ child'[c] \in ChildState /\ child'[c].pc = child[c].pc
                       /\ child'[c].proc = child[c].proc
  BY OlderIs DEF StopInv, Tick
<1>2. child' \in [Child -> ChildState] /\ p3' = p3
  BY <1>1 DEF Tick
<1> QED BY <1>1, <1>2 DEF StopInv, Stopping, Over

-----------------------------------------------------------------------------
\* The inductive invariant of the stop (supervisor.run_supervised, p3 main).
THEOREM StopCorrect == Spec => []StopInv
<1>1. Init => StopInv
  BY IdleIs DEF Init, StopInv, Stopping, Over
<1>2. StopInv /\ [Next]_vars => StopInv'
  <2> SUFFICES ASSUME StopInv, [Next]_vars PROVE StopInv'
    OBVIOUS
  <2>1. CASE Next
    BY <2>1, TaskKeeps, ProcessKeeps, StartKeeps, SignalKeeps, StopChildrenKeeps,
       P3EndsKeeps, TickKeeps DEF Next
  <2>2. CASE UNCHANGED vars
    BY <2>2 DEF vars, StopInv, Stopping
  <2> QED BY <2>1, <2>2
<1> QED BY <1>1, <1>2, PTL DEF Spec

\* P3 that has stopped leaves no child running, however many it supervises and
\* whenever the signal came.
THEOREM LeavesNone == Spec => []NoneLeft
<1>1. StopInv => NoneLeft
  BY DEF StopInv, NoneLeft, Over
<1> QED BY <1>1, StopCorrect, PTL

-----------------------------------------------------------------------------
(***************************************************************************)
(* The watchdog's times.  What a child can lose to its sibling is the time *)
(* in which kill blocks the event loop.  Two kills of one child are a      *)
(* Cycle apart, so that at most one of them falls into the time in which   *)
(* the other child is found hung, is spawned again, or is probed once      *)
(* more: each bound holds one KillWait for it, and TimeInv says whether it *)
(* is still to come.                                                       *)
(***************************************************************************)

\* n probes, and what the polls that find them due add.
Rounds(n) == n * Period
Slack(n) == n * (Poll - 1)
Gaps(n) == Rounds(n) + Slack(n)

\* From one kill of a child to its next: COOLDOWN, a spawn, and MissLimit probes.
Cycle == 2 * Poll + Cooldown + Rounds(MissLimit - 1)

Left(r) == MissLimit - 1 - r.misses

\* The child of record r is not killed in this tick or one of the next t.
Far(r, t) ==
    /\ t < Cycle
    /\ r.pc = "start" => t < Poll + Rounds(MissLimit - 1)
    /\ r.pc = "cooldown" => t < r.wait + Poll + Rounds(MissLimit - 1)
    /\ r.pc = "poll" /\ r.state = "COOLDOWN" =>
          t < r.wait + Cooldown + Poll + Rounds(MissLimit - 1)
    /\ r.pc = "poll" /\ r.state # "COOLDOWN" =>
          t < Rounds(Left(r)) + r.wait \/ t < Rounds(Left(r)) + Period - r.since
    /\ r.pc = "check" => t < Rounds(Left(r)) - r.since

Running == {"starting", "serving", "hung"}

\* A record while P3 is up.
RecOK(r) ==
    /\ r.pc \in {"start", "poll", "cooldown", "check", "failed"}
    /\ r.since <= Period
    /\ r.state = "MONITORING" => r.misses < MissLimit
    /\ r.well => r.proc # "hung"
    /\ r.pc = "start" => r.proc = "none" /\ r.wait = 0 /\ r.age = 0
    /\ r.pc = "failed" => r.proc = "none"
    /\ r.pc = "cooldown" => r.proc = "none" /\ r.state = "COOLDOWN" /\ r.wait <= Cooldown
    /\ r.pc = "check" => /\ r.proc \in Running \cup {"exited"}
                         /\ r.state = "MONITORING" /\ r.wait <= Timeout
    /\ r.pc = "poll" =>
          \/ r.state = "COOLDOWN" /\ r.proc = "none" /\ r.wait <= KillWait + Poll
          \/ r.state = "MONITORING" /\ r.proc \in Running \cup {"exited"} /\ r.wait <= Poll

\* The loop is blocked for b: by a kill after which nobody has run.
Killer(r, b) == r.pc = "poll" /\ r.state = "COOLDOWN" /\ r.wait >= b + Poll

Blame(r, s, b) == b \in 0 .. KillWait /\ (b > 0 => Killer(r, b) \/ Killer(s, b))

\* A sound child that still starts has been probed no more than its age allows.
StartOK(r) ==
    r.well /\ r.proc = "starting" =>
        /\ r.age <= StartMax
        /\ r.pc = "poll" /\ r.misses = 0 => r.since = Period /\ r.age + r.wait >= Poll
        /\ r.pc = "poll" /\ r.misses > 0 =>
              r.age >= Poll + Rounds(r.misses - 1) + r.since
        /\ r.pc = "check" => r.age >= Poll + Rounds(r.misses) + r.since

\* Asleep, with the loop blocked for b: it is probed within t.
Probes(r, b, t) ==
    /\ b <= t /\ r.wait <= t
    /\ r.since < Period => Period - r.since + Poll - 1 <= t

\* A sound child one miss from its end is probed while its sibling kills nobody;
\* and a probe of a sound child takes time only during the sibling's kill.
WellOK(r, s, b) ==
    /\ r.well /\ r.proc = "serving" /\ r.misses = MissLimit - 1 =>
          \/ r.pc = "poll" /\ \E t \in 0 .. Cycle : Probes(r, b, t) /\ Far(s, t)
          \/ r.pc = "check" /\ r.wait = Timeout /\ b = 0 /\ Far(s, 0)
    /\ r.well /\ r.proc \in Running /\ r.pc = "check" /\ r.wait < Timeout =>
          Far(s, Cycle - KillWait + b - 1)

\* A hung child of record r is killed within t, or within t and its sibling's kill.
Ends(r, b, t) ==
    \/ r.pc = "poll" /\ Probes(r, b, t - Gaps(Left(r)) - Timeout)
    \/ r.pc = "check" /\ Left(r) = 0 /\ b <= t /\ r.wait <= t
    \/ /\ r.pc = "check" /\ Left(r) > 0
       /\ LET u == t - Gaps(Left(r) - 1) - Timeout
          IN  /\ b + Poll <= u /\ r.wait + Poll <= u
              /\ r.since < Period => Period - r.since + Poll - 1 <= u

HungOK(r, s, b) ==
    r.proc = "hung" =>
        \E t \in 0 .. HangBound :
            /\ r.age + t <= HangBound
            /\ Ends(r, b, t)
            /\ Far(s, t) \/ r.age + t + KillWait <= HangBound

\* A child that is gone is spawned again within t, or within t and that kill.
Back(r, b, t) ==
    \/ r.pc = "cooldown" /\ b <= t /\ r.wait <= t
    \/ r.pc = "poll" /\ r.state = "COOLDOWN" /\ b + Cooldown <= t /\ r.wait + Cooldown <= t
    \/ /\ r.pc = "poll" /\ r.state # "COOLDOWN"
       /\ b + Poll + Cooldown <= t /\ r.wait + Poll + Cooldown <= t
    \/ r.pc = "check" /\ b + 2 * Poll + Cooldown <= t

GoneOK(r, s, b) ==
    r.proc \in {"none", "exited"} /\ r.pc \notin {"start", "failed"} =>
        \E t \in 0 .. DownBound :
            /\ r.age + t <= DownBound
            /\ Back(r, b, t)
            /\ Far(s, t) \/ r.age + t + KillWait <= DownBound

\* A child of record r beside a sibling of record s.
Beside(r, s, b) ==
    /\ RecOK(r) /\ StartOK(r)
    /\ r.pc = "start" => b = 0 /\ Far(s, 0)
    /\ WellOK(r, s, b) /\ HungOK(r, s, b) /\ GoneOK(r, s, b)

TimeInv ==
    p3 = "up" =>
        \A c, d \in Child : c # d => /\ Beside(child[c], child[d], busy)
                                     /\ Blame(child[c], child[d], busy)

-----------------------------------------------------------------------------
\* What the constants say, with the products named.
LEMMA RoundsAre ==
  ASSUME NEW n \in Nat
  PROVE  /\ Rounds(n) \in Nat /\ Slack(n) \in Nat
         /\ n = 0 => Rounds(n) = 0 /\ Slack(n) = 0
         /\ n > 0 => /\ Rounds(n - 1) = Rounds(n) - Period
                     /\ Slack(n - 1) = Slack(n) - (Poll - 1)
<1>1. Period \in Nat /\ Poll - 1 \in Nat
  BY SupervisorAssumption
<1>2. n * Period \in Nat /\ n * (Poll - 1) \in Nat
  BY <1>1
<1>3. (n - 1) * Period = n * Period - Period
      /\ (n - 1) * (Poll - 1) = n * (Poll - 1) - (Poll - 1)
  BY <1>1
<1> QED BY <1>1, <1>2, <1>3 DEF Rounds, Slack

LEMMA RoundsLess ==
  ASSUME NEW m \in Nat, NEW n \in Nat, n <= m
  PROVE  Rounds(n) <= Rounds(m) /\ Slack(n) <= Slack(m)
<1>1. Period \in Nat /\ Poll - 1 \in Nat /\ m - n \in Nat
  BY SupervisorAssumption
<1>2. (m - n) * Period \in Nat /\ (m - n) * (Poll - 1) \in Nat
  BY <1>1
<1>3. (m - n) * Period = m * Period - n * Period
      /\ (m - n) * (Poll - 1) = m * (Poll - 1) - n * (Poll - 1)
  BY <1>1
<1>4. n * Period \in Nat /\ m * Period \in Nat /\ n * (Poll - 1) \in Nat /\ m * (Poll - 1) \in Nat
  BY <1>1
<1> QED BY <1>2, <1>3, <1>4 DEF Rounds, Slack

LEMMA Numbers ==
  /\ Poll \in Nat /\ Poll > 0 /\ Period \in Nat /\ Timeout \in Nat /\ Timeout > 0
  /\ Cooldown \in Nat /\ Cooldown > 0 /\ KillWait \in Nat /\ KillWait > 0 /\ StartMax \in Nat
  /\ MissLimit \in Nat /\ MissLimit >= 2
  /\ Poll + Timeout <= Period
  /\ Rounds(MissLimit - 1) \in Nat /\ Slack(MissLimit - 1) \in Nat
  /\ StartMax <= Rounds(MissLimit - 1) - Period
  /\ KillWait < Rounds(MissLimit - 1)
  /\ KillWait + Timeout + Slack(MissLimit - 1) < 2 * Poll + Cooldown
  /\ Poll - 1 <= Slack(MissLimit - 1)
  /\ Cycle = 2 * Poll + Cooldown + Rounds(MissLimit - 1)
  /\ HangBound = Rounds(MissLimit - 1) + Slack(MissLimit - 1) + Period + Poll - 1
                 + Timeout + KillWait
  /\ DownBound = (IF KillWait > Poll THEN KillWait ELSE Poll) + Poll + Cooldown + KillWait
  /\ AgeMax \in Nat /\ HangBound < AgeMax /\ DownBound < AgeMax /\ StartMax < AgeMax
<1>1. /\ Poll \in Nat /\ Poll > 0 /\ Period \in Nat /\ Timeout \in Nat /\ Timeout > 0
      /\ Cooldown \in Nat /\ Cooldown > 0 /\ KillWait \in Nat /\ KillWait > 0 /\ StartMax \in Nat
      /\ MissLimit \in Nat /\ MissLimit >= 2 /\ Poll + Timeout <= Period
  BY SupervisorAssumption, TimingAssumption
<1>2. Rounds(MissLimit - 1) \in Nat /\ Slack(MissLimit - 1) \in Nat
      /\ Rounds(MissLimit - 2) = Rounds(MissLimit - 1) - Period
      /\ Slack(MissLimit - 2) \in Nat /\ Slack(MissLimit - 2) = Slack(MissLimit - 1) - (Poll - 1)
  <2>1. MissLimit - 1 \in Nat /\ MissLimit - 1 > 0 /\ MissLimit - 2 \in Nat
        /\ (MissLimit - 1) - 1 = MissLimit - 2
    BY <1>1
  <2> QED BY <2>1, RoundsAre
<1>3. /\ StartMax <= Rounds(MissLimit - 2)
      /\ KillWait < Rounds(MissLimit - 1)
      /\ KillWait + Timeout + Slack(MissLimit - 1) < 2 * Poll + Cooldown
  BY TimingAssumption DEF Rounds, Slack
<1>4. HangBound = Rounds(MissLimit - 1) + Slack(MissLimit - 1) + Period + Poll - 1
                 + Timeout + KillWait
  <2>1. MissLimit * (Period + Poll - 1)
        = (MissLimit - 1) * Period + (MissLimit - 1) * (Poll - 1) + Period + Poll - 1
    BY <1>1
  <2> QED BY <2>1 DEF HangBound, Rounds, Slack
<1>5. Cycle = 2 * Poll + Cooldown + Rounds(MissLimit - 1)
  BY DEF Cycle
<1>6. DownBound = (IF KillWait > Poll THEN KillWait ELSE Poll) + Poll + Cooldown + KillWait
  BY DEF DownBound
<1>7. HangBound \in Nat /\ DownBound \in Nat
  BY <1>1, <1>2, <1>4, <1>6
<1>8. HangBound < AgeMax /\ DownBound < AgeMax
  BY <1>7 DEF AgeMax
<1>9. AgeMax \in Nat
  BY <1>7 DEF AgeMax
<1>10. StartMax < AgeMax
  <2>1. StartMax <= HangBound
    BY <1>1, <1>2, <1>3, <1>4
  <2> QED BY <1>1, <2>1, <1>8, <1>7, <1>9
<1> QED BY <1>1, <1>2, <1>3, <1>4, <1>5, <1>6, <1>8, <1>9, <1>10

\* The fields of a record, and what is left of the misses.
LEMMA FieldsAre ==
  ASSUME NEW r \in ChildState
  PROVE  /\ r.wait \in Nat /\ r.since \in Nat /\ r.misses \in Nat /\ r.age \in Nat
         /\ r.well \in BOOLEAN /\ r.lingering \in BOOLEAN
         /\ Left(r) \in Int /\ r.misses = MissLimit - 1 - Left(r)
         /\ r.misses < MissLimit =>
              /\ Left(r) \in Nat
              /\ Rounds(Left(r)) \in Nat /\ Slack(Left(r)) \in Nat
              /\ Rounds(Left(r)) <= Rounds(MissLimit - 1)
              /\ Slack(Left(r)) <= Slack(MissLimit - 1)
              /\ Left(r) = 0 => Rounds(Left(r)) = 0 /\ Slack(Left(r)) = 0
              /\ Left(r) > 0 =>
                   /\ Rounds(Left(r) - 1) \in Nat /\ Slack(Left(r) - 1) \in Nat
                   /\ Rounds(Left(r) - 1) = Rounds(Left(r)) - Period
                   /\ Slack(Left(r) - 1) = Slack(Left(r)) - (Poll - 1)
              /\ Rounds(r.misses) \in Nat
<1>1. /\ r.wait \in Nat /\ r.since \in Nat /\ r.misses \in Nat /\ r.age \in Nat
      /\ r.well \in BOOLEAN /\ r.lingering \in BOOLEAN
  BY DEF ChildState
<1>2. Left(r) \in Int /\ r.misses = MissLimit - 1 - Left(r)
  BY <1>1, Numbers DEF Left
<1>3. ASSUME r.misses < MissLimit
      PROVE  /\ Left(r) \in Nat /\ MissLimit - 1 \in Nat /\ Left(r) <= MissLimit - 1
  BY <1>1, <1>3, Numbers DEF Left
<1>4. ASSUME r.misses < MissLimit
      PROVE  /\ Rounds(Left(r)) \in Nat /\ Slack(Left(r)) \in Nat
             /\ Rounds(Left(r)) <= Rounds(MissLimit - 1)
             /\ Slack(Left(r)) <= Slack(MissLimit - 1)
             /\ Left(r) = 0 => Rounds(Left(r)) = 0 /\ Slack(Left(r)) = 0
             /\ Rounds(r.misses) \in Nat
  BY <1>1, <1>3, <1>4, RoundsAre, RoundsLess
<1>5. ASSUME r.misses < MissLimit, Left(r) > 0
      PROVE  /\ Rounds(Left(r) - 1) \in Nat /\ Slack(Left(r) - 1) \in Nat
             /\ Rounds(Left(r) - 1) = Rounds(Left(r)) - Period
             /\ Slack(Left(r) - 1) = Slack(Left(r)) - (Poll - 1)
  <2>1. Left(r) \in Nat /\ Left(r) - 1 \in Nat
    BY <1>3, <1>5
  <2> QED BY <2>1, <1>5, RoundsAre
<1> QED BY <1>1, <1>2, <1>3, <1>4, <1>5

-----------------------------------------------------------------------------
(***************************************************************************)
(* What the steps of a task and of a process make of its record while P3   *)
(* is up.                                                                  *)
(***************************************************************************)
Due(r) == r.wait = 0

\* r becomes q in all that the times depend on.
Becomes(q, pc, wait, since, misses, state, proc, age, well) ==
    /\ q.pc = pc /\ q.wait = wait /\ q.since = since /\ q.misses = misses
    /\ q.state = state /\ q.proc = proc /\ q.age = age /\ q.well = well

Spawning(r, q) ==
    /\ r.pc \in {"start", "cooldown"} /\ Due(r)
    /\ Becomes(q, "poll", Poll, Period, 0, "MONITORING", "starting", 0, TRUE)

Failing(r, q) ==
    /\ r.pc \in {"start", "cooldown"} /\ Due(r)
    /\ Becomes(q, "failed", r.wait, r.since, r.misses, r.state, r.proc, r.age, r.well)

Cooling(r, q) ==
    /\ r.pc = "poll" /\ Due(r) /\ r.state = "COOLDOWN"
    /\ Becomes(q, "cooldown", Cooldown, r.since, r.misses, r.state, r.proc, r.age, r.well)

Noticing(r, q) ==
    /\ r.pc = "poll" /\ Due(r) /\ r.state # "COOLDOWN" /\ ~IsAlive(r)
    /\ Becomes(q, "poll", Poll, r.since, r.misses, "COOLDOWN", "none", r.age, r.well)

Probing(r, q) ==
    /\ r.pc = "poll" /\ Due(r) /\ r.state # "COOLDOWN" /\ IsAlive(r)
    /\ \/ /\ r.since >= Period
          /\ Becomes(q, "check", Timeout, 0, r.misses, r.state, r.proc, r.age, r.well)
       \/ /\ ~(r.since >= Period)
          /\ Becomes(q, "poll", Poll, r.since, r.misses, r.state, r.proc, r.age, r.well)

Answering(r, q) ==
    /\ r.pc = "check" /\ r.proc = "serving"
    /\ Becomes(q, "poll", Poll, r.since, 0, r.state, r.proc, r.age, r.well)

Missing(r, q) ==
    /\ r.pc = "check" /\ (Due(r) \/ r.proc \in {"starting", "exited"})
    /\ r.misses + 1 < MissLimit
    /\ Becomes(q, "poll", Poll, r.since, r.misses + 1, r.state, r.proc, r.age, r.well)

Killing(r, q, b) ==
    /\ r.pc = "check" /\ (Due(r) \/ r.proc \in {"starting", "exited"})
    /\ ~(r.misses + 1 < MissLimit)
    /\ b \in 0 .. KillWait /\ (~IsAlive(r) => b = 0)
    /\ Becomes(q, "poll", b + Poll, r.since, r.misses + 1, "COOLDOWN", "none",
               IF IsAlive(r) /\ r.proc # "stuck" THEN 0 ELSE r.age, r.well)

Moving(r, q) ==
    Spawning(r, q) \/ Failing(r, q) \/ Cooling(r, q) \/ Noticing(r, q)
    \/ Probing(r, q) \/ Answering(r, q) \/ Missing(r, q)

\* A process alone.
Serving(r, q) ==
    /\ r.proc = "starting"
    /\ Becomes(q, r.pc, r.wait, r.since, r.misses, r.state, "serving", 0, r.well)

Hanging(r, q) ==
    /\ r.proc = "serving"
    /\ Becomes(q, r.pc, r.wait, r.since, r.misses, r.state, "hung", 0, FALSE)

Recovering(r, q) ==
    /\ r.proc = "hung"
    /\ Becomes(q, r.pc, r.wait, r.since, r.misses, r.state, "serving", 0, r.well)

Exiting(r, q) ==
    /\ r.proc \in Running
    /\ Becomes(q, r.pc, r.wait, r.since, r.misses, r.state, "exited", 0, r.well)

Lingering(r, q) ==
    Becomes(q, r.pc, r.wait, r.since, r.misses, r.state, r.proc, r.age, r.well)

\* Time, which waits for what is due unless the loop is blocked for b.
Aging(r, q, b) ==
    /\ b = 0 => /\ r.pc \in {"start", "poll", "cooldown", "check"} => r.wait > 0
                /\ r.pc = "check" => r.proc \notin {"starting", "serving", "exited"}
    /\ Becomes(q, r.pc, Down(r.wait), IF r.since < Period THEN r.since + 1 ELSE r.since,
               r.misses, r.state, r.proc,
               IF r.proc # "serving" /\ r.age < AgeMax THEN r.age + 1 ELSE r.age,
               r.well /\ ~(r.proc = "starting" /\ r.age >= StartMax))

LEMMA AgainMoves ==
  ASSUME NEW c \in Child, p3 = "up", NEW r \in ChildState, Again(c, r)
  PROVE  \E q \in ChildState : /\ Put(c, q) /\ busy' = busy
                               /\ Becomes(q, "poll", Poll, r.since, r.misses, r.state,
                                          r.proc, r.age, r.well)
<1> DEFINE q == [r EXCEPT !.pc = "poll", !.wait = Poll]
<1>1. q \in ChildState
  BY Numbers DEF ChildState, Pc
<1>2. Becomes(q, "poll", Poll, r.since, r.misses, r.state, r.proc, r.age, r.well)
  BY DEF Becomes, ChildState
<1>3. Put(c, q) /\ busy' = busy
  BY DEF Again, Stopping
<1> HIDE DEF q
<1> QED BY <1>1, <1>2, <1>3

LEMMA SpawnMoves ==
  ASSUME NEW c \in Child, child[c] \in ChildState, p3 = "up", Spawn(c)
  PROVE  /\ p3' = p3 /\ busy = 0 /\ busy' = 0
         /\ \E q \in ChildState : Put(c, q) /\ Spawning(child[c], q)
<1> DEFINE r == Spawned(child[c])
<1>1. p3' = p3 /\ busy = 0 /\ child[c].pc \in {"start", "cooldown"} /\ Due(child[c])
      /\ Again(c, r)
  BY DEF Spawn, Runs, Due, Stopping
<1>2. r \in ChildState /\ r.since = Period /\ r.misses = 0 /\ r.state = "MONITORING"
      /\ r.proc = "starting" /\ r.age = 0 /\ r.well = TRUE
  BY Numbers, SpawnedIs DEF Spawned, ChildState
<1> HIDE DEF r
<1>3. PICK q \in ChildState : /\ Put(c, q) /\ busy' = busy
                              /\ Becomes(q, "poll", Poll, r.since, r.misses, r.state,
                                         r.proc, r.age, r.well)
  BY <1>1, <1>2, AgainMoves
<1>4. Spawning(child[c], q)
  BY <1>1, <1>2, <1>3 DEF Spawning, Becomes
<1> QED BY <1>1, <1>3, <1>4

LEMMA SpawnFailMoves ==
  ASSUME NEW c \in Child, child[c] \in ChildState, p3 = "up", SpawnFails(c)
  PROVE  /\ p3' = p3 /\ busy = 0 /\ busy' = 0
         /\ \E q \in ChildState : Put(c, q) /\ Failing(child[c], q)
<1> DEFINE q == [child[c] EXCEPT !.pc = "failed"]
<1>1. p3' = p3 /\ busy = 0 /\ busy' = 0 /\ Put(c, q)
      /\ child[c].pc \in {"start", "cooldown"} /\ Due(child[c])
  BY DEF SpawnFails, Runs, Due
<1>2. q \in ChildState
  BY DEF ChildState, Pc
<1>3. Failing(child[c], q)
  BY <1>1 DEF Failing, Becomes, ChildState
<1> HIDE DEF q
<1> QED BY <1>1, <1>2, <1>3

LEMMA CoolMoves ==
  ASSUME NEW c \in Child, child[c] \in ChildState, p3 = "up", CoolDown(c)
  PROVE  /\ p3' = p3 /\ busy = 0 /\ busy' = 0
         /\ \E q \in ChildState : Put(c, q) /\ Cooling(child[c], q)
<1> DEFINE q == [child[c] EXCEPT !.pc = "cooldown", !.wait = Cooldown]
<1>1. p3' = p3 /\ busy = 0 /\ busy' = 0 /\ Put(c, q)
      /\ child[c].pc = "poll" /\ Due(child[c]) /\ child[c].state = "COOLDOWN"
  BY DEF CoolDown, Runs, Due
<1>2. q \in ChildState
  BY Numbers DEF ChildState, Pc
<1>3. Cooling(child[c], q)
  BY <1>1 DEF Cooling, Becomes, ChildState
<1> HIDE DEF q
<1> QED BY <1>1, <1>2, <1>3

LEMMA NoticeMoves ==
  ASSUME NEW c \in Child, child[c] \in ChildState, p3 = "up", NoticeExit(c)
  PROVE  /\ p3' = p3 /\ busy = 0 /\ busy' = 0
         /\ \E q \in ChildState : Put(c, q) /\ Noticing(child[c], q)
<1> DEFINE r == Crashed(child[c])
<1>1. p3' = p3 /\ busy = 0 /\ Again(c, r) /\ child[c].pc = "poll" /\ Due(child[c])
      /\ child[c].state # "COOLDOWN" /\ ~IsAlive(child[c])
  BY DEF NoticeExit, Runs, Due, Gone
<1>2. r \in ChildState /\ r.since = child[c].since /\ r.misses = child[c].misses
      /\ r.state = "COOLDOWN" /\ r.proc = "none" /\ r.age = child[c].age
      /\ r.well = child[c].well
  BY CrashedIs DEF Crashed, ChildState
<1> HIDE DEF r
<1>3. PICK q \in ChildState : /\ Put(c, q) /\ busy' = busy
                              /\ Becomes(q, "poll", Poll, r.since, r.misses, r.state,
                                         r.proc, r.age, r.well)
  BY <1>1, <1>2, AgainMoves
<1>4. Noticing(child[c], q)
  BY <1>1, <1>2, <1>3 DEF Noticing, Becomes
<1> QED BY <1>1, <1>3, <1>4

LEMMA ProbeMoves ==
  ASSUME NEW c \in Child, child[c] \in ChildState, p3 = "up", Probe(c)
  PROVE  /\ p3' = p3 /\ busy = 0 /\ busy' = 0
         /\ \E q \in ChildState : Put(c, q) /\ Probing(child[c], q)
<1>1. p3' = p3 /\ busy = 0 /\ child[c].pc = "poll" /\ Due(child[c])
      /\ child[c].state # "COOLDOWN" /\ IsAlive(child[c])
  BY DEF Probe, Runs, Due, Gone
<1>2. CASE child[c].since >= Period
  <2> DEFINE q == [child[c] EXCEPT !.since = 0, !.pc = "check", !.wait = Timeout]
  <2>1. q \in ChildState
    BY Numbers DEF ChildState, Pc
  <2>2. Put(c, q) /\ busy' = busy
    BY <1>2 DEF Probe
  <2>3. Probing(child[c], q)
    BY <1>1, <1>2 DEF Probing, Becomes, ChildState
  <2> HIDE DEF q
  <2> QED BY <1>1, <2>1, <2>2, <2>3
<1>3. CASE ~(child[c].since >= Period)
  <2>1. Again(c, child[c])
    BY <1>3 DEF Probe
  <2>2. PICK q \in ChildState :
           /\ Put(c, q) /\ busy' = busy
           /\ Becomes(q, "poll", Poll, child[c].since, child[c].misses, child[c].state,
                      child[c].proc, child[c].age, child[c].well)
    BY <2>1, AgainMoves
  <2>3. Probing(child[c], q)
    BY <1>1, <1>3, <2>2 DEF Probing
  <2> QED BY <1>1, <2>2, <2>3
<1> QED BY <1>2, <1>3

LEMMA HealthyMoves ==
  ASSUME NEW c \in Child, child[c] \in ChildState, p3 = "up", Healthy(c)
  PROVE  /\ p3' = p3 /\ busy = 0 /\ busy' = 0
         /\ \E q \in ChildState : Put(c, q) /\ Answering(child[c], q)
<1> DEFINE r == Answered(child[c])
<1>1. p3' = p3 /\ busy = 0 /\ Again(c, r) /\ child[c].pc = "check"
      /\ child[c].proc = "serving"
  BY DEF Healthy
<1>2. r \in ChildState /\ r.since = child[c].since /\ r.misses = 0
      /\ r.state = child[c].state /\ r.proc = child[c].proc /\ r.age = child[c].age
      /\ r.well = child[c].well
  BY DEF Answered, ChildState
<1> HIDE DEF r
<1>3. PICK q \in ChildState : /\ Put(c, q) /\ busy' = busy
                              /\ Becomes(q, "poll", Poll, r.since, r.misses, r.state,
                                         r.proc, r.age, r.well)
  BY <1>1, <1>2, AgainMoves
<1>4. Answering(child[c], q)
  BY <1>1, <1>2, <1>3 DEF Answering, Becomes
<1> QED BY <1>1, <1>3, <1>4

LEMMA UnhealthyMoves ==
  ASSUME NEW c \in Child, child[c] \in ChildState, p3 = "up", Unhealthy(c)
  PROVE  /\ p3' = p3 /\ busy = 0
         /\ \E q \in ChildState :
              Put(c, q) /\ ((Missing(child[c], q) /\ busy' = 0) \/ Killing(child[c], q, busy'))
<1> DEFINE m == Missed(child[c])
<1>1. p3' = p3 /\ busy = 0 /\ child[c].pc = "check"
      /\ (Due(child[c]) \/ child[c].proc \in {"starting", "exited"})
  BY DEF Unhealthy, Due
<1>2. m \in ChildState /\ m.pc = child[c].pc /\ m.wait = child[c].wait
      /\ m.since = child[c].since
      /\ m.misses = child[c].misses + 1
      /\ m.state = child[c].state /\ m.proc = child[c].proc /\ m.age = child[c].age
      /\ m.well = child[c].well
  BY DEF Missed, ChildState
<1>3. CASE m.misses < MissLimit
  <2>1. Again(c, m)
    BY <1>3 DEF Unhealthy
  <2> HIDE DEF m
  <2>2. PICK q \in ChildState : /\ Put(c, q) /\ busy' = busy
                                /\ Becomes(q, "poll", Poll, m.since, m.misses, m.state,
                                           m.proc, m.age, m.well)
    BY <1>2, <2>1, AgainMoves
  <2>3. Missing(child[c], q)
    BY <1>1, <1>2, <1>3, <2>2 DEF Missing, Becomes
  <2> QED BY <1>1, <2>2, <2>3
<1>4. CASE ~(m.misses < MissLimit)
  <2>0. PICK dies \in BOOLEAN : \E n \in Blocked(m, dies) :
           /\ busy' = n
           /\ Put(c, [Crashed(Killed(m, dies)) EXCEPT !.pc = "poll", !.wait = n + Poll])
    BY <1>4 DEF Unhealthy, Stopping
  <2>1. PICK n \in Blocked(m, dies) :
           /\ busy' = n
           /\ Put(c, [Crashed(Killed(m, dies)) EXCEPT !.pc = "poll", !.wait = n + Poll])
    BY <2>0
  <2> HIDE DEF m
  <2> DEFINE k == Killed(m, dies)
             x == Crashed(k)
             q == [x EXCEPT !.pc = "poll", !.wait = n + Poll]
  <2>2. k \in ChildState
    BY <1>2, KilledIs
  <2>3. /\ k.since = m.since /\ k.misses = m.misses /\ k.well = m.well
        /\ k.age = IF IsAlive(m) /\ m.proc # "stuck" THEN 0 ELSE m.age
    <3>1. CASE IsAlive(m)
      BY <1>2, <3>1 DEF Killed, ChildState
    <3>2. CASE ~IsAlive(m)
      BY <3>2 DEF Killed
    <3> QED BY <3>1, <3>2
  <2> HIDE DEF k
  <2>4. x \in ChildState
    BY <2>2, CrashedIs
  <2>5. /\ x.since = k.since /\ x.misses = k.misses /\ x.state = "COOLDOWN"
        /\ x.proc = "none" /\ x.age = k.age /\ x.well = k.well
    BY <2>2 DEF Crashed, ChildState
  <2>6. Put(c, q)
    BY <2>1 DEF k
  <2> HIDE DEF x
  <2>9. IsAlive(m) <=> IsAlive(child[c])
    BY <1>2 DEF IsAlive
  <2>10. n \in 0 .. KillWait /\ (~IsAlive(child[c]) => n = 0)
    BY <2>9, Numbers DEF Blocked
  <2>12. n + Poll \in Nat
    BY <2>10, Numbers
  <2>7. q \in ChildState
    BY <2>4, <2>12 DEF ChildState, Pc
  <2>8. Becomes(q, "poll", n + Poll, x.since, x.misses, x.state, x.proc, x.age, x.well)
    BY <2>4 DEF Becomes, ChildState
  <2> HIDE DEF q
  <2>11. Killing(child[c], q, busy')
    BY <1>1, <1>2, <1>4, <2>1, <2>3, <2>5, <2>8, <2>9, <2>10 DEF Killing, Becomes
  <2> QED BY <1>1, <2>6, <2>7, <2>11
<1> QED BY <1>3, <1>4

LEMMA TaskMoves ==
  ASSUME NEW c \in Child, child[c] \in ChildState, p3 = "up", Task(c)
  PROVE  /\ p3' = p3 /\ busy = 0
         /\ \E q \in ChildState :
              Put(c, q) /\ ((Moving(child[c], q) /\ busy' = 0) \/ Killing(child[c], q, busy'))
<1>1. CASE Spawn(c)
  BY <1>1, SpawnMoves DEF Moving
<1>2. CASE SpawnFails(c)
  BY <1>2, SpawnFailMoves DEF Moving
<1>3. CASE CoolDown(c)
  BY <1>3, CoolMoves DEF Moving
<1>4. CASE NoticeExit(c)
  BY <1>4, NoticeMoves DEF Moving
<1>5. CASE Probe(c)
  BY <1>5, ProbeMoves DEF Moving
<1>6. CASE Healthy(c)
  BY <1>6, HealthyMoves DEF Moving
<1>7. CASE Unhealthy(c)
  BY <1>7, UnhealthyMoves DEF Moving
<1> QED BY <1>1, <1>2, <1>3, <1>4, <1>5, <1>6, <1>7 DEF Task

LEMMA ProcessMoves ==
  ASSUME NEW c \in Child, child[c] \in ChildState, child[c].proc # "stuck", Process(c),
         busy \in Nat
  PROVE  /\ p3' = p3 /\ busy' \in 0 .. busy
         /\ \E q \in ChildState :
              /\ Put(c, q)
              /\ \/ /\ busy' = busy
                    /\ \/ Serving(child[c], q) \/ Hanging(child[c], q)
                       \/ Recovering(child[c], q) \/ Exiting(child[c], q)
                 \/ Lingering(child[c], q)
<1>1. CASE Serves(c)
  <2> DEFINE q == [child[c] EXCEPT !.proc = "serving", !.age = 0]
  <2>1. q \in ChildState /\ Serving(child[c], q) /\ Put(c, q) /\ busy' = busy /\ p3' = p3
    BY <1>1 DEF Serves, ChildState, Proc, Serving, Becomes
  <2> HIDE DEF q
  <2> QED BY <2>1
<1>2. CASE Hangs(c)
  <2> DEFINE q == [child[c] EXCEPT !.proc = "hung", !.age = 0, !.well = FALSE]
  <2>1. q \in ChildState /\ Hanging(child[c], q) /\ Put(c, q) /\ busy' = busy /\ p3' = p3
    BY <1>2 DEF Hangs, ChildState, Proc, Hanging, Becomes
  <2> HIDE DEF q
  <2> QED BY <2>1
<1>3. CASE Recovers(c)
  <2> DEFINE q == [child[c] EXCEPT !.proc = "serving", !.age = 0]
  <2>1. q \in ChildState /\ Recovering(child[c], q) /\ Put(c, q) /\ busy' = busy /\ p3' = p3
    BY <1>3 DEF Recovers, ChildState, Proc, Recovering, Becomes
  <2> HIDE DEF q
  <2> QED BY <2>1
<1>4. CASE Exits(c)
  <2> DEFINE q == [child[c] EXCEPT !.proc = "exited", !.age = 0]
  <2>1. q \in ChildState /\ Exiting(child[c], q) /\ Put(c, q) /\ busy' = busy /\ p3' = p3
    BY <1>4 DEF Exits, ChildState, Proc, Exiting, Becomes, Running
  <2> HIDE DEF q
  <2> QED BY <2>1
<1>5. CASE LingererDies(c)
  <2> DEFINE q == [child[c] EXCEPT !.lingering = FALSE]
  <2>1. q \in ChildState /\ Lingering(child[c], q) /\ Put(c, q)
    BY <1>5 DEF LingererDies, ChildState, Lingering, Becomes
  <2>2. p3' = p3 /\ busy' \in 0 .. busy
    BY <1>5 DEF LingererDies
  <2> HIDE DEF q
  <2> QED BY <2>1, <2>2
<1> QED BY <1>1, <1>2, <1>3, <1>4, <1>5 DEF Process, StuckDies

LEMMA OlderAges ==
  ASSUME NEW r \in ChildState
  PROVE  LET q == Older(r) IN
         Becomes(q, r.pc, Down(r.wait), IF r.since < Period THEN r.since + 1 ELSE r.since,
               r.misses, r.state, r.proc,
               IF r.proc # "serving" /\ r.age < AgeMax THEN r.age + 1 ELSE r.age,
               r.well /\ ~(r.proc = "starting" /\ r.age >= StartMax))
  BY DEF Older, Becomes, ChildState

-----------------------------------------------------------------------------
(***************************************************************************)
(* Far: it holds for a shorter time, after every step of the task that is  *)
(* no kill, and for one tick less after each tick.                         *)
(***************************************************************************)
LEMMA FarShorter ==
  ASSUME NEW r \in ChildState, NEW t \in Int, NEW u \in Int, u <= t, Far(r, t),
         RecOK(r)
  PROVE  Far(r, u)
<1>1. r.wait \in Nat /\ r.since \in Nat
      /\ (r.pc = "check" \/ (r.pc = "poll" /\ r.state # "COOLDOWN") => Rounds(Left(r)) \in Nat)
  BY FieldsAre DEF RecOK
<1> QED BY <1>1, Numbers DEF Far

LEMMA FarKept ==
  ASSUME NEW r \in ChildState, NEW q \in ChildState, RecOK(r), Moving(r, q),
         NEW t \in Nat, Far(r, t)
  PROVE  Far(q, t)
<1>1. r.wait \in Nat /\ r.since \in Nat /\ q.wait \in Nat /\ q.since \in Nat /\ r.misses \in Nat
      /\ t < Cycle
  BY FieldsAre DEF Far
<1>2. CASE Spawning(r, q)
  <2>1. Left(q) = MissLimit - 1
    BY <1>2, Numbers DEF Left, Spawning, Becomes
  <2> QED BY <1>1, <1>2, <2>1, Numbers DEF Far, Spawning, Becomes, Due
<1>3. CASE Failing(r, q)
  BY <1>1, <1>3 DEF Far, Failing, Becomes
<1>4. CASE Cooling(r, q)
  BY <1>1, <1>4, Numbers DEF Far, Cooling, Becomes, Due
<1>5. CASE Noticing(r, q)
  BY <1>1, <1>5, Numbers DEF Far, Noticing, Becomes
<1>6. CASE Probing(r, q)
  <2>1. Left(q) = Left(r) /\ Rounds(Left(r)) \in Nat
    BY <1>6, FieldsAre DEF Left, Probing, Becomes, RecOK
  <2>2. r.since >= Period => r.since = Period
    BY <1>1, Numbers DEF RecOK
  <2> QED BY <1>1, <1>6, <2>1, <2>2, Numbers DEF Far, Probing, Becomes, Due
<1>7. CASE Answering(r, q)
  <2>1. Left(q) = MissLimit - 1
    BY <1>7, Numbers DEF Left, Answering, Becomes
  <2>2. Rounds(Left(r)) \in Nat /\ Rounds(Left(r)) <= Rounds(MissLimit - 1)
    BY <1>7, FieldsAre DEF Answering, RecOK
  <2> QED BY <1>1, <1>7, <2>1, <2>2, Numbers DEF Far, Answering, Becomes, RecOK
<1>8. CASE Missing(r, q)
  <2>1. r.misses < MissLimit /\ r.state = "MONITORING"
    BY <1>1, <1>8, Numbers DEF Missing, RecOK
  <2>2. Left(q) = Left(r) - 1 /\ Left(r) > 0
    BY <1>1, <1>8, Numbers DEF Left, Missing, Becomes
  <2>3. Rounds(Left(r)) \in Nat /\ Rounds(Left(q)) = Rounds(Left(r)) - Period
    BY <2>1, <2>2, FieldsAre
  <2> QED BY <1>1, <1>8, <2>1, <2>3, Numbers DEF Far, Missing, Becomes
<1> QED BY <1>2, <1>3, <1>4, <1>5, <1>6, <1>7, <1>8 DEF Moving

\* A kill, for which there was no time left; the next one is a Cycle away.
LEMMA FarKill ==
  ASSUME NEW r \in ChildState, NEW q \in ChildState, RecOK(r), NEW b, Killing(r, q, b)
  PROVE  /\ \A t \in Nat : ~Far(r, t)
         /\ \A t \in Nat : t < Cycle => Far(q, t)
<1>1. r.misses < MissLimit /\ r.pc = "check"
  BY DEF Killing, RecOK
<1>2. Left(r) = 0 /\ Rounds(Left(r)) = 0 /\ r.since \in Nat
  <2>1. Left(r) \in Nat /\ r.misses = MissLimit - 1 - Left(r) /\ ~(r.misses + 1 < MissLimit)
    BY <1>1, FieldsAre DEF Killing
  <2> QED BY <1>1, <2>1, FieldsAre, Numbers
<1>3. \A t \in Nat : ~Far(r, t)
  BY <1>1, <1>2 DEF Far
<1>4. ASSUME NEW t \in Nat, t < Cycle PROVE Far(q, t)
  BY <1>4, Numbers DEF Far, Killing, Becomes
<1> QED BY <1>3, <1>4

LEMMA FarTicks ==
  ASSUME NEW r \in ChildState, NEW q \in ChildState, RecOK(r), NEW b, Aging(r, q, b),
         NEW t \in Nat, t > 0, Far(r, t)
  PROVE  Far(q, t - 1)
<1>1. r.wait \in Nat /\ r.since \in Nat /\ t < Cycle
  BY FieldsAre DEF Far
<1>2. q.pc = r.pc /\ q.state = r.state /\ Left(q) = Left(r)
      /\ q.wait = Down(r.wait) /\ q.since = IF r.since < Period THEN r.since + 1 ELSE r.since
  BY DEF Aging, Becomes, Left
<1>3. r.wait <= q.wait + 1 /\ q.wait \in Nat
  BY <1>1, <1>2 DEF Down
<1>4. r.pc = "check" \/ (r.pc = "poll" /\ r.state # "COOLDOWN") => Rounds(Left(r)) \in Nat
  BY FieldsAre DEF RecOK
<1> QED BY <1>1, <1>2, <1>3, <1>4, Numbers DEF Far

\* Who blocks the loop is the sibling, unless r itself is gone; and its next kill
\* is a Cycle after this one.
LEMMA Blocks ==
  ASSUME NEW r \in ChildState, NEW s \in ChildState, RecOK(r), NEW b, Blame(r, s, b), b > 0,
         r.proc \in Running \/ r.pc # "poll"
  PROVE  \A t \in Nat : t < Cycle - KillWait + b => Far(s, t)
<1>1. Killer(s, b) /\ b \in Nat /\ b <= KillWait
  BY Numbers DEF Blame, Killer, RecOK, Running
<1>2. s.wait \in Nat
  BY FieldsAre
<1> SUFFICES ASSUME NEW t \in Nat, t < Cycle - KillWait + b PROVE Far(s, t)
  OBVIOUS
<1> QED BY <1>1, <1>2, Numbers DEF Far, Killer

\* A sibling of which less time is certain, or for which the loop is blocked less,
\* changes nothing.
LEMMA BesideKept ==
  ASSUME NEW r \in ChildState, NEW s \in ChildState, NEW q \in ChildState,
         NEW b \in Nat, NEW e \in 0 .. b, b <= KillWait, Beside(r, s, b),
         \A t \in Nat : Far(s, t) => Far(q, t), RecOK(s)
  PROVE  Beside(r, q, e)
<1>1. RecOK(r) /\ StartOK(r)
  BY DEF Beside
<1>2. r.pc = "start" => e = 0 /\ Far(q, 0)
  BY DEF Beside
<1>3. WellOK(r, q, e)
  <2>1. ASSUME NEW t \in 0 .. Cycle, Probes(r, b, t), Far(s, t)
        PROVE  Probes(r, e, t) /\ Far(q, t)
    BY <2>1, Numbers DEF Probes
  <2>2. Far(s, Cycle - KillWait + b - 1) => Far(q, Cycle - KillWait + e - 1)
    <3>1. Cycle - KillWait + b - 1 \in Int /\ Cycle - KillWait + e - 1 \in Nat
          /\ Cycle - KillWait + e - 1 <= Cycle - KillWait + b - 1
      BY Numbers
    <3> QED BY <3>1, FarShorter
  <2>3. b = 0 => e = 0
    OBVIOUS
  <2>4. WellOK(r, s, b)
    BY DEF Beside
  <2> QED BY <2>1, <2>2, <2>3, <2>4 DEF WellOK
<1>4. HungOK(r, q, e)
  <2> SUFFICES ASSUME r.proc = "hung"
               PROVE  \E t \in 0 .. HangBound :
                         /\ r.age + t <= HangBound
                         /\ Ends(r, e, t)
                         /\ Far(q, t) \/ r.age + t + KillWait <= HangBound
    BY DEF HungOK
  <2>1. PICK t \in 0 .. HangBound :
                         /\ r.age + t <= HangBound
                         /\ Ends(r, b, t)
                         /\ Far(s, t) \/ r.age + t + KillWait <= HangBound
    BY DEF Beside, HungOK
  <2>2. r.pc \in {"poll", "check"} /\ r.misses < MissLimit
    BY <1>1 DEF RecOK
  <2>3. Left(r) \in Nat /\ Gaps(Left(r)) \in Nat /\ (Left(r) > 0 => Gaps(Left(r) - 1) \in Nat)
    BY <2>2, FieldsAre DEF Gaps
  <2>4. Ends(r, e, t)
    BY <2>1, <2>3, Numbers DEF Ends, Probes
  <2> QED BY <2>1, <2>4
<1>5. GoneOK(r, q, e)
  <2> SUFFICES ASSUME r.proc \in {"none", "exited"} /\ r.pc \notin {"start", "failed"}
               PROVE  \E t \in 0 .. DownBound :
                         /\ r.age + t <= DownBound
                         /\ Back(r, e, t)
                         /\ Far(q, t) \/ r.age + t + KillWait <= DownBound
    BY DEF GoneOK
  <2>1. PICK t \in 0 .. DownBound :
                         /\ r.age + t <= DownBound
                         /\ Back(r, b, t)
                         /\ Far(s, t) \/ r.age + t + KillWait <= DownBound
    BY DEF Beside, GoneOK
  <2>2. Back(r, e, t)
    BY <2>1, Numbers DEF Back
  <2> QED BY <2>1, <2>2
<1> QED BY <1>1, <1>2, <1>3, <1>4, <1>5 DEF Beside

-----------------------------------------------------------------------------
(***************************************************************************)
(* A step of the task of r, beside s.  The loop is not blocked.            *)
(***************************************************************************)
LEMMA QuietBeside ==
  ASSUME NEW q, NEW s, RecOK(q), StartOK(q), q.pc # "start",
         q.proc \in {"none", "starting", "serving"}, q.pc # "check",
         q.proc = "serving" => q.misses # MissLimit - 1,
         q.proc = "none" => q.pc = "failed"
  PROVE  Beside(q, s, 0)
  BY DEF Beside, WellOK, HungOK, GoneOK

LEMMA SpawningBeside ==
  ASSUME NEW r \in ChildState, NEW q \in ChildState, NEW s \in ChildState,
         Beside(r, s, 0), Spawning(r, q)
  PROVE  Beside(q, s, 0)
<1>1. RecOK(q)
  BY Numbers DEF RecOK, Spawning, Becomes, Running
<1>2. StartOK(q)
  BY Numbers DEF StartOK, Spawning, Becomes
<1> QED BY <1>1, <1>2, QuietBeside DEF Spawning, Becomes

LEMMA FailingBeside ==
  ASSUME NEW r \in ChildState, NEW q \in ChildState, NEW s \in ChildState,
         Beside(r, s, 0), Failing(r, q)
  PROVE  Beside(q, s, 0)
<1>1. RecOK(r)
  BY DEF Beside
<1>2. RecOK(q) /\ q.proc = "none"
  BY <1>1, FieldsAre DEF RecOK, Failing, Becomes
<1>3. StartOK(q)
  BY <1>2 DEF StartOK
<1> QED BY <1>2, <1>3, QuietBeside DEF Failing, Becomes

LEMMA CoolingBeside ==
  ASSUME NEW r \in ChildState, NEW q \in ChildState, NEW s \in ChildState,
         Beside(r, s, 0), Cooling(r, q)
  PROVE  Beside(q, s, 0)
<1>1. RecOK(r) /\ r.proc = "none" /\ r.pc = "poll"
  BY DEF Beside, RecOK, Cooling
<1>2. RecOK(q) /\ q.proc = "none" /\ q.pc = "cooldown"
  BY <1>1, FieldsAre, Numbers DEF RecOK, Cooling, Becomes
<1>3. PICK t \in 0 .. DownBound :
                         /\ r.age + t <= DownBound
                         /\ Back(r, 0, t)
                         /\ Far(s, t) \/ r.age + t + KillWait <= DownBound
  BY <1>1 DEF Beside, GoneOK
<1>4. Back(q, 0, t)
  BY <1>3, Numbers DEF Back, Cooling, Becomes
<1>5. GoneOK(q, s, 0)
  BY <1>3, <1>4 DEF GoneOK, Cooling, Becomes
<1>6. StartOK(q) /\ WellOK(q, s, 0) /\ HungOK(q, s, 0)
  BY <1>2 DEF StartOK, WellOK, HungOK, Running
<1> QED BY <1>2, <1>5, <1>6 DEF Beside

LEMMA NoticingBeside ==
  ASSUME NEW r \in ChildState, NEW q \in ChildState, NEW s \in ChildState,
         Beside(r, s, 0), Noticing(r, q)
  PROVE  Beside(q, s, 0)
<1>1. RecOK(r) /\ r.proc = "exited" /\ r.pc = "poll"
  BY DEF Beside, RecOK, Noticing, IsAlive, Running
<1>2. RecOK(q) /\ q.proc = "none" /\ q.pc = "poll"
  BY <1>1, FieldsAre, Numbers DEF RecOK, Noticing, Becomes
<1>3. PICK t \in 0 .. DownBound :
                         /\ r.age + t <= DownBound
                         /\ Back(r, 0, t)
                         /\ Far(s, t) \/ r.age + t + KillWait <= DownBound
  BY <1>1 DEF Beside, GoneOK
<1>4. Back(q, 0, t)
  BY <1>3, Numbers DEF Back, Noticing, Becomes, Due
<1>5. GoneOK(q, s, 0)
  BY <1>3, <1>4 DEF GoneOK, Noticing, Becomes
<1>6. StartOK(q) /\ WellOK(q, s, 0) /\ HungOK(q, s, 0)
  BY <1>2 DEF StartOK, WellOK, HungOK, Running
<1> QED BY <1>2, <1>5, <1>6 DEF Beside

LEMMA ProbingBeside ==
  ASSUME NEW r \in ChildState, NEW q \in ChildState, NEW s \in ChildState, RecOK(s),
         Beside(r, s, 0), Probing(r, q)
  PROVE  Beside(q, s, 0)
<1>1. RecOK(r) /\ r.proc \in Running /\ r.pc = "poll" /\ r.state = "MONITORING"
      /\ r.wait = 0 /\ r.misses < MissLimit /\ StartOK(r)
      /\ WellOK(r, s, 0) /\ HungOK(r, s, 0)
  BY DEF Beside, RecOK, Probing, IsAlive, Running, Due
<1>2. q.proc = r.proc /\ q.state = r.state /\ q.misses = r.misses /\ q.age = r.age
      /\ q.well = r.well /\ Left(q) = Left(r) /\ q.pc \in {"poll", "check"}
  BY DEF Probing, Becomes, Left
<1>3. r.since \in Nat /\ r.since <= Period /\ r.age \in Nat /\ r.misses \in Nat
      /\ Left(r) \in Nat /\ Rounds(Left(r)) \in Nat /\ Slack(Left(r)) \in Nat
      /\ r.misses = MissLimit - 1 - Left(r)
      /\ (Left(r) = 0 => Gaps(Left(r)) = 0)
      /\ (Left(r) > 0 => Gaps(Left(r) - 1) = Gaps(Left(r)) - (Period + Poll - 1))
  BY <1>1, FieldsAre, Numbers DEF RecOK, Gaps
<1>4. q.proc \notin {"none", "exited"} /\ q.pc # "start"
  BY <1>1, <1>2 DEF Running
<1>5. GoneOK(q, s, 0)
  BY <1>4 DEF GoneOK
<1>6. CASE r.since >= Period
  <2>1. q.pc = "check" /\ q.wait = Timeout /\ q.since = 0 /\ r.since = Period
    BY <1>3, <1>6, Numbers DEF Probing, Becomes
  <2>2. RecOK(q)
    BY <1>1, <1>2, <2>1, Numbers DEF RecOK
  <2>3. StartOK(q)
    <3>1. r.misses > 0 => Rounds(r.misses - 1) = Rounds(r.misses) - Period
          /\ Rounds(r.misses) \in Nat
      BY <1>3, RoundsAre
    <3>2. r.misses = 0 => Rounds(r.misses) = 0
      BY RoundsAre
    <3> QED BY <1>1, <1>2, <1>3, <2>1, <3>1, <3>2, Numbers DEF StartOK
  <2>4. WellOK(q, s, 0)
    <3>1. ASSUME q.well, q.proc = "serving", q.misses = MissLimit - 1
          PROVE  Far(s, 0)
      <4>1. PICK t \in 0 .. Cycle : Far(s, t)
        BY <1>1, <1>2, <3>1 DEF WellOK
      <4> QED BY <4>1, FarShorter
    <3>2. ~(q.wait < Timeout)
      BY <2>1, Numbers
    <3> QED BY <2>1, <3>1, <3>2 DEF WellOK
  <2>5. HungOK(q, s, 0)
    <3> SUFFICES ASSUME q.proc = "hung"
                 PROVE  \E t \in 0 .. HangBound :
                           /\ q.age + t <= HangBound
                           /\ Ends(q, 0, t)
                           /\ Far(s, t) \/ q.age + t + KillWait <= HangBound
      BY DEF HungOK
    <3>1. PICK t \in 0 .. HangBound :
                         /\ r.age + t <= HangBound
                         /\ Ends(r, 0, t)
                         /\ Far(s, t) \/ r.age + t + KillWait <= HangBound
      BY <1>1, <1>2 DEF HungOK
    <3>2. 0 <= t - Gaps(Left(r)) - Timeout
      BY <1>1, <3>1 DEF Ends, Probes
    <3>3. Gaps(Left(r)) \in Nat
      BY <1>3, Numbers DEF Gaps
    <3>4. Ends(q, 0, t)
      <4>1. CASE Left(r) = 0
        BY <1>2, <1>3, <2>1, <3>2, <4>1, Numbers DEF Ends
      <4>2. CASE Left(r) > 0
        <5> DEFINE u == t - Gaps(Left(r) - 1) - Timeout
        <5>1. u >= Period + Poll - 1
          BY <1>3, <3>2, <3>3, <4>2, Numbers
        <5>2. 0 + Poll <= u /\ Timeout + Poll <= u /\ Period - 0 + Poll - 1 <= u
          BY <5>1, <1>3, <3>2, <3>3, <4>2, Numbers
        <5> QED BY <1>2, <2>1, <4>2, <5>2 DEF Ends
      <4> QED BY <1>3, <4>1, <4>2
    <3> QED BY <1>2, <3>1, <3>4
  <2> QED BY <1>4, <1>5, <2>2, <2>3, <2>4, <2>5 DEF Beside
<1>7. CASE ~(r.since >= Period)
  <2>1. q.pc = "poll" /\ q.wait = Poll /\ q.since = r.since /\ r.since < Period
    BY <1>3, <1>7, Numbers DEF Probing, Becomes
  <2>2. RecOK(q)
    BY <1>1, <1>2, <2>1, Numbers DEF RecOK
  <2>3. StartOK(q)
    BY <1>1, <1>2, <1>3, <2>1, Numbers DEF StartOK
  <2>4. ASSUME NEW t \in Int, Probes(r, 0, t) PROVE Probes(q, 0, t)
    BY <1>1, <1>3, <2>1, <2>4, Numbers DEF Probes
  <2>5. WellOK(q, s, 0)
    BY <1>1, <1>2, <2>1, <2>4, Numbers DEF WellOK
  <2>6. HungOK(q, s, 0)
    <3>1. ASSUME NEW t \in 0 .. HangBound, Ends(r, 0, t) PROVE Ends(q, 0, t)
      <4>1. t - Gaps(Left(r)) - Timeout \in Int
        BY <1>3, Numbers DEF Gaps
      <4> QED BY <1>1, <1>2, <2>1, <2>4, <3>1, <4>1 DEF Ends
    <3> QED BY <1>1, <1>2, <3>1 DEF HungOK
  <2> QED BY <1>4, <1>5, <2>2, <2>3, <2>5, <2>6 DEF Beside
<1> QED BY <1>6, <1>7

LEMMA AnsweringBeside ==
  ASSUME NEW r \in ChildState, NEW q \in ChildState, NEW s \in ChildState,
         Beside(r, s, 0), Answering(r, q)
  PROVE  Beside(q, s, 0)
<1>1. RecOK(r) /\ r.state = "MONITORING"
  BY DEF Beside, RecOK, Answering
<1>2. RecOK(q)
  BY <1>1, Numbers DEF RecOK, Answering, Becomes, Running
<1>3. StartOK(q) /\ q.misses # MissLimit - 1
  BY Numbers DEF StartOK, Answering, Becomes
<1> QED BY <1>2, <1>3, QuietBeside DEF Answering, Becomes

LEMMA MissingBeside ==
  ASSUME NEW r \in ChildState, NEW q \in ChildState, NEW s \in ChildState, RecOK(s),
         Beside(r, s, 0), Missing(r, q)
  PROVE  Beside(q, s, 0)
<1>1. RecOK(r) /\ r.proc \in Running \cup {"exited"} /\ r.pc = "check" /\ r.state = "MONITORING"
      /\ r.misses < MissLimit /\ StartOK(r)
      /\ WellOK(r, s, 0) /\ HungOK(r, s, 0) /\ GoneOK(r, s, 0)
  BY DEF Beside, RecOK, Missing
<1>2. q.proc = r.proc /\ q.state = r.state /\ q.misses = r.misses + 1 /\ q.age = r.age
      /\ q.well = r.well /\ q.since = r.since /\ q.pc = "poll" /\ q.wait = Poll
  BY DEF Missing, Becomes
<1>3. r.since \in Nat /\ r.since <= Period /\ r.age \in Nat /\ r.misses \in Nat
      /\ r.wait \in Nat /\ r.misses + 1 < MissLimit
  BY <1>1, FieldsAre DEF RecOK, Missing
<1>4. Left(q) = Left(r) - 1 /\ Left(r) \in Nat /\ Left(r) > 0
      /\ Gaps(Left(r) - 1) \in Nat
  BY <1>1, <1>2, <1>3, FieldsAre, Numbers DEF Left, Gaps
<1>5. RecOK(q)
  BY <1>1, <1>2, <1>3, Numbers DEF RecOK
<1>6. StartOK(q)
  <2>1. q.misses - 1 = r.misses /\ q.misses > 0
    BY <1>2, <1>3
  <2> QED BY <1>1, <1>2, <1>3, <2>1 DEF StartOK
<1>7. WellOK(q, s, 0)
  <2>1. ASSUME q.well, q.proc = "serving"
        PROVE  \E t \in 0 .. Cycle : Probes(q, 0, t) /\ Far(s, t)
    <3> DEFINE t == Cycle - KillWait - 1
    <3>1. r.wait < Timeout
      BY <1>2, <2>1, Numbers DEF Missing, Due
    <3>2. Far(s, Cycle - KillWait + 0 - 1)
      BY <1>1, <1>2, <2>1, <3>1 DEF WellOK, Running
    <3>3. t = Cycle - KillWait + 0 - 1 /\ t \in 0 .. Cycle
      BY Numbers
    <3>4. Period + Poll - 1 <= t /\ Poll <= t
      BY Numbers
    <3>5. Probes(q, 0, t)
      BY <1>2, <1>3, <3>3, <3>4, Numbers DEF Probes
    <3> QED BY <3>2, <3>3, <3>5
  <2> QED BY <1>2, <2>1 DEF WellOK
<1>8. HungOK(q, s, 0)
  <2>1. ASSUME NEW t \in 0 .. HangBound, Ends(r, 0, t) PROVE Ends(q, 0, t)
    BY <1>1, <1>2, <1>3, <1>4, <2>1, Numbers DEF Ends, Probes
  <2> QED BY <1>1, <1>2, <2>1 DEF HungOK
<1>9. GoneOK(q, s, 0)
  <2>1. ASSUME NEW t \in 0 .. DownBound, Back(r, 0, t) PROVE Back(q, 0, t)
    BY <1>1, <1>2, <2>1, Numbers DEF Back
  <2> QED BY <1>1, <1>2, <2>1 DEF GoneOK
<1> QED BY <1>2, <1>5, <1>6, <1>7, <1>8, <1>9 DEF Beside

LEMMA KilledRec ==
  ASSUME NEW r \in ChildState, NEW q \in ChildState, RecOK(r), NEW b, Killing(r, q, b)
  PROVE  RecOK(q)
<1>1. q.proc = "none" /\ q.state = "COOLDOWN" /\ q.pc = "poll" /\ q.since = r.since
  BY DEF Killing, Becomes
<1>2. q.wait <= KillWait + Poll
  BY Numbers DEF Killing, Becomes
<1>3. r.since <= Period
  BY DEF RecOK
<1> QED BY <1>1, <1>2, <1>3 DEF RecOK

LEMMA KillingBeside ==
  ASSUME NEW r \in ChildState, NEW q \in ChildState, NEW s \in ChildState,
         Beside(r, s, 0), NEW b, Killing(r, q, b)
  PROVE  Beside(q, s, b) /\ Blame(q, s, b)
<1>1. RecOK(r) /\ r.proc \in Running \cup {"exited"} /\ r.pc = "check" /\ GoneOK(r, s, 0)
  BY DEF Beside, RecOK, Killing
<1>2. q.proc = "none" /\ q.state = "COOLDOWN" /\ q.pc = "poll" /\ q.wait = b + Poll
      /\ q.since = r.since /\ q.age = IF IsAlive(r) THEN 0 ELSE r.age
  BY <1>1 DEF Killing, Becomes, Running
<1>3. b \in 0 .. KillWait /\ (~IsAlive(r) => b = 0)
  BY DEF Killing
<1>4. RecOK(q)
  BY <1>1, KilledRec
<1>5. GoneOK(q, s, b)
  <2> SUFFICES \E t \in 0 .. DownBound :
                         /\ q.age + t <= DownBound
                         /\ Back(q, b, t)
                         /\ Far(s, t) \/ q.age + t + KillWait <= DownBound
    BY DEF GoneOK
  <2>1. CASE IsAlive(r)
    <3> DEFINE t == KillWait + Poll + Cooldown
    <3>1. t \in 0 .. DownBound /\ 0 + t + KillWait <= DownBound /\ 0 + t <= DownBound
      BY Numbers
    <3>2. b + Cooldown <= t /\ b + Poll + Cooldown <= t
      BY <1>3, Numbers
    <3> HIDE DEF t
    <3>3. Back(q, b, t)
      BY <1>2, <3>2 DEF Back
    <3>4. q.age = 0
      BY <1>2, <2>1
    <3> QED BY <3>1, <3>3, <3>4
  <2>2. CASE ~IsAlive(r)
    <3>1. r.proc = "exited"
      BY <1>1, <2>2 DEF IsAlive, Running
    <3>2. PICK t \in 0 .. DownBound :
                         /\ r.age + t <= DownBound
                         /\ Back(r, 0, t)
                         /\ Far(s, t) \/ r.age + t + KillWait <= DownBound
      BY <1>1, <3>1 DEF GoneOK
    <3>4. q.wait = Poll
      BY <1>2, <1>3, <2>2, Numbers
    <3>3. Back(q, 0, t)
      BY <1>1, <1>2, <3>2, <3>4, Numbers DEF Back
    <3> QED BY <1>2, <1>3, <2>2, <3>2, <3>3
  <2> QED BY <2>1, <2>2
<1>6. StartOK(q) /\ WellOK(q, s, b) /\ HungOK(q, s, b)
  BY <1>2 DEF StartOK, WellOK, HungOK, Running
<1>7. Blame(q, s, b)
  BY <1>2, <1>3, Numbers DEF Blame, Killer
<1> QED BY <1>2, <1>4, <1>5, <1>6, <1>7 DEF Beside

-----------------------------------------------------------------------------
(***************************************************************************)
(* The kill of q, which blocks the loop for b, as its sibling r has it.    *)
(* Where r's time is too short for a KillWait, what is left of it fits     *)
(* into the Cycle until q is killed again.                                 *)
(***************************************************************************)
LEMMA SiblingKilled ==
  ASSUME NEW r \in ChildState, NEW s \in ChildState, NEW q \in ChildState,
         Beside(r, s, 0), RecOK(s), NEW n, Killing(s, q, n)
  PROVE  Beside(r, q, n)
<1>1. RecOK(r) /\ StartOK(r) /\ WellOK(r, s, 0) /\ HungOK(r, s, 0) /\ GoneOK(r, s, 0)
  BY DEF Beside
<1>2. (\A t \in Nat : ~Far(s, t)) /\ (\A t \in Nat : t < Cycle => Far(q, t))
  BY FarKill
<1>3. n \in 0 .. KillWait /\ KillWait \in Nat
  BY Numbers DEF Killing
<1>4. r.pc # "start"
  BY <1>2 DEF Beside
<1>9. RecOK(q)
  BY KilledRec
<1>5. WellOK(r, q, KillWait)
  <2>1. ~(r.well /\ r.proc = "serving" /\ r.misses = MissLimit - 1)
    BY <1>1, <1>2, Numbers DEF WellOK
  <2>2. Cycle - KillWait + 0 - 1 \in Nat
    BY Numbers
  <2>3. ~(r.well /\ r.proc \in Running /\ r.pc = "check" /\ r.wait < Timeout)
    BY <1>1, <1>2, <2>2 DEF WellOK
  <2> QED BY <2>1, <2>3 DEF WellOK
<1>6. r.wait \in Nat /\ r.since \in Nat /\ r.age \in Nat
  BY FieldsAre
<1>7. HungOK(r, q, KillWait)
  <2> SUFFICES ASSUME r.proc = "hung"
               PROVE  \E t \in 0 .. HangBound :
                         /\ r.age + t <= HangBound
                         /\ Ends(r, KillWait, t)
                         /\ Far(q, t) \/ r.age + t + KillWait <= HangBound
    BY DEF HungOK
  <2>1. PICK t \in 0 .. HangBound :
                         /\ r.age + t + KillWait <= HangBound
                         /\ Ends(r, 0, t)
    BY <1>1, <1>2 DEF HungOK
  <2>2. r.pc \in {"poll", "check"} /\ r.misses < MissLimit /\ r.since <= Period
    BY <1>1 DEF RecOK
  <2>3. /\ Left(r) \in Nat /\ Gaps(Left(r)) \in Nat
        /\ Gaps(Left(r)) + KillWait + Timeout < Cycle
        /\ Left(r) > 0 => /\ Gaps(Left(r) - 1) \in Nat
                          /\ Gaps(Left(r) - 1) = Gaps(Left(r)) - (Period + Poll - 1)
    BY <2>2, FieldsAre, Numbers DEF Gaps
  <2>4. CASE Ends(r, KillWait, t)
    BY <2>1, <2>4, <1>6, Numbers
  <2>5. CASE ~Ends(r, KillWait, t)
    <3>2. CASE r.pc = "poll"
      <4> DEFINE x == KillWait + Gaps(Left(r)) + Timeout
      <4>1. Probes(r, 0, t - Gaps(Left(r)) - Timeout)
        BY <2>1, <3>2 DEF Ends
      <4>2. t < x /\ ~(KillWait <= t - Gaps(Left(r)) - Timeout)
        BY <2>3, <2>5, <3>2, <4>1, Numbers DEF Ends, Probes
      <4>3. x <= t + KillWait /\ x < Cycle /\ x \in Nat
        BY <2>3, <4>1, Numbers DEF Probes
      <4>4. x - Gaps(Left(r)) - Timeout = KillWait
        BY <2>3, Numbers
      <4>5. Probes(r, KillWait, KillWait)
        BY <1>6, <2>3, <4>1, <4>2, Numbers DEF Probes
      <4>6. Ends(r, KillWait, x)
        BY <3>2, <4>4, <4>5 DEF Ends
      <4>7. r.age + x <= HangBound /\ x \in 0 .. HangBound
        BY <1>6, <2>1, <4>3, Numbers
      <4>8. Far(q, x)
        BY <1>2, <4>3
      <4> QED BY <4>6, <4>7, <4>8
    <3>3. CASE r.pc = "check" /\ Left(r) = 0
      <4>1. t < KillWait /\ r.wait <= KillWait
        BY <1>6, <2>1, <2>5, <3>3, Numbers DEF Ends
      <4>2. Ends(r, KillWait, KillWait)
        BY <3>3, <4>1, Numbers DEF Ends
      <4>3. r.age + KillWait <= HangBound /\ KillWait \in 0 .. HangBound
        BY <1>6, <2>1, Numbers
      <4>4. Far(q, KillWait)
        BY <1>2, Numbers
      <4> QED BY <4>2, <4>3, <4>4
    <3>4. CASE r.pc = "check" /\ Left(r) > 0
      <4> DEFINE g == Gaps(Left(r) - 1)
                 x == KillWait + Poll + g + Timeout
                 u == t - g - Timeout
      <4>1. g \in Nat /\ g + Period + Poll - 1 + KillWait + Timeout < Cycle
        BY <2>3, <3>4, Numbers
      <4>2. /\ 0 + Poll <= u /\ r.wait + Poll <= u
            /\ r.since < Period => Period - r.since + Poll - 1 <= u
        BY <2>1, <3>4 DEF Ends
      <4>3. ~(KillWait + Poll <= u)
        BY <2>5, <3>4, <4>2 DEF Ends
      <4> HIDE DEF g
      <4>4. x - g - Timeout = KillWait + Poll /\ x <= t + KillWait /\ x < Cycle /\ x \in Nat
        BY <4>1, <4>2, Numbers
      <4>5. /\ r.wait + Poll <= KillWait + Poll
            /\ r.since < Period => Period - r.since + Poll - 1 <= KillWait + Poll
        BY <1>6, <4>1, <4>2, <4>3, Numbers
      <4> HIDE DEF x
      <4>6. Ends(r, KillWait, x)
        <5>1. x - Gaps(Left(r) - 1) - Timeout = KillWait + Poll
          BY <4>4 DEF g
        <5>2. KillWait + Poll <= KillWait + Poll
          BY Numbers
        <5> QED BY <3>4, <4>5, <5>1, <5>2 DEF Ends
      <4>7. r.age + x <= HangBound /\ x \in 0 .. HangBound
        BY <1>6, <2>1, <4>4, Numbers
      <4>8. Far(q, x)
        BY <1>2, <4>4
      <4> QED BY <4>6, <4>7, <4>8
    <3> QED BY <2>2, <2>3, <3>2, <3>3, <3>4
  <2> QED BY <2>4, <2>5
<1>8. GoneOK(r, q, KillWait)
  <2> SUFFICES ASSUME r.proc \in {"none", "exited"} /\ r.pc \notin {"start", "failed"}
               PROVE  \E t \in 0 .. DownBound :
                         /\ r.age + t <= DownBound
                         /\ Back(r, KillWait, t)
                         /\ Far(q, t) \/ r.age + t + KillWait <= DownBound
    BY DEF GoneOK
  <2>1. PICK t \in 0 .. DownBound :
                         /\ r.age + t + KillWait <= DownBound
                         /\ Back(r, 0, t)
    BY <1>1, <1>2 DEF GoneOK
  <2>2. CASE Back(r, KillWait, t)
    BY <2>1, <2>2, <1>6, Numbers
  <2>3. CASE ~Back(r, KillWait, t)
    <3> DEFINE rest == IF r.pc = "cooldown" THEN 0
                       ELSE IF r.pc = "check" THEN 2 * Poll + Cooldown
                       ELSE IF r.state = "COOLDOWN" THEN Cooldown ELSE Poll + Cooldown
               x == KillWait + rest
    <3>2. rest \in Nat /\ rest <= t /\ rest <= 2 * Poll + Cooldown /\ Back(r, KillWait, x)
      <4>1. CASE r.pc = "cooldown"
        BY <1>6, <2>1, <2>3, <4>1, Numbers DEF Back
      <4>2. CASE r.pc = "poll" /\ r.state = "COOLDOWN"
        BY <1>6, <2>1, <2>3, <4>2, Numbers DEF Back
      <4>3. CASE r.pc = "poll" /\ r.state # "COOLDOWN"
        BY <1>6, <2>1, <2>3, <4>3, Numbers DEF Back
      <4>4. CASE r.pc = "check"
        BY <1>6, <2>1, <2>3, <4>4, Numbers DEF Back
      <4> QED BY <2>1, <4>1, <4>2, <4>3, <4>4 DEF Back
    <3>3. Back(r, KillWait, x)
      BY <3>2
    <3> HIDE DEF rest
    <3>4. x <= t + KillWait /\ x < Cycle /\ x \in Nat
      BY <3>2, Numbers
    <3>5. r.age + x <= DownBound /\ x \in 0 .. DownBound
      BY <1>6, <2>1, <3>4, Numbers
    <3>6. Far(q, x)
      BY <1>2, <3>4
    <3> QED BY <3>3, <3>5, <3>6
  <2> QED BY <2>2, <2>3
<1>10. Beside(r, q, KillWait)
  BY <1>1, <1>4, <1>5, <1>7, <1>8 DEF Beside
<1> QED BY <1>3, <1>9, <1>10, BesideKept

-----------------------------------------------------------------------------
(***************************************************************************)
(* A step of the process of r.                                             *)
(***************************************************************************)
LEMMA ServingBeside ==
  ASSUME NEW r \in ChildState, NEW q \in ChildState, NEW s, NEW b,
         Beside(r, s, b), Serving(r, q)
  PROVE  Beside(q, s, b)
<1>1. RecOK(r) /\ StartOK(r) /\ WellOK(r, s, b) /\ r.pc \in {"poll", "check"}
      /\ r.misses < MissLimit
  BY DEF Beside, RecOK, Serving
<1>2. q.pc = r.pc /\ q.wait = r.wait /\ q.since = r.since /\ q.misses = r.misses
      /\ q.state = r.state /\ q.proc = "serving" /\ q.age = 0 /\ q.well = r.well
      /\ r.proc = "starting"
  BY DEF Serving, Becomes
<1>3. RecOK(q)
  BY <1>1, <1>2 DEF RecOK, Running
<1>4. ~(q.well /\ q.misses = MissLimit - 1)
  <2> SUFFICES ASSUME r.well, r.misses = MissLimit - 1 PROVE FALSE
    BY <1>2
  <2>1. MissLimit - 1 \in Nat /\ MissLimit - 1 > 0 /\ r.misses > 0
    BY Numbers
  <2>2. Rounds(r.misses - 1) = Rounds(MissLimit - 1) - Period
        /\ Rounds(r.misses) = Rounds(MissLimit - 1)
    BY <2>1, RoundsAre
  <2> QED BY <1>1, <1>2, <2>1, <2>2, FieldsAre, Numbers DEF StartOK
<1>5. WellOK(q, s, b)
  BY <1>1, <1>2, <1>4 DEF WellOK, Running
<1>6. StartOK(q) /\ HungOK(q, s, b) /\ GoneOK(q, s, b) /\ q.pc # "start"
  BY <1>1, <1>2 DEF StartOK, HungOK, GoneOK
<1> QED BY <1>3, <1>5, <1>6 DEF Beside

LEMMA RecoveringBeside ==
  ASSUME NEW r \in ChildState, NEW q \in ChildState, NEW s, NEW b,
         Beside(r, s, b), Recovering(r, q)
  PROVE  Beside(q, s, b)
<1>1. RecOK(r) /\ r.pc \in {"poll", "check"} /\ ~r.well
  BY DEF Beside, RecOK, Recovering
<1>2. q.pc = r.pc /\ q.wait = r.wait /\ q.since = r.since /\ q.misses = r.misses
      /\ q.state = r.state /\ q.proc = "serving" /\ q.age = 0 /\ ~q.well
      /\ r.proc = "hung"
  BY <1>1 DEF Recovering, Becomes
<1>3. RecOK(q)
  BY <1>1, <1>2 DEF RecOK, Running
<1>4. StartOK(q) /\ WellOK(q, s, b) /\ HungOK(q, s, b) /\ GoneOK(q, s, b) /\ q.pc # "start"
  BY <1>1, <1>2 DEF StartOK, WellOK, HungOK, GoneOK
<1> QED BY <1>3, <1>4 DEF Beside

LEMMA LingeringBeside ==
  ASSUME NEW r \in ChildState, NEW q \in ChildState, NEW s, NEW b,
         Beside(r, s, b), Lingering(r, q)
  PROVE  Beside(q, s, b)
<1>1. Left(q) = Left(r)
  BY DEF Lingering, Becomes, Left
<1> QED BY <1>1 DEF Lingering, Becomes, Beside, RecOK, StartOK, WellOK, HungOK, GoneOK,
                    Probes, Ends, Back

\* From the moment a child hangs its probes take all of HangBound but a KillWait;
\* if the loop is blocked just then, that kill is the sibling's.
LEMMA HangingBeside ==
  ASSUME NEW r \in ChildState, NEW q \in ChildState, NEW s \in ChildState, NEW b,
         Beside(r, s, b), Blame(r, s, b), Hanging(r, q)
  PROVE  Beside(q, s, b)
<1>1. RecOK(r) /\ r.pc \in {"poll", "check"} /\ r.misses < MissLimit
      /\ (r.pc = "poll" => r.wait <= Poll) /\ (r.pc = "check" => r.wait <= Timeout)
  BY DEF Beside, RecOK, Hanging
<1>2. q.pc = r.pc /\ q.wait = r.wait /\ q.since = r.since /\ q.misses = r.misses
      /\ q.state = r.state /\ q.proc = "hung" /\ q.age = 0 /\ q.well = FALSE
      /\ r.proc = "serving" /\ Left(q) = Left(r)
  BY DEF Hanging, Becomes, Left
<1>3. RecOK(q)
  BY <1>1, <1>2 DEF RecOK, Running
<1>4. r.wait \in Nat /\ r.since \in Nat /\ b \in Nat /\ b <= KillWait
  BY FieldsAre, Numbers DEF Blame
<1>5. /\ Left(r) \in Nat /\ Gaps(Left(r)) \in Nat
      /\ Gaps(Left(r)) + KillWait + Timeout < Cycle
      /\ Gaps(Left(r)) + Period + Poll - 1 + Timeout + KillWait <= HangBound
      /\ Left(r) > 0 => /\ Gaps(Left(r) - 1) \in Nat
                        /\ Gaps(Left(r) - 1) = Gaps(Left(r)) - (Period + Poll - 1)
  BY <1>1, FieldsAre, Numbers DEF Gaps
<1>6. HungOK(q, s, b)
  <2> SUFFICES \E t \in 0 .. HangBound :
                         /\ 0 + t <= HangBound
                         /\ Ends(q, b, t)
                         /\ Far(s, t) \/ 0 + t + KillWait <= HangBound
    BY <1>2 DEF HungOK
  <2> DEFINE gap == Period + Poll - 1
  <2>1. CASE b <= gap
    <3> DEFINE t == HangBound - KillWait
    <3>1. t \in 0 .. HangBound /\ 0 + t + KillWait <= HangBound
      BY Numbers
    <3>2. CASE r.pc = "poll"
      <4>1. t - Gaps(Left(r)) - Timeout >= gap
        BY <1>5, Numbers
      <4>2. Probes(q, b, t - Gaps(Left(r)) - Timeout)
        BY <1>1, <1>2, <1>4, <1>5, <2>1, <3>2, <4>1, Numbers DEF Probes
      <4> QED BY <1>2, <3>1, <3>2, <4>2 DEF Ends
    <3>3. CASE r.pc = "check" /\ Left(r) = 0
      <4>1. b <= t /\ r.wait <= t
        BY <1>1, <1>4, <2>1, <3>3, Numbers
      <4> QED BY <1>2, <3>1, <3>3, <4>1 DEF Ends
    <3>4. CASE r.pc = "check" /\ Left(r) > 0
      <4> DEFINE u == t - Gaps(Left(r) - 1) - Timeout
      <4>1. u >= gap + gap
        BY <1>5, <3>4, Numbers
      <4>2. Gaps(Left(r) - 1) \in Nat
        BY <1>5, <3>4
      <4>3. b + Poll <= u /\ r.wait + Poll <= u /\ Period - r.since + Poll - 1 <= u
        BY <1>1, <1>4, <2>1, <3>4, <4>1, <4>2, Numbers
      <4> QED BY <1>2, <3>1, <3>4, <4>3 DEF Ends
    <3> QED BY <1>1, <1>5, <3>2, <3>3, <3>4
  <2>2. CASE ~(b <= gap)
    <3>1. b > 0 /\ gap \in Nat /\ b >= Period + Poll
      BY <1>4, <2>2, Numbers
    <3>2. \A t \in Nat : t < Cycle - KillWait + b => Far(s, t)
      BY <1>1, <1>2, <3>1, Blocks DEF Running
    <3>3. CASE r.pc = "poll"
      <4> DEFINE t == b + Gaps(Left(r)) + Timeout
      <4>1. t \in 0 .. HangBound /\ t < Cycle - KillWait + b
        BY <1>4, <1>5, Numbers
      <4>2. t - Gaps(Left(r)) - Timeout = b
        BY <1>4, <1>5, Numbers
      <4>3. Probes(q, b, b)
        BY <1>1, <1>2, <1>4, <3>1, <3>3, Numbers DEF Probes
      <4>4. Ends(q, b, t)
        BY <1>2, <3>3, <4>2, <4>3 DEF Ends
      <4> HIDE DEF t
      <4> QED BY <3>2, <4>1, <4>4, Numbers
    <3>4. CASE r.pc = "check" /\ Left(r) = 0
      <4>1. b \in 0 .. HangBound /\ b < Cycle - KillWait + b /\ r.wait <= b
        BY <1>1, <1>4, <3>1, <3>4, Numbers
      <4>2. Ends(q, b, b)
        BY <1>2, <1>4, <3>4, <4>1 DEF Ends
      <4> QED BY <1>4, <3>2, <4>1, <4>2, Numbers
    <3>5. CASE r.pc = "check" /\ Left(r) > 0
      <4> DEFINE t == b + Poll + Gaps(Left(r) - 1) + Timeout
      <4>1. Gaps(Left(r) - 1) \in Nat
        BY <1>5, <3>5
      <4>2. t \in 0 .. HangBound /\ t < Cycle - KillWait + b
        BY <1>4, <1>5, <3>5, <4>1, Numbers
      <4>3. t - Gaps(Left(r) - 1) - Timeout = b + Poll
        BY <1>4, <4>1, Numbers
      <4>4. b + Poll <= b + Poll /\ r.wait + Poll <= b + Poll
            /\ Period - r.since + Poll - 1 <= b + Poll
        BY <1>1, <1>4, <3>1, <3>5, Numbers
      <4>5. Ends(q, b, t)
        BY <1>2, <3>5, <4>3, <4>4 DEF Ends
      <4> HIDE DEF t
      <4> QED BY <3>2, <4>2, <4>5, Numbers
    <3> QED BY <1>1, <1>5, <3>3, <3>4, <3>5
  <2> QED BY <2>1, <2>2
<1>7. StartOK(q) /\ WellOK(q, s, b) /\ GoneOK(q, s, b) /\ q.pc # "start"
  BY <1>1, <1>2 DEF StartOK, WellOK, GoneOK
<1> QED BY <1>3, <1>6, <1>7 DEF Beside

LEMMA ExitingBeside ==
  ASSUME NEW r \in ChildState, NEW q \in ChildState, NEW s \in ChildState, NEW b,
         Beside(r, s, b), Blame(r, s, b), Exiting(r, q)
  PROVE  Beside(q, s, b)
<1>1. RecOK(r) /\ r.pc \in {"poll", "check"} /\ r.state = "MONITORING"
      /\ (r.pc = "poll" => r.wait <= Poll)
  BY DEF Beside, RecOK, Exiting, Running
<1>2. q.pc = r.pc /\ q.wait = r.wait /\ q.since = r.since /\ q.misses = r.misses
      /\ q.state = r.state /\ q.proc = "exited" /\ q.age = 0 /\ q.well = r.well
      /\ r.proc \in Running
  BY DEF Exiting, Becomes
<1>3. RecOK(q)
  BY <1>1, <1>2 DEF RecOK, Running
<1>4. r.wait \in Nat /\ b \in Nat /\ b <= KillWait
  BY FieldsAre, Numbers DEF Blame
<1>5. GoneOK(q, s, b)
  <2> SUFFICES \E t \in 0 .. DownBound :
                         /\ 0 + t <= DownBound
                         /\ Back(q, b, t)
                         /\ Far(s, t) \/ 0 + t + KillWait <= DownBound
    BY <1>2 DEF GoneOK
  <2>1. CASE r.pc = "poll"
    <3> DEFINE t == (IF KillWait > Poll THEN KillWait ELSE Poll) + Poll + Cooldown
    <3>1. t \in 0 .. DownBound /\ 0 + t + KillWait <= DownBound /\ 0 + t <= DownBound
      BY Numbers
    <3>2. b + Poll + Cooldown <= t /\ r.wait + Poll + Cooldown <= t
      BY <1>1, <1>4, <2>1, Numbers
    <3> QED BY <1>1, <1>2, <2>1, <3>1, <3>2 DEF Back
  <2>2. CASE r.pc = "check" /\ b = 0
    <3> DEFINE t == 2 * Poll + Cooldown
    <3>1. t \in 0 .. DownBound /\ 0 + t + KillWait <= DownBound /\ 0 + t <= DownBound
      BY Numbers
    <3> QED BY <1>2, <2>2, <3>1, Numbers DEF Back
  <2>3. CASE r.pc = "check" /\ b > 0
    <3> DEFINE t == b + 2 * Poll + Cooldown
    <3>1. t \in 0 .. DownBound /\ t < Cycle - KillWait + b
      BY <1>4, Numbers
    <3>2. Far(s, t)
      BY <1>1, <1>2, <2>3, <3>1, Blocks
    <3>3. Back(q, b, t)
      BY <1>2, <2>3, <1>4, Numbers DEF Back
    <3> QED BY <3>1, <3>2, <3>3, Numbers
  <2> QED BY <1>1, <1>4, <2>1, <2>2, <2>3
<1>6. StartOK(q) /\ WellOK(q, s, b) /\ HungOK(q, s, b) /\ q.pc # "start"
  BY <1>1, <1>2 DEF StartOK, WellOK, HungOK, Running
<1> QED BY <1>3, <1>5, <1>6 DEF Beside

-----------------------------------------------------------------------------
(***************************************************************************)
(* A tick: everything is one tick nearer, and something was to come, for   *)
(* nothing is due unless the loop is blocked.                              *)
(***************************************************************************)
LEMMA TickBeside ==
  ASSUME NEW r \in ChildState, NEW q \in ChildState, NEW s \in ChildState,
         NEW z \in ChildState, NEW b, Beside(r, s, b), Blame(r, s, b), RecOK(s),
         Aging(r, q, b), Aging(s, z, b)
  PROVE  Beside(q, z, Down(b))
<1>1. RecOK(r) /\ StartOK(r) /\ WellOK(r, s, b) /\ HungOK(r, s, b) /\ GoneOK(r, s, b)
  BY DEF Beside
<1>2. q.pc = r.pc /\ q.wait = Down(r.wait)
      /\ q.since = (IF r.since < Period THEN r.since + 1 ELSE r.since)
      /\ q.misses = r.misses /\ q.state = r.state /\ q.proc = r.proc
      /\ q.age = (IF r.proc # "serving" /\ r.age < AgeMax THEN r.age + 1 ELSE r.age)
      /\ (q.well => r.well /\ ~(r.proc = "starting" /\ r.age >= StartMax))
      /\ Left(q) = Left(r)
  BY DEF Aging, Becomes, Left
<1>3. r.wait \in Nat /\ r.since \in Nat /\ r.age \in Nat /\ r.misses \in Nat /\ r.since <= Period
      /\ b \in Nat /\ b <= KillWait
  BY <1>1, FieldsAre, Numbers DEF RecOK, Blame
<1>4. /\ b = 0 => /\ r.pc \in {"start", "poll", "cooldown", "check"} => r.wait > 0
                  /\ r.pc = "check" => r.proc \notin {"starting", "serving", "exited"}
  BY DEF Aging
<1>5. Down(b) \in Nat /\ Down(b) <= b /\ (b > 0 => Down(b) = b - 1)
      /\ q.wait \in Nat /\ (r.wait > 0 => q.wait = r.wait - 1) /\ (r.wait = 0 => q.wait = 0)
      /\ (b = 0 => Down(b) = 0)
  BY <1>2, <1>3 DEF Down
<1>6. r.pc # "start"
  BY <1>1, <1>4 DEF Beside, RecOK
<1>7. ASSUME NEW t \in Nat, t > 0, Far(s, t) PROVE Far(z, t - 1)
  BY <1>7, FarTicks
<1>8. RecOK(q)
  <2>1. q.since <= Period /\ q.wait <= r.wait
    BY <1>2, <1>3, <1>5, Numbers
  <2>2. q.well => q.proc # "hung"
    BY <1>1, <1>2 DEF RecOK
  <2>3. q.pc \in {"cooldown", "poll", "check"} =>
           /\ q.wait <= Cooldown \/ q.pc # "cooldown"
           /\ q.wait <= Poll \/ q.pc # "poll" \/ q.state = "COOLDOWN"
           /\ q.wait <= KillWait + Poll \/ q.pc # "poll"
           /\ q.wait <= Timeout \/ q.pc # "check"
    BY <1>1, <1>2, <1>3, <1>5, <2>1, Numbers DEF RecOK
  <2> QED BY <1>1, <1>2, <1>6, <2>1, <2>2, <2>3 DEF RecOK
<1>9. StartOK(q)
  <2> SUFFICES ASSUME q.well, q.proc = "starting" PROVE StartOK(q)
    BY DEF StartOK
  <2>1. r.well /\ r.proc = "starting" /\ r.age < StartMax /\ q.age = r.age + 1
    BY <1>2, <1>3, Numbers
  <2>2. r.misses < MissLimit
    BY <1>1, <2>1 DEF RecOK
  <2>3. Rounds(r.misses) \in Nat /\ (r.misses > 0 => Rounds(r.misses - 1) = Rounds(r.misses) - Period)
    BY <1>3, RoundsAre
  <2> QED BY <1>1, <1>2, <1>3, <1>5, <2>1, <2>3, Numbers DEF StartOK
<1>10. r.proc \in Running \/ r.pc # "poll" =>
          (b > 0 => \A t \in Nat : t < Cycle - KillWait + b => Far(s, t))
  BY <1>1, Blocks
<1>11. ASSUME NEW t \in Int, Probes(r, b, t), b > 0 \/ r.wait > 0
       PROVE  t > 0 /\ Probes(q, Down(b), t - 1)
  <2>1. t > 0
    BY <1>3, <1>11 DEF Probes
  <2>2. Down(b) <= t - 1 /\ q.wait <= t - 1
    BY <1>3, <1>5, <1>11, <2>1 DEF Probes
  <2>3. q.since < Period => Period - q.since + Poll - 1 <= t - 1
    BY <1>2, <1>3, <1>11, Numbers DEF Probes
  <2> QED BY <2>1, <2>2, <2>3 DEF Probes
<1>12. WellOK(q, z, Down(b))
  <2>1. ASSUME q.well, q.proc = "serving", q.misses = MissLimit - 1
        PROVE  q.pc = "poll" /\ \E t \in 0 .. Cycle : Probes(q, Down(b), t) /\ Far(z, t)
    <3>1. r.well /\ r.proc = "serving" /\ r.misses = MissLimit - 1
      BY <1>2, <2>1
    <3>2. r.pc = "poll"
      BY <1>1, <1>4, <3>1 DEF WellOK
    <3>3. PICK t \in 0 .. Cycle : Probes(r, b, t) /\ Far(s, t)
      BY <1>1, <3>1, <3>2 DEF WellOK
    <3>4. t > 0 /\ Probes(q, Down(b), t - 1)
      BY <1>3, <1>4, <1>11, <3>2, <3>3, Numbers
    <3>5. t - 1 \in 0 .. Cycle /\ Far(z, t - 1)
      BY <1>7, <3>3, <3>4, Numbers
    <3> QED BY <1>2, <3>2, <3>4, <3>5
  <2>2. ASSUME q.well, q.proc \in Running, q.pc = "check", q.wait < Timeout
        PROVE  Far(z, Cycle - KillWait + Down(b) - 1)
    <3>1. b > 0
      BY <1>1, <1>2, <1>3, <1>4, <2>2 DEF RecOK, Running
    <3> DEFINE t == Cycle - KillWait + b - 1
    <3>2. t \in Nat /\ t > 0 /\ t < Cycle - KillWait + b
          /\ t - 1 = Cycle - KillWait + Down(b) - 1
      BY <1>3, <1>5, <3>1, Numbers
    <3>3. Far(s, t)
      BY <1>2, <1>10, <2>2, <3>1, <3>2
    <3> HIDE DEF t
    <3> QED BY <1>7, <3>2, <3>3
  <2> QED BY <2>1, <2>2 DEF WellOK
<1>13. HungOK(q, z, Down(b))
  <2> SUFFICES ASSUME r.proc = "hung"
               PROVE  \E t \in 0 .. HangBound :
                         /\ q.age + t <= HangBound
                         /\ Ends(q, Down(b), t)
                         /\ Far(z, t) \/ q.age + t + KillWait <= HangBound
    BY <1>2 DEF HungOK
  <2>1. PICK t \in 0 .. HangBound :
                         /\ r.age + t <= HangBound
                         /\ Ends(r, b, t)
                         /\ Far(s, t) \/ r.age + t + KillWait <= HangBound
    BY <1>1 DEF HungOK
  <2>2. q.age = r.age + 1
    BY <1>2, <1>3, <2>1, Numbers
  <2>3. r.pc \in {"poll", "check"} /\ r.misses < MissLimit /\ (b > 0 \/ r.wait > 0)
    BY <1>1, <1>3, <1>4 DEF RecOK
  <2>4. Left(r) \in Nat /\ Gaps(Left(r)) \in Nat /\ (Left(r) > 0 => Gaps(Left(r) - 1) \in Nat)
    BY <2>3, FieldsAre DEF Gaps
  <2>5. t > 0 /\ Ends(q, Down(b), t - 1)
    <3>1. CASE r.pc = "poll"
      <4> DEFINE u == t - Gaps(Left(r)) - Timeout
      <4>1. u \in Int /\ Probes(r, b, u)
        BY <2>1, <2>4, <3>1, Numbers DEF Ends
      <4>2. u > 0 /\ Probes(q, Down(b), u - 1)
        BY <1>11, <2>3, <4>1
      <4>3. t > 0 /\ (t - 1) - Gaps(Left(r)) - Timeout = u - 1
        BY <2>4, <4>2, Numbers
      <4> QED BY <1>2, <3>1, <4>2, <4>3 DEF Ends
    <3>2. CASE r.pc = "check" /\ Left(r) = 0
      <4>1. b <= t /\ r.wait <= t
        BY <2>1, <3>2 DEF Ends
      <4>2. t > 0 /\ Down(b) <= t - 1 /\ q.wait <= t - 1
        BY <1>3, <1>5, <2>3, <4>1
      <4> QED BY <1>2, <3>2, <4>2 DEF Ends
    <3>3. CASE r.pc = "check" /\ Left(r) > 0
      <4> DEFINE u == t - Gaps(Left(r) - 1) - Timeout
      <4>1. /\ b + Poll <= u /\ r.wait + Poll <= u
            /\ r.since < Period => Period - r.since + Poll - 1 <= u
        BY <2>1, <3>3 DEF Ends
      <4>2. u \in Int /\ t > 0 /\ (t - 1) - Gaps(Left(r) - 1) - Timeout = u - 1
        BY <1>3, <2>4, <3>3, <4>1, Numbers
      <4> HIDE DEF u
      <4>3. /\ Down(b) + Poll <= u - 1 /\ q.wait + Poll <= u - 1
            /\ q.since < Period => Period - q.since + Poll - 1 <= u - 1
        BY <1>2, <1>3, <1>5, <2>3, <4>1, <4>2, Numbers
      <4> QED BY <1>2, <3>3, <4>2, <4>3 DEF Ends
    <3> QED BY <2>3, <2>4, <3>1, <3>2, <3>3
  <2>6. Far(s, t) => Far(z, t - 1)
    BY <1>7, <2>5, Numbers
  <2>7. t - 1 \in 0 .. HangBound /\ q.age + (t - 1) = r.age + t
    BY <1>3, <2>2, <2>5, Numbers
  <2> QED BY <1>3, <2>1, <2>5, <2>6, <2>7
<1>14. GoneOK(q, z, Down(b))
  <2> SUFFICES ASSUME r.proc \in {"none", "exited"} /\ r.pc \notin {"start", "failed"}
               PROVE  \E t \in 0 .. DownBound :
                         /\ q.age + t <= DownBound
                         /\ Back(q, Down(b), t)
                         /\ Far(z, t) \/ q.age + t + KillWait <= DownBound
    BY <1>2 DEF GoneOK
  <2>1. PICK t \in 0 .. DownBound :
                         /\ r.age + t <= DownBound
                         /\ Back(r, b, t)
                         /\ Far(s, t) \/ r.age + t + KillWait <= DownBound
    BY <1>1 DEF GoneOK
  <2>2. q.age = r.age + 1
    BY <1>2, <1>3, <2>1, Numbers
  <2>3. (r.pc # "check" => b > 0 \/ r.wait > 0) /\ (r.pc = "check" => b > 0)
    <3>1. r.pc \in {"poll", "cooldown", "check"} /\ (r.pc = "check" => r.proc = "exited")
      BY <1>1 DEF RecOK, Running
    <3> QED BY <1>3, <1>4, <3>1
  <2>4. t > 0 /\ Back(q, Down(b), t - 1)
    <3>1. CASE r.pc = "cooldown"
      BY <1>2, <1>3, <1>5, <2>1, <2>3, <3>1, Numbers DEF Back
    <3>2. CASE r.pc = "poll" /\ r.state = "COOLDOWN"
      BY <1>2, <1>3, <1>5, <2>1, <2>3, <3>2, Numbers DEF Back
    <3>3. CASE r.pc = "poll" /\ r.state # "COOLDOWN"
      BY <1>2, <1>3, <1>5, <2>1, <2>3, <3>3, Numbers DEF Back
    <3>4. CASE r.pc = "check"
      BY <1>2, <1>3, <1>5, <2>1, <2>3, <3>4, Numbers DEF Back
    <3> QED BY <2>1, <3>1, <3>2, <3>3, <3>4 DEF Back
  <2>5. Far(s, t) => Far(z, t - 1)
    BY <1>7, <2>4, Numbers
  <2>6. t - 1 \in 0 .. DownBound /\ q.age + (t - 1) = r.age + t
    BY <1>3, <2>2, <2>4, Numbers
  <2> QED BY <1>3, <2>1, <2>4, <2>5, <2>6
<1> QED BY <1>2, <1>6, <1>8, <1>9, <1>12, <1>13, <1>14 DEF Beside

LEMMA TickBlame ==
  ASSUME NEW r \in ChildState, NEW q \in ChildState, NEW s \in ChildState,
         NEW z \in ChildState, NEW b, Blame(r, s, b), Aging(r, q, b), Aging(s, z, b)
  PROVE  Blame(q, z, Down(b))
<1>1. b \in Nat /\ b <= KillWait /\ r.wait \in Nat /\ s.wait \in Nat
  BY FieldsAre, Numbers DEF Blame
<1>2. q.pc = r.pc /\ q.state = r.state /\ q.wait = Down(r.wait)
      /\ z.pc = s.pc /\ z.state = s.state /\ z.wait = Down(s.wait)
  BY DEF Aging, Becomes
<1>3. Down(b) \in 0 .. KillWait /\ (b > 0 => Down(b) = b - 1) /\ (b = 0 => Down(b) = 0)
      /\ q.wait \in Nat /\ q.wait >= r.wait - 1 /\ z.wait \in Nat /\ z.wait >= s.wait - 1
  BY <1>1, <1>2, Numbers DEF Down
<1> QED BY <1>1, <1>2, <1>3, Numbers DEF Blame, Killer

-----------------------------------------------------------------------------
(***************************************************************************)
(* The steps of the whole.                                                 *)
(***************************************************************************)
LEMMA Two ==
  ASSUME NEW c \in Child, NEW d \in Child, NEW e \in Child, c # d
  PROVE  e = c \/ e = d
  BY TimingAssumption

LEMMA TimeParts ==
  ASSUME StopInv, TimeInv, p3 = "up", NEW c \in Child, NEW d \in Child, c # d
  PROVE  /\ child[c] \in ChildState /\ child[d] \in ChildState
         /\ Beside(child[c], child[d], busy) /\ Beside(child[d], child[c], busy)
         /\ RecOK(child[c]) /\ RecOK(child[d])
         /\ Blame(child[c], child[d], busy) /\ Blame(child[d], child[c], busy)
  BY DEF StopInv, TimeInv, Beside

LEMMA Partner == ASSUME NEW e \in Child PROVE \E d \in Child : e # d
  BY TimingAssumption

\* A step of one child, as both children have it.
LEMMA OneMoves ==
  ASSUME StopInv, TimeInv, p3 = "up", NEW e \in Child, NEW q \in ChildState, Put(e, q),
         \A d \in Child : d # e => /\ Beside(q, child[d], busy')
                                   /\ Beside(child[d], q, busy')
                                   /\ Blame(q, child[d], busy')
  PROVE  TimeInv'
<1>1. child \in [Child -> ChildState]
  BY DEF StopInv
<1>2. \A x \in Child : child'[x] = IF x = e THEN q ELSE child[x]
  BY <1>1 DEF Put
<1> SUFFICES ASSUME NEW c \in Child, NEW d \in Child, c # d
             PROVE  Beside(child'[c], child'[d], busy') /\ Blame(child'[c], child'[d], busy')
  BY DEF TimeInv
<1>3. CASE e = c
  BY <1>2, <1>3
<1>4. CASE e = d
  <2>1. Blame(q, child[c], busy') => Blame(child[c], q, busy')
    BY DEF Blame
  <2> QED BY <1>2, <1>4, <2>1
<1> QED BY <1>3, <1>4, Two

LEMMA TaskTimes ==
  ASSUME StopInv, TimeInv, p3 = "up", NEW e \in Child, Task(e)
  PROVE  TimeInv'
<1>1. child[e] \in ChildState
  BY DEF StopInv
<1>2. busy = 0
  BY <1>1, TaskMoves
<1>3. PICK q \in ChildState :
              Put(e, q) /\ ((Moving(child[e], q) /\ busy' = 0) \/ Killing(child[e], q, busy'))
  BY <1>1, TaskMoves
<1>4. ASSUME NEW d \in Child, d # e
      PROVE  Beside(q, child[d], busy') /\ Beside(child[d], q, busy') /\ Blame(q, child[d], busy')
  <2> DEFINE r == child[e]
             s == child[d]
  <2>1. r \in ChildState /\ s \in ChildState /\ Beside(r, s, 0) /\ Beside(s, r, 0)
        /\ RecOK(r) /\ RecOK(s)
    BY <1>2, <1>4, TimeParts
  <2>2. (Moving(r, q) /\ busy' = 0) \/ Killing(r, q, busy')
    BY <1>3
  <2> HIDE DEF r, s
  <2>3. CASE Moving(r, q) /\ busy' = 0
    <3>1. \A t \in Nat : Far(r, t) => Far(q, t)
      BY <2>1, <2>3, FarKept
    <3>2. Beside(s, q, 0)
      <4>1. 0 \in Nat /\ 0 \in 0 .. 0 /\ 0 <= KillWait
        BY Numbers
      <4> QED BY <2>1, <3>1, <4>1, BesideKept
    <3>3. Beside(q, s, 0)
      BY <2>1, <2>3, SpawningBeside, FailingBeside, CoolingBeside, NoticingBeside,
         ProbingBeside, AnsweringBeside, MissingBeside DEF Moving
    <3>4. Blame(q, s, 0)
      BY Numbers DEF Blame
    <3> QED BY <2>3, <3>2, <3>3, <3>4 DEF r, s
  <2>4. CASE Killing(r, q, busy')
    BY <2>1, <2>4, KillingBeside, SiblingKilled DEF r, s
  <2> QED BY <2>2, <2>3, <2>4
<1> QED BY <1>3, <1>4, OneMoves

LEMMA ProcessTimes ==
  ASSUME StopInv, TimeInv, p3 = "up", NEW e \in Child, Process(e)
  PROVE  TimeInv'
<1>1. PICK p \in Child : e # p
  BY Partner
<1>2. child[e] \in ChildState /\ RecOK(child[e]) /\ Blame(child[e], child[p], busy)
  BY <1>1, TimeParts
<1>3. busy \in Nat /\ busy <= KillWait
  BY <1>2, Numbers DEF Blame
<1>4. child[e].proc # "stuck"
  BY <1>2 DEF RecOK, Running
<1>5. PICK q \in ChildState :
              /\ Put(e, q)
              /\ \/ /\ busy' = busy
                    /\ \/ Serving(child[e], q) \/ Hanging(child[e], q)
                       \/ Recovering(child[e], q) \/ Exiting(child[e], q)
                 \/ Lingering(child[e], q)
  BY <1>2, <1>3, <1>4, ProcessMoves
<1>6. busy' \in 0 .. busy
  BY <1>2, <1>3, <1>4, ProcessMoves
<1>7. ASSUME NEW d \in Child, d # e
      PROVE  Beside(q, child[d], busy') /\ Beside(child[d], q, busy') /\ Blame(q, child[d], busy')
  <2> DEFINE r == child[e]
             s == child[d]
  <2>1. r \in ChildState /\ s \in ChildState /\ Beside(r, s, busy) /\ Beside(s, r, busy)
        /\ RecOK(r) /\ RecOK(s) /\ Blame(r, s, busy)
    BY <1>7, TimeParts
  <2>2. \/ /\ busy' = busy
           /\ Serving(r, q) \/ Hanging(r, q) \/ Recovering(r, q) \/ Exiting(r, q)
        \/ Lingering(r, q)
    BY <1>5
  <2> HIDE DEF r, s
  <2>3. q.pc = r.pc /\ q.wait = r.wait /\ q.state = r.state /\ q.misses = r.misses
        /\ q.since = r.since
    BY <2>2 DEF Serving, Hanging, Recovering, Exiting, Lingering, Becomes
  <2>4. \A t \in Nat : Far(r, t) => Far(q, t)
    BY <2>3 DEF Far, Left
  <2>5. Beside(s, q, busy')
    BY <1>3, <1>6, <2>1, <2>4, BesideKept
  <2>6. Beside(q, s, busy)
    BY <2>1, <2>2, ServingBeside, HangingBeside, RecoveringBeside, ExitingBeside,
       LingeringBeside
  <2>7. Blame(q, s, busy')
    <3>1. s.wait \in Nat /\ r.wait \in Nat
      BY <2>1, FieldsAre
    <3> QED BY <1>3, <1>6, <2>1, <2>3, <3>1, Numbers DEF Blame, Killer
  <2>8. Beside(q, s, busy')
    BY <1>3, <1>6, <2>1, <2>6, BesideKept
  <2> QED BY <2>5, <2>7, <2>8 DEF r, s
<1> QED BY <1>5, <1>7, OneMoves

LEMMA TickTimes ==
  ASSUME StopInv, TimeInv, p3 = "up", Tick
  PROVE  TimeInv'
<1>1. busy' = Down(busy) /\ p3' = p3
      /\ \A c \in Child : child'[c] = Older(child[c])
  BY DEF Tick
<1>2. ASSUME NEW c \in Child PROVE Aging(child[c], child'[c], busy) /\ child'[c] \in ChildState
  <2>1. child[c] \in ChildState
    BY DEF StopInv
  <2>2. busy = 0 => ~IsDue(c)
    BY DEF Tick
  <2>3. /\ busy = 0 => /\ child[c].pc \in {"start", "poll", "cooldown", "check"} => child[c].wait > 0
                       /\ child[c].pc = "check" => child[c].proc \notin {"starting", "serving", "exited"}
    BY <2>1, <2>2, FieldsAre DEF IsDue
  <2>4. child'[c] = Older(child[c]) /\ child'[c] \in ChildState
    BY <1>1, <2>1, OlderIs
  <2> QED BY <2>1, <2>3, <2>4, OlderAges DEF Aging
<1> SUFFICES ASSUME NEW c \in Child, NEW d \in Child, c # d
             PROVE  Beside(child'[c], child'[d], busy') /\ Blame(child'[c], child'[d], busy')
  BY DEF TimeInv
<1>3. Beside(child'[c], child'[d], Down(busy)) /\ Blame(child'[c], child'[d], Down(busy))
  BY <1>2, TimeParts, TickBeside, TickBlame
<1> QED BY <1>1, <1>3

LEMMA StartTimes == ASSUME StopInv, P3Starts PROVE TimeInv'
<1>1. busy' = 0
      /\ \A c \in Child : /\ child'[c].pc = "start" /\ child'[c].wait = 0 /\ child'[c].since = 0
                          /\ child'[c].misses = 0 /\ child'[c].state = "STOPPED"
                          /\ child'[c].proc = "none" /\ child'[c].age = 0
                          /\ child'[c].well = FALSE
  BY DEF P3Starts, Idle
<1> SUFFICES ASSUME NEW c \in Child, NEW d \in Child, c # d
             PROVE  Beside(child'[c], child'[d], busy') /\ Blame(child'[c], child'[d], busy')
  BY DEF TimeInv
<1>2. RecOK(child'[c])
  BY <1>1, Numbers DEF RecOK
<1>3. Far(child'[d], 0)
  BY <1>1, Numbers DEF Far
<1>4. StartOK(child'[c]) /\ WellOK(child'[c], child'[d], busy') /\ HungOK(child'[c], child'[d], busy')
      /\ GoneOK(child'[c], child'[d], busy')
  BY <1>1 DEF StartOK, WellOK, HungOK, GoneOK, Running
<1>5. Blame(child'[c], child'[d], busy')
  BY <1>1, Numbers DEF Blame
<1> QED BY <1>1, <1>2, <1>3, <1>4, <1>5 DEF Beside

LEMMA TimeKeeps == StopInv /\ TimeInv /\ [Next]_vars => TimeInv'
<1> SUFFICES ASSUME StopInv, TimeInv, [Next]_vars PROVE TimeInv'
  OBVIOUS
<1>1. CASE UNCHANGED vars
  BY <1>1 DEF vars, TimeInv
<1>2. CASE Next /\ p3 = "up"
  BY <1>2, TaskTimes, ProcessTimes, TickTimes
     DEF Next, P3Starts, Signal, StopChildren, P3Stops, P3Dies, TimeInv
<1>3. CASE Next /\ p3 # "up"
  <2>1. CASE P3Starts
    BY <2>1, StartTimes
  <2>2. ASSUME ~P3Starts PROVE p3' = p3 \/ p3' # "up"
    <3>1. CASE Signal \/ StopChildren \/ P3Stops \/ P3Dies
      BY <3>1, ZenonT(30) DEF Signal, StopChildren, P3Stops, P3Dies
    <3>2. CASE \E c \in Child : Task(c)
      BY <3>2, ZenonT(30) DEF Task, Spawn, SpawnFails, CoolDown, NoticeExit, Probe, Healthy,
         Unhealthy
    <3>3. CASE \E c \in Child : Process(c)
      BY <3>3, ZenonT(30) DEF Process, Serves, Hangs, Recovers, Exits, StuckDies, LingererDies
    <3>4. CASE Tick
      BY <3>4, ZenonT(30) DEF Tick
    <3> QED BY <1>3, <2>2, <3>1, <3>2, <3>3, <3>4 DEF Next
  <2>3. p3' # "up" => TimeInv'
    BY Zenon DEF TimeInv
  <2> QED BY <1>3, <2>1, <2>2, <2>3
<1> QED BY <1>1, <1>2, <1>3

\* The inductive invariant of the watchdog's times.
THEOREM TimeCorrect == Spec => []TimeInv
<1>1. Init => TimeInv
  BY DEF Init, TimeInv
<1> QED BY <1>1, StopCorrect, TimeKeeps, PTL DEF Spec

-----------------------------------------------------------------------------
\* A child that answers no more is killed within HangBound, for any periods and
\* timeouts that are as far apart as TimingAssumption says: the misses, the polls
\* between them and the sibling's kill together take no longer (run_supervised).
THEOREM HangsEnd == Spec => []HangEnds
<1>1. StopInv /\ TimeInv => HangEnds
  <2> SUFFICES ASSUME StopInv, TimeInv, p3 = "up", NEW c \in Child, child[c].proc = "hung"
               PROVE  child[c].age <= HangBound
    BY DEF HangEnds
  <2>1. PICK d \in Child : c # d
    BY Partner
  <2>2. HungOK(child[c], child[d], busy) /\ child[c] \in ChildState
    BY <2>1, TimeParts DEF Beside
  <2>3. PICK t \in 0 .. HangBound : child[c].age + t <= HangBound
    BY <2>2 DEF HungOK
  <2> QED BY <2>2, <2>3, FieldsAre, Numbers
<1> QED BY <1>1, StopCorrect, TimeCorrect, PTL

\* A child that is gone is spawned again within DownBound, under the same
\* assumption: its own kill or the poll that notices it, the two sleeps of the
\* cooldown and one kill of the sibling together take no longer.
THEOREM ChildrenComeBack == Spec => []ComesBack
<1>1. StopInv /\ TimeInv => ComesBack
  <2> SUFFICES ASSUME StopInv, TimeInv, p3 = "up", NEW c \in Child, child[c].pc # "failed",
                      child[c].proc \in {"none", "exited"}
               PROVE  child[c].age <= DownBound
    BY DEF ComesBack
  <2>1. PICK d \in Child : c # d
    BY Partner
  <2>2. GoneOK(child[c], child[d], busy) /\ RecOK(child[c]) /\ child[c] \in ChildState
    BY <2>1, TimeParts DEF Beside
  <2>3. CASE child[c].pc = "start"
    BY <2>2, <2>3, Numbers DEF RecOK
  <2>4. CASE child[c].pc # "start"
    <3>1. PICK t \in 0 .. DownBound : child[c].age + t <= DownBound
      BY <2>2, <2>4 DEF GoneOK
    <3> QED BY <2>2, <3>1, FieldsAre, Numbers
  <2> QED BY <2>3, <2>4
<1> QED BY <1>1, StopCorrect, TimeCorrect, PTL

\* The watchdog spares a child that started in time and never stopped answering,
\* whatever the sibling's kills do to its probes: while P3 is up, no step takes its
\* process away.
THEOREM WellSpared == Spec => SparesTheWell
<1> DEFINE Spares == \A c \in Child :
          p3 = "up" /\ p3' = "up" /\ child[c].well /\ IsAlive(child[c])
            => child'[c].proc # "none"
<1>1. StopInv /\ TimeInv /\ [Next]_vars => Spares
  <2> SUFFICES ASSUME StopInv, TimeInv, [Next]_vars, NEW c \in Child, p3 = "up", p3' = "up",
                      child[c].well, IsAlive(child[c])
               PROVE  child'[c].proc # "none"
    OBVIOUS
  <2>1. PICK d \in Child : c # d
    BY Partner
  <2> DEFINE r == child[c]
  <2>2. /\ r \in ChildState /\ RecOK(r) /\ StartOK(r) /\ WellOK(r, child[d], busy)
        /\ child[d] \in ChildState
        /\ Blame(r, child[d], busy) /\ child \in [Child -> ChildState]
    BY <2>1, TimeParts DEF Beside, StopInv
  <2>3. r.proc # "none" /\ r.proc \in {"starting", "serving", "hung", "stuck"}
    BY DEF IsAlive
  <2>4. ASSUME NEW q, NEW b, Killing(r, q, b) PROVE FALSE
    <3>1. r.pc = "check" /\ r.misses = MissLimit - 1 /\ r.proc \in Running
          /\ (r.wait = 0 \/ r.proc = "starting")
      BY <2>2, <2>3, <2>4, FieldsAre, Numbers DEF Killing, RecOK, Due, Running
    <3>2. r.proc # "hung"
      BY <2>2 DEF RecOK
    <3>3. r.proc # "serving"
      BY <2>2, <3>1, Numbers DEF WellOK
    <3>4. r.proc # "starting"
      BY <2>2, <3>1, FieldsAre, Numbers DEF StartOK
    <3> QED BY <3>1, <3>2, <3>3, <3>4 DEF Running
  <2>5. ASSUME NEW q, Moving(r, q) PROVE q.proc # "none"
    BY <2>3, <2>5 DEF Moving, Spawning, Failing, Cooling, Noticing, Probing, Answering,
       Missing, Becomes, IsAlive
  <2>6. CASE UNCHANGED vars
    BY <2>3, <2>6 DEF vars
  <2>7. ASSUME NEW e \in Child, Task(e) PROVE child'[c].proc # "none"
    <3>1. child[e] \in ChildState
      BY <2>2
    <3>2. PICK q \in ChildState :
              Put(e, q) /\ ((Moving(child[e], q) /\ busy' = 0) \/ Killing(child[e], q, busy'))
      BY <2>7, <3>1, TaskMoves
    <3>3. child'[c] = IF c = e THEN q ELSE child[c]
      BY <2>2, <3>2 DEF Put
    <3> QED BY <2>3, <2>4, <2>5, <3>2, <3>3
  <2>8. ASSUME NEW e \in Child, Process(e) PROVE child'[c].proc # "none"
    <3>1. child[e] \in ChildState /\ child[e].proc # "stuck"
      <4>1. PICK f \in Child : e # f
        BY Partner
      <4>2. child[e] \in ChildState /\ RecOK(child[e])
        BY <4>1, TimeParts
      <4> QED BY <4>2 DEF RecOK, Running
    <3>2. busy \in Nat
      BY <2>2, Numbers DEF Blame
    <3>3. PICK q \in ChildState :
              /\ Put(e, q)
              /\ \/ /\ busy' = busy
                    /\ \/ Serving(child[e], q) \/ Hanging(child[e], q)
                       \/ Recovering(child[e], q) \/ Exiting(child[e], q)
                 \/ Lingering(child[e], q)
      BY <2>8, <3>1, <3>2, ProcessMoves
    <3>4. child'[c] = IF c = e THEN q ELSE child[c]
      BY <2>2, <3>3 DEF Put
    <3>5. q.proc # "none" \/ c # e
      BY <2>3, <3>3 DEF Serving, Hanging, Recovering, Exiting, Lingering, Becomes
    <3> QED BY <2>3, <3>4, <3>5
  <2>9. CASE Tick
    <3>1. child'[c] = Older(r)
      BY <2>9 DEF Tick
    <3> QED BY <2>2, <2>3, <3>1, OlderIs
  <2> QED BY <2>6, <2>7, <2>8, <2>9 DEF Next, P3Starts, Signal, StopChildren, P3Stops, P3Dies
<1> QED BY <1>1, StopCorrect, TimeCorrect, PTL DEF Spec, SparesTheWell

=============================================================================
