------------------------------ MODULE Firmware ------------------------------
(***************************************************************************)
(* The Arduino firmware of the robot: arduino/arduino.ino with the command *)
(* parser, the state machine, the motor driver and the cooperative         *)
(* scheduler it wires together.                                            *)
(*                                                                         *)
(* The firmware is one thread.  Its pc is where loop() stands:             *)
(*   "setup"  inside setup(), after the outputs were made safe             *)
(*   "poll"   inside g_parser.poll(now), handling the lines that arrived   *)
(*   "motor"  g_scheduler.run(now), about to consider taskMotorService     *)
(*   "safety" about to consider taskSafety                                 *)
(*   "rest"   the sensor, telemetry and heartbeat tasks, then loop() again *)
(* Time passes at any of them, at most LoopMax ticks per iteration.        *)
(***************************************************************************)
EXTENDS Integers

CONSTANTS
    PwmMax,         \* MOTOR_PWM_MAX = MOTOR_SPEED_MAX (255)
    RampStep,       \* MOTOR_RAMP_STEP (15)
    ServoMax,       \* SERVO_ANGLE_MAX (180)
    Deadman,        \* DEADMAN_TIMEOUT_MS (2000), in ticks
    ServicePeriod,  \* MOTOR_SERVICE_PERIOD_MS (10), in ticks
    LoopMax,        \* bound: ticks one iteration of loop() may take
    ClockMod,       \* millis() counts modulo ClockMod (2^32)
    MaxSilence      \* bound: the longest silence of the line that is explored

ASSUME FirmwareAssumption ==
    /\ PwmMax \in Nat \ {0}
    /\ RampStep \in Nat \ {0}
    /\ ServoMax \in Nat
    /\ Deadman \in Nat \ {0}
    /\ ServicePeriod \in Nat \ {0}
    /\ LoopMax \in Nat \ {0}
    /\ ClockMod \in Nat
    /\ ClockMod > Deadman + ServicePeriod + 2 * LoopMax
    /\ MaxSilence \in Nat

VARIABLES
    clock,      \* millis()
    pc,         \* where loop() stands
    loopNow,    \* `now` of the current loop() iteration
    lastRun,    \* Task.last of the two tasks that act on the motors
    mode,       \* RobotState::_mode
    fault,      \* RobotState::_fault
    lastCmd,    \* RobotState::_lastCmdTime
    dir,        \* Motors::_dir
    target,     \* Motors::_leftTarget, _rightTarget
    current,    \* Motors::_leftCurrent, _rightCurrent
    enabled,    \* Motors::_enabled, the level of MOTOR_EN_PIN
    pwm,        \* what applyOutputs wrote last, signed per side
    silence     \* history: true ticks since a line was accepted, or since boot

timeVars  == <<clock, pc, loopNow, lastRun, silence>>
stateVars == <<mode, fault, lastCmd>>
motorVars == <<dir, target, current, enabled, pwm>>
vars == <<timeVars, stateVars, motorVars>>

Side  == {"left", "right"}
Task  == {"motor", "safety"}
Mode  == {"BOOT", "READY", "ACTIVE", "ESTOP", "PANIC"}
Fault == {"NONE", "DEADMAN", "OPERATOR_ESTOP"}
Ticks == 0 .. ClockMod - 1

(***************************************************************************)
(* Inbound lines.  op is the first character, "X" any that is no command   *)
(* (an over-long frame included).  arg stands for the rest of the line: -1 *)
(* when it is missing or not all digits, else its number.                  *)
(***************************************************************************)
MotionOps == {"F", "R", "L", "G"}
ServoOps  == {"P", "T"}
PlainOps  == {"S", "H", "?"}
Args      == -1 .. PwmMax + 1
Line      == [op : MotionOps \cup ServoOps, arg : Args]
                 \cup [op : PlainOps \cup {"X"}, arg : {-1}]

\* CommandParser::validateArg: stages 2 and 3.
ArgOk(l) ==
    \/ l.op \in MotionOps /\ l.arg \in 0 .. PwmMax
    \/ l.op \in ServoOps /\ l.arg \in 0 .. ServoMax
    \/ l.op \in PlainOps

-----------------------------------------------------------------------------
Abs(n) == IF n < 0 THEN -n ELSE n

\* (unsigned long)(a - b)
Diff(a, b) == IF a >= b THEN a - b ELSE a - b + ClockMod

\* Motors::drive: the sides that turn forward, the others in reverse.
Ahead == [F |-> Side, R |-> {}, L |-> {"right"}, G |-> {"left"}]

DriveTarget(d, speed) ==
    [s \in Side |-> IF s \in Ahead[d] THEN speed ELSE -speed]

\* Mutant of RampToward: the last, shorter step is never made.
RampStalls(cur, tgt) ==
    IF cur < tgt
    THEN IF cur + RampStep >= tgt THEN cur ELSE cur + RampStep
    ELSE IF cur - RampStep <= tgt THEN cur ELSE cur - RampStep

\* Motors::rampToward.
RampToward(cur, tgt) ==
    IF cur < tgt
    THEN IF cur + RampStep > tgt THEN tgt ELSE cur + RampStep
    ELSE IF cur - RampStep < tgt THEN tgt ELSE cur - RampStep

Still == [s \in Side |-> 0]

\* RobotState::isMotionAllowed.
MotionAllowed == mode \in {"READY", "ACTIVE"} /\ fault = "NONE"

\* RobotState::setFault.
SetFault(r) ==
    /\ fault' = r
    /\ mode' = IF r = "OPERATOR_ESTOP" THEN "ESTOP"
               ELSE IF r # "NONE" THEN "PANIC" ELSE mode

\* RobotState::clearFault.
ClearFault ==
    /\ fault' = "NONE"
    /\ mode' = IF mode \in {"PANIC", "ESTOP"} THEN "READY" ELSE mode

\* Mutant of EmergencyStop: the targets survive it.
EmergencyStopKeepsTarget ==
    /\ dir' = "STOP"
    /\ current' = Still
    /\ pwm' = Still
    /\ enabled' = FALSE
    /\ UNCHANGED target

\* Motors::emergencyStop, with the enableDrivers(false) it ends in.
EmergencyStop ==
    /\ dir' = "STOP"
    /\ target' = Still
    /\ current' = Still
    /\ pwm' = Still
    /\ enabled' = FALSE

-----------------------------------------------------------------------------
Init ==
    /\ clock = 0 /\ loopNow = 0 /\ lastCmd = 0 /\ silence = 0
    /\ pc = "setup"
    /\ lastRun = [t \in Task |-> 0]
    /\ mode = "BOOT" /\ fault = "NONE"
    /\ dir = "STOP" /\ target = Still /\ current = Still /\ pwm = Still
    /\ enabled = FALSE

(***************************************************************************)
(* The rest of setup(): the tasks are registered, the dead-man is primed,  *)
(* the drivers are enabled and READY is announced.                         *)
(***************************************************************************)
FinishSetup ==
    /\ pc = "setup"
    /\ pc' = "rest"
    /\ lastRun' = [t \in Task |-> clock]
    /\ lastCmd' = clock
    /\ loopNow' = clock
    /\ silence' = 0
    /\ mode' = "READY"
    /\ enabled' = TRUE
    /\ UNCHANGED <<clock, fault, dir, target, current, pwm>>

\* loop(): now = millis().
LoopTop ==
    /\ pc = "rest"
    /\ pc' = "poll"
    /\ loopNow' = clock
    /\ UNCHANGED <<clock, lastRun, silence, stateVars, motorVars>>

\* Mutant of RefuseLine: the dead-man is refreshed before the line is checked.
RefuseLineFeeds(l) ==
    /\ pc = "poll"
    /\ ~ArgOk(l)
    /\ lastCmd' = loopNow
    /\ UNCHANGED <<clock, pc, loopNow, lastRun, silence, mode, fault, motorVars>>

\* A line stages 1 to 3 turn down: a NACK, and nothing else.
RefuseLine(l) ==
    /\ pc = "poll"
    /\ ~ArgOk(l)
    /\ UNCHANGED vars

\* handleLine once the line is well formed: noteCommandReceived(now).
Accept(l) ==
    /\ pc = "poll"
    /\ ArgOk(l)
    /\ lastCmd' = loopNow
    /\ silence' = 0
    /\ UNCHANGED <<clock, pc, loopNow, lastRun>>

\* A motion command that the state machine lets through.
HandleMotion(l) ==
    /\ l.op \in MotionOps
    /\ Accept(l)
    /\ MotionAllowed
    /\ mode' = "ACTIVE"
    /\ dir' = l.op
    /\ target' = DriveTarget(l.op, l.arg)
    /\ enabled' = TRUE
    /\ UNCHANGED <<fault, current, pwm>>

\* A motion command in PANIC: REJECTED, but it has refreshed the dead-man.
RejectMotion(l) ==
    /\ l.op \in MotionOps
    /\ Accept(l)
    /\ ~MotionAllowed
    /\ UNCHANGED <<mode, fault, motorVars>>

\* Mutant of HandleStop: the mode changes but the targets stay.
HandleStopKeepsTarget(l) ==
    /\ l.op = "S"
    /\ Accept(l)
    /\ mode' = IF mode = "ACTIVE" THEN "READY" ELSE mode
    /\ UNCHANGED <<fault, motorVars>>

\* STOP: the targets go to zero and the outputs ramp down after them.
HandleStop(l) ==
    /\ l.op = "S"
    /\ Accept(l)
    /\ dir' = "STOP"
    /\ target' = Still
    /\ IF mode = "ESTOP" THEN ClearFault
       ELSE /\ mode' = IF mode = "ACTIVE" THEN "READY" ELSE mode
            /\ UNCHANGED fault
    /\ UNCHANGED <<current, enabled, pwm>>

\* Heartbeat, status query and camera servo moves.
HandleOther(l) ==
    /\ l.op \in ServoOps \cup {"H", "?"}
    /\ Accept(l)
    /\ UNCHANGED <<mode, fault, motorVars>>

\* The receive buffer is empty: poll returns and the scheduler runs.
EndPoll ==
    /\ pc = "poll"
    /\ pc' = "motor"
    /\ UNCHANGED <<clock, loopNow, lastRun, silence, stateVars, motorVars>>

-----------------------------------------------------------------------------
\* Scheduler::run: the period of task t is over.
Due(t) == Diff(loopNow, lastRun[t]) >= ServicePeriod

\* Scheduler::run steps to the next entry of its table.
Advance(t, next) ==
    /\ pc = t
    /\ pc' = next
    /\ lastRun' = IF Due(t) THEN [lastRun EXCEPT ![t] = loopNow] ELSE lastRun
    /\ UNCHANGED <<clock, loopNow, silence, lastCmd>>

\* Motors::service with applyOutputs.
MotorService ==
    /\ current' = [s \in Side |-> RampToward(current[s], target[s])]
    /\ pwm' = IF enabled THEN current' ELSE Still
    /\ UNCHANGED <<mode, fault, dir, target, enabled>>

MotorTask ==
    /\ Advance("motor", "safety")
    /\ IF Due("motor") THEN MotorService ELSE UNCHANGED <<mode, fault, motorVars>>

\* Mutant of DeadmanExpired: compared without the wrap of unsigned arithmetic.
DeadmanIgnoresWrap == clock - lastCmd >= Deadman

DeadmanExpired == Diff(clock, lastCmd) >= Deadman

\* taskSafety: the window is over and no fault is latched yet.
Trip ==
    /\ DeadmanExpired
    /\ fault # "DEADMAN" /\ mode \notin {"PANIC", "ESTOP"}
    /\ SetFault("DEADMAN")
    /\ EmergencyStop

\* Mutant of Recover: the fault stays latched.
RecoverKeepsFault ==
    /\ ~DeadmanExpired
    /\ fault = "DEADMAN"
    /\ enabled' = TRUE
    /\ UNCHANGED <<mode, fault, dir, target, current, pwm>>

\* taskSafety: a line has come in since the fault was latched.
Recover ==
    /\ ~DeadmanExpired
    /\ fault = "DEADMAN"
    /\ ClearFault
    /\ enabled' = TRUE
    /\ UNCHANGED <<dir, target, current, pwm>>

\* taskSafety: nothing to do.
Idle ==
    /\ IF DeadmanExpired THEN fault = "DEADMAN" \/ mode \in {"PANIC", "ESTOP"}
                         ELSE fault # "DEADMAN"
    /\ UNCHANGED <<mode, fault, motorVars>>

SafetyTask ==
    /\ Advance("safety", "rest")
    /\ IF Due("safety") THEN Trip \/ Recover \/ Idle
                        ELSE UNCHANGED <<mode, fault, motorVars>>

-----------------------------------------------------------------------------
\* One tick of real time, inside the time budget of the iteration.
Tick ==
    /\ Diff(clock, loopNow) < LoopMax
    /\ silence < MaxSilence
    /\ clock' = IF clock = ClockMod - 1 THEN 0 ELSE clock + 1
    /\ silence' = silence + 1
    /\ UNCHANGED <<pc, loopNow, lastRun, stateVars, motorVars>>

(***************************************************************************)
(* The board resets: power, the reset button, or the host opening the      *)
(* serial port.  Motors::init and RobotState::init run before anything     *)
(* else can move.                                                          *)
(***************************************************************************)
Reset ==
    /\ clock' = 0 /\ loopNow' = 0 /\ lastCmd' = 0 /\ silence' = 0
    /\ pc' = "setup"
    /\ lastRun' = [t \in Task |-> 0]
    /\ mode' = "BOOT" /\ fault' = "NONE"
    /\ dir' = "STOP" /\ target' = Still /\ current' = Still /\ pwm' = Still
    /\ enabled' = FALSE

HandleLine ==
    \E l \in Line :
        \/ RefuseLine(l)
        \/ HandleMotion(l)
        \/ RejectMotion(l)
        \/ HandleStop(l)
        \/ HandleOther(l)

\* The processor executes its next instruction.
Run == FinishSetup \/ LoopTop \/ EndPoll \/ MotorTask \/ SafetyTask

Next == Run \/ HandleLine \/ Tick \/ Reset

Spec == Init /\ [][Next]_vars

\* The processor runs and time passes; lines and resets need never come.
FairSpec == Spec /\ WF_vars(Run) /\ WF_vars(Tick)

-----------------------------------------------------------------------------
(***************************************************************************)
(* Properties.                                                             *)
(***************************************************************************)

\* The variables hold what the firmware's fields can hold: RobotMode,
\* FaultReason, an 8-bit duty per side and direction, and a clock that wraps.
TypeOK ==
    /\ clock \in Ticks /\ loopNow \in Ticks /\ lastCmd \in Ticks
    /\ lastRun \in [Task -> Ticks]
    /\ silence \in 0 .. MaxSilence
    /\ pc \in {"setup", "poll", "motor", "safety", "rest"}
    /\ mode \in Mode /\ fault \in Fault
    /\ dir \in MotionOps \cup {"STOP"}
    /\ enabled \in BOOLEAN
    /\ target  \in [Side -> -PwmMax .. PwmMax]
    /\ current \in [Side -> -PwmMax .. PwmMax]
    /\ pwm     \in [Side -> -PwmMax .. PwmMax]

\* While the dead-man fault is latched the machine is in PANIC, the drivers
\* are off, and neither an output nor a target is left that a later
\* enableDrivers(true) would bring back (taskSafety, emergencyStop).
PanicIsSafe ==
    (fault = "DEADMAN" \/ mode = "PANIC") =>
        /\ fault = "DEADMAN" /\ mode = "PANIC"
        /\ ~enabled
        /\ target = Still /\ current = Still /\ pwm = Still

\* A target other than zero belongs to the motion command in force: in every
\* mode but ACTIVE nothing is left to ramp up to.
OnlyActiveDrives == mode # "ACTIVE" => target = Still /\ dir = "STOP"

\* The worst case from the last line to the stop: the window, the service
\* period that may just have begun when it ends, the iteration of loop() in
\* which the task is not due yet and the one that runs it.
StopBound == Deadman + ServicePeriod + 2 * LoopMax - 1

\* A line that stays silent stops the robot within StopBound, however the
\* clock wraps and however late the tasks run: Invariant I of the methodology,
\* motor safety independent of the network.
BoundedStop == silence >= StopBound => pwm = Still

\* Outputs never grow except under a motion command: after STOP, in PANIC
\* and on the way out of it the wheels only slow down.
CoastsOnly ==
    [][mode # "ACTIVE" => \A s \in Side : Abs(pwm'[s]) <= Abs(pwm[s])]_vars

\* An output moves at most RampStep per service, whatever commands come in
\* between; only a shutdown that also takes the drivers off may jump.
RampBounded ==
    [][\/ pwm' = Still /\ ~enabled'
       \/ \A s \in Side : Abs(pwm'[s] - pwm[s]) <= RampStep]_vars

\* The dead-man fault is cleared only because the line is alive again
\* (arduino.ino: "if a dead-man fault cleared because comms resumed"), or
\* by a reset of the board.
RecoversOnlyOnCommand ==
    [][fault = "DEADMAN" /\ fault' = "NONE" /\ pc' # "setup"
         => silence < Deadman]_vars

\* A motion command in force is carried out: the output of a side reaches
\* the target unless the target is replaced.
ReachesTarget ==
    \A s \in Side, v \in -PwmMax .. PwmMax :
        target[s] = v ~> (pwm[s] = v \/ target[s] # v)

\* A dead-man fault does not lock the operator out: once lines come often
\* enough to keep the window open, the fault is cleared (README: "Auto-recovers
\* when commands resume").
LineRecovers ==
    <>[](silence < Deadman - LoopMax) => []<>(fault = "NONE")

-----------------------------------------------------------------------------
(***************************************************************************)
(* The inductive invariant behind PanicIsSafe and BoundedStop.             *)
(***************************************************************************)

\* The output written last is the ramp's value, also while the drivers are
\* off; the operator e-stop is never raised; setup() runs in BOOT.
ControlInv ==
    /\ PanicIsSafe
    /\ OnlyActiveDrives
    /\ pwm = current
    /\ ~enabled => target = Still /\ current = Still
    /\ mode # "ESTOP"
    /\ pc = "setup" => mode = "BOOT" /\ ~enabled

Age(t) == Diff(clock, t)

\* The wheels turn, or may come to turn without another line.
Live == mode = "ACTIVE" \/ pwm # Still

\* How far the clock can be ahead of the stamps: the iteration is within its
\* budget, taskSafety last ran less than a period before an iteration began,
\* and a robot that is not stopped passed its last dead-man check.
TimingInv ==
    pc # "setup" =>
        /\ Age(loopNow) <= LoopMax
        /\ Age(loopNow) <= Age(lastRun["safety"])
        /\ Age(lastRun["safety"]) - Age(loopNow)
             < ServicePeriod + (IF pc = "rest" THEN 0 ELSE LoopMax)
        /\ Live => /\ silence <= Age(lastCmd)
                   /\ Age(lastCmd) < Deadman + Age(lastRun["safety"])

\* As long as no silence outlasts a turn of the clock, the age of the last
\* line's stamp is the true silence, up to the iteration it was read in.
StampIsHonest ==
    pc # "setup" => silence <= Age(lastCmd) /\ Age(lastCmd) <= silence + LoopMax

\* StampIsHonest needs MaxSilence + LoopMax < ClockMod.
FirmwareInv == TypeOK /\ ControlInv /\ TimingInv /\ StampIsHonest

=============================================================================
