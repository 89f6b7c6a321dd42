--------------------------- MODULE FirmwareProofs ---------------------------
(***************************************************************************)
(* What the firmware promises for every PWM range, ramp step, dead-man     *)
(* window, service period, loop budget and clock width.                    *)
(***************************************************************************)
EXTENDS Firmware, TLAPS

Outputs == [Side -> -PwmMax .. PwmMax]

-----------------------------------------------------------------------------
(***************************************************************************)
(* The operators.                                                          *)
(***************************************************************************)

\* The ramp stays between where it is and where it goes, and moves at most
\* RampStep.
LEMMA RampLemma ==
    ASSUME NEW c \in -PwmMax .. PwmMax, NEW t \in -PwmMax .. PwmMax
    PROVE  /\ RampToward(c, t) \in -PwmMax .. PwmMax
           /\ Abs(RampToward(c, t) - c) <= RampStep
           /\ t = 0 => Abs(RampToward(c, t)) <= Abs(c)
           /\ c = t => RampToward(c, t) = t
  BY FirmwareAssumption DEF RampToward, Abs, FirmwareAssumption

\* An accepted speed gives each side a target in the PWM range.
LEMMA DriveTargetType ==
    ASSUME NEW d \in MotionOps, NEW v \in 0 .. PwmMax
    PROVE  DriveTarget(d, v) \in Outputs
  BY FirmwareAssumption DEF DriveTarget, Outputs, FirmwareAssumption

LEMMA StillType == Still \in Outputs
  BY FirmwareAssumption DEF Still, Outputs, FirmwareAssumption

\* Unsigned subtraction gives a tick count.
LEMMA DiffType ==
    ASSUME NEW a \in Ticks, NEW b \in Ticks
    PROVE  Diff(a, b) \in Ticks
  BY FirmwareAssumption DEF Diff, Ticks, FirmwareAssumption

\* The ramp of both sides, as Motors::service computes it.
LEMMA ServiceType ==
    ASSUME TypeOK
    PROVE  [s \in Side |-> RampToward(current[s], target[s])] \in Outputs
  BY RampLemma DEF TypeOK, Outputs

-----------------------------------------------------------------------------
(***************************************************************************)
(* Type correctness.                                                       *)
(***************************************************************************)

LEMMA TypeInit == Init => TypeOK
  <1> SUFFICES ASSUME Init
               PROVE  TypeOK
    OBVIOUS
  <1>1. 0 \in Ticks /\ 0 \in 0 .. MaxSilence
    BY FirmwareAssumption DEF Ticks, FirmwareAssumption
  <1>2. lastRun \in [Task -> Ticks]
    BY <1>1 DEF Init
  <1>3. target \in Outputs /\ current \in Outputs /\ pwm \in Outputs
    BY StillType DEF Init
  <1>4. QED
    BY <1>1, <1>2, <1>3 DEF Init, TypeOK, Outputs, Mode, Fault

LEMMA TypeStep == TypeOK /\ [Next]_vars => TypeOK'
  <1> SUFFICES ASSUME TypeOK, [Next]_vars
               PROVE  TypeOK'
    OBVIOUS
  <1>0. /\ 0 \in Ticks
        /\ 0 \in 0 .. MaxSilence
        /\ Still \in Outputs
    BY StillType, FirmwareAssumption DEF Ticks, FirmwareAssumption
  <1>1. CASE FinishSetup
    BY <1>0, <1>1 DEF FinishSetup, TypeOK, Mode
  <1>2. CASE LoopTop
    BY <1>2 DEF LoopTop, TypeOK, stateVars, motorVars
  <1>3. CASE EndPoll
    BY <1>3 DEF EndPoll, TypeOK, stateVars, motorVars
  <1>4. CASE MotorTask
    <2>1. lastRun' \in [Task -> Ticks]
      BY <1>4 DEF MotorTask, Advance, TypeOK, Task
    <2>2. CASE MotorService
      <3>1. current' \in Outputs /\ pwm' \in Outputs
        BY <2>2, <1>0, ServiceType DEF MotorService
      <3>2. QED
        BY <1>4, <2>1, <2>2, <3>1 DEF MotorTask, Advance, MotorService, TypeOK, Outputs
    <2>3. CASE UNCHANGED <<mode, fault, motorVars>>
      BY <1>4, <2>1, <2>3 DEF MotorTask, Advance, TypeOK, motorVars
    <2>4. QED
      BY <1>4, <2>2, <2>3 DEF MotorTask
  <1>5. CASE SafetyTask
    <2>1. lastRun' \in [Task -> Ticks]
      BY <1>5 DEF SafetyTask, Advance, TypeOK, Task
    <2>2. CASE Trip
      BY <1>0, <1>5, <2>1, <2>2
      DEF SafetyTask, Advance, Trip, SetFault, EmergencyStop, TypeOK, Outputs, Mode, Fault
    <2>3. CASE Recover
      BY <1>5, <2>1, <2>3 DEF SafetyTask, Advance, Recover, ClearFault, TypeOK, Mode, Fault
    <2>4. CASE Idle \/ UNCHANGED <<mode, fault, motorVars>>
      BY <1>5, <2>1, <2>4 DEF SafetyTask, Advance, Idle, TypeOK, motorVars
    <2>5. QED
      BY <1>5, <2>2, <2>3, <2>4 DEF SafetyTask
  <1>6. ASSUME NEW l \in Line,
               \/ RefuseLine(l) \/ HandleMotion(l) \/ RejectMotion(l)
               \/ HandleStop(l) \/ HandleOther(l)
        PROVE  TypeOK'
    <2>1. CASE RefuseLine(l)
      BY <2>1 DEF RefuseLine, TypeOK, vars, timeVars, stateVars, motorVars
    <2>2. CASE HandleMotion(l)
      <3>1. l.arg \in 0 .. PwmMax /\ l.op \in MotionOps
        BY <2>2 DEF HandleMotion, Accept, ArgOk, MotionOps, ServoOps, PlainOps
      <3>2. DriveTarget(l.op, l.arg) \in Outputs
        BY <3>1, DriveTargetType
      <3>3. QED
        BY <1>0, <2>2, <3>1, <3>2 DEF HandleMotion, Accept, TypeOK, Outputs, Mode
    <2>3. CASE RejectMotion(l)
      BY <1>0, <2>3 DEF RejectMotion, Accept, TypeOK, motorVars
    <2>4. CASE HandleStop(l)
      BY <1>0, <2>4 DEF HandleStop, Accept, ClearFault, TypeOK, Outputs, Mode, Fault
    <2>5. CASE HandleOther(l)
      BY <1>0, <2>5 DEF HandleOther, Accept, TypeOK, motorVars
    <2>6. QED
      BY <1>6, <2>1, <2>2, <2>3, <2>4, <2>5
  <1>7. CASE Tick
    <2>1. clock' \in Ticks /\ silence' \in 0 .. MaxSilence
      BY <1>7, FirmwareAssumption DEF Tick, TypeOK, Ticks, FirmwareAssumption
    <2>2. QED
      BY <1>7, <2>1 DEF Tick, TypeOK, stateVars, motorVars
  <1>8. CASE Reset
    BY <1>0, <1>8 DEF Reset, TypeOK, Outputs, Mode, Fault
  <1>9. CASE UNCHANGED vars
    BY <1>9 DEF TypeOK, vars, timeVars, stateVars, motorVars
  <1>10. QED
    BY <1>1, <1>2, <1>3, <1>4, <1>5, <1>6, <1>7, <1>8, <1>9 DEF Next, Run, HandleLine

\* Every reachable state is well typed: the duties fit the 8-bit PWM, the
\* stamps the width of millis().
THEOREM TypeCorrect == Spec => []TypeOK
  <1>1. QED
    BY TypeInit, TypeStep, PTL DEF Spec

-----------------------------------------------------------------------------
(***************************************************************************)
(* The state machine and the motors agree.                                 *)
(***************************************************************************)

LEMMA ControlInit == Init => ControlInv
  BY DEF Init, ControlInv, PanicIsSafe, OnlyActiveDrives

LEMMA ControlStep == TypeOK /\ ControlInv /\ [Next]_vars => ControlInv'
  <1> SUFFICES ASSUME TypeOK, ControlInv, [Next]_vars
               PROVE  ControlInv'
    OBVIOUS
  <1> USE DEF ControlInv, PanicIsSafe, OnlyActiveDrives
  <1>1. CASE FinishSetup
    BY <1>1 DEF FinishSetup
  <1>2. CASE LoopTop
    BY <1>2 DEF LoopTop, stateVars, motorVars
  <1>3. CASE EndPoll
    BY <1>3 DEF EndPoll, stateVars, motorVars
  <1>4. CASE MotorTask
    <2>1. CASE MotorService
      <3>1. CASE enabled
        BY <1>4, <2>1, <3>1 DEF MotorTask, Advance, MotorService
      <3>2. CASE ~enabled
        <4>1. \A s \in Side : RampToward(current[s], target[s]) = 0
          BY <3>2, FirmwareAssumption DEF RampToward, Still, FirmwareAssumption
        <4>2. current' = Still /\ pwm' = Still
          BY <2>1, <3>2, <4>1 DEF MotorService, Still
        <4>3. QED
          BY <1>4, <2>1, <3>2, <4>2 DEF MotorTask, Advance, MotorService
      <3>3. QED
        BY <3>1, <3>2
    <2>2. CASE UNCHANGED <<mode, fault, motorVars>>
      BY <1>4, <2>2 DEF MotorTask, Advance, motorVars
    <2>3. QED
      BY <1>4, <2>1, <2>2 DEF MotorTask
  <1>5. CASE SafetyTask
    <2>1. CASE Trip
      BY <1>5, <2>1 DEF SafetyTask, Advance, Trip, SetFault, EmergencyStop
    <2>2. CASE Recover
      BY <1>5, <2>2 DEF SafetyTask, Advance, Recover, ClearFault
    <2>3. CASE Idle \/ UNCHANGED <<mode, fault, motorVars>>
      BY <1>5, <2>3 DEF SafetyTask, Advance, Idle, motorVars
    <2>4. QED
      BY <1>5, <2>1, <2>2, <2>3 DEF SafetyTask
  <1>6. ASSUME NEW l \in Line,
               \/ RefuseLine(l) \/ HandleMotion(l) \/ RejectMotion(l)
               \/ HandleStop(l) \/ HandleOther(l)
        PROVE  ControlInv'
    <2>1. CASE RefuseLine(l)
      BY <2>1 DEF RefuseLine, vars, timeVars, stateVars, motorVars
    <2>2. CASE HandleMotion(l)
      BY <2>2 DEF HandleMotion, Accept, MotionAllowed
    <2>3. CASE RejectMotion(l)
      BY <2>3 DEF RejectMotion, Accept, motorVars
    <2>4. CASE HandleStop(l)
      BY <2>4 DEF HandleStop, Accept, ClearFault
    <2>5. CASE HandleOther(l)
      BY <2>5 DEF HandleOther, Accept, motorVars
    <2>6. QED
      BY <1>6, <2>1, <2>2, <2>3, <2>4, <2>5
  <1>7. CASE Tick
    BY <1>7 DEF Tick, stateVars, motorVars
  <1>8. CASE Reset
    BY <1>8 DEF Reset
  <1>9. CASE UNCHANGED vars
    BY <1>9 DEF vars, timeVars, stateVars, motorVars
  <1>10. QED
    BY <1>1, <1>2, <1>3, <1>4, <1>5, <1>6, <1>7, <1>8, <1>9 DEF Next, Run, HandleLine

\* A latched dead-man fault means PANIC, drivers off, and no output or target
\* that enabling the drivers again would bring back.
THEOREM PanicSafety == Spec => []PanicIsSafe
  <1>1. ControlInv => PanicIsSafe
    BY DEF ControlInv
  <1>2. QED
    BY <1>1, ControlInit, ControlStep, TypeInit, TypeStep, PTL DEF Spec

-----------------------------------------------------------------------------
(***************************************************************************)
(* How the outputs move.                                                   *)
(***************************************************************************)

\* What one step can do to an output: keep it, ramp it, or shut it down.
LEMMA PwmStep ==
    ASSUME TypeOK, ControlInv, [Next]_vars
    PROVE  \/ pwm' = pwm
           \/ pwm' = Still /\ ~enabled'
           \/ pwm' = [s \in Side |-> RampToward(pwm[s], target[s])]
  <1>1. CASE MotorTask
    <2>1. CASE MotorService
      <3>1. CASE enabled
        BY <2>1, <3>1 DEF MotorService, ControlInv
      <3>2. CASE ~enabled
        BY <2>1, <3>2 DEF MotorService
      <3>3. QED
        BY <3>1, <3>2
    <2>2. QED
      BY <1>1, <2>1 DEF MotorTask, motorVars
  <1>2. CASE SafetyTask
    BY <1>2 DEF SafetyTask, Trip, Recover, Idle, EmergencyStop, motorVars
  <1>3. CASE HandleLine
    BY <1>3 DEF HandleLine, RefuseLine, HandleMotion, RejectMotion, HandleStop,
                HandleOther, vars, motorVars
  <1>4. CASE FinishSetup \/ LoopTop \/ EndPoll \/ Tick \/ Reset \/ UNCHANGED vars
    BY <1>4 DEF FinishSetup, LoopTop, EndPoll, Tick, Reset, vars, motorVars
  <1>5. QED
    BY <1>1, <1>2, <1>3, <1>4 DEF Next, Run

\* After STOP, in PANIC and on the way out of it the wheels only slow down.
THEOREM CoastingOnly == Spec => CoastsOnly
  <1>1. ASSUME TypeOK, ControlInv, [Next]_vars, mode # "ACTIVE",
               NEW s \in Side
        PROVE  Abs(pwm'[s]) <= Abs(pwm[s])
    <2>1. pwm[s] \in -PwmMax .. PwmMax /\ target[s] = 0 /\ 0 \in -PwmMax .. PwmMax
      BY <1>1, FirmwareAssumption
      DEF TypeOK, ControlInv, OnlyActiveDrives, Still, FirmwareAssumption
    <2>2. CASE pwm' = pwm
      BY <2>1, <2>2, FirmwareAssumption DEF Abs, FirmwareAssumption
    <2>3. CASE pwm' = Still
      BY <2>1, <2>3, FirmwareAssumption DEF Abs, Still, FirmwareAssumption
    <2>4. CASE pwm' = [r \in Side |-> RampToward(pwm[r], target[r])]
      <3>1. pwm'[s] = RampToward(pwm[s], 0)
        BY <2>1, <2>4
      <3>2. QED
        BY <2>1, <3>1, RampLemma
    <2>5. QED
      BY <1>1, <2>2, <2>3, <2>4, PwmStep
  <1>2. TypeOK /\ ControlInv /\ [Next]_vars
          => [mode # "ACTIVE" => \A s \in Side : Abs(pwm'[s]) <= Abs(pwm[s])]_vars
    BY <1>1
  <1>3. QED
    BY <1>2, ControlInit, ControlStep, TypeInit, TypeStep, PTL DEF Spec, CoastsOnly

\* An output moves at most RampStep per step of the program, or the drivers
\* go off with it.
THEOREM BoundedRamp == Spec => RampBounded
  <1>1. ASSUME TypeOK, ControlInv, [Next]_vars
        PROVE  \/ pwm' = Still /\ ~enabled'
               \/ \A s \in Side : Abs(pwm'[s] - pwm[s]) <= RampStep
    <2>1. \A s \in Side : /\ pwm[s] \in -PwmMax .. PwmMax
                         /\ target[s] \in -PwmMax .. PwmMax
      BY <1>1 DEF TypeOK
    <2>2. CASE pwm' = pwm
      BY <2>1, <2>2, FirmwareAssumption DEF Abs, FirmwareAssumption
    <2>3. CASE pwm' = [s \in Side |-> RampToward(pwm[s], target[s])]
      BY <2>1, <2>3, RampLemma
    <2>4. QED
      BY <1>1, <2>2, <2>3, PwmStep
  <1>2. TypeOK /\ ControlInv /\ [Next]_vars
          => [\/ pwm' = Still /\ ~enabled'
              \/ \A s \in Side : Abs(pwm'[s] - pwm[s]) <= RampStep]_vars
    BY <1>1
  <1>3. QED
    BY <1>2, ControlInit, ControlStep, TypeInit, TypeStep, PTL DEF Spec, RampBounded

\* A side whose target stays comes no further from it in any step, and RampStep
\* closer, or onto it, whenever the motor task is due: the reason, beside
\* fairness, that ReachesTarget is true (Motors::service, rampToward).
TargetNears ==
    [][\A s \in Side : target'[s] = target[s] =>
          LET gap == Abs(target[s] - pwm[s])
              left == Abs(target[s] - pwm'[s])
          IN  /\ left <= gap
              /\ MotorTask /\ Due("motor") => left = 0 \/ left <= gap - RampStep]_vars

\* What the ramp leaves to go.
LEMMA RampNears ==
    ASSUME NEW c \in -PwmMax .. PwmMax, NEW t \in -PwmMax .. PwmMax
    PROVE  LET left == Abs(t - RampToward(c, t))
           IN  left <= Abs(t - c) /\ (left = 0 \/ left <= Abs(t - c) - RampStep)
  BY FirmwareAssumption DEF RampToward, Abs, FirmwareAssumption

\* A target that stays is approached: no step of the firmware undoes the ramp.
THEOREM TargetsNear == Spec => TargetNears
  <1>1. ASSUME TypeOK, ControlInv, ControlInv', [Next]_vars,
               NEW s \in Side, target'[s] = target[s]
        PROVE  LET gap == Abs(target[s] - pwm[s])
                   left == Abs(target[s] - pwm'[s])
               IN  /\ left <= gap
                   /\ MotorTask /\ Due("motor") => left = 0 \/ left <= gap - RampStep
    <2>1. pwm[s] \in -PwmMax .. PwmMax /\ target[s] \in -PwmMax .. PwmMax
      BY <1>1 DEF TypeOK
    <2>2. Abs(target[s] - pwm[s]) \in Nat
      BY <2>1, FirmwareAssumption DEF Abs, FirmwareAssumption
    <2>3. CASE pwm' = Still /\ ~enabled'
      <3>1. target[s] = 0 /\ pwm'[s] = 0
        BY <1>1, <2>3 DEF ControlInv, Still
      <3>2. QED
        BY <2>2, <3>1 DEF Abs
    <2>4. CASE pwm' = [r \in Side |-> RampToward(pwm[r], target[r])]
      <3>1. pwm'[s] = RampToward(pwm[s], target[s])
        BY <2>4
      <3>2. QED
        BY <2>1, <3>1, RampNears
    <2>5. CASE MotorTask /\ Due("motor")
      <3>1. enabled' = enabled /\ pwm' = IF enabled THEN [r \in Side |-> RampToward(pwm[r], target[r])] ELSE Still
        BY <1>1, <2>5 DEF MotorTask, MotorService, ControlInv
      <3>2. QED
        BY <2>3, <2>4, <3>1
    <2>6. CASE pwm' = pwm /\ ~(MotorTask /\ Due("motor"))
      BY <2>2, <2>6
    <2>7. QED
      BY <1>1, <2>3, <2>4, <2>5, <2>6, PwmStep
  <1>2. TypeOK /\ ControlInv /\ ControlInv' /\ [Next]_vars
          => [\A s \in Side : target'[s] = target[s] =>
                LET gap == Abs(target[s] - pwm[s])
                    left == Abs(target[s] - pwm'[s])
                IN  /\ left <= gap
                    /\ MotorTask /\ Due("motor") => left = 0 \/ left <= gap - RampStep]_vars
    BY <1>1
  <1>3. QED
    BY <1>2, ControlInit, ControlStep, TypeInit, TypeStep, PTL DEF Spec, TargetNears

-----------------------------------------------------------------------------
(***************************************************************************)
(* The dead-man in time.                                                   *)
(***************************************************************************)

\* A tick ages every stamp by one, unless the clock comes round to it.
LEMMA AgeTick ==
    ASSUME NEW c \in Ticks, NEW t \in Ticks, Diff(c, t) < ClockMod - 1
    PROVE  Diff(IF c = ClockMod - 1 THEN 0 ELSE c + 1, t) = Diff(c, t) + 1
  BY FirmwareAssumption DEF Diff, Ticks, FirmwareAssumption

\* The difference of two stamps is the difference of their ages.
LEMMA AgeShift ==
    ASSUME NEW c \in Ticks, NEW a \in Ticks, NEW b \in Ticks, Diff(c, a) <= Diff(c, b)
    PROVE  Diff(a, b) = Diff(c, b) - Diff(c, a)
  BY FirmwareAssumption DEF Diff, Ticks, FirmwareAssumption

LEMMA AgeSelf ==
    ASSUME NEW c \in Ticks
    PROVE  Diff(c, c) = 0
  BY FirmwareAssumption DEF Diff, Ticks, FirmwareAssumption

\* Outside setup() the three ages are small numbers, far from a turn of the
\* clock.
LEMMA AgeBounds ==
    ASSUME TypeOK, TimingInv, pc # "setup"
    PROVE  /\ Age(loopNow) \in Nat /\ Age(lastRun["safety"]) \in Nat
           /\ Age(lastCmd) \in Nat /\ silence \in Nat
           /\ Age(loopNow) < ClockMod - 1
           /\ Age(lastRun["safety"]) < ServicePeriod + 2 * LoopMax
           /\ Age(lastRun["safety"]) < ClockMod - 1
           /\ Live => Age(lastCmd) < ClockMod - 1
  <1>1. /\ Age(loopNow) \in Ticks /\ Age(lastRun["safety"]) \in Ticks
        /\ Age(lastCmd) \in Ticks
    BY DiffType DEF TypeOK, Age, Task
  <1>2. /\ Age(loopNow) \in Nat /\ Age(lastRun["safety"]) \in Nat
        /\ Age(lastCmd) \in Nat /\ silence \in Nat
    BY <1>1 DEF Ticks, TypeOK
  <1>3. Age(lastRun["safety"]) - Age(loopNow) < ServicePeriod + LoopMax
    BY <1>2, FirmwareAssumption DEF TimingInv, FirmwareAssumption
  <1>4. Age(lastRun["safety"]) < ServicePeriod + 2 * LoopMax
    BY <1>2, <1>3, FirmwareAssumption DEF TimingInv, FirmwareAssumption
  <1>5. QED
    BY <1>2, <1>4, FirmwareAssumption DEF TimingInv, FirmwareAssumption

\* A stopped robot stays stopped through the motor task.
LEMMA ServiceKeepsStill ==
    ASSUME TypeOK, ControlInv, MotorTask, ~Live
    PROVE  ~Live'
  <1>1. CASE MotorService
    <2>1. \A s \in Side : RampToward(current[s], target[s]) = 0
      BY FirmwareAssumption
      DEF RampToward, Still, FirmwareAssumption, ControlInv, OnlyActiveDrives, Live
    <2>2. pwm' = Still
      BY <1>1, <2>1 DEF MotorService, Still
    <2>3. QED
      BY <1>1, <2>2 DEF Live, MotorService
  <1>2. QED
    BY <1>1 DEF MotorTask, motorVars, Live

LEMMA TimingInit == Init => TimingInv
  BY DEF Init, TimingInv

LEMMA TimingStep == TypeOK /\ ControlInv /\ TimingInv /\ [Next]_vars => TimingInv'
  <1> SUFFICES ASSUME TypeOK, ControlInv, TimingInv, [Next]_vars
               PROVE  TimingInv'
    OBVIOUS
  <1>0. /\ clock \in Ticks /\ loopNow \in Ticks /\ lastCmd \in Ticks
        /\ lastRun["safety"] \in Ticks
    BY DEF TypeOK, Task
  <1>1. CASE FinishSetup
    <2>1. /\ Age(loopNow)' = 0 /\ Age(lastCmd)' = 0
          /\ Age(lastRun["safety"])' = 0 /\ silence' = 0
      BY <1>0, <1>1, AgeSelf DEF FinishSetup, Age, Task
    <2>2. QED
      BY <2>1, FirmwareAssumption DEF TimingInv, FirmwareAssumption
  <1>2. CASE LoopTop
    <2>1. pc # "setup" /\ pc = "rest"
      BY <1>2 DEF LoopTop
    <2>2. /\ Age(loopNow)' = 0 /\ Age(lastCmd)' = Age(lastCmd)
          /\ Age(lastRun["safety"])' = Age(lastRun["safety"])
          /\ silence' = silence /\ (Live' <=> Live)
      BY <1>0, <1>2, AgeSelf DEF LoopTop, Age, Live, stateVars, motorVars
    <2>3. /\ pc' # "rest"
          /\ Age(lastRun["safety"]) < ServicePeriod + LoopMax
      BY <1>2, <2>1, AgeBounds, FirmwareAssumption
      DEF LoopTop, TimingInv, FirmwareAssumption
    <2>4. QED
      BY <2>1, <2>2, <2>3, AgeBounds, FirmwareAssumption
      DEF TimingInv, FirmwareAssumption
  <1>3. CASE EndPoll
    BY <1>3 DEF EndPoll, TimingInv, Age, Live, stateVars, motorVars
  <1>4. CASE MotorTask
    <2>1. /\ pc = "motor" /\ pc' = "safety"
          /\ Age(loopNow)' = Age(loopNow) /\ Age(lastCmd)' = Age(lastCmd)
          /\ Age(lastRun["safety"])' = Age(lastRun["safety"])
          /\ silence' = silence
      BY <1>4 DEF MotorTask, Advance, Age, TypeOK, Task
    <2>2. Live' => Live
      BY <1>4, ServiceKeepsStill
    <2>3. QED
      BY <2>1, <2>2 DEF TimingInv
  <1>5. CASE SafetyTask
    <2>1. /\ pc = "safety" /\ pc' = "rest"
          /\ Age(loopNow)' = Age(loopNow) /\ Age(lastCmd)' = Age(lastCmd)
          /\ silence' = silence
      BY <1>5 DEF SafetyTask, Advance, Age
    <2>2. CASE Due("safety")
      <3>1. Age(lastRun["safety"])' = Age(loopNow)
        BY <1>5, <2>2 DEF SafetyTask, Advance, Age, TypeOK, Task
      <3>2. Live' => Live /\ Age(lastCmd) < Deadman
        <4>1. CASE Trip
          BY <4>1 DEF Trip, SetFault, EmergencyStop, Live
        <4>2. CASE Recover
          BY <4>2 DEF Recover, ClearFault, Live, ControlInv, PanicIsSafe
        <4>3. CASE Idle
          BY <4>3, <2>1, AgeBounds, FirmwareAssumption
          DEF Idle, DeadmanExpired, Live, ControlInv, PanicIsSafe, Age, motorVars,
              FirmwareAssumption
        <4>4. QED
          BY <1>5, <2>2, <4>1, <4>2, <4>3 DEF SafetyTask
      <3>3. QED
        BY <2>1, <3>1, <3>2, AgeBounds, FirmwareAssumption
        DEF TimingInv, FirmwareAssumption
    <2>3. CASE ~Due("safety")
      <3>1. Age(lastRun["safety"])' = Age(lastRun["safety"]) /\ (Live' <=> Live)
        BY <1>5, <2>3 DEF SafetyTask, Advance, Age, Live, motorVars
      <3>2. Age(lastRun["safety"]) - Age(loopNow) < ServicePeriod
        <4>1. Age(loopNow) <= Age(lastRun["safety"])
          BY <2>1 DEF TimingInv
        <4>2. Diff(loopNow, lastRun["safety"])
                = Age(lastRun["safety"]) - Age(loopNow)
          BY <1>0, <4>1, AgeShift DEF Age
        <4>3. QED
          BY <2>1, <2>3, <4>2, AgeBounds, FirmwareAssumption DEF Due, FirmwareAssumption
      <3>3. Live' => /\ silence' <= Age(lastCmd)'
                     /\ Age(lastCmd)' < Deadman + Age(lastRun["safety"])'
        BY <2>1, <3>1 DEF TimingInv
      <3>4. /\ Age(loopNow)' <= LoopMax
            /\ Age(loopNow)' <= Age(lastRun["safety"])'
            /\ Age(lastRun["safety"])' - Age(loopNow)' < ServicePeriod
        BY <2>1, <3>1, <3>2 DEF TimingInv
      <3>5. Age(loopNow)' \in Nat /\ Age(lastRun["safety"])' \in Nat
        BY <2>1, <3>1, AgeBounds
      <3>6. QED
        BY <2>1, <3>3, <3>4, <3>5, FirmwareAssumption DEF TimingInv, FirmwareAssumption
    <2>4. QED
      BY <2>2, <2>3
  <1>6. ASSUME NEW l \in Line, Accept(l)
        PROVE  TimingInv'
    <2>1. /\ pc # "setup" /\ pc' = pc
          /\ Age(loopNow)' = Age(loopNow) /\ Age(lastCmd)' = Age(loopNow)
          /\ Age(lastRun["safety"])' = Age(lastRun["safety"])
          /\ silence' = 0
      BY <1>6 DEF Accept, Age
    <2>2. QED
      BY <2>1, AgeBounds, FirmwareAssumption DEF TimingInv, FirmwareAssumption
  <1>7. CASE Tick
    <2>1. CASE pc = "setup"
      BY <1>7, <2>1 DEF Tick, TimingInv
    <2>2. CASE pc # "setup"
      <3>1. /\ Age(loopNow)' = Age(loopNow) + 1
            /\ Age(lastRun["safety"])' = Age(lastRun["safety"]) + 1
        BY <1>0, <1>7, <2>2, AgeBounds, AgeTick DEF Tick, Age
      <3>2. Live => Age(lastCmd)' = Age(lastCmd) + 1
        BY <1>0, <1>7, <2>2, AgeBounds, AgeTick DEF Tick, Age, stateVars
      <3>3. /\ pc' = pc /\ silence' = silence + 1 /\ (Live' <=> Live)
            /\ Age(loopNow) < LoopMax
        BY <1>7 DEF Tick, Live, Age, stateVars, motorVars
      <3>4. QED
        BY <2>2, <3>1, <3>2, <3>3, AgeBounds, FirmwareAssumption
        DEF TimingInv, FirmwareAssumption
    <2>3. QED
      BY <2>1, <2>2
  <1>8. CASE Reset
    BY <1>8 DEF Reset, TimingInv
  <1>9. CASE UNCHANGED vars
    BY <1>9 DEF TimingInv, Age, Live, vars, timeVars, stateVars, motorVars
  <1>10. CASE HandleLine
    <2>1. ASSUME NEW l \in Line, RefuseLine(l)
          PROVE  TimingInv'
      BY <1>9, <2>1 DEF RefuseLine
    <2>2. QED
      BY <1>6, <1>10, <2>1
      DEF HandleLine, HandleMotion, RejectMotion, HandleStop, HandleOther
  <1>11. QED
    BY <1>1, <1>2, <1>3, <1>4, <1>5, <1>7, <1>8, <1>9, <1>10 DEF Next, Run

\* A silent line stops the robot within StopBound, for every window, period,
\* loop budget and clock width: the wrap of millis() cannot delay it.
THEOREM StopsInTime == Spec => []BoundedStop
  <1>1. TypeOK /\ ControlInv /\ TimingInv => BoundedStop
    <2> SUFFICES ASSUME TypeOK, ControlInv, TimingInv, silence >= StopBound
                 PROVE  pwm = Still
      BY DEF BoundedStop
    <2>1. CASE pc = "setup"
      BY <2>1 DEF ControlInv
    <2>2. CASE pc # "setup"
      BY <2>2, AgeBounds, FirmwareAssumption
      DEF TimingInv, Live, StopBound, FirmwareAssumption
    <2>3. QED
      BY <2>1, <2>2
  <1>2. QED
    BY <1>1, ControlInit, ControlStep, TypeInit, TypeStep, TimingInit, TimingStep, PTL
    DEF Spec

-----------------------------------------------------------------------------
(***************************************************************************)
(* Recovery.                                                               *)
(***************************************************************************)

LEMMA StampStep ==
    ASSUME MaxSilence + LoopMax < ClockMod
    PROVE  TypeOK /\ TimingInv /\ StampIsHonest /\ [Next]_vars => StampIsHonest'
  <1> SUFFICES ASSUME TypeOK, TimingInv, StampIsHonest, [Next]_vars
               PROVE  StampIsHonest'
    OBVIOUS
  <1>0. clock \in Ticks /\ lastCmd \in Ticks /\ loopNow \in Ticks
    BY DEF TypeOK
  <1>1. CASE FinishSetup
    <2>1. Age(lastCmd)' = 0 /\ silence' = 0
      BY <1>0, <1>1, AgeSelf DEF FinishSetup, Age
    <2>2. QED
      BY <2>1, FirmwareAssumption DEF StampIsHonest, FirmwareAssumption
  <1>2. ASSUME NEW l \in Line, Accept(l)
        PROVE  StampIsHonest'
    <2>1. pc # "setup" /\ Age(lastCmd)' = Age(loopNow) /\ silence' = 0
      BY <1>2 DEF Accept, Age
    <2>2. QED
      BY <2>1, AgeBounds, FirmwareAssumption
      DEF StampIsHonest, TimingInv, FirmwareAssumption
  <1>3. CASE Tick
    <2>1. CASE pc = "setup"
      BY <1>3, <2>1 DEF Tick, StampIsHonest
    <2>2. CASE pc # "setup"
      <3>1. Age(lastCmd) < ClockMod - 1
        BY <1>3, <2>2, AgeBounds, FirmwareAssumption
        DEF Tick, StampIsHonest, TypeOK, FirmwareAssumption
      <3>2. Age(lastCmd)' = Age(lastCmd) + 1
        BY <1>0, <1>3, <3>1, AgeTick DEF Tick, Age, stateVars
      <3>3. QED
        BY <1>3, <2>2, <3>2, AgeBounds, FirmwareAssumption
        DEF Tick, StampIsHonest, FirmwareAssumption
    <2>3. QED
      BY <2>1, <2>2
  <1>4. CASE Reset
    BY <1>4 DEF Reset, StampIsHonest
  <1>5. CASE LoopTop \/ EndPoll \/ MotorTask \/ SafetyTask \/ UNCHANGED vars
    <2>1. /\ Age(lastCmd)' = Age(lastCmd) /\ silence' = silence
          /\ pc' # "setup" => pc # "setup"
      BY <1>5 DEF LoopTop, EndPoll, MotorTask, SafetyTask, Advance, Age,
                  vars, timeVars, stateVars
    <2>2. QED
      BY <2>1 DEF StampIsHonest
  <1>6. CASE HandleLine
    <2>1. ASSUME NEW l \in Line, RefuseLine(l)
          PROVE  StampIsHonest'
      BY <1>5, <2>1 DEF RefuseLine
    <2>2. QED
      BY <1>2, <1>6, <2>1
      DEF HandleLine, HandleMotion, RejectMotion, HandleStop, HandleOther
  <1>7. QED
    BY <1>1, <1>3, <1>4, <1>5, <1>6 DEF Next, Run

\* Nothing but a line or a reset ends a dead-man fault, provided no silence
\* outlasts a turn of the clock.  The proviso is needed: after a whole
\* turn the stamp looks young again.
THEOREM RecoveryNeedsCommand ==
    ASSUME MaxSilence + LoopMax < ClockMod
    PROVE  Spec => RecoversOnlyOnCommand
  <1>1. Init => StampIsHonest
    BY DEF Init, StampIsHonest
  <1>2. TypeOK /\ TimingInv /\ StampIsHonest /\ [Next]_vars => StampIsHonest'
    BY StampStep
  <1>3. ASSUME TypeOK, ControlInv, TimingInv, StampIsHonest, [Next]_vars,
               fault = "DEADMAN", fault' = "NONE", pc' # "setup"
        PROVE  silence < Deadman
    <2>1. CASE SafetyTask
      <3>1. Recover /\ pc # "setup"
        BY <1>3, <2>1
        DEF SafetyTask, Advance, Trip, Idle, SetFault, motorVars
      <3>2. QED
        BY <1>3, <3>1, AgeBounds, FirmwareAssumption
        DEF Recover, DeadmanExpired, StampIsHonest, Age, FirmwareAssumption
    <2>2. CASE HandleLine
      BY <1>3, <2>2
      DEF HandleLine, RefuseLine, HandleMotion, RejectMotion, HandleStop, HandleOther,
          ControlInv, PanicIsSafe, vars, stateVars
    <2>3. CASE MotorTask
      BY <1>3, <2>3 DEF MotorTask, MotorService
    <2>4. CASE FinishSetup \/ LoopTop \/ EndPoll \/ Tick \/ Reset \/ UNCHANGED vars
      BY <1>3, <2>4 DEF FinishSetup, LoopTop, EndPoll, Tick, Reset, vars, stateVars
    <2>5. QED
      BY <1>3, <2>1, <2>2, <2>3, <2>4 DEF Next, Run
  <1>4. TypeOK /\ ControlInv /\ TimingInv /\ StampIsHonest /\ [Next]_vars
          => [fault = "DEADMAN" /\ fault' = "NONE" /\ pc' # "setup"
                => silence < Deadman]_vars
    BY <1>3
  <1>5. QED
    BY <1>1, <1>2, <1>4, ControlInit, ControlStep, TypeInit, TypeStep, TimingInit,
       TimingStep, PTL
    DEF Spec, RecoversOnlyOnCommand

=============================================================================
