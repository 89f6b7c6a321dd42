------------------------------- MODULE Parts --------------------------------
(***************************************************************************)
(* The small modules, checked in one run.  They share no state: a          *)
(* behaviour is one of the part its first state names, and the variables   *)
(* of the others keep one initial value.                                   *)
(***************************************************************************)
EXTENDS Integers, Sequences, TLC

CONSTANTS
    Host, MaxFailures, Lockout,                                 \* KeyGate
    Nobody, Poll, Timeout,                                      \* TalkFollow
    Viewer, Retry, MaxLeak,                                     \* Capture
    Packet, Cushion, BufferMax, QueueMax, LateMax, ResumeAfter,
    Jitter, StallMax,                                           \* ScreenAudio
    Capacity, MaxTs, MaxWire,                                   \* Resume
    Place, Grid, MaxLines, MaxCut,                              \* Records
    Deadman, Drive, MaxUp, MaxDown,                             \* Bench
    MaxStart,                                                   \* FaultInject
    Exported, Importer, Annotator, MaxBox, MaxDrawn,            \* TestSet
    FrameCount, Width, Height, MaxConf, Num, Den, MaxGts, MaxPreds,
    Scale                                                       \* DetectorMatch

VARIABLES
    part,
    configured, failures, lockLeft, verdict, guesses,
    p1, holder, talker, task, reply, spent, stale, held,
    plugged, source, users, track, retryIn, leaked,
    mic, since, loop, net, queue, fifo, refilling, recv, due, stall, sent, credit, rough,
    slots, head, count, sending, linked, asked, wire, seen, clock, made,
    gps, layout, rowDue, file, torn, cuts, truth,
    tool, pc, wait, quit, started, panic, row, up, down, latest, session, emulated,
    fw, age, tripped, obeyed, slow,
    pid, starts, answering, dying, fault, step, got, left, old, downSeen, outcome, before,
    boxes, indexRows, runRows, predRows, gtRows, known, work, drawing,
    stage, gts, preds, todo, results, pairs, points, ap

Gate == INSTANCE KeyGate
Follow == INSTANCE TalkFollow
Cap == INSTANCE Capture
Audio == INSTANCE ScreenAudio
Back == INSTANCE Resume
Log == INSTANCE Records
Rig == INSTANCE Bench
Faults == INSTANCE FaultInject
Sheets == INSTANCE TestSet
Boxed == INSTANCE DetectorMatch

ASSUME PartsAssumption ==
    /\ Gate!GateAssumption
    /\ Follow!FollowAssumption
    /\ Cap!CaptureAssumption
    /\ Audio!AudioAssumption
    /\ Back!ResumeAssumption
    /\ Log!RecordsAssumption
    /\ Rig!BenchAssumption
    /\ Faults!FaultAssumption
    /\ Sheets!TestSetAssumption
    /\ Boxed!MatchAssumption

gateVars == <<configured, failures, lockLeft, verdict, guesses>>
followVars == <<p1, holder, talker, task, reply, spent, stale, held>>
captureVars == <<plugged, source, users, track, retryIn, leaked>>
audioVars == <<mic, since, loop, net, queue, fifo, refilling, recv, due, stall, sent, credit, rough>>
resumeVars == <<slots, head, count, sending, linked, asked, wire, seen, clock, made>>
recordsVars == <<gps, layout, rowDue, file, torn, cuts, truth>>
benchVars == <<tool, pc, wait, quit, started, panic, row, up, down, latest, session,
             emulated, fw, age, tripped, obeyed, slow>>
testsetVars == <<boxes, indexRows, runRows, predRows, gtRows, known, work, drawing>>
faultVars == <<pid, starts, answering, dying, fault, step, got, left, old, downSeen,
               outcome, before>>
matchVars == <<stage, gts, preds, todo, results, pairs, points, ap>>

vars == <<part, gateVars, followVars, captureVars, audioVars, resumeVars,
          recordsVars, benchVars, faultVars, testsetVars, matchVars>>

Part == {"gate", "follow", "capture", "audio", "resume", "records", "bench", "fault",
         "testset", "match"}

Init ==
    /\ part \in Part
    /\ Gate!Init /\ Follow!Init /\ Cap!Init /\ Audio!Init
    /\ Back!Init /\ Log!Init /\ Rig!Init
    /\ Faults!Init /\ Sheets!Init /\ Boxed!Init
    /\ part # "gate" => ~configured
    /\ part # "capture" => \A d \in DOMAIN plugged : plugged[d]
    /\ part # "records" => layout = 1
    /\ part # "bench" => tool = "bench" /\ emulated
    /\ part # "fault" => fault = "p1"
    /\ part # "testset" => \A f \in Exported : boxes[f] = 0

OnlyGate ==
    /\ part = "gate"
    /\ UNCHANGED <<part, followVars, captureVars, audioVars, resumeVars,
                   recordsVars, benchVars, faultVars, testsetVars, matchVars>>

OnlyFollow ==
    /\ part = "follow"
    /\ UNCHANGED <<part, gateVars, captureVars, audioVars, resumeVars,
                   recordsVars, benchVars, faultVars, testsetVars, matchVars>>

OnlyCap ==
    /\ part = "capture"
    /\ UNCHANGED <<part, gateVars, followVars, audioVars, resumeVars,
                   recordsVars, benchVars, faultVars, testsetVars, matchVars>>

OnlyAudio ==
    /\ part = "audio"
    /\ UNCHANGED <<part, gateVars, followVars, captureVars, resumeVars,
                   recordsVars, benchVars, faultVars, testsetVars, matchVars>>

OnlyBack ==
    /\ part = "resume"
    /\ UNCHANGED <<part, gateVars, followVars, captureVars, audioVars,
                   recordsVars, benchVars, faultVars, testsetVars, matchVars>>

OnlyLog ==
    /\ part = "records"
    /\ UNCHANGED <<part, gateVars, followVars, captureVars, audioVars,
                   resumeVars, benchVars, faultVars, testsetVars, matchVars>>

OnlyRig ==
    /\ part = "bench"
    /\ UNCHANGED <<part, gateVars, followVars, captureVars, audioVars,
                   resumeVars, recordsVars, faultVars, testsetVars, matchVars>>

OnlyFaults ==
    /\ part = "fault"
    /\ UNCHANGED <<part, gateVars, followVars, captureVars, audioVars,
                   resumeVars, recordsVars, benchVars, testsetVars, matchVars>>

OnlySheets ==
    /\ part = "testset"
    /\ UNCHANGED <<part, gateVars, followVars, captureVars, audioVars,
                   resumeVars, recordsVars, benchVars, faultVars, matchVars>>

OnlyBoxed ==
    /\ part = "match"
    /\ UNCHANGED <<part, gateVars, followVars, captureVars, audioVars,
                   resumeVars, recordsVars, benchVars, faultVars, testsetVars>>

Next ==
    \/ OnlyGate /\ Gate!Next
    \/ OnlyFollow /\ Follow!Next
    \/ OnlyCap /\ Cap!Next
    \/ OnlyAudio /\ Audio!Next
    \/ OnlyBack /\ Back!Next
    \/ OnlyLog /\ Log!Next
    \/ OnlyRig /\ Rig!Next
    \/ OnlyFaults /\ Faults!Next
    \/ OnlySheets /\ Sheets!Next
    \/ OnlyBoxed /\ Boxed!Next

Spec == Init /\ [][Next]_vars

FairSpec ==
    /\ Spec
    /\ WF_vars(OnlyCap /\ Cap!Tick)
    /\ \A v \in Viewer : WF_vars(OnlyCap /\ Cap!Hear(v))

-----------------------------------------------------------------------------
\* Guessing the controller key is slow from every host (access.py).
GuessBound == Gate!GuessBound

\* P2 tells hosts the slot was theirs a poll and a timeout ago, and in the order
\* it went from one to the other (follow_controller).
FollowsSlot == Follow!FollowsSlot

\* Whoever holds the slot long enough may talk (follow_controller).
HolderTalks == Follow!HolderTalks

\* A device is open while somebody uses it (SharedCapture).
OpenWhileUsed == Cap!OpenWhileUsed

\* A microphone that was lost comes back to those who listen
\* (ResilientAudioTrack).
MicReturns == Cap!MicReturns

\* The screen's sound comes neither in bursts nor in pieces, and the loop waits
\* for the last words (ScreenAudioTrack).
SoundWhole == Audio!SoundWhole

\* A resumed dashboard is told of every frame it missed, or of the gap
\* (_handle_resume).
BatchWhole == Back!BatchWhole

\* Telemetry never goes back in time on a dashboard (useControlSocket).
SeenForward == Back!SeenForward

\* Fixes read out of the telemetry log are those that were written
\* (telemetry_log.py, gpsdrift.py, section5_stats.py).
FixesRight == Log!FixesRight

\* The wheels turn in a trial only (bench_motor.py, wslatency.py).
MotionIsTrial == Rig!MotionIsTrial

\* A latency that is recorded is that of the command it names (wslatency.py).
RowsReal == Rig!RowsReal

\* A recovery that is recorded is one (faultinject.py).
RecoveryReal == Faults!RecoveryReal

\* What is scored was annotated and run, however the imports went
\* (detector_import.py, detector_data.py).
Scored == Sheets!Scored

\* The two matchings of the detector's scoring agree (detector_iou.py).
SameMatching == Boxed!SameMatching
=============================================================================
