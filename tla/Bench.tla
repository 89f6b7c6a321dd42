-------------------------------- MODULE Bench --------------------------------
(***************************************************************************)
(* The programs that drive the robot to measure it: bench_motor.py with    *)
(* its dry run and its trials, and wslatency.py with its motor and         *)
(* dead-man probes.  Each holds the controller session, sends heartbeats,  *)
(* drives, stops, and reads what happened off telemetry that took the way  *)
(* from the board through P1, or off P1's log.  The board is the real one, *)
(* as far as these programs can tell, or the emulated one of               *)
(* mock_hardware.py.                                                       *)
(*                                                                         *)
(* A tick is P1's telemetry period.  Both directions of the socket keep    *)
(* their order and delay as they like.                                     *)
(***************************************************************************)
EXTENDS Integers, Sequences, Functions

CONSTANTS
    Deadman,    \* DEADMAN_MS, in ticks
    Drive,      \* applied_duration, drive_s
    MaxUp,      \* bound on the commands under way
    MaxDown     \* bound on the frames under way

BenchAssumption ==
    {Deadman, Drive, MaxUp, MaxDown} \subseteq Nat \ {0}

VARIABLES
    tool,       \* "dry", "bench", "motor" or "deadman": the program that runs
    pc,         \* where it is
    wait,       \* ticks it has been there
    quit,       \* stop_requested: SIGINT or SIGTERM
    started,    \* a DRIVING frame was seen in this trial
    panic,      \* PanicLog: when the PANIC line came that is to be read, on
                \* the clock of `wait`; None without one
    row,        \* the values recorded last, or Empty
    up,         \* commands on their way to the board
    down,       \* telemetry on its way to the program
    latest,     \* P1's _latest_frame
    session,    \* "open"; "cut": the program is gone, P1 has not noticed; "closed"
    emulated,   \* the board is MockArduino
    fw,         \* its mode: "ARMED", "DRIVING", "STOPPED"
    age,        \* ticks since a command fed the dead-man timer
    tripped,    \* _deadman_tripped
    obeyed,     \* history: the board has executed the program's last command
    slow        \* history: the dead-man tripped out of turn, or a frame was
                \* given up

program == <<tool, pc, wait, quit, started, row>>
read == <<panic, down>>
board == <<emulated, fw, age, tripped>>
vars == <<program, read, up, latest, session, board, obeyed, slow>>

None == -1
Empty == [ms |-> None, panic |-> None, real |-> TRUE]

Frame == [fw |-> fw, obeyed |-> obeyed]

Init ==
    /\ tool \in {"dry", "bench", "motor", "deadman"}
    /\ pc = "rest" /\ wait = 0 /\ quit = FALSE
    /\ started = FALSE /\ panic = None /\ row = Empty
    /\ up = <<>> /\ down = <<>> /\ session = "open"
    /\ emulated \in BOOLEAN
    /\ fw = "ARMED" /\ age = Deadman + 1 /\ tripped = TRUE
    /\ obeyed = TRUE /\ slow = FALSE
    /\ latest = Frame

-----------------------------------------------------------------------------
\* The board

\* A mutant of Obey: a stop leaves the motors as they are.
ObeyStopLate(c) ==
    /\ fw' = IF c = "drive" THEN "DRIVING" ELSE fw
    /\ age' = 0 /\ tripped' = FALSE

\* Every command feeds the timer (_arm), then acts (_execute).  The real board
\* refuses motion while the fault of a dead-man trip is latched.
Obey(c) ==
    /\ fw' = CASE c = "drive" -> IF fw = "STOPPED" THEN fw ELSE "DRIVING"
               [] c = "stop"  -> IF fw = "STOPPED" THEN fw ELSE "ARMED"
               [] OTHER       -> fw
    /\ age' = 0 /\ tripped' = FALSE

\* _handle_line.  P1 forwards a command of the open session at once.
Receive ==
    /\ up # <<>> /\ up' = Tail(up)
    /\ Obey(Head(up))
    /\ obeyed' = (obeyed \/ Range(up') \subseteq {"beat"})
    /\ UNCHANGED <<program, read, latest, session, emulated, slow>>

\* The fault clears one loop after a command has fed the timer.
Recover ==
    /\ fw = "STOPPED" /\ ~tripped
    /\ fw' = "ARMED"
    /\ UNCHANGED <<program, read, up, latest, session, emulated, age, tripped,
                   obeyed, slow>>

\* _check_deadman; on the real board a trip is a PANIC, which reads as STOPPED
\* and is logged at once.
Checked(a) ==
    IF a >= Deadman /\ ~tripped
    THEN /\ tripped' = TRUE
         /\ fw' = IF emulated THEN "ARMED" ELSE "STOPPED"
         /\ panic' = IF ~emulated /\ pc \in {"hush", "silent"} /\ panic = None
                   THEN wait' ELSE panic
         /\ slow' = (slow \/ ~obeyed \/ pc # "silent")
    ELSE UNCHANGED <<tripped, fw, panic, slow>>

\* P1 sees that the session is gone: the controller's leaving stops the robot.
Notice ==
    /\ session = "cut"
    /\ session' = "closed"
    /\ up' = <<>> /\ down' = <<>>
    /\ fw' = IF fw = "STOPPED" THEN fw ELSE "ARMED"
    /\ age' = 0 /\ tripped' = FALSE
    /\ UNCHANGED <<program, panic, latest, emulated, obeyed, slow>>

\* The board's frame may reach P1; P1's snapshot goes onto the socket, unless
\* that is full or ends with the same.
Tick ==
    /\ age' = IF age <= Deadman THEN age + 1 ELSE age
    /\ wait' = IF pc \in {"drive", "silent"} /\ wait <= Deadman + Drive THEN wait + 1 ELSE wait
    /\ Checked(age')
    /\ latest' \in {latest, Frame}
    /\ down' = IF session = "open" /\ Len(down) < MaxDown
                  /\ (down # <<>> => down[Len(down)] # latest)
               THEN Append(down, latest) ELSE down
    /\ UNCHANGED <<tool, pc, quit, started, row, up, session, emulated, obeyed>>

-----------------------------------------------------------------------------
\* The program

Room == session = "open" /\ Len(up) < MaxUp
Send(c) == up' = Append(up, c)
Go(there) == pc' = there /\ wait' = 0
Alone == UNCHANGED <<latest, session, board>>

\* drain throws away what has come in, which may be all or some that is there.
Drain == \E n \in 0 .. Len(down) : down' = SubSeq(down, n + 1, Len(down))

\* heartbeat, _heartbeat.  A beat right behind another adds nothing.
Beat ==
    /\ ~quit /\ tool # "dry" /\ pc \notin {"hush", "silent", "end"} /\ Room
    /\ (up # <<>> => up[Len(up)] # "beat")
    /\ Send("beat")
    /\ Alone /\ UNCHANGED <<program, read, obeyed, slow>>

\* bench_motor goes right ahead.
BeginTrial ==
    /\ pc = "rest" /\ tool = "bench" /\ ~quit /\ Room
    /\ row' = Empty /\ started' = FALSE
    /\ Go("drive") /\ Send("drive")
    /\ obeyed' = FALSE
    /\ Alone /\ UNCHANGED <<tool, quit, read, slow>>

\* settle_ready
Settle ==
    /\ pc = "rest" /\ tool \in {"motor", "deadman"} /\ Room
    /\ row' = Empty /\ started' = FALSE
    /\ Go("settle") /\ Send("stop") /\ Drain
    /\ obeyed' = FALSE
    /\ Alone /\ UNCHANGED <<tool, quit, panic, slow>>

\* A mutant of Seen: any frame will do.
SeenAny(mode) == down # <<>> /\ down' = Tail(down)

\* await_frame: the first frame with that mode.
Seen(mode) == down # <<>> /\ down' = Tail(down) /\ Head(down).fw = mode

Settled ==
    /\ pc = "settle" /\ Room
    /\ Seen("ARMED")
    /\ Go("drive") /\ Send("drive")
    /\ obeyed' = FALSE
    /\ Alone /\ UNCHANGED <<tool, quit, started, panic, row, slow>>

\* A frame that says something else is passed over.
Skip ==
    /\ down # <<>> /\ down' = Tail(down)
    /\ CASE pc = "settle"  -> Head(down).fw # "ARMED"
         [] pc = "drive"   -> Head(down).fw # "DRIVING"
         [] pc = "stopped" -> Head(down).fw # "ARMED"
         [] pc = "silent"  -> Head(down).fw # "STOPPED"
         [] OTHER          -> TRUE
    /\ Alone /\ UNCHANGED <<program, panic, up, obeyed, slow>>

\* The motors run: bench_motor sends the command again and again.
Refresh ==
    /\ tool = "bench" /\ pc = "drive" /\ wait < Drive /\ ~quit /\ Room
    /\ Send("drive")
    /\ Alone /\ UNCHANGED <<program, read, obeyed, slow>>

Started ==
    /\ pc = "drive" /\ ~started
    /\ Seen("DRIVING")
    /\ started' = TRUE
    /\ Alone /\ UNCHANGED <<tool, pc, wait, quit, panic, row, up, obeyed, slow>>

\* The window is over, or somebody asks to stop: send_stop, in a finally.
StopTrial ==
    /\ pc = "drive" /\ tool = "bench" /\ Room
    /\ wait >= Drive \/ quit
    /\ Go("stopped") /\ Send("stop")
    /\ obeyed' = FALSE
    /\ Alone /\ UNCHANGED <<tool, quit, started, row, read, slow>>

\* probe_motor goes on without the start it waited for.
StopProbe ==
    /\ pc = "drive" /\ tool = "motor" /\ wait >= Drive /\ Room
    /\ Go("stopped") /\ Send("stop") /\ Drain
    /\ obeyed' = FALSE
    /\ slow' = (slow \/ ~started)
    /\ Alone /\ UNCHANGED <<tool, quit, started, panic, row>>

\* probe_deadman: no more heartbeats; PanicLog.mark drops what is logged.
FallSilent ==
    /\ pc = "drive" /\ tool = "deadman" /\ started
    /\ Go("hush")
    /\ panic' = None
    /\ Alone /\ UNCHANGED <<tool, quit, started, row, up, down, obeyed, slow>>

\* One more command, then nothing.
LastDrive ==
    /\ pc = "hush" /\ Room
    /\ Go("silent") /\ Send("drive") /\ Drain
    /\ obeyed' = FALSE
    /\ Alone /\ UNCHANGED <<tool, quit, started, panic, row, slow>>

\* What is timed: from the sending of the last command to the frame.
RecordStop ==
    /\ pc = "stopped" /\ Seen("ARMED")
    /\ row' = [ms |-> 0, panic |-> None, real |-> Head(down).obeyed]
    /\ Go("rest")
    /\ Alone /\ UNCHANGED <<tool, quit, started, panic, up, obeyed, slow>>

\* await_panic is waited for after the frame.
RecordTrip ==
    /\ pc = "silent" /\ Seen("STOPPED")
    /\ row' = [ms |-> wait, panic |-> panic, real |-> Head(down).obeyed]
    /\ panic' = None
    /\ Go("rest")
    /\ Alone /\ UNCHANGED <<tool, quit, started, up, obeyed, slow>>

\* A frame that never comes is given up; the value stays empty.
GiveUp ==
    /\ \/ pc \in {"settle", "stopped"}
       \/ pc = "drive" /\ tool = "deadman"
       \/ pc = "silent" /\ wait > Deadman
    /\ row' = Empty /\ slow' = TRUE /\ panic' = None
    /\ Go("rest")
    /\ Alone /\ UNCHANGED <<tool, quit, started, up, down, obeyed>>

Interrupt ==
    /\ tool = "bench" /\ pc # "end" /\ ~quit
    /\ quit' = TRUE
    /\ Alone /\ UNCHANGED <<tool, pc, wait, started, row, read, up, obeyed, slow>>

Finish(tools) ==
    /\ pc = "rest" /\ tool \in tools /\ Room
    /\ Go("end") /\ Send("stop")
    /\ obeyed' = FALSE
    /\ Alone /\ UNCHANGED <<tool, quit, started, row, slow>>

\* run_dry looks on for a while and sends nothing but a stop.
EndDry == Finish({"dry"}) /\ UNCHANGED read

\* The outer finally of run_live.
EndBench == Finish({"bench"}) /\ UNCHANGED read

\* run: settle_ready once more.
EndProbes == Finish({"motor", "deadman"}) /\ Drain /\ UNCHANGED panic

\* The program or its network dies: of what it sent some may arrive.
Cut ==
    /\ session = "open"
    /\ session' = "cut" /\ pc' = "end"
    /\ \E n \in 0 .. Len(up) : up' = SubSeq(up, 1, n)
    /\ down' = <<>>
    /\ UNCHANGED <<tool, wait, quit, started, panic, row, latest, board, obeyed, slow>>

Next ==
    \/ Receive \/ Recover \/ Notice \/ Tick
    \/ Beat \/ BeginTrial \/ Settle \/ Settled \/ Skip \/ Refresh \/ Started
    \/ StopTrial \/ StopProbe \/ FallSilent \/ LastDrive
    \/ RecordStop \/ RecordTrip \/ GiveUp \/ Interrupt
    \/ EndDry \/ EndBench \/ EndProbes \/ Cut

Spec == Init /\ [][Next]_vars

-----------------------------------------------------------------------------
\* The wheels turn only while a trial drives them, its stop is on the way, or,
\* when the session is cut, until the dead-man timer runs out; the dead-man
\* probe, which leaves the stop to that timer, sees to it at its end at the
\* latest (run_live's finally blocks, probe_motor, settle_ready).
MotionIsTrial ==
    fw = "DRIVING" =>
        \/ pc = "drive"
        \/ tool = "deadman" /\ pc # "end"
        \/ "stop" \in Range(up)
        \/ session = "cut" /\ age < Deadman

\* What a probe records is what it names: a stop time ends at a frame the board
\* made after it had executed the stop; a dead-man time is no shorter than the
\* timer, and the time taken from the log lies between the two - as long as the
\* start was seen, no frame was given up before, and the link was never so slow
\* that the timer ran out by itself (await_frame, settle_ready, drain, mark).
RowsReal ==
    row # Empty /\ started /\ ~slow =>
        /\ tool = "motor" => row.real
        /\ tool = "deadman" => Deadman <= row.panic /\ row.panic <= row.ms
=============================================================================
