# Verification of the rescue robot's control and talk-to-victim software

TLA+ models of this repository's program, TLC configurations that check them on
small instances, and TLAPS proofs of theorems about them for all values of the
constants. Every definition is translated from the source under `src/`; a
comment above it names the function it stands for, and `PROJECT.json` ("map")
gives the lines.

## The system

The robot carries an Arduino and a Raspberry Pi. Dashboards (browsers) drive it.

| Part | Source | State it keeps | Operations |
|------|--------|----------------|------------|
| Arduino firmware | `arduino/` | mode and fault, stamp of the last line, targets and outputs of the motors, task stamps | handle a line, motor service, safety task, reset |
| P1 control server | `pi/p1_control/main.py`, `websocket_hub.py`, `safety.py` | registered clients, the controller slot, roles, sequence numbers | connect, hello (claim, release), commands, close |
| P1 serial link | `pi/p1_control/serial_bridge.py` | open port, handshake, reader thread | open (STOP three times), send, close (STOP) |
| Key gate | `pi/common/access.py` | failures and lockouts per host | check |
| P1 telemetry | `ring_buffer.py`, `telemetry_log.py`, `gps_reader.py`, `main.py` | the last frames, the fix, the log and its layout | snapshot and broadcast, resume, append a row, rotate |
| P1 victim log | `victim_log.py` | list of marks and its file | add, delete, archive, list |
| P2 talk-to-victim hub | `pi/p2_media/talkback.py`, `signaling.py`, `main.py` | the floor, text, media, question and timer, voice clip, peers, the screen | messages of operators and of the screen, connections, P1's controller |
| P2 media | `media.py` | shared captures and their subscribers | subscribe, lose, close, reopen |
| Screen sound | `talkback.py` (`ScreenAudioTrack`) | queue, buffer, packet clock | send a packet, take frames, press and let go |
| Robot Screen page | `pi/p2_media/screen/index.html` | what the victim sees, its connection | messages of P2, taps, reconnect |
| P3 watchdog | `pi/p3_watchdog/`, `p1_control/lockfile.py` | children, misses, back-off, lock files | probe, restart, kill |
| Dashboard | `dashboard/src/` | role, floor, question, links and their retries | user input, reconnect |
| Evaluation tools | `tools/eval/` | the trial under way, CSV sheets | drive, stop, probe; kill and wait for recovery; import, annotate, score; read the log |
| Emulated board | `pi/common/mock_hardware.py` | mode, dead-man | handle a line, check the timer |

How they interact. Dashboards hold a WebSocket to P1 and a WebRTC connection to
P2. P1 writes text lines to the Arduino; the Arduino stops the motors by itself
when lines stay away for two seconds (the dead-man). P1 gives one dashboard the
controller slot; P2 asks P1 every second which host that is and lets only that
host's keyed sessions use the robot's screen and speaker, one of them at a time
(the floor). The Robot Screen page is a WebRTC peer of P2 like the dashboards.
P3 starts P1 and P2 and restarts the one that stops answering.

What is hard in it:

- the firmware's timing: a cooperative loop whose iterations may be late, a
  clock that wraps, a ramp between targets and outputs, faults that clear by
  themselves;
- P1's handlers suspend at sends in the middle of a takeover, when others may
  claim, release or leave;
- motion outlives messages: who is responsible for a robot that is moving;
- P2's hub is driven from five sides (operators, tracks, timer, screen, P1) and
  must keep what everybody was told in step with what is so;
- connections are replaced before the old one is known to be dead;
- processes die and are started again with their memory gone;
- P3 supervises both children on one event loop, which its own kill() blocks;
- P2 learns of P1's slot by asking, so what it goes by is always of the past;
- the evaluation tools time the robot from the outside, off frames, logs and
  health pages that may be of before, and leave moving wheels or half-written
  sheets behind when they die.

What makes each part correct is stated as the properties below; `PROJECT.json`
("hazards") lists the places in the code where they could go wrong.

## Modules

| Module | What it is |
|--------|------------|
| `Firmware` | the Arduino: setup, loop, parser, state machine, motors, dead-man |
| `FirmwareProofs` | theorems about `Firmware` |
| `ControlHub` | P1: connections, slot, takeovers, commands, sequence numbers, the port |
| `ControlHubMC` | three clients, of which one numbers its commands |
| `ControlHubProofs` | theorems about `ControlHub` |
| `KeyGate` | the key check and its lockout |
| `ScreenHub` | P2: floor, media, text, frames, question and timer, screen connections, broadcasts |
| `ScreenHubMC` | sessions on hosts, symmetry |
| `ScreenHubProofs` | theorems about `ScreenHub` |
| `RobotScreen` | `ScreenHub` composed with the page at the other end of its channel |
| `RobotScreenMC` | one host, symmetry |
| `RobotScreenProofs` | theorems about `RobotScreen`: it implements `ScreenHub`; picture, badge, text and question |
| `Supervisor` | P3: a task per child, the children's processes, systemd and the process lock around them |
| `SupervisorMC` | symmetry |
| `SupervisorProofs` | theorems about `Supervisor`: the stop, and its times |
| `VoiceLoop` | the voice message: P2's clip and loop, its uploads, the dashboards' panels and the channels between |
| `VoiceLoopMC` | two dashboards, each on its host; symmetry |
| `VoiceLoopProofs` | theorems about `VoiceLoop` |
| `VictimLog` | victim marks: P1's file, its handlers and broadcasts, the dashboards' lists |
| `VictimLogMC` | symmetry |
| `VictimLogProofs` | theorems about `VictimLog` |
| `ControllerTalks` | abstract: only the slot's holder may use the screen, a former one for `Lag` more at most |
| `TalkFollow` | P2's poll of P1's slot; implements `ControllerTalks` |
| `Capture` | camera and microphone and the viewers that share them |
| `ScreenAudio` | the sound of the Robot Screen |
| `Resume` | P1's ring buffer and telemetry loop, a browser that comes back |
| `Records` | the telemetry log, the GPS state, the tools that read fixes back |
| `Bench` | the programs that drive the robot to measure it, and the real or emulated board |
| `FaultInject` | the fault injector beside processes that die and start |
| `TestSet` | the detector's sheets: import, annotation, loader |
| `DetectorMatch` | the detector's scoring: matching twice, average precision |
| `Parts` | `KeyGate` and the nine above from `TalkFollow` on, side by side for one run |
| `PartsProofs` | theorems about the ten, the refinement of `ControllerTalks` among them |

### Firmware

The firmware is one thread; `pc` says where `loop()` stands. One iteration reads
the clock, handles the lines that arrived (`HandleMotion`, `RejectMotion`,
`HandleStop`, `HandleOther`, `RefuseLine`), and lets the scheduler consider
`taskMotorService` and `taskSafety`. `Tick` may come anywhere, at most `LoopMax`
times an iteration. A line is an operation and an argument (in range, out of
range or malformed); the text is abstracted. `clock` counts modulo `ClockMod`,
and every comparison is the unsigned difference the code computes. `silence` is
a history variable: the true time since the last accepted line.

### ControlHub

A handler is a task that interleaves with others only where it awaits: at the
sends of `_handle_hello`. `pc[c]` is "idle", "notify" or "stop" accordingly.
Between `Claim` and `TakeoverStop` other clients may do anything, and the
demoted client may claim the slot back. The robot is abstracted to history
variables: `driver` is who set it moving, `keeper` whose line fed its dead-man
last. `port` is FALSE once writes fail, which the code swallows. `Crash` loses
everything but the robot's motion; `Start` opens the port, which resets the
board and sends three STOPs.

### KeyGate

`check` with a missing, right or wrong key; time is kept as ages of failures and
as remaining lockout. `guesses` is a history variable.

### ScreenHub

Every handler of the hub runs to its end without an await, so each is one
action; the order of handlers is free. `ReleaseFloor` and `EndQuestion` are the
helpers the handlers share, with the sessions that are left as parameters, as in
the code. `told` and `seen` are what a dashboard holds once it has read
everything sent to it; `toScreen` is what a step puts on the screen's channel.
A frame is its sender's name; a text is a member of a set.

### RobotScreen

`HubStep`, `Attach`, `Detach`, `HubRestart` and `TapArrives` are steps of
`ScreenHub` with the channel added; `Deliver`, `Tap`, `HideAnswered`,
`PageOffline`, `PageReload` and `Connect` are the page's. `wire` and `taps` carry
messages in order over the connection the page has and the one P2 answered;
either end may lose it first. What is on a connection that is over is lost.

### Supervisor

`child[c]` is what P3 keeps of a child (`state`, `misses`, `since` its last
probe), where its task stands in `run_supervised` (`pc`, `wait`) and its process
(`proc`). A task is asleep in a poll or in the cooldown, or awaits a health
check; each stretch between two awaits is one action (`Spawn`, `CoolDown`,
`NoticeExit`, `Probe`, `Healthy`, `Unhealthy`), and ends in `Again`, which is the
test of `stop_event` at the head of the loop. `busy` is how long `proc.wait`
in `kill` still blocks the event loop: any time up to `KillWait`, or that time in
full when SIGKILL does not end the process. Both tasks stand still meanwhile,
the killing one starts its poll only behind it, and a sibling's answer may lose
to its timeout. `p3` is "down", "up", "stopping"
(`stop_event` is set), or "draining" (`main` has stopped the children and waits
for the tasks). A process that SIGKILL does not end at once is "stuck", and
`lingering` once P3 has forgotten it; it holds lock and port, so a successor does
not serve. `P3Dies` is a crash of P3, after which systemd kills the control
group. Exit codes change only the log and are left out. `age` and `well` are
history variables.

### VoiceLoop

`hub` is P2's `voice_pcm` with its id and whether it plays; `jobs` are the
uploads that a thread decodes. `upload_voice` is split at its await:
`UploadArrives` checks key and controller, `UploadStored` or `UploadRefused`
comes any time later, also when another host has the slot by then or the
dashboard has given up (`UploadLost`). `dash[d]` is the state of
`useVoiceMessage` and of the link it uses, `request[d]` its POST, `down` and
`up` the channel. A status is a whole `voice_status`, so a panel holds the last
one it read. `OnStop` stands for the recorder from its start to the recording:
it may come at any time, for the recorder ends by itself too. The panel's
buttons also depend on P1's role; that is left free, since P2 checks each
command again. `Restart` is a new P2, whose ids begin at 1 again, while a
dashboard keeps its own. `life` and `inLife` are history variables that say
which P2 gave an id.

### VictimLog

`file` is `victims.jsonl` as a sequence of lines: a line holds a whole mark or,
as 0, something that cannot be read, and only the last line can lack its newline
(`TornEnd`). The methods of `VictimLog` hold a lock on the event loop and nothing
awaits between the file operation and the start of the broadcast, so each of
`AddVictim`, `DeleteVictim` and `NewMission` is one action: file, broadcast and
answer. `AddCut` and `DeleteCut` are the writes that a full disk or the end of
the process cuts short; `apart` keeps the marks these have lost, spoilt or left
untold. `asks` are the requests: the answer goes by HTTP, the broadcast by the
socket, so the two come in any order, and either may be lost. `fetch[d]` is
the load of the list when a socket opens; its answer replaces `list[d]`
(`SetMarks`), also after the socket has closed, until the next one is there.
`late` of a request or a load, and `loaded`, are history: whether something P1
did afterwards has overtaken the answer. Keys, notes, positions and snapshots
are left out; an unkeyed request is one that fails. A socket that is dead at one
end only is treated as closed.

### TalkFollow and ControllerTalks

`ScreenHub` lets P1's controller change at any time (`SetControllerHost`);
`TalkFollow` says when it does. `task` is where `follow_controller` stands:
"asking" (the request runs in a thread; `reply` is what it will return) or
"asleep". `Answer` reads the slot at one instant, `Follow` and `Fail` are the
rest of the loop's body. P1 may die, stall and come back, P2 may start again, at
any point. `stale` and `held` are history: how long ago a host had the slot, and
how long P1 has served with its slot unchanged. `ControllerTalks` keeps only
`holder`, `talker` and `stale`: who may act had the slot at most `Lag` ago.
`FollowsSlot` is that specification as a property; `Lag` is a poll and two
timeouts (5 s with the code's constants), for an answer read just before the slot
passes on may arrive a timeout later and stands until the next request has failed.

### Capture

`source[d]` and `users[d]` are `SharedCapture`; a viewer's track of a device is
a proxy of the present source ("on") or of one that was replaced ("old"), the
fallback, or ended. `Join` is `negotiate`, which makes both tracks first;
`JoinFails` is one whose offer cannot be answered after that, which leaves its
proxy behind (`leaked`). `MicLost`, `MicOpens` and `MicFails` are
`ResilientAudioTrack._next_frame` and `_try_open`. `Unplug`, `Glitch` and `Plug`
are the devices.

### ScreenAudio

Time goes by 20 ms frames, which are counted: on their way (`net`), in the hub's
queue (`queue`), in the track's buffer (`fifo`). aiortc's sender calls `recv` for
each packet: `Call` is a call that finds the packet due, tests how late it is
(`DueNow`) and sends it at once, `Sleep` one that comes early, and `Wake` the end
of that sleep, which sends however late it is. `Send` is what both do
(`_next_frame`), `Arrive` is `_pump`. All run on P2's event loop; `stall` is how
long it has stood still with work waiting, which may be before the call or in
the sleep. `credit` and `rough` are history: how far packets are ahead of a
steady stream, and the longest hold-up since live voice is played.

### Resume

A frame is its `server_ts`. `slots`, `head` and `count` are the ring buffer;
`MakeSnapshot` and `SendSnapshot` are the two sides of the broadcast's await in
`_broadcast_loop`, between which `HandleResume` may answer. `wire` is the
client's socket, `seen` the browser's `lastServerTsRef`, `made` history.

### Records

A line of the log is a sequence of cells, a cell what a reader can tell of its
text. `RowComes` sees to the header, `WriteRow` appends; `Rotate`
(copytruncate), `PowerCut` (the last line torn) and `Upgrade` (the next of the
four layouts the file has had) come in between, and `Publish` is the GPS reader.
The two readers are operators on the file: `DriftFixes` (`row_mapper`, by number
of cells) and `Section5Fixes` (by place). `truth` is history: the fix that went
into each line.

### Bench

`tool` is the program that runs; `pc` where it is in a trial: at rest, settling,
driving, waiting for the stop, or falling silent for the dead-man. `up` and
`down` are the two directions of its session, `latest` is what P1 repeats in its
snapshots. The board (`fw`, `age`, `tripped`) is the emulated one or the real
one as far as these programs see it; `Firmware` has the real one in detail.
`Interrupt` asks the program to stop, `Cut` ends it or its network, `Notice` is
P1 seeing that. `obeyed` and `slow` are history variables.

### FaultInject

The injector's loop (`ReadPid`, then an `Ask` per health page, then `Judge`)
against processes that are killed, die late, are cleared by systemd and started
again by it or by P3. `before` is history: the pids when the signal was sent.

### TestSet and DetectorMatch

`TestSet`: four append-only sheets as sequences of rows. An import appends the
row of a frame, of its run and of each box, in three kinds of steps, and may die
between any two; another may run beside it. An annotator decides on what it has
read and appends afterwards. The loader is operators on the sheets.

`DetectorMatch`: frames with boxes are loaded; `Count` begins the loop of
`match_frame`, frame by frame, and `Rank` that of `average_precision`, which
matches once more along one ranking. One prediction is one step of either,
`MatchFrame` or `Walk`, and `todo` is what the loop has still to come to. A sorted
list is gone through by taking what is `Ahead` of all that is left. Overlaps are
compared by cross products and precision is counted in parts of `Scale`, which
every possible number of predictions divides: as the code's floats would be if
they were exact. `Integrate` is the area, `AreaTo` its sum up to a point.

### Parts

Ten modules that share no state, side by side: the first state names the part
that moves, and the others keep one initial state. So their state spaces add up
and do not multiply. Each property is that of the module.

## What the runs show

| Run | Bounds | Shows |
|-----|--------|-------|
| `Firmware` | PWM 2, ramp 2, window 3, iteration 1, clock 8, silence 6 | a silent line stops the robot within the bound; outputs coast down without a command; a command in force is carried out; a live line ends the fault |
| `ControlHub` | 3 clients, one of which numbers its commands, to 1 | slot and roles agree; motion has an owner and only its owner feeds it; everyone is told its role; numbered commands execute in order; after a takeover the old motion ends |
| `ControlHubStandstill` | 3 clients, no numbers | *violation*: giving the slot back leaves the robot moving under the next controller |
| `Parts` | see below | for each of the ten small modules, what its last section states |
| `ScreenHub` | 3 sessions on 2 hosts, 2 screen connections, 2 questions | the floor is the controller's; nothing outlives it; outcomes, what dashboards know; no question waits forever |
| `RobotScreen` | 1 session, 2 connections, 2 questions, 1 picture, wire 3 | picture and badge on the page follow the hub; the victim can tap the question that waits and no other |
| `RobotScreenReaches` | 1 session, 1 connection, 1 question, 1 text, wire 3 | a text follows the hub; a question reaches the page of a connected screen |
| `Supervisor` | 2 children, poll 1, period 3, timeout 1, 3 misses, cooldown 3, kill 3, start 3 | a sound child is spared; a hung one is killed and a dead one spawned again in time; a stopped P3 leaves no child |
| `VoiceLoop` | 2 dashboards on 2 hosts, 1 recording each, 2 uploads, 2 starts of P2, 1 message each way | every panel knows the loop; what it takes for its own message is one it uploaded to this P2 |
| `VoiceLoopStaleId` | the same | *violation*: after a restart of P2 a panel takes another message for its own recording |
| `VictimLog` | 2 dashboards, symmetric, 3 requests, 2 broadcasts under way to each, 1 cut write | a mark is lost by a cut write or a deletion only, and a deleted one stays deleted; the list of a quiet dashboard that nothing overtook is the file's |
| `VictimListRace` | the same | *violation*: a fetched list or a late answer undoes what came over the socket, for good |

What `Parts` shows, by module:

| Module | Bounds | Shows |
|--------|--------|-------|
| `KeyGate` | 2 hosts, 2 failures, lockout 3 | guesses from a host are bounded over any time, restarts included (`GuessBound`) |
| `TalkFollow` | 2 hosts, poll 2, timeout 3 | who lost the slot may act for `Lag` more at most (`FollowsSlot`); who has it that long may (`HolderTalks`) |
| `Capture` | 2 viewers, retry 2, 1 leak | a device is open exactly while it is used (`OpenWhileUsed`); no session stays silent while the microphone can be opened (`MicReturns`) |
| `ScreenAudio` | packet 1, cushion 2, buffer 4, queue 3, lateness 1, jitter 1, stalls 3 | packets run ahead by two and the lateness allowed at most, no words are cut while hold-ups fit in the cushion, and the loop waits for the last of them (`SoundWhole`) |
| `Resume` | 3 slots, clock to 7, wire 3 | a batch is whole or says it is not (`BatchWhole`); telemetry never goes back (`SeenForward`) |
| `Records` | 2 lines, 4 layouts, 1 cut, 1 place off a grid of 2 | a fix that is read is one that was written (`FixesRight`) |
| `Bench` | dead-man 2, drive 1, 2 commands and 1 frame under way | wheels turn in a trial only, or until the dead-man (`MotionIsTrial`); a recorded time is of what it names (`RowsReal`) |
| `FaultInject` | 2 starts of each process | a recorded recovery is one of everything that was struck (`RecoveryReal`) |
| `TestSet` | 1 frame of up to 2 boxes, 2 imports, 2 annotators, 2 drawn rows | what is scored without a warning is complete (`Scored`) |
| `DetectorMatch` | 2 images of 2 by 1 pixels, 2 annotated and 2 predicted boxes, confidence none or 0, threshold 1/2, `Scale` 2 | both matchings are one, stable, and full precision means what it says (`SameMatching`) |

Why the bounds are enough:

- `Firmware`: the silence explored passes `StopBound`, so the dead-man always
  gets to fire; the clock wraps several times along a behaviour; the ramp step
  does not divide every target, so the last step is a short one. The iteration
  is shorter than the window; the theorems cover every length of it.
- `ControlHub`: a takeover involves a claimant, the demoted client, and one
  that takes over from the claimant meanwhile. The order of numbered commands
  concerns one connection, so one client numbers its own; two numbers, 0 and 1,
  are one in order and one that is not.
- `ScreenHub`: two sessions of one host can pass the controller test together
  and compete for the floor; the third stands for another host. Two screen
  connections are an old one and its replacement; two questions are an old one
  and its replacement.
- `RobotScreen`: three messages are the most one step sends, and the wire
  holds them while more are refused. Sessions do not matter to the page, so one
  is enough. `HubStep` takes steps of keyed sessions only, for the others put
  nothing on the channel.
- `Supervisor`: periods and timeouts keep the order they have in the code (a
  poll and a timeout fit in a period, a kill is no longer than a period), and the
  two time bounds are exact: with a tick less, TLC finds each violated. A kill
  is longer than a poll, as in the code, so that the wait for what was killed is
  what delays a restart most. A child may take a whole period to start, as long
  as the limit of three misses allows in the worst interleaving of the sibling's
  kill; with two it would not.

- `VoiceLoop`: two dashboards are the one that uploads and the one whose upload
  comes between; two uploads overlap, or the first outlives its request and
  meets the second; the second start of P2 gives an id that is already held.
- `VictimLog`: three requests are two marks and a deletion, or a mark, an archive
  and another mark; one of two dashboards makes a request and the other, or the
  same one, is overtaken by it. One cut write is enough for a torn line that the
  next mark meets.

- `KeyGate`: a second host shows that hosts do not count for one another.
- `TalkFollow`: the timeout is longer than the poll, as in the code; ages are
  counted past `Lag`, where nothing more depends on them. Its theorems are for
  every value.
- `Capture`: two viewers are one that is on the new source and one still on the
  old; one leaked proxy is enough to keep the camera open.
- `ScreenAudio`: time is scaled to one packet; a stall of 3 in the sleep
  leaves the next packet late by more than `LateMax`, so the track starts anew,
  and one of 2 leaves it late by less, so three packets go out at once and the
  bound is met exactly. Both are longer than the cushion bears, so both sides of
  the cushion's promise occur. Stalls fill the buffer, so it drops its oldest.
- `Resume`: seven frames wrap a buffer of three twice; frames are 1 or 2 apart.
- `Records`: all four layouts and every cut are there in full; two lines are a
  header, or what stands in its place, and a row of another layout, and a row
  that is glued to a cut one. A full file (`Room`) is read and rotated still.
- `Bench`: a beat or a drive before the stop that is timed is two commands under
  way; P1 repeats its latest frame, so one under way is stale often enough.
- `FaultInject`: two starts are the process that is struck and its successor.
- `TestSet`: the property is about one frame's rows; two imports are one that
  died or is late, and the one that comes beside it.
- `DetectorMatch`: three different boxes fit in such an image, one twice as
  large as the others, so overlaps are none, exactly the threshold, or full;
  ties of confidence, key and overlap all occur.

Named bounds: `LoopMax`, `MaxSilence`, `MaxSeq`, `MaxQuestion`, `MaxWire`,
`StartMax`, `MaxLeak`, `Jitter`, `StallMax`, `MaxTs`, `MaxLines`, `MaxUp`,
`MaxDown`, `MaxStart`, `MaxBox`, `MaxDrawn`, `MaxGts`, `MaxPreds`, `MaxRec`, `MaxUpload`, `MaxLife`, `MaxStatus`, `MaxCommand`, `MaxAsk`, `MaxCut`,
`AgeMax` (where ages stop being counted, past both time bounds).

### Fairness

- `Firmware`: the processor runs and time passes; lines and resets need never
  come.
- `ControlHub`: a suspended send returns. uvicorn's ping timeout tears down a
  socket that does not answer and `hub.send` swallows the failure.
- `ScreenHub`: asyncio fires a timer that is due (`call_later`). Nothing is
  assumed of operators, victims or connections.
- `RobotScreen`: a channel that stays up carries what is sent on it (the data
  channel is reliable and ordered). The question's timer is not assumed.
- `Supervisor`: none. Its promises are time bounds, stated as invariants; `Tick`
  waits for a task that is due, which is what asyncio does while nothing blocks.
- `Parts`: in `Capture` time passes and a track goes on being asked for frames,
  which is what aiortc's sender does while a session lives. The others need none.
- `VoiceLoop`, `VictimLog`: none, for only safety is stated of them.

## Where code and documents part

- A controller that sends a hello without the key gives the slot back and no
  STOP is sent; the next claimant has no previous holder to stop, and its
  heartbeats keep the robot moving (`ControlHubStandstill`).
- P2's ids of voice messages begin at 1 after each start, and a dashboard keeps
  the id it had: after a restart of P2 it may take another operator's message
  for its own recording, and start that one (`VoiceLoopStaleId`).
- A dashboard's list of victim marks may lack a mark, or show one that is gone,
  while it is connected and idle: the list it fetches replaces what came over the
  socket after P1 read the file, and a late answer to its own request adds a mark
  that was deleted, or empties a list with a new one (`VictimListRace`).
- Not checked by a run of its own: `ScreenAudioTrack` says that "a late packet is
  never followed by a burst" (pi/p2_media/talkback.py:691-692), and
  docs/SOFTWARE_ARCHITECTURE.md:621 that one "late by more than 100 ms resets the
  track's clock". Lateness is tested when `recv` is called (718) and not after its
  sleep (717), where a hold-up usually finds it: a packet that wakes 150 ms late
  goes out with the clock as it was, the next two are 90 and 30 ms late and follow
  at once. So three packets come together, 180 ms of sound, and a fourth is due
  30 ms later. `SoundWhole` states the bound that the code does keep, two packets
  and 100 ms ahead. A text on the Robot Screen stays there when
  the connection is lost, the floor is released meanwhile and the connection
  comes back, for the page does not clear it and `screen_attached` sends a text
  but no `screen_clear`. PANIC ends at the next accepted line, where
  docs/ARCHITECTURE.md:232-236 calls the state latched until a reset of the board
  (theorem `RecoveryNeedsCommand` states what the code does). Nothing in the firmware
  raises the operator e-stop (`mode # "ESTOP"` is part of the proved invariant),
  although the Arduino README gives STOP while faulted that effect. A hung child
  is killed within `HangBound`, 40 seconds with the code's constants, and a dead
  one is back within 21, where docs/CAPSTONE_METHODOLOGY_FINAL.md:1343-1346 has
  other figures. Every well-formed line feeds the dead-man
  (`HandleOther`), where docs/SOFTWARE_ARCHITECTURE.md:224 names six operations.
  A child whose spawn fails is never restarted (`Spawn`), for the exception ends
  the task that supervises it, while docs/CAPSTONE_METHODOLOGY_FINAL.md:1376 has
  a failed process started again.
- Seen while modelling, each visible in the module it names:
  - `Capture`: a negotiation that fails after its tracks were made
    (`signaling.py:135`) never stops them, and the camera stays open
    (`JoinFails`).
  - `Resume`: the dashboard reads no `gap_ms`, so a gap that P1 tells it of is
    lost; frames are also lost, with no gap told, when a socket drops between the
    first live frame and the batch, for the browser asks from the latest frame it
    has seen the next time. `gap_ms` may be positive although nothing is missing,
    and is 0 after a restart of P1. `broadcast` waits for its slowest client.
  - `Records`: `gpsdrift.py:48` says that a mismatch is reported rather than
    silently mis-parsed; rows of the layout with `motion` and without the infrared
    sensors have as many cells as the current one, are read by the current one,
    and drop out as rows without a fix. The log keeps four decimals of a position,
    a grid of some eleven metres. A receiver that falls silent keeps its last fix.
  - `Bench`: `probe_motor` goes on to the stop when it has seen no start; the
    emulated board never reports STOPPED, so the dead-man probe gives up on it.
  - `TestSet`: a frame whose import died after its first row is never imported
    again; two annotators may leave a frame with a box and with "nobody here",
    which the loader takes for the box.
  - `ScreenAudio`: `_release_floor` empties the hub's queue and not the track's
    buffer, and notes no end of the talk, so the loop may start at once over it.
  - `FaultInject`: between reading the pid and the signal the process may have
    been replaced, and then the process that was struck is not the one that is
    compared; P2's `camera_open` says only that hardware is not mocked
    (`p2_media/main.py:202`), so no recovery waits for the camera.

## What is proved

TLAPS proves the theorems listed in `PROJECT.json`, for every value of the
constants that satisfies the ASSUME of the module. All go the same way: an
invariant that is inductive, a lemma per action, and `PTL` for the last step.

**Firmware** (`FirmwareAssumption`: positive periods, and a clock that is longer
than the window, the period and two iterations). `FirmwareInv` has three
parts. `ControlInv`: in PANIC nothing is left in targets or outputs, targets
exist only in ACTIVE, the written output is the ramp's. `TimingInv`: how far the
clock can be ahead of the stamps `loopNow`, `lastRun` and `lastCmd`.
`StampIsHonest`: the age of the stamp is the silence. `BoundedStop` alone is not
inductive: it says nothing of a robot that is within the bound but whose safety
task has not run for long, and that is what `TimingInv` adds. `StopsInTime` needs
no more. `RecoveryNeedsCommand` assumes
`MaxSilence + LoopMax < ClockMod`: after a silence of a whole turn of
`millis()` (2^32 ms) the stamp looks young again and the fault clears without a
line. The targets are zero by then, so the robot does not move.
`TargetsNear` is what of `ReachesTarget` is a matter of steps: an output whose
target stays comes closer with each motor task that is due, and nothing undoes
it. That the task runs again and again is fairness, and is left to TLC.

**ControlHub** (`HubAssumption`: the special names are no clients). `HubInv`
joins the properties with `HandlerInv`: a handler in mid-takeover belongs to an
open connection, and the client it is to tell is not itself.

**ScreenHub** (`ScreenAssumption`: hosts of sessions, distinct names).
`ScreenInv` joins the properties with `operators \subseteq live` and `IdsGrow`.
The lemmas `ReleaseKeeps` and `EndKeeps` say once what the shared helpers do;
the lemma of each handler cites them.

**VoiceLoop** (`VoiceAssumption`: hosts of dashboards, bounds, and a `None`
apart). `VoiceInv` has three parts. `TypeOK`. `VoiceTold`: the last status on a
channel, or what the panel has if there is none, is the hub's, so that a message
on its way does no harm. `IdsInv`, which `UploadedIsMine` needs: an id that a
panel or an upload's answer holds from the P2 that runs was given to that
dashboard (`GivenTo`), whether the answer is on its way, lost or late; the
ids of an earlier P2 are told apart by `life`, and those of a later one do not
exist yet.

**RobotScreen** (the assumption of `ScreenHub`). The page runs behind the hub by
what is on the wire, so what is shown is proved of the pair. `TextInv` and
`StateInv` say: the last message of the kind on the wire has what the hub has;
if there is none, the page has it. `LinkInv` says that the hub's channel is on
the connection P2 answered last. The lemma `HubSends` says what each handler may
put on the wire; the lemmas on concatenation and tail say what sending and
handling do to "the last message of a kind". `HubRefined` is the refinement of
`ScreenHub` by the composition. For the question the last message is not
enough: `question_hide` clears only the question it names. `QuestionInv` says
that the wire's last question message shows the one that waits, or hides the one
the page will show by then; `AskedInv` that what came on a connection was asked
by the P2 that runs, so that the next question's id is new to it; `FreshInv`
that a connection is empty until the hub takes it.

**Supervisor, the stop** (`SupervisorAssumption`: periods are numbers). `StopInv`
says why a stop leaves no child: when the signal comes every task is behind its
first spawn; `stop` leaves each process over; and a task that wakes behind it,
from a poll or a cooldown, ends without a spawn. `Over` counts a process in
uninterruptible sleep, which no signal can end. This is for any number of
children and needs nothing of the times.

**Supervisor, the times** (`TimingAssumption`: two children; a sound one answers
before its last probe but one; `kill` is shorter than the probes that lead to it,
and with a check and the polls in between shorter than a restart). The code's
1, 10, 5, 3, 10 and 5 satisfy it, with `StartMax` up to 10. What delays one child
is the sibling's kill, which blocks the loop. Two kills of one child are a
`Cycle` apart - poll, cooldown, and the probes that lead to the next - so at most
one falls into any window the bounds speak of. `Far(r, t)` says that a child is
not killed within `t`; `HungOK`, `GoneOK` and `WellOK` say, of one child beside
the other, how long it still takes, and that either no kill of the sibling is
left for that time or there is room for one. `Blame` says who blocks the loop
when it is blocked. `HangsEnd` and `ChildrenComeBack` are the two time bounds,
`WellSpared` that a sound child is never killed. None of the three properties is
inductive by itself: a child at its bound whose sibling is about to be killed
satisfies them.

**VictimLog**. `LogInv`: the marks of the file are those made and neither
deleted, archived nor touched by a cut write, and each is on one line.
`MarksKept` follows. `PageInv`: everything a dashboard shows or has still to
apply - a message, a load of the list, an answer - agrees with the file on every
mark that no cut write has touched, if nothing has overtaken it; of two messages
about one mark the later counts. So what is applied in any order the links allow
ends at the file (`ListsRight`). A list is filtered by the places it keeps (`At`),
for the library's `SelectSeq` is out of the provers' reach.

**The modules of `Parts`** (`PartsAssumption` joins theirs). A behaviour of
`Parts` moves one module and leaves the others as they begin, so it is a behaviour
of each module by itself (`GatePart`, `FollowPart`, ...), and what is proved of the
module holds of the run. These modules take little of the library, for what an
instance defines weighs on every obligation.

- `KeyGate`: `GateInv` relates the failures that the gate counts to the guesses
  that the property counts: both lists are oldest first, the young guesses are
  the failures of the list, or none is left of those and the lockout outlasts
  what the guesses need to grow old. Lists are ordered, so what is younger than a
  limit is the end of a list, and the lemma `Least` finds where it begins.
- `TalkFollow`: `FollowInv` has three parts beside types: `TaskInv`, how long the
  task may be where it is; `AgeInv`, how old the host is at most that an answer
  under way names or that P2 lets act, by where the task is; `StillInv`, since
  when the slot must have stood still for them to be its holder. The bound of
  `ControllerTalks` alone is not inductive: it does not know that an old talker's
  task is about to end. `FollowsInTime` is the refinement: `Promise` is an
  instance of `ControllerTalks` with this module's `holder`, `talker`, `stale` and
  `Lag` for its own, and each step maps to one of its steps or to a stutter (the
  lemmas `P1Refines`, `P2Refines` and `TickRefines`).
- `Capture`: `CaptureInv` says that a device's count of users is the number of
  connections on its present source and, for the camera, of the proxies that a
  failed negotiation has left; and that there is no source when that is none.
  `MicNears` is what of `MicReturns` is a matter of steps: `ToGo` of a session
  whose mic can be opened never grows while it is silent, and falls with each
  frame it asks for and each tick of its countdown. `MicMoves` lists what a step
  can do to a session's sound.
- `ScreenAudio`: `AudioInv` bounds what is buffered and under way by how late the
  next packet is and by the longest hold-up. For the bound on bursts it ties
  `credit` to lateness: a packet not much late finds credit for itself and its
  lateness, one that overslept by more than `LateMax` and a packet finds all of
  it, and leaves enough for the next, with which the track starts anew. Beside sizes the assumption says that the cushion
  fits in the queue (6 frames in 10) and that the loop waits for longer than the
  buffer and the jitter last (25 frames against 20): without the one words are
  cut, without the other the loop starts over words that are still buffered. The
  last conjunct is about the model's bound: hold-ups of `StallMax` are long enough
  to break the sound, so that counting them no further loses nothing.
- `Resume`: `RingOK` and `HeldOK` say that the buffer has, in order and without a
  gap, all from its oldest frame on; `WireOK` that each batch on the wire is whole
  or tells of a gap, and that no message takes the screen back behind one before it.
- `Records`: each line is the cells of a row of some layout, or of a header, as
  far as a cut or the row that was glued to it (`LineOk`). Where no layout has a
  line's length, a reader goes by the names in the first line: `NamesOk` says that
  a line with the name of a fix column in it has the length of a layout, for which
  its names are not used, or one that only glued lines have. The layouts are
  written out; the lemma `Places` has what is needed of them.
- `Bench`: `MotionInv` says that a robot that drives has a timer that runs, and
  that each command to drive under way has a stop behind it or a trial that stands
  for it. `PhaseInv` says, for each place a probe can be in, which modes the board,
  the frames under way and P1's latest may show, in which order (`Once`: a mode
  that has come stays), and which commands are still to come. `RowsReal` needs
  all of it, for a frame that is read now was made some commands ago.
- `FaultInject`: `TrialInv`: the pids of the target only grow; `StackInv`: after a
  fault of P3 the whole stack goes before P3 is back, and what answers since is
  new. `Phantom` is a signal to a process that is gone already.
- `TestSet`: `SheetInv`: predicted boxes are numbered from one to what their run's
  record says, on the sheet and in the imports that are at it. Of a set of numbers
  from 1 to n only the whole has n elements, so a frame that passes the loader's
  check by number is complete.
- `DetectorMatch`: the order of the predictions and, for one prediction, that of
  the boxes are strict and total (`AheadOrder`, `PrefersOrder`; overlaps are
  fractions, and `IouTransitive` needs their denominators positive, which a valid
  box gives). So a prediction that boxes are free for takes exactly one
  (`Preferred`). `Greedy` says of a matching, without any loop, that what each
  prediction has is what it takes of what those ahead of it left; stability and
  one to one follow from that alone (`GreedyStable`, `GreedyOneToOne`). `MatchInv`
  is that the counts build such a matching in an order that is right within each
  frame, and that the walk has the part of it that belongs to the predictions it
  has seen, in an order that is right across frames: what a prediction takes
  depends on its own frame only (`MatchLocal`), so the two agree (`TakesAgain`).
  For the average precision it keeps that the curve goes up by one or stays
  (`Curve`), and that its first points are all found exactly when no false box
  ranks above a found one (`Clean`); `Full` is that the area is then the whole.

`RampBounded`, `PanicIsSafe` and `RecoversOnlyOnCommand` of the firmware,
`QuestionTimed` of the hub, and the type invariants of `Firmware`, `ControlHub`
and `ScreenHub` are proved, and no run checks them by themselves.

Only model-checked: liveness under fairness (`MicReturns` of `Capture` and the
properties of the kind "leads to" of `Firmware`, `ControlHub`, `ScreenHub` and
`RobotScreen`), which is out of the prover's reach. Every safety property of a
passing run is stated by a theorem.

## Not modelled

- Framing of bytes into lines, H-bridge pins and servo angles of the firmware;
  its sensors and telemetry frames.
- What a snapshot of P1 holds, alert flags, the Wi-Fi signal, NMEA field by
  field, REST endpoints that only read.
- P2's decoding of a voice message and the place it is played from; display mode,
  scaling, encoding and pacing of pictures. What the victim hears is counted in
  frames, their sound left out.
- The exit codes of P3's children, the notes and snapshots of victim marks; the
  hooks' own timers, and `useWebrtcVideo`. Two presses of Record before the
  browser grants the microphone start two recorders (`useVoiceMessage.ts:76`), and
  a clip that is cleared while it is recorded comes back (`useVoiceMessage.ts:147`):
  `VoiceLoop` has the second (`OnStop`), and no document says what should be.
- `netsweep.py`, `drive_load.py`, `record.py`, `reslog.py` and `summarize.py`,
  which sample and print; the statistics of `section5_stats.py` and the report of
  `detector_eval.py`, whose loops compute means, percentiles and text.
- Rendering, log files of events, configuration, deployment, and the papers and
  data of the repository.

## Plan

What is left, in this order:

1. `DriveSystem`: `ControlHub` and an abstract firmware with the line between
   them; the abstract firmware refined by `Firmware`.
2. `ScreenHub` with `TalkFollow` in place of its free `SetControllerHost`: the
   floor's holder lost the slot at most `Lag` ago.
3. `Framing`, `HBridge`: pure functions against a reference.
4. `WebrtcVideo`: the dashboard's second link and its retries.

Theorem to prove next: with `DriveSystem`, that a robot whose dashboards are all
silent stands still.
