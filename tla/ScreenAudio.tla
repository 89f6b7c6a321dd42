---------------------------- MODULE ScreenAudio ----------------------------
(***************************************************************************)
(* The sound of the Robot Screen (p2_media/talkback.py ScreenAudioTrack,   *)
(* ScreenHub._pump, next_audio_frame, live_voice_active).                  *)
(*                                                                         *)
(* The floor holder's microphone gives a frame of 20 ms per tick, silence  *)
(* when it is muted; frames reach the hub's queue late and in bursts.  The *)
(* track takes them into its buffer and sends a packet of several frames   *)
(* whenever one is due: live voice, else the looping voice message, else   *)
(* silence.  aiortc's sender calls recv for each packet, and recv sleeps   *)
(* until it is due.  All run on P2's event loop, which may stand still for *)
(* a while, before recv is called and while it sleeps.  Frames are         *)
(* counted; what they hold is left out.                                    *)
(***************************************************************************)
EXTENDS Integers, FiniteSetsExt

CONSTANTS
    Packet,     \* AUDIO_PACKET_MS (60), in frames
    Cushion,    \* AUDIO_CUSHION_SAMPLES (120 ms)
    BufferMax,  \* AUDIO_BUFFER_MAX_SAMPLES (400 ms)
    QueueMax,   \* AUDIO_QUEUE_FRAMES (10)
    LateMax,    \* AUDIO_MAX_LATE_S (0.1 s)
    ResumeAfter,\* VOICE_RESUME_S (0.5 s)
    Jitter,     \* how many frames can be under way while the loop runs
    StallMax    \* bound: how long the event loop stands still

\* The queue holds the cushion; the loop waits for longer than the buffer lasts,
\* jitter included; the bound on hold-ups lets one come that breaks the sound.
AudioAssumption ==
    /\ {Packet, Cushion, BufferMax, QueueMax, LateMax, ResumeAfter, Jitter, StallMax} \subseteq Nat
    /\ 0 < Packet /\ Packet <= Cushion /\ Cushion <= BufferMax
    /\ Cushion <= QueueMax
    /\ BufferMax + Jitter <= ResumeAfter
    /\ Cushion - Packet < Jitter + 2 * StallMax

VARIABLES
    mic,        \* the floor holder: "off", "muted" (sends silence) or "talking"
    since,      \* ticks since the operator let go, as far as ResumeAfter (_talk_ended_at)
    loop,       \* voice_playing
    net,        \* frames on their way to the queue
    queue,      \* frames in _audio_queue
    fifo,       \* frames in the track's _fifo
    refilling,  \* _refilling
    recv,       \* recv: "new" (not called yet), "called" (aiortc calls it for the
                \* next packet) or "asleep" until the packet is due
    due,        \* ticks until the next packet is due, negative when late
    stall,      \* ticks the event loop has stood still with something to do
    sent,       \* the kind of the last packet
    credit,     \* history: packets a steady stream may still send, in frames
    rough       \* history: longest stall since live voice is played; StallMax
                \* when the floor passed on meanwhile

vars == <<mic, since, loop, net, queue, fifo, refilling, recv, due, stall, sent, credit, rough>>

\* What a packet that overslept sends on without delay: its own frames, those of
\* the one after it, and what lateness recv lets pass.
Burst == LateMax + 2 * Packet

TypeOK ==
    /\ mic \in {"off", "muted", "talking"} /\ since \in 0 .. ResumeAfter
    /\ loop \in BOOLEAN /\ refilling \in BOOLEAN
    /\ queue \in 0 .. QueueMax /\ fifo \in 0 .. BufferMax
    /\ net \in 0 .. Jitter + StallMax + 1
    /\ recv \in {"new", "called", "asleep"}
    /\ due \in -StallMax .. Packet /\ stall \in 0 .. StallMax
    /\ sent \in {"live", "loop", "silence"}
    /\ credit \in Int /\ rough \in 0 .. StallMax

-----------------------------------------------------------------------------
\* live_voice_active
LiveVoice == mic = "talking" \/ since < ResumeAfter

\* What the hub has queued goes to the buffer, which keeps the newest BufferMax.
Buffered == Min({fifo + queue, BufferMax})

Filling == refilling /\ Buffered < Cushion

\* _next_frame
Kind ==
    IF loop /\ ~LiveVoice THEN "loop"
    ELSE IF ~Filling /\ Buffered >= Packet THEN "live"
    ELSE "silence"

\* Packet sent, due in d; aiortc calls for the next one.
Send(d) ==
    /\ recv' = "called"
    /\ due' = d + Packet
    /\ sent' = Kind
    /\ fifo' = CASE Kind = "loop" -> 0
                 [] Kind = "live" -> Buffered - Packet
                 [] Kind = "silence" -> Buffered
    /\ queue' = 0
    /\ refilling' = (Kind # "live")
    /\ credit' = credit - Packet
    /\ rough' = IF Kind = "live" THEN rough ELSE stall
    /\ UNCHANGED <<mic, since, loop, net, stall>>

\* A mutant of DueNow: it catches up.
DueStill == IF recv = "new" THEN 0 ELSE due

\* A track that is too late when recv is called carries on from now.
DueNow == IF recv = "new" \/ due < -LateMax THEN 0 ELSE due

\* recv, called when the packet is due: it is sent at once.
Call ==
    /\ recv # "asleep" /\ due <= 0
    /\ Send(DueNow)

\* recv, called before that.
Sleep ==
    /\ recv = "called" /\ due > 0
    /\ recv' = "asleep"
    /\ UNCHANGED <<mic, since, loop, net, queue, fifo, refilling, due, stall, sent, credit, rough>>

\* After the sleep it is sent however late it is.
Wake ==
    /\ recv = "asleep" /\ due <= 0
    /\ Send(due)

\* _pump: the queue drops its oldest frames.
Arrive ==
    /\ net > 0
    /\ queue' = Min({queue + net, QueueMax})
    /\ net' = 0
    /\ UNCHANGED <<mic, since, loop, fifo, refilling, recv, due, stall, sent, credit, rough>>

-----------------------------------------------------------------------------
Pending == recv # "asleep" \/ due <= 0 \/ net >= Jitter

Tick ==
    /\ Pending => stall < StallMax
    /\ stall' = IF Pending THEN stall + 1 ELSE 0
    /\ rough' = Max({rough, stall'})
    /\ due' = due - 1
    /\ credit' = Min({credit + 1, Burst})
    /\ net' = IF mic = "off" THEN net ELSE net + 1
    /\ since' = Min({since + 1, ResumeAfter})
    /\ UNCHANGED <<mic, loop, queue, fifo, refilling, recv, sent>>

\* media_state of the floor holder; letting go starts the wait for the loop.
Press ==
    /\ mic = "muted"
    /\ mic' = "talking"
    /\ UNCHANGED <<since, loop, net, queue, fifo, refilling, recv, due, stall, sent, credit, rough>>

LetGo ==
    /\ mic = "talking"
    /\ mic' = "muted"
    /\ since' = 0
    /\ UNCHANGED <<loop, net, queue, fifo, refilling, recv, due, stall, sent, credit, rough>>

\* _claim_floor and _release_floor: what the hub has queued goes, what the track
\* has buffered stays; nothing is noted of a talk that ends this way.
Floor ==
    /\ mic' = IF mic = "off" THEN "muted" ELSE "off"
    /\ net' = 0
    /\ queue' = IF mic = "off" THEN queue ELSE 0
    /\ rough' = StallMax
    /\ UNCHANGED <<since, loop, fifo, refilling, recv, due, stall, sent, credit>>

Loop ==
    /\ loop' = ~loop
    /\ UNCHANGED <<mic, since, net, queue, fifo, refilling, recv, due, stall, sent, credit, rough>>

Init ==
    /\ mic = "off" /\ since = ResumeAfter /\ loop = FALSE
    /\ net = 0 /\ queue = 0 /\ fifo = 0
    /\ refilling = TRUE /\ recv = "new" /\ due = 0 /\ stall = 0
    /\ sent = "silence" /\ credit = Burst /\ rough = 0

Next == Call \/ Sleep \/ Wake \/ Arrive \/ Tick \/ Press \/ LetGo \/ Floor \/ Loop

Spec == Init /\ [][Next]_vars

-----------------------------------------------------------------------------
\* What the victim hears keeps together (ScreenAudioTrack.recv, _next_frame):
\* - however the event loop was held up, asleep or not, packets never run far
\*   ahead of what is played: in any time no more come than are played in it and
\*   in two packets and LateMax besides;
\* - once an operator is heard, no silence cuts the words, as long as jitter and
\*   hold-ups stay within what the cushion leaves beside one packet;
\* - when the loop takes over again, no word is left that was said before the
\*   operator let go: all that is buffered or under way came after.
SoundWhole ==
    [][/\ credit' >= 0
       /\ mic # "off" /\ sent = "live" /\ sent' = "silence"
            => Jitter + 2 * rough > Cushion - Packet
       /\ mic = "muted" /\ sent # "loop" /\ sent' = "loop"
            => Buffered + net <= since + rough]_vars
=============================================================================
