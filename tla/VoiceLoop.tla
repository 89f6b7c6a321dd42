------------------------------ MODULE VoiceLoop ------------------------------
(***************************************************************************)
(* The voice message the robot repeats: P2's clip and loop                 *)
(* (talkback.ScreenHub), the upload endpoint (main.upload_voice), and the  *)
(* dashboards' panel (useVoiceMessage) with the talk data channel between  *)
(* (useTalkback).                                                          *)
(*                                                                         *)
(* A clip is <<dashboard, recording>>; what is in it, its length and the   *)
(* decoding are abstracted to "stored" or "refused".  Dashboards have the  *)
(* key.  Whether one shows its buttons to an operator who is not in        *)
(* control, by P1's role and the last talk_status, is left free: P2 checks *)
(* each command and upload itself.                                         *)
(***************************************************************************)
EXTENDS Integers, Sequences

CONSTANTS
    Dash,           \* dashboards
    Host,           \* the hosts they run on
    HostOf,         \* [Dash -> Host]
    None,           \* no clip, no controller, no status
    MaxRec,         \* bound: recordings a dashboard makes
    MaxUpload,      \* bound: uploads dashboards begin
    MaxLife,        \* bound: starts of P2
    MaxStatus,      \* bound: statuses under way to a dashboard
    MaxCommand      \* bound: commands under way from a dashboard

ASSUME VoiceAssumption ==
    /\ HostOf \in [Dash -> Host]
    /\ None \notin Host /\ None \notin Dash \X Nat
    /\ None \notin [id : Nat, has : BOOLEAN, playing : BOOLEAN]
    /\ {MaxRec, MaxUpload, MaxLife, MaxStatus, MaxCommand} \subseteq Nat
    /\ MaxLife > 0

VARIABLES
    host,       \* controller_host
    hub,        \* voice_pcm, voice_id and voice_playing
    jobs,       \* uploads P2 is decoding in a thread: <<dashboard, rec, no>>
    dash,       \* per dashboard, the state of its hooks
    request,    \* per dashboard, its POST /voice
    down,       \* per dashboard, what P2 sent on its channel
    up,         \* per dashboard, the commands it sent
    life,       \* history: how often P2 was started
    begun       \* bound: how many uploads were begun

vars == <<host, hub, jobs, dash, request, down, up, life, begun>>

Clips == Dash \X (1 .. MaxRec)

(***************************************************************************)
(* The fields of dash[d]:                                                  *)
(*   link        the peer connection is up                                 *)
(*   voice       the last voice_status, kept when the link goes            *)
(*   clip        the recording made last, 0 for none                       *)
(*   recs        how many were made                                        *)
(*   uploadedId  P2's id for that recording, 0 for none                    *)
(*   inLife      history: the start of P2 that gave this id                *)
(*   busy        startPlay awaits the upload                               *)
(* and of request[d]:                                                      *)
(*   stage       "none", "sent", "waiting" (P2 has it), "answered" or      *)
(*               "failed"                                                  *)
(*   rec, no     the recording it carries, and its number among all        *)
(*   id, life    the answer                                                *)
(*   linked      the link startPlay closed over is still there             *)
(***************************************************************************)
NoRequest ==
    [stage |-> "none", rec |-> 0, no |-> 0, id |-> 0, life |-> 0, linked |-> FALSE]

Fresh == [clip |-> None, id |-> 0, playing |-> FALSE]

\* _voice_status.
VoiceStatus(h) ==
    [id |-> IF h.clip = None THEN 0 ELSE h.id,
     has |-> h.clip # None, playing |-> h.playing]

HasRoom == \A d \in Dash : Len(down[d]) < MaxStatus

\* Mutant of Tell: an unchanged loop is not reported again.
TellChanges(h) ==
    down' = [d \in Dash |->
        IF dash[d].link /\ h.playing # hub.playing
        THEN Append(down[d], VoiceStatus(h)) ELSE down[d]]

\* _broadcast_voice.
Tell(h) ==
    down' = [d \in Dash |->
        IF dash[d].link THEN Append(down[d], VoiceStatus(h)) ELSE down[d]]

-----------------------------------------------------------------------------
(***************************************************************************)
(* P2.                                                                     *)
(***************************************************************************)

\* Mutant of Stored: the id stands for the message that is there, not for the
\* upload.
StoredUnderOldId(c) ==
    [clip |-> c, playing |-> FALSE,
     id |-> IF hub.clip = None THEN hub.id + 1 ELSE hub.id]

\* set_voice_clip.
Stored(c) == [clip |-> c, id |-> hub.id + 1, playing |-> FALSE]

\* _voice_command.
Commanded(kind) ==
    CASE kind = "start" -> [hub EXCEPT !.playing = hub.clip # None]
      [] kind = "stop" -> [hub EXCEPT !.playing = FALSE]
      [] kind = "clear" -> [hub EXCEPT !.clip = None, !.playing = FALSE]

\* handle_operator_message: the controller's commands only.
Command(d) ==
    /\ up[d] # <<>> /\ HasRoom
    /\ up' = [up EXCEPT ![d] = Tail(@)]
    /\ IF host = HostOf[d]
       THEN /\ hub' = Commanded(Head(up[d]))
            /\ Tell(hub')
       ELSE UNCHANGED <<hub, down>>
    /\ UNCHANGED <<host, jobs, dash, request, life, begun>>

\* upload_voice up to its await: the key and the controller's host.
UploadArrives(d) ==
    /\ request[d].stage = "sent"
    /\ IF host = HostOf[d]
       THEN /\ jobs' = jobs \cup {<<d, request[d].rec, request[d].no>>}
            /\ request' = [request EXCEPT ![d].stage = "waiting"]
       ELSE /\ request' = [request EXCEPT ![d].stage = "failed"]
            /\ UNCHANGED jobs
    /\ UNCHANGED <<host, hub, dash, down, up, life, begun>>

\* The dashboard still awaits the answer to this job.
Waits(c) == request[c[1]].stage = "waiting" /\ request[c[1]].no = c[3]

\* And behind it: decoded, the clip replaces the one that is there, whether its
\* dashboard still waits or not.
UploadStored(c) ==
    /\ c \in jobs /\ HasRoom
    /\ jobs' = jobs \ {c}
    /\ hub' = Stored(<<c[1], c[2]>>)
    /\ Tell(hub')
    /\ request' = IF Waits(c)
                  THEN [request EXCEPT ![c[1]].stage = "answered",
                                       ![c[1]].id = hub'.id, ![c[1]].life = life]
                  ELSE request
    /\ UNCHANGED <<host, dash, up, life, begun>>

\* decode_voice_clip refuses it.
UploadRefused(c) ==
    /\ c \in jobs
    /\ jobs' = jobs \ {c}
    /\ request' = IF Waits(c) THEN [request EXCEPT ![c[1]].stage = "failed"]
                  ELSE request
    /\ UNCHANGED <<host, hub, dash, down, up, life, begun>>

\* The HTTP connection breaks; P2's handler goes on.
UploadLost(d) ==
    /\ request[d].stage \in {"sent", "waiting", "answered"}
    /\ request' = [request EXCEPT ![d].stage = "failed"]
    /\ UNCHANGED <<host, hub, jobs, dash, down, up, life, begun>>

\* set_controller_host.
ControllerMoves(h) ==
    /\ h # host
    /\ host' = h
    /\ UNCHANGED <<hub, jobs, dash, request, down, up, life, begun>>

\* What breaks with the link of a dashboard.
Unlinked(D) ==
    /\ dash' = [d \in Dash |-> [dash[d] EXCEPT !.link = @ /\ d \notin D]]
    /\ down' = [d \in Dash |-> IF d \in D THEN <<>> ELSE down[d]]
    /\ up' = [d \in Dash |-> IF d \in D THEN <<>> ELSE up[d]]

\* P2 is started again: nothing is kept.
Restart ==
    /\ life < MaxLife
    /\ life' = life + 1
    /\ host' = None /\ hub' = Fresh /\ jobs' = {}
    /\ Unlinked(Dash)
    /\ request' = [d \in Dash |-> [request[d] EXCEPT
           !.linked = FALSE,
           !.stage = IF @ \in {"sent", "waiting"} THEN "failed" ELSE @]]
    /\ UNCHANGED begun

-----------------------------------------------------------------------------
(***************************************************************************)
(* The dashboard.                                                          *)
(***************************************************************************)

\* A peer connection; operator_connected sends the status.
Connect(d) ==
    /\ ~dash[d].link
    /\ dash' = [dash EXCEPT ![d].link = TRUE]
    /\ down' = [down EXCEPT ![d] = <<VoiceStatus(hub)>>]
    /\ UNCHANGED <<host, hub, jobs, request, up, life, begun>>

LinkLost(d) ==
    /\ dash[d].link
    /\ Unlinked({d})
    /\ request' = [request EXCEPT ![d].linked = FALSE]
    /\ UNCHANGED <<host, hub, jobs, life, begun>>

\* useTalkback, onMessage.
Receive(d) ==
    /\ down[d] # <<>>
    /\ down' = [down EXCEPT ![d] = Tail(@)]
    /\ dash' = [dash EXCEPT ![d].voice = Head(down[d])]
    /\ UNCHANGED <<host, hub, jobs, request, up, life, begun>>

RobotHasClip(d) == dash[d].voice # None /\ dash[d].voice.has
Playing(d) == dash[d].voice # None /\ dash[d].voice.playing

\* `uploaded` of useVoiceMessage.
Uploaded(d) ==
    /\ dash[d].clip # 0 /\ dash[d].uploadedId # 0 /\ dash[d].voice # None
    /\ dash[d].voice.id = dash[d].uploadedId

\* What none of the panel's buttons does without.
Enabled(d) == dash[d].link /\ ~dash[d].busy

Send(d, kind) == /\ Len(up[d]) < MaxCommand
                 /\ up' = [up EXCEPT ![d] = Append(@, kind)]

\* startRecording, getUserMedia, stopRecording and onstop: a recording is made.
\* It may have been asked for long before, and ends by the Stop button, the
\* length limit or a clear, so also while an upload is awaited.
OnStop(d) ==
    /\ dash[d].recs < MaxRec
    /\ dash' = [dash EXCEPT ![d].recs = @ + 1, ![d].clip = dash[d].recs + 1,
                            ![d].uploadedId = 0, ![d].inLife = 0]
    /\ UNCHANGED <<host, hub, jobs, request, down, up, life, begun>>

\* startPlay.
PressPlay(d) ==
    /\ Enabled(d) /\ ~Playing(d)
    /\ IF Uploaded(d) \/ dash[d].clip = 0
       THEN /\ Uploaded(d) \/ RobotHasClip(d)
            /\ Send(d, "start")
            /\ UNCHANGED <<dash, request, begun>>
       ELSE /\ dash' = [dash EXCEPT ![d].busy = TRUE]
            /\ request' = [request EXCEPT ![d] =
                   [NoRequest EXCEPT !.stage = "sent", !.rec = dash[d].clip,
                                   !.no = begun + 1, !.linked = TRUE]]
            /\ begun < MaxUpload /\ begun' = begun + 1
            /\ UNCHANGED up
    /\ UNCHANGED <<host, hub, jobs, down, life>>

\* The upload's answer: its id is kept, and the loop started over the link that
\* startPlay began with.
PlayUploaded(d) ==
    /\ request[d].stage = "answered"
    /\ dash' = [dash EXCEPT ![d].busy = FALSE, ![d].uploadedId = request[d].id,
                            ![d].inLife = request[d].life]
    /\ request' = [request EXCEPT ![d] = NoRequest]
    /\ IF request[d].linked THEN Send(d, "start") ELSE UNCHANGED up
    /\ UNCHANGED <<host, hub, jobs, down, life, begun>>

\* Its error.
PlayFails(d) ==
    /\ request[d].stage = "failed"
    /\ dash' = [dash EXCEPT ![d].busy = FALSE]
    /\ request' = [request EXCEPT ![d] = NoRequest]
    /\ UNCHANGED <<host, hub, jobs, down, up, life, begun>>

\* stopPlay.
PressStop(d) ==
    /\ Enabled(d) /\ Playing(d)
    /\ Send(d, "stop")
    /\ UNCHANGED <<host, hub, jobs, dash, request, down, life, begun>>

\* clear.  A recording that it stops is still made, by onstop.
PressClear(d) ==
    /\ Enabled(d)
    /\ dash[d].clip # 0 \/ RobotHasClip(d)
    /\ dash' = [dash EXCEPT ![d].clip = 0, ![d].uploadedId = 0, ![d].inLife = 0]
    /\ IF RobotHasClip(d) THEN Send(d, "clear") ELSE UNCHANGED up
    /\ UNCHANGED <<host, hub, jobs, request, down, life, begun>>

-----------------------------------------------------------------------------
Init ==
    /\ host = None /\ hub = Fresh /\ jobs = {} /\ life = 1 /\ begun = 0
    /\ dash = [d \in Dash |->
           [link |-> FALSE, voice |-> None, clip |-> 0, recs |-> 0,
            uploadedId |-> 0, inLife |-> 0, busy |-> FALSE]]
    /\ request = [d \in Dash |-> NoRequest]
    /\ down = [d \in Dash |-> <<>>]
    /\ up = [d \in Dash |-> <<>>]

Server ==
    \/ \E d \in Dash : Command(d) \/ UploadArrives(d) \/ UploadLost(d)
    \/ \E c \in jobs : UploadStored(c)
    \/ \E c \in jobs : UploadRefused(c)
    \/ \E h \in Host \cup {None} : ControllerMoves(h)
    \/ Restart

Panel(d) ==
    \/ Connect(d) \/ LinkLost(d) \/ Receive(d)
    \/ OnStop(d) \/ PressPlay(d) \/ PlayUploaded(d) \/ PlayFails(d)
    \/ PressStop(d) \/ PressClear(d)

Next == Server \/ \E d \in Dash : Panel(d)

Spec == Init /\ [][Next]_vars

-----------------------------------------------------------------------------
(***************************************************************************)
(* Properties.                                                             *)
(***************************************************************************)
Status == [id : Nat, has : BOOLEAN, playing : BOOLEAN]
HubState == [clip : Clips \cup {None}, id : Nat, playing : BOOLEAN]
Job == Dash \X (1 .. MaxRec) \X (1 .. MaxUpload)
DashState ==
    [link : BOOLEAN, voice : Status \cup {None}, clip : 0 .. MaxRec, recs : 0 .. MaxRec,
     uploadedId : Nat, inLife : 0 .. MaxLife, busy : BOOLEAN]
RequestState ==
    [stage : {"none", "sent", "waiting", "answered", "failed"},
     rec : 0 .. MaxRec, no : 0 .. MaxUpload, id : Nat,
     life : 0 .. MaxLife, linked : BOOLEAN]
Kind == {"start", "stop", "clear"}

\* A panel is busy while its request is under way, which carries a recording.
Agree(p, r) ==
    /\ p.busy <=> r.stage # "none"
    /\ r.stage # "none" => r.rec > 0 /\ r.no > 0

\* Every field keeps its type; the loop plays a clip that is there.
TypeOK ==
    /\ host \in Host \cup {None}
    /\ hub \in HubState
    /\ hub.playing => hub.clip # None
    /\ jobs \subseteq Job
    /\ dash \in [Dash -> DashState]
    /\ request \in [Dash -> RequestState]
    /\ \A d \in Dash : Agree(dash[d], request[d])
    /\ down \in [Dash -> Seq(Status)]
    /\ up \in [Dash -> Seq(Kind)]
    /\ life \in 1 .. MaxLife /\ begun \in 0 .. MaxUpload

\* The voice status under way to d, or the one it has.
Latest(d) == IF down[d] = <<>> THEN dash[d].voice ELSE down[d][Len(down[d])]

\* A connected dashboard that has read everything knows the robot's loop: no
\* upload, command or restart leaves a panel with another picture of it.
VoiceTold == \A d \in Dash : dash[d].link => Latest(d) = VoiceStatus(hub)

\* The panel of d, linked and with nothing under way, calls its recording
\* uploaded.
ShowsUploaded(d) == dash[d].link /\ Latest(d) = dash[d].voice /\ Uploaded(d)

\* What a panel takes for the recording made here is one its own dashboard
\* uploaded to this P2, also when others upload meanwhile, answers are late, or
\* a job outlives its request.
UploadedIsMine ==
    \A d \in Dash :
        ShowsUploaded(d) /\ dash[d].inLife = life
            => hub.clip # None /\ hub.clip[1] = d

\* useVoiceMessage.ts: uploaded, "The robot holds the recording made here (not
\* an older or another operator's)".  talkback.py: "an id bumped per upload so a
\* dashboard can tell whether the robot holds the clip it recorded".
UploadedMeansHeld ==
    \A d \in Dash : ShowsUploaded(d) => hub.clip = <<d, dash[d].clip>>

-----------------------------------------------------------------------------
(***************************************************************************)
(* Why UploadedIsMine holds: an id that this P2 gave to d, and that d holds *)
(* or has under way, is not of a later upload, and if it is that of the    *)
(* message that is there, then the message is d's.                         *)
(***************************************************************************)
GivenTo(d, n) ==
    n <= hub.id /\ (n = hub.id /\ hub.clip # None => hub.clip[1] = d)

IdsInv ==
    \A d \in Dash :
        /\ dash[d].inLife <= life /\ request[d].life <= life
        /\ dash[d].inLife = life => GivenTo(d, dash[d].uploadedId)
        /\ request[d].stage = "answered" /\ request[d].life = life
              => GivenTo(d, request[d].id)

VoiceInv == TypeOK /\ VoiceTold /\ IdsInv
=============================================================================
