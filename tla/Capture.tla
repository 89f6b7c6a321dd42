------------------------------ MODULE Capture ------------------------------
(***************************************************************************)
(* The robot's camera and microphone and the viewers that share them       *)
(* (p2_media/media.py SharedCapture, PrivateVideoTrack and                 *)
(* ResilientAudioTrack; main.py make_video, make_audio and offer;          *)
(* signaling.py negotiate).                                                *)
(*                                                                         *)
(* A device can be open once.  SharedCapture opens it for the first viewer *)
(* and relays it; a viewer's proxy ends when its session does, or, some    *)
(* time after the device failed, when it next asks for a frame.            *)
(***************************************************************************)
EXTENDS Integers, FiniteSets

CONSTANTS
    Viewer,     \* dashboards' media sessions
    Retry,      \* ResilientAudioTrack.retry_s (2 s), in ticks
    MaxLeak     \* bound: negotiations that fail with the camera open

CaptureAssumption == Retry \in Nat \ {0} /\ MaxLeak \in Nat

Device == {"camera", "mic"}

VARIABLES
    plugged,    \* can the device be opened?
    source,     \* SharedCapture._source: "none", "live", or "dead" once it failed
    users,      \* SharedCapture._users
    track,      \* a viewer's track of a device: a proxy "on" the present source
                \* or of an "old" one, "fallback" (silence, or the synthetic
                \* picture), "ended", or "none" without a session
    retryIn,    \* ticks until a viewer's mic track tries again (_next_retry)
    leaked      \* proxies of the camera that a failed negotiation left behind

vars == <<plugged, source, users, track, retryIn, leaked>>
shared == <<source, users, track, leaked>>

TypeOK ==
    /\ plugged \in [Device -> BOOLEAN]
    /\ source \in [Device -> {"none", "live", "dead"}]
    /\ users \in [Device -> Nat]
    /\ track \in [Device -> [Viewer -> {"none", "on", "old", "fallback", "ended"}]]
    /\ retryIn \in [Viewer -> 0 .. Retry]
    /\ leaked \in 0 .. MaxLeak

Present(v) == track["camera"][v] # "none"
On(d) == {v \in Viewer : track[d][v] = "on"}

-----------------------------------------------------------------------------
\* SharedCapture

\* open_camera_track, open_mic_track: they raise when there is no device, or
\* when it has no track of the kind.
CameraOpens == plugged["camera"]
MicrophoneOpens == plugged["mic"]

\* subscribe raises when the device has to be opened and cannot be.
Subscribable(d) ==
    \/ source[d] = "live"
    \/ d = "camera" /\ CameraOpens
    \/ d = "mic" /\ MicrophoneOpens

\* A source that had to be opened has one user, however many the one before had.
Subscribed(d) == IF source[d] = "live" THEN users[d] + 1 ELSE 1

\* Opening replaces the source: proxies of the one that died are old now.
Kept(d, v) == IF source[d] # "live" /\ track[d][v] = "on" THEN "old" ELSE track[d][v]

Subscribe(d) ==
    /\ source' = [source EXCEPT ![d] = "live"]
    /\ users' = [users EXCEPT ![d] = Subscribed(d)]

\* A mutant of Counts: the proxy of a source that was replaced counts as well.
CountsAny(d, v) == track[d][v] \in {"on", "old"}

\* _ended counts only a proxy of the present source.
Counts(d, v) == track[d][v] = "on"

\* The proxies of v on the devices ds end; without users a device is closed.
Unsubscribe(v, ds) ==
    LET ending == {d \in ds : Counts(d, v)}
    IN  /\ users' = [d \in Device |-> users[d] - IF d \in ending THEN 1 ELSE 0]
        /\ source' = [d \in Device |-> IF d \in ending /\ users'[d] <= 0
                                       THEN "none" ELSE source[d]]

-----------------------------------------------------------------------------
\* Sessions: a peer connection with a video and an audio track

\* The tracks of a new session: the camera's when it could be subscribed, the
\* synthetic picture for good when not; the mic opens nothing yet.
Tracks(v, video) ==
    [camera |-> [[w \in Viewer |-> IF video = "on" THEN Kept("camera", w)
                                   ELSE track["camera"][w]] EXCEPT ![v] = video],
     mic |-> [track["mic"] EXCEPT ![v] = "fallback"]]

\* negotiate makes both tracks first.
Join(v) ==
    /\ ~Present(v)
    /\ IF Subscribable("camera")
       THEN /\ Subscribe("camera")
            /\ track' = Tracks(v, "on")
            /\ leaked' = IF source["camera"] = "live" THEN leaked ELSE 0
       ELSE /\ track' = Tracks(v, "fallback")
            /\ UNCHANGED <<source, users, leaked>>
    /\ retryIn' = [retryIn EXCEPT ![v] = 0]
    /\ UNCHANGED plugged

\* The offer cannot be answered after that (setRemoteDescription raises): offer
\* forgets the session, and nobody stops its tracks.
JoinFails ==
    /\ Subscribable("camera") /\ leaked < MaxLeak
    /\ Subscribe("camera")
    /\ track' = [track EXCEPT !["camera"] = [w \in Viewer |-> Kept("camera", w)]]
    /\ leaked' = IF source["camera"] = "live" THEN leaked + 1 ELSE 1
    /\ UNCHANGED <<plugged, retryIn>>

\* The peer connection closes and stops its tracks.
Leave(v) ==
    /\ Present(v)
    /\ Unsubscribe(v, Device)
    /\ track' = [d \in Device |-> [track[d] EXCEPT ![v] = "none"]]
    /\ retryIn' = [retryIn EXCEPT ![v] = 0]
    /\ UNCHANGED <<plugged, leaked>>

\* The proxy is of a source that gives no more frames.
Cut(d, v) == track[d][v] = "old" \/ (track[d][v] = "on" /\ source[d] = "dead")

\* recv of the picture raises: the sender stops the track for good.
PictureEnds(v) ==
    /\ Cut("camera", v)
    /\ Unsubscribe(v, {"camera"})
    /\ track' = [track EXCEPT !["camera"][v] = "ended"]
    /\ UNCHANGED <<plugged, retryIn, leaked>>

\* _next_frame: the mic's proxy raises; silence, and another try later.
MicLost(v) ==
    /\ Cut("mic", v)
    /\ Unsubscribe(v, {"mic"})
    /\ track' = [track EXCEPT !["mic"][v] = "fallback"]
    /\ retryIn' = [retryIn EXCEPT ![v] = Retry]
    /\ UNCHANGED <<plugged, leaked>>

Tries(v) == track["mic"][v] = "fallback" /\ retryIn[v] = 0

\* _try_open
MicOpens(v) ==
    /\ Tries(v) /\ Subscribable("mic")
    /\ Subscribe("mic")
    /\ track' = [track EXCEPT !["mic"] = [[w \in Viewer |-> Kept("mic", w)] EXCEPT ![v] = "on"]]
    /\ UNCHANGED <<plugged, retryIn, leaked>>

\* A mutant of MicFails: the session stays silent, as if the mic were opened
\* once per session.
MicGivesUp(v) ==
    /\ Tries(v) /\ ~Subscribable("mic")
    /\ track' = [track EXCEPT !["mic"][v] = "ended"]
    /\ UNCHANGED <<plugged, source, users, leaked, retryIn>>

MicFails(v) ==
    /\ Tries(v) /\ ~Subscribable("mic")
    /\ retryIn' = [retryIn EXCEPT ![v] = Retry]
    /\ UNCHANGED <<plugged, shared>>


-----------------------------------------------------------------------------
\* The devices

Dies(d) == source' = [source EXCEPT ![d] = IF @ = "live" THEN "dead" ELSE @]

\* A device drops off the bus, or fails and stays there.
Unplug(d) ==
    /\ plugged' = [plugged EXCEPT ![d] = FALSE]
    /\ Dies(d)
    /\ UNCHANGED <<users, track, retryIn, leaked>>

Glitch(d) ==
    /\ Dies(d)
    /\ UNCHANGED <<plugged, users, track, retryIn, leaked>>

Plug(d) ==
    /\ plugged' = [plugged EXCEPT ![d] = TRUE]
    /\ UNCHANGED <<shared, retryIn>>

Tick ==
    /\ retryIn' = [v \in Viewer |-> IF retryIn[v] > 0 THEN retryIn[v] - 1 ELSE 0]
    /\ UNCHANGED <<plugged, shared>>

Init ==
    /\ plugged \in [Device -> BOOLEAN]
    /\ source = [d \in Device |-> "none"]
    /\ users = [d \in Device |-> 0]
    /\ track = [d \in Device |-> [v \in Viewer |-> "none"]]
    /\ retryIn = [v \in Viewer |-> 0]
    /\ leaked = 0

Hear(v) == MicLost(v) \/ MicOpens(v) \/ MicFails(v)

Next ==
    \/ \E v \in Viewer : Join(v) \/ Leave(v) \/ PictureEnds(v) \/ Hear(v)
    \/ \E d \in Device : Unplug(d) \/ Glitch(d) \/ Plug(d)
    \/ JoinFails
    \/ Tick

Spec == Init /\ [][Next]_vars

\* Frames go on being asked for, and time passes.
FairSpec == Spec /\ WF_vars(Tick) /\ \A v \in Viewer : WF_vars(Hear(v))

-----------------------------------------------------------------------------
\* A device is not closed under a viewer that is on it, and is closed when the
\* last one has gone, unless a failed negotiation left a proxy behind
\* (SharedCapture.subscribe and its _ended).
OpenWhileUsed ==
    \A d \in Device :
        /\ On(d) # {} => source[d] # "none"
        /\ source[d] = "live" => On(d) # {} \/ (d = "camera" /\ leaked > 0)

\* No session stays silent while the mic can be opened, whatever happened to the
\* mic before (ResilientAudioTrack).
MicReturns ==
    \A v \in Viewer :
        (plugged["mic"] /\ Present(v)) ~>
            \/ ~plugged["mic"] \/ ~Present(v)
            \/ track["mic"][v] = "on" /\ source["mic"] = "live"
=============================================================================
