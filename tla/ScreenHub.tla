----------------------------- MODULE ScreenHub -----------------------------
(***************************************************************************)
(* The talk-to-victim hub of the media server P2 (p2_media/talkback.py,    *)
(* class ScreenHub, with the callbacks of signaling.py that drive it): who *)
(* may use the robot's screen and speaker (the "floor"), what is on the    *)
(* screen, and the question the victim answers by a tap.                   *)
(*                                                                         *)
(* Every handler runs to its end on P2's event loop, so each is one step.  *)
(* What can come in any order is the handlers: messages of the operators,  *)
(* frames of their tracks, connections that open and close, answers from   *)
(* the screen, the question's timer, and P1 naming another controller.     *)
(* The voice loop and the display mode need no floor and are not here.     *)
(***************************************************************************)
EXTENDS Integers, Sequences

CONSTANTS
    Session,        \* the peer sessions, as a pool of names
    Host,           \* the addresses dashboards come from
    HostOf,         \* the address of each session
    Kiosk,          \* the Robot Screen's connections, as a pool of names
    Source,         \* what a video track shows: camera, image or screen
    Text,           \* texts an operator sends
    Choice,         \* the indices of a question's options
    BadChoice,      \* an index out of range, or no index at all
    None,           \* Python's None
    MaxQuestion     \* bound: the number of questions asked

ASSUME ScreenAssumption ==
    /\ HostOf \in [Session -> Host]
    /\ None \notin Session \cup Host \cup Kiosk \cup Text \cup Choice
    /\ BadChoice \notin Choice \cup {None}
    /\ MaxQuestion \in Nat

VARIABLES
    live,       \* sessions whose peer connection is up
    controllers,\* the sessions that presented the key (ScreenHub.controllers)
    operators,  \* the sessions whose data channel is open
    controllerHost, \* the host of P1's controller, as far as P2 knows
    floor,      \* floor_holder
    media,      \* media_state
    text,       \* current_text
    frames,     \* the sessions whose frames are held for the screen
                \* (_video_latest, _audio_queue)
    question,   \* question: id, status and answer
    asked,      \* _question_ids
    timer,      \* id of the question the armed timer expires, 0 for no timer
    kiosks,     \* the Robot Screen connections that are open
    screen,     \* screen_channel; screen_connected is set along with it
    told,       \* what the last talk_status leaves each dashboard with
    seen,       \* what the question messages leave each dashboard with
    toScreen    \* output: the messages this step put on the screen's channel

peerVars     == <<live, controllers, operators, controllerHost>>
questionVars == <<question, asked, timer>>
screenVars   == <<kiosks, screen>>
viewVars     == <<told, seen>>
vars == <<peerVars, floor, media, text, frames, questionVars, screenVars,
          viewVars, toScreen>>

\* VIDEO_SOURCES
Video == {"none"} \cup Source
IdleMedia == [talking |-> FALSE, video |-> "none"]

NoQuestion == [id |-> 0, status |-> "none", answer |-> None]
Waiting == question.status = "waiting"

-----------------------------------------------------------------------------
(***************************************************************************)
(* Messages to the dashboards.                                             *)
(***************************************************************************)

\* can_control, given the sessions with a key and the controller's host.
Can(s, keyed, host) == s \in keyed /\ HostOf[s] = host

CanControl(s) == Can(s, controllers, controllerHost)

\* What a dashboard shows before P2 says anything, and once it is gone.
Blank == [floor |-> "free", can |-> FALSE, online |-> FALSE]

\* _send_status(s)
Status(s, holder, keyed, host, scr) ==
    [floor  |-> IF holder = None THEN "free"
                ELSE IF holder = s THEN "you" ELSE "other",
     can    |-> Can(s, keyed, host),
     online |-> scr # None]

\* _broadcast_status, to the sessions in ops.
Statuses(ops, holder, keyed, host, scr) ==
    [s \in Session |-> IF s \in ops THEN Status(s, holder, keyed, host, scr)
                                    ELSE Blank]

\* _broadcast_question of q to the sessions in ops.
QuestionFor(ops, q) == [s \in Session |-> IF s \in ops THEN q ELSE NoQuestion]

(***************************************************************************)
(* Messages to the Robot Screen; without a channel they are lost.          *)
(***************************************************************************)
StateMsg(holder, m) ==
    [type |-> "screen_state", operator |-> holder # None,
     talking |-> m.talking, video |-> m.video]
TextMsg(x)  == [type |-> "screen_text", text |-> x]
ClearMsg    == [type |-> "screen_clear"]
ShowMsg(id) == [type |-> "question_show", id |-> id]
HideMsg(id) == [type |-> "question_hide", id |-> id]

ToScreen(scr, msgs) == toScreen' = IF scr = None THEN <<>> ELSE msgs

-----------------------------------------------------------------------------
Init ==
    /\ live = {} /\ controllers = {} /\ operators = {}
    /\ controllerHost = None
    /\ floor = None /\ media = IdleMedia /\ text = None /\ frames = {}
    /\ question = NoQuestion /\ asked = 0 /\ timer = 0
    /\ kiosks = {} /\ screen = None
    /\ told = Statuses({}, None, {}, None, None)
    /\ seen = QuestionFor({}, NoQuestion)
    /\ toScreen = <<>>

\* P2 dies and P3 starts it again: the connections and the memory are gone.
Restart ==
    /\ live' = {} /\ controllers' = {} /\ operators' = {}
    /\ controllerHost' = None
    /\ floor' = None /\ media' = IdleMedia /\ text' = None /\ frames' = {}
    /\ question' = NoQuestion /\ asked' = 0 /\ timer' = 0
    /\ kiosks' = {} /\ screen' = None
    /\ told' = Statuses({}, None, {}, None, None)
    /\ seen' = QuestionFor({}, NoQuestion)
    /\ toScreen' = <<>>

\* question.status after _end_question(status): only a waiting one ends.
Ended(status) == IF Waiting THEN [question EXCEPT !.status = status] ELSE question

\* Mutant of EndQuestion: the dashboards are not told.
EndUntold(status, ops) ==
    /\ question' = Ended(status)
    /\ timer' = IF Waiting THEN 0 ELSE timer
    /\ seen' = [s \in Session |-> IF s \notin ops THEN NoQuestion ELSE seen[s]]
    /\ UNCHANGED asked

\* _end_question, its question_status going to the sessions in ops.
EndQuestion(status, ops) ==
    /\ question' = Ended(status)
    /\ timer' = IF Waiting THEN 0 ELSE timer
    /\ seen' = [s \in Session |-> IF s \notin ops THEN NoQuestion
                                  ELSE IF Waiting THEN Ended(status) ELSE seen[s]]
    /\ UNCHANGED asked

HideIfWaiting == IF Waiting THEN <<HideMsg(question.id)>> ELSE <<>>

\* Mutants of ReleaseFloor: the holder's frames stay; nobody is told.
ReleaseKeepsFrames(ops, keyed, host) ==
    /\ floor' = None
    /\ media' = IdleMedia
    /\ text' = None
    /\ UNCHANGED frames
    /\ EndQuestion("cleared", ops)
    /\ ToScreen(screen, <<ClearMsg>> \o HideIfWaiting \o <<StateMsg(None, IdleMedia)>>)
    /\ told' = Statuses(ops, None, keyed, host, screen)

ReleaseUntold(ops, keyed, host) ==
    /\ floor' = None
    /\ media' = IdleMedia
    /\ text' = None
    /\ frames' = {}
    /\ EndQuestion("cleared", ops)
    /\ ToScreen(screen, <<ClearMsg>> \o HideIfWaiting \o <<StateMsg(None, IdleMedia)>>)
    /\ UNCHANGED told

\* _release_floor, when ops, keyed and host are what is left of the operators,
\* of the keys and of the controller.
ReleaseFloor(ops, keyed, host) ==
    /\ floor' = None
    /\ media' = IdleMedia
    /\ text' = None
    /\ frames' = {}
    /\ EndQuestion("cleared", ops)
    /\ ToScreen(screen, <<ClearMsg>> \o HideIfWaiting \o <<StateMsg(None, IdleMedia)>>)
    /\ told' = Statuses(ops, None, keyed, host, screen)

-----------------------------------------------------------------------------
(***************************************************************************)
(* Operator sessions.                                                      *)
(***************************************************************************)

\* POST /webrtc/offer: grant_control comes before the negotiation.
Offer(s, withKey) ==
    /\ s \notin live
    /\ live' = live \cup {s}
    /\ controllers' = IF withKey THEN controllers \cup {s} ELSE controllers
    /\ toScreen' = <<>>
    /\ UNCHANGED <<operators, controllerHost, floor, media, text, frames,
                   questionVars, screenVars, viewVars>>

\* operator_connected: the data channel is there.
OperatorConnected(s) ==
    /\ s \in live
    /\ operators' = operators \cup {s}
    /\ told' = [told EXCEPT ![s] = Status(s, floor, controllers, controllerHost, screen)]
    /\ seen' = [seen EXCEPT ![s] = question]
    /\ toScreen' = <<>>
    /\ UNCHANGED <<live, controllers, controllerHost, floor, media, text, frames,
                   questionVars, screenVars>>

\* Mutant of OperatorClosed: the floor stays with the session that is gone.
ClosedKeepsFloor(s) ==
    /\ s \in live
    /\ live' = live \ {s}
    /\ controllers' = controllers \ {s}
    /\ operators' = operators \ {s}
    /\ told' = [told EXCEPT ![s] = Blank]
    /\ seen' = [seen EXCEPT ![s] = NoQuestion]
    /\ toScreen' = <<>>
    /\ UNCHANGED <<controllerHost, floor, media, text, frames, questionVars, screenVars>>

\* operator_closed: the channel or the peer connection is over, or the
\* negotiation failed.
OperatorClosed(s) ==
    /\ s \in live
    /\ live' = live \ {s}
    /\ controllers' = controllers \ {s}
    /\ operators' = operators \ {s}
    /\ IF floor = s
       THEN ReleaseFloor(operators \ {s}, controllers \ {s}, controllerHost)
       ELSE /\ told' = [told EXCEPT ![s] = Blank]
            /\ seen' = [seen EXCEPT ![s] = NoQuestion]
            /\ toScreen' = <<>>
            /\ UNCHANGED <<floor, media, text, frames, questionVars>>
    /\ UNCHANGED <<controllerHost, screenVars>>

\* Mutant of SetControllerHost: the holder keeps the floor.
HostWithoutRelease(host) ==
    /\ host # controllerHost
    /\ controllerHost' = host
    /\ told' = Statuses(operators, floor, controllers, host, screen)
    /\ toScreen' = <<>>
    /\ UNCHANGED <<live, controllers, operators, floor, media, text, frames,
                   questionVars, screenVars, seen>>

\* set_controller_host: P1 reports another controller, or none.
SetControllerHost(host) ==
    /\ host # controllerHost
    /\ controllerHost' = host
    /\ IF floor # None /\ ~Can(floor, controllers, host)
       THEN ReleaseFloor(operators, controllers, host)
       ELSE /\ told' = Statuses(operators, floor, controllers, host, screen)
            /\ toScreen' = <<>>
            /\ UNCHANGED <<floor, media, text, frames, questionVars, seen>>
    /\ UNCHANGED <<live, controllers, operators, screenVars>>

-----------------------------------------------------------------------------
(***************************************************************************)
(* handle_operator_message.                                                *)
(***************************************************************************)

\* A message of s gets past the observer check.
MaySend(s) == s \in operators /\ CanControl(s)

\* A malformed message, one of an observer (view_only), or one while another
\* session has the floor (floor_denied).
Ignored(s) ==
    /\ s \in operators
    /\ toScreen' = <<>>
    /\ UNCHANGED <<peerVars, floor, media, text, frames, questionVars,
                   screenVars, viewVars>>

\* _claim_floor, when it succeeds.
ClaimFloor(s) ==
    /\ MaySend(s)
    /\ floor \in {None, s}
    /\ floor' = s
    /\ told' = IF floor = s THEN told
               ELSE Statuses(operators, s, controllers, controllerHost, screen)
    /\ UNCHANGED <<peerVars, screenVars>>

FloorRelease(s) ==
    /\ MaySend(s)
    /\ floor = s
    /\ ReleaseFloor(operators, controllers, controllerHost)
    /\ UNCHANGED <<peerVars, screenVars>>

MediaState(s, talking, video) ==
    /\ ClaimFloor(s)
    /\ media' = [talking |-> talking, video |-> video]
    /\ ToScreen(screen, <<StateMsg(s, media')>>)
    /\ UNCHANGED <<text, frames, questionVars, seen>>

ScreenText(s, x) ==
    /\ ClaimFloor(s)
    /\ text' = x
    /\ ToScreen(screen, <<TextMsg(x)>>)
    /\ UNCHANGED <<media, frames, questionVars, seen>>

ScreenClear(s) ==
    /\ ClaimFloor(s)
    /\ text' = None
    /\ ToScreen(screen, <<ClearMsg>>)
    /\ UNCHANGED <<media, frames, questionVars, seen>>

\* Mutant of ArmTimer: the replaced question's timer goes on.
ArmOnce(id) == IF timer = 0 THEN id ELSE timer

\* _cancel_question_timer and call_later: one timer, for the new question.
ArmTimer(id) == id

\* _ask_question: it replaces whatever question there is.
AskQuestion(s) ==
    /\ asked < MaxQuestion
    /\ ClaimFloor(s)
    /\ asked' = asked + 1
    /\ question' = [id |-> asked + 1, status |-> "waiting", answer |-> None]
    /\ timer' = ArmTimer(asked + 1)
    /\ ToScreen(screen, <<ShowMsg(asked + 1)>>)
    /\ seen' = QuestionFor(operators, question')
    /\ UNCHANGED <<media, text, frames>>

\* _clear_question: question_status "cleared" if it was waiting, then
\* question_dismissed, which removes the question of that id everywhere.
ClearQuestion(s) ==
    /\ ClaimFloor(s)
    /\ question' = NoQuestion
    /\ timer' = IF Waiting THEN 0 ELSE timer
    /\ ToScreen(screen, HideIfWaiting)
    /\ seen' = [d \in Session |->
                  IF d \in operators /\ seen[d].id = question.id THEN NoQuestion
                  ELSE seen[d]]
    /\ UNCHANGED <<media, text, frames, asked>>

\* _pump: a frame of s arrives; only the holder's frames are kept.
Pump(s) ==
    /\ s \in live
    /\ frames' = IF floor = s THEN frames \cup {s} ELSE frames
    /\ toScreen' = <<>>
    /\ UNCHANGED <<peerVars, floor, media, text, questionVars, screenVars, viewVars>>

-----------------------------------------------------------------------------
(***************************************************************************)
(* The question's other ends: the timer and the victim.                    *)
(***************************************************************************)

\* call_later fires: expire_question(timer).
ExpireQuestion ==
    /\ timer # 0
    /\ IF question.id = timer
       THEN /\ EndQuestion("expired", operators)
            /\ ToScreen(screen, HideIfWaiting)
       ELSE /\ timer' = 0
            /\ toScreen' = <<>>
            /\ UNCHANGED <<question, asked, seen>>
    /\ UNCHANGED <<peerVars, floor, media, text, frames, screenVars, told>>

\* _answer_question takes a tap for the current, waiting question only.
Accepts(id, choice) == Waiting /\ id = question.id /\ choice \in Choice

\* A tap arrives, from the current screen or from one it replaced.
AnswerQuestion(id, choice) ==
    /\ kiosks # {}
    /\ IF Accepts(id, choice)
       THEN /\ question' = [question EXCEPT !.status = "answered", !.answer = choice]
            /\ timer' = 0
            /\ seen' = QuestionFor(operators, question')
       ELSE UNCHANGED <<question, timer, seen>>
    /\ toScreen' = <<>>
    /\ UNCHANGED <<peerVars, floor, media, text, frames, asked, screenVars, told>>

-----------------------------------------------------------------------------
(***************************************************************************)
(* The Robot Screen's connections.                                         *)
(***************************************************************************)

\* Mutants of ScreenAttached: the new screen does not get the state, the text,
\* or the question.
AttachedWithoutState(k) ==
    /\ k \notin kiosks
    /\ kiosks' = kiosks \cup {k}
    /\ screen' = k
    /\ toScreen' = (IF text # None THEN <<TextMsg(text)>> ELSE <<>>)
                     \o (IF Waiting THEN <<ShowMsg(question.id)>> ELSE <<>>)
    /\ told' = Statuses(operators, floor, controllers, controllerHost, k)
    /\ UNCHANGED <<peerVars, floor, media, text, frames, questionVars, seen>>

AttachedWithoutText(k) ==
    /\ k \notin kiosks
    /\ kiosks' = kiosks \cup {k}
    /\ screen' = k
    /\ toScreen' = <<StateMsg(floor, media)>>
                     \o (IF Waiting THEN <<ShowMsg(question.id)>> ELSE <<>>)
    /\ told' = Statuses(operators, floor, controllers, controllerHost, k)
    /\ UNCHANGED <<peerVars, floor, media, text, frames, questionVars, seen>>

AttachedWithoutQuestion(k) ==
    /\ k \notin kiosks
    /\ kiosks' = kiosks \cup {k}
    /\ screen' = k
    /\ toScreen' = <<StateMsg(floor, media)>>
                     \o (IF text # None THEN <<TextMsg(text)>> ELSE <<>>)
    /\ told' = Statuses(operators, floor, controllers, controllerHost, k)
    /\ UNCHANGED <<peerVars, floor, media, text, frames, questionVars, seen>>

\* screen_attached: it replaces any previous one and is brought up to date.
ScreenAttached(k) ==
    /\ k \notin kiosks
    /\ kiosks' = kiosks \cup {k}
    /\ screen' = k
    /\ toScreen' = <<StateMsg(floor, media)>>
                     \o (IF text # None THEN <<TextMsg(text)>> ELSE <<>>)
                     \o (IF Waiting THEN <<ShowMsg(question.id)>> ELSE <<>>)
    /\ told' = Statuses(operators, floor, controllers, controllerHost, k)
    /\ UNCHANGED <<peerVars, floor, media, text, frames, questionVars, seen>>

\* screen_detached: an old connection closing after its replacement came is
\* ignored.
ScreenDetached(k) ==
    /\ k \in kiosks
    /\ kiosks' = kiosks \ {k}
    /\ IF screen = k
       THEN /\ screen' = None
            /\ told' = Statuses(operators, floor, controllers, controllerHost, None)
       ELSE UNCHANGED <<screen, told>>
    /\ toScreen' = <<>>
    /\ UNCHANGED <<peerVars, floor, media, text, frames, questionVars, seen>>

-----------------------------------------------------------------------------
OperatorMessage(s) ==
    \/ Ignored(s)
    \/ FloorRelease(s)
    \/ \E talking \in BOOLEAN, video \in Video : MediaState(s, talking, video)
    \/ \E x \in Text : ScreenText(s, x)
    \/ ScreenClear(s)
    \/ AskQuestion(s)
    \/ ClearQuestion(s)

Peer(s) ==
    \/ \E withKey \in BOOLEAN : Offer(s, withKey)
    \/ OperatorConnected(s)
    \/ OperatorClosed(s)
    \/ Pump(s)

Next ==
    \/ \E s \in Session : Peer(s) \/ OperatorMessage(s)
    \/ \E host \in Host \cup {None} : SetControllerHost(host)
    \/ ExpireQuestion
    \/ \E id \in 1 .. MaxQuestion, choice \in Choice \cup {BadChoice} :
          AnswerQuestion(id, choice)
    \/ \E k \in Kiosk : ScreenAttached(k) \/ ScreenDetached(k)
    \/ Restart

Spec == Init /\ [][Next]_vars

\* The event loop fires a timer that is due.
FairSpec == Spec /\ WF_vars(ExpireQuestion)

-----------------------------------------------------------------------------
(***************************************************************************)
(* Properties.                                                             *)
(***************************************************************************)

Question == [id : 0 .. MaxQuestion,
             status : {"none", "waiting", "answered", "expired", "cleared"},
             answer : Choice \cup {None}]

\* The variables hold what the hub's fields can hold.
TypeOK ==
    /\ live \subseteq Session /\ controllers \subseteq Session
    /\ operators \subseteq Session
    /\ controllerHost \in Host \cup {None}
    /\ floor \in Session \cup {None}
    /\ media \in [talking : BOOLEAN, video : Video]
    /\ text \in Text \cup {None}
    /\ frames \subseteq Session
    /\ question \in Question
    /\ asked \in 0 .. MaxQuestion
    /\ timer \in 0 .. MaxQuestion
    /\ kiosks \subseteq Kiosk /\ screen \in Kiosk \cup {None}
    /\ told \in [Session -> [floor : {"free", "you", "other"},
                             can : BOOLEAN, online : BOOLEAN]]
    /\ seen \in [Session -> Question]

\* The floor is with a connected session that presented the key and comes from
\* the host of P1's controller, through takeovers, drops and P1 outages: "the
\* first to send anything claims it, and it is held until that session releases
\* it, disconnects, or stops being the controller".
FloorIsControllers == floor # None => floor \in operators /\ CanControl(floor)

\* The hub keeps nothing of an operator past its hold of the floor: no text, no
\* live or last picture, no queued voice, no question that still waits, and no
\* frame of anyone but the holder at any time.  What the page goes on showing
\* without a connection, and what the track has buffered, are not the hub's.
NothingLeft ==
    /\ frames \subseteq {floor}
    /\ floor = None => media = IdleMedia /\ text = None /\ ~Waiting

\* A waiting question has its timer armed, and no other timer is: one that was
\* replaced, answered or cleared cannot expire its successor.
QuestionTimed ==
    /\ timer = IF Waiting THEN question.id ELSE 0
    /\ Waiting => question.id = asked /\ question.answer = None

\* A dashboard that has read everything sent to it shows the true floor, its
\* own right to use it, and whether the screen is there.
StatusTold ==
    \A s \in operators :
        told[s] = Status(s, floor, controllers, controllerHost, screen)

\* Every connected dashboard shows the current question and its outcome, and
\* none shows a dismissed one.
QuestionTold == \A s \in operators : seen[s] = question

\* The channel the hub sends to is open.
ScreenIsOpen == screen # None => screen \in kiosks

\* The outcome of a question is final: the first tap wins, a late tap does not
\* turn an expired question into an answered one, and no timer expires an
\* answered one.
OutcomeFinal ==
    [][question.status \in {"answered", "expired", "cleared"}
         /\ question'.id = question.id => question' = question]_vars

\* The hub loses its screen only by that screen's own closing or by its
\* replacement: the old connection, closing late, does not take the new one
\* off line.
ScreenKept ==
    [][screen # None /\ screen' # screen =>
         screen \notin kiosks' \/ screen' \in kiosks' \ kiosks]_vars

\* A question has an id unless there is none.
IdsGrow ==
    /\ question.id <= asked
    /\ question.id = 0 <=> question.status = "none"

\* The inductive invariant behind them.
ScreenInv ==
    /\ TypeOK
    /\ operators \subseteq live
    /\ FloorIsControllers
    /\ NothingLeft
    /\ QuestionTimed
    /\ StatusTold
    /\ QuestionTold
    /\ ScreenIsOpen
    /\ IdsGrow

\* No question waits forever (QUESTION_TIMEOUT_S), whoever comes and goes.
QuestionEnds ==
    \A id \in 1 .. MaxQuestion :
        (Waiting /\ question.id = id) ~> ~(Waiting /\ question.id = id)

=============================================================================
