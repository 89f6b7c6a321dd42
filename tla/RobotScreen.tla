---------------------------- MODULE RobotScreen ----------------------------
(***************************************************************************)
(* The Robot Screen page (p2_media/screen/index.html) and its connection   *)
(* to the talk-to-victim hub: what the victim sees and taps.               *)
(*                                                                         *)
(* The hub's steps are ScreenHub's; what a step puts on the screen's       *)
(* channel travels to the page in order, and is lost with the connection.  *)
(* Either end may lose the connection first, and P2 or the browser may     *)
(* start anew.  The VNC button, sound and the ack of a text are not here.  *)
(***************************************************************************)
EXTENDS ScreenHub

CONSTANT MaxWire    \* bound: the messages on their way to the page

VARIABLES
    answering,  \* MediaServer.screen_pc: the connection P2 answered last
    wire,       \* the hub's messages on their way on the page's connection
    taps,       \* taps on their way on the connection P2 answered
    page        \* what the page holds, and so what the victim sees

linkVars   == <<answering, wire, taps>>
systemVars == <<vars, linkVars, page>>

(***************************************************************************)
(* conn is pc, None while a retry is due; state is the last screen_state;  *)
(* question is questionId, 0 for null; sent: "Answer sent" is up           *)
(* (answeredTimer).                                                        *)
(***************************************************************************)
IdleState == [operator |-> FALSE, talking |-> FALSE, video |-> "none"]

BlankPage == [conn |-> None, state |-> IdleState, text |-> None,
              question |-> 0, sent |-> FALSE]

SystemInit ==
    /\ Init
    /\ answering = None
    /\ wire = <<>> /\ taps = <<>>
    /\ page = BlankPage

\* The step's messages join those on their way, if the hub's channel is on the
\* connection the page has.
Transmit ==
    /\ wire' = IF screen' = page.conn THEN wire \o toScreen' ELSE wire
    /\ Len(wire') <= MaxWire

-----------------------------------------------------------------------------
\* A step of the hub that is none of the screen's doing.  Left out are frames
\* (Pump), which go to the page on its tracks and not on the channel, and
\* sessions without the key, which put nothing on the channel.
HubStep ==
    /\ \/ \E s \in Session :
             \/ Offer(s, TRUE)
             \/ OperatorConnected(s)
             \/ OperatorClosed(s)
             \/ OperatorMessage(s)
       \/ \E host \in Host \cup {None} : SetControllerHost(host)
       \/ ExpireQuestion
    /\ Transmit
    /\ UNCHANGED <<answering, taps, page>>

HubRestart ==
    /\ Restart
    /\ answering' = None
    /\ taps' = <<>>
    /\ UNCHANGED <<wire, page>>

\* connect: the page posts an offer and P2 answers it (screen_offer), which
\* closes the connection P2 had before.  k is a fresh connection.
Connect(k) ==
    /\ page.conn = None
    /\ k \notin kiosks
    /\ page' = [page EXCEPT !.conn = k]
    /\ answering' = k
    /\ wire' = <<>> /\ taps' = <<>>
    /\ UNCHANGED vars

\* The channel of the answered connection opens at P2.
Attach(k) ==
    /\ k = answering
    /\ ScreenAttached(k)
    /\ Transmit
    /\ UNCHANGED <<answering, taps, page>>

\* P2 finds the connection closed or failed.
Detach(k) ==
    /\ ScreenDetached(k)
    /\ IF answering = k THEN answering' = None /\ taps' = <<>>
                        ELSE UNCHANGED <<answering, taps>>
    /\ UNCHANGED <<wire, page>>

-----------------------------------------------------------------------------
(***************************************************************************)
(* The page.                                                               *)
(***************************************************************************)

\* Mutant of SetOffline: the question stays up.
OfflineKeepsQuestion == [page EXCEPT !.conn = None, !.state = IdleState]

\* render: the picture on the page, "none" for the idle layer.
Picture == IF page.state.operator THEN page.state.video ELSE "none"

\* setOnline(false): state and question go.  The message element is not
\* touched.
SetOffline ==
    [page EXCEPT !.conn = None, !.state = IdleState, !.question = 0, !.sent = FALSE]

\* scheduleRetry: the page finds its channel closed or its connection failed.
PageOffline ==
    /\ page.conn # None
    /\ page' = SetOffline
    /\ wire' = <<>>
    /\ UNCHANGED <<vars, answering, taps>>

\* Chromium starts anew: after a crash, or when VNC mode ends.
PageReload ==
    /\ page' = BlankPage
    /\ wire' = <<>>
    /\ UNCHANGED <<vars, answering, taps>>

\* onMessage: the page once it has handled msg.
OnMessage(msg) ==
    CASE msg.type = "screen_state" ->
            [page EXCEPT !.state = [operator |-> msg.operator,
                                    talking |-> msg.talking, video |-> msg.video]]
      [] msg.type = "screen_text" -> [page EXCEPT !.text = msg.text]
      [] msg.type = "screen_clear" -> [page EXCEPT !.text = None]
      [] msg.type = "question_show" ->
            [page EXCEPT !.question = msg.id, !.sent = FALSE]
      [] msg.type = "question_hide" ->
            IF msg.id = page.question /\ ~page.sent
            THEN [page EXCEPT !.question = 0] ELSE page

Deliver ==
    /\ wire # <<>>
    /\ page' = OnMessage(Head(wire))
    /\ wire' = Tail(wire)
    /\ UNCHANGED <<vars, answering, taps>>

\* answer: the victim taps; one answer per question.
Tap(choice) ==
    /\ page.question # 0 /\ ~page.sent
    /\ page' = [page EXCEPT !.sent = TRUE]
    /\ taps' = IF page.conn = answering
               THEN Append(taps, [id |-> page.question, choice |-> choice])
               ELSE taps
    /\ UNCHANGED <<vars, answering, wire>>

\* answeredTimer fires: hideQuestion.
HideAnswered ==
    /\ page.sent
    /\ page' = [page EXCEPT !.question = 0, !.sent = FALSE]
    /\ UNCHANGED <<vars, linkVars>>

\* handle_screen_message: the tap reaches the hub.
TapArrives ==
    /\ taps # <<>>
    /\ AnswerQuestion(Head(taps).id, Head(taps).choice)
    /\ taps' = Tail(taps)
    /\ UNCHANGED <<answering, wire, page>>

Page ==
    \/ PageOffline
    \/ PageReload
    \/ Deliver
    \/ \E choice \in Choice : Tap(choice)
    \/ HideAnswered

SystemNext ==
    \/ HubStep
    \/ \E k \in Kiosk : Connect(k) \/ Attach(k) \/ Detach(k)
    \/ TapArrives
    \/ Page
    \/ HubRestart

SystemSpec == SystemInit /\ [][SystemNext]_systemVars

\* The page handles what has arrived, and a connection that stays up carries
\* what was sent on it.
FairSystem ==
    /\ SystemSpec
    /\ WF_systemVars(Deliver)
    /\ WF_systemVars(TapArrives)

-----------------------------------------------------------------------------
(***************************************************************************)
(* Properties.                                                             *)
(***************************************************************************)

Linked == screen # None /\ page.conn = screen

\* The page is connected and has handled everything the hub sent it.
Settled == Linked /\ wire = <<>>

\* The page's fields hold what the messages can put there, and the hub's screen
\* is the connection P2 answered, as far as the page is concerned.
SystemTypeOK ==
    /\ TypeOK
    /\ answering \in Kiosk \cup {None}
    /\ taps \in Seq([id : 1 .. MaxQuestion, choice : Choice])
    /\ page \in [conn : Kiosk \cup {None},
                 state : [operator : BOOLEAN, talking : BOOLEAN, video : Video],
                 text : Text \cup {None}, question : 0 .. MaxQuestion, sent : BOOLEAN]
    /\ Linked => screen = answering

\* A settled page shows the live picture and "Rescuer is speaking" exactly while
\* the hub has them live, through reconnections on either side: no frozen
\* picture, no badge over silence (render, setOnline, screen_attached).
\* state.operator by itself may lag: claiming the floor sends no screen_state.
StateShown ==
    Settled => /\ Picture = IF floor # None THEN media.video ELSE "none"
               /\ page.state.talking = media.talking

TapUnderway == \E i \in DOMAIN taps : taps[i].id = question.id

\* The victim can tap the question that waits, or has tapped it, and can tap
\* no other: neither one that is over nor one of an earlier P2.
QuestionShown ==
    Settled =>
        /\ Waiting => \/ page.question = question.id /\ ~page.sent
                      \/ TapUnderway
        /\ page.question # 0 /\ ~page.sent => Waiting /\ page.question = question.id

\* A text that is to be on the screen is there, after every reconnection too
\* (screen_attached sends it again).  Not the converse: nothing tells a page that
\* was away of a text that was cleared meanwhile.
TextShown == Settled /\ text # None => page.text = text

\* A question that is asked reaches the victim, unless it is over or the
\* connection is lost first; so does the victim's answer reach the operator.
QuestionReaches ==
    \A id \in 1 .. MaxQuestion :
        (Linked /\ Waiting /\ question.id = id)
            ~> (\/ ~Linked \/ ~Waiting \/ question.id # id
                \/ page.question = id /\ ~page.sent)

=============================================================================
