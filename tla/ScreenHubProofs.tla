-------------------------- MODULE ScreenHubProofs --------------------------
(***************************************************************************)
(* The safety properties of ScreenHub for any sessions, hosts, screens and *)
(* number of questions, from one inductive invariant, ScreenInv.           *)
(***************************************************************************)
EXTENDS ScreenHub, TLAPS

View == [floor : {"free", "you", "other"}, can : BOOLEAN, online : BOOLEAN]

LEMMA StatusType ==
  ASSUME NEW s, NEW holder, NEW keyed, NEW host, NEW scr
  PROVE  Status(s, holder, keyed, host, scr) \in View
BY DEF Status, Can, View

\* A broadcast leaves every session in ops with its true status.
LEMMA Broadcast ==
  ASSUME NEW ops, NEW holder, NEW keyed, NEW host, NEW scr
  PROVE  /\ Statuses(ops, holder, keyed, host, scr) \in [Session -> View]
         /\ \A s \in Session : s \in ops =>
              Statuses(ops, holder, keyed, host, scr)[s]
                = Status(s, holder, keyed, host, scr)
<1>1. Blank \in View
  BY DEF Blank, View
<1>2. \A s \in Session : Status(s, holder, keyed, host, scr) \in View
  BY StatusType
<1> QED BY <1>1, <1>2 DEF Statuses

LEMMA NoQuestionType == NoQuestion \in Question
BY ScreenAssumption DEF NoQuestion, Question

LEMMA InitHolds == ASSUME Init PROVE ScreenInv
<1> USE ScreenAssumption DEF Init, IdleMedia, QuestionFor
<1>1. NoQuestion \in Question
  BY NoQuestionType
<1>2. told \in [Session -> View]
  BY Broadcast
<1>3. media \in [talking : BOOLEAN, video : Video]
  BY DEF Video
<1>4. TypeOK
  BY <1>1, <1>2, <1>3 DEF TypeOK, View
<1>5. ~Waiting /\ question.id = 0 /\ question.status = "none"
  BY DEF Waiting, NoQuestion
<1>6. FloorIsControllers /\ NothingLeft /\ QuestionTimed /\ IdsGrow
  BY <1>5 DEF FloorIsControllers, NothingLeft, QuestionTimed, IdsGrow
<1>7. StatusTold /\ QuestionTold /\ ScreenIsOpen
  BY DEF StatusTold, QuestionTold, ScreenIsOpen
<1> QED BY <1>4, <1>6, <1>7 DEF ScreenInv

LEMMA RestartStep == ASSUME Restart PROVE ScreenInv'
<1> USE ScreenAssumption DEF Restart, IdleMedia, QuestionFor
<1>1. NoQuestion \in Question
  BY NoQuestionType
<1>2. told' \in [Session -> View]
  BY Broadcast
<1>3. media' \in [talking : BOOLEAN, video : Video]
  BY DEF Video
<1>4. TypeOK'
  BY <1>1, <1>2, <1>3 DEF TypeOK, View
<1>5. ~Waiting' /\ question'.id = 0 /\ question'.status = "none"
  BY DEF Waiting, NoQuestion
<1>6. FloorIsControllers' /\ NothingLeft' /\ QuestionTimed' /\ IdsGrow'
  BY <1>5 DEF FloorIsControllers, NothingLeft, QuestionTimed, IdsGrow
<1>7. StatusTold' /\ QuestionTold' /\ ScreenIsOpen'
  BY DEF StatusTold, QuestionTold, ScreenIsOpen
<1> QED BY <1>4, <1>6, <1>7 DEF ScreenInv

\* What _end_question does to the question, its timer and the dashboards.
LEMMA EndKeeps ==
  ASSUME ScreenInv, NEW status \in {"expired", "cleared"},
         NEW ops \in SUBSET operators, EndQuestion(status, ops)
  PROVE  /\ question' \in Question /\ asked' = asked
         /\ ~Waiting' /\ timer' = 0
         /\ question'.id = question.id
         /\ (question'.status = "none" <=> question.status = "none")
         /\ seen' \in [Session -> Question]
         /\ \A s \in ops : seen'[s] = question'
<1> USE DEF ScreenInv, TypeOK, EndQuestion, Ended, Waiting, Question
<1>1. question' \in Question /\ ~Waiting' /\ question'.id = question.id
  OBVIOUS
<1>2. (question'.status = "none" <=> question.status = "none") /\ asked' = asked
  OBVIOUS
<1>3. timer' = 0
  BY DEF QuestionTimed
<1>4. seen' \in [Session -> Question]
  BY NoQuestionType
<1>5. \A s \in ops : seen'[s] = question'
  BY DEF QuestionTold
<1> QED BY <1>1, <1>2, <1>3, <1>4, <1>5

\* _release_floor, whoever is left: the floor, the keys and the dashboards
\* agree again, and nothing of the holder remains.
LEMMA ReleaseKeeps ==
  ASSUME ScreenInv, NEW ops \in SUBSET operators, NEW keyed \in SUBSET Session,
         NEW host \in Host \cup {None},
         ReleaseFloor(ops, keyed, host),
         operators' = ops, controllers' = keyed, controllerHost' = host,
         live' \subseteq Session, ops \subseteq live', UNCHANGED screenVars
  PROVE  ScreenInv'
<1> USE ScreenAssumption DEF ScreenInv, ReleaseFloor, screenVars
<1>1. /\ question' \in Question /\ asked' = asked
      /\ ~Waiting' /\ timer' = 0
      /\ question'.id = question.id
      /\ (question'.status = "none" <=> question.status = "none")
      /\ seen' \in [Session -> Question]
      /\ \A s \in ops : seen'[s] = question'
  BY EndKeeps
<1>2. told' \in [Session -> View]
  BY Broadcast
<1>3. TypeOK'
  BY <1>1, <1>2 DEF TypeOK, View, IdleMedia, Video
<1>4. FloorIsControllers' /\ NothingLeft' /\ QuestionTimed'
  BY <1>1 DEF FloorIsControllers, NothingLeft, QuestionTimed
<1>5. StatusTold'
  BY Broadcast DEF StatusTold, TypeOK
<1>6. QuestionTold' /\ ScreenIsOpen' /\ IdsGrow'
  BY <1>1 DEF QuestionTold, ScreenIsOpen, IdsGrow
<1> QED BY <1>3, <1>4, <1>5, <1>6

-----------------------------------------------------------------------------
LEMMA OfferStep ==
  ASSUME ScreenInv, NEW s \in Session, NEW withKey \in BOOLEAN, Offer(s, withKey)
  PROVE  ScreenInv'
<1> USE ScreenAssumption
    DEF ScreenInv, Offer, questionVars, screenVars, viewVars, TypeOK
<1>1. TypeOK' /\ operators' \subseteq live'
  BY DEF Question
<1>2. \A d \in operators : /\ CanControl(d) <=> CanControl(d)'
                          /\ Status(d, floor, controllers', controllerHost', screen)
                               = Status(d, floor, controllers, controllerHost, screen)
  BY DEF CanControl, Can, Status
<1>3. FloorIsControllers' /\ NothingLeft' /\ QuestionTimed'
  BY <1>2 DEF FloorIsControllers, NothingLeft, QuestionTimed, Waiting
<1>4. StatusTold'
  BY <1>2 DEF StatusTold
<1>5. QuestionTold' /\ ScreenIsOpen' /\ IdsGrow'
  BY DEF QuestionTold, ScreenIsOpen, IdsGrow
<1> QED BY <1>1, <1>3, <1>4, <1>5

LEMMA ConnectedStep ==
  ASSUME ScreenInv, NEW s \in Session, OperatorConnected(s) PROVE ScreenInv'
<1> USE ScreenAssumption
    DEF ScreenInv, OperatorConnected, questionVars, screenVars
<1>1. told' \in [Session -> View]
  BY StatusType DEF TypeOK, View
<1>2. TypeOK' /\ operators' \subseteq live'
  <2>1. seen' \in [Session -> Question]
    BY DEF TypeOK
  <2> QED BY <1>1, <2>1 DEF TypeOK, View
<1>3. FloorIsControllers' /\ NothingLeft' /\ QuestionTimed'
  BY DEF TypeOK, FloorIsControllers, CanControl, Can, NothingLeft, QuestionTimed, Waiting
<1>4. StatusTold'
  BY DEF TypeOK, StatusTold
<1>5. QuestionTold' /\ ScreenIsOpen' /\ IdsGrow'
  BY DEF TypeOK, QuestionTold, ScreenIsOpen, IdsGrow
<1> QED BY <1>2, <1>3, <1>4, <1>5

LEMMA ClosedStep ==
  ASSUME ScreenInv, NEW s \in Session, OperatorClosed(s) PROVE ScreenInv'
<1> USE DEF OperatorClosed
<1>1. CASE floor = s
  BY <1>1, ReleaseKeeps DEF ScreenInv, TypeOK
<1>2. CASE floor # s
  <2> USE <1>2, ScreenAssumption DEF ScreenInv, questionVars, screenVars, TypeOK
  <2>1. TypeOK' /\ operators' \subseteq live'
    <3>1. told' \in [Session -> View]
      <4>1. Blank \in View
        BY DEF Blank, View
      <4>2. told \in [Session -> View]
        BY DEF View
      <4> QED BY <4>1, <4>2
    <3>2. seen' \in [Session -> Question]
      BY NoQuestionType
    <3> QED BY <3>1, <3>2 DEF View
  <2>2. \A d \in operators' :
          /\ d # s
          /\ CanControl(d) <=> CanControl(d)'
          /\ Status(d, floor, controllers', controllerHost', screen)
               = Status(d, floor, controllers, controllerHost, screen)
    BY DEF CanControl, Can, Status
  <2>3. FloorIsControllers' /\ NothingLeft' /\ QuestionTimed'
    BY <2>2 DEF FloorIsControllers, NothingLeft, QuestionTimed, Waiting
  <2>4. StatusTold'
    BY <2>2 DEF StatusTold
  <2>5. QuestionTold' /\ ScreenIsOpen' /\ IdsGrow'
    BY <2>2 DEF QuestionTold, ScreenIsOpen, IdsGrow
  <2> QED BY <2>1, <2>3, <2>4, <2>5
<1> QED BY <1>1, <1>2

LEMMA HostStep ==
  ASSUME ScreenInv, NEW host \in Host \cup {None}, SetControllerHost(host)
  PROVE  ScreenInv'
<1> USE DEF SetControllerHost
<1>1. CASE floor # None /\ ~Can(floor, controllers, host)
  BY <1>1, ReleaseKeeps DEF ScreenInv, TypeOK
<1>2. CASE ~(floor # None /\ ~Can(floor, controllers, host))
  <2> USE <1>2, ScreenAssumption DEF ScreenInv, questionVars, screenVars, TypeOK
  <2>1. TypeOK' /\ operators' \subseteq live'
    BY Broadcast DEF View
  <2>2. FloorIsControllers' /\ NothingLeft' /\ QuestionTimed'
    BY DEF FloorIsControllers, CanControl, NothingLeft, QuestionTimed, Waiting
  <2>3. StatusTold'
    BY Broadcast DEF StatusTold
  <2>4. QuestionTold' /\ ScreenIsOpen' /\ IdsGrow'
    BY DEF QuestionTold, ScreenIsOpen, IdsGrow
  <2> QED BY <2>1, <2>2, <2>3, <2>4
<1> QED BY <1>1, <1>2

LEMMA ReleaseStep ==
  ASSUME ScreenInv, NEW s \in Session, FloorRelease(s) PROVE ScreenInv'
BY ReleaseKeeps DEF ScreenInv, TypeOK, FloorRelease, peerVars

-----------------------------------------------------------------------------
\* What a message that claims the floor leaves alone, and what it proves.
LEMMA ClaimGives ==
  ASSUME ScreenInv, NEW s \in Session, ClaimFloor(s)
  PROVE  /\ floor' = s /\ s \in operators /\ CanControl(s)
         /\ UNCHANGED <<peerVars, screenVars>>
         /\ told' \in [Session -> View]
         /\ FloorIsControllers' /\ StatusTold' /\ ScreenIsOpen'
<1> USE DEF ClaimFloor, MaySend, peerVars, screenVars
<1>1. told' \in [Session -> View]
  BY Broadcast DEF ScreenInv, TypeOK, View
<1>2. FloorIsControllers'
  BY DEF FloorIsControllers, CanControl
<1>3. StatusTold'
  BY Broadcast DEF ScreenInv, StatusTold, TypeOK
<1>4. ScreenIsOpen'
  BY DEF ScreenInv, ScreenIsOpen
<1> QED BY <1>1, <1>2, <1>3, <1>4

\* screen_text, screen_clear and media_state change only what is shown.
LEMMA ShowStep ==
  ASSUME ScreenInv, NEW s \in Session, ClaimFloor(s),
         media' \in [talking : BOOLEAN, video : Video],
         text' \in Text \cup {None},
         UNCHANGED <<frames, questionVars, seen>>
  PROVE  ScreenInv'
<1> USE ScreenAssumption DEF ScreenInv, questionVars
<1>1. /\ floor' = s /\ s \in operators
      /\ UNCHANGED <<peerVars, screenVars>>
      /\ told' \in [Session -> View]
      /\ FloorIsControllers' /\ StatusTold' /\ ScreenIsOpen'
  BY ClaimGives
<1>2. TypeOK' /\ operators' \subseteq live'
  BY <1>1 DEF TypeOK, View, peerVars, screenVars
<1>3. NothingLeft'
  <2>1. frames \subseteq {s}
    BY DEF NothingLeft, ClaimFloor, TypeOK
  <2> QED BY <1>1, <2>1, <1>2 DEF NothingLeft, TypeOK
<1>4. QuestionTimed' /\ QuestionTold' /\ IdsGrow'
  BY <1>1 DEF QuestionTimed, Waiting, QuestionTold, IdsGrow, peerVars
<1> QED BY <1>1, <1>2, <1>3, <1>4

LEMMA MediaStep ==
  ASSUME ScreenInv, NEW s \in Session, NEW talking \in BOOLEAN, NEW video \in Video,
         MediaState(s, talking, video)
  PROVE  ScreenInv'
<1>1. text' \in Text \cup {None}
  BY DEF MediaState, ScreenInv, TypeOK
<1> QED BY <1>1, ShowStep DEF MediaState

LEMMA TextStep ==
  ASSUME ScreenInv, NEW s \in Session, NEW x \in Text, ScreenText(s, x)
  PROVE  ScreenInv'
BY ShowStep DEF ScreenInv, TypeOK, ScreenText

LEMMA ClearStep ==
  ASSUME ScreenInv, NEW s \in Session, ScreenClear(s) PROVE ScreenInv'
BY ShowStep DEF ScreenInv, TypeOK, ScreenClear

LEMMA AskStep ==
  ASSUME ScreenInv, NEW s \in Session, AskQuestion(s) PROVE ScreenInv'
<1> USE ScreenAssumption DEF ScreenInv, AskQuestion, ArmTimer
<1>1. /\ floor' = s /\ s \in operators
      /\ UNCHANGED <<peerVars, screenVars>>
      /\ told' \in [Session -> View]
      /\ FloorIsControllers' /\ StatusTold' /\ ScreenIsOpen'
  BY ClaimGives
<1>2. /\ question' \in Question
      /\ asked' \in 1 .. MaxQuestion /\ timer' = asked'
      /\ question'.id = asked' /\ question'.status = "waiting"
      /\ question'.answer = None
  BY DEF TypeOK, Question
<1>3. TypeOK' /\ operators' \subseteq live'
  <2>1. seen' \in [Session -> Question]
    BY <1>2, NoQuestionType DEF QuestionFor
  <2> QED BY <1>1, <1>2, <2>1 DEF TypeOK, View, peerVars, screenVars
<1>4. NothingLeft'
  BY <1>1, <1>3 DEF NothingLeft, ClaimFloor, TypeOK
<1>5. QuestionTimed' /\ IdsGrow'
  BY <1>2 DEF QuestionTimed, Waiting, IdsGrow
<1>6. QuestionTold'
  BY <1>1, <1>3 DEF QuestionTold, QuestionFor, TypeOK, peerVars
<1> QED BY <1>1, <1>3, <1>4, <1>5, <1>6

LEMMA DismissStep ==
  ASSUME ScreenInv, NEW s \in Session, ClearQuestion(s) PROVE ScreenInv'
<1> USE ScreenAssumption DEF ScreenInv, ClearQuestion
<1>1. /\ floor' = s /\ s \in operators
      /\ UNCHANGED <<peerVars, screenVars>>
      /\ told' \in [Session -> View]
      /\ FloorIsControllers' /\ StatusTold' /\ ScreenIsOpen'
  BY ClaimGives
<1>2. question' = NoQuestion /\ question' \in Question /\ ~Waiting' /\ timer' = 0
  BY NoQuestionType DEF NoQuestion, Waiting, QuestionTimed
<1>3. TypeOK' /\ operators' \subseteq live'
  <2>1. seen' \in [Session -> Question]
    BY NoQuestionType DEF TypeOK
  <2> QED BY <1>1, <1>2, <2>1 DEF TypeOK, View, peerVars, screenVars
<1>4. NothingLeft'
  BY <1>1, <1>3 DEF NothingLeft, ClaimFloor, TypeOK
<1>5. QuestionTimed' /\ IdsGrow'
  BY <1>2 DEF QuestionTimed, IdsGrow, NoQuestion, TypeOK
<1>6. QuestionTold'
  BY <1>1, <1>2 DEF QuestionTold, TypeOK, peerVars
<1> QED BY <1>1, <1>3, <1>4, <1>5, <1>6

LEMMA PumpStep ==
  ASSUME ScreenInv, NEW s \in Session, Pump(s) \/ Ignored(s) PROVE ScreenInv'
<1> USE ScreenAssumption
    DEF ScreenInv, Pump, Ignored, peerVars, questionVars, screenVars, viewVars
<1>1. TypeOK' /\ operators' \subseteq live' /\ NothingLeft'
  BY DEF TypeOK, NothingLeft, Waiting
<1>2. FloorIsControllers' /\ StatusTold'
  BY DEF FloorIsControllers, CanControl, StatusTold
<1>3. QuestionTimed' /\ QuestionTold' /\ ScreenIsOpen' /\ IdsGrow'
  BY DEF QuestionTimed, Waiting, QuestionTold, ScreenIsOpen, IdsGrow
<1> QED BY <1>1, <1>2, <1>3

-----------------------------------------------------------------------------
\* The timer and the taps change only the question's part of the state.
LEMMA QuestionOnly ==
  ASSUME ScreenInv,
         UNCHANGED <<peerVars, floor, media, text, frames, asked, screenVars, told>>,
         question' \in Question, timer' = 0, ~Waiting',
         question'.id = question.id,
         question'.status = "none" <=> question.status = "none",
         seen' \in [Session -> Question],
         \A s \in operators : seen'[s] = question'
  PROVE  ScreenInv'
<1> USE ScreenAssumption DEF ScreenInv, peerVars, screenVars
<1>1. TypeOK' /\ operators' \subseteq live'
  BY DEF TypeOK
<1>2. FloorIsControllers' /\ NothingLeft' /\ StatusTold' /\ ScreenIsOpen'
  BY DEF FloorIsControllers, CanControl, NothingLeft, StatusTold, ScreenIsOpen
<1>3. QuestionTimed' /\ QuestionTold' /\ IdsGrow'
  BY DEF QuestionTimed, QuestionTold, IdsGrow
<1> QED BY <1>1, <1>2, <1>3

LEMMA ExpireStep == ASSUME ScreenInv, ExpireQuestion PROVE ScreenInv'
<1>1. question.id = timer
  BY DEF ExpireQuestion, ScreenInv, QuestionTimed
<1>2. EndQuestion("expired", operators)
  BY <1>1 DEF ExpireQuestion
<1>3. /\ question' \in Question /\ asked' = asked
      /\ ~Waiting' /\ timer' = 0
      /\ question'.id = question.id
      /\ (question'.status = "none" <=> question.status = "none")
      /\ seen' \in [Session -> Question]
      /\ \A s \in operators : seen'[s] = question'
  BY <1>2, EndKeeps
<1> QED BY <1>3, QuestionOnly DEF ExpireQuestion

LEMMA AnswerStep ==
  ASSUME ScreenInv, NEW id \in 1 .. MaxQuestion, NEW choice \in Choice \cup {BadChoice},
         AnswerQuestion(id, choice)
  PROVE  ScreenInv'
<1>1. CASE Accepts(id, choice)
  <2> USE <1>1 DEF AnswerQuestion, Accepts, ScreenInv, TypeOK, Question
  <2>1. /\ question' \in Question /\ question'.id = question.id
        /\ question'.status = "answered" /\ question.status = "waiting"
    BY DEF Waiting
  <2>2. timer' = 0 /\ ~Waiting'
    BY <2>1 DEF Waiting
  <2>3. seen' = QuestionFor(operators, question')
    OBVIOUS
  <2>4. seen' \in [Session -> Question] /\ \A s \in operators : seen'[s] = question'
    BY <2>1, <2>3, NoQuestionType DEF QuestionFor
  <2> QED BY <2>1, <2>2, <2>4, QuestionOnly
<1>2. CASE ~Accepts(id, choice)
  <2> USE <1>2 DEF AnswerQuestion, ScreenInv, peerVars, screenVars
  <2>1. TypeOK' /\ operators' \subseteq live'
    BY DEF TypeOK
  <2>2. FloorIsControllers' /\ NothingLeft' /\ StatusTold' /\ ScreenIsOpen'
    BY DEF FloorIsControllers, CanControl, NothingLeft, Waiting, StatusTold, ScreenIsOpen
  <2>3. QuestionTimed' /\ QuestionTold' /\ IdsGrow'
    BY DEF QuestionTimed, Waiting, QuestionTold, IdsGrow
  <2> QED BY <2>1, <2>2, <2>3
<1> QED BY <1>1, <1>2

LEMMA KioskStep ==
  ASSUME ScreenInv, NEW k \in Kiosk, ScreenAttached(k) \/ ScreenDetached(k)
  PROVE  ScreenInv'
<1> USE ScreenAssumption
    DEF ScreenInv, ScreenAttached, ScreenDetached, peerVars, questionVars
<1>1. told' \in [Session -> View]
  BY Broadcast DEF TypeOK, View
<1>2. TypeOK' /\ operators' \subseteq live'
  BY <1>1 DEF TypeOK, View
<1>3. FloorIsControllers' /\ NothingLeft' /\ QuestionTimed'
  BY DEF FloorIsControllers, CanControl, NothingLeft, QuestionTimed, Waiting
<1>4. StatusTold'
  BY Broadcast DEF StatusTold, TypeOK
<1>5. QuestionTold' /\ ScreenIsOpen' /\ IdsGrow'
  BY DEF QuestionTold, ScreenIsOpen, IdsGrow, TypeOK
<1> QED BY <1>2, <1>3, <1>4, <1>5

LEMMA NextStep == ASSUME ScreenInv, [Next]_vars PROVE ScreenInv'
<1>1. ASSUME NEW s \in Session, Peer(s) PROVE ScreenInv'
  BY <1>1, OfferStep, ConnectedStep, ClosedStep, PumpStep DEF Peer
<1>2. ASSUME NEW s \in Session, OperatorMessage(s) PROVE ScreenInv'
  BY <1>2, PumpStep, ReleaseStep, MediaStep, TextStep, ClearStep,
          AskStep, DismissStep
     DEF OperatorMessage
<1>3. CASE ExpireQuestion
  BY <1>3, ExpireStep
<1>4. CASE Restart
  BY <1>4, RestartStep
<1>5. CASE UNCHANGED vars
  <2> USE <1>5 DEF ScreenInv, vars, peerVars, questionVars, screenVars, viewVars
  <2>1. TypeOK' /\ operators' \subseteq live' /\ NothingLeft'
    BY DEF TypeOK, NothingLeft, Waiting
  <2>2. FloorIsControllers' /\ StatusTold' /\ ScreenIsOpen'
    BY DEF FloorIsControllers, CanControl, StatusTold, ScreenIsOpen
  <2>3. QuestionTimed' /\ QuestionTold' /\ IdsGrow'
    BY DEF QuestionTimed, Waiting, QuestionTold, IdsGrow
  <2> QED BY <2>1, <2>2, <2>3
<1>6. CASE \E host \in Host \cup {None} : SetControllerHost(host)
  BY <1>6, HostStep
<1>7. CASE \E id \in 1 .. MaxQuestion, choice \in Choice \cup {BadChoice} :
             AnswerQuestion(id, choice)
  BY <1>7, AnswerStep
<1>8. CASE \E k \in Kiosk : ScreenAttached(k) \/ ScreenDetached(k)
  BY <1>8, KioskStep
<1> QED BY <1>1, <1>2, <1>3, <1>4, <1>5, <1>6, <1>7, <1>8 DEF Next

-----------------------------------------------------------------------------
\* The inductive invariant of the talk-to-victim hub.
THEOREM ScreenCorrect == Spec => []ScreenInv
BY InitHolds, NextStep, PTL DEF Spec

\* Every field keeps its type, a malformed tap included.
THEOREM TypeCorrect == Spec => []TypeOK
<1>1. ScreenInv => TypeOK
  BY DEF ScreenInv
<1> QED BY <1>1, ScreenCorrect, PTL

\* Only a connected session of P1's controller ever has the floor
\* (_claim_floor, set_controller_host, operator_closed).
THEOREM FloorFollowsControl == Spec => []FloorIsControllers
<1>1. ScreenInv => FloorIsControllers
  BY DEF ScreenInv
<1> QED BY <1>1, ScreenCorrect, PTL

\* What the hub keeps of an operator goes with the hold of the floor
\* (_release_floor).
THEOREM ReleaseClears == Spec => []NothingLeft
<1>1. ScreenInv => NothingLeft
  BY DEF ScreenInv
<1> QED BY <1>1, ScreenCorrect, PTL

\* The armed timer is the waiting question's (_ask_question, _end_question).
THEOREM OneTimer == Spec => []QuestionTimed
<1>1. ScreenInv => QuestionTimed
  BY DEF ScreenInv
<1> QED BY <1>1, ScreenCorrect, PTL

\* Dashboards are told of every change that concerns them (_broadcast_status,
\* _broadcast_question).
THEOREM DashboardsTold == Spec => [](StatusTold /\ QuestionTold)
<1>1. ScreenInv => StatusTold /\ QuestionTold
  BY DEF ScreenInv
<1> QED BY <1>1, ScreenCorrect, PTL

\* Every connected dashboard shows the question there is, with its outcome, and
\* none that was dismissed (_broadcast_question, operator_connected).
THEOREM QuestionsTold == Spec => []QuestionTold
<1>1. ScreenInv => QuestionTold
  BY DEF ScreenInv
<1> QED BY <1>1, ScreenCorrect, PTL

\* A decided question stays as it was decided (_answer_question,
\* expire_question).
THEOREM DecidedOnce == Spec => OutcomeFinal
<1> DEFINE Decided == question.status \in {"answered", "expired", "cleared"}
<1>1. ASSUME ScreenInv, [Next]_vars, Decided, question'.id = question.id
      PROVE  question' = question
  <2> USE <1>1 DEF ScreenInv
  <2>1. ~Waiting /\ question.id # 0 /\ question.id <= asked
    BY DEF Waiting, IdsGrow
  <2>2. ASSUME NEW status, NEW ops, EndQuestion(status, ops)
        PROVE  question' = question
    BY <2>1, <2>2 DEF EndQuestion, Ended
  <2>3. ASSUME NEW s \in Session, AskQuestion(s) PROVE FALSE
    BY <2>1, <2>3 DEF AskQuestion, TypeOK, Question
  <2>4. ASSUME NEW s \in Session, ClearQuestion(s) PROVE FALSE
    BY <2>1, <2>4 DEF ClearQuestion, NoQuestion
  <2>5. ASSUME NEW s \in Session, Peer(s) PROVE question' = question
    BY <2>2, <2>5 DEF Peer, Offer, OperatorConnected, OperatorClosed, Pump,
         ReleaseFloor, questionVars
  <2>6. ASSUME NEW s \in Session, OperatorMessage(s) PROVE question' = question
    BY <2>2, <2>3, <2>4, <2>6 DEF OperatorMessage, Ignored, FloorRelease,
         ReleaseFloor, MediaState, ScreenText, ScreenClear, questionVars
  <2>7. CASE Restart
    BY <2>1, <2>7 DEF Restart, NoQuestion
  <2>8. CASE ExpireQuestion
    BY <2>2, <2>8 DEF ExpireQuestion
  <2>9. ASSUME NEW host \in Host \cup {None}, SetControllerHost(host)
        PROVE  question' = question
    BY <2>2, <2>9 DEF SetControllerHost, ReleaseFloor, questionVars
  <2>10. ASSUME NEW id, NEW choice, AnswerQuestion(id, choice)
         PROVE  question' = question
    BY <2>1, <2>10 DEF AnswerQuestion, Accepts
  <2>11. ASSUME NEW k \in Kiosk, ScreenAttached(k) \/ ScreenDetached(k)
         PROVE  question' = question
    BY <2>11 DEF ScreenAttached, ScreenDetached, questionVars
  <2>12. CASE UNCHANGED vars
    BY <2>12 DEF vars, questionVars
  <2> QED BY <2>5, <2>6, <2>7, <2>8, <2>9, <2>10, <2>11, <2>12 DEF Next
<1>2. ScreenInv /\ [Next]_vars
        => [Decided /\ question'.id = question.id => question' = question]_vars
  BY <1>1
<1> QED BY <1>2, ScreenCorrect, PTL DEF Spec, OutcomeFinal

\* A late close of an old screen connection does not take the new one off
\* line (screen_detached).
THEOREM NewScreenStays == Spec => ScreenKept
<1> DEFINE Kept == screen # None /\ screen' # screen =>
                     screen \notin kiosks' \/ screen' \in kiosks' \ kiosks
<1>1. ASSUME ScreenInv, [Next]_vars PROVE Kept
  <2>1. CASE UNCHANGED screenVars
    BY <2>1 DEF screenVars
  <2>2. ASSUME NEW s \in Session, Peer(s) \/ OperatorMessage(s)
        PROVE  UNCHANGED screenVars
    BY <2>2 DEF Peer, Offer, OperatorConnected, OperatorClosed, Pump,
         OperatorMessage, Ignored, FloorRelease, MediaState, ScreenText,
         ScreenClear, AskQuestion, ClearQuestion, ClaimFloor
  <2>3. CASE \E host \in Host \cup {None} : SetControllerHost(host)
    BY <2>1, <2>3 DEF SetControllerHost
  <2>4. CASE ExpireQuestion
    BY <2>1, <2>4 DEF ExpireQuestion
  <2>5. ASSUME NEW id, NEW choice, AnswerQuestion(id, choice)
        PROVE  UNCHANGED screenVars
    BY <2>5 DEF AnswerQuestion
  <2>6. ASSUME NEW k \in Kiosk, ScreenAttached(k) PROVE Kept
    BY <2>6 DEF ScreenAttached
  <2>7. ASSUME NEW k \in Kiosk, ScreenDetached(k) PROVE Kept
    BY <2>7 DEF ScreenDetached
  <2>8. CASE Restart
    BY <2>8 DEF Restart
  <2>9. CASE UNCHANGED vars
    BY <2>1, <2>9 DEF vars
  <2> QED BY <1>1, <2>1, <2>2, <2>3, <2>4, <2>5, <2>6, <2>7, <2>8, <2>9 DEF Next
<1>2. ScreenInv /\ [Next]_vars => [Kept]_vars
  BY <1>1
<1> QED BY <1>2, ScreenCorrect, PTL DEF Spec, ScreenKept
=============================================================================
