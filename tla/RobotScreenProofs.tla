------------------------- MODULE RobotScreenProofs -------------------------
(***************************************************************************)
(* The Robot Screen page and the hub together, for any sessions, hosts,    *)
(* connections and texts: the page leaves the hub what ScreenHub says it   *)
(* is, and shows the hub's picture, badge and text when it has handled     *)
(* what was sent to it.                                                    *)
(*                                                                         *)
(* The page runs behind the hub by what is on the wire.  The invariants    *)
(* below say that the last message of a kind on the wire, or the page if   *)
(* there is none, has what the hub has.                                    *)
(***************************************************************************)
EXTENDS RobotScreen, ScreenHubProofs, SequenceTheorems

TapMsg == [id : 1 .. MaxQuestion, choice : Choice]

StateMsgs ==
    [type : {"screen_state"}, operator : BOOLEAN, talking : BOOLEAN, video : Video]

Msg ==
    StateMsgs \cup [type : {"screen_text"}, text : Text] \cup {ClearMsg}
        \cup [type : {"question_show", "question_hide"}, id : 1 .. MaxQuestion]

ScreenState == [operator : BOOLEAN, talking : BOOLEAN, video : Video]

PageState ==
    [conn : Kiosk \cup {None}, state : ScreenState, text : Text \cup {None},
     question : 0 .. MaxQuestion, sent : BOOLEAN]

\* The types of the link, and that the hub's screen is the connection P2
\* answered.
LinkInv ==
    /\ answering \in Kiosk \cup {None}
    /\ taps \in Seq(TapMsg)
    /\ wire \in Seq(Msg)
    /\ page \in PageState
    /\ Linked => screen = answering

\* No message in w is of the kinds K, and: the last one that is, is in M.
Quiet(w, K) == \A i \in 1 .. Len(w) : w[i].type \notin K

Ends(w, K, M) ==
    \E i \in 1 .. Len(w) :
        w[i] \in M /\ \A j \in 1 .. Len(w) : j > i => w[j].type \notin K

TextKinds == {"screen_text", "screen_clear"}
StateKinds == {"screen_state"}

TextInv ==
    Linked /\ text # None =>
        \/ Ends(wire, TextKinds, {TextMsg(text)})
        \/ Quiet(wire, TextKinds) /\ page.text = text

\* The hub's picture, and the screen_states that show it.
Live == IF floor # None THEN media.video ELSE "none"

LiveStates ==
    {s \in ScreenState : /\ (IF s.operator THEN s.video ELSE "none") = Live
                         /\ s.talking = media.talking}

StateOf(m) == [operator |-> m.operator, talking |-> m.talking, video |-> m.video]

TrueMsgs == {m \in StateMsgs : StateOf(m) \in LiveStates}

StateInv ==
    Linked =>
        \/ Ends(wire, StateKinds, TrueMsgs)
        \/ Quiet(wire, StateKinds) /\ page.state \in LiveStates

-----------------------------------------------------------------------------
(***************************************************************************)
(* Sequences of messages.                                                  *)
(***************************************************************************)
LEMMA QuietConcat ==
  ASSUME NEW S, NEW u \in Seq(S), NEW v \in Seq(S), NEW K, Quiet(u, K), Quiet(v, K)
  PROVE  Quiet(u \o v, K)
<1> DEFINE c == u \o v
<1>1. /\ Len(u) \in Nat /\ Len(v) \in Nat /\ Len(c) = Len(u) + Len(v)
      /\ \A i \in 1 .. Len(u) + Len(v) : c[i] = IF i <= Len(u) THEN u[i] ELSE v[i - Len(u)]
  BY ConcatProperties, LenProperties
<1> HIDE DEF c
<1> SUFFICES ASSUME NEW i \in 1 .. Len(c) PROVE c[i].type \notin K
  BY DEF Quiet, c
<1>2. CASE i <= Len(u)
  <2>1. i \in 1 .. Len(u) /\ c[i] = u[i]
    BY <1>1, <1>2
  <2> QED BY <2>1 DEF Quiet
<1>3. CASE ~(i <= Len(u))
  <2>1. i - Len(u) \in 1 .. Len(v) /\ c[i] = v[i - Len(u)]
    BY <1>1, <1>3
  <2> QED BY <2>1 DEF Quiet
<1> QED BY <1>2, <1>3

LEMMA EndsConcat ==
  ASSUME NEW S, NEW u \in Seq(S), NEW v \in Seq(S), NEW K, NEW M, Ends(v, K, M)
  PROVE  Ends(u \o v, K, M)
<1> DEFINE c == u \o v
<1>1. /\ Len(u) \in Nat /\ Len(v) \in Nat /\ Len(c) = Len(u) + Len(v)
      /\ \A i \in 1 .. Len(u) + Len(v) : c[i] = IF i <= Len(u) THEN u[i] ELSE v[i - Len(u)]
  BY ConcatProperties, LenProperties
<1> HIDE DEF c
<1>2. PICK i \in 1 .. Len(v) :
         v[i] \in M /\ \A j \in 1 .. Len(v) : j > i => v[j].type \notin K
  BY DEF Ends
<1>3. Len(u) + i \in 1 .. Len(c) /\ c[Len(u) + i] = v[i]
  BY <1>1
<1>4. ASSUME NEW j \in 1 .. Len(c), j > Len(u) + i PROVE c[j].type \notin K
  <2>1. j - Len(u) \in 1 .. Len(v) /\ j - Len(u) > i /\ c[j] = v[j - Len(u)]
    BY <1>1, <1>4
  <2> QED BY <1>2, <2>1
<1> QED BY <1>2, <1>3, <1>4 DEF Ends, c

LEMMA EndsQuiet ==
  ASSUME NEW S, NEW u \in Seq(S), NEW v \in Seq(S), NEW K, NEW M,
         Ends(u, K, M), Quiet(v, K)
  PROVE  Ends(u \o v, K, M)
<1> DEFINE c == u \o v
<1>1. /\ Len(u) \in Nat /\ Len(v) \in Nat /\ Len(c) = Len(u) + Len(v)
      /\ \A i \in 1 .. Len(u) + Len(v) : c[i] = IF i <= Len(u) THEN u[i] ELSE v[i - Len(u)]
  BY ConcatProperties, LenProperties
<1> HIDE DEF c
<1>2. PICK i \in 1 .. Len(u) :
         u[i] \in M /\ \A j \in 1 .. Len(u) : j > i => u[j].type \notin K
  BY DEF Ends
<1>3. i \in 1 .. Len(c) /\ c[i] = u[i]
  BY <1>1
<1>4. ASSUME NEW j \in 1 .. Len(c), j > i PROVE c[j].type \notin K
  <2>1. CASE j <= Len(u)
    <3>1. j \in 1 .. Len(u) /\ c[j] = u[j]
      BY <1>1, <2>1
    <3> QED BY <1>2, <1>4, <3>1
  <2>2. CASE ~(j <= Len(u))
    <3>1. j - Len(u) \in 1 .. Len(v) /\ c[j] = v[j - Len(u)]
      BY <1>1, <2>2
    <3> QED BY <3>1 DEF Quiet
  <2> QED BY <2>1, <2>2
<1> QED BY <1>2, <1>3, <1>4 DEF Ends, c

LEMMA NothingQuiet == \A K : Quiet(<<>>, K)
<1>1. Len(<<>>) = 0
  BY EmptySeq
<1> QED BY <1>1 DEF Quiet

LEMMA OneQuiet ==
  ASSUME NEW m \in Msg, NEW K, m.type \notin K
  PROVE  <<m>> \in Seq(Msg) /\ Quiet(<<m>>, K)
<1>1. Len(<<m>>) = 1 /\ <<m>>[1] = m
  OBVIOUS
<1> QED BY <1>1 DEF Quiet

LEMMA OneEnds ==
  ASSUME NEW m \in Msg, NEW K, NEW M, m \in M
  PROVE  <<m>> \in Seq(Msg) /\ Ends(<<m>>, K, M)
<1>1. 1 \in 1 .. Len(<<m>>) /\ <<m>>[1] \in M
  OBVIOUS
<1>2. \A j \in 1 .. Len(<<m>>) : ~(j > 1)
  OBVIOUS
<1> QED BY <1>1, <1>2 DEF Ends

\* What the page is to do with the first message on the wire.
LEMMA TailSays ==
  ASSUME NEW S, NEW w \in Seq(S), w # <<>>, NEW K, NEW M
  PROVE  /\ Quiet(w, K) => Quiet(Tail(w), K) /\ Head(w).type \notin K
         /\ Ends(w, K, M) => \/ Ends(Tail(w), K, M)
                             \/ Head(w) \in M /\ Quiet(Tail(w), K)
<1> DEFINE t == Tail(w)
<1>1. Len(w) \in Nat /\ Len(w) > 0
  BY EmptySeq
<1>2. Len(t) = Len(w) - 1 /\ (\A i \in 1 .. Len(t) : t[i] = w[i + 1]) /\ Head(w) = w[1]
  BY HeadTailProperties
<1> HIDE DEF t
<1>3. ASSUME Quiet(w, K) PROVE Quiet(t, K) /\ Head(w).type \notin K
  <2>1. ASSUME NEW i \in 1 .. Len(t) PROVE t[i].type \notin K
    <3>1. i + 1 \in 1 .. Len(w) /\ t[i] = w[i + 1]
      BY <1>1, <1>2
    <3> QED BY <1>3, <3>1 DEF Quiet
  <2>2. 1 \in 1 .. Len(w)
    BY <1>1
  <2> QED BY <1>2, <1>3, <2>1, <2>2 DEF Quiet
<1>4. ASSUME Ends(w, K, M) PROVE Ends(t, K, M) \/ (Head(w) \in M /\ Quiet(t, K))
  <2>1. PICK i \in 1 .. Len(w) :
           w[i] \in M /\ \A j \in 1 .. Len(w) : j > i => w[j].type \notin K
    BY <1>4 DEF Ends
  <2>2. \A j \in 1 .. Len(t) : j + 1 \in 1 .. Len(w) /\ t[j] = w[j + 1]
    BY <1>1, <1>2
  <2>3. CASE i = 1
    <3>1. \A j \in 1 .. Len(t) : t[j].type \notin K
      BY <2>1, <2>2, <2>3
    <3> QED BY <1>2, <2>1, <2>3, <3>1 DEF Quiet
  <2>4. CASE i # 1
    <3>1. i - 1 \in 1 .. Len(t) /\ t[i - 1] = w[i]
      BY <1>1, <1>2, <2>4
    <3>2. \A j \in 1 .. Len(t) : j > i - 1 => t[j].type \notin K
      BY <2>1, <2>2
    <3> QED BY <2>1, <3>1, <3>2 DEF Ends
  <2> QED BY <2>3, <2>4
<1> QED BY <1>3, <1>4 DEF t

-----------------------------------------------------------------------------
(***************************************************************************)
(* What a step of the hub puts on the screen's channel.                    *)
(***************************************************************************)
TextSent ==
    \/ text' = None
    \/ text' = text /\ Quiet(toScreen', TextKinds)
    \/ Ends(toScreen', TextKinds, {TextMsg(text')})

StateSent ==
    \/ Live' = Live /\ media'.talking = media.talking /\ Quiet(toScreen', StateKinds)
    \/ Ends(toScreen', StateKinds, TrueMsgs')

Sends == toScreen' \in Seq(Msg) /\ (screen # None => TextSent /\ StateSent)

LEMMA MessageTypes ==
  ASSUME ScreenInv
  PROVE  /\ media \in [talking : BOOLEAN, video : Video]
         /\ \A h, m : m \in [talking : BOOLEAN, video : Video] =>
               /\ StateMsg(h, m) \in StateMsgs /\ StateMsg(h, m) \in Msg
               /\ StateMsg(h, m).type = "screen_state"
         /\ ClearMsg \in Msg /\ ClearMsg.type = "screen_clear"
         /\ \A x \in Text : TextMsg(x) \in Msg /\ TextMsg(x).type = "screen_text"
         /\ \A n \in 1 .. MaxQuestion :
               /\ ShowMsg(n) \in Msg /\ ShowMsg(n).type = "question_show"
               /\ HideMsg(n) \in Msg /\ HideMsg(n).type = "question_hide"
         /\ Waiting => question.id \in 1 .. MaxQuestion
<1>1. media \in [talking : BOOLEAN, video : Video]
  BY DEF ScreenInv, TypeOK
<1>2. ASSUME NEW h, NEW m \in [talking : BOOLEAN, video : Video]
      PROVE  /\ StateMsg(h, m) \in StateMsgs /\ StateMsg(h, m) \in Msg
             /\ StateMsg(h, m).type = "screen_state"
  BY <1>2 DEF StateMsg, StateMsgs, Msg
<1>3. ClearMsg \in Msg /\ ClearMsg.type = "screen_clear"
  BY DEF ClearMsg, Msg
<1>4. \A x \in Text : TextMsg(x) \in Msg /\ TextMsg(x).type = "screen_text"
  BY DEF TextMsg, Msg
<1>5. \A n \in 1 .. MaxQuestion :
               /\ ShowMsg(n) \in Msg /\ ShowMsg(n).type = "question_show"
               /\ HideMsg(n) \in Msg /\ HideMsg(n).type = "question_hide"
  BY DEF ShowMsg, HideMsg, Msg
<1>6. Waiting => question.id \in 1 .. MaxQuestion
  <2>1. question.id \in 0 .. MaxQuestion /\ (question.id = 0 <=> question.status = "none")
    BY DEF ScreenInv, TypeOK, Question, IdsGrow
  <2>2. Waiting => question.id # 0
    BY <2>1 DEF Waiting
  <2> QED BY <2>1, <2>2, ScreenAssumption
<1> QED BY <1>1, <1>2, <1>3, <1>4, <1>5, <1>6

\* The state message of a step shows what the step makes live.
LEMMA TrueMsg ==
  ASSUME media' \in [talking : BOOLEAN, video : Video]
  PROVE  StateMsg(floor', media') \in TrueMsgs'
<1> DEFINE m == StateMsg(floor', media')
<1>1. m \in StateMsgs /\ m.operator = (floor' # None) /\ m.talking = media'.talking
      /\ m.video = media'.video
  BY DEF StateMsg, StateMsgs
<1> HIDE DEF m
<1>2. StateOf(m) \in ScreenState /\ StateOf(m).operator = (floor' # None)
      /\ StateOf(m).talking = media'.talking /\ StateOf(m).video = media'.video
  BY <1>1 DEF StateOf, ScreenState, StateMsgs
<1>3. StateOf(m) \in LiveStates'
  BY <1>2 DEF LiveStates, Live
<1> QED BY <1>1, <1>3 DEF TrueMsgs, m

\* Nothing, or one message about the question.
QuestionSent ==
    \/ toScreen' = <<>>
    \/ \E n \in 1 .. MaxQuestion : toScreen' \in {<<ShowMsg(n)>>, <<HideMsg(n)>>}

LEMMA QuestionQuiet ==
  ASSUME ScreenInv, QuestionSent
  PROVE  toScreen' \in Seq(Msg) /\ Quiet(toScreen', TextKinds) /\ Quiet(toScreen', StateKinds)
<1>1. CASE toScreen' = <<>>
  <2>1. <<>> \in Seq(Msg) /\ Quiet(<<>>, TextKinds) /\ Quiet(<<>>, StateKinds)
    BY NothingQuiet
  <2> QED BY <1>1, <2>1
<1>2. ASSUME NEW n \in 1 .. MaxQuestion, NEW m \in {ShowMsg(n), HideMsg(n)}, toScreen' = <<m>>
      PROVE  toScreen' \in Seq(Msg) /\ Quiet(toScreen', TextKinds) /\ Quiet(toScreen', StateKinds)
  <2>1. m \in Msg /\ m.type \in {"question_show", "question_hide"}
    BY <1>2, MessageTypes
  <2>2. m.type \notin TextKinds /\ m.type \notin StateKinds
    BY <2>1 DEF TextKinds, StateKinds
  <2>3. <<m>> \in Seq(Msg) /\ Quiet(<<m>>, TextKinds) /\ Quiet(<<m>>, StateKinds)
    BY <2>1, <2>2, OneQuiet
  <2> QED BY <1>2, <2>3
<1> QED BY <1>1, <1>2 DEF QuestionSent

\* A step that sends no more, and changes nothing the page shows but the
\* question.
LEMMA QuestionOnlySends ==
  ASSUME ScreenInv, UNCHANGED <<floor, media, text>>, QuestionSent
  PROVE  Sends
<1>1. Live' = Live /\ media'.talking = media.talking
  BY DEF Live
<1> QED BY <1>1, QuestionQuiet DEF Sends, TextSent, StateSent

\* The release of the floor clears the page.
LEMMA ReleaseSends ==
  ASSUME ScreenInv, NEW ops, NEW keyed, NEW host, ReleaseFloor(ops, keyed, host)
  PROVE  Sends
<1> DEFINE last == StateMsg(None, IdleMedia)
           first == <<ClearMsg>> \o HideIfWaiting
<1>1. media' = IdleMedia /\ floor' = None /\ text' = None
      /\ IdleMedia \in [talking : BOOLEAN, video : Video]
  BY DEF ReleaseFloor, IdleMedia, Video
<1>2. last \in Msg /\ last \in TrueMsgs'
  <2>1. last \in Msg
    BY <1>1, MessageTypes
  <2>2. StateMsg(floor', media') \in TrueMsgs'
    BY <1>1, TrueMsg
  <2> QED BY <1>1, <2>1, <2>2
<1>3. first \in Seq(Msg)
  <2>1. HideIfWaiting \in Seq(Msg) /\ <<ClearMsg>> \in Seq(Msg)
    BY MessageTypes DEF HideIfWaiting
  <2> QED BY <2>1, ConcatProperties
<1>4. toScreen' = IF screen = None THEN <<>> ELSE first \o <<last>>
  BY DEF ReleaseFloor, ToScreen
<1> HIDE DEF first, last
<1>5. <<last>> \in Seq(Msg) /\ Ends(<<last>>, StateKinds, TrueMsgs')
  BY <1>2, OneEnds
<1>6. first \o <<last>> \in Seq(Msg) /\ Ends(first \o <<last>>, StateKinds, TrueMsgs')
  BY <1>3, <1>5, EndsConcat, ConcatProperties
<1> QED BY <1>1, <1>4, <1>6 DEF Sends, TextSent, StateSent

\* A claim of the floor shows nothing new.
LEMMA ClaimLive ==
  ASSUME ScreenInv, NEW s \in Session, ClaimFloor(s), media' = media
  PROVE  Live' = Live /\ media'.talking = media.talking
<1>1. floor \in {None, s} /\ floor' = s /\ s # None
  BY ScreenAssumption DEF ClaimFloor
<1>2. floor = None => media.video = "none"
  BY DEF ScreenInv, NothingLeft, IdleMedia
<1> QED BY <1>1, <1>2 DEF Live

LEMMA MessageSends ==
  ASSUME ScreenInv, NEW s \in Session, OperatorMessage(s)
  PROVE  Sends /\ screen' = screen /\ kiosks' = kiosks
<1>1. CASE Ignored(s)
  BY <1>1, QuestionOnlySends DEF Ignored, QuestionSent, screenVars
<1>2. CASE FloorRelease(s)
  BY <1>2, ReleaseSends DEF FloorRelease, screenVars
<1>3. ASSUME NEW talking \in BOOLEAN, NEW video \in Video, MediaState(s, talking, video)
      PROVE  Sends /\ screen' = screen /\ kiosks' = kiosks
  <2>1. media' \in [talking : BOOLEAN, video : Video] /\ floor' = s /\ text' = text
        /\ screen' = screen /\ kiosks' = kiosks
    BY <1>3 DEF MediaState, ClaimFloor, screenVars
  <2> DEFINE m == StateMsg(floor', media')
  <2>2. m \in Msg /\ m \in TrueMsgs' /\ m.type = "screen_state"
    BY <2>1, TrueMsg, MessageTypes
  <2>3. toScreen' = IF screen = None THEN <<>> ELSE <<m>>
    BY <1>3, <2>1 DEF MediaState, ToScreen
  <2> HIDE DEF m
  <2>4. m.type \notin TextKinds
    BY <2>2 DEF TextKinds
  <2>5. <<m>> \in Seq(Msg) /\ Quiet(<<m>>, TextKinds) /\ Ends(<<m>>, StateKinds, TrueMsgs')
    BY <2>2, <2>4, OneQuiet, OneEnds
  <2> QED BY <2>1, <2>3, <2>5 DEF Sends, TextSent, StateSent
<1>4. ASSUME NEW x \in Text, ScreenText(s, x)
      PROVE  Sends /\ screen' = screen /\ kiosks' = kiosks
  <2>1. media' = media /\ text' = x /\ screen' = screen /\ kiosks' = kiosks
        /\ toScreen' = IF screen = None THEN <<>> ELSE <<TextMsg(x)>>
    BY <1>4 DEF ScreenText, ClaimFloor, screenVars, ToScreen
  <2>2. Live' = Live /\ media'.talking = media.talking
    BY <1>4, <2>1, ClaimLive DEF ScreenText
  <2> DEFINE m == TextMsg(x)
  <2>3. m \in Msg /\ m.type = "screen_text"
    BY MessageTypes
  <2>4. m \in {TextMsg(text')} /\ toScreen' = IF screen = None THEN <<>> ELSE <<m>>
    BY <2>1
  <2> HIDE DEF m
  <2>5. m.type \notin StateKinds
    BY <2>3 DEF StateKinds
  <2>6. <<m>> \in Seq(Msg) /\ Quiet(<<m>>, StateKinds) /\ Ends(<<m>>, TextKinds, {TextMsg(text')})
    BY <2>3, <2>4, <2>5, OneQuiet, OneEnds
  <2> QED BY <2>1, <2>2, <2>4, <2>6 DEF Sends, TextSent, StateSent
<1>5. CASE ScreenClear(s)
  <2>1. media' = media /\ text' = None /\ screen' = screen /\ kiosks' = kiosks
        /\ toScreen' = IF screen = None THEN <<>> ELSE <<ClearMsg>>
    BY <1>5 DEF ScreenClear, ClaimFloor, screenVars, ToScreen
  <2>2. Live' = Live /\ media'.talking = media.talking
    BY <1>5, <2>1, ClaimLive DEF ScreenClear
  <2>3. ClearMsg \in Msg /\ ClearMsg.type \notin StateKinds
    BY MessageTypes DEF StateKinds
  <2>4. <<ClearMsg>> \in Seq(Msg) /\ Quiet(<<ClearMsg>>, StateKinds)
    BY <2>3, OneQuiet
  <2> QED BY <2>1, <2>2, <2>4 DEF Sends, TextSent, StateSent
<1>6. ASSUME AskQuestion(s) \/ ClearQuestion(s)
      PROVE  Sends /\ screen' = screen /\ kiosks' = kiosks
  <2>1. media' = media /\ text' = text /\ screen' = screen /\ kiosks' = kiosks
    BY <1>6 DEF AskQuestion, ClearQuestion, ClaimFloor, screenVars
  <2>2. Live' = Live /\ media'.talking = media.talking
    BY <1>6, <2>1, ClaimLive DEF AskQuestion, ClearQuestion
  <2>3. QuestionSent
    <3>1. CASE AskQuestion(s)
      <4>1. asked \in 0 .. MaxQuestion /\ asked < MaxQuestion /\ MaxQuestion \in Nat
        BY <3>1, ScreenAssumption DEF AskQuestion, ScreenInv, TypeOK
      <4>2. asked + 1 \in 1 .. MaxQuestion
        BY <4>1
      <4> QED BY <3>1, <4>2 DEF AskQuestion, ToScreen, QuestionSent
    <3>2. CASE ClearQuestion(s)
      BY <3>2, MessageTypes DEF ClearQuestion, ToScreen, HideIfWaiting, QuestionSent
    <3> QED BY <1>6, <3>1, <3>2
  <2>4. toScreen' \in Seq(Msg) /\ Quiet(toScreen', TextKinds) /\ Quiet(toScreen', StateKinds)
    BY <2>3, QuestionQuiet
  <2> QED BY <2>1, <2>2, <2>4 DEF Sends, TextSent, StateSent
<1> QED BY <1>1, <1>2, <1>3, <1>4, <1>5, <1>6 DEF OperatorMessage

\* Every step of the hub that is none of the screen's doing.
LEMMA HubSends ==
  ASSUME ScreenInv, HubStep
  PROVE  Sends /\ screen' = screen /\ kiosks' = kiosks
<1>1. ASSUME NEW s \in Session, Offer(s, TRUE) \/ OperatorConnected(s)
      PROVE  Sends /\ screen' = screen /\ kiosks' = kiosks
  BY <1>1, QuestionOnlySends DEF Offer, OperatorConnected, QuestionSent, screenVars
<1>2. ASSUME NEW s \in Session, OperatorClosed(s)
      PROVE  Sends /\ screen' = screen /\ kiosks' = kiosks
  <2>1. CASE floor = s
    BY <1>2, <2>1, ReleaseSends DEF OperatorClosed, QuestionSent, screenVars
  <2>2. CASE floor # s
    BY <1>2, <2>2, QuestionOnlySends DEF OperatorClosed, QuestionSent, screenVars
  <2> QED BY <2>1, <2>2
<1>3. ASSUME NEW host \in Host \cup {None}, SetControllerHost(host)
      PROVE  Sends /\ screen' = screen /\ kiosks' = kiosks
  <2>1. CASE floor # None /\ ~Can(floor, controllers, host)
    BY <1>3, <2>1, ReleaseSends DEF SetControllerHost, QuestionSent, screenVars
  <2>2. CASE ~(floor # None /\ ~Can(floor, controllers, host))
    BY <1>3, <2>2, QuestionOnlySends DEF SetControllerHost, QuestionSent, screenVars
  <2> QED BY <2>1, <2>2
<1>4. CASE ExpireQuestion
  BY <1>4, QuestionOnlySends, MessageTypes
     DEF ExpireQuestion, ToScreen, HideIfWaiting, QuestionSent, screenVars
<1> QED BY <1>1, <1>2, <1>3, <1>4, MessageSends DEF HubStep

\* A screen that attaches is brought up to date.
LEMMA AttachSends ==
  ASSUME ScreenInv, NEW k \in Kiosk, ScreenAttached(k)
  PROVE  /\ toScreen' \in Seq(Msg) /\ UNCHANGED <<floor, media, text>>
         /\ text # None => Ends(toScreen', TextKinds, {TextMsg(text)})
         /\ Ends(toScreen', StateKinds, TrueMsgs')
<1> DEFINE m == StateMsg(floor, media)
           T == IF text # None THEN <<TextMsg(text)>> ELSE <<>>
           Q == IF Waiting THEN <<ShowMsg(question.id)>> ELSE <<>>
<1>1. UNCHANGED <<floor, media, text>> /\ text \in Text \cup {None}
      /\ media' \in [talking : BOOLEAN, video : Video]
  BY DEF ScreenAttached, ScreenInv, TypeOK
<1>2. toScreen' = <<m>> \o T \o Q
  BY DEF ScreenAttached
<1>3. <<m>> \in Seq(Msg) /\ Ends(<<m>>, StateKinds, TrueMsgs')
  <2>1. m \in Msg /\ m \in TrueMsgs'
    BY <1>1, TrueMsg, MessageTypes
  <2> HIDE DEF m
  <2> QED BY <2>1, OneEnds
<1>4. T \in Seq(Msg) /\ Quiet(T, StateKinds)
      /\ (text # None => Ends(T, TextKinds, {TextMsg(text)}))
  <2>1. CASE text = None
    <3>1. T = <<>> /\ <<>> \in Seq(Msg)
      BY <2>1
    <3> QED BY <2>1, <3>1, NothingQuiet
  <2>2. CASE text # None
    <3> DEFINE x == TextMsg(text)
    <3>1. x \in Msg /\ x.type = "screen_text" /\ T = <<x>> /\ x \in {TextMsg(text)}
      BY <1>1, <2>2, MessageTypes
    <3> HIDE DEF x, T
    <3>2. x.type \notin StateKinds
      BY <3>1 DEF StateKinds
    <3> QED BY <3>1, <3>2, OneQuiet, OneEnds
  <2> QED BY <2>1, <2>2
<1>5. Q \in Seq(Msg) /\ Quiet(Q, StateKinds) /\ Quiet(Q, TextKinds)
  <2>1. CASE ~Waiting
    <3>1. Q = <<>> /\ <<>> \in Seq(Msg)
      BY <2>1
    <3> QED BY <3>1, NothingQuiet
  <2>2. CASE Waiting
    <3> DEFINE x == ShowMsg(question.id)
    <3>1. x \in Msg /\ x.type = "question_show" /\ Q = <<x>>
      BY <2>2, MessageTypes
    <3> HIDE DEF x, Q
    <3>2. x.type \notin StateKinds /\ x.type \notin TextKinds
      BY <3>1 DEF StateKinds, TextKinds
    <3> QED BY <3>1, <3>2, OneQuiet
  <2> QED BY <2>1, <2>2
<1> HIDE DEF m, T, Q
<1> DEFINE u == <<m>> \o T
<1>6. u \in Seq(Msg) /\ Ends(u, StateKinds, TrueMsgs')
      /\ (text # None => Ends(u, TextKinds, {TextMsg(text)}))
  BY <1>3, <1>4, ConcatProperties, EndsQuiet, EndsConcat
<1>7. toScreen' = u \o Q
  BY <1>2
<1> HIDE DEF u
<1>8. u \o Q \in Seq(Msg) /\ Ends(u \o Q, StateKinds, TrueMsgs')
      /\ (text # None => Ends(u \o Q, TextKinds, {TextMsg(text)}))
  BY <1>5, <1>6, ConcatProperties, EndsQuiet
<1> QED BY <1>1, <1>7, <1>8

-----------------------------------------------------------------------------
(***************************************************************************)
(* The page and the hub together.                                          *)
(***************************************************************************)

\* What onMessage makes of the page.
LEMMA Handled ==
  ASSUME page \in PageState, NEW m \in Msg
  PROVE  /\ OnMessage(m) \in PageState /\ OnMessage(m).conn = page.conn
         /\ m.type \notin TextKinds => OnMessage(m).text = page.text
         /\ \A t : m = TextMsg(t) => OnMessage(m).text = t
         /\ m.type \notin StateKinds => OnMessage(m).state = page.state
         /\ m \in StateMsgs => OnMessage(m).state = StateOf(m)
<1>1. CASE m \in StateMsgs
  <2>1. m.type = "screen_state" /\ StateOf(m) \in ScreenState
    BY <1>1 DEF StateMsgs, StateOf, ScreenState
  <2>2. OnMessage(m) = [page EXCEPT !.state = StateOf(m)]
    BY <2>1 DEF OnMessage, StateOf
  <2>3. \A t : m # TextMsg(t)
    BY <2>1 DEF TextMsg
  <2> QED BY <2>1, <2>2, <2>3 DEF PageState, TextKinds, StateKinds
<1>2. CASE m \in [type : {"screen_text"}, text : Text]
  <2>1. m.type = "screen_text" /\ m.text \in Text
    BY <1>2
  <2>2. OnMessage(m) = [page EXCEPT !.text = m.text]
    BY <2>1 DEF OnMessage
  <2>3. m \notin StateMsgs /\ \A t : m = TextMsg(t) => m.text = t
    BY <2>1 DEF TextMsg, StateMsgs
  <2> QED BY <2>1, <2>2, <2>3 DEF PageState, TextKinds, StateKinds
<1>3. CASE m = ClearMsg
  <2>1. m.type = "screen_clear"
    BY <1>3 DEF ClearMsg
  <2>2. OnMessage(m) = [page EXCEPT !.text = None]
    BY <2>1 DEF OnMessage
  <2>3. m \notin StateMsgs /\ \A t : m # TextMsg(t)
    BY <2>1 DEF TextMsg, StateMsgs
  <2> QED BY <2>1, <2>2, <2>3 DEF PageState, TextKinds, StateKinds
<1>4. CASE m \in [type : {"question_show", "question_hide"}, id : 1 .. MaxQuestion]
  <2>1. m.type \in {"question_show", "question_hide"} /\ m.id \in 1 .. MaxQuestion
    BY <1>4
  <2>2. m.id \in 0 .. MaxQuestion /\ 0 \in 0 .. MaxQuestion
    BY <2>1, ScreenAssumption
  <2>3. OnMessage(m) \in {[page EXCEPT !.question = m.id, !.sent = FALSE],
                          [page EXCEPT !.question = 0], page}
    BY <2>1 DEF OnMessage
  <2>4. m \notin StateMsgs /\ \A t : m # TextMsg(t)
    BY <2>1 DEF TextMsg, StateMsgs
  <2> QED BY <2>2, <2>3, <2>4 DEF PageState
<1> QED BY <1>1, <1>2, <1>3, <1>4 DEF Msg

LEMMA KioskIsSome == None \notin Kiosk
  BY ScreenAssumption

\* The hub's steps in the composed system are ScreenHub's.
LEMMA HubOnly == ASSUME LinkInv, [SystemNext]_systemVars PROVE [Next]_vars
<1>1. CASE HubStep
  BY <1>1 DEF HubStep, Next, Peer
<1>2. CASE HubRestart
  BY <1>2 DEF HubRestart, Next
<1>3. ASSUME NEW k \in Kiosk, Connect(k) \/ Attach(k) \/ Detach(k) PROVE [Next]_vars
  BY <1>3 DEF Connect, Attach, Detach, Next
<1>4. CASE TapArrives
  <2>1. Head(taps) \in TapMsg
    BY <1>4 DEF TapArrives, LinkInv
  <2>2. Head(taps).id \in 1 .. MaxQuestion /\ Head(taps).choice \in Choice \cup {BadChoice}
    BY <2>1 DEF TapMsg
  <2> QED BY <1>4, <2>2 DEF TapArrives, Next
<1>5. CASE Page
  BY <1>5 DEF Page, PageOffline, PageReload, Deliver, Tap, HideAnswered
<1>6. CASE UNCHANGED systemVars
  BY <1>6 DEF systemVars
<1> QED BY <1>1, <1>2, <1>3, <1>4, <1>5, <1>6 DEF SystemNext

\* The page and the link, and what they show of the hub.
ShowInv == LinkInv /\ TextInv /\ StateInv

\* Nothing to show: the page is not on the hub's channel.
LEMMA Unlinked ==
  ASSUME LinkInv', ~Linked'
  PROVE  ShowInv'
  BY DEF ShowInv, TextInv, StateInv

\* The hub, the wire and what the page shows of them stand still.
LEMMA ShowsOn ==
  ASSUME ShowInv, LinkInv', UNCHANGED <<screen, text, floor, media, wire>>,
         page'.conn = page.conn, page'.text = page.text, page'.state = page.state
  PROVE  ShowInv'
<1>1. Linked' = Linked
  BY DEF Linked
<1>2. LiveStates' = LiveStates /\ TrueMsgs' = TrueMsgs
  BY DEF LiveStates, TrueMsgs, Live
<1>3. TextInv'
  BY <1>1 DEF ShowInv, TextInv
<1>4. StateInv'
  BY <1>1, <1>2 DEF ShowInv, StateInv
<1> QED BY <1>3, <1>4 DEF ShowInv

\* What a linked page is sent brings it up to date, if it was.
LEMMA SentKeeps ==
  ASSUME ShowInv, Linked, screen' = screen, page' = page, Sends, wire' = wire \o toScreen'
  PROVE  TextInv' /\ StateInv'
<1>1. wire \in Seq(Msg) /\ toScreen' \in Seq(Msg) /\ TextSent /\ StateSent
  BY DEF ShowInv, LinkInv, Sends, Linked
<1>2. ASSUME text' # None
      PROVE  \/ Ends(wire', TextKinds, {TextMsg(text')})
             \/ Quiet(wire', TextKinds) /\ page'.text = text'
  <2>1. CASE Ends(toScreen', TextKinds, {TextMsg(text')})
    BY <1>1, <2>1, EndsConcat
  <2>2. CASE text' = text /\ Quiet(toScreen', TextKinds)
    <3>1. Ends(wire, TextKinds, {TextMsg(text)}) \/ (Quiet(wire, TextKinds) /\ page.text = text)
      BY <1>2, <2>2 DEF ShowInv, TextInv
    <3>2. CASE Ends(wire, TextKinds, {TextMsg(text)})
      <4>1. Ends(wire', TextKinds, {TextMsg(text)})
        BY <1>1, <2>2, <3>2, EndsQuiet
      <4> QED BY <2>2, <4>1
    <3>3. CASE Quiet(wire, TextKinds) /\ page.text = text
      <4>1. Quiet(wire', TextKinds)
        BY <1>1, <2>2, <3>3, QuietConcat
      <4> QED BY <2>2, <3>3, <4>1
    <3> QED BY <3>1, <3>2, <3>3
  <2> QED BY <1>1, <1>2, <2>1, <2>2 DEF TextSent
<1>3. \/ Ends(wire', StateKinds, TrueMsgs')
      \/ Quiet(wire', StateKinds) /\ page'.state \in LiveStates'
  <2>1. CASE Ends(toScreen', StateKinds, TrueMsgs')
    BY <1>1, <2>1, EndsConcat
  <2>2. CASE /\ Live' = Live /\ media'.talking = media.talking
             /\ Quiet(toScreen', StateKinds)
    <3>1. LiveStates' = LiveStates /\ TrueMsgs' = TrueMsgs
      BY <2>2 DEF LiveStates, TrueMsgs
    <3>2. Ends(wire, StateKinds, TrueMsgs) \/ (Quiet(wire, StateKinds) /\ page.state \in LiveStates)
      BY DEF ShowInv, StateInv
    <3>3. CASE Ends(wire, StateKinds, TrueMsgs)
      <4>1. Ends(wire', StateKinds, TrueMsgs)
        BY <1>1, <2>2, <3>3, EndsQuiet
      <4> QED BY <3>1, <4>1
    <3>4. CASE Quiet(wire, StateKinds) /\ page.state \in LiveStates
      <4>1. Quiet(wire', StateKinds)
        BY <1>1, <2>2, <3>4, QuietConcat
      <4> QED BY <3>1, <3>4, <4>1
    <3> QED BY <3>2, <3>3, <3>4
  <2> QED BY <1>1, <2>1, <2>2 DEF StateSent
<1> QED BY <1>2, <1>3 DEF TextInv, StateInv

LEMMA TransmitType ==
  ASSUME wire \in Seq(Msg), toScreen' \in Seq(Msg), Transmit
  PROVE  wire' \in Seq(Msg)
  BY ConcatProperties DEF Transmit

LEMMA HubStepKeeps == ASSUME ScreenInv, ShowInv, HubStep PROVE ShowInv'
<1>1. Sends /\ screen' = screen /\ Transmit /\ UNCHANGED <<answering, taps, page>>
  BY HubSends DEF HubStep
<1>2. wire' \in Seq(Msg)
  BY <1>1, TransmitType DEF Sends, ShowInv, LinkInv
<1>3. LinkInv' /\ Linked' = Linked
  BY <1>1, <1>2 DEF ShowInv, LinkInv, Linked
<1>4. CASE ~Linked
  BY <1>3, <1>4, Unlinked
<1>5. CASE Linked
  <2>1. wire' = wire \o toScreen'
    BY <1>1, <1>5 DEF Transmit, Linked
  <2> QED BY <1>1, <1>3, <1>5, <2>1, SentKeeps DEF ShowInv
<1> QED BY <1>4, <1>5

LEMMA RestartKeeps == ASSUME ShowInv, HubRestart PROVE ShowInv'
<1>1. screen' = None /\ answering' = None /\ taps' = <<>> /\ wire' = wire /\ page' = page
  BY DEF HubRestart, Restart
<1>2. ~Linked'
  BY <1>1 DEF Linked
<1>3. LinkInv'
  BY <1>1, <1>2 DEF ShowInv, LinkInv
<1> QED BY <1>2, <1>3, Unlinked

LEMMA ConnectKeeps ==
  ASSUME ScreenInv, ShowInv, NEW k \in Kiosk, Connect(k)
  PROVE  ShowInv'
<1>1. /\ screen' = screen /\ answering' = k /\ taps' = <<>> /\ wire' = <<>>
      /\ page' = [page EXCEPT !.conn = k] /\ k \notin kiosks
  BY DEF Connect, vars, screenVars
<1>2. page' \in PageState /\ page'.conn = k
  BY <1>1 DEF ShowInv, LinkInv, PageState
<1>3. screen # None => screen # k
  BY <1>1 DEF ScreenInv, ScreenIsOpen
<1>4. ~Linked'
  BY <1>1, <1>2, <1>3 DEF Linked
<1>5. LinkInv'
  BY <1>1, <1>2, <1>4 DEF LinkInv
<1> QED BY <1>4, <1>5, Unlinked

LEMMA AttachKeeps ==
  ASSUME ScreenInv, ShowInv, NEW k \in Kiosk, Attach(k)
  PROVE  ShowInv'
<1>1. /\ screen' = k /\ k = answering /\ ScreenAttached(k) /\ Transmit
      /\ UNCHANGED <<answering, taps, page>>
  BY DEF Attach, ScreenAttached
<1>2. /\ toScreen' \in Seq(Msg) /\ UNCHANGED <<floor, media, text>>
      /\ text # None => Ends(toScreen', TextKinds, {TextMsg(text)})
      /\ Ends(toScreen', StateKinds, TrueMsgs')
  BY <1>1, AttachSends
<1>3. wire' \in Seq(Msg)
  BY <1>1, <1>2, TransmitType DEF ShowInv, LinkInv
<1>4. LinkInv'
  BY <1>1, <1>3 DEF ShowInv, LinkInv
<1>5. CASE ~Linked'
  BY <1>4, <1>5, Unlinked
<1>6. CASE Linked'
  <2>1. wire' = wire \o toScreen' /\ wire \in Seq(Msg)
    BY <1>1, <1>6 DEF Transmit, Linked, ShowInv, LinkInv
  <2>2. text # None => Ends(wire', TextKinds, {TextMsg(text)})
    BY <1>2, <2>1, EndsConcat
  <2>3. Ends(wire', StateKinds, TrueMsgs')
    BY <1>2, <2>1, EndsConcat
  <2>4. TextInv'
    BY <1>2, <2>2 DEF TextInv
  <2>5. StateInv'
    BY <2>3 DEF StateInv
  <2> QED BY <1>4, <2>4, <2>5 DEF ShowInv
<1> QED BY <1>5, <1>6

LEMMA DetachKeeps ==
  ASSUME ScreenInv, ShowInv, NEW k \in Kiosk, Detach(k)
  PROVE  ShowInv'
<1>1. /\ UNCHANGED <<wire, page, floor, media, text>>
      /\ screen' = IF screen = k THEN None ELSE screen
      /\ answering' = IF answering = k THEN None ELSE answering
      /\ taps' \in {<<>>, taps}
  BY DEF Detach, ScreenDetached
<1>2. Linked' => Linked /\ screen' = screen /\ screen # k
  BY <1>1 DEF Linked
<1>3. LinkInv'
  <2>1. Linked' => screen' = answering'
    BY <1>1, <1>2 DEF ShowInv, LinkInv
  <2>2. taps' \in Seq(TapMsg)
    <3>1. taps \in Seq(TapMsg) /\ <<>> \in Seq(TapMsg)
      BY DEF ShowInv, LinkInv
    <3> QED BY <1>1, <3>1
  <2> QED BY <1>1, <2>1, <2>2 DEF ShowInv, LinkInv
<1>4. CASE ~Linked'
  BY <1>3, <1>4, Unlinked
<1>5. CASE Linked'
  BY <1>1, <1>2, <1>3, <1>5, ShowsOn
<1> QED BY <1>4, <1>5

LEMMA TapArrivesKeeps == ASSUME ShowInv, TapArrives PROVE ShowInv'
<1>1. UNCHANGED <<screen, text, floor, media, wire, answering, page>> /\ taps' = Tail(taps)
      /\ taps # <<>>
  BY DEF TapArrives, AnswerQuestion, screenVars
<1>2. taps' \in Seq(TapMsg)
  BY <1>1 DEF ShowInv, LinkInv
<1>3. LinkInv'
  BY <1>1, <1>2 DEF ShowInv, LinkInv, Linked
<1> QED BY <1>1, <1>3, ShowsOn

\* The page finds itself cut off, or starts anew.
LEMMA OfflineKeeps == ASSUME ShowInv, PageOffline \/ PageReload PROVE ShowInv'
<1>1. UNCHANGED <<screen, answering, taps>> /\ wire' = <<>>
      /\ page' \in PageState /\ page'.conn = None
  <2>1. UNCHANGED <<screen, answering, taps>> /\ wire' = <<>>
        /\ page' \in {SetOffline, BlankPage}
    BY DEF PageOffline, PageReload, vars, screenVars
  <2>2. IdleState \in ScreenState /\ 0 \in 0 .. MaxQuestion
    BY ScreenAssumption DEF IdleState, ScreenState, Video
  <2>3. SetOffline \in PageState /\ SetOffline.conn = None
    BY <2>2 DEF ShowInv, LinkInv, SetOffline, PageState
  <2>4. BlankPage \in PageState /\ BlankPage.conn = None
    BY <2>2 DEF BlankPage, PageState
  <2> QED BY <2>1, <2>3, <2>4
<1>2. ~Linked'
  BY <1>1 DEF Linked
<1>3. LinkInv'
  BY <1>1, <1>2 DEF ShowInv, LinkInv
<1> QED BY <1>2, <1>3, Unlinked

\* The page handles the message that is first on the wire.
LEMMA DeliverKeeps == ASSUME ShowInv, Deliver PROVE ShowInv'
<1> DEFINE m == Head(wire)
<1>1. /\ UNCHANGED <<screen, text, floor, media, answering, taps>>
      /\ wire # <<>> /\ wire' = Tail(wire) /\ page' = OnMessage(m)
      /\ wire \in Seq(Msg) /\ page \in PageState
  BY DEF Deliver, vars, screenVars, ShowInv, LinkInv
<1>2. m \in Msg /\ wire' \in Seq(Msg)
  BY <1>1
<1>3. \A K, M : /\ Quiet(wire, K) => Quiet(wire', K) /\ m.type \notin K
                /\ Ends(wire, K, M) => Ends(wire', K, M) \/ (m \in M /\ Quiet(wire', K))
  BY <1>1, TailSays
<1> HIDE DEF m
<1>4. /\ page' \in PageState /\ page'.conn = page.conn
      /\ m.type \notin TextKinds => page'.text = page.text
      /\ \A t : m = TextMsg(t) => page'.text = t
      /\ m.type \notin StateKinds => page'.state = page.state
      /\ m \in StateMsgs => page'.state = StateOf(m)
  BY <1>1, <1>2, Handled
<1>5. LinkInv' /\ Linked' = Linked
  BY <1>1, <1>2, <1>4 DEF ShowInv, LinkInv, Linked
<1>6. LiveStates' = LiveStates /\ TrueMsgs' = TrueMsgs
  BY <1>1 DEF LiveStates, TrueMsgs, Live
<1>7. ASSUME Linked, text # None
      PROVE  \/ Ends(wire', TextKinds, {TextMsg(text)})
             \/ Quiet(wire', TextKinds) /\ page'.text = text
  <2>1. CASE Ends(wire, TextKinds, {TextMsg(text)})
    <3>1. Ends(wire', TextKinds, {TextMsg(text)})
          \/ (m \in {TextMsg(text)} /\ Quiet(wire', TextKinds))
      BY <1>3, <2>1
    <3> QED BY <1>4, <3>1
  <2>2. CASE Quiet(wire, TextKinds) /\ page.text = text
    <3>1. Quiet(wire', TextKinds) /\ m.type \notin TextKinds
      BY <1>3, <2>2
    <3> QED BY <1>4, <2>2, <3>1
  <2> QED BY <1>7, <2>1, <2>2 DEF ShowInv, TextInv
<1>8. ASSUME Linked
      PROVE  \/ Ends(wire', StateKinds, TrueMsgs)
             \/ Quiet(wire', StateKinds) /\ page'.state \in LiveStates
  <2>1. CASE Ends(wire, StateKinds, TrueMsgs)
    <3>1. Ends(wire', StateKinds, TrueMsgs) \/ (m \in TrueMsgs /\ Quiet(wire', StateKinds))
      BY <1>3, <2>1
    <3>2. m \in TrueMsgs => m \in StateMsgs /\ StateOf(m) \in LiveStates
      BY DEF TrueMsgs
    <3> QED BY <1>4, <3>1, <3>2
  <2>2. CASE Quiet(wire, StateKinds) /\ page.state \in LiveStates
    <3>1. Quiet(wire', StateKinds) /\ m.type \notin StateKinds
      BY <1>3, <2>2
    <3> QED BY <1>4, <2>2, <3>1
  <2> QED BY <1>8, <2>1, <2>2 DEF ShowInv, StateInv
<1>9. TextInv'
  BY <1>1, <1>5, <1>7 DEF TextInv
<1>10. StateInv'
  BY <1>5, <1>6, <1>8 DEF StateInv
<1> QED BY <1>5, <1>9, <1>10 DEF ShowInv

\* A tap, and the end of "Answer sent".
LEMMA TapKeeps ==
  ASSUME ShowInv, (\E choice \in Choice : Tap(choice)) \/ HideAnswered
  PROVE  ShowInv'
<1>1. UNCHANGED <<screen, text, floor, media, wire, answering>> /\ page \in PageState
  BY DEF Tap, HideAnswered, vars, linkVars, screenVars, ShowInv, LinkInv
<1>2. page' \in PageState /\ page'.conn = page.conn /\ page'.text = page.text
      /\ page'.state = page.state
  <2>1. 0 \in 0 .. MaxQuestion
    BY ScreenAssumption
  <2>2. page' \in {[page EXCEPT !.sent = TRUE], [page EXCEPT !.question = 0, !.sent = FALSE]}
    BY DEF Tap, HideAnswered
  <2> QED BY <1>1, <2>1, <2>2 DEF PageState
<1>3. taps' \in Seq(TapMsg)
  <2>1. taps \in Seq(TapMsg)
    BY DEF ShowInv, LinkInv
  <2>2. CASE HideAnswered
    BY <2>1, <2>2 DEF HideAnswered, linkVars
  <2>3. ASSUME NEW choice \in Choice, Tap(choice) PROVE taps' \in Seq(TapMsg)
    <3>1. page.question \in 0 .. MaxQuestion /\ page.question # 0
      BY <1>1, <2>3 DEF PageState, Tap
    <3>2. page.question \in 1 .. MaxQuestion
      BY <3>1, ScreenAssumption
    <3>3. [id |-> page.question, choice |-> choice] \in TapMsg
      BY <3>2 DEF TapMsg
    <3> QED BY <2>1, <2>3, <3>3 DEF Tap
  <2> QED BY <2>2, <2>3
<1>4. LinkInv'
  BY <1>1, <1>2, <1>3 DEF ShowInv, LinkInv, Linked
<1> QED BY <1>1, <1>2, <1>4, ShowsOn

LEMMA SystemStep ==
  ASSUME ScreenInv, ShowInv, [SystemNext]_systemVars
  PROVE  ScreenInv' /\ ShowInv'
<1>1. ScreenInv'
  BY HubOnly, NextStep DEF ShowInv
<1>2. CASE Page
  <2>1. CASE PageOffline \/ PageReload
    BY <1>1, <2>1, OfflineKeeps
  <2>2. CASE Deliver
    BY <1>1, <2>2, DeliverKeeps
  <2>3. CASE (\E choice \in Choice : Tap(choice)) \/ HideAnswered
    BY <1>1, <2>3, TapKeeps
  <2> QED BY <1>2, <2>1, <2>2, <2>3 DEF Page
<1>3. CASE UNCHANGED systemVars
  <2>1. UNCHANGED <<screen, text, floor, media, wire, answering, taps, page>>
    BY <1>3 DEF systemVars, vars, linkVars, screenVars
  <2>2. LinkInv'
    BY <2>1 DEF ShowInv, LinkInv, Linked
  <2> QED BY <1>1, <2>1, <2>2, ShowsOn
<1> QED BY <1>1, <1>2, <1>3, HubStepKeeps, RestartKeeps, ConnectKeeps, AttachKeeps,
           DetachKeeps, TapArrivesKeeps DEF SystemNext

LEMMA SystemInitHolds == ASSUME SystemInit PROVE ScreenInv /\ ShowInv
<1>1. ScreenInv
  BY InitHolds DEF SystemInit
<1>2. screen = None /\ answering = None /\ wire = <<>> /\ taps = <<>> /\ page = BlankPage
  BY DEF SystemInit, Init
<1>3. IdleState \in ScreenState /\ 0 \in 0 .. MaxQuestion
  BY ScreenAssumption DEF IdleState, ScreenState, Video
<1>4. page \in PageState /\ ~Linked
  BY <1>2, <1>3 DEF BlankPage, PageState, Linked
<1> QED BY <1>1, <1>2, <1>4 DEF ShowInv, LinkInv, TextInv, StateInv

-----------------------------------------------------------------------------
\* What holds of the hub and the page together (talkback.ScreenHub with
\* screen/index.html).
THEOREM SystemCorrect == SystemSpec => [](ScreenInv /\ ShowInv)
  BY SystemInitHolds, SystemStep, PTL DEF SystemSpec

\* With the page, and with the connections that come and go under it, the hub
\* is still the one of ScreenHub: whatever is proved there holds here.
THEOREM HubRefined == SystemSpec => Spec
<1>1. SystemInit => Init
  BY DEF SystemInit
<1>2. LinkInv /\ [SystemNext]_systemVars => [Next]_vars
  BY HubOnly
<1>3. ScreenInv /\ ShowInv => LinkInv
  BY DEF ShowInv
<1> QED BY <1>1, <1>2, <1>3, SystemCorrect, PTL DEF SystemSpec, Spec

LEMMA SettledQuiet == ASSUME wire = <<>>, NEW K, NEW M PROVE ~Ends(wire, K, M)
<1>1. Len(<<>>) = 0
  BY EmptySeq
<1> QED BY <1>1 DEF Ends

\* A page that has handled what it was sent has the text that is to be on the
\* screen, through reconnections of either side.
THEOREM TextIsShown == SystemSpec => []TextShown
<1>1. ScreenInv /\ ShowInv => TextShown
  BY SettledQuiet DEF ShowInv, TextInv, TextShown, Settled
<1> QED BY <1>1, SystemCorrect, PTL

\* And the live picture and the badge, exactly while the hub has them live.
THEOREM StateIsShown == SystemSpec => []StateShown
<1>1. ASSUME ShowInv, Settled
      PROVE  /\ Picture = IF floor # None THEN media.video ELSE "none"
             /\ page.state.talking = media.talking
  <2>1. page.state \in LiveStates
    BY <1>1, SettledQuiet DEF ShowInv, StateInv, Settled
  <2> QED BY <2>1 DEF LiveStates, Live, Picture
<1>2. ScreenInv /\ ShowInv => StateShown
  BY <1>1 DEF StateShown
<1> QED BY <1>2, SystemCorrect, PTL

-----------------------------------------------------------------------------
(***************************************************************************)
(* The question on the Robot Screen, for any sessions, hosts, connections  *)
(* and number of questions: QuestionShown.                                 *)
(*                                                                         *)
(* While the page is on the hub's channel, the messages about questions    *)
(* that are on the wire end with the one that shows the question that      *)
(* waits, or, if none does, with one that hides what the page will show by *)
(* then; or there is none left, and the page is right.  An id comes on a   *)
(* connection once: a tap under way is one for a question that the page    *)
(* was shown there, and no answer is taken for the next one.               *)
(***************************************************************************)

Kinds == {"question_show", "question_hide"}

\* m is in w, and is the only message of these kinds.
Only(w, m) ==
    \E i \in 1 .. Len(w) :
        w[i] = m /\ \A j \in 1 .. Len(w) : j # i => w[j].type \notin Kinds

\* w ends with the first message that shows id.
Shows(w, id) ==
    \E i \in 1 .. Len(w) :
        /\ w[i] = ShowMsg(id)
        /\ \A j \in 1 .. Len(w) : j > i => w[j].type \notin Kinds
        /\ \A j \in 1 .. Len(w) : j # i => w[j] # ShowMsg(id)

\* The victim can tap what page p shows, which is another than x.
Open(p) == p.question # 0 /\ ~p.sent
OpenElse(p, x) == Open(p) /\ p.question # x

\* w ends with a message that hides x, which p shows by then, if anything.
Hides(w, p, x) ==
    \E i \in 1 .. Len(w) :
        /\ w[i] = HideMsg(x)
        /\ \A j \in 1 .. Len(w) : j > i => w[j].type \notin Kinds
        /\ \/ /\ \A j \in 1 .. Len(w) : j < i => w[j].type \notin Kinds
              /\ ~OpenElse(p, x)
           \/ \E h \in 1 .. Len(w) :
                 /\ h < i /\ w[h] = ShowMsg(x)
                 /\ \A j \in 1 .. Len(w) : h < j /\ j < i => w[j].type \notin Kinds

Tapped(id) == \E i \in 1 .. Len(taps) : taps[i].id = id

\* The question that waits is on the wire, for the first time.
OnItsWay ==
    /\ Shows(wire, question.id)
    /\ page.question # question.id /\ ~Tapped(question.id)

\* It is on the page, or tapped.
There ==
    /\ Quiet(wire, Kinds)
    /\ \/ page.question = question.id /\ ~page.sent /\ ~Tapped(question.id)
       \/ Tapped(question.id) /\ ~Open(page)

\* None waits, and none can be tapped when the wire is empty.
Gone ==
    \/ Quiet(wire, Kinds) /\ ~Open(page)
    \/ \E x \in 1 .. MaxQuestion : Hides(wire, page, x)

QuestionInv == Linked => IF Waiting THEN OnItsWay \/ There ELSE Gone

\* What came on this connection was asked by this P2.
AskedInv ==
    Linked =>
        /\ page.question <= asked
        /\ \A i \in 1 .. Len(taps) : taps[i].id <= asked
        /\ \A i \in 1 .. Len(wire) : wire[i].type \in Kinds => wire[i].id <= asked

\* Nothing came on a connection that the hub has not taken, and none without.
FreshInv ==
    /\ answering \notin kiosks => taps = <<>>
    /\ answering \notin kiosks /\ answering # None /\ page.conn = answering =>
          wire = <<>> /\ page.question = 0
    /\ page.conn = None => wire = <<>> /\ page.question = 0

AskInv == QuestionInv /\ AskedInv /\ FreshInv

-----------------------------------------------------------------------------
(***************************************************************************)
(* Sequences of messages.                                                  *)
(***************************************************************************)
LEMMA MsgIs ==
  /\ \A n : /\ ShowMsg(n).type = "question_show" /\ ShowMsg(n).id = n
            /\ HideMsg(n).type = "question_hide" /\ HideMsg(n).id = n
            /\ ShowMsg(n).type \in Kinds /\ HideMsg(n).type \in Kinds
  /\ \A m, n : HideMsg(m) # ShowMsg(n)
  /\ \A m, n : ShowMsg(m) = ShowMsg(n) => m = n
<1>1. \A n : /\ ShowMsg(n).type = "question_show" /\ ShowMsg(n).id = n
             /\ HideMsg(n).type = "question_hide" /\ HideMsg(n).id = n
  BY DEF ShowMsg, HideMsg
<1> QED BY <1>1 DEF Kinds

LEMMA Cat ==
  ASSUME NEW S, NEW u \in Seq(S), NEW v \in Seq(S)
  PROVE  /\ Len(u) \in Nat /\ Len(v) \in Nat /\ Len(u \o v) = Len(u) + Len(v)
         /\ \A i \in 1 .. Len(u) : (u \o v)[i] = u[i]
         /\ \A i \in 1 .. Len(u \o v) : i > Len(u) => (u \o v)[i] = v[i - Len(u)]
         /\ \A i \in 1 .. Len(v) : (u \o v)[Len(u) + i] = v[i]
<1>1. /\ Len(u) \in Nat /\ Len(v) \in Nat /\ Len(u \o v) = Len(u) + Len(v)
      /\ \A i \in 1 .. Len(u) + Len(v) :
            (u \o v)[i] = IF i <= Len(u) THEN u[i] ELSE v[i - Len(u)]
  BY ConcatProperties, LenProperties
<1> DEFINE c == u \o v
<1> HIDE DEF c
<1>2. \A i \in 1 .. Len(u) : i \in 1 .. Len(u) + Len(v) /\ i <= Len(u)
  BY <1>1
<1>3. \A i \in 1 .. Len(v) :
         /\ Len(u) + i \in 1 .. Len(u) + Len(v) /\ ~(Len(u) + i <= Len(u))
         /\ Len(u) + i - Len(u) = i
  BY <1>1
<1>4. \A i \in 1 .. Len(u) + Len(v) : i > Len(u) => ~(i <= Len(u))
  BY <1>1
<1>5. /\ Len(c) = Len(u) + Len(v)
      /\ \A i \in 1 .. Len(u) + Len(v) :
            c[i] = IF i <= Len(u) THEN u[i] ELSE v[i - Len(u)]
  BY <1>1 DEF c
<1>6. \A i \in 1 .. Len(u) : c[i] = u[i]
  BY <1>2, <1>5
<1>7. \A i \in 1 .. Len(c) : i > Len(u) => c[i] = v[i - Len(u)]
  BY <1>4, <1>5
<1>8. \A i \in 1 .. Len(v) : c[Len(u) + i] = v[i]
  BY <1>3, <1>5
<1> QED BY <1>1, <1>6, <1>7, <1>8 DEF c

\* Where the messages of a concatenation come from.
LEMMA CatFrom ==
  ASSUME NEW S, NEW u \in Seq(S), NEW v \in Seq(S), NEW j \in 1 .. Len(u \o v)
  PROVE  \/ j \in 1 .. Len(u) /\ (u \o v)[j] = u[j]
         \/ j > Len(u) /\ j - Len(u) \in 1 .. Len(v) /\ (u \o v)[j] = v[j - Len(u)]
<1>1. Len(u) \in Nat /\ Len(v) \in Nat /\ j \in 1 .. Len(u) + Len(v)
  BY Cat
<1>2. CASE j <= Len(u)
  <2>1. j \in 1 .. Len(u)
    BY <1>1, <1>2
  <2> QED BY <2>1, Cat
<1>3. CASE ~(j <= Len(u))
  <2>1. j > Len(u) /\ j - Len(u) \in 1 .. Len(v)
    BY <1>1, <1>3
  <2> QED BY <2>1, Cat
<1> QED BY <1>2, <1>3

LEMMA OnlyOne == ASSUME NEW m PROVE Only(<<m>>, m)
<1>1. 1 \in 1 .. Len(<<m>>) /\ <<m>>[1] = m /\ \A j \in 1 .. Len(<<m>>) : j = 1
  OBVIOUS
<1> QED BY <1>1 DEF Only

LEMMA OnlyCat ==
  ASSUME NEW S, NEW u \in Seq(S), NEW v \in Seq(S), NEW m,
         (Only(u, m) /\ Quiet(v, Kinds)) \/ (Quiet(u, Kinds) /\ Only(v, m))
  PROVE  Only(u \o v, m)
<1> DEFINE c == u \o v
<1>1. /\ Len(u) \in Nat /\ Len(v) \in Nat /\ Len(c) = Len(u) + Len(v)
      /\ \A i \in 1 .. Len(u) : c[i] = u[i]
      /\ \A i \in 1 .. Len(v) : c[Len(u) + i] = v[i]
  BY Cat
<1>2. \A j \in 1 .. Len(c) :
         \/ j \in 1 .. Len(u) /\ c[j] = u[j]
         \/ j > Len(u) /\ j - Len(u) \in 1 .. Len(v) /\ c[j] = v[j - Len(u)]
  BY CatFrom
<1> HIDE DEF c
<1>3. CASE Only(u, m) /\ Quiet(v, Kinds)
  <2>1. PICK i \in 1 .. Len(u) :
           u[i] = m /\ \A j \in 1 .. Len(u) : j # i => u[j].type \notin Kinds
    BY <1>3 DEF Only
  <2>2. i \in 1 .. Len(c) /\ c[i] = m
    BY <1>1, <2>1
  <2>3. \A j \in 1 .. Len(c) : j # i => c[j].type \notin Kinds
    BY <1>2, <1>3, <2>1 DEF Quiet
  <2> QED BY <2>2, <2>3 DEF Only, c
<1>4. CASE Quiet(u, Kinds) /\ Only(v, m)
  <2>1. PICK i \in 1 .. Len(v) :
           v[i] = m /\ \A j \in 1 .. Len(v) : j # i => v[j].type \notin Kinds
    BY <1>4 DEF Only
  <2>2. Len(u) + i \in 1 .. Len(c) /\ c[Len(u) + i] = m
    BY <1>1, <2>1
  <2>3. ASSUME NEW j \in 1 .. Len(c), j # Len(u) + i PROVE c[j].type \notin Kinds
    <3>1. CASE j \in 1 .. Len(u) /\ c[j] = u[j]
      BY <1>4, <3>1 DEF Quiet
    <3>2. CASE j > Len(u) /\ j - Len(u) \in 1 .. Len(v) /\ c[j] = v[j - Len(u)]
      <4>1. j - Len(u) # i
        BY <1>1, <2>3
      <4> QED BY <2>1, <3>2, <4>1
    <3> QED BY <1>2, <3>1, <3>2
  <2> QED BY <2>2, <2>3 DEF Only, c
<1> QED BY <1>3, <1>4

\* What is sent behind a question that is shown, or hidden.
LEMMA ShowsCat ==
  ASSUME NEW S, NEW u \in Seq(S), NEW v \in Seq(S), NEW id,
         \/ Shows(u, id) /\ Quiet(v, Kinds)
         \/ (\A i \in 1 .. Len(u) : u[i] # ShowMsg(id)) /\ Only(v, ShowMsg(id))
  PROVE  Shows(u \o v, id)
<1> DEFINE c == u \o v
<1>1. /\ Len(u) \in Nat /\ Len(v) \in Nat /\ Len(c) = Len(u) + Len(v)
      /\ \A i \in 1 .. Len(u) : c[i] = u[i]
      /\ \A i \in 1 .. Len(v) : c[Len(u) + i] = v[i]
  BY Cat
<1>2. \A j \in 1 .. Len(c) :
         \/ j \in 1 .. Len(u) /\ c[j] = u[j]
         \/ j > Len(u) /\ j - Len(u) \in 1 .. Len(v) /\ c[j] = v[j - Len(u)]
  BY CatFrom
<1> HIDE DEF c
<1>3. CASE Shows(u, id) /\ Quiet(v, Kinds)
  <2>1. PICK i \in 1 .. Len(u) :
           /\ u[i] = ShowMsg(id)
           /\ \A j \in 1 .. Len(u) : j > i => u[j].type \notin Kinds
           /\ \A j \in 1 .. Len(u) : j # i => u[j] # ShowMsg(id)
    BY <1>3 DEF Shows
  <2>2. i \in 1 .. Len(c) /\ c[i] = ShowMsg(id)
    BY <1>1, <2>1
  <2>3. ASSUME NEW j \in 1 .. Len(c)
        PROVE  /\ j > i => c[j].type \notin Kinds
               /\ j # i => c[j] # ShowMsg(id)
    <3>1. CASE j \in 1 .. Len(u) /\ c[j] = u[j]
      BY <2>1, <3>1
    <3>2. CASE j - Len(u) \in 1 .. Len(v) /\ c[j] = v[j - Len(u)]
      <4>1. c[j].type \notin Kinds
        BY <1>3, <3>2 DEF Quiet
      <4> QED BY <4>1, MsgIs
    <3> QED BY <1>2, <3>1, <3>2
  <2> QED BY <2>2, <2>3 DEF Shows, c
<1>4. CASE (\A i \in 1 .. Len(u) : u[i] # ShowMsg(id)) /\ Only(v, ShowMsg(id))
  <2>1. PICK i \in 1 .. Len(v) :
           v[i] = ShowMsg(id) /\ \A j \in 1 .. Len(v) : j # i => v[j].type \notin Kinds
    BY <1>4 DEF Only
  <2>2. Len(u) + i \in 1 .. Len(c) /\ c[Len(u) + i] = ShowMsg(id)
    BY <1>1, <2>1
  <2>3. ASSUME NEW j \in 1 .. Len(c)
        PROVE  /\ j > Len(u) + i => c[j].type \notin Kinds
               /\ j # Len(u) + i => c[j] # ShowMsg(id)
    <3>1. CASE j \in 1 .. Len(u) /\ c[j] = u[j]
      <4>1. ~(j > Len(u) + i)
        BY <1>1, <3>1
      <4> QED BY <1>4, <3>1, <4>1
    <3>2. CASE j - Len(u) \in 1 .. Len(v) /\ c[j] = v[j - Len(u)]
      <4>1. j # Len(u) + i => j - Len(u) # i
        BY <1>1
      <4>2. j # Len(u) + i => c[j].type \notin Kinds
        BY <2>1, <3>2, <4>1
      <4>3. j > Len(u) + i => j # Len(u) + i
        BY <1>1
      <4> QED BY <4>2, <4>3, MsgIs
    <3> QED BY <1>2, <3>1, <3>2
  <2> QED BY <2>2, <2>3 DEF Shows, c
<1> QED BY <1>3, <1>4

LEMMA HidesQuiet ==
  ASSUME NEW S, NEW u \in Seq(S), NEW v \in Seq(S), NEW p, NEW x,
         Hides(u, p, x), Quiet(v, Kinds)
  PROVE  Hides(u \o v, p, x)
<1> DEFINE c == u \o v
<1>1. /\ Len(u) \in Nat /\ Len(v) \in Nat /\ Len(c) = Len(u) + Len(v)
      /\ \A i \in 1 .. Len(u) : c[i] = u[i]
  BY Cat
<1>2. \A j \in 1 .. Len(c) :
         \/ j \in 1 .. Len(u) /\ c[j] = u[j]
         \/ j > Len(u) /\ j - Len(u) \in 1 .. Len(v) /\ c[j] = v[j - Len(u)]
  BY CatFrom
<1> HIDE DEF c
<1>3. PICK i \in 1 .. Len(u) :
        /\ u[i] = HideMsg(x)
        /\ \A j \in 1 .. Len(u) : j > i => u[j].type \notin Kinds
        /\ \/ /\ \A j \in 1 .. Len(u) : j < i => u[j].type \notin Kinds
              /\ ~OpenElse(p, x)
           \/ \E h \in 1 .. Len(u) :
                 /\ h < i /\ u[h] = ShowMsg(x)
                 /\ \A j \in 1 .. Len(u) : h < j /\ j < i => u[j].type \notin Kinds
  BY DEF Hides
<1>4. i \in 1 .. Len(c) /\ c[i] = HideMsg(x)
  BY <1>1, <1>3
<1>5. \A j \in 1 .. Len(c) : j > i => c[j].type \notin Kinds
  BY <1>2, <1>3 DEF Quiet
<1>6. CASE (\A j \in 1 .. Len(u) : j < i => u[j].type \notin Kinds) /\ ~OpenElse(p, x)
  <2>1. \A j \in 1 .. Len(c) : j < i => c[j].type \notin Kinds
    BY <1>2, <1>6 DEF Quiet
  <2> QED BY <1>4, <1>5, <1>6, <2>1 DEF Hides, c
<1>7. ASSUME NEW h \in 1 .. Len(u), h < i, u[h] = ShowMsg(x),
             \A j \in 1 .. Len(u) : h < j /\ j < i => u[j].type \notin Kinds
      PROVE  Hides(u \o v, p, x)
  <2>1. h \in 1 .. Len(c) /\ c[h] = ShowMsg(x)
    BY <1>1, <1>7
  <2>2. \A j \in 1 .. Len(c) : h < j /\ j < i => c[j].type \notin Kinds
    BY <1>2, <1>7 DEF Quiet
  <2> QED BY <1>4, <1>5, <1>7, <2>1, <2>2 DEF Hides, c
<1> QED BY <1>3, <1>6, <1>7

LEMMA HidesOnly ==
  ASSUME NEW S, NEW u \in Seq(S), NEW v \in Seq(S), NEW p, NEW x,
         Shows(u, x) \/ (Quiet(u, Kinds) /\ ~OpenElse(p, x)), Only(v, HideMsg(x))
  PROVE  Hides(u \o v, p, x)
<1> DEFINE c == u \o v
<1>1. /\ Len(u) \in Nat /\ Len(v) \in Nat /\ Len(c) = Len(u) + Len(v)
      /\ \A i \in 1 .. Len(u) : c[i] = u[i]
      /\ \A i \in 1 .. Len(v) : c[Len(u) + i] = v[i]
  BY Cat
<1>2. \A j \in 1 .. Len(c) :
         \/ j \in 1 .. Len(u) /\ c[j] = u[j]
         \/ j > Len(u) /\ j - Len(u) \in 1 .. Len(v) /\ c[j] = v[j - Len(u)]
  BY CatFrom
<1> HIDE DEF c
<1>3. PICK n \in 1 .. Len(v) :
         v[n] = HideMsg(x) /\ \A j \in 1 .. Len(v) : j # n => v[j].type \notin Kinds
  BY DEF Only
<1> DEFINE i == Len(u) + n
<1>4. i \in 1 .. Len(c) /\ c[i] = HideMsg(x) /\ i > Len(u)
  BY <1>1, <1>3
<1>5. ASSUME NEW j \in 1 .. Len(c), j > Len(u), j # i PROVE c[j].type \notin Kinds
  <2>1. j - Len(u) \in 1 .. Len(v) /\ c[j] = v[j - Len(u)]
    BY <1>1, <1>2, <1>5
  <2>2. j - Len(u) # n
    BY <1>1, <1>5
  <2> QED BY <1>3, <2>1, <2>2
<1> HIDE DEF i
<1>6. \A j \in 1 .. Len(c) : j > i => c[j].type \notin Kinds
  BY <1>1, <1>4, <1>5
<1>7. CASE Quiet(u, Kinds) /\ ~OpenElse(p, x)
  <2>1. \A j \in 1 .. Len(c) : j < i => c[j].type \notin Kinds
    BY <1>2, <1>5, <1>7 DEF Quiet
  <2> QED BY <1>4, <1>6, <1>7, <2>1 DEF Hides, c
<1>8. CASE Shows(u, x)
  <2>1. PICK h \in 1 .. Len(u) :
           u[h] = ShowMsg(x) /\ \A j \in 1 .. Len(u) : j > h => u[j].type \notin Kinds
    BY <1>8 DEF Shows
  <2>2. h \in 1 .. Len(c) /\ c[h] = ShowMsg(x) /\ h < i
    BY <1>1, <1>4, <2>1
  <2>3. \A j \in 1 .. Len(c) : h < j /\ j < i => c[j].type \notin Kinds
    BY <1>2, <1>5, <2>1
  <2> QED BY <1>4, <1>6, <2>2, <2>3 DEF Hides, c
<1> QED BY <1>7, <1>8

\* The wire behind its first message.
LEMMA TailIs ==
  ASSUME NEW S, NEW w \in Seq(S), w # <<>>
  PROVE  /\ Len(w) \in Nat /\ Len(Tail(w)) \in Nat
         /\ 1 \in 1 .. Len(w) /\ Head(w) = w[1]
         /\ \A i \in 1 .. Len(Tail(w)) :
               i + 1 \in 1 .. Len(w) /\ i + 1 > 1 /\ Tail(w)[i] = w[i + 1]
         /\ \A i \in 1 .. Len(w) :
               i # 1 => i > 1 /\ i - 1 \in 1 .. Len(Tail(w)) /\ Tail(w)[i - 1] = w[i]
<1> DEFINE t == Tail(w)
<1>1. Len(w) \in Nat /\ Len(w) > 0
  BY EmptySeq
<1>2. Len(t) = Len(w) - 1 /\ (\A i \in 1 .. Len(t) : t[i] = w[i + 1]) /\ Head(w) = w[1]
  BY HeadTailProperties
<1> HIDE DEF t
<1>3. Len(t) \in Nat /\ 1 \in 1 .. Len(w)
  BY <1>1, <1>2
<1>4. \A i \in 1 .. Len(t) : i + 1 \in 1 .. Len(w) /\ i + 1 > 1 /\ t[i] = w[i + 1]
  BY <1>1, <1>2
<1>5. ASSUME NEW i \in 1 .. Len(w), i # 1
      PROVE  i > 1 /\ i - 1 \in 1 .. Len(t) /\ t[i - 1] = w[i]
  <2>1. i > 1 /\ i - 1 \in 1 .. Len(t) /\ i - 1 + 1 = i
    BY <1>1, <1>2, <1>5
  <2> QED BY <1>2, <2>1
<1> QED BY <1>1, <1>2, <1>3, <1>4, <1>5 DEF t

LEMMA ShowsTail ==
  ASSUME NEW S, NEW w \in Seq(S), w # <<>>, NEW id, Shows(w, id)
  PROVE  \/ Head(w) = ShowMsg(id) /\ Quiet(Tail(w), Kinds)
         \/ Head(w) # ShowMsg(id) /\ Shows(Tail(w), id)
<1> DEFINE t == Tail(w)
<1>1. /\ Len(w) \in Nat /\ Len(t) \in Nat /\ 1 \in 1 .. Len(w) /\ Head(w) = w[1]
      /\ \A i \in 1 .. Len(t) : i + 1 \in 1 .. Len(w) /\ i + 1 > 1 /\ t[i] = w[i + 1]
      /\ \A i \in 1 .. Len(w) :
            i # 1 => i > 1 /\ i - 1 \in 1 .. Len(t) /\ t[i - 1] = w[i]
  BY TailIs
<1> HIDE DEF t
<1>2. PICK i \in 1 .. Len(w) :
         /\ w[i] = ShowMsg(id)
         /\ \A j \in 1 .. Len(w) : j > i => w[j].type \notin Kinds
         /\ \A j \in 1 .. Len(w) : j # i => w[j] # ShowMsg(id)
  BY DEF Shows
<1>3. CASE i = 1
  <2>1. \A j \in 1 .. Len(t) : t[j].type \notin Kinds
    BY <1>1, <1>2, <1>3
  <2> QED BY <1>1, <1>2, <1>3, <2>1 DEF Quiet, t
<1>4. CASE i # 1
  <2>1. i - 1 \in 1 .. Len(t) /\ t[i - 1] = ShowMsg(id) /\ Head(w) # ShowMsg(id)
    BY <1>1, <1>2, <1>4
  <2>2. \A j \in 1 .. Len(t) : j > i - 1 => j + 1 > i
    BY <1>1
  <2>3. \A j \in 1 .. Len(t) : j # i - 1 => j + 1 # i
    BY <1>1
  <2>4. \A j \in 1 .. Len(t) : j > i - 1 => t[j].type \notin Kinds
    BY <1>1, <1>2, <2>2
  <2>5. \A j \in 1 .. Len(t) : j # i - 1 => t[j] # ShowMsg(id)
    BY <1>1, <1>2, <2>3
  <2> QED BY <2>1, <2>4, <2>5 DEF Shows, t
<1> QED BY <1>3, <1>4

\* A message that hides x, handled by a page that shows no other by then.
HidesNext(w, x) == \A p : ~OpenElse(p, x) => Hides(w, p, x)

LEMMA HidesTail ==
  ASSUME NEW S, NEW w \in Seq(S), w # <<>>, NEW p, NEW x, Hides(w, p, x)
  PROVE  \/ Head(w) = HideMsg(x) /\ Quiet(Tail(w), Kinds) /\ ~OpenElse(p, x)
         \/ Head(w).type \notin Kinds /\ ~OpenElse(p, x) /\ HidesNext(Tail(w), x)
         \/ Head(w) = ShowMsg(x) /\ HidesNext(Tail(w), x)
         \/ \A q : Hides(Tail(w), q, x)
<1> DEFINE t == Tail(w)
<1>1. /\ Len(w) \in Nat /\ Len(t) \in Nat /\ 1 \in 1 .. Len(w) /\ Head(w) = w[1]
      /\ \A i \in 1 .. Len(t) : i + 1 \in 1 .. Len(w) /\ i + 1 > 1 /\ t[i] = w[i + 1]
      /\ \A i \in 1 .. Len(w) :
            i # 1 => i > 1 /\ i - 1 \in 1 .. Len(t) /\ t[i - 1] = w[i]
  BY TailIs
<1> HIDE DEF t
<1>2. PICK i \in 1 .. Len(w) :
        /\ w[i] = HideMsg(x)
        /\ \A j \in 1 .. Len(w) : j > i => w[j].type \notin Kinds
        /\ \/ /\ \A j \in 1 .. Len(w) : j < i => w[j].type \notin Kinds
              /\ ~OpenElse(p, x)
           \/ \E h \in 1 .. Len(w) :
                 /\ h < i /\ w[h] = ShowMsg(x)
                 /\ \A j \in 1 .. Len(w) : h < j /\ j < i => w[j].type \notin Kinds
  BY DEF Hides
<1>3. \A j \in 1 .. Len(t) : (j > i - 1 => j + 1 > i) /\ (j < i - 1 => j + 1 < i)
  BY <1>1
<1>4. \A j \in 1 .. Len(t) : j > i - 1 => t[j].type \notin Kinds
  BY <1>1, <1>2, <1>3
<1>5. i # 1 => i - 1 \in 1 .. Len(t) /\ t[i - 1] = HideMsg(x)
  BY <1>1, <1>2
\* All before i is quiet: the rest hides x from a page that shows no other.
<1>6. ASSUME i # 1, \A j \in 1 .. Len(t) : j < i - 1 => t[j].type \notin Kinds
      PROVE  HidesNext(t, x)
  BY <1>4, <1>5, <1>6 DEF HidesNext, Hides
<1>7. CASE (\A j \in 1 .. Len(w) : j < i => w[j].type \notin Kinds) /\ ~OpenElse(p, x)
  <2>1. CASE i = 1
    <3>1. \A j \in 1 .. Len(t) : t[j].type \notin Kinds
      BY <1>1, <1>2, <2>1
    <3> QED BY <1>1, <1>2, <1>7, <2>1, <3>1 DEF Quiet, t
  <2>2. CASE i # 1
    <3>1. \A j \in 1 .. Len(t) : j < i - 1 => t[j].type \notin Kinds
      BY <1>1, <1>3, <1>7
    <3>2. Head(w).type \notin Kinds
      BY <1>1, <1>7, <2>2
    <3> QED BY <1>6, <1>7, <2>2, <3>1, <3>2 DEF t
  <2> QED BY <2>1, <2>2
<1>8. ASSUME NEW h \in 1 .. Len(w), h < i, w[h] = ShowMsg(x),
             \A j \in 1 .. Len(w) : h < j /\ j < i => w[j].type \notin Kinds
      PROVE  \/ Head(w) = ShowMsg(x) /\ HidesNext(t, x)
             \/ \A q : Hides(t, q, x)
  <2>1. i # 1
    BY <1>1, <1>8
  <2>2. CASE h = 1
    <3>1. \A j \in 1 .. Len(t) : j < i - 1 => t[j].type \notin Kinds
      BY <1>1, <1>3, <1>8, <2>2
    <3> QED BY <1>1, <1>6, <1>8, <2>1, <2>2, <3>1
  <2>3. CASE h # 1
    <3>1. h - 1 \in 1 .. Len(t) /\ t[h - 1] = ShowMsg(x) /\ h - 1 < i - 1
      BY <1>1, <1>8, <2>3
    <3>2. \A j \in 1 .. Len(t) : h - 1 < j => h < j + 1
      BY <1>1
    <3>3. \A j \in 1 .. Len(t) : h - 1 < j /\ j < i - 1 => t[j].type \notin Kinds
      BY <1>1, <1>3, <1>8, <3>2
    <3> QED BY <1>4, <1>5, <2>1, <3>1, <3>3 DEF Hides
  <2> QED BY <2>2, <2>3
<1> QED BY <1>2, <1>7, <1>8 DEF t

LEMMA HidesPage ==
  ASSUME NEW w, NEW p, NEW q, NEW x, Hides(w, p, x), ~OpenElse(q, x)
  PROVE  Hides(w, q, x)
  BY DEF Hides

-----------------------------------------------------------------------------
(***************************************************************************)
(* What a step of the hub sends about the question.                        *)
(***************************************************************************)
Asks ==
    \/ ~Waiting /\ ~Waiting' /\ asked' = asked /\ Quiet(toScreen', Kinds)
    \/ /\ Waiting /\ question' = question /\ asked' = asked
       /\ Quiet(toScreen', Kinds)
    \/ /\ Waiting /\ ~Waiting' /\ asked' = asked
       /\ Only(toScreen', HideMsg(question.id))
    \/ /\ Waiting' /\ question'.id = asked' /\ asked' = asked + 1
       /\ Only(toScreen', ShowMsg(asked'))

AsksOn == IF screen = None THEN toScreen' = <<>> /\ asked' \in {asked, asked + 1}
                           ELSE Asks

\* Nothing about the question, nor a change of it.
LEMMA SilentAsks ==
  ASSUME UNCHANGED <<question, asked>>, Quiet(toScreen', Kinds),
         screen = None => toScreen' = <<>>
  PROVE  AsksOn
<1>1. Waiting' = Waiting
  BY DEF Waiting
<1> QED BY <1>1 DEF AsksOn, Asks

LEMMA OneQuietMsg ==
  ASSUME NEW m, m.type \notin Kinds PROVE Quiet(<<m>>, Kinds)
<1>1. Len(<<m>>) = 1 /\ <<m>>[1] = m
  OBVIOUS
<1> QED BY <1>1 DEF Quiet

LEMMA OtherTypes ==
  /\ ClearMsg.type \notin Kinds
  /\ \A x : TextMsg(x).type \notin Kinds
  /\ \A h, m : StateMsg(h, m).type \notin Kinds
  BY DEF ClearMsg, TextMsg, StateMsg, Kinds

\* A question that waits ends, and is hidden; or there is none to end.
LEMMA EndAsks ==
  ASSUME NEW status \in {"expired", "cleared"}, NEW ops, EndQuestion(status, ops)
  PROVE  asked' = asked /\ ~Waiting'
<1>1. CASE Waiting
  BY <1>1 DEF EndQuestion, Ended, Waiting
<1>2. CASE ~Waiting
  BY <1>2 DEF EndQuestion, Ended, Waiting
<1> QED BY <1>1, <1>2

LEMMA HideAsks ==
  ASSUME asked' = asked, ~Waiting', ToScreen(screen, HideIfWaiting)
  PROVE  AsksOn
<1>1. CASE screen = None
  BY <1>1 DEF ToScreen, AsksOn
<1>2. CASE screen # None /\ Waiting
  <2>1. toScreen' = <<HideMsg(question.id)>>
    BY <1>2 DEF ToScreen, HideIfWaiting
  <2>2. Only(<<HideMsg(question.id)>>, HideMsg(question.id))
    BY OnlyOne
  <2> QED BY <1>2, <2>1, <2>2 DEF AsksOn, Asks
<1>3. CASE screen # None /\ ~Waiting
  <2>1. toScreen' = <<>>
    BY <1>3 DEF ToScreen, HideIfWaiting
  <2>2. Quiet(toScreen', Kinds)
    BY <2>1, NothingQuiet
  <2> QED BY <1>3, <2>2 DEF AsksOn, Asks
<1> QED BY <1>1, <1>2, <1>3

LEMMA ReleaseAsks ==
  ASSUME ScreenInv, NEW ops, NEW keyed, NEW host, ReleaseFloor(ops, keyed, host)
  PROVE  AsksOn
<1> DEFINE last == StateMsg(None, IdleMedia)
           first == <<ClearMsg>> \o HideIfWaiting
<1>1. asked' = asked /\ ~Waiting'
  BY EndAsks DEF ReleaseFloor
<1>2. toScreen' = IF screen = None THEN <<>> ELSE first \o <<last>>
  BY DEF ReleaseFloor, ToScreen
<1>3. IdleMedia \in [talking : BOOLEAN, video : Video]
  BY DEF IdleMedia, Video
<1>4. /\ <<ClearMsg>> \in Seq(Msg) /\ HideIfWaiting \in Seq(Msg) /\ last \in Msg
      /\ Quiet(<<ClearMsg>>, Kinds) /\ last.type \notin Kinds
  BY <1>3, MessageTypes, OneQuietMsg, OtherTypes DEF HideIfWaiting
<1>5. first \in Seq(Msg)
  BY <1>4, ConcatProperties
<1>6. <<last>> \in Seq(Msg) /\ Quiet(<<last>>, Kinds)
  <2> HIDE DEF last
  <2> QED BY <1>4, OneQuietMsg
<1>7. CASE screen = None
  BY <1>1, <1>2, <1>7 DEF AsksOn
<1>8. CASE screen # None /\ Waiting
  <2>1. Only(HideIfWaiting, HideMsg(question.id))
    BY <1>8, OnlyOne DEF HideIfWaiting
  <2>2. Only(first, HideMsg(question.id))
    BY <1>4, <2>1, OnlyCat
  <2> HIDE DEF first, last
  <2>3. Only(first \o <<last>>, HideMsg(question.id))
    BY <1>5, <1>6, <2>2, OnlyCat
  <2> QED BY <1>1, <1>2, <1>8, <2>3 DEF AsksOn, Asks
<1>9. CASE screen # None /\ ~Waiting
  <2>1. Quiet(HideIfWaiting, Kinds)
    BY <1>9, NothingQuiet DEF HideIfWaiting
  <2>2. Quiet(first, Kinds)
    BY <1>4, <2>1, QuietConcat
  <2> HIDE DEF first, last
  <2>3. Quiet(first \o <<last>>, Kinds)
    BY <1>5, <1>6, <2>2, QuietConcat
  <2> QED BY <1>1, <1>2, <1>9, <2>3 DEF AsksOn, Asks
<1> QED BY <1>7, <1>8, <1>9

LEMMA MessageAsks ==
  ASSUME ScreenInv, NEW s \in Session, OperatorMessage(s)
  PROVE  AsksOn
<1>1. CASE Ignored(s)
  BY <1>1, NothingQuiet, SilentAsks DEF Ignored, questionVars
<1>2. CASE FloorRelease(s)
  BY <1>2, ReleaseAsks DEF FloorRelease
<1>3. ASSUME NEW m, m.type \notin Kinds, ToScreen(screen, <<m>>), UNCHANGED questionVars
      PROVE  AsksOn
  <2>1. Quiet(<<m>>, Kinds) /\ Quiet(<<>>, Kinds)
    BY <1>3, OneQuietMsg, NothingQuiet
  <2>2. Quiet(toScreen', Kinds) /\ (screen = None => toScreen' = <<>>)
    BY <1>3, <2>1 DEF ToScreen
  <2> QED BY <1>3, <2>2, SilentAsks DEF questionVars
<1>4. ASSUME NEW talking \in BOOLEAN, NEW video \in Video, MediaState(s, talking, video)
      PROVE  AsksOn
  BY <1>3, <1>4, OtherTypes DEF MediaState
<1>5. ASSUME NEW x \in Text, ScreenText(s, x) PROVE AsksOn
  BY <1>3, <1>5, OtherTypes DEF ScreenText
<1>6. CASE ScreenClear(s)
  BY <1>3, <1>6, OtherTypes DEF ScreenClear
<1>7. CASE AskQuestion(s)
  <2>1. asked' = asked + 1 /\ question'.id = asked' /\ Waiting'
    BY <1>7 DEF AskQuestion, Waiting
  <2>2. toScreen' = IF screen = None THEN <<>> ELSE <<ShowMsg(asked')>>
    BY <1>7 DEF AskQuestion, ToScreen
  <2> DEFINE m == ShowMsg(asked')
  <2>3. toScreen' = IF screen = None THEN <<>> ELSE <<m>>
    BY <2>2
  <2>4. Only(<<m>>, m)
    BY OnlyOne
  <2> QED BY <2>1, <2>3, <2>4 DEF AsksOn, Asks
<1>8. CASE ClearQuestion(s)
  <2>1. asked' = asked /\ ToScreen(screen, HideIfWaiting) /\ ~Waiting'
    BY <1>8 DEF ClearQuestion, Waiting, NoQuestion
  <2> QED BY <2>1, HideAsks
<1> QED BY <1>1, <1>2, <1>4, <1>5, <1>6, <1>7, <1>8 DEF OperatorMessage

LEMMA HubAsks == ASSUME ScreenInv, HubStep PROVE AsksOn
<1>1. ASSUME toScreen' = <<>>, UNCHANGED questionVars PROVE AsksOn
  BY <1>1, NothingQuiet, SilentAsks DEF questionVars
<1>2. ASSUME NEW s \in Session, Offer(s, TRUE) \/ OperatorConnected(s) PROVE AsksOn
  BY <1>1, <1>2 DEF Offer, OperatorConnected
<1>3. ASSUME NEW s \in Session, OperatorClosed(s) PROVE AsksOn
  <2>1. CASE floor = s
    BY <1>3, <2>1, ReleaseAsks DEF OperatorClosed
  <2>2. CASE floor # s
    BY <1>1, <1>3, <2>2 DEF OperatorClosed
  <2> QED BY <2>1, <2>2
<1>4. ASSUME NEW host \in Host \cup {None}, SetControllerHost(host) PROVE AsksOn
  <2>1. CASE floor # None /\ ~Can(floor, controllers, host)
    BY <1>4, <2>1, ReleaseAsks DEF SetControllerHost
  <2>2. CASE ~(floor # None /\ ~Can(floor, controllers, host))
    BY <1>1, <1>4, <2>2 DEF SetControllerHost
  <2> QED BY <2>1, <2>2
<1>5. CASE ExpireQuestion
  <2>1. question.id = timer
    BY <1>5 DEF ExpireQuestion, ScreenInv, QuestionTimed
  <2>2. EndQuestion("expired", operators) /\ ToScreen(screen, HideIfWaiting)
    BY <1>5, <2>1 DEF ExpireQuestion
  <2> QED BY <2>2, EndAsks, HideAsks
<1> QED BY <1>2, <1>3, <1>4, <1>5, MessageAsks DEF HubStep

\* The ids a step sends were asked.
LEMMA IdsAsked ==
  ASSUME ScreenInv, Asks
  PROVE  /\ asked \in Nat /\ asked' \in {asked, asked + 1}
         /\ \A i \in 1 .. Len(toScreen') :
               toScreen'[i].type \in Kinds => toScreen'[i].id <= asked'
<1>1. asked \in Nat /\ question.id \in Nat /\ question.id <= asked
  BY ScreenAssumption DEF ScreenInv, TypeOK, Question, IdsGrow
<1>2. ASSUME NEW n \in Nat, n <= asked',
             Only(toScreen', HideMsg(n)) \/ Only(toScreen', ShowMsg(n))
      PROVE  \A i \in 1 .. Len(toScreen') :
                toScreen'[i].type \in Kinds => toScreen'[i].id <= asked'
  BY <1>2, MsgIs DEF Only
<1>3. CASE Quiet(toScreen', Kinds) /\ asked' = asked
  BY <1>1, <1>3 DEF Quiet
<1>4. CASE asked' = asked /\ Only(toScreen', HideMsg(question.id))
  BY <1>1, <1>2, <1>4
<1>5. CASE asked' = asked + 1 /\ Only(toScreen', ShowMsg(asked'))
  BY <1>1, <1>2, <1>5
<1> QED BY <1>3, <1>4, <1>5 DEF Asks

\* What onMessage makes of the question on the page.
LEMMA HandledQuestion ==
  ASSUME page \in PageState, NEW m \in Msg, NEW p, p = OnMessage(m)
  PROVE  /\ m.type \notin Kinds => p.question = page.question /\ p.sent = page.sent
         /\ \A n : m = ShowMsg(n) => p.question = n /\ ~p.sent
         /\ \A n : m = HideMsg(n) => /\ p.question \in {0, page.question}
                                     /\ ~OpenElse(page, n) => ~Open(p)
         /\ m.type \in Kinds =>
               /\ m.id \in 1 .. MaxQuestion
               /\ m = ShowMsg(m.id) \/ m = HideMsg(m.id)
<1>1. CASE m.type \notin Kinds
  <2>1. m.type \in {"screen_state", "screen_text", "screen_clear"}
    BY <1>1 DEF Msg, StateMsgs, ClearMsg, Kinds
  <2>2. p.question = page.question /\ p.sent = page.sent
    BY <2>1 DEF OnMessage, PageState
  <2> QED BY <1>1, <2>2, MsgIs
<1>2. CASE m.type \in Kinds
  <2>1. m \in [type : {"question_show", "question_hide"}, id : 1 .. MaxQuestion]
    BY <1>2 DEF Msg, StateMsgs, ClearMsg, Kinds
  <2>2. m.id \in 1 .. MaxQuestion /\ (m = ShowMsg(m.id) \/ m = HideMsg(m.id))
    BY <2>1 DEF ShowMsg, HideMsg
  <2>3. ASSUME NEW n, m = ShowMsg(n) PROVE p.question = n /\ ~p.sent
    <3>1. m.type = "question_show" /\ m.id = n
      BY <2>3, MsgIs
    <3>2. p = [page EXCEPT !.question = m.id, !.sent = FALSE]
      BY <3>1 DEF OnMessage
    <3> QED BY <3>1, <3>2 DEF PageState
  <2>4. ASSUME NEW n, m = HideMsg(n)
        PROVE  /\ p.question \in {0, page.question}
               /\ ~OpenElse(page, n) => ~Open(p)
    <3>1. m.type = "question_hide" /\ m.id = n
      BY <2>4, MsgIs
    <3>2. p = IF n = page.question /\ ~page.sent
              THEN [page EXCEPT !.question = 0] ELSE page
      BY <3>1 DEF OnMessage
    <3> QED BY <3>1, <3>2 DEF PageState, Open, OpenElse
  <2> QED BY <1>2, <2>2, <2>3, <2>4
<1> QED BY <1>1, <1>2

-----------------------------------------------------------------------------
(***************************************************************************)
(* Every step keeps AskInv.                                                *)
(***************************************************************************)
LEMMA Counted ==
  ASSUME ScreenInv, ShowInv
  PROVE  /\ asked \in Nat /\ page \in PageState /\ page.question \in Nat
         /\ wire \in Seq(Msg) /\ taps \in Seq(TapMsg)
         /\ Waiting => question.id \in 1 .. MaxQuestion
         /\ question.id \in Nat /\ question.id <= asked
  BY ScreenAssumption, MessageTypes
     DEF ScreenInv, TypeOK, Question, IdsGrow, ShowInv, LinkInv, PageState

LEMMA UnlinkedAsks == ASSUME ~Linked', FreshInv' PROVE AskInv'
  BY DEF AskInv, QuestionInv, AskedInv

\* What a linked page is sent about the question.
LEMMA AsksKeep ==
  ASSUME ScreenInv, ShowInv, AskInv, Linked, Asks, toScreen' \in Seq(Msg),
         page' = page, taps' = taps, wire' = wire \o toScreen'
  PROVE  /\ IF Waiting' THEN OnItsWay' \/ There' ELSE Gone'
         /\ page'.question <= asked'
         /\ \A i \in 1 .. Len(taps') : taps'[i].id <= asked'
         /\ \A i \in 1 .. Len(wire') : wire'[i].type \in Kinds => wire'[i].id <= asked'
<1>1. /\ asked \in Nat /\ page.question \in Nat /\ wire \in Seq(Msg) /\ taps \in Seq(TapMsg)
      /\ Waiting => question.id \in 1 .. MaxQuestion
  BY Counted
<1>2. /\ asked' \in {asked, asked + 1}
      /\ \A i \in 1 .. Len(toScreen') :
            toScreen'[i].type \in Kinds => toScreen'[i].id <= asked'
  BY IdsAsked
<1>3. /\ page.question <= asked
      /\ \A i \in 1 .. Len(taps) : taps[i].id <= asked
      /\ \A i \in 1 .. Len(wire) : wire[i].type \in Kinds => wire[i].id <= asked
      /\ IF Waiting THEN OnItsWay \/ There ELSE Gone
  BY DEF AskInv, AskedInv, QuestionInv
<1>4. page'.question <= asked'
  BY <1>1, <1>2, <1>3
<1>5. ASSUME NEW i \in 1 .. Len(taps') PROVE taps'[i].id <= asked'
  <2>1. i \in 1 .. Len(taps) /\ taps[i] \in TapMsg
    BY <1>1, <1>5
  <2>2. taps[i].id \in Nat /\ taps[i].id <= asked
    BY <1>3, <2>1 DEF TapMsg
  <2> QED BY <1>1, <1>2, <2>2
<1>6. ASSUME NEW i \in 1 .. Len(wire'), wire'[i].type \in Kinds PROVE wire'[i].id <= asked'
  <2> DEFINE c == wire \o toScreen'
  <2>1. \/ i \in 1 .. Len(wire) /\ c[i] = wire[i]
        \/ i > Len(wire) /\ i - Len(wire) \in 1 .. Len(toScreen')
             /\ c[i] = toScreen'[i - Len(wire)]
    BY <1>1, <1>6, CatFrom
  <2>2. wire' = c
    OBVIOUS
  <2> HIDE DEF c
  <2>3. CASE i \in 1 .. Len(wire) /\ c[i] = wire[i]
    <3>1. wire[i] \in Msg /\ wire[i].type \in Kinds
      BY <1>1, <1>6, <2>2, <2>3
    <3>2. wire[i].id \in Nat
      <4>1. wire[i].id \in 1 .. MaxQuestion
        BY <3>1 DEF Msg, StateMsgs, ClearMsg, Kinds
      <4> QED BY <4>1
    <3>3. wire[i].id <= asked
      BY <1>3, <2>3, <3>1
    <3> QED BY <1>1, <1>2, <2>2, <2>3, <3>2, <3>3
  <2>4. CASE i - Len(wire) \in 1 .. Len(toScreen') /\ c[i] = toScreen'[i - Len(wire)]
    BY <1>2, <1>6, <2>2, <2>4
  <2> QED BY <2>1, <2>3, <2>4
<1>7. IF Waiting' THEN OnItsWay' \/ There' ELSE Gone'
  <2>1. CASE ~Waiting /\ ~Waiting' /\ Quiet(toScreen', Kinds)
    <3>1. CASE Quiet(wire, Kinds) /\ ~Open(page)
      BY <1>1, <2>1, <3>1, QuietConcat DEF Gone
    <3>2. ASSUME NEW x \in 1 .. MaxQuestion, Hides(wire, page, x) PROVE Gone'
      <4>1. Hides(wire', page', x)
        BY <1>1, <2>1, <3>2, HidesQuiet
      <4> QED BY <4>1 DEF Gone
    <3> QED BY <1>3, <2>1, <3>1, <3>2 DEF Gone
  <2>2. CASE Waiting /\ question' = question /\ Quiet(toScreen', Kinds)
    <3>1. Waiting' /\ question'.id = question.id
          /\ Tapped(question.id)' = Tapped(question.id)
      BY <2>2 DEF Waiting, Tapped
    <3>2. CASE OnItsWay
      <4>1. Shows(wire', question.id)
        BY <1>1, <2>2, <3>2, ShowsCat DEF OnItsWay
      <4> QED BY <3>1, <3>2, <4>1 DEF OnItsWay
    <3>3. CASE There
      <4>1. Quiet(wire', Kinds)
        BY <1>1, <2>2, <3>3, QuietConcat DEF There
      <4> QED BY <3>1, <3>3, <4>1 DEF There
    <3> QED BY <1>3, <2>2, <3>1, <3>2, <3>3
  <2>3. CASE Waiting /\ ~Waiting' /\ Only(toScreen', HideMsg(question.id))
    <3>1. Shows(wire, question.id)
          \/ (Quiet(wire, Kinds) /\ ~OpenElse(page, question.id))
      BY <1>3, <2>3 DEF OnItsWay, There, Open, OpenElse
    <3>2. Hides(wire', page, question.id)
      BY <1>1, <2>3, <3>1, HidesOnly
    <3> QED BY <1>1, <2>3, <3>2 DEF Gone
  <2>4. CASE /\ Waiting' /\ question'.id = asked' /\ asked' = asked + 1
             /\ Only(toScreen', ShowMsg(asked'))
    <3> DEFINE n == asked'
    <3>1. n \in Nat /\ n = asked + 1 /\ ~(n <= asked)
      BY <1>1, <2>4
    <3> HIDE DEF n
    <3>2. \A i \in 1 .. Len(wire) : wire[i] # ShowMsg(n)
      BY <1>3, <3>1, MsgIs
    <3>3. Only(toScreen', ShowMsg(n)) /\ question'.id = n
      BY <2>4 DEF n
    <3>4. Shows(wire', n)
      BY <1>1, <3>2, <3>3, ShowsCat
    <3>5. page'.question # n /\ \A i \in 1 .. Len(taps') : taps'[i].id # n
      BY <1>3, <3>1
    <3> QED BY <2>4, <3>3, <3>4, <3>5 DEF OnItsWay, Tapped
  <2> QED BY <2>1, <2>2, <2>3, <2>4 DEF Asks
<1> QED BY <1>4, <1>5, <1>6, <1>7

LEMMA HubStepAsks == ASSUME ScreenInv, ShowInv, AskInv, HubStep PROVE AskInv'
<1>1. /\ Sends /\ screen' = screen /\ kiosks' = kiosks /\ Transmit /\ AsksOn
      /\ UNCHANGED <<answering, taps, page>>
  BY HubSends, HubAsks DEF HubStep
<1>2. wire \in Seq(Msg) /\ toScreen' \in Seq(Msg)
  BY <1>1, Counted DEF Sends
<1>3. Linked' = Linked
  BY <1>1 DEF Linked
<1>4. FreshInv'
  <2>1. answering \notin kiosks /\ answering # None /\ page.conn = answering => wire' = wire
    <3>1. screen # None => screen \in kiosks
      BY DEF ScreenInv, ScreenIsOpen
    <3> QED BY <1>1, <3>1 DEF Transmit
  <2>2. page.conn = None /\ wire = <<>> => wire' = <<>>
    <3>1. CASE screen = None
      <4>1. toScreen' = <<>> /\ <<>> \o <<>> = <<>>
        BY <1>1, <3>1 DEF AsksOn
      <4> QED BY <1>1, <4>1 DEF Transmit
    <3>2. CASE screen # None
      BY <1>1, <3>2 DEF Transmit
    <3> QED BY <3>1, <3>2
  <2> QED BY <1>1, <2>1, <2>2 DEF AskInv, FreshInv
<1>5. CASE ~Linked
  BY <1>3, <1>4, <1>5, UnlinkedAsks
<1>6. CASE Linked
  <2>1. wire' = wire \o toScreen' /\ Asks
    BY <1>1, <1>6 DEF Transmit, Linked, AsksOn
  <2> QED BY <1>1, <1>2, <1>4, <1>6, <2>1, AsksKeep DEF AskInv, QuestionInv, AskedInv
<1> QED BY <1>5, <1>6

LEMMA RestartAsks == ASSUME ShowInv, AskInv, HubRestart PROVE AskInv'
<1>1. screen' = None /\ kiosks' = {} /\ answering' = None /\ taps' = <<>>
      /\ wire' = wire /\ page' = page
  BY DEF HubRestart, Restart
<1>2. ~Linked'
  BY <1>1 DEF Linked
<1>3. FreshInv'
  BY <1>1 DEF AskInv, FreshInv
<1> QED BY <1>2, <1>3, UnlinkedAsks

LEMMA ConnectAsks ==
  ASSUME ScreenInv, ShowInv, AskInv, NEW k \in Kiosk, Connect(k)
  PROVE  AskInv'
<1>1. /\ screen' = screen /\ kiosks' = kiosks /\ answering' = k /\ taps' = <<>>
      /\ wire' = <<>> /\ page' = [page EXCEPT !.conn = k] /\ k \notin kiosks
      /\ page.conn = None /\ k # None
  BY KioskIsSome DEF Connect, vars, screenVars
<1>2. page'.conn = k /\ page'.question = 0
  BY <1>1, Counted DEF AskInv, FreshInv, PageState
<1>3. ~Linked'
  BY <1>1, <1>2 DEF Linked, ScreenInv, ScreenIsOpen
<1>4. FreshInv'
  BY <1>1, <1>2 DEF FreshInv
<1> QED BY <1>3, <1>4, UnlinkedAsks

LEMMA AttachAsks ==
  ASSUME ScreenInv, ShowInv, AskInv, NEW k \in Kiosk, Attach(k)
  PROVE  AskInv'
<1> DEFINE m == StateMsg(floor, media)
           T == IF text # None THEN <<TextMsg(text)>> ELSE <<>>
           Q == IF Waiting THEN <<ShowMsg(question.id)>> ELSE <<>>
<1>1. /\ screen' = k /\ k = answering /\ Transmit /\ kiosks' = kiosks \cup {k}
      /\ k \notin kiosks /\ k # None /\ UNCHANGED <<answering, taps, page, question, asked>>
      /\ toScreen' = <<m>> \o T \o Q
  BY KioskIsSome DEF Attach, ScreenAttached, questionVars
<1>2. taps = <<>> /\ (page.conn = k => wire = <<>> /\ page.question = 0)
  BY <1>1 DEF AskInv, FreshInv
<1>3. FreshInv'
  <2>1. page.conn = None => wire' = wire
    BY <1>1 DEF Transmit
  <2> QED BY <1>1, <2>1 DEF AskInv, FreshInv
<1>4. CASE ~Linked'
  BY <1>3, <1>4, UnlinkedAsks
<1>5. CASE Linked'
  <2>1. page.conn = k
    BY <1>1, <1>5 DEF Linked
  <2>2. toScreen' \in Seq(Msg) /\ <<>> \o toScreen' = toScreen'
    <3>1. toScreen' \in Seq(Msg)
      BY AttachSends DEF Attach
    <3>2. \A s \in Seq(Msg) : <<>> \o s = s
      BY ConcatProperties
    <3> QED BY <3>1, <3>2
  <2>3. wire' = toScreen'
    BY <1>1, <1>2, <2>1, <2>2 DEF Transmit
  <2>4. <<m>> \in Seq(Msg) /\ T \in Seq(Msg) /\ Quiet(<<m>>, Kinds) /\ Quiet(T, Kinds)
    <3>1. m \in Msg
      BY MessageTypes
    <3>2. Quiet(<<m>>, Kinds)
      BY OneQuietMsg, OtherTypes
    <3>3. T \in Seq(Msg)
      BY MessageTypes DEF ScreenInv, TypeOK
    <3>4. Quiet(T, Kinds)
      BY OneQuietMsg, OtherTypes, NothingQuiet
    <3> QED BY <3>1, <3>2, <3>3, <3>4
  <2>5. Q \in Seq(Msg)
    BY MessageTypes
  <2> DEFINE u == <<m>> \o T
  <2>6. u \in Seq(Msg) /\ Quiet(u, Kinds)
    <3> HIDE DEF T, m
    <3> QED BY <2>4, QuietConcat, ConcatProperties
  <2>7. wire' = u \o Q
    BY <1>1, <2>3
  <2> HIDE DEF u
  <2>8. asked \in Nat /\ question.id \in Nat /\ question.id <= asked
        /\ (Waiting => question.id # 0)
    BY Counted
  <2>9. \A i \in 1 .. Len(taps') : FALSE
    BY <1>1, <1>2
  <2>10. page'.question = 0 /\ ~Open(page')
    BY <1>1, <1>2, <2>1 DEF Open
  <2>11. CASE Waiting
    <3> DEFINE s == ShowMsg(question.id)
    <3>1. Only(<<s>>, s)
      BY OnlyOne
    <3>2. Q = <<s>>
      BY <2>11
    <3> HIDE DEF Q
    <3>3. Only(wire', s)
      BY <2>5, <2>6, <2>7, <3>1, <3>2, OnlyCat
    <3>4. PICK i \in 1 .. Len(wire') :
             wire'[i] = s /\ \A j \in 1 .. Len(wire') : j # i => wire'[j].type \notin Kinds
      BY <3>3 DEF Only
    <3>5. s.type \in Kinds /\ s.id = question.id
      BY MsgIs
    <3>6. \A j \in 1 .. Len(wire') : j > i => j # i
      OBVIOUS
    <3>7. \A j \in 1 .. Len(wire') : wire'[j].type \notin Kinds => wire'[j] # s
      BY <3>5
    <3>8. Shows(wire', question.id)
      BY <3>4, <3>6, <3>7 DEF Shows
    <3>9. Waiting' /\ OnItsWay'
      BY <1>1, <2>8, <2>9, <2>10, <2>11, <3>8 DEF OnItsWay, Tapped, Waiting
    <3>10. \A j \in 1 .. Len(wire') : wire'[j].type \in Kinds => wire'[j].id <= asked'
      BY <1>1, <2>8, <3>4, <3>5
    <3> QED BY <1>1, <1>3, <2>8, <2>9, <2>10, <3>9, <3>10
            DEF AskInv, QuestionInv, AskedInv
  <2>12. CASE ~Waiting
    <3>1. Quiet(wire', Kinds)
      <4>1. Quiet(Q, Kinds)
        BY <2>12, NothingQuiet
      <4> HIDE DEF Q
      <4> QED BY <2>5, <2>6, <2>7, <4>1, QuietConcat
    <3>2. ~Waiting' /\ Gone'
      BY <1>1, <2>10, <2>12, <3>1 DEF Waiting, Gone
    <3>3. \A j \in 1 .. Len(wire') : wire'[j].type \notin Kinds
      BY <3>1 DEF Quiet
    <3> QED BY <1>1, <1>3, <2>8, <2>9, <2>10, <3>2, <3>3
            DEF AskInv, QuestionInv, AskedInv
  <2> QED BY <2>11, <2>12
<1> QED BY <1>4, <1>5

LEMMA DetachAsks ==
  ASSUME ShowInv, AskInv, NEW k \in Kiosk, Detach(k)
  PROVE  AskInv'
<1>1. /\ UNCHANGED <<wire, page, question, asked>> /\ kiosks' = kiosks \ {k}
      /\ screen' = IF screen = k THEN None ELSE screen
      /\ IF answering = k THEN answering' = None /\ taps' = <<>>
                          ELSE answering' = answering /\ taps' = taps
  BY DEF Detach, ScreenDetached, questionVars
<1>2. FreshInv'
  BY <1>1 DEF AskInv, FreshInv
<1>3. CASE ~Linked'
  BY <1>2, <1>3, UnlinkedAsks
<1>4. CASE Linked'
  <2>1. Linked /\ taps' = taps
    BY <1>1, <1>4 DEF Linked, ShowInv, LinkInv
  <2>2. QuestionInv'
    BY <1>1, <2>1
       DEF AskInv, QuestionInv, Waiting, OnItsWay, There, Gone, Tapped, Open
  <2>3. AskedInv'
    BY <1>1, <2>1 DEF AskInv, AskedInv
  <2> QED BY <1>2, <2>2, <2>3 DEF AskInv
<1> QED BY <1>3, <1>4

\* A tap that arrives is taken only from a victim who has tapped the question
\* that waits.
LEMMA TapArrivesAsks == ASSUME ScreenInv, ShowInv, AskInv, TapArrives PROVE AskInv'
<1> DEFINE h == Head(taps)
<1>1. /\ UNCHANGED <<screen, kiosks, asked, wire, answering, page>>
      /\ taps # <<>> /\ taps' = Tail(taps)
      /\ AnswerQuestion(h.id, h.choice)
  BY DEF TapArrives, AnswerQuestion, screenVars
<1>2. taps \in Seq(TapMsg)
  BY Counted
<1>3. /\ 1 \in 1 .. Len(taps) /\ h = taps[1]
      /\ \A i \in 1 .. Len(taps') : i + 1 \in 1 .. Len(taps) /\ taps'[i] = taps[i + 1]
      /\ \A i \in 1 .. Len(taps) :
            i # 1 => i - 1 \in 1 .. Len(taps') /\ taps'[i - 1] = taps[i]
  BY <1>1, <1>2, TailIs
<1>4. h \in TapMsg /\ h.choice \in Choice
  <2>1. h \in TapMsg
    BY <1>1, <1>2
  <2> QED BY <2>1 DEF TapMsg
<1> HIDE DEF h
<1>5. FreshInv'
  BY <1>1 DEF AskInv, FreshInv
<1>6. CASE ~Linked'
  BY <1>5, <1>6, UnlinkedAsks
<1>7. CASE Linked'
  <2>1. Linked
    BY <1>1, <1>7 DEF Linked
  <2>2. AskedInv'
    BY <1>1, <1>3, <2>1 DEF AskInv, AskedInv
  <2>3. IF Waiting THEN OnItsWay \/ There ELSE Gone
    BY <2>1 DEF AskInv, QuestionInv
  <2>4. CASE Waiting /\ h.id = question.id
    <3>1. ~Waiting'
      <4>1. question \in Question
        BY DEF ScreenInv, TypeOK
      <4>2. question' = [question EXCEPT !.status = "answered", !.answer = h.choice]
        BY <1>1, <1>4, <2>4 DEF AnswerQuestion, Accepts
      <4>3. question'.status = "answered"
        BY <4>1, <4>2 DEF Question
      <4> QED BY <4>3 DEF Waiting
    <3>2. Tapped(question.id)
      BY <1>3, <2>4 DEF Tapped
    <3>3. Quiet(wire, Kinds) /\ ~Open(page)
      BY <2>3, <2>4, <3>2 DEF OnItsWay, There
    <3>4. Gone'
      BY <1>1, <3>3 DEF Gone
    <3> QED BY <1>5, <2>2, <3>1, <3>4 DEF AskInv, QuestionInv
  <2>5. CASE ~(Waiting /\ h.id = question.id)
    <3>1. question' = question /\ Waiting' = Waiting
      BY <1>1, <2>5 DEF AnswerQuestion, Accepts, Waiting
    <3>2. CASE Waiting
      <4>1. h.id # question.id
        BY <2>5, <3>2
      <4>2. ASSUME Tapped(question.id) PROVE \E i \in 1 .. Len(taps') : taps'[i].id = question.id
        <5>1. PICK i \in 1 .. Len(taps) : taps[i].id = question.id
          BY <4>2 DEF Tapped
        <5>2. i - 1 \in 1 .. Len(taps') /\ taps'[i - 1] = taps[i]
          BY <1>3, <4>1, <5>1
        <5> QED BY <5>1, <5>2
      <4>3. ASSUME NEW i \in 1 .. Len(taps'), taps'[i].id = question.id PROVE Tapped(question.id)
        BY <1>3, <4>3 DEF Tapped
      <4>4. Tapped(question.id)' <=> Tapped(question.id)
        BY <3>1, <4>2, <4>3 DEF Tapped
      <4>5. ASSUME OnItsWay PROVE OnItsWay'
        BY <1>1, <3>1, <4>4, <4>5 DEF OnItsWay
      <4>6. ASSUME There PROVE There'
        BY <1>1, <3>1, <4>4, <4>6 DEF There
      <4>7. Waiting' /\ (OnItsWay' \/ There')
        BY <2>3, <3>1, <3>2, <4>5, <4>6
      <4> QED BY <1>5, <2>2, <4>7 DEF AskInv, QuestionInv
    <3>3. CASE ~Waiting
      <4>1. ~Waiting' /\ Gone'
        BY <1>1, <2>3, <3>1, <3>3 DEF Gone
      <4> QED BY <1>5, <2>2, <4>1 DEF AskInv, QuestionInv
    <3> QED BY <3>2, <3>3
  <2> QED BY <2>4, <2>5
<1> QED BY <1>6, <1>7

LEMMA OfflineAsks ==
  ASSUME ShowInv, AskInv, PageOffline \/ PageReload PROVE AskInv'
<1>1. UNCHANGED <<screen, kiosks, answering, taps>> /\ wire' = <<>>
      /\ page' \in {SetOffline, BlankPage}
  BY DEF PageOffline, PageReload, vars, screenVars
<1>2. page'.conn = None /\ page'.question = 0
  <2>1. page \in PageState
    BY DEF ShowInv, LinkInv
  <2>2. SetOffline.conn = None /\ SetOffline.question = 0
    BY <2>1 DEF SetOffline, PageState
  <2>3. BlankPage.conn = None /\ BlankPage.question = 0
    BY DEF BlankPage
  <2> QED BY <1>1, <2>2, <2>3
<1>3. ~Linked'
  BY <1>1, <1>2 DEF Linked
<1>4. FreshInv'
  BY <1>1, <1>2 DEF AskInv, FreshInv
<1> QED BY <1>3, <1>4, UnlinkedAsks

\* The page handles the first message on the wire.
LEMMA DeliverAsks == ASSUME ScreenInv, ShowInv, AskInv, Deliver PROVE AskInv'
<1> DEFINE m == Head(wire)
<1>1. /\ UNCHANGED <<screen, kiosks, question, asked, answering, taps>>
      /\ wire # <<>> /\ wire' = Tail(wire) /\ page' = OnMessage(m)
  BY DEF Deliver, vars, screenVars, questionVars
<1>2. /\ wire \in Seq(Msg) /\ page \in PageState /\ page.question \in Nat /\ asked \in Nat
      /\ Waiting => question.id \in 1 .. MaxQuestion
  BY Counted
<1>3. m \in Msg /\ 1 \in 1 .. Len(wire) /\ m = wire[1]
      /\ \A i \in 1 .. Len(wire') : i + 1 \in 1 .. Len(wire) /\ wire'[i] = wire[i + 1]
  BY <1>1, <1>2, TailIs
<1>4. page'.conn = page.conn
  BY <1>1, <1>2, <1>3, Handled
<1>5. /\ m.type \notin Kinds => page'.question = page.question /\ page'.sent = page.sent
      /\ \A n : m = ShowMsg(n) => page'.question = n /\ ~page'.sent
      /\ \A n : m = HideMsg(n) => /\ page'.question \in {0, page.question}
                                  /\ ~OpenElse(page, n) => ~Open(page')
      /\ m.type \in Kinds => /\ m.id \in 1 .. MaxQuestion
                             /\ m = ShowMsg(m.id) \/ m = HideMsg(m.id)
  BY <1>1, <1>2, <1>3, HandledQuestion
<1>6. /\ Quiet(wire, Kinds) => Quiet(wire', Kinds) /\ m.type \notin Kinds
      /\ \A id : Shows(wire, id) => \/ m = ShowMsg(id) /\ Quiet(wire', Kinds)
                                    \/ m # ShowMsg(id) /\ Shows(wire', id)
      /\ \A x : Hides(wire, page, x) =>
            \/ m = HideMsg(x) /\ Quiet(wire', Kinds) /\ ~OpenElse(page, x)
            \/ m.type \notin Kinds /\ ~OpenElse(page, x) /\ HidesNext(wire', x)
            \/ m = ShowMsg(x) /\ HidesNext(wire', x)
            \/ \A q : Hides(wire', q, x)
  BY <1>1, <1>2, TailSays, ShowsTail, HidesTail
<1> HIDE DEF m
<1>7. FreshInv'
  BY <1>1, <1>4 DEF AskInv, FreshInv
<1>8. CASE ~Linked'
  BY <1>7, <1>8, UnlinkedAsks
<1>9. CASE Linked'
  <2>1. Linked
    BY <1>1, <1>4, <1>9 DEF Linked
  <2>2. page.question <= asked /\ (m.type \in Kinds => m.id <= asked)
    BY <1>3, <2>1 DEF AskInv, AskedInv
  <2>3. page'.question <= asked
    <3>1. CASE m.type \notin Kinds
      BY <1>5, <2>2, <3>1
    <3>2. CASE m.type \in Kinds
      BY <1>2, <1>5, <2>2, <3>2
    <3> QED BY <3>1, <3>2
  <2>4. AskedInv'
    BY <1>1, <1>3, <2>1, <2>3 DEF AskInv, AskedInv
  <2>5. IF Waiting THEN OnItsWay \/ There ELSE Gone
    BY <2>1 DEF AskInv, QuestionInv
  <2>6. Waiting' = Waiting /\ question' = question /\ (Tapped(question.id)' = Tapped(question.id))
    BY <1>1 DEF Waiting, Tapped
  <2>7. ASSUME Waiting, OnItsWay PROVE OnItsWay' \/ There'
    <3>1. Shows(wire, question.id) /\ page.question # question.id /\ ~Tapped(question.id)
      BY <2>7 DEF OnItsWay
    <3>2. CASE m = ShowMsg(question.id) /\ Quiet(wire', Kinds)
      <4>1. page'.question = question.id /\ ~page'.sent
        BY <1>5, <3>2
      <4> QED BY <2>6, <3>1, <3>2, <4>1 DEF There
    <3>3. CASE m # ShowMsg(question.id) /\ Shows(wire', question.id)
      <4>1. page'.question # question.id
        <5>1. CASE m.type \notin Kinds
          BY <1>5, <3>1, <5>1
        <5>2. CASE m = ShowMsg(m.id)
          <6>1. m.id # question.id
            BY <3>3, <5>2
          <6> QED BY <1>5, <5>2, <6>1
        <5>3. CASE m = HideMsg(m.id)
          <6>1. page'.question \in {0, page.question}
            BY <1>5, <5>3
          <6> QED BY <1>2, <2>7, <3>1, <6>1
        <5> QED BY <1>5, <5>1, <5>2, <5>3
      <4> QED BY <2>6, <3>1, <3>3, <4>1 DEF OnItsWay
    <3> QED BY <1>6, <2>6, <2>7, <3>1, <3>2, <3>3
  <2>8. ASSUME Waiting, There PROVE There'
    <3>1. Quiet(wire', Kinds) /\ page'.question = page.question /\ page'.sent = page.sent
      BY <1>5, <1>6, <2>8 DEF There
    <3> QED BY <2>6, <2>8, <3>1 DEF There, Open
  <2>9. ASSUME ~Waiting PROVE Gone'
    <3>1. CASE Quiet(wire, Kinds) /\ ~Open(page)
      <4>1. Quiet(wire', Kinds) /\ page'.question = page.question /\ page'.sent = page.sent
        BY <1>5, <1>6, <3>1
      <4>2. ~Open(page')
        BY <3>1, <4>1 DEF Open
      <4> QED BY <4>1, <4>2 DEF Gone
    <3>2. ASSUME NEW x \in 1 .. MaxQuestion, Hides(wire, page, x) PROVE Gone'
      <4>1. CASE m = HideMsg(x) /\ Quiet(wire', Kinds) /\ ~OpenElse(page, x)
        <5>1. ~Open(page')
          BY <1>5, <4>1
        <5> QED BY <4>1, <5>1 DEF Gone
      <4>2. CASE m.type \notin Kinds /\ ~OpenElse(page, x) /\ HidesNext(wire', x)
        <5>1. ~OpenElse(page', x)
          BY <1>5, <4>2 DEF OpenElse, Open
        <5>2. Hides(wire', page', x)
          BY <4>2, <5>1 DEF HidesNext
        <5> QED BY <5>2 DEF Gone
      <4>3. CASE m = ShowMsg(x) /\ HidesNext(wire', x)
        <5>1. ~OpenElse(page', x)
          BY <1>5, <4>3 DEF OpenElse
        <5>2. Hides(wire', page', x)
          BY <4>3, <5>1 DEF HidesNext
        <5> QED BY <5>2 DEF Gone
      <4>4. CASE \A q : Hides(wire', q, x)
        BY <4>4 DEF Gone
      <4> QED BY <1>6, <3>2, <4>1, <4>2, <4>3, <4>4
    <3> QED BY <2>5, <2>9, <3>1, <3>2 DEF Gone
  <2>10. IF Waiting' THEN OnItsWay' \/ There' ELSE Gone'
    BY <2>5, <2>6, <2>7, <2>8, <2>9
  <2> QED BY <1>7, <2>4, <2>10 DEF AskInv, QuestionInv
<1> QED BY <1>8, <1>9

LEMMA TapAsks ==
  ASSUME ScreenInv, ShowInv, AskInv, NEW choice \in Choice, Tap(choice)
  PROVE  AskInv'
<1> DEFINE a == [id |-> page.question, choice |-> choice]
<1>1. /\ UNCHANGED <<screen, kiosks, question, asked, answering, wire>>
      /\ page' = [page EXCEPT !.sent = TRUE] /\ page.question # 0 /\ ~page.sent
      /\ taps' = IF page.conn = answering THEN Append(taps, a) ELSE taps
  BY DEF Tap, vars, screenVars, questionVars
<1>2. page \in PageState /\ taps \in Seq(TapMsg) /\ a.id = page.question
  BY Counted
<1>3. page'.conn = page.conn /\ page'.question = page.question /\ ~Open(page')
  BY <1>1, <1>2 DEF PageState, Open
<1>4. page.conn = answering => answering \in kiosks
  BY <1>1 DEF AskInv, FreshInv
<1>5. FreshInv'
  BY <1>1, <1>3, <1>4 DEF AskInv, FreshInv
<1>6. CASE ~Linked'
  BY <1>5, <1>6, UnlinkedAsks
<1>7. CASE Linked'
  <2>1. Linked
    BY <1>1, <1>3, <1>7 DEF Linked
  <2>2. taps' = Append(taps, a)
    BY <1>1, <2>1 DEF ShowInv, LinkInv, Linked
  <2> HIDE DEF a
  <2>3. /\ Len(taps) \in Nat /\ Len(taps') = Len(taps) + 1
        /\ \A i \in 1 .. Len(taps) : i \in 1 .. Len(taps') /\ taps'[i] = taps[i]
        /\ taps'[Len(taps) + 1] = a
    <3>1. Len(taps) \in Nat /\ Len(Append(taps, a)) = Len(taps) + 1
          /\ (\A i \in 1 .. Len(taps) : Append(taps, a)[i] = taps[i])
          /\ Append(taps, a)[Len(taps) + 1] = a
      BY <1>2
    <3> QED BY <2>2, <3>1
  <2>4. Len(taps) + 1 \in 1 .. Len(taps')
        /\ \A i \in 1 .. Len(taps') : i \in 1 .. Len(taps) \/ i = Len(taps) + 1
    BY <2>3
  <2>5. page.question <= asked
    BY <2>1 DEF AskInv, AskedInv
  <2>6. \A i \in 1 .. Len(taps') : taps'[i].id <= asked
    BY <1>2, <2>1, <2>3, <2>4, <2>5 DEF AskInv, AskedInv
  <2>7. AskedInv'
    BY <1>1, <1>3, <2>1, <2>5, <2>6 DEF AskInv, AskedInv
  <2>8. Waiting' = Waiting /\ question' = question
    BY <1>1 DEF Waiting
  <2>9. Tapped(question.id)' <=> Tapped(question.id) \/ page.question = question.id
    BY <1>2, <2>3, <2>4, <2>8 DEF Tapped
  <2>10. IF Waiting THEN OnItsWay \/ There ELSE Gone
    BY <2>1 DEF AskInv, QuestionInv
  <2>11. ASSUME Waiting, OnItsWay PROVE OnItsWay' \/ There'
    BY <1>1, <1>3, <2>8, <2>9, <2>11 DEF OnItsWay
  <2>12. ASSUME Waiting, There PROVE There'
    BY <1>1, <1>3, <2>8, <2>9, <2>12 DEF There, Open
  <2>13. ASSUME ~Waiting PROVE Gone'
    <3>1. Quiet(wire, Kinds) => Gone'
      BY <1>1, <1>3 DEF Gone
    <3>2. ASSUME NEW x \in 1 .. MaxQuestion, Hides(wire, page, x) PROVE Gone'
      <4>1. Hides(wire, page', x)
        BY <1>3, <3>2, HidesPage DEF OpenElse
      <4> QED BY <1>1, <4>1 DEF Gone
    <3> QED BY <2>8, <2>10, <2>13, <3>1, <3>2 DEF Gone
  <2>14. IF Waiting' THEN OnItsWay' \/ There' ELSE Gone'
    BY <2>8, <2>10, <2>11, <2>12, <2>13
  <2> QED BY <1>5, <2>7, <2>14 DEF AskInv, QuestionInv
<1> QED BY <1>6, <1>7

LEMMA HideAnsweredAsks ==
  ASSUME ScreenInv, ShowInv, AskInv, HideAnswered PROVE AskInv'
<1>1. /\ UNCHANGED <<screen, kiosks, question, asked, answering, wire, taps>>
      /\ page' = [page EXCEPT !.question = 0, !.sent = FALSE] /\ page.sent
  BY DEF HideAnswered, vars, screenVars, questionVars, linkVars
<1>2. asked \in Nat /\ page \in PageState
      /\ (Waiting => question.id \in 1 .. MaxQuestion)
  BY Counted
<1>3. page'.conn = page.conn /\ page'.question = 0 /\ ~Open(page') /\ ~Open(page)
  BY <1>1, <1>2 DEF PageState, Open
<1>4. FreshInv'
  BY <1>1, <1>3 DEF AskInv, FreshInv
<1>5. CASE ~Linked'
  BY <1>4, <1>5, UnlinkedAsks
<1>6. CASE Linked'
  <2>1. Linked
    BY <1>1, <1>3, <1>6 DEF Linked
  <2>2. AskedInv'
    BY <1>1, <1>2, <1>3, <2>1 DEF AskInv, AskedInv
  <2>3. Waiting' = Waiting /\ question' = question
        /\ (Tapped(question.id)' = Tapped(question.id))
    BY <1>1 DEF Waiting, Tapped
  <2>4. IF Waiting THEN OnItsWay \/ There ELSE Gone
    BY <2>1 DEF AskInv, QuestionInv
  <2>5. ASSUME Waiting, OnItsWay PROVE OnItsWay' \/ There'
    <3>1. page'.question # question.id
      BY <1>2, <1>3, <2>5
    <3> QED BY <1>1, <2>3, <2>5, <3>1 DEF OnItsWay
  <2>6. ASSUME Waiting, There PROVE There'
    BY <1>1, <1>3, <2>3, <2>6 DEF There
  <2>7. ASSUME ~Waiting PROVE Gone'
    <3>1. Quiet(wire, Kinds) => Gone'
      BY <1>1, <1>3 DEF Gone
    <3>2. ASSUME NEW x \in 1 .. MaxQuestion, Hides(wire, page, x) PROVE Gone'
      <4>1. Hides(wire, page', x)
        BY <1>3, <3>2, HidesPage DEF OpenElse
      <4> QED BY <1>1, <4>1 DEF Gone
    <3> QED BY <2>3, <2>4, <2>7, <3>1, <3>2 DEF Gone
  <2>8. IF Waiting' THEN OnItsWay' \/ There' ELSE Gone'
    BY <2>3, <2>4, <2>5, <2>6, <2>7
  <2> QED BY <1>4, <2>2, <2>8 DEF AskInv, QuestionInv
<1> QED BY <1>5, <1>6

LEMMA AskStepHolds ==
  ASSUME ScreenInv, ShowInv, AskInv, [SystemNext]_systemVars
  PROVE  AskInv'
<1>1. CASE Page
  BY <1>1, OfflineAsks, DeliverAsks, TapAsks, HideAnsweredAsks DEF Page
<1>2. CASE UNCHANGED systemVars
  <2>1. UNCHANGED <<screen, kiosks, question, asked, answering, wire, taps, page>>
    BY <1>2 DEF systemVars, vars, screenVars, questionVars, linkVars
  <2>2. QuestionInv'
    BY <2>1 DEF AskInv, QuestionInv, Linked, Waiting, OnItsWay, There, Gone, Tapped
  <2>3. AskedInv' /\ FreshInv'
    BY <2>1 DEF AskInv, AskedInv, FreshInv, Linked
  <2> QED BY <2>2, <2>3 DEF AskInv
<1> QED BY <1>1, <1>2, HubStepAsks, RestartAsks, ConnectAsks, AttachAsks, DetachAsks,
           TapArrivesAsks DEF SystemNext

LEMMA AskInitHolds == ASSUME SystemInit PROVE AskInv
<1>1. screen = None /\ answering = None /\ wire = <<>> /\ taps = <<>> /\ page = BlankPage
  BY DEF SystemInit, Init
<1>2. ~Linked /\ FreshInv
  BY <1>1 DEF Linked, FreshInv, BlankPage
<1> QED BY <1>2 DEF AskInv, QuestionInv, AskedInv

-----------------------------------------------------------------------------
\* What is on the wire about questions, what the page shows and what was tapped
\* agree with the hub (talkback.ScreenHub with screen/index.html).
THEOREM QuestionCorrect == SystemSpec => []AskInv
  BY AskInitHolds, AskStepHolds, SystemCorrect, PTL DEF SystemSpec

LEMMA NothingThere ==
  ASSUME wire = <<>>
  PROVE  /\ \A id : ~Shows(wire, id)
         /\ \A p, x : ~Hides(wire, p, x)
<1>1. Len(<<>>) = 0
  BY EmptySeq
<1> QED BY <1>1 DEF Shows, Hides

\* A victim whose page has handled what it was sent can tap the question that
\* waits, or has tapped it, and can tap no other: not one that is over, nor one
\* of an earlier P2.
THEOREM QuestionIsShown == SystemSpec => []QuestionShown
<1>1. ASSUME ScreenInv, ShowInv, AskInv, Settled
      PROVE  /\ Waiting => \/ page.question = question.id /\ ~page.sent
                           \/ TapUnderway
             /\ page.question # 0 /\ ~page.sent => Waiting /\ page.question = question.id
  <2>1. wire = <<>> /\ IF Waiting THEN OnItsWay \/ There ELSE Gone
    BY <1>1 DEF Settled, AskInv, QuestionInv
  <2>2. IF Waiting THEN There ELSE ~Open(page)
    BY <2>1, NothingThere DEF OnItsWay, Gone
  <2>3. Tapped(question.id) => TapUnderway
    <3>1. DOMAIN taps = 1 .. Len(taps)
      BY <1>1, Counted
    <3> QED BY <3>1 DEF Tapped, TapUnderway
  <2> QED BY <2>2, <2>3 DEF There, Open
<1>2. ScreenInv /\ ShowInv /\ AskInv => QuestionShown
  BY <1>1 DEF QuestionShown
<1> QED BY <1>2, QuestionCorrect, SystemCorrect, PTL

=============================================================================
