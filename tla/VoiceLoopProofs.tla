--------------------------- MODULE VoiceLoopProofs ---------------------------
(***************************************************************************)
(* What panels know of the voice message, for any dashboards, hosts and    *)
(* bounds: VoiceTold and UploadedIsMine, both from VoiceInv.               *)
(***************************************************************************)
EXTENDS VoiceLoop, SequenceTheorems, TLAPS

\* What a dashboard is told of a hub.
LEMMA StatusType ==
  ASSUME NEW h \in HubState
  PROVE  VoiceStatus(h) \in Status
  BY DEF VoiceStatus, Status, HubState

LEMMA NoneElse == None \notin Clips /\ None \notin Status /\ None \notin Host
  BY VoiceAssumption DEF Clips, Status

LEMMA Bounds ==
  MaxRec \in Nat /\ MaxUpload \in Nat /\ MaxLife \in Nat /\ MaxLife > 0
  BY VoiceAssumption

LEMMA Lives == TypeOK => life \in Nat /\ life > 0
  BY Bounds DEF TypeOK

LEMMA InitHolds == Init => VoiceInv
<1> SUFFICES ASSUME Init PROVE VoiceInv
  OBVIOUS
<1>1. TypeOK
  <2>1. hub \in HubState /\ ~hub.playing
    BY DEF Init, Fresh, HubState
  <2>2. dash \in [Dash -> DashState]
    BY VoiceAssumption DEF Init, DashState
  <2>3. request \in [Dash -> RequestState]
    BY VoiceAssumption DEF Init, NoRequest, RequestState
  <2>4. \A d \in Dash : Agree(dash[d], request[d])
    BY DEF Init, NoRequest, Agree
  <2>5. 1 \in 1 .. MaxLife /\ 0 \in 0 .. MaxUpload
    BY VoiceAssumption
  <2>6. down \in [Dash -> Seq(Status)] /\ up \in [Dash -> Seq(Kind)]
    BY DEF Init
  <2>7. host \in Host \cup {None} /\ jobs \subseteq Job
    BY DEF Init
  <2> QED BY <2>1, <2>2, <2>3, <2>4, <2>5, <2>6, <2>7 DEF Init, TypeOK
<1>2. VoiceTold
  BY DEF Init, VoiceTold
<1>3. IdsInv
  <2> SUFFICES ASSUME NEW d \in Dash
               PROVE  /\ dash[d].inLife <= life /\ request[d].life <= life
                      /\ dash[d].inLife # life /\ request[d].life # life
    BY DEF IdsInv
  <2>1. life = 1 /\ dash[d].inLife = 0 /\ request[d].life = 0
    BY DEF Init, NoRequest
  <2> QED BY <2>1
<1> QED BY <1>1, <1>2, <1>3 DEF VoiceInv

-----------------------------------------------------------------------------
LEMMA Appended ==
  ASSUME NEW s \in Seq(Status), NEW v \in Status
  PROVE  /\ Append(s, v) \in Seq(Status) /\ Append(s, v) # <<>>
         /\ Append(s, v)[Len(Append(s, v))] = v
<1>1. Len(Append(s, v)) = Len(s) + 1 /\ Append(s, v) \in Seq(Status)
  OBVIOUS
<1>2. Append(s, v)[Len(s) + 1] = v
  OBVIOUS
<1> QED BY <1>1, <1>2

\* Telling every linked dashboard keeps the channels typed, and what is last on
\* a linked one is the status that was told.
LEMMA TellKeeps ==
  ASSUME TypeOK, NEW h \in HubState, Tell(h)
  PROVE  /\ down' \in [Dash -> Seq(Status)]
         /\ \A d \in Dash : dash[d].link =>
               down'[d] # <<>> /\ down'[d][Len(down'[d])] = VoiceStatus(h)
<1>1. VoiceStatus(h) \in Status
  BY StatusType
<1>2. \A d \in Dash : down[d] \in Seq(Status)
  BY DEF TypeOK
<1>3. \A d \in Dash :
         /\ Append(down[d], VoiceStatus(h)) \in Seq(Status)
         /\ Append(down[d], VoiceStatus(h)) # <<>>
         /\ Append(down[d], VoiceStatus(h))[Len(Append(down[d], VoiceStatus(h)))] = VoiceStatus(h)
  BY <1>1, <1>2, Appended
<1>4. \A d \in Dash : down'[d] = IF dash[d].link
                                 THEN Append(down[d], VoiceStatus(h)) ELSE down[d]
  BY DEF Tell
<1>5. down' \in [Dash -> Seq(Status)]
  <2>1. DOMAIN down' = Dash /\ down' = [d \in Dash |-> down'[d]]
    BY DEF Tell
  <2>2. \A d \in Dash : down'[d] \in Seq(Status)
    BY <1>2, <1>3, <1>4
  <2> QED BY <2>1, <2>2
<1> QED BY <1>3, <1>4, <1>5

-----------------------------------------------------------------------------
\* What is put in place of one entry of a function.
LEMMA Replaced ==
  ASSUME NEW S, NEW f \in [Dash -> S], NEW d \in Dash, NEW v \in S
  PROVE  /\ [f EXCEPT ![d] = v] \in [Dash -> S]
         /\ \A e \in Dash : [f EXCEPT ![d] = v][e] = IF e = d THEN v ELSE f[e]
  OBVIOUS

LEMMA CommandType == ASSUME TypeOK, NEW d \in Dash, Command(d) PROVE TypeOK'
<1>1. up[d] \in Seq(Kind) /\ up \in [Dash -> Seq(Kind)] /\ up[d] # <<>>
  BY DEF TypeOK, Command
<1>2. Head(up[d]) \in Kind /\ Tail(up[d]) \in Seq(Kind)
  BY <1>1
<1>3. up' \in [Dash -> Seq(Kind)]
  BY <1>1, <1>2 DEF Command
<1>4. hub' \in HubState /\ (hub'.playing => hub'.clip # None)
  <2>1. hub \in HubState /\ (hub.playing => hub.clip # None)
    BY DEF TypeOK
  <2>2. Commanded(Head(up[d])) \in HubState
        /\ (Commanded(Head(up[d])).playing => Commanded(Head(up[d])).clip # None)
    BY <2>1, <1>2 DEF Commanded, HubState, Kind
  <2> QED BY <2>1, <2>2 DEF Command
<1>5. down' \in [Dash -> Seq(Status)]
  BY <1>4, TellKeeps DEF Command, TypeOK
<1> QED BY <1>3, <1>4, <1>5 DEF Command, TypeOK

Stages == {"sent", "waiting", "answered", "failed"}

\* A request under way comes to another stage.
LEMMA StageType ==
  ASSUME TypeOK, NEW d \in Dash, NEW st \in Stages, request[d].stage # "none",
         request' = [request EXCEPT ![d].stage = st]
  PROVE  /\ request' \in [Dash -> RequestState]
         /\ \A e \in Dash : Agree(dash[e], request'[e])
         /\ \A e \in Dash : request'[e] = IF e = d THEN [request[d] EXCEPT !.stage = st]
                                                  ELSE request[e]
<1>1. request[d] \in RequestState /\ request \in [Dash -> RequestState]
      /\ Agree(dash[d], request[d])
  BY DEF TypeOK
<1>2. [request[d] EXCEPT !.stage = st] \in RequestState
      /\ Agree(dash[d], [request[d] EXCEPT !.stage = st])
  BY <1>1 DEF RequestState, Agree, Stages
<1>3. request' \in [Dash -> RequestState]
      /\ \A e \in Dash : request'[e] = IF e = d THEN [request[d] EXCEPT !.stage = st] ELSE request[e]
  BY <1>1, <1>2, Replaced
<1> QED BY <1>2, <1>3 DEF TypeOK

LEMMA UploadArrivesType == ASSUME TypeOK, NEW d \in Dash, UploadArrives(d) PROVE TypeOK'
<1>1. PICK st \in Stages : request' = [request EXCEPT ![d].stage = st]
  BY DEF UploadArrives, Stages
<1>2. request' \in [Dash -> RequestState] /\ \A e \in Dash : Agree(dash[e], request'[e])
  BY <1>1, StageType DEF UploadArrives
<1>3. jobs' \subseteq Job
  <2>1. request[d] \in RequestState /\ Agree(dash[d], request[d]) /\ request[d].stage = "sent"
    BY DEF TypeOK, UploadArrives
  <2>2. <<d, request[d].rec, request[d].no>> \in Job
    BY <2>1, VoiceAssumption DEF RequestState, Agree, Job
  <2> QED BY <2>2 DEF UploadArrives, TypeOK
<1> QED BY <1>2, <1>3 DEF UploadArrives, TypeOK

\* The answer to an upload, if its request still waits.
LEMMA UploadStoredType ==
  ASSUME TypeOK, NEW c \in jobs, UploadStored(c)
  PROVE  /\ TypeOK'
         /\ c[1] \in Dash /\ hub'.id = hub.id + 1 /\ hub'.clip[1] = c[1]
         /\ \A e \in Dash :
               \/ request'[e] = request[e]
               \/ e = c[1] /\ request'[e].id = hub'.id /\ request'[e].life = life
<1>1. c \in Job /\ c[1] \in Dash /\ <<c[1], c[2]>> \in Clips
  BY DEF TypeOK, Job, Clips
<1>2. hub' \in HubState /\ hub'.id = hub.id + 1 /\ hub'.playing = FALSE /\ hub'.clip[1] = c[1]
  BY <1>1 DEF UploadStored, Stored, HubState, TypeOK
<1>3. down' \in [Dash -> Seq(Status)]
  BY <1>2, TellKeeps DEF UploadStored
<1>4. /\ request' \in [Dash -> RequestState]
      /\ \A e \in Dash : Agree(dash[e], request'[e])
      /\ \A e \in Dash :
               \/ request'[e] = request[e]
               \/ e = c[1] /\ request'[e].id = hub'.id /\ request'[e].life = life
  <2>1. CASE ~Waits(c)
    BY <2>1 DEF UploadStored, TypeOK
  <2>2. CASE Waits(c)
    <3> DEFINE r == [request[c[1]] EXCEPT !.stage = "answered", !.id = hub'.id, !.life = life]
    <3>1. request[c[1]] \in RequestState /\ Agree(dash[c[1]], request[c[1]])
          /\ request \in [Dash -> RequestState] /\ life \in 0 .. MaxLife
      BY <1>1 DEF TypeOK
    <3>2. r \in RequestState /\ Agree(dash[c[1]], r) /\ r.id = hub'.id /\ r.life = life
      BY <1>2, <2>2, <3>1 DEF RequestState, HubState, Agree, Waits
    <3>3. request' = [request EXCEPT ![c[1]] = r]
      BY <1>1, <2>2, <3>1 DEF UploadStored, RequestState
    <3> HIDE DEF r
    <3>4. request' \in [Dash -> RequestState]
          /\ \A e \in Dash : request'[e] = IF e = c[1] THEN r ELSE request[e]
      BY <1>1, <3>1, <3>2, <3>3, Replaced
    <3> QED BY <3>2, <3>4 DEF TypeOK
  <2> QED BY <2>1, <2>2
<1>5. jobs' \subseteq Job
  BY DEF UploadStored, TypeOK
<1> QED BY <1>1, <1>2, <1>3, <1>4, <1>5 DEF UploadStored, TypeOK

LEMMA RestType ==
  ASSUME TypeOK,
         \/ \E c \in jobs : UploadRefused(c)
         \/ \E d \in Dash : UploadLost(d)
         \/ \E h \in Host \cup {None} : ControllerMoves(h)
  PROVE TypeOK'
<1>1. CASE \E c \in jobs : UploadRefused(c)
  <2>1. PICK c \in jobs : UploadRefused(c)
    BY <1>1
  <2>2. c[1] \in Dash
    BY DEF TypeOK, Job
  <2>3. request' \in [Dash -> RequestState] /\ \A e \in Dash : Agree(dash[e], request'[e])
    <3>1. CASE Waits(c)
      BY <2>1, <2>2, <3>1, StageType DEF UploadRefused, Waits, Stages
    <3>2. CASE ~Waits(c)
      BY <2>1, <3>2 DEF UploadRefused, TypeOK
    <3> QED BY <3>1, <3>2
  <2> QED BY <2>1, <2>3 DEF UploadRefused, TypeOK
<1>2. CASE \E d \in Dash : UploadLost(d)
  <2>1. PICK d \in Dash : UploadLost(d)
    BY <1>2
  <2>2. request' \in [Dash -> RequestState] /\ \A e \in Dash : Agree(dash[e], request'[e])
    BY <2>1, StageType DEF UploadLost, Stages
  <2> QED BY <2>1, <2>2 DEF UploadLost, TypeOK
<1>3. CASE \E h \in Host \cup {None} : ControllerMoves(h)
  BY <1>3 DEF ControllerMoves, TypeOK
<1> QED BY <1>1, <1>2, <1>3

\* What breaks with the links of D.
LEMMA UnlinkedType ==
  ASSUME TypeOK, NEW D, Unlinked(D)
  PROVE  /\ dash' \in [Dash -> DashState]
         /\ down' \in [Dash -> Seq(Status)] /\ up' \in [Dash -> Seq(Kind)]
         /\ \A d \in Dash : dash'[d] = [dash[d] EXCEPT !.link = @ /\ d \notin D]
         /\ \A d \in Dash : d \notin D => down'[d] = down[d]
<1>1. \A d \in Dash : [dash[d] EXCEPT !.link = @ /\ d \notin D] \in DashState
  BY DEF TypeOK, DashState
<1>2. down \in [Dash -> Seq(Status)] /\ up \in [Dash -> Seq(Kind)]
      /\ <<>> \in Seq(Status) /\ <<>> \in Seq(Kind)
  BY DEF TypeOK
<1>3. \A d \in Dash : dash'[d] = [dash[d] EXCEPT !.link = @ /\ d \notin D]
  BY DEF Unlinked
<1>4. dash' \in [Dash -> DashState]
  BY <1>1 DEF Unlinked
<1>5. down' \in [Dash -> Seq(Status)]
  BY <1>2 DEF Unlinked
<1>6. up' \in [Dash -> Seq(Kind)]
  BY <1>2 DEF Unlinked
<1>7. \A d \in Dash : d \notin D => down'[d] = down[d]
  BY DEF Unlinked
<1> QED BY <1>3, <1>4, <1>5, <1>6, <1>7

LEMMA RestartType ==
  ASSUME TypeOK, Restart
  PROVE  /\ TypeOK' /\ \A d \in Dash : ~dash'[d].link
         /\ \A d \in Dash : /\ dash'[d].inLife = dash[d].inLife
                            /\ request'[d].life = request[d].life
<1>1. /\ dash' \in [Dash -> DashState]
      /\ down' \in [Dash -> Seq(Status)] /\ up' \in [Dash -> Seq(Kind)]
      /\ \A d \in Dash : dash'[d] = [dash[d] EXCEPT !.link = @ /\ d \notin Dash]
  BY UnlinkedType DEF Restart
<1>2. \A d \in Dash : /\ dash'[d].busy = dash[d].busy /\ dash'[d].inLife = dash[d].inLife
                      /\ ~dash'[d].link
  BY <1>1 DEF TypeOK, DashState
<1>3. \A d \in Dash : /\ request'[d] \in RequestState /\ Agree(dash'[d], request'[d])
                      /\ request'[d].life = request[d].life
  <2> SUFFICES ASSUME NEW d \in Dash
               PROVE  /\ request'[d] \in RequestState /\ Agree(dash'[d], request'[d])
                      /\ request'[d].life = request[d].life
    OBVIOUS
  <2>1. request[d] \in RequestState /\ Agree(dash[d], request[d])
    BY DEF TypeOK
  <2>2. request'[d] = [request[d] EXCEPT !.linked = FALSE,
           !.stage = IF @ \in {"sent", "waiting"} THEN "failed" ELSE @]
    BY DEF Restart
  <2> QED BY <1>2, <2>1, <2>2 DEF RequestState, Agree
<1>4. request' \in [Dash -> RequestState]
  BY <1>3 DEF Restart
<1>5. hub' \in HubState /\ ~hub'.playing
  BY DEF Restart, Fresh, HubState
<1>6. life' \in 1 .. MaxLife
  <2>1. life \in 1 .. MaxLife /\ life < MaxLife /\ life' = life + 1
    BY DEF Restart, TypeOK
  <2> QED BY <2>1, Bounds
<1>7. host' \in Host \cup {None} /\ jobs' \subseteq Job /\ begun' \in 0 .. MaxUpload
  BY DEF Restart, TypeOK
<1>8. TypeOK'
  BY <1>1, <1>3, <1>4, <1>5, <1>6, <1>7 DEF TypeOK
<1> QED BY <1>2, <1>3, <1>8

-----------------------------------------------------------------------------
\* The hooks of d change, and the request does not.
LEMMA PanelType ==
  ASSUME TypeOK, NEW d \in Dash, NEW p \in DashState, p.busy = dash[d].busy,
         dash' = [dash EXCEPT ![d] = p]
  PROVE  /\ dash' \in [Dash -> DashState]
         /\ \A e \in Dash : dash'[e] = IF e = d THEN p ELSE dash[e]
         /\ \A e \in Dash : Agree(dash'[e], request[e])
<1>1. dash \in [Dash -> DashState]
  BY DEF TypeOK
<1>2. /\ dash' \in [Dash -> DashState]
      /\ \A e \in Dash : dash'[e] = IF e = d THEN p ELSE dash[e]
  BY <1>1, Replaced
<1> QED BY <1>2 DEF TypeOK, Agree

LEMMA ConnectType ==
  ASSUME TypeOK, NEW d \in Dash, Connect(d)
  PROVE  /\ TypeOK' /\ down'[d] = <<VoiceStatus(hub)>>
         /\ \A e \in Dash \ {d} : dash'[e] = dash[e] /\ down'[e] = down[e]
         /\ \A e \in Dash : /\ dash'[e].inLife = dash[e].inLife
                            /\ dash'[e].uploadedId = dash[e].uploadedId
<1> DEFINE p == [dash[d] EXCEPT !.link = TRUE]
<1>1. p \in DashState /\ p.busy = dash[d].busy /\ dash' = [dash EXCEPT ![d] = p]
      /\ p.inLife = dash[d].inLife /\ p.uploadedId = dash[d].uploadedId
  BY DEF TypeOK, DashState, Connect
<1> HIDE DEF p
<1>2. VoiceStatus(hub) \in Status
  BY StatusType DEF TypeOK
<1>3. down' \in [Dash -> Seq(Status)]
      /\ \A e \in Dash : down'[e] = IF e = d THEN <<VoiceStatus(hub)>> ELSE down[e]
  <2>1. <<VoiceStatus(hub)>> \in Seq(Status) /\ down \in [Dash -> Seq(Status)]
    BY <1>2 DEF TypeOK
  <2> QED BY <2>1, Replaced DEF Connect
<1>4. /\ dash' \in [Dash -> DashState]
      /\ \A e \in Dash : dash'[e] = IF e = d THEN p ELSE dash[e]
      /\ \A e \in Dash : Agree(dash'[e], request[e])
  BY <1>1, PanelType
<1> QED BY <1>1, <1>3, <1>4 DEF Connect, TypeOK

LEMMA LinkLostType ==
  ASSUME TypeOK, NEW d \in Dash, LinkLost(d)
  PROVE  /\ TypeOK'
         /\ \A e \in Dash : /\ dash'[e].link => dash[e].link /\ e # d
                            /\ dash'[e].voice = dash[e].voice
                            /\ dash'[e].inLife = dash[e].inLife
                            /\ dash'[e].uploadedId = dash[e].uploadedId
                            /\ request'[e] = [request[e] EXCEPT !.linked = @ /\ e # d]
                            /\ e # d => down'[e] = down[e]
<1>1. /\ dash' \in [Dash -> DashState]
      /\ down' \in [Dash -> Seq(Status)] /\ up' \in [Dash -> Seq(Kind)]
      /\ \A e \in Dash : dash'[e] = [dash[e] EXCEPT !.link = @ /\ e \notin {d}]
      /\ \A e \in Dash : e \notin {d} => down'[e] = down[e]
  BY UnlinkedType DEF LinkLost
<1>2. \A e \in Dash : /\ dash'[e].busy = dash[e].busy
                      /\ dash'[e].link => dash[e].link /\ e # d
                      /\ dash'[e].voice = dash[e].voice
                      /\ dash'[e].inLife = dash[e].inLife
                      /\ dash'[e].uploadedId = dash[e].uploadedId
  <2> SUFFICES ASSUME NEW e \in Dash
               PROVE  /\ dash'[e].busy = dash[e].busy
                      /\ dash'[e].link => dash[e].link /\ e # d
                      /\ dash'[e].voice = dash[e].voice
                      /\ dash'[e].inLife = dash[e].inLife
                      /\ dash'[e].uploadedId = dash[e].uploadedId
    OBVIOUS
  <2>1. dash[e] \in DashState /\ dash'[e] = [dash[e] EXCEPT !.link = @ /\ e \notin {d}]
    BY <1>1 DEF TypeOK
  <2> QED BY <2>1 DEF DashState
<1>3. request[d] \in RequestState /\ request \in [Dash -> RequestState]
  BY DEF TypeOK
<1>4. [request[d] EXCEPT !.linked = FALSE] \in RequestState
  BY <1>3 DEF RequestState
<1>5. request' \in [Dash -> RequestState]
      /\ \A e \in Dash : request'[e] = IF e = d THEN [request[d] EXCEPT !.linked = FALSE] ELSE request[e]
  BY <1>3, <1>4, Replaced DEF LinkLost
<1>6. \A e \in Dash : /\ request'[e].stage = request[e].stage /\ request'[e].rec = request[e].rec
                      /\ request'[e].no = request[e].no
                      /\ request'[e] = [request[e] EXCEPT !.linked = @ /\ e # d]
  <2> SUFFICES ASSUME NEW e \in Dash
               PROVE  /\ request'[e].stage = request[e].stage /\ request'[e].rec = request[e].rec
                      /\ request'[e].no = request[e].no
                      /\ request'[e] = [request[e] EXCEPT !.linked = @ /\ e # d]
    OBVIOUS
  <2>1. request[e] \in RequestState
    BY <1>3
  <2> QED BY <1>5, <2>1 DEF RequestState
<1>7. \A e \in Dash : Agree(dash'[e], request'[e])
  <2> SUFFICES ASSUME NEW e \in Dash PROVE Agree(dash'[e], request'[e])
    OBVIOUS
  <2>1. Agree(dash[e], request[e])
    BY DEF TypeOK
  <2> QED BY <1>2, <1>6, <2>1 DEF Agree
<1>8. TypeOK'
  BY <1>1, <1>5, <1>7 DEF LinkLost, TypeOK
<1> QED BY <1>1, <1>2, <1>6, <1>8

LEMMA ReceiveType ==
  ASSUME TypeOK, NEW d \in Dash, Receive(d)
  PROVE  /\ TypeOK' /\ dash'[d].voice = Head(down[d]) /\ down'[d] = Tail(down[d])
         /\ \A e \in Dash \ {d} : dash'[e] = dash[e] /\ down'[e] = down[e]
         /\ \A e \in Dash : /\ dash'[e].inLife = dash[e].inLife
                            /\ dash'[e].uploadedId = dash[e].uploadedId
                            /\ dash'[e].link = dash[e].link
<1> DEFINE p == [dash[d] EXCEPT !.voice = Head(down[d])]
<1>1. down[d] \in Seq(Status) /\ down \in [Dash -> Seq(Status)] /\ down[d] # <<>>
      /\ dash[d] \in DashState
  BY DEF TypeOK, Receive
<1>2. Head(down[d]) \in Status /\ Tail(down[d]) \in Seq(Status)
  BY <1>1
<1>3. p \in DashState /\ p.busy = dash[d].busy /\ dash' = [dash EXCEPT ![d] = p]
      /\ p.inLife = dash[d].inLife /\ p.uploadedId = dash[d].uploadedId
      /\ p.voice = Head(down[d]) /\ p.link = dash[d].link
  BY <1>1, <1>2 DEF DashState, Receive
<1> HIDE DEF p
<1>4. down' \in [Dash -> Seq(Status)]
      /\ \A e \in Dash : down'[e] = IF e = d THEN Tail(down[d]) ELSE down[e]
  BY <1>1, <1>2, Replaced DEF Receive
<1>5. /\ dash' \in [Dash -> DashState]
      /\ \A e \in Dash : dash'[e] = IF e = d THEN p ELSE dash[e]
      /\ \A e \in Dash : Agree(dash'[e], request[e])
  BY <1>3, PanelType
<1> QED BY <1>3, <1>4, <1>5 DEF Receive, TypeOK

\* A button that only sends a command.
LEMMA SendType ==
  ASSUME TypeOK, NEW d \in Dash, NEW kind \in Kind, Send(d, kind)
  PROVE  up' \in [Dash -> Seq(Kind)]
<1>1. up \in [Dash -> Seq(Kind)] /\ Append(up[d], kind) \in Seq(Kind)
  BY DEF TypeOK
<1> QED BY <1>1, Replaced DEF Send

LEMMA OnStopType ==
  ASSUME TypeOK, NEW d \in Dash, OnStop(d)
  PROVE  /\ TypeOK'
         /\ \A e \in Dash : /\ dash'[e].link = dash[e].link /\ dash'[e].voice = dash[e].voice
                            /\ dash'[e].inLife = dash[e].inLife \/ dash'[e].inLife = 0
                            /\ dash'[e].inLife # 0 => dash'[e].uploadedId = dash[e].uploadedId
<1> DEFINE p == [dash[d] EXCEPT !.recs = @ + 1, !.clip = dash[d].recs + 1,
                                !.uploadedId = 0, !.inLife = 0]
<1>1. dash[d] \in DashState
  BY DEF TypeOK
<1>2. p \in DashState /\ p.busy = dash[d].busy /\ p.inLife = 0
      /\ p.link = dash[d].link /\ p.voice = dash[d].voice
  <2>1. dash[d].recs \in 0 .. MaxRec /\ dash[d].recs < MaxRec
    BY <1>1 DEF DashState, OnStop
  <2>2. dash[d].recs + 1 \in 0 .. MaxRec
    BY <2>1, Bounds
  <2>3. 0 \in Nat /\ 0 \in 0 .. MaxLife
    BY Bounds
  <2> QED BY <1>1, <2>2, <2>3 DEF DashState
<1>3. dash' = [dash EXCEPT ![d] = p]
  BY DEF OnStop
<1> HIDE DEF p
<1>4. /\ dash' \in [Dash -> DashState]
      /\ \A e \in Dash : dash'[e] = IF e = d THEN p ELSE dash[e]
      /\ \A e \in Dash : Agree(dash'[e], request[e])
  BY <1>2, <1>3, PanelType
<1> QED BY <1>2, <1>4 DEF OnStop, TypeOK

\* The hooks of d and its request change.
LEMMA BothType ==
  ASSUME TypeOK, NEW d \in Dash, NEW p \in DashState, NEW r \in RequestState, Agree(p, r),
         dash' = [dash EXCEPT ![d] = p], request' = [request EXCEPT ![d] = r]
  PROVE  /\ dash' \in [Dash -> DashState] /\ request' \in [Dash -> RequestState]
         /\ \A e \in Dash : dash'[e] = IF e = d THEN p ELSE dash[e]
         /\ \A e \in Dash : request'[e] = IF e = d THEN r ELSE request[e]
         /\ \A e \in Dash : Agree(dash'[e], request'[e])
<1>1. dash \in [Dash -> DashState] /\ request \in [Dash -> RequestState]
  BY DEF TypeOK
<1>2. /\ dash' \in [Dash -> DashState]
      /\ \A e \in Dash : dash'[e] = IF e = d THEN p ELSE dash[e]
  BY <1>1, Replaced
<1>3. /\ request' \in [Dash -> RequestState]
      /\ \A e \in Dash : request'[e] = IF e = d THEN r ELSE request[e]
  BY <1>1, Replaced
<1>4. \A e \in Dash : Agree(dash'[e], request'[e])
  BY <1>2, <1>3 DEF TypeOK
<1> QED BY <1>2, <1>3, <1>4

LEMMA NoRequestType == NoRequest \in RequestState
  BY Bounds DEF NoRequest, RequestState

\* What a button leaves alone of what a panel knows.
Knows(d) ==
    /\ dash'[d].link = dash[d].link /\ dash'[d].voice = dash[d].voice
    /\ dash'[d].inLife = dash[d].inLife /\ dash'[d].uploadedId = dash[d].uploadedId

LEMMA PressPlayType ==
  ASSUME TypeOK, NEW d \in Dash, PressPlay(d)
  PROVE  /\ TypeOK' /\ \A e \in Dash : Knows(e)
         /\ \A e \in Dash : request'[e] = request[e] \/ (request'[e].stage = "sent" /\ request'[e].life = 0)
<1>1. CASE Uploaded(d) \/ dash[d].clip = 0
  <2>1. Send(d, "start") /\ UNCHANGED <<dash, request, begun>>
    BY <1>1 DEF PressPlay
  <2>2. up' \in [Dash -> Seq(Kind)]
    BY <2>1, SendType DEF Kind
  <2>3. TypeOK'
    BY <2>1, <2>2 DEF PressPlay, TypeOK
  <2>4. \A e \in Dash : Knows(e) /\ request'[e] = request[e]
    BY <2>1 DEF Knows
  <2> QED BY <2>3, <2>4
<1>2. CASE ~(Uploaded(d) \/ dash[d].clip = 0)
  <2> DEFINE p == [dash[d] EXCEPT !.busy = TRUE]
             r == [NoRequest EXCEPT !.stage = "sent", !.rec = dash[d].clip,
                                    !.no = begun + 1, !.linked = TRUE]
  <2>1. dash' = [dash EXCEPT ![d] = p] /\ request' = [request EXCEPT ![d] = r]
        /\ begun < MaxUpload /\ begun' = begun + 1 /\ UNCHANGED up
    BY <1>2 DEF PressPlay
  <2>2. begun' \in 0 .. MaxUpload /\ begun + 1 \in 0 .. MaxUpload /\ begun + 1 > 0
    <3>1. begun \in 0 .. MaxUpload
      BY DEF TypeOK
    <3> QED BY <2>1, <3>1, Bounds
  <2>3. dash[d] \in DashState /\ dash[d].clip # 0
    BY <1>2 DEF TypeOK
  <2>4. p \in DashState /\ p.busy = TRUE
        /\ p.link = dash[d].link /\ p.voice = dash[d].voice
        /\ p.inLife = dash[d].inLife /\ p.uploadedId = dash[d].uploadedId
    BY <2>3 DEF DashState
  <2>5. dash[d].clip \in 0 .. MaxRec /\ dash[d].clip > 0
    BY <2>3, Bounds DEF DashState
  <2>6. r \in RequestState /\ r.rec = dash[d].clip /\ r.no = begun + 1
        /\ r.stage = "sent" /\ r.life = 0
    BY <2>2, <2>5, NoRequestType DEF RequestState, NoRequest
  <2> HIDE DEF p, r
  <2>7. Agree(p, r)
    BY <2>2, <2>4, <2>5, <2>6 DEF Agree
  <2>8. /\ dash' \in [Dash -> DashState] /\ request' \in [Dash -> RequestState]
        /\ \A e \in Dash : dash'[e] = IF e = d THEN p ELSE dash[e]
        /\ \A e \in Dash : request'[e] = IF e = d THEN r ELSE request[e]
        /\ \A e \in Dash : Agree(dash'[e], request'[e])
    BY <2>1, <2>4, <2>6, <2>7, BothType
  <2>9. TypeOK'
    BY <2>1, <2>2, <2>8 DEF PressPlay, TypeOK
  <2>10. \A e \in Dash : Knows(e)
    BY <2>4, <2>8 DEF Knows
  <2>11. \A e \in Dash : request'[e] = request[e] \/ (request'[e].stage = "sent" /\ request'[e].life = 0)
    BY <2>6, <2>8
  <2> QED BY <2>9, <2>10, <2>11
<1> QED BY <1>1, <1>2

LEMMA PlayUploadedType ==
  ASSUME TypeOK, NEW d \in Dash, PlayUploaded(d)
  PROVE  /\ TypeOK' /\ request'[d] = NoRequest
         /\ dash'[d].link = dash[d].link /\ dash'[d].voice = dash[d].voice
         /\ dash'[d].inLife = request[d].life /\ dash'[d].uploadedId = request[d].id
         /\ \A e \in Dash \ {d} : dash'[e] = dash[e] /\ request'[e] = request[e]
<1> DEFINE p == [dash[d] EXCEPT !.busy = FALSE, !.uploadedId = request[d].id,
                                !.inLife = request[d].life]
<1>1. dash[d] \in DashState /\ request[d] \in RequestState
  BY DEF TypeOK
<1>2. p \in DashState /\ p.busy = FALSE /\ p.link = dash[d].link /\ p.voice = dash[d].voice
      /\ p.inLife = request[d].life /\ p.uploadedId = request[d].id
  BY <1>1 DEF DashState, RequestState
<1>3. dash' = [dash EXCEPT ![d] = p] /\ request' = [request EXCEPT ![d] = NoRequest]
  BY DEF PlayUploaded
<1> HIDE DEF p
<1>4. Agree(p, NoRequest)
  BY <1>2 DEF Agree, NoRequest
<1>5. /\ dash' \in [Dash -> DashState] /\ request' \in [Dash -> RequestState]
      /\ \A e \in Dash : dash'[e] = IF e = d THEN p ELSE dash[e]
      /\ \A e \in Dash : request'[e] = IF e = d THEN NoRequest ELSE request[e]
      /\ \A e \in Dash : Agree(dash'[e], request'[e])
  BY <1>2, <1>3, <1>4, NoRequestType, BothType
<1>6. up' \in [Dash -> Seq(Kind)]
  BY SendType DEF PlayUploaded, TypeOK, Kind
<1>7. TypeOK'
  BY <1>5, <1>6 DEF PlayUploaded, TypeOK
<1> QED BY <1>2, <1>5, <1>7

LEMMA PlayFailsType ==
  ASSUME TypeOK, NEW d \in Dash, PlayFails(d)
  PROVE  /\ TypeOK' /\ \A e \in Dash : Knows(e)
         /\ \A e \in Dash : request'[e] = request[e] \/ request'[e] = NoRequest
<1> DEFINE p == [dash[d] EXCEPT !.busy = FALSE]
<1>1. dash[d] \in DashState
  BY DEF TypeOK
<1>2. p \in DashState /\ p.busy = FALSE /\ p.link = dash[d].link /\ p.voice = dash[d].voice
      /\ p.inLife = dash[d].inLife /\ p.uploadedId = dash[d].uploadedId
  BY <1>1 DEF DashState
<1>3. dash' = [dash EXCEPT ![d] = p] /\ request' = [request EXCEPT ![d] = NoRequest]
  BY DEF PlayFails
<1> HIDE DEF p
<1>4. Agree(p, NoRequest)
  BY <1>2 DEF Agree, NoRequest
<1>5. /\ dash' \in [Dash -> DashState] /\ request' \in [Dash -> RequestState]
      /\ \A e \in Dash : dash'[e] = IF e = d THEN p ELSE dash[e]
      /\ \A e \in Dash : request'[e] = IF e = d THEN NoRequest ELSE request[e]
      /\ \A e \in Dash : Agree(dash'[e], request'[e])
  BY <1>2, <1>3, <1>4, NoRequestType, BothType
<1>6. TypeOK'
  BY <1>5 DEF PlayFails, TypeOK
<1> QED BY <1>2, <1>5, <1>6 DEF Knows

LEMMA PressStopType == ASSUME TypeOK, NEW d \in Dash, PressStop(d) PROVE TypeOK'
  BY SendType DEF PressStop, Kind, TypeOK

LEMMA PressClearType ==
  ASSUME TypeOK, NEW d \in Dash, PressClear(d)
  PROVE  /\ TypeOK'
         /\ \A e \in Dash : /\ dash'[e].link = dash[e].link /\ dash'[e].voice = dash[e].voice
                            /\ dash'[e].inLife = dash[e].inLife \/ dash'[e].inLife = 0
                            /\ dash'[e].inLife # 0 => dash'[e].uploadedId = dash[e].uploadedId
<1> DEFINE p == [dash[d] EXCEPT !.clip = 0, !.uploadedId = 0, !.inLife = 0]
<1>1. dash[d] \in DashState /\ 0 \in Nat /\ 0 \in 0 .. MaxLife /\ 0 \in 0 .. MaxRec
  BY Bounds DEF TypeOK
<1>2. p \in DashState /\ p.busy = dash[d].busy /\ p.inLife = 0
      /\ p.link = dash[d].link /\ p.voice = dash[d].voice
  BY <1>1 DEF DashState
<1>3. dash' = [dash EXCEPT ![d] = p]
  BY DEF PressClear
<1> HIDE DEF p
<1>4. /\ dash' \in [Dash -> DashState]
      /\ \A e \in Dash : dash'[e] = IF e = d THEN p ELSE dash[e]
      /\ \A e \in Dash : Agree(dash'[e], request[e])
  BY <1>2, <1>3, PanelType
<1>5. up' \in [Dash -> Seq(Kind)]
  BY SendType DEF PressClear, TypeOK, Kind
<1> QED BY <1>2, <1>4, <1>5 DEF PressClear, TypeOK

-----------------------------------------------------------------------------
\* A step that leaves the hub alone, and what linked dashboards know and have
\* under way, leaves them told.
LEMMA ToldKept ==
  ASSUME VoiceTold, hub' = hub,
         \A e \in Dash : dash'[e].link => dash[e].link /\ dash'[e].voice = dash[e].voice
                                           /\ down'[e] = down[e]
  PROVE  VoiceTold'
<1> SUFFICES ASSUME NEW e \in Dash, dash'[e].link
             PROVE  Latest(e)' = VoiceStatus(hub)
  BY DEF VoiceTold
<1>1. dash[e].link /\ dash'[e].voice = dash[e].voice /\ down'[e] = down[e]
  OBVIOUS
<1>2. Latest(e) = VoiceStatus(hub)
  BY <1>1 DEF VoiceTold
<1> QED BY <1>1, <1>2 DEF Latest

LEMMA ToldAll ==
  ASSUME TypeOK, hub' \in HubState, Tell(hub'), dash' = dash
  PROVE  VoiceTold'
<1> SUFFICES ASSUME NEW e \in Dash, dash[e].link
             PROVE  Latest(e)' = VoiceStatus(hub')
  BY DEF VoiceTold
<1>1. down'[e] # <<>> /\ down'[e][Len(down'[e])] = VoiceStatus(hub')
  BY TellKeeps
<1> QED BY <1>1 DEF Latest

LEMMA ConnectTold == ASSUME TypeOK, VoiceTold, NEW d \in Dash, Connect(d) PROVE VoiceTold'
<1> SUFFICES ASSUME NEW e \in Dash, dash'[e].link
             PROVE  Latest(e)' = VoiceStatus(hub)
  BY DEF VoiceTold, Connect
<1>1. CASE e = d
  <2>1. down'[e] = <<VoiceStatus(hub)>>
    BY <1>1, ConnectType
  <2> QED BY <2>1 DEF Latest
<1>2. CASE e # d
  <2>1. dash'[e] = dash[e] /\ down'[e] = down[e]
    BY <1>2, ConnectType
  <2>2. Latest(e) = VoiceStatus(hub)
    BY <2>1 DEF VoiceTold
  <2> QED BY <2>1, <2>2 DEF Latest
<1> QED BY <1>1, <1>2

LEMMA TailLast ==
  ASSUME NEW s \in Seq(Status), s # <<>>
  PROVE  IF Tail(s) = <<>> THEN Head(s) = s[Len(s)] ELSE Tail(s)[Len(Tail(s))] = s[Len(s)]
<1>1. Len(s) \in Nat /\ Len(s) > 0 /\ Head(s) = s[1]
  BY EmptySeq
<1>2. Tail(s) \in Seq(Status) /\ Len(Tail(s)) = Len(s) - 1
      /\ \A i \in 1 .. Len(Tail(s)) : Tail(s)[i] = s[i + 1]
  BY HeadTailProperties
<1>3. CASE Tail(s) = <<>>
  <2>1. Len(<<>>) = 0
    BY EmptySeq
  <2> QED BY <1>1, <1>2, <1>3, <2>1
<1>4. CASE Tail(s) # <<>>
  <2>1. Len(Tail(s)) \in Nat /\ Len(Tail(s)) # 0
    <3>1. \A t \in Seq(Status) : t # <<>> => Len(t) \in Nat \ {0}
      BY EmptySeq
    <3>2. Tail(s) \in Seq(Status)
      BY <1>2
    <3> QED BY <1>4, <3>1, <3>2
  <2>2. Len(Tail(s)) \in 1 .. Len(Tail(s)) /\ Len(Tail(s)) + 1 = Len(s)
    BY <1>1, <1>2, <2>1
  <2> QED BY <1>2, <1>4, <2>2
<1> QED BY <1>3, <1>4

\* Reading moves a status from the channel to the panel.
LEMMA ReceiveTold == ASSUME TypeOK, VoiceTold, NEW d \in Dash, Receive(d) PROVE VoiceTold'
<1> SUFFICES ASSUME NEW e \in Dash, dash'[e].link
             PROVE  Latest(e)' = VoiceStatus(hub)
  BY DEF VoiceTold, Receive
<1>1. CASE e = d
  <2>1. dash'[e].voice = Head(down[e]) /\ down'[e] = Tail(down[e]) /\ dash[e].link
    BY <1>1, ReceiveType
  <2>2. down[e] \in Seq(Status) /\ down[e] # <<>>
    BY <1>1 DEF Receive, TypeOK
  <2>3. down[e][Len(down[e])] = VoiceStatus(hub)
    BY <2>1, <2>2 DEF VoiceTold, Latest
  <2> QED BY <2>1, <2>2, <2>3, TailLast DEF Latest
<1>2. CASE e # d
  <2>1. dash'[e] = dash[e] /\ down'[e] = down[e]
    BY <1>2, ReceiveType
  <2>2. Latest(e) = VoiceStatus(hub)
    BY <2>1 DEF VoiceTold
  <2> QED BY <2>1, <2>2 DEF Latest
<1> QED BY <1>1, <1>2

-----------------------------------------------------------------------------
\* What a dashboard takes from this P2 stays what it is, or is dropped.
IdKept(e) ==
    \/ dash'[e].inLife = 0
    \/ dash'[e].inLife = dash[e].inLife /\ dash'[e].uploadedId = dash[e].uploadedId

AnswerKept(e) ==
    /\ request'[e].life = 0 \/ request'[e].life = request[e].life
    /\ request'[e].stage = "answered" =>
           request[e].stage = "answered" /\ request'[e].id = request[e].id
           /\ request'[e].life = request[e].life

\* So it is still its own while no clip is stored.
LEMMA IdsKept ==
  ASSUME TypeOK, IdsInv, hub'.id = hub.id, hub'.clip = hub.clip \/ hub'.clip = None,
         life' = life, \A e \in Dash : IdKept(e) /\ AnswerKept(e)
  PROVE  IdsInv'
<1>1. life \in Nat /\ life > 0
  BY Lives
<1>2. \A e \in Dash, n \in Nat : GivenTo(e, n) => GivenTo(e, n)'
  BY DEF GivenTo
<1> SUFFICES ASSUME NEW e \in Dash
             PROVE  /\ dash'[e].inLife <= life /\ request'[e].life <= life
                    /\ dash'[e].inLife = life => GivenTo(e, dash[e].uploadedId)'
                    /\ request'[e].stage = "answered" /\ request'[e].life = life
                          => GivenTo(e, request[e].id)'
  BY DEF IdsInv
<1>3. /\ dash[e].inLife <= life /\ request[e].life <= life
      /\ dash[e].inLife = life => GivenTo(e, dash[e].uploadedId)
      /\ request[e].stage = "answered" /\ request[e].life = life
            => GivenTo(e, request[e].id)
  BY DEF IdsInv
<1>4. dash[e].uploadedId \in Nat /\ request[e].id \in Nat
  BY DEF TypeOK, DashState, RequestState
<1>5. IdKept(e) /\ AnswerKept(e)
  OBVIOUS
<1>6. dash'[e].inLife <= life /\ request'[e].life <= life
  BY <1>1, <1>3, <1>5 DEF IdKept, AnswerKept
<1>7. ASSUME dash'[e].inLife = life PROVE GivenTo(e, dash[e].uploadedId)'
  <2>1. dash'[e].inLife = dash[e].inLife /\ dash'[e].uploadedId = dash[e].uploadedId
    BY <1>1, <1>5, <1>7 DEF IdKept
  <2> QED BY <1>2, <1>3, <1>4, <1>7, <2>1 DEF GivenTo
<1>8. ASSUME request'[e].stage = "answered", request'[e].life = life
      PROVE  GivenTo(e, request[e].id)'
  <2>1. request[e].stage = "answered" /\ request'[e].id = request[e].id
        /\ request[e].life = life
    BY <1>5, <1>8 DEF AnswerKept
  <2> QED BY <1>2, <1>3, <1>4, <2>1 DEF GivenTo
<1> QED BY <1>6, <1>7, <1>8

\* A stored clip takes an id above all that were given, and is the dashboard's
\* that is answered with it.
LEMMA StoredIds ==
  ASSUME TypeOK, IdsInv, NEW c \in jobs, UploadStored(c)
  PROVE  IdsInv'
<1>1. /\ c[1] \in Dash /\ hub'.id = hub.id + 1 /\ hub'.clip[1] = c[1]
      /\ \A e \in Dash :
            \/ request'[e] = request[e]
            \/ e = c[1] /\ request'[e].id = hub'.id /\ request'[e].life = life
  BY UploadStoredType
<1>2. life' = life /\ dash' = dash /\ hub.id \in Nat /\ life \in Nat
  BY Lives DEF UploadStored, TypeOK, HubState
<1>3. ASSUME NEW e \in Dash, NEW n \in Nat, GivenTo(e, n)
      PROVE  n <= hub'.id /\ n # hub'.id
  <2>1. n <= hub.id
    BY <1>3 DEF GivenTo
  <2> QED BY <1>1, <1>2, <2>1
<1> SUFFICES ASSUME NEW e \in Dash
             PROVE  /\ dash[e].inLife <= life /\ request'[e].life <= life
                    /\ dash[e].inLife = life => GivenTo(e, dash[e].uploadedId)'
                    /\ request'[e].stage = "answered" /\ request'[e].life = life
                          => GivenTo(e, request[e].id)'
  BY <1>2 DEF IdsInv
<1>5. /\ dash[e].inLife <= life /\ request[e].life <= life
      /\ dash[e].inLife = life => GivenTo(e, dash[e].uploadedId)
      /\ request[e].stage = "answered" /\ request[e].life = life
            => GivenTo(e, request[e].id)
  BY DEF IdsInv
<1>6. dash[e].uploadedId \in Nat /\ request[e].id \in Nat
  BY DEF TypeOK, DashState, RequestState
<1>7. ASSUME dash[e].inLife = life PROVE GivenTo(e, dash[e].uploadedId)'
  <2>1. dash[e].uploadedId <= hub'.id /\ dash[e].uploadedId # hub'.id
    BY <1>3, <1>5, <1>6, <1>7
  <2> QED BY <1>2, <2>1 DEF GivenTo
<1>8. CASE request'[e] = request[e]
  <2>1. ASSUME request[e].stage = "answered", request[e].life = life
        PROVE  GivenTo(e, request[e].id)'
    <3>1. request[e].id <= hub'.id /\ request[e].id # hub'.id
      BY <1>3, <1>5, <1>6, <2>1
    <3> QED BY <1>8, <3>1 DEF GivenTo
  <2> QED BY <1>5, <1>7, <1>8, <2>1
<1>9. CASE e = c[1] /\ request'[e].id = hub'.id /\ request'[e].life = life
  <2>1. GivenTo(e, request[e].id)'
    BY <1>1, <1>2, <1>9 DEF GivenTo
  <2> QED BY <1>2, <1>5, <1>7, <1>9, <2>1
<1> QED BY <1>1, <1>8, <1>9

\* Nothing held or under way is of the P2 that starts.
LEMMA RestartIds == ASSUME TypeOK, IdsInv, Restart PROVE IdsInv'
<1>1. life \in Nat /\ life' = life + 1
  BY Lives DEF Restart
<1> SUFFICES ASSUME NEW e \in Dash
             PROVE  /\ dash'[e].inLife <= life' /\ request'[e].life <= life'
                    /\ dash'[e].inLife # life' /\ request'[e].life # life'
  BY DEF IdsInv
<1>2. dash'[e].inLife = dash[e].inLife /\ request'[e].life = request[e].life
  BY RestartType
<1>3. dash[e].inLife <= life /\ request[e].life <= life
      /\ dash[e].inLife \in 0 .. MaxLife /\ request[e].life \in 0 .. MaxLife
  BY DEF IdsInv, TypeOK, DashState, RequestState
<1> QED BY <1>1, <1>2, <1>3, Bounds

\* The answer is taken over: what was given to d stays given to d.
LEMMA PlayUploadedIds ==
  ASSUME TypeOK, IdsInv, NEW d \in Dash, PlayUploaded(d)
  PROVE  IdsInv'
<1>1. /\ request'[d] = NoRequest
      /\ dash'[d].inLife = request[d].life /\ dash'[d].uploadedId = request[d].id
      /\ \A e \in Dash \ {d} : dash'[e] = dash[e] /\ request'[e] = request[e]
  BY PlayUploadedType
<1>2. hub' = hub /\ life' = life /\ request[d].stage = "answered" /\ life \in Nat /\ life > 0
  BY Lives DEF PlayUploaded
<1> SUFFICES ASSUME NEW e \in Dash
             PROVE  /\ dash'[e].inLife <= life /\ request'[e].life <= life
                    /\ dash'[e].inLife = life => GivenTo(e, dash[e].uploadedId)'
                    /\ request'[e].stage = "answered" /\ request'[e].life = life
                          => GivenTo(e, request[e].id)'
  BY <1>2 DEF IdsInv
<1>3. /\ dash[e].inLife <= life /\ request[e].life <= life
      /\ dash[e].inLife = life => GivenTo(e, dash[e].uploadedId)
      /\ request[e].stage = "answered" /\ request[e].life = life
            => GivenTo(e, request[e].id)
  BY DEF IdsInv
<1>4. CASE e = d
  <2>1. request'[e].stage # "answered" /\ request'[e].life = 0
    BY <1>1, <1>4 DEF NoRequest
  <2>2. request[e].life = life => GivenTo(e, dash[e].uploadedId)'
    BY <1>1, <1>2, <1>3, <1>4 DEF GivenTo
  <2> QED BY <1>1, <1>2, <1>3, <1>4, <2>1, <2>2
<1>5. CASE e # d
  <2>1. dash'[e] = dash[e] /\ request'[e] = request[e]
    BY <1>1, <1>5
  <2> QED BY <1>2, <1>3, <2>1 DEF GivenTo
<1> QED BY <1>4, <1>5

-----------------------------------------------------------------------------
\* Commands, and what the network and P1 do.
LEMMA CommandKeeps ==
  ASSUME VoiceInv, NEW d \in Dash, Command(d)
  PROVE  VoiceInv'
<1>1. TypeOK /\ TypeOK'
  BY CommandType DEF VoiceInv
<1>2. VoiceTold'
  <2>1. CASE host = HostOf[d]
    <3>1. Tell(hub') /\ dash' = dash /\ hub' \in HubState
      BY <1>1, <2>1 DEF Command, TypeOK
    <3> QED BY <1>1, <3>1, ToldAll
  <2>2. CASE host # HostOf[d]
    BY <2>2, ToldKept DEF Command, VoiceInv
  <2> QED BY <2>1, <2>2
<1>3. hub'.id = hub.id /\ (hub'.clip = hub.clip \/ hub'.clip = None)
  <2>1. up[d] \in Seq(Kind) /\ up[d] # <<>> /\ hub \in HubState
    BY <1>1 DEF TypeOK, Command
  <2>2. Head(up[d]) \in Kind
    BY <2>1
  <2> QED BY <2>1, <2>2 DEF Command, Commanded, HubState, Kind
<1>4. IdsInv'
  <2>1. life' = life /\ \A e \in Dash : IdKept(e) /\ AnswerKept(e)
    BY DEF Command, IdKept, AnswerKept
  <2> QED BY <1>1, <1>3, <2>1, IdsKept DEF VoiceInv
<1> QED BY <1>1, <1>2, <1>4 DEF VoiceInv

LEMMA UploadStoredKeeps ==
  ASSUME VoiceInv, NEW c \in jobs, UploadStored(c)
  PROVE  VoiceInv'
<1>1. TypeOK /\ TypeOK'
  BY UploadStoredType DEF VoiceInv
<1>2. Tell(hub') /\ dash' = dash /\ hub' \in HubState
  BY <1>1 DEF UploadStored, TypeOK
<1>3. VoiceTold'
  BY <1>1, <1>2, ToldAll
<1>4. IdsInv'
  BY <1>1, StoredIds DEF VoiceInv
<1> QED BY <1>1, <1>3, <1>4 DEF VoiceInv

LEMMA RestartKeeps == ASSUME VoiceInv, Restart PROVE VoiceInv'
<1>1. TypeOK' /\ \A d \in Dash : ~dash'[d].link
  BY RestartType DEF VoiceInv
<1>2. VoiceTold'
  BY <1>1 DEF VoiceTold
<1>3. IdsInv'
  BY RestartIds DEF VoiceInv
<1> QED BY <1>1, <1>2, <1>3 DEF VoiceInv

\* A request that came to another stage than "answered".
LEMMA StageKept ==
  ASSUME TypeOK, NEW d \in Dash, NEW st \in Stages \ {"answered"}, request[d].stage # "none",
         request' = [request EXCEPT ![d].stage = st]
  PROVE  \A e \in Dash : AnswerKept(e)
<1> SUFFICES ASSUME NEW e \in Dash PROVE AnswerKept(e)
  OBVIOUS
<1>1. request[d] \in RequestState
  BY DEF TypeOK
<1>2. request'[e] = IF e = d THEN [request[d] EXCEPT !.stage = st] ELSE request[e]
  BY StageType
<1> QED BY <1>1, <1>2 DEF AnswerKept, RequestState

\* The steps between that store nothing and touch no panel.
LEMMA RestKeeps ==
  ASSUME VoiceInv,
         \/ \E d \in Dash : UploadArrives(d) \/ UploadLost(d)
         \/ \E c \in jobs : UploadRefused(c)
         \/ \E h \in Host \cup {None} : ControllerMoves(h)
  PROVE  VoiceInv'
<1>1. TypeOK /\ TypeOK'
  BY UploadArrivesType, RestType DEF VoiceInv
<1>2. hub' = hub /\ dash' = dash /\ down' = down /\ life' = life
  BY DEF UploadArrives, UploadLost, UploadRefused, ControllerMoves
<1>3. VoiceTold'
  BY <1>2, ToldKept DEF VoiceInv
<1>4. \A e \in Dash : AnswerKept(e)
  <2>1. ASSUME NEW d \in Dash, UploadArrives(d) PROVE \A e \in Dash : AnswerKept(e)
    <3>1. PICK st \in {"waiting", "failed"} : request' = [request EXCEPT ![d].stage = st]
      BY <2>1 DEF UploadArrives
    <3>2. st \in Stages \ {"answered"} /\ request[d].stage # "none"
      BY <2>1 DEF UploadArrives, Stages
    <3> QED BY <1>1, <3>1, <3>2, StageKept
  <2>2. ASSUME NEW d \in Dash, UploadLost(d) PROVE \A e \in Dash : AnswerKept(e)
    <3>1. "failed" \in Stages \ {"answered"} /\ request[d].stage # "none"
          /\ request' = [request EXCEPT ![d].stage = "failed"]
      BY <2>2 DEF UploadLost, Stages
    <3> QED BY <1>1, <3>1, StageKept
  <2>3. ASSUME NEW c \in jobs, UploadRefused(c) PROVE \A e \in Dash : AnswerKept(e)
    <3>1. c[1] \in Dash
      BY <1>1 DEF TypeOK, Job
    <3>2. CASE Waits(c)
      <4>1. "failed" \in Stages \ {"answered"} /\ request[c[1]].stage # "none"
            /\ request' = [request EXCEPT ![c[1]].stage = "failed"]
        BY <2>3, <3>2 DEF UploadRefused, Waits, Stages
      <4> QED BY <1>1, <3>1, <4>1, StageKept
    <3>3. CASE ~Waits(c)
      BY <2>3, <3>3 DEF UploadRefused, AnswerKept
    <3> QED BY <3>2, <3>3
  <2>4. ASSUME NEW h \in Host \cup {None}, ControllerMoves(h)
        PROVE  \A e \in Dash : AnswerKept(e)
    BY <2>4 DEF ControllerMoves, AnswerKept
  <2> QED BY <2>1, <2>2, <2>3, <2>4
<1>5. \A e \in Dash : IdKept(e)
  BY <1>2 DEF IdKept
<1>6. IdsInv'
  BY <1>1, <1>2, <1>4, <1>5, IdsKept DEF VoiceInv
<1> QED BY <1>1, <1>3, <1>6 DEF VoiceInv

-----------------------------------------------------------------------------
\* The dashboard's steps.
LEMMA LinkKeeps ==
  ASSUME VoiceInv, NEW d \in Dash, Connect(d) \/ LinkLost(d) \/ Receive(d)
  PROVE  VoiceInv'
<1>1. TypeOK /\ TypeOK' /\ VoiceTold
  BY ConnectType, LinkLostType, ReceiveType DEF VoiceInv
<1>2. VoiceTold'
  <2>1. CASE LinkLost(d)
    <3>1. \A e \in Dash : dash'[e].link => dash[e].link /\ dash'[e].voice = dash[e].voice
                                           /\ down'[e] = down[e]
      BY <1>1, <2>1, LinkLostType
    <3> QED BY <1>1, <2>1, <3>1, ToldKept DEF LinkLost
  <2> QED BY <1>1, <2>1, ConnectTold, ReceiveTold
<1>3. \A e \in Dash : IdKept(e)
  BY <1>1, ConnectType, LinkLostType, ReceiveType DEF IdKept
<1>4. \A e \in Dash : AnswerKept(e)
  <2>1. CASE LinkLost(d)
    <3> SUFFICES ASSUME NEW e \in Dash PROVE AnswerKept(e)
      OBVIOUS
    <3>1. request'[e] = [request[e] EXCEPT !.linked = @ /\ e # d] /\ request[e] \in RequestState
      BY <1>1, <2>1, LinkLostType DEF TypeOK
    <3> QED BY <3>1 DEF AnswerKept, RequestState
  <2>2. CASE Connect(d) \/ Receive(d)
    BY <2>2 DEF Connect, Receive, AnswerKept
  <2> QED BY <2>1, <2>2
<1>5. hub' = hub /\ life' = life
  BY DEF Connect, LinkLost, Receive
<1>6. IdsInv'
  BY <1>1, <1>3, <1>4, <1>5, IdsKept DEF VoiceInv
<1> QED BY <1>1, <1>2, <1>6 DEF VoiceInv

LEMMA ButtonKeeps ==
  ASSUME VoiceInv, NEW d \in Dash,
         OnStop(d) \/ PressPlay(d) \/ PlayFails(d) \/ PressStop(d) \/ PressClear(d)
  PROVE  VoiceInv'
<1>1. TypeOK /\ TypeOK'
  BY OnStopType, PressPlayType, PlayFailsType, PressStopType, PressClearType DEF VoiceInv
<1>2. hub' = hub /\ life' = life /\ down' = down
  BY DEF OnStop, PressPlay, PlayFails, PressStop, PressClear
<1>3. \A e \in Dash : dash'[e].link = dash[e].link /\ dash'[e].voice = dash[e].voice
  <2>1. CASE OnStop(d)
    BY <1>1, <2>1, OnStopType
  <2>2. CASE PressPlay(d)
    BY <1>1, <2>2, PressPlayType DEF Knows
  <2>3. CASE PlayFails(d)
    BY <1>1, <2>3, PlayFailsType DEF Knows
  <2>4. CASE PressStop(d)
    BY <2>4 DEF PressStop
  <2>5. CASE PressClear(d)
    BY <1>1, <2>5, PressClearType
  <2> QED BY <2>1, <2>2, <2>3, <2>4, <2>5
<1>4. VoiceTold'
  BY <1>2, <1>3, ToldKept DEF VoiceInv
<1>5. \A e \in Dash : IdKept(e)
  <2>1. CASE OnStop(d)
    BY <1>1, <2>1, OnStopType DEF IdKept
  <2>2. CASE PressPlay(d)
    BY <1>1, <2>2, PressPlayType DEF Knows, IdKept
  <2>3. CASE PlayFails(d)
    BY <1>1, <2>3, PlayFailsType DEF Knows, IdKept
  <2>4. CASE PressStop(d)
    BY <2>4 DEF PressStop, IdKept
  <2>5. CASE PressClear(d)
    BY <1>1, <2>5, PressClearType DEF IdKept
  <2> QED BY <2>1, <2>2, <2>3, <2>4, <2>5
<1>6. \A e \in Dash : AnswerKept(e)
  <2>1. CASE PressPlay(d)
    <3>1. \A e \in Dash : request'[e] = request[e]
                          \/ (request'[e].stage = "sent" /\ request'[e].life = 0)
      BY <1>1, <2>1, PressPlayType
    <3> QED BY <3>1 DEF AnswerKept
  <2>2. CASE PlayFails(d)
    <3>1. \A e \in Dash : request'[e] = request[e] \/ request'[e] = NoRequest
      BY <1>1, <2>2, PlayFailsType
    <3>2. NoRequest.stage # "answered" /\ NoRequest.life = 0
      BY DEF NoRequest
    <3> QED BY <3>1, <3>2 DEF AnswerKept
  <2>3. CASE OnStop(d) \/ PressStop(d) \/ PressClear(d)
    BY <2>3 DEF OnStop, PressStop, PressClear, AnswerKept
  <2> QED BY <2>1, <2>2, <2>3
<1>7. IdsInv'
  BY <1>1, <1>2, <1>5, <1>6, IdsKept DEF VoiceInv
<1> QED BY <1>1, <1>4, <1>7 DEF VoiceInv

LEMMA PlayUploadedKeeps ==
  ASSUME VoiceInv, NEW d \in Dash, PlayUploaded(d)
  PROVE  VoiceInv'
<1>1. TypeOK /\ TypeOK'
  BY PlayUploadedType DEF VoiceInv
<1>2. \A e \in Dash : dash'[e].link = dash[e].link /\ dash'[e].voice = dash[e].voice
  BY <1>1, PlayUploadedType
<1>3. hub' = hub /\ down' = down
  BY DEF PlayUploaded
<1>4. VoiceTold'
  BY <1>2, <1>3, ToldKept DEF VoiceInv
<1>5. IdsInv'
  BY <1>1, PlayUploadedIds DEF VoiceInv
<1> QED BY <1>1, <1>4, <1>5 DEF VoiceInv

LEMMA StepHolds == VoiceInv /\ [Next]_vars => VoiceInv'
<1> SUFFICES ASSUME VoiceInv, [Next]_vars PROVE VoiceInv'
  OBVIOUS
<1>1. CASE Server
  BY <1>1, CommandKeeps, UploadStoredKeeps, RestartKeeps, RestKeeps DEF Server
<1>2. ASSUME NEW d \in Dash, Panel(d) PROVE VoiceInv'
  BY <1>2, LinkKeeps, ButtonKeeps, PlayUploadedKeeps DEF Panel
<1>3. CASE UNCHANGED vars
  <2>1. host' = host /\ hub' = hub /\ jobs' = jobs /\ dash' = dash /\ request' = request
        /\ down' = down /\ up' = up /\ life' = life /\ begun' = begun
    BY <1>3 DEF vars
  <2>2. TypeOK /\ TypeOK'
    BY <2>1 DEF VoiceInv, TypeOK
  <2>3. VoiceTold'
    BY <2>1, ToldKept DEF VoiceInv
  <2>4. IdsInv'
    <3>1. \A e \in Dash : IdKept(e) /\ AnswerKept(e)
      BY <2>1 DEF IdKept, AnswerKept
    <3> QED BY <2>1, <2>2, <3>1, IdsKept DEF VoiceInv
  <2> QED BY <2>2, <2>3, <2>4 DEF VoiceInv
<1> QED BY <1>1, <1>2, <1>3 DEF Next

-----------------------------------------------------------------------------
\* VoiceInv holds of every reachable state (talkback.py, main.upload_voice,
\* useVoiceMessage.ts and useTalkback.ts).
THEOREM VoiceCorrect == Spec => []VoiceInv
  BY InitHolds, StepHolds, PTL DEF Spec

\* The types of the clip, the requests and the channels.
THEOREM VoiceTypeCorrect == Spec => []TypeOK
<1>1. VoiceInv => TypeOK
  BY DEF VoiceInv
<1> QED BY <1>1, VoiceCorrect, PTL

\* Whatever is uploaded, commanded, lost or started again, a connected
\* dashboard that has read everything has the robot's present voice status.
THEOREM PanelsTold == Spec => []VoiceTold
<1>1. VoiceInv => VoiceTold
  BY DEF VoiceInv
<1> QED BY <1>1, VoiceCorrect, PTL

LEMMA OwnUploadHolds == VoiceInv => UploadedIsMine
<1> SUFFICES ASSUME VoiceInv, NEW d \in Dash, ShowsUploaded(d), dash[d].inLife = life
             PROVE  hub.clip # None /\ hub.clip[1] = d
  BY DEF UploadedIsMine
<1>1. dash[d].voice = VoiceStatus(hub)
  BY DEF ShowsUploaded, VoiceInv, VoiceTold
<1>2. VoiceStatus(hub).id = dash[d].uploadedId /\ dash[d].uploadedId # 0
  BY <1>1 DEF ShowsUploaded, Uploaded
<1>3. hub.clip # None /\ hub.id = dash[d].uploadedId
  BY <1>2 DEF VoiceStatus
<1>4. GivenTo(d, dash[d].uploadedId)
  BY DEF VoiceInv, IdsInv
<1> QED BY <1>3, <1>4 DEF GivenTo

\* A panel that calls its recording uploaded, with an id of the P2 that runs,
\* has one of its own dashboard's uploads on the robot.
THEOREM OwnUpload == Spec => []UploadedIsMine
  BY VoiceCorrect, OwnUploadHolds, PTL

=============================================================================
