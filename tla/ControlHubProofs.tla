-------------------------- MODULE ControlHubProofs --------------------------
(***************************************************************************)
(* The safety properties of ControlHub for any number of clients and any   *)
(* sequence numbers, from one inductive invariant, HubInv.                 *)
(***************************************************************************)
EXTENDS ControlHub, TLAPS

LEMMA InitHolds == ASSUME Init PROVE HubInv
<1> USE HubAssumption DEF Init, NewServer, Fresh
<1>1. TypeOK
  <2>1. done \in [Client -> SUBSET (Nat \ {0})] /\ lastSeq \in [Client -> Nat]
    OBVIOUS
  <2> QED BY <2>1 DEF TypeOK, Role
<1>2. HandlerInv
  BY DEF HandlerInv
<1>3. SlotMatchesRole /\ RoleTold
  BY DEF SlotMatchesRole, RoleTold
<1>4. MotionHasOwner /\ OwnFeeding
  BY DEF MotionHasOwner, OwnFeeding
<1> QED BY <1>1, <1>2, <1>3, <1>4 DEF HubInv

\* Start, Crash, Shutdown, PortFails: the server's life around the clients.
LEMMA ServerStep == ASSUME HubInv, Server PROVE HubInv'
<1> USE HubAssumption DEF HubInv, TypeOK, Role
<1>1. CASE Start
  BY <1>1 DEF Start, hubVars, seqVars, HandlerInv, SlotMatchesRole,
       MotionHasOwner, OwnFeeding, RoleTold
<1>2. CASE Crash
  <2>1. TypeOK'
    <3>1. /\ done' \in [Client -> SUBSET (Nat \ {0})]
          /\ lastSeq' \in [Client -> Nat]
      BY <1>2 DEF Crash, NewServer, Fresh
    <3> QED BY <1>2, <3>1 DEF Crash, NewServer, Fresh
  <2>2. HandlerInv'
    BY <1>2 DEF Crash, NewServer, Fresh, HandlerInv
  <2>3. SlotMatchesRole' /\ RoleTold'
    BY <1>2 DEF Crash, NewServer, Fresh, SlotMatchesRole, RoleTold
  <2>4. MotionHasOwner' /\ OwnFeeding'
    BY <1>2 DEF Crash, MotionHasOwner, OwnFeeding
  <2> QED BY <2>1, <2>2, <2>3, <2>4
<1>3. CASE Shutdown
  <2> USE <1>3 DEF Shutdown, SendStop, hubVars, seqVars, robotVars
  <2>1. TypeOK'
    OBVIOUS
  <2>2. HandlerInv' /\ SlotMatchesRole' /\ RoleTold'
    BY DEF HandlerInv, SlotMatchesRole, RoleTold
  <2>3. MotionHasOwner' /\ OwnFeeding'
    BY DEF MotionHasOwner, OwnFeeding
  <2> QED BY <2>1, <2>2, <2>3
<1>4. CASE PortFails
  BY <1>4 DEF PortFails, hubVars, seqVars, robotVars, HandlerInv,
       SlotMatchesRole, MotionHasOwner, OwnFeeding, RoleTold
<1> QED BY <1>1, <1>2, <1>3, <1>4 DEF Server

LEMMA ConnectStep == ASSUME HubInv, NEW c \in Client, Connect(c) PROVE HubInv'
<1> USE HubAssumption DEF HubInv, TypeOK, Role, Connect, seqVars, robotVars
<1>1. TypeOK'
  OBVIOUS
<1>2. HandlerInv'
  BY DEF HandlerInv
<1>3. SlotMatchesRole' /\ RoleTold'
  BY DEF SlotMatchesRole, RoleTold
<1>4. MotionHasOwner' /\ OwnFeeding'
  BY DEF MotionHasOwner, OwnFeeding
<1> QED BY <1>1, <1>2, <1>3, <1>4

\* A takeover leaves its claimant "notify", which is what MotionHasOwner and
\* RoleTold allow for the motion and the dashboard of the demoted client.
LEMMA ClaimStep == ASSUME HubInv, NEW c \in Client, Claim(c) PROVE HubInv'
<1> USE HubAssumption DEF HubInv, TypeOK, Role, Claim, Receives, Demoted, RolesAfterClaim
<1>1. TypeOK'
  BY DEF seqVars, robotVars
<1>2. HandlerInv'
  BY DEF HandlerInv, SlotMatchesRole, seqVars
<1>3. SlotMatchesRole'
  BY DEF SlotMatchesRole
<1>4. MotionHasOwner' /\ OwnFeeding'
  BY DEF MotionHasOwner, OwnFeeding, robotVars
<1>5. RoleTold'
  <2> SUFFICES ASSUME NEW d \in Client
               PROVE  \/ told'[d] = role'[d]
                      \/ told'[d] = "nothing" /\ role'[d] = "observer"
                      \/ \E e \in Client : pc'[e] = "notify" /\ prev'[e] = d
    BY DEF RoleTold
  <2>1. CASE d = c
    BY <2>1
  <2>2. CASE d # c /\ d = Demoted(c)
    <3>1. pc'[c] = "notify" /\ prev'[c] = d
      BY <2>2
    <3> QED BY <3>1
  <2>3. CASE d # c /\ d # Demoted(c)
    <3>1. told'[d] = told[d] /\ role'[d] = role[d]
      BY <2>3
    <3>2. ASSUME NEW e \in Client, pc[e] = "notify", prev[e] = d
          PROVE  pc'[e] = "notify" /\ prev'[e] = d
      BY <3>2
    <3> QED BY <3>1, <3>2 DEF RoleTold
  <2> QED BY <2>1, <2>2, <2>3
<1> QED BY <1>1, <1>2, <1>3, <1>4, <1>5

LEMMA NotifyStep == ASSUME HubInv, NEW c \in Client, Notify(c) PROVE HubInv'
<1> USE HubAssumption DEF HubInv, TypeOK, Role, Notify
<1>1. TypeOK'
  BY DEF seqVars, robotVars
<1>2. HandlerInv' /\ SlotMatchesRole'
  <2>1. ASSUME NEW d \in Client, d = prev[c] PROVE conn[d]
    BY <2>1 DEF HandlerInv
  <2> QED BY <2>1 DEF seqVars, HandlerInv, SlotMatchesRole
<1>3. MotionHasOwner' /\ OwnFeeding'
  BY DEF MotionHasOwner, OwnFeeding, robotVars
<1>4. RoleTold'
  BY DEF RoleTold
<1> QED BY <1>1, <1>2, <1>3, <1>4

LEMMA TakeoverStopStep ==
  ASSUME HubInv, NEW c \in Client, TakeoverStop(c) PROVE HubInv'
<1> USE HubAssumption DEF HubInv, TypeOK, Role, TakeoverStop, SendStop
<1>1. TypeOK' /\ HandlerInv' /\ SlotMatchesRole'
  BY DEF seqVars, robotVars, HandlerInv, SlotMatchesRole
<1>2. RoleTold'
  BY DEF RoleTold
<1>3. MotionHasOwner' /\ OwnFeeding'
  BY DEF MotionHasOwner, OwnFeeding, robotVars
<1> QED BY <1>1, <1>2, <1>3

LEMMA ReleaseStep == ASSUME HubInv, NEW c \in Client, Release(c) PROVE HubInv'
<1> USE HubAssumption DEF HubInv, TypeOK, Role, Release, Receives, FreeSlot
<1>1. TypeOK'
  <2>1. abandoned' \in BOOLEAN
    OBVIOUS
  <2>2. role' \in [Client -> Role] /\ told' \in [Client -> Role \cup {"nothing"}]
    OBVIOUS
  <2> QED BY <2>1, <2>2 DEF seqVars
<1>2. HandlerInv' /\ SlotMatchesRole'
  BY DEF seqVars, HandlerInv, SlotMatchesRole
<1>3. RoleTold'
  BY DEF RoleTold
<1>4. MotionHasOwner' /\ OwnFeeding'
  BY DEF MotionHasOwner, OwnFeeding, SlotMatchesRole
<1> QED BY <1>1, <1>2, <1>3, <1>4

\* Only the holder of the slot gets here, with its takeover finished: the
\* robot stands still or moves on this client's own command.
LEMMA CommandStep ==
  ASSUME HubInv, NEW c \in Client, NEW s \in Nat,
         Motor(c, s) \/ Servo(c, s) \/ Heartbeat(c) \/ StopAll(c)
  PROVE  HubInv'
<1> USE HubAssumption DEF HubInv, TypeOK, Role, MayCommand, Receives
<1>1. /\ conn[c] /\ pc[c] = "idle" /\ slot = c /\ up
      /\ UNCHANGED <<up, port, hubVars>>
  BY DEF Motor, Servo, Heartbeat, StopAll, HandlerInv, SlotMatchesRole
<1>2. port /\ driver # NoClient /\ ~abandoned => driver = c /\ keeper = c
  BY <1>1 DEF MotionHasOwner, OwnFeeding
<1>3. \/ UNCHANGED seqVars
      \/ /\ SeqOk(c, s) /\ s # 0
         /\ lastSeq' = [lastSeq EXCEPT ![c] = s]
         /\ done' = [done EXCEPT ![c] = @ \cup {s}]
  BY DEF Motor, Servo, Heartbeat, StopAll, TakeSeq
<1>4. SendMotion(c) \/ SendOther(c) \/ SendStop
  BY DEF Motor, Servo, Heartbeat, StopAll
<1>5. /\ lastSeq' \in [Client -> Nat]
      /\ done' \in [Client -> SUBSET (Nat \ {0})]
      /\ \A d \in Client : \A t \in done'[d] : t <= lastSeq'[d]
  <2>1. CASE UNCHANGED seqVars
    BY <2>1 DEF seqVars, HandlerInv
  <2>2. CASE /\ SeqOk(c, s) /\ s # 0
             /\ lastSeq' = [lastSeq EXCEPT ![c] = s]
             /\ done' = [done EXCEPT ![c] = @ \cup {s}]
    <3>1. s \in Nat \ {0} /\ s > lastSeq[c]
      BY <2>2 DEF SeqOk
    <3>2. \A t \in done[c] : t \in Int /\ t <= lastSeq[c]
      BY DEF HandlerInv
    <3> QED BY <2>2, <3>1, <3>2 DEF HandlerInv
  <2> QED BY <1>3, <2>1, <2>2
<1>6. TypeOK'
  <2>1. /\ driver' \in Client \cup {NoClient, Gone}
        /\ keeper' \in Client \cup {NoClient, Gone}
        /\ abandoned' \in BOOLEAN
    BY <1>4 DEF SendMotion, SendOther, SendStop, robotVars
  <2> QED BY <1>1, <1>5, <2>1 DEF hubVars
<1>7. HandlerInv'
  BY <1>1, <1>5 DEF HandlerInv, hubVars
<1>8. SlotMatchesRole' /\ RoleTold'
  BY <1>1 DEF SlotMatchesRole, RoleTold, hubVars
<1>9. MotionHasOwner' /\ OwnFeeding'
  BY <1>1, <1>2, <1>4 DEF MotionHasOwner, OwnFeeding, hubVars, SendMotion,
       SendOther, SendStop, robotVars
<1> QED BY <1>6, <1>7, <1>8, <1>9

LEMMA CloseStep == ASSUME HubInv, NEW c \in Client, Close(c) PROVE HubInv'
<1> USE HubAssumption DEF HubInv, TypeOK, Role, Close, Receives, FreeSlot, LeavingStop,
            Forget, SendStop
<1>1. TypeOK'
  <2>1. /\ done' \in [Client -> SUBSET (Nat \ {0})]
        /\ lastSeq' \in [Client -> Nat]
    OBVIOUS
  <2>2. driver' \in Client \cup {NoClient, Gone} /\ keeper' \in Client \cup {NoClient, Gone}
    OBVIOUS
  <2>3. /\ conn' \in [Client -> BOOLEAN] /\ role' \in [Client -> Role]
        /\ told' \in [Client -> Role \cup {"nothing"}]
        /\ prev' \in [Client -> Client \cup {NoClient, Gone}]
    OBVIOUS
  <2> QED BY <2>1, <2>2, <2>3
<1>2. HandlerInv'
  BY DEF HandlerInv
<1>3. SlotMatchesRole'
  BY DEF SlotMatchesRole
<1>4. MotionHasOwner'
  BY DEF MotionHasOwner, SlotMatchesRole
<1>5. OwnFeeding'
  BY DEF OwnFeeding
<1>6. RoleTold'
  BY DEF RoleTold
<1> QED BY <1>1, <1>2, <1>3, <1>4, <1>5, <1>6

LEMMA Inductive == ASSUME HubInv, [Next]_vars PROVE HubInv'
<1>1. CASE UNCHANGED vars
  BY <1>1 DEF vars, hubVars, seqVars, robotVars, HubInv, TypeOK, HandlerInv,
       SlotMatchesRole, MotionHasOwner, OwnFeeding, RoleTold
<1>2. CASE Server
  BY <1>2, ServerStep
<1>3. ASSUME NEW c \in Client,
             Connect(c) \/ Message(c) \/ Notify(c) \/ TakeoverStop(c) \/ Close(c)
      PROVE  HubInv'
  <2>1. 0 \in Nat
    BY HubAssumption
  <2>2. CASE Message(c)
    BY <1>1, <2>1, <2>2, ClaimStep, ReleaseStep, CommandStep DEF Message, Refuse
  <2> QED BY <1>3, <2>2, ConnectStep, NotifyStep, TakeoverStopStep, CloseStep
<1> QED BY <1>1, <1>2, <1>3 DEF Next

\* HubInv is an invariant for every pool of clients and every MaxSeq.
THEOREM HubCorrect == Spec => []HubInv
<1>1. Init => HubInv
  BY InitHolds
<1>2. HubInv /\ [Next]_vars => HubInv'
  BY Inductive
<1> QED BY <1>1, <1>2, PTL DEF Spec

\* Type correctness.
THEOREM TypeCorrect == Spec => []TypeOK
<1>1. HubInv => TypeOK
  BY DEF HubInv
<1> QED BY <1>1, HubCorrect, PTL

\* The controller slot and the role fields of the clients always agree
\* (claim_role, unregister).
THEOREM OneController == Spec => []SlotMatchesRole
<1>1. HubInv => SlotMatchesRole
  BY DEF HubInv
<1> QED BY <1>1, HubCorrect, PTL

\* Unless its driver gave the slot back, a moving robot has its driver in the
\* slot or a takeover STOP on the way (_handle_hello, control_ws).
THEOREM OwnedMotion == Spec => []MotionHasOwner
<1>1. HubInv => MotionHasOwner
  BY DEF HubInv
<1> QED BY <1>1, HubCorrect, PTL

\* Nobody else's lines keep its dead-man from tripping.
THEOREM FedByDriver == Spec => []OwnFeeding
<1>1. HubInv => OwnFeeding
  BY DEF HubInv
<1> QED BY <1>1, HubCorrect, PTL

\* The last role message to a dashboard is right, or another is coming.
THEOREM RolesTold == Spec => []RoleTold
<1>1. HubInv => RoleTold
  BY DEF HubInv
<1> QED BY <1>1, HubCorrect, PTL

LEMMA OrderStep ==
  ASSUME HubInv, [Next]_vars, NEW c \in Client, conn[c], conn'[c]
  PROVE  \A s \in done'[c] \ done[c] : \A t \in done[c] : t < s
<1> USE HubAssumption DEF HubInv, TypeOK
<1>1. CASE UNCHANGED done
  BY <1>1
<1>2. ASSUME NEW d \in Client, NEW s \in Nat, SeqOk(d, s), TakeSeq(d, s)
      PROVE  \A x \in done'[c] \ done[c] : \A t \in done[c] : t < x
  <2>1. CASE s = 0
    BY <1>2, <2>1 DEF TakeSeq, seqVars
  <2>2. CASE s # 0
    <3>1. \A x \in done'[c] \ done[c] : x = s /\ d = c
      BY <1>2, <2>2 DEF TakeSeq
    <3>2. \A t \in done[c] : t \in Int /\ t <= lastSeq[c]
      BY DEF HandlerInv
    <3>3. s > lastSeq[d]
      BY <1>2, <2>2 DEF SeqOk
    <3> QED BY <3>1, <3>2, <3>3
  <2> QED BY <2>1, <2>2
<1>3. CASE Crash
  BY <1>3 DEF Crash, NewServer, Fresh
<1>4. ASSUME NEW d \in Client, Close(d)
      PROVE  \A x \in done'[c] \ done[c] : \A t \in done[c] : t < x
  BY <1>4 DEF Close
<1> QED
  BY <1>1, <1>2, <1>3, <1>4 DEF Next, Server, Start, Shutdown, PortFails, Connect,
       Message, Claim, Release, Heartbeat, StopAll, Motor, Servo, Refuse, Notify,
       TakeoverStop, vars, hubVars, seqVars

\* Numbered commands are executed in order on every connection, for any
\* range of numbers (_check_sequence).
THEOREM InOrder == Spec => OrderedCommands
<1>1. HubInv /\ [Next]_vars =>
        [\A c \in Client : conn[c] /\ conn'[c] =>
            \A s \in done'[c] \ done[c] : \A t \in done[c] : t < s]_vars
  BY OrderStep
<1> QED BY <1>1, HubCorrect, PTL DEF Spec, OrderedCommands

=============================================================================
