---------------------------- MODULE ControlHub ----------------------------
(***************************************************************************)
(* The control server P1 between the dashboards and the Arduino link:      *)
(* the client registry and controller slot (p1_control/websocket_hub.py),  *)
(* the message handlers (p1_control/main.py), the command checks           *)
(* (p1_control/safety.py) and the life of the serial port                  *)
(* (p1_control/serial_bridge.py).                                          *)
(*                                                                         *)
(* P1 is one asyncio event loop.  Every connection has a handler task that *)
(* processes its messages one after another; handlers interleave only at   *)
(* an await that really suspends.  Those are the sends of _handle_hello,   *)
(* so a handler is at one of three places:                                 *)
(*   "idle"    in receive_text, or about to be                             *)
(*   "notify"  it took the slot from another client and awaits the send of *)
(*             its ack; the demoted client is told next                    *)
(*   "stop"    it awaits the send to the demoted client; send_stop is next *)
(* A line is written to the port in one piece: SerialBridge.send holds a   *)
(* lock no one ever waits for.                                             *)
(***************************************************************************)
EXTENDS Integers

CONSTANTS
    Client,     \* the connections open at one time, as a pool of names
    NoClient,   \* Python's None
    Gone,       \* a connection that is over, or one of a server that died
    MaxSeq      \* bound: a client c uses the sequence numbers 1 .. MaxSeq[c]

ASSUME HubAssumption ==
    /\ NoClient \notin Client /\ Gone \notin Client /\ NoClient # Gone
    /\ MaxSeq \in [Client -> Nat]

VARIABLES
    up,         \* the server runs, its handshake with the Arduino is done
    port,       \* writes to the serial port reach the Arduino
    conn,       \* WebSocketHub._clients
    role,       \* Client.role
    slot,       \* WebSocketHub._controller_id
    pc,         \* where the connection's handler stands
    prev,       \* `previous` in the handler's _handle_hello
    told,       \* the role named in the last message sent to the client
    lastSeq,    \* CommandValidator._last_seq, 0 for no entry
    done,       \* history: the numbers executed on this connection
    driver,     \* history: whose motion command the robot is under
    keeper,     \* history: whose line refreshed its dead-man last
    abandoned   \* history: the driver gave the slot back by a hello

hubVars   == <<conn, role, slot, pc, prev, told>>
seqVars   == <<lastSeq, done>>
robotVars == <<driver, keeper, abandoned>>
vars == <<up, port, hubVars, seqVars, robotVars>>

Role == {"controller", "observer"}

-----------------------------------------------------------------------------
(***************************************************************************)
(* What a line on the serial port does to the robot.                       *)
(***************************************************************************)

\* serial.send_stop(): STOP ends the motion, whoever asked for it.
SendStop ==
    IF port THEN driver' = NoClient /\ keeper' = NoClient /\ abandoned' = FALSE
            ELSE UNCHANGED robotVars

\* A motion opcode of client c.
SendMotion(c) ==
    IF port THEN driver' = c /\ keeper' = c /\ abandoned' = FALSE
            ELSE UNCHANGED robotVars

\* Any other opcode of client c: it refreshes the dead-man of a moving robot.
SendOther(c) ==
    /\ keeper' = IF port /\ driver # NoClient THEN c ELSE keeper
    /\ UNCHANGED <<driver, abandoned>>

\* What is left of the history once the connection c is over.
Forget(c, x) == IF x = c THEN Gone ELSE x

-----------------------------------------------------------------------------
Fresh(f, v) == f = [c \in Client |-> v]

\* A ControlServer without clients.
NewServer(cn, ro, sl, p, pr, to, ls, dn) ==
    /\ Fresh(cn, FALSE) /\ Fresh(ro, "observer") /\ sl = NoClient
    /\ Fresh(p, "idle") /\ Fresh(pr, NoClient) /\ Fresh(to, "nothing")
    /\ Fresh(ls, 0) /\ Fresh(dn, {})

Init ==
    /\ up = FALSE /\ port = FALSE
    /\ NewServer(conn, role, slot, pc, prev, told, lastSeq, done)
    /\ driver = NoClient /\ keeper = NoClient /\ abandoned = FALSE

\* Mutant of Start: no STOP before the server takes clients.
StartWithoutStop ==
    /\ ~up
    /\ up' = TRUE
    /\ port' = TRUE
    /\ UNCHANGED <<hubVars, seqVars, robotVars>>

(***************************************************************************)
(* SerialBridge.open: the port is opened afresh, which resets the board,   *)
(* and three STOPs go out before the board is awaited.  A start whose      *)
(* handshake fails exits again and is not a step here.                     *)
(***************************************************************************)
Start ==
    /\ ~up
    /\ up' = TRUE
    /\ port' = TRUE
    /\ driver' = NoClient /\ keeper' = NoClient /\ abandoned' = FALSE
    /\ UNCHANGED <<hubVars, seqVars>>

\* The process dies: the sockets close, nothing is written, memory is lost.
Crash ==
    /\ up
    /\ up' = FALSE
    /\ port' = FALSE
    /\ NewServer(conn', role', slot', pc', prev', told', lastSeq', done')
    /\ driver' = IF driver = NoClient THEN NoClient ELSE Gone
    /\ keeper' = IF keeper = NoClient THEN NoClient ELSE Gone
    /\ UNCHANGED abandoned

\* ControlServer.stop, once the sockets are closed: SerialBridge.close.
Shutdown ==
    /\ up
    /\ \A c \in Client : ~conn[c]
    /\ up' = FALSE
    /\ port' = FALSE
    /\ SendStop
    /\ UNCHANGED <<hubVars, seqVars>>

\* The cable is gone: writes fail from now on, and send swallows the error.
PortFails ==
    /\ up /\ port
    /\ port' = FALSE
    /\ UNCHANGED <<up, hubVars, seqVars, robotVars>>

-----------------------------------------------------------------------------
\* WebSocketHub.register.
Connect(c) ==
    /\ up /\ ~conn[c]
    /\ conn' = [conn EXCEPT ![c] = TRUE]
    /\ UNCHANGED <<up, port, role, slot, pc, prev, told, seqVars, robotVars>>

\* The handler of c receives its next message.
Receives(c) == conn[c] /\ pc[c] = "idle"

\* The holder's slot is freed; anyone else leaves it alone.
FreeSlot(c) == IF slot = c THEN NoClient ELSE slot

\* claim_role: the client a claim by c demotes.
Demoted(c) == IF slot = c THEN NoClient ELSE slot

RolesAfterClaim(c) ==
    [d \in Client |-> IF d = c THEN "controller"
                      ELSE IF d = Demoted(c) THEN "observer" ELSE role[d]]

(***************************************************************************)
(* A hello that asks for controller with the right key: claim_role takes   *)
(* the slot from whoever has it, and the ack goes out.                     *)
(***************************************************************************)
Claim(c) ==
    /\ Receives(c)
    /\ slot' = c
    /\ role' = RolesAfterClaim(c)
    /\ told' = [told EXCEPT ![c] = "controller"]
    /\ prev' = [prev EXCEPT ![c] = Demoted(c)]
    /\ pc' = [pc EXCEPT ![c] = IF Demoted(c) = NoClient THEN "idle" ELSE "notify"]
    /\ UNCHANGED <<up, port, conn, seqVars, robotVars>>

\* Mutant of Notify: the message names the role of the time of the takeover.
NotifyStaleRole(c) ==
    /\ pc[c] = "notify"
    /\ pc' = [pc EXCEPT ![c] = "stop"]
    /\ prev' = [prev EXCEPT ![c] = NoClient]
    /\ told' = [d \in Client |-> IF d = prev[c] THEN "observer" ELSE told[d]]
    /\ UNCHANGED <<up, port, conn, role, slot, seqVars, robotVars>>

\* The ack is out.  previous.role is read only now, and sent to the previous
\* holder if that connection is still there; a failed send is swallowed.
Notify(c) ==
    /\ pc[c] = "notify"
    /\ pc' = [pc EXCEPT ![c] = "stop"]
    /\ prev' = [prev EXCEPT ![c] = NoClient]
    /\ told' = [d \in Client |-> IF d = prev[c] THEN role[d] ELSE told[d]]
    /\ UNCHANGED <<up, port, conn, role, slot, seqVars, robotVars>>

\* Mutant of TakeoverStop: no STOP.
TakeoverCoasts(c) ==
    /\ pc[c] = "stop"
    /\ pc' = [pc EXCEPT ![c] = "idle"]
    /\ UNCHANGED <<up, port, conn, role, slot, prev, told, seqVars, robotVars>>

\* "the new one starts from standstill".
TakeoverStop(c) ==
    /\ pc[c] = "stop"
    /\ pc' = [pc EXCEPT ![c] = "idle"]
    /\ SendStop
    /\ UNCHANGED <<up, port, conn, role, slot, prev, told, seqVars>>

\* A hello that asks for observer, or whose key is missing, wrong or locked
\* out: the holder itself gives the slot back.
Release(c) ==
    /\ Receives(c)
    /\ slot' = FreeSlot(c)
    /\ role' = [role EXCEPT ![c] = "observer"]
    /\ told' = [told EXCEPT ![c] = "observer"]
    /\ abandoned' = (abandoned \/ (slot = c /\ driver = c))
    /\ UNCHANGED <<up, port, conn, pc, prev, seqVars, driver, keeper>>

-----------------------------------------------------------------------------
\* Mutant of SeqOk: only a repetition of the last number is stale.
SeqNotRepeated(c, s) == s = 0 \/ s # lastSeq[c]

\* CommandValidator._check_sequence; 0 is a message without a seq.
SeqOk(c, s) == s = 0 \/ s > lastSeq[c]

TakeSeq(c, s) ==
    IF s = 0 THEN UNCHANGED seqVars
    ELSE /\ lastSeq' = [lastSeq EXCEPT ![c] = s]
         /\ done' = [done EXCEPT ![c] = @ \cup {s}]

\* Mutant of MayCommand: no role check.
AnyoneMayCommand(c) == Receives(c)

\* The handler lets c's command through to the validator.
MayCommand(c) == Receives(c) /\ role[c] = "controller"

Motor(c, s) ==
    /\ MayCommand(c) /\ SeqOk(c, s)
    /\ TakeSeq(c, s)
    /\ SendMotion(c)
    /\ UNCHANGED <<up, port, hubVars>>

Servo(c, s) ==
    /\ MayCommand(c) /\ SeqOk(c, s)
    /\ TakeSeq(c, s)
    /\ SendOther(c)
    /\ UNCHANGED <<up, port, hubVars>>

Heartbeat(c) ==
    /\ MayCommand(c)
    /\ SendOther(c)
    /\ UNCHANGED <<up, port, hubVars, seqVars>>

StopAll(c) ==
    /\ MayCommand(c)
    /\ SendStop
    /\ UNCHANGED <<up, port, hubVars, seqVars>>

\* An observer's command, or a number already passed: an error message.
Refuse(c, s) ==
    /\ Receives(c)
    /\ role[c] = "observer" \/ ~SeqOk(c, s)
    /\ UNCHANGED vars

\* Mutant of LeavingStop: the role is looked at after it was reset.
LeavingCoasts(c) ==
    /\ driver' = Forget(c, driver)
    /\ keeper' = Forget(c, keeper)
    /\ UNCHANGED abandoned

\* A leaving controller stops the robot; of any other only the name is lost.
LeavingStop(c) ==
    IF role[c] = "controller" /\ port
    THEN SendStop
    ELSE /\ driver' = Forget(c, driver)
         /\ keeper' = Forget(c, keeper)
         /\ UNCHANGED abandoned

(***************************************************************************)
(* The connection ends, by the client, a ping timeout or an exception:     *)
(* the finally block of control_ws, which no await interrupts before the   *)
(* STOP of a leaving controller.                                           *)
(***************************************************************************)
Close(c) ==
    /\ Receives(c)
    /\ conn' = [conn EXCEPT ![c] = FALSE]
    /\ slot' = FreeSlot(c)
    /\ role' = [role EXCEPT ![c] = "observer"]
    /\ told' = [told EXCEPT ![c] = "nothing"]
    /\ prev' = [d \in Client |-> Forget(c, prev[d])]
    /\ lastSeq' = [lastSeq EXCEPT ![c] = 0]
    /\ done' = [done EXCEPT ![c] = {}]
    /\ LeavingStop(c)
    /\ UNCHANGED <<up, port, pc>>

-----------------------------------------------------------------------------
Message(c) ==
    \/ Claim(c)
    \/ Release(c)
    \/ Heartbeat(c)
    \/ StopAll(c)
    \/ \E s \in 0 .. MaxSeq[c] : Motor(c, s) \/ Servo(c, s) \/ Refuse(c, s)

Server == Start \/ Crash \/ Shutdown \/ PortFails

Next ==
    \/ Server
    \/ \E c \in Client :
          Connect(c) \/ Message(c) \/ Notify(c) \/ TakeoverStop(c) \/ Close(c)

Spec == Init /\ [][Next]_vars

(***************************************************************************)
(* A send returns: it is accepted by the socket, or it fails when the ping *)
(* timeout tears the socket down, and hub.send swallows the failure.       *)
(***************************************************************************)
FairSpec ==
    Spec /\ \A c \in Client : WF_vars(Notify(c)) /\ WF_vars(TakeoverStop(c))

-----------------------------------------------------------------------------
(***************************************************************************)
(* Properties.                                                             *)
(***************************************************************************)

\* The variables hold what the server's fields can hold.
TypeOK ==
    /\ up \in BOOLEAN /\ port \in BOOLEAN /\ abandoned \in BOOLEAN
    /\ conn \in [Client -> BOOLEAN]
    /\ role \in [Client -> Role]
    /\ slot \in Client \cup {NoClient}
    /\ pc \in [Client -> {"idle", "notify", "stop"}]
    /\ prev \in [Client -> Client \cup {NoClient, Gone}]
    /\ told \in [Client -> Role \cup {"nothing"}]
    /\ lastSeq \in [Client -> Nat]
    /\ done \in [Client -> SUBSET (Nat \ {0})]
    /\ driver \in Client \cup {NoClient, Gone}
    /\ keeper \in Client \cup {NoClient, Gone}

\* The slot and the role fields are two records of one fact, kept by different
\* methods; through takeovers, give-backs, closes and crashes they agree, so
\* at most one client passes the is_controller test.
SlotMatchesRole ==
    /\ \A c \in Client : role[c] = "controller" <=> slot = c
    /\ slot # NoClient => conn[slot]

\* A moving robot has someone in charge: the client that set it moving holds
\* the slot, or the holder's handler still has the STOP of its takeover to
\* send before it reads another message.  The exception is a controller that
\* gave the slot back by a hello (abandoned), which sends no STOP.
MotionHasOwner ==
    up /\ port /\ driver # NoClient /\ ~abandoned =>
        slot # NoClient /\ (driver = slot \/ pc[slot] # "idle")

\* The dead-man of a moving robot is fed only by the client that set it
\* moving: a takeover never lets the new controller's heartbeats carry on the
\* old one's motion.
OwnFeeding == driver # NoClient /\ ~abandoned => keeper = driver

\* A dashboard that has read everything sent to it shows its true role, unless
\* a handler is about to tell it: no order of acks and taken-over messages
\* leaves a stale role behind.
RoleTold ==
    \A c \in Client :
        \/ told[c] = role[c]
        \/ told[c] = "nothing" /\ role[c] = "observer"
        \/ \E d \in Client : pc[d] = "notify" /\ prev[d] = c

\* On one connection numbered commands are executed in the order of their
\* numbers, across losing and regaining the slot (_check_sequence).
OrderedCommands ==
    [][\A c \in Client :
          conn[c] /\ conn'[c] =>
              \A s \in done'[c] \ done[c] : \A t \in done[c] : t < s]_vars

\* Once the slot changes hands, the motion of the old holder is ended.
OldMotionEnds ==
    (up /\ port /\ driver # NoClient /\ ~abandoned /\ driver # slot)
        ~> (driver = NoClient \/ driver = slot \/ ~up \/ ~port)

\* main.py, _handle_hello: "Whatever the old controller had the robot doing,
\* the new one starts from standstill".  A controller whose handler is reading
\* messages never has the motion of another under its heartbeats.
StartsFromStandstill == driver # NoClient /\ driver # Gone => keeper = driver

-----------------------------------------------------------------------------
(***************************************************************************)
(* The inductive invariant behind the safety properties.                   *)
(***************************************************************************)

\* A handler in the middle of a takeover belongs to an open connection, and so
\* does the client it still has to tell; a
\* server that is down has none; the numbers executed are below the last.
HandlerInv ==
    /\ \A c \in Client : pc[c] # "idle" => conn[c]
    /\ \A c \in Client : prev[c] # c /\ (prev[c] \in Client => conn[prev[c]])
    /\ ~up => ~port /\ \A c \in Client : ~conn[c]
    /\ \A c \in Client : ~conn[c] => told[c] = "nothing" /\ role[c] = "observer"
    /\ \A c \in Client : \A s \in done[c] : s <= lastSeq[c]

HubInv ==
    TypeOK /\ HandlerInv /\ SlotMatchesRole /\ MotionHasOwner /\ OwnFeeding /\ RoleTold

=============================================================================
