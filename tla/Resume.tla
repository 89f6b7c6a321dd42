------------------------------- MODULE Resume -------------------------------
(***************************************************************************)
(* How a dashboard that comes back is brought up to date: P1's telemetry   *)
(* loop (p1_control/main.py, _broadcast_loop) with the ring buffer it      *)
(* fills, one browser's socket, and the resume_from request answered from  *)
(* the buffer while the loop goes on.                                      *)
(*                                                                         *)
(* A frame is its server_ts.  P1's clock does not step back here: a frame  *)
(* made at an earlier server_ts than one before it would be left out of a  *)
(* batch without a word.                                                   *)
(***************************************************************************)
EXTENDS Integers, Sequences, FiniteSets, Functions

CONSTANTS
    Capacity,   \* RING_BUFFER_SIZE (300)
    MaxTs,      \* bound on P1's clock
    MaxWire     \* bound on the messages on their way to the browser

ResumeAssumption == Capacity \in Nat \ {0} /\ MaxTs \in Nat /\ MaxWire \in Nat \ {0}

VARIABLES
    slots, head, count,     \* RingBuffer
    sending,    \* the snapshot whose broadcast is under way, 0 for none
    linked,     \* the client is registered with P1
    asked,      \* last_ts of the resume_from P1 has not handled, or None
    wire,       \* messages on the client's socket, oldest first
    seen,       \* lastServerTsRef of the browser
    clock,      \* server_ts of the last snapshot
    made        \* history: the snapshots of this run of P1

ring == <<slots, head, count>>
vars == <<ring, sending, linked, asked, wire, seen, clock, made>>

None == -1

Init ==
    /\ slots = [i \in 0 .. Capacity - 1 |-> None] /\ head = 0 /\ count = 0
    /\ sending = 0 /\ linked = FALSE /\ asked = None /\ wire = <<>>
    /\ seen = 0 /\ clock = 0 /\ made = {}

-----------------------------------------------------------------------------
\* RingBuffer

\* A mutant of Held: the buffer is read from its first slot.
HeldFromZero == [i \in 1 .. count |-> slots[i - 1]]

\* __iter__: from the oldest to the newest.
Held == [i \in 1 .. count |-> slots[(head - count + i - 1) % Capacity]]

\* since: the frames come in the order of their server_ts, so the newer ones are
\* the last ones.
Since(ts) == SubSeq(Held, 1 + Cardinality({i \in 1 .. count : Held[i] <= ts}), count)

\* A mutant of GapAfter: a gap only when the batch is empty.
GapOfEmptyBatch(ts) == IF Since(ts) = <<>> THEN clock - ts ELSE 0

\* gap_ms: nothing to say of an empty buffer.
GapAfter(ts) == IF count > 0 /\ Held[1] > ts THEN Held[1] - ts ELSE 0

\* append
Append1(s) ==
    /\ slots' = [slots EXCEPT ![head] = s]
    /\ head' = (head + 1) % Capacity
    /\ count' = IF count < Capacity THEN count + 1 ELSE count

-----------------------------------------------------------------------------
\* build_snapshot and buffer.append, up to the await of the broadcast.  An
\* iteration that took long is absorbed: the next one is later.
MakeSnapshot ==
    /\ sending = 0
    /\ \E s \in clock + 1 .. clock + 2 :
        /\ s <= MaxTs
        /\ clock' = s
        /\ made' = made \cup {s}
        /\ Append1(s)
        /\ sending' = IF linked THEN s ELSE 0
    /\ UNCHANGED <<linked, asked, wire, seen>>

\* hub.broadcast gathers its sends to the clients registered when it started:
\* the loop waits for the slowest of them.
SendSnapshot ==
    /\ sending # 0 /\ Len(wire) < MaxWire
    /\ wire' = Append(wire, [kind |-> "telemetry", ts |-> sending])
    /\ sending' = 0
    /\ UNCHANGED <<ring, linked, asked, seen, clock, made>>

\* The socket opens: the client is registered, and the browser asks for what
\* it missed.
Connect ==
    /\ ~linked
    /\ linked' = TRUE
    /\ asked' = IF seen > 0 THEN seen ELSE None
    /\ UNCHANGED <<ring, sending, wire, seen, clock, made>>

\* _handle_resume
HandleResume ==
    /\ asked # None /\ Len(wire) < MaxWire
    /\ wire' = Append(wire, [kind |-> "batch", after |-> asked, upto |-> clock,
                             entries |-> Since(asked), gap |-> GapAfter(asked)])
    /\ asked' = None
    /\ UNCHANGED <<ring, sending, linked, seen, clock, made>>

\* useControlSocket, onmessage
Deliver ==
    /\ wire # <<>>
    /\ wire' = Tail(wire)
    /\ LET m == Head(wire)
       IN  seen' = IF m.kind = "telemetry" THEN m.ts
                   ELSE IF m.entries # <<>> THEN m.entries[Len(m.entries)] ELSE seen
    /\ UNCHANGED <<ring, sending, linked, asked, clock, made>>

\* Whatever was on the socket is lost, and a send to it fails and is swallowed.
Drop ==
    /\ linked
    /\ linked' = FALSE /\ asked' = None /\ wire' = <<>> /\ sending' = 0
    /\ UNCHANGED <<ring, seen, clock, made>>

\* The buffer is P1's memory.
P1Restarts ==
    /\ slots' = [i \in 0 .. Capacity - 1 |-> None] /\ head' = 0 /\ count' = 0
    /\ sending' = 0 /\ made' = {}
    /\ linked' = FALSE /\ asked' = None /\ wire' = <<>>
    /\ UNCHANGED <<seen, clock>>

Next ==
    \/ MakeSnapshot \/ SendSnapshot
    \/ Connect \/ HandleResume \/ Deliver \/ Drop
    \/ P1Restarts

Spec == Init /\ [][Next]_vars

-----------------------------------------------------------------------------
Batches == {m \in Range(wire) : m.kind = "batch"}

\* A batch holds every snapshot P1 has made since the one the browser named, in
\* the order they were made, or says that some are gone (ring_buffer.py, since
\* and gap_ms, through any number of wraps).
BatchWhole ==
    \A m \in Batches :
        \/ m.gap > 0
        \/ {s \in made : m.after < s /\ s <= m.upto} \subseteq Range(m.entries)

\* The screen never goes back in time: not when the batch and the running
\* telemetry interleave, nor over reconnects and restarts (_broadcast_loop,
\* _handle_resume, onmessage).
SeenForward == [][seen' >= seen]_seen
=============================================================================
