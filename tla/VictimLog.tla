------------------------------ MODULE VictimLog ------------------------------
(***************************************************************************)
(* Victim marks: P1's file of them (victim_log.VictimLog), the requests    *)
(* that add, delete and archive them (main.ControlServer), and the list    *)
(* every dashboard keeps (useControlSocket), from what it fetches when its *)
(* socket opens, what P1 broadcasts, and the answers to its own requests   *)
(* (MarkVictimButton, VictimList).                                         *)
(*                                                                         *)
(* A mark is its number; its note, position and snapshot are left out.  A  *)
(* request without the right key is one that fails.                        *)
(***************************************************************************)
EXTENDS Integers, FiniteSets, SequencesExt

CONSTANTS
    Dash,       \* dashboards
    MaxAsk,     \* bound: operators' requests
    MaxWire,    \* bound: broadcasts under way to a dashboard
    MaxCut      \* bound: writes of the file that are cut short

ASSUME VictimAssumption == {MaxAsk, MaxWire, MaxCut} \subseteq Nat

VARIABLES
    up,         \* P1 serves
    file,       \* victims.jsonl, its lines
    archived,   \* the marks in the archives
    wire,       \* per dashboard, what P1 sent on its socket
    link,       \* per dashboard: connected, and among P1's clients
    list,       \* per dashboard: victimMarks
    fetch,      \* per dashboard, its GET /api/victims
    asks,       \* the operators' POST and DELETE requests under way
    asked,      \* bound: how many were made
    made,       \* the number of marks made
    deleted,    \* history: the marks deleted
    apart,      \* history: the marks a cut write has lost or left untold
    cuts,       \* history: how often a write was cut short
    loaded      \* history: per dashboard, whether its list was loaded since it
                \* connected, and no answer that changed it was overtaken

fileVars == <<file, archived, made, deleted, apart, cuts>>
pageVars == <<link, list, fetch>>
vars == <<up, wire, asks, asked, loaded, fileVars, pageVars>>

Marks == 1 .. MaxAsk

(***************************************************************************)
(* A line of the file holds one whole mark, or 0 when it is not JSON of    *)
(* one; `ended` is its newline, which only the last line can lack.         *)
(***************************************************************************)
Line == [mark : 0 .. MaxAsk, ended : BOOLEAN]
WholeLine(m) == [mark |-> m, ended |-> TRUE]

TornEnd(f) == f # <<>> /\ ~Last(f).ended

\* What a sequence has at some of its places, in its order.
At(f, places) ==
    [n \in 1 .. Cardinality(places) |->
        f[CHOOSE i \in places : Cardinality({j \in places : j <= i}) = n]]

\* VictimLog.list: what can be read, in the order of the file.
Readable(f) ==
    LET whole == At(f, {i \in DOMAIN f : f[i].mark # 0})
    IN  [n \in DOMAIN whole |-> whole[n].mark]

OnFile == ToSet(Readable(file))

\* Mutant of Added: the file is opened to be overwritten.
AddedAlone(f, l) == <<l>>

\* VictimLog.add: a line at the end, on the line that is there if that one has
\* no newline.
Added(f, l) ==
    IF TornEnd(f) THEN Append(Front(f), [mark |-> 0, ended |-> l.ended])
    ELSE Append(f, l)

\* VictimLog.delete: every other line, each with a newline.
Without(f, m) ==
    LET kept == At(f, {i \in DOMAIN f : f[i].mark # m})
    IN  [n \in DOMAIN kept |-> WholeLine(kept[n].mark)]

\* What may be left of it when it is cut short: some lines, the next perhaps
\* begun, or whole but for its newline.
Remains(f) ==
    {SubSeq(f, 1, n) : n \in 0 .. Len(f) - 1} \cup
    UNION {{Append(SubSeq(f, 1, n - 1), [mark |-> m, ended |-> FALSE])
               : m \in {0, f[n].mark}} : n \in DOMAIN f}

-----------------------------------------------------------------------------
(***************************************************************************)
(* P1.  VictimLog's methods run on its event loop and never wait; each     *)
(* handler is its file operation and the broadcast.                        *)
(***************************************************************************)
Message(kind, m) == [kind |-> kind, mark |-> m]

\* WebSocketHub.broadcast.
Broadcast(msg) ==
    /\ \A d \in Dash : Len(wire[d]) < MaxWire
    /\ wire' = [d \in Dash |-> IF link[d] THEN Append(wire[d], msg) ELSE wire[d]]

(***************************************************************************)
(* A request: its dashboard, kind and mark, whether P1 has done it, and,   *)
(* as history, whether an operator's change behind it makes its answer a   *)
(* wrong one: one that adds a mark which may be gone, or empties a list    *)
(* that has a new one.                                                     *)
(***************************************************************************)
Ask(d, kind, m) ==
    [dash |-> d, kind |-> kind, mark |-> m, done |-> FALSE, late |-> FALSE]

\* b is done, behind a.
Overtakes(b, a) ==
    /\ a.done
    /\ \/ a.kind = "mark" /\ (b.kind = "reset" \/ (b.kind = "delete" /\ b.mark = a.mark))
       \/ a.kind = "reset" /\ b.kind = "mark"

\* P1 has done a, of mark m: an answer is on its way, and others, of requests
\* and of loads of the list, are overtaken.
Answer(a, m) ==
    /\ asks' = {[b EXCEPT !.late = @ \/ Overtakes(a, b)] : b \in asks \ {a}}
                  \cup {[a EXCEPT !.mark = m, !.done = TRUE]}
    /\ fetch' = [d \in Dash |->
           [fetch[d] EXCEPT !.late = @ \/ fetch[d].stage = "answered"]]

\* Marks told to the dashboards that the end of the file, which has no newline,
\* spoils with the next line.
Spoilt(f, m) == IF TornEnd(f) THEN {m, Last(f).mark} \ {0} ELSE {}

Open(kind) == {a \in asks : ~a.done /\ a.kind = kind}

NoFetch == [stage |-> "none", marks |-> <<>>, late |-> FALSE]

\* add_victim.
AddVictim(a) ==
    /\ up
    /\ made' = made + 1
    /\ file' = Added(file, WholeLine(made'))
    /\ apart' = apart \cup Spoilt(file, made')
    /\ Broadcast(Message("mark", made'))
    /\ Answer(a, made')
    /\ UNCHANGED <<up, asked, loaded, archived, deleted, cuts, link, list>>

\* add_victim, when the disk takes only the beginning of the line, or all but
\* its newline: an error for the operator, and nothing is told to the others.
AddCut(a) ==
    /\ up /\ cuts < MaxCut
    /\ cuts' = cuts + 1
    /\ \E m \in {0, made + 1} :
           /\ made' = IF m = 0 THEN made ELSE m
           /\ file' = Added(file, [mark |-> m, ended |-> FALSE])
           /\ apart' = apart \cup Spoilt(file, m) \cup ({m} \ {0})
    /\ asks' = asks \ {a}
    /\ UNCHANGED <<up, asked, wire, loaded, archived, deleted, pageVars>>

\* delete_victim of a mark the file has.
DeleteVictim(a) ==
    /\ up /\ a.mark \in OnFile
    /\ file' = Without(file, a.mark)
    /\ deleted' = deleted \cup {a.mark}
    /\ Broadcast(Message("delete", a.mark))
    /\ Answer(a, a.mark)
    /\ UNCHANGED <<up, asked, loaded, archived, made, apart, cuts, link, list>>

\* And of one it has not: 404.
NoSuchMark(a) ==
    /\ up /\ a.mark \notin OnFile
    /\ asks' = asks \ {a}
    /\ UNCHANGED <<up, asked, wire, loaded, fileVars, pageVars>>

\* P1 dies, and with it every connection and what is being sent on it.
Dies ==
    /\ up' = FALSE
    /\ link' = [d \in Dash |-> FALSE]
    /\ wire' = [d \in Dash |-> <<>>]
    /\ loaded' = [d \in Dash |-> "no"]
    /\ fetch' = [d \in Dash |->
           IF fetch[d].stage = "sent" THEN NoFetch ELSE fetch[d]]

\* delete_victim, when the rewrite of the file is cut short: P1 is killed in the
\* middle of it, or the disk is full.
DeleteCut(a) ==
    /\ up /\ a.mark \in OnFile /\ cuts < MaxCut
    /\ cuts' = cuts + 1
    /\ file' \in Remains(Without(file, a.mark))
    /\ apart' = apart \cup (OnFile \ ToSet(Readable(file')))
    /\ \/ /\ Dies /\ asks' = {b \in asks : b.done}
       \/ /\ asks' = asks \ {a} /\ UNCHANGED <<up, wire, link, fetch, loaded>>
    /\ UNCHANGED <<asked, archived, made, deleted, list>>

\* Mutant of NewMission: the old file is removed.
NewMissionRemoves(a) ==
    /\ up
    /\ file' = <<>> /\ UNCHANGED archived
    /\ Broadcast(Message("reset", 0))
    /\ Answer(a, 0)
    /\ UNCHANGED <<up, asked, loaded, made, deleted, apart, cuts, link, list>>

\* start_new_mission: VictimLog.rotate renames the file, unless it is empty.
NewMission(a) ==
    /\ up
    /\ file' = <<>>
    /\ archived' = archived \cup OnFile
    /\ Broadcast(Message("reset", 0))
    /\ Answer(a, 0)
    /\ UNCHANGED <<up, asked, loaded, made, deleted, apart, cuts, link, list>>

\* GET /api/victims.
Victims(d) ==
    /\ up /\ fetch[d].stage = "sent"
    /\ fetch' = [fetch EXCEPT ![d] =
           [stage |-> "answered", marks |-> Readable(file), late |-> FALSE]]
    /\ UNCHANGED <<up, asked, wire, asks, loaded, fileVars, link, list>>

Crash ==
    /\ up /\ Dies
    /\ asks' = {a \in asks : a.done}
    /\ UNCHANGED <<asked, fileVars, list>>

Start ==
    /\ ~up /\ up' = TRUE
    /\ UNCHANGED <<wire, asks, asked, loaded, fileVars, pageVars>>

-----------------------------------------------------------------------------
(***************************************************************************)
(* A dashboard.                                                            *)
(***************************************************************************)
\* connect, and onopen: P1 has the client, and the list is asked for.  An answer
\* that was still to come for the socket before is ignored from now on.
Connect(d) ==
    /\ up /\ ~link[d]
    /\ link' = [link EXCEPT ![d] = TRUE]
    /\ wire' = [wire EXCEPT ![d] = <<>>]
    /\ fetch' = [fetch EXCEPT ![d] = [NoFetch EXCEPT !.stage = "sent"]]
    /\ loaded' = [loaded EXCEPT ![d] = "no"]
    /\ UNCHANGED <<up, asked, asks, fileVars, list>>

\* onclose; P1 unregisters the client.
Disconnect(d) ==
    /\ link[d]
    /\ link' = [link EXCEPT ![d] = FALSE]
    /\ wire' = [wire EXCEPT ![d] = <<>>]
    /\ loaded' = [loaded EXCEPT ![d] = "no"]
    /\ UNCHANGED <<up, asked, asks, fileVars, list, fetch>>

\* The answer to fetchVictims replaces the list, or there is an alert.
SetMarks(d) ==
    /\ fetch[d].stage = "answered"
    /\ fetch' = [fetch EXCEPT ![d] = NoFetch]
    /\ list' = [list EXCEPT ![d] = fetch[d].marks]
    /\ loaded' = [loaded EXCEPT ![d] =
           IF ~link[d] THEN "no" ELSE IF fetch[d].late THEN "overtaken" ELSE "sound"]
    /\ UNCHANGED <<up, asked, wire, asks, fileVars, link>>

LoadFails(d) ==
    /\ fetch[d].stage # "none"
    /\ fetch' = [fetch EXCEPT ![d] = NoFetch]
    /\ UNCHANGED <<up, asked, wire, asks, loaded, fileVars, link, list>>

\* Mutant of WithMark: a mark is not looked for.
WithMarkAgain(l, m) == Append(l, m)

\* addVictimMark, removeVictimMark.
WithMark(l, m) == IF m \in ToSet(l) THEN l ELSE Append(l, m)
WithoutMark(l, m) == At(l, {i \in DOMAIN l : l[i] # m})

\* What onmessage and the handlers of the answers make of a list.
Changed(l, kind, m) ==
    CASE kind = "mark" -> WithMark(l, m)
      [] kind = "delete" -> WithoutMark(l, m)
      [] kind = "reset" -> <<>>

\* onmessage.
Receive(d) ==
    /\ wire[d] # <<>>
    /\ wire' = [wire EXCEPT ![d] = Tail(@)]
    /\ list' = [list EXCEPT ![d] = Changed(@, Head(wire[d]).kind, Head(wire[d]).mark)]
    /\ UNCHANGED <<up, asked, asks, loaded, fileVars, link, fetch>>

\* save and remove of MarkVictimButton; remove and newMission of VictimList.
\* While one is under way its button is disabled; with P1 down it fails at once.
Request(d) ==
    /\ up /\ asked < MaxAsk /\ asked' = asked + 1
    /\ \E kind \in {"mark", "delete", "reset"}, m \in {0} \cup ToSet(list[d]) :
           /\ kind = "delete" <=> m # 0
           /\ \A a \in asks : ~(a.dash = d /\ a.kind = kind
                                /\ (kind = "delete" => a.mark = m))
           /\ asks' = asks \cup {Ask(d, kind, m)}
    /\ UNCHANGED <<up, wire, loaded, fileVars, pageVars>>

\* Its answer: onSaved, after the snapshot is stored, onDeleted, onNewMission.
Answered(a) ==
    /\ a.done
    /\ asks' = asks \ {a}
    /\ list' = [list EXCEPT ![a.dash] = Changed(@, a.kind, a.mark)]
    /\ loaded' = [loaded EXCEPT ![a.dash] =
           IF @ = "sound" /\ a.late THEN "overtaken" ELSE @]
    /\ UNCHANGED <<up, asked, wire, fileVars, link, fetch>>

\* It fails: refused for its key, or the connection breaks, before P1 has done
\* it or after.
AskFails(a) ==
    /\ asks' = asks \ {a}
    /\ UNCHANGED <<up, asked, wire, loaded, fileVars, pageVars>>

-----------------------------------------------------------------------------
Init ==
    /\ up = FALSE /\ file = <<>> /\ archived = {}
    /\ wire = [d \in Dash |-> <<>>]
    /\ link = [d \in Dash |-> FALSE]
    /\ list = [d \in Dash |-> <<>>]
    /\ fetch = [d \in Dash |-> NoFetch]
    /\ asks = {} /\ asked = 0 /\ made = 0 /\ cuts = 0
    /\ deleted = {} /\ apart = {}
    /\ loaded = [d \in Dash |-> "no"]

Server ==
    \/ Crash
    \/ Start
    \/ \E a \in Open("mark") : AddVictim(a)
    \/ \E a \in Open("mark") : AddCut(a)
    \/ \E a \in Open("delete") : DeleteVictim(a)
    \/ \E a \in Open("delete") : NoSuchMark(a)
    \/ \E a \in Open("delete") : DeleteCut(a)
    \/ \E a \in Open("reset") : NewMission(a)
    \/ \E d \in Dash : Victims(d)

Page ==
    \/ \E d \in Dash :
           \/ Connect(d) \/ Disconnect(d)
           \/ SetMarks(d) \/ LoadFails(d)
           \/ Receive(d) \/ Request(d)
    \/ \E a \in asks : Answered(a)
    \/ \E a \in asks : AskFails(a)

Next == Server \/ Page

Spec == Init /\ [][Next]_vars

-----------------------------------------------------------------------------
(***************************************************************************)
(* Properties.                                                             *)
(***************************************************************************)

\* The types of the fields; only the last line of the file can lack its newline.
TypeOK ==
    /\ up \in BOOLEAN
    /\ file \in Seq(Line) /\ \A i \in 1 .. Len(file) - 1 : file[i].ended
    /\ archived \subseteq Marks /\ deleted \subseteq Marks /\ apart \subseteq Marks
    /\ made \in 0 .. MaxAsk /\ asked \in 0 .. MaxAsk /\ cuts \in 0 .. MaxCut
    /\ link \in [Dash -> BOOLEAN] /\ loaded \in [Dash -> {"no", "overtaken", "sound"}]
    /\ \A d \in Dash :
           /\ list[d] \in Seq(Marks) /\ fetch[d].marks \in Seq(Marks)
           /\ fetch[d].stage \in {"none", "sent", "answered"}
           /\ \A i \in DOMAIN wire[d] :
                  wire[d][i] \in [kind : {"mark", "delete", "reset"}, mark : 0 .. MaxAsk]
    /\ \A a \in asks : a.dash \in Dash /\ a.mark \in 0 .. MaxAsk

\* A mark that was made is on the file or in an archive, unless an operator
\* deleted it or a write was cut short on it, through crashes of P1 at any other
\* point; and a deleted one never comes back.
MarksKept ==
    /\ 1 .. made \ (deleted \cup apart) \subseteq OnFile \cup archived
    /\ deleted \cap (OnFile \cup archived) = {}

\* A connected dashboard with nothing under way.
Quiet(d) ==
    /\ link[d]
    /\ wire[d] = <<>> /\ fetch[d].stage = "none"
    /\ \A a \in asks : a.dash = d => ~a.done

\* Such a dashboard shows every mark of the file once and no other, if it has
\* loaded the list since it connected and no answer was overtaken by another
\* operator's change; marks a cut write has touched apart.
ListRight ==
    \A d \in Dash : Quiet(d) /\ loaded[d] = "sound" =>
        /\ ToSet(list[d]) \ apart = OnFile \ apart
        /\ Cardinality(ToSet(list[d])) = Len(list[d])

\* useControlSocket.ts: victimMarks, "Every victim mark on the robot, oldest
\* first", of a dashboard that has loaded them, while no write was cut short.
EveryMark ==
    \A d \in Dash : Quiet(d) /\ loaded[d] # "no" /\ cuts = 0 => ToSet(list[d]) = OnFile

=============================================================================
