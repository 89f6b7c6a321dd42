------------------------------ MODULE Records -------------------------------
(***************************************************************************)
(* The telemetry log and the tools that read it back: the GPS state P1     *)
(* keeps (p1_control/gps_reader.py), the CSV rows it appends               *)
(* (telemetry_log.py), logrotate's copytruncate, upgrades that changed the *)
(* columns while a file went on, power cuts that tear its last line, and   *)
(* the two readers that take fixes out of it (tools/eval/gpsdrift.py and   *)
(* section5_stats.py).                                                     *)
(*                                                                         *)
(* A line is a sequence of cells, a cell what a reader can tell of its     *)
(* text: <<kind, value>>.                                                  *)
(***************************************************************************)
EXTENDS Integers, Sequences, Functions

CONSTANTS
    Place,      \* positions, as natural numbers
    Grid,       \* positions that _render's four decimals do not tell apart
    MaxLines,   \* bound on the lines of a file
    MaxCut      \* bound on the power cuts of a file's life

RecordsAssumption ==
    /\ Place \subseteq Nat /\ Grid \in Nat \ {0} /\ MaxLines \in Nat /\ MaxCut \in Nat

VARIABLES
    gps,        \* GPSReader._state: [fix, at], at = NoPlace before a first fix
    layout,     \* which of Layouts the P1 that runs writes
    rowDue,     \* a row's period has passed and the header is seen to
    file,       \* telemetry.log: its lines
    torn,       \* its last line has no newline
    cuts,       \* power cuts since the file was started
    truth       \* history: for each line the fixes that went into it

vars == <<gps, layout, rowDue, file, torn, cuts, truth>>

NoPlace == -1

\* LEGACY_COLUMNS in the order the program went through them, then
\* CURRENT_COLUMNS, which is CSV_COLUMNS.
Begin == <<"iso_ts", "seq", "temperature_c", "humidity_pct", "gas_ppm">>
End == <<"pan_angle", "tilt_angle", "fw_state", "uptime_ms", "lat", "lon", "gps_fix",
         "gps_sats", "serial_ok", "ws_clients", "turn_status", "alert_flags">>
Layouts == <<
    Begin \o <<"motion", "range_cm", "ir_left", "ir_right">> \o End,
    Begin \o <<"motion", "range_cm">> \o End,
    Begin \o <<"range_cm">> \o End,
    Begin \o <<"range_cm">> \o End \o <<"signal_dbm">> >>

-----------------------------------------------------------------------------
\* TelemetryLog

Header == [i \in DOMAIN Layouts[layout] |-> <<Layouts[layout][i], 0>>]

\* _render keeps four decimals of a position, some eleven metres.
Coarse(p) == p - (p % Grid)

\* Columns that often hold 1, as gps_fix does.
Ones == {"gas_ppm", "motion", "ir_left", "ir_right", "serial_ok", "ws_clients"}

\* _render, for a column of a row.  There is no fix from one satellite.
Cell(c) ==
    IF c \in {"lat", "lon"}
    THEN IF gps.at = NoPlace THEN <<"empty", 0>> ELSE <<"number", Coarse(gps.at)>>
    ELSE IF c = "gps_fix" THEN <<"flag", gps.fix>>
    ELSE IF c \in Ones \/ (c = "gps_sats" /\ gps.fix = 0) THEN <<"flag", 1>>
    ELSE IF c = "iso_ts" THEN <<"time", 0>>
    ELSE IF c \in {"fw_state", "turn_status"} THEN <<"word", 0>>
    ELSE <<"number", NoPlace>>

Row == [i \in DOMAIN Layouts[layout] |-> Cell(Layouts[layout][i])]

\* Nothing more of a full file matters but what reads it and rotates it.
Room == torn \/ Len(file) < MaxLines

Told == IF gps.fix = 1 THEN {gps.at} ELSE {}

\* The file is open for appending: what is written follows its last character.
Write(cells) ==
    /\ IF torn
       THEN /\ file' = [file EXCEPT ![Len(file)] =
                            SubSeq(@, 1, Len(@) - 1) \o <<<<"glued", 0>>>> \o Tail(cells)]
            /\ truth' = [truth EXCEPT ![Len(file)] = @ \cup Told]
       ELSE /\ Room
            /\ file' = Append(file, cells)
            /\ truth' = Append(truth, Told)
    /\ torn' = FALSE

\* maybe_write up to _write_header_if_empty, which writes it when it is.
RowComes ==
    /\ ~rowDue /\ rowDue' = TRUE /\ Room
    /\ IF file = <<>> THEN Write(Header) ELSE UNCHANGED <<file, torn, truth>>
    /\ UNCHANGED <<gps, layout, cuts>>

\* The rest of write, in one call.
WriteRow ==
    /\ rowDue /\ rowDue' = FALSE
    /\ Write(Row)
    /\ UNCHANGED <<gps, layout, cuts>>

\* copytruncate, which asks nobody.
Rotate ==
    /\ file # <<>>
    /\ file' = <<>> /\ truth' = <<>> /\ torn' = FALSE /\ cuts' = 0
    /\ UNCHANGED <<gps, layout, rowDue>>

Booted ==
    /\ gps' = [fix |-> 0, at |-> NoPlace]
    /\ rowDue' = FALSE
    /\ UNCHANGED truth

\* What P1 wrote last is only in part on the disk: `kept` cells, the last of
\* them in part or whole.
PowerCut ==
    /\ file # <<>> /\ ~torn /\ cuts < MaxCut
    /\ cuts' = cuts + 1
    /\ \E kept \in 1 .. Len(file[Len(file)]) :
        file' = [file EXCEPT ![Len(file)] =
                     SubSeq(@, 1, kept - 1) \o <<IF kept = Len(@) THEN @[kept] ELSE <<"cut", 0>>>>]
    /\ torn' = TRUE
    /\ Booted
    /\ UNCHANGED layout

\* P1 starts again with the next version, which opens the same file.
Upgrade ==
    /\ layout < Len(Layouts) /\ Room
    /\ layout' = layout + 1
    /\ Booted
    /\ UNCHANGED <<file, torn, cuts>>

-----------------------------------------------------------------------------
\* GPSReader

\* parse_nmea: a position, a fix whose position cannot be read (GGA), or none;
\* the position of the last one stays.
Parsed ==
    {[fix |-> 1, at |-> p] : p \in Place} \cup {[gps EXCEPT !.fix = fix] : fix \in {0, 1}}

Publish(state) ==
    /\ Room
    /\ gps' = state
    /\ UNCHANGED <<layout, rowDue, file, torn, cuts, truth>>

\* _run_serial; a receiver that says nothing leaves everything as it is.
Sentence == \E state \in Parsed \ {gps} : Publish(state)

\* The port is gone.
PortFails == gps.fix = 1 /\ Publish([gps EXCEPT !.fix = 0])

Init ==
    /\ gps = [fix |-> 0, at |-> NoPlace]
    /\ layout \in DOMAIN Layouts
    /\ rowDue = FALSE
    /\ file = <<>> /\ torn = FALSE /\ cuts = 0 /\ truth = <<>>

Next ==
    \/ RowComes \/ WriteRow \/ Rotate \/ PowerCut \/ Upgrade
    \/ Sentence \/ PortFails

Spec == Init /\ [][Next]_vars

-----------------------------------------------------------------------------
\* The readers.  The first line is taken for the header whatever it is.

\* A mutant of Columns: by the header's own names, as csv.DictReader does.
ColumnsOfHeader(cells) == [i \in DOMAIN file[1] |-> file[1][i][1]]

\* row_mapper: by the number of cells; the current layout covers the older one
\* of its length, and the header serves for a length no layout has.
Columns(cells) ==
    LET known == {i \in DOMAIN Layouts : Len(Layouts[i]) = Len(cells)}
    IN  IF known # {} THEN Layouts[IF 4 \in known THEN 4 ELSE CHOOSE i \in known : TRUE]
        ELSE IF Len(file[1]) = Len(cells) THEN [i \in DOMAIN file[1] |-> file[1][i][1]]
        ELSE <<>>

\* section5_stats.fixes: by place, with a cell to spare.
PlainColumns(cells) == IF Len(cells) \in {18, 19} THEN Layouts[3] ELSE <<>>

\* dict(zip(columns, cells)).get(c): the last one wins.
At(cols, cells, c) ==
    LET places == {i \in DOMAIN cols \cap DOMAIN cells : cols[i] = c}
    IN  IF places = {} THEN <<"empty", 0>>
        ELSE cells[CHOOSE i \in places : \A j \in places : j <= i]

Numeric == {"number", "flag", "cut"}

\* The fixes a reader that gives line i the columns named[i] takes out of the
\* file, and the lines they come from (load_fixes, fixes).
Taken(named, times) ==
    LET Of(i, c) == At(named[i], file[i], c)
    IN  {<<i, Of(i, "lat"), Of(i, "lon")>> : i \in
            {i \in 2 .. Len(file) :
                /\ Of(i, "gps_fix") = <<"flag", 1>>
                /\ Of(i, "lat")[1] \in Numeric /\ Of(i, "lon")[1] \in Numeric
                /\ Of(i, "iso_ts")[1] \in times}}

DriftFixes == Taken([i \in DOMAIN file |-> Columns(file[i])], {"time"})
Section5Fixes ==
    Taken([i \in DOMAIN file |-> PlainColumns(file[i])], {"time", "glued", "cut"})

-----------------------------------------------------------------------------
\* Each fix that is read out of a line written in one piece is the one that was
\* written, to the grid of the log: through rotations, upgrades in the middle of
\* a file, headers that are gone or torn, and lines cut short (row_mapper,
\* load_fixes, fixes).
FixesRight ==
    \A f \in DriftFixes \cup Section5Fixes :
        \/ <<"glued", 0>> \in Range(file[f[1]])
        \/ f[3] = f[2] /\ \E p \in truth[f[1]] : f[2] = <<"number", Coarse(p)>>
=============================================================================
