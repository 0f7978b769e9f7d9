------------------------------ MODULE PxReader ------------------------------
(***************************************************************************)
(* The way of a message through the log: PxLog frames it, PxLogger turns   *)
(* it into a line of the log file, and `pxread` takes the lines apart and  *)
(* shows those of one unit.  PxLogger models who reads which pipe and      *)
(* when; here is what becomes of the text.                                 *)
(*                                                                         *)
(* A character is a string; the escape sequences around a terse message,   *)
(* the names of the fields and the times are characters too.  The clock is *)
(* one character as well: to_string and atoi undo each other on it, which  *)
(* they do for the times an int can hold.                                  *)
(***************************************************************************)
EXTENDS PxFunction, FiniteSets, TLC
LOCAL INSTANCE SequencesExt
CONSTANTS
    Messages,  \* what is logged: records [cls, terse, message]
    MaxLogged, \* how many of them
    Units,     \* the values of --from; <<>> when it is not given
    Clock      \* times, as text; the milliseconds are 0

VARIABLES
    logged,  \* the messages logged so far: what was meant
    file,    \* the text of the log file
    from,    \* the unit asked for
    lines,   \* the lines pxread has still to look at
    shown,   \* the entries it has shown
    reading

vars == <<logged, file, from, lines, shown, reading>>

Init ==
    /\ logged = <<>> /\ file = <<>>
    /\ from \in Units
    /\ lines = <<>> /\ shown = <<>> /\ reading = FALSE

TS == <<"\\x1B]TS">>
TE == <<"\\x1B]TE">>

\* PxLog::printlnlog, without the newline that ends it.
Framed(terse, str) == (IF terse = <<>> THEN <<>> ELSE TS \o terse \o TE) \o str

\* LogHnd::wrt takes the frame off again.
Unframed(input) ==
    LET vec == Split(SubSeq(input, 2, Len(input)), TE, 1)
    IN CASE ~StartsWith(input, TS) -> [terse |-> <<"console">>, message |-> input]
         [] StartsWith(input, TS) /\ Len(vec) = 2 ->
                [terse |-> vec[1], message |-> vec[2]]
         [] OTHER -> [terse |-> <<"bad-terse-string">>, message |-> Tail(input)]

\* LogEntry::serialize.
Serialize(e) ==
    <<"time", "=", e.time[1], ",", "ms", "=", e.ms[1], ",", "class", "=">> \o e.cls
    \o <<",", "terse", "=">> \o e.terse \o <<",", ",", ",">> \o e.message

\* Fault: commas in a message cut it.
HalvesCut(line) == Split(line, <<",", ",", ",">>, -1)

\* The fields, and the message after the first ",,,".
Halves(line) == Split(line, <<",", ",", ",">>, 1)

\* The fields by name, the last of a name counting; a part without "=" is passed
\* over, and a field that is not there is empty.
ParseEntry(line) ==
    LET spl == Halves(line)
        parts == Split(spl[1], <<",">>, -1)
        props == SelectSeq([i \in DOMAIN parts |-> Split(parts[i], <<"=">>, 1)],
                           LAMBDA prop : Len(prop) = 2)
        Prop(name) == LET last == SelectLastInSeq(props, LAMBDA prop : prop[1] = <<name>>)
                      IN IF last = 0 THEN <<>> ELSE props[last][2]
    IN [time |-> Prop("time"), ms |-> Prop("ms"), cls |-> Prop("class"),
        terse |-> Prop("terse"), message |-> IF Len(spl) < 2 THEN <<>> ELSE spl[2]]

\* A message is logged: CreateEntry stamps it with the time.
Log(m, time) ==
    LET stamped == [cls |-> m.cls, time |-> <<time>>, ms |-> <<"0">>]
        terse == IF m.terse = <<>> THEN <<"console">> ELSE m.terse
    IN /\ ~reading /\ Len(logged) < MaxLogged
       /\ logged' = Append(logged, stamped @@ [terse |-> terse, message |-> m.message])
       /\ file' = file \o Serialize(stamped @@ Unframed(Framed(m.terse, m.message)))
                       \o <<"\n">>
       /\ UNCHANGED <<from, lines, shown, reading>>

\* pxread read: the file as it is now, line by line.
Open ==
    /\ ~reading
    /\ reading' = TRUE
    /\ lines' = Split(file, <<"\n">>, -1)
    /\ UNCHANGED <<logged, file, from, shown>>

Wanted(line) == from = <<>> \/ line.cls = from

\* One turn of the loop of cmdRead: an empty line is passed over.
Show ==
    /\ reading /\ lines # <<>>
    /\ lines' = Tail(lines)
    /\ LET line == ParseEntry(Head(lines))
       IN shown' = IF Head(lines) # <<>> /\ Wanted(line) THEN Append(shown, line) ELSE shown
    /\ UNCHANGED <<logged, file, from, reading>>

Next ==
    \/ \E m \in Messages, time \in Clock : Log(m, time)
    \/ Open
    \/ Show
Spec == Init /\ [][Next]_vars

\* pxread shows what was logged by the unit it is asked about, all of it, in
\* order and unchanged, whatever commas, equal signs and escape sequences the
\* messages hold.
ReadsBack ==
    reading /\ lines = <<>> =>
        shown = SelectSeq(logged, LAMBDA e : from = <<>> \/ e.cls = from)
=============================================================================
