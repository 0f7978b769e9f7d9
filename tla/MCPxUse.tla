------------------------------ MODULE MCPxUse -------------------------------
(***************************************************************************)
(* What the machine is used with, one thing at a time: `program` says      *)
(* whose behaviour this is, and the variables of the others stay as they   *)
(* are when nothing has been done.                                         *)
(*   "filesystems": the instance of MCPxFilesystem.                        *)
(*   "sessions": two of a user, opened and closed at any time.  "sessions  *)
(* together": the same, which stay.  "sessions with a fault": one call     *)
(* fails or one daemon is killed or sent SIGTERM, and none opens while the *)
(* other does.                                                             *)
(*   "enable": pxctl enable and disable, three times, of services of one    *)
(* and of two targets, which the package may have disabled.                *)
(*   "jobs": a JobServer with a job of each kind, and one that is added.   *)
(*   "config", "writable", "arg", "reader": the parsers.                   *)
(***************************************************************************)
EXTENDS MCPxFilesystem, PxTimers, PxSession, PxEnable, TLC

VARIABLES
    program,
    file, def_arg, lineno, mode, multiline_path, vec_properties,         \* PxConfig
    maxargs, result, start,
    saved, doc, values, edits, edit,                                     \* PxWritableConfig
    st,                                                                  \* PxArg
    logged, logfile, from, lines, shown, reading                         \* PxReader

configVars   == <<file, def_arg, lineno, mode, multiline_path, vec_properties, maxargs, result, start>>
writableVars == <<saved, doc, values, edits, edit>>
readerVars   == <<logged, logfile, from, lines, shown, reading>>

-----------------------------------------------------------------------------
(* The instances.                                                          *)

Faultless == INSTANCE PxSession WITH MaxFaults <- 0
Together  == INSTANCE PxSession WITH MaxFaults <- 0, Stay <- Session

Disablings == {<<"usr", "service-disable", t, s>> : t \in {"default", "rescue"}, s \in {"sshd", "getty"}}
Packages == SUBSET Disablings
MCTargetOf == "sshd" :> <<"default", "rescue">> @@ "getty" :> <<"default">>

MCWriteLocs == <<"var", "usr">>

MCFirst == <<"server", "timer", "rstimer", "interval", "console">>
MCKind == "server" :> "ServerJob" @@ "timer" :> "Timer" @@ "rstimer" :> "RsTimer"
          @@ "interval" :> "RsInterval" @@ "console" :> "OscJob" @@ "late" :> "Timer"
MCdur == [id \in DOMAIN MCKind |->
            CASE id \in {"timer", "interval"} -> 1 [] id = "console" -> 2 [] OTHER -> 0]

\* Lines of service files: properties, headers and ends of blocks, and text with
\* the characters that mean something in a value.
ConfigLines == {
    <<>>, <<"M", "=", "2">>, <<"R", "=", " ", "#">>, <<"x", "=", "$", "1", ";", "\\", ";">>,
    <<"[", "[", "x", "]", "]">>, <<"[", "[", " ", "/", " ", "x", "]", "]", "#">>,
    <<"[", "[", "E", "n", "d", "]", "]">>, <<"$", "1", ";", "\\">>, <<"\\", "n", "\\", ";">>}
ConfigFiles == BoundedSeq(ConfigLines, 4)

C == INSTANCE PxConfig WITH Files <- ConfigFiles, Args <- {<<>>, <<"a", ":", "b", ":", "c">>}

\* Every short text of more than one line, and one with everything in it.
Texts ==
    {text \in BoundedSeq({"a", "=", ";", "#", "\n"}, 5) \union BoundedSeq({"a", "=", ";", "\n", " "}, 4) :
        "\n" \in ToSet(text)}
    \union {<<"a", " ", "=", " ", "b", ";", "b", " ", "#", "b", "\n", "#", "b", "\n",
              "b", "=", "b", "\n", "a", "=", "b">>}

Keys == {<<"a">>, <<"b">>}

W == INSTANCE PxWritableConfig WITH
    Files <- Texts, Keys <- Keys, NewValues <- {<<"x">>}, MaxEdits <- 2

Flag(c) == [long |-> <<c>>, short |-> c, value |-> FALSE]
Words == {<<"-">>, <<"-", "-">>, <<"a">>, <<>>, <<"-", "-", "a">>, <<"-", "-", "x">>}
         \union {<<"-">> \o w : w \in BoundedSeq({"a", "b", "x", "c"}, 2)}
MCCommandLines == BoundedSeq(Words, 3)

A == INSTANCE PxArg WITH
    CommandLines <- MCCommandLines, Positionals <- 1, Mandatory <- 1, Required <- {Flag("b")},
    Options <- {Flag("a"), Flag("b"), [long |-> <<"x">>, short |-> "x", value |-> TRUE]}

Messages ==
    [cls : {<<"daemon">>, <<"class", "=", "s">>}, terse : {<<>>, <<"start", " ", "=">>},
     message : BoundedSeq({",", "=", "class", "\\x1B]TE"}, 2) \union {<<",", ",", ",">>}]

R == INSTANCE PxReader WITH
    file <- logfile, MaxLogged <- 2, Messages <- Messages, Units <- {<<>>, <<"daemon">>}, Clock <- {"1"}

ASSUME SessionAssumption /\ Faultless!SessionAssumption /\ Together!SessionAssumption /\ EnableAssumption /\ TimersAssumption
ASSUME W!EditorAssumption /\ A!PositionalAssumption

-----------------------------------------------------------------------------
(* One at a time.                                                          *)

NoSession ==
    /\ spc = <<>> /\ home = <<>> /\ path = <<>> /\ chowned = FALSE /\ spawns = {} /\ dpc = <<>>
    /\ made = <<>> /\ handle = <<>> /\ accepted = <<>> /\ walk = <<>> /\ sent = <<>> /\ to_purge = <<>>
    /\ refs = <<>> /\ target = <<>> /\ faults = 0 /\ misled = {} /\ robbed = FALSE
NoEnable == /\ files = {} /\ dirs = {} /\ writable = {} /\ cmd = "" /\ svc = "" /\ epc = "" /\ line = 0
            /\ loc = 0 /\ errno = "" /\ verdict = <<>> /\ commands = 0
NoJobs == /\ jobs = <<>> /\ place = 0 /\ now = 0 /\ lastUpdate = <<>> /\ since = <<>> /\ fired = <<>>
          /\ todo = {} /\ missed = [id \in Ids |-> 0] /\ erased = 0
NoFilesystem == Init /\ online = {}
NoConfig == /\ file = <<>> /\ def_arg = <<>> /\ lineno = 0 /\ mode = "" /\ multiline_path = <<>>
            /\ vec_properties = <<>> /\ maxargs = 0 /\ result = "" /\ start = 0
NoText == saved = <<>> /\ doc = <<>> /\ values = [key \in Keys |-> <<>>] /\ edits = 0 /\ edit = <<>>
NoArg == st = [status |-> "parsed"]
NoLog == logged = <<>> /\ logfile = <<>> /\ from = <<>> /\ lines = <<>> /\ shown = <<>> /\ reading = FALSE

NoParser == NoConfig /\ NoText /\ NoArg /\ NoLog

Sessions == {"sessions", "sessions together", "sessions with a fault"}

UseInit ==
    \/ program = "filesystems" /\ Init /\ NoSession /\ NoEnable /\ NoJobs /\ NoParser
    \/ /\ program \in Sessions /\ SessionInit
       /\ NoFilesystem /\ NoEnable /\ NoJobs /\ NoParser
    \/ program = "enable" /\ EnableInit /\ NoFilesystem /\ NoSession /\ NoJobs /\ NoParser
    \/ program = "jobs" /\ TimersInit /\ NoFilesystem /\ NoSession /\ NoEnable /\ NoParser
    \/ /\ NoFilesystem /\ NoSession /\ NoEnable /\ NoJobs
       /\ \/ program = "config" /\ C!Init /\ NoText /\ NoArg /\ NoLog
          \/ program = "writable" /\ W!Init /\ NoConfig /\ NoArg /\ NoLog
          \/ program = "arg" /\ A!Init /\ NoConfig /\ NoText /\ NoLog
          \/ program = "reader" /\ R!Init /\ NoConfig /\ NoText /\ NoArg

NotParsing == UNCHANGED <<configVars, writableVars, st, readerVars>>
OfFilesystem ==
    /\ program = "filesystems" /\ Next /\ UNCHANGED <<program, sessionVars, enableVars, allTimerVars>>
    /\ NotParsing
OfUser(which, Action) ==
    program = which /\ Action /\ UNCHANGED <<program, vars, enableVars, allTimerVars>> /\ NotParsing
OfEnable == /\ program = "enable" /\ EnableNext /\ NotParsing
            /\ UNCHANGED <<program, vars, sessionVars, allTimerVars>>
OfJobs   == /\ program = "jobs" /\ TimersNext /\ NotParsing
            /\ UNCHANGED <<program, vars, sessionVars, enableVars>>
OfParser ==
    /\ \/ program = "config"   /\ C!Next /\ UNCHANGED <<writableVars, st, readerVars>>
       \/ program = "writable" /\ W!Next /\ UNCHANGED <<configVars, st, readerVars>>
       \/ program = "arg"      /\ A!Next /\ UNCHANGED <<configVars, writableVars, readerVars>>
       \/ program = "reader"   /\ R!Next /\ UNCHANGED <<configVars, writableVars, st>>
    /\ UNCHANGED <<program, vars, sessionVars, enableVars, allTimerVars>>

OneByOne == \A s, t \in Session : s # t /\ Opening(s) => ~Opening(t)

UseNext ==
    \/ OfFilesystem \/ OfEnable \/ OfJobs \/ OfParser
    \/ OfUser("sessions", Faultless!SessionNext)
    \/ OfUser("sessions together", Together!SessionNext)
    \/ OfUser("sessions with a fault", SessionNext /\ OneByOne')

\* A process that has begun to open or close a session goes on, so do a daemon
\* that starts or ends and the loop of one, and what the target logout waits for
\* comes.
Goes(Act) == program \in Sessions /\ Act

UseFairness ==
    \A s \in Session :
        /\ WF_sessionVars(Goes(SessionStep(s)))
        /\ WF_sessionVars(Goes(DaemonStep(s)))
        /\ WF_sessionVars(Goes(Tick(s)))

UseSpec ==
    UseInit /\ UseFairness
    /\ [][UseNext]_<<program, vars, sessionVars, enableVars, allTimerVars, configVars, writableVars, st,
                     readerVars>>

-----------------------------------------------------------------------------
\* PxSession: with its last session a daemon goes.
LastOneOut ==
    (program \in Sessions /\ \E d \in Session : Deserted(d))
        ~> (program \in Sessions /\ \A d \in Session : Deserted(d) => dpc[d] = "dead")

\* PxSession: whoever opens a session gets an answer, unless a daemon that exits
\* removes the socket of another.
OpenReturns ==
    (program = "sessions together" /\ \E s \in Session : Opening(s))
        ~> (program = "sessions together" /\ (robbed \/ \A s \in Session : ~Opening(s)))

\* PxConfig: blocks, lists and arguments come out as they were written.
ConfigValues ==
    C!BlockIsVerbatim /\ [](program = "config" => C!ListsSurvive /\ C!ArgumentsRejoin)

\* PxWritableConfig: the tree implements the table of PxConfigTable.
TableSpec == W!TableSpec

\* PxArg: a cluster of options is shorthand.
ClusterIsShorthand == A!ClusterIsShorthand

\* PxReader: what was logged is read back.
ReadsBack == program = "reader" => R!ReadsBack
=============================================================================
