------------------------------ MODULE MCPxBoot ------------------------------
(***************************************************************************)
(* The programs that are there before and after all others, one at a time: *)
(* `program` says whose behaviour this is, and the other stays as it       *)
(* begins.                                                                 *)
(*   "PxInit": the daemon, which may fork once, and a process that may ask *)
(* to be left alone; home is on the root, data is on a directory of home.  *)
(*   "PxLogger": a service that is started again when it has reported its  *)
(* end, and a daemon.  The texts have short forms and a bad one, and end   *)
(* with and without the end of a line; a read takes in parts of two.       *)
(***************************************************************************)
EXTENDS PxInit, TLC

MCMounts == <<"root", "sys", "home", "data">>
MCOnTop  == {<<"home", "root">>, <<"data", "home">>}

VARIABLES
    program,
    jobs, job, requests, path, made, owner, blocked, reading,  \* PxLogger
    writing, pipe, sbuf, log, wpc, fd, sent, consumed, mishaps

L == INSTANCE PxLogger WITH
    place <- job, faults <- mishaps, MaxFaults <- 1,
    Writer <- {"svc", "svcAgain", "daemon"}, Name <- {"service-svc", "pxdaemon"},
    NameOf <- "svc" :> "service-svc" @@ "svcAgain" :> "service-svc" @@ "daemon" :> "pxdaemon",
    Before <- "svc" :> "svc" @@ "svcAgain" :> "svc" @@ "daemon" :> "daemon",
    Strict <- {"daemon"}, BufSize <- 2, PipeSize <- 2,
    Text <- "svc" :> <<"a", "newline", "TS">> @@ "svcAgain" :> <<"TS", "TE", "newline">>
            @@ "daemon" :> <<"newline", "b">>

ASSUME KernelAssumption /\ ShutdownAssumption /\ InitAssumption
ASSUME L!LoggerAssumption

loggerVars == <<jobs, job, requests, path, made, owner, blocked, reading, writing, pipe, sbuf, log,
                wpc, fd, sent, consumed, mishaps>>
allVars == <<program, vars, loggerVars>>

BootInit == program \in {"PxInit", "PxLogger"} /\ Init /\ L!Init

InitStep(A)   == program = "PxInit" /\ A /\ UNCHANGED <<program, loggerVars>>
LoggerStep(A) == program = "PxLogger" /\ A /\ UNCHANGED <<program, vars>>

BootNext == InitStep(Next) \/ LoggerStep(L!Next)

BootFairness ==
    /\ WF_allVars(LoggerStep(L!Logger))
    /\ \A w \in {"svc", "svcAgain", "daemon"} : WF_allVars(LoggerStep(L!WriterStep(w)))

BootSpec == BootInit /\ [][BootNext]_allVars /\ BootFairness
-----------------------------------------------------------------------------
\* PxLogger: lines are cut where they end, wherever reads are.
WholeLines == L!WholeLines

\* PxLogger: what is written to a log gets there.
EverythingIsLogged == L!EverythingIsLogged
=============================================================================
