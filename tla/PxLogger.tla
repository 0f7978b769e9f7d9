------------------------------ MODULE PxLogger ------------------------------
(***************************************************************************)
(* PxLogger.cpp, and what its clients do with it: raw_start of a service   *)
(* (PxService.hpp) and InitLog of a daemon (PxDaemon.cpp).  A client asks  *)
(* for a log with "mklog"; the logger makes a FIFO at /run/logger/<name>   *)
(* and waits in open() until somebody opens it to write; the launcher that *)
(* was forked meanwhile looks for the path and opens it.  From then on a   *)
(* job of the logger reads the FIFO and writes whole lines into the log.   *)
(*                                                                         *)
(* A FIFO outlives its path: what is open is told apart by a number.       *)
(* A log file is a sequence of entries; bytes are letters.                 *)
(***************************************************************************)
EXTENDS PxJob, FiniteSets

CONSTANTS
    Writer,       \* the launchers and daemons that get a log, each once
    Name,
    NameOf,       \* the log a writer asks for
    Before,       \* the writer whose end it comes after; itself if none
    Strict,       \* the daemons: they open without O_CREAT and end if they cannot
    Text,         \* what a writer writes
    BufSize,      \* how much the logger reads at once (PXL_BUF_SIZE)
    PipeSize,     \* how much a FIFO holds
    MaxFaults     \* a bound on what goes wrong: fork() of raw_start or mkfifo()
                  \* fails, or the logger does not get to a request within the
                  \* 10 ms a writer sleeps before it first looks at the path

Letter == {"a", "b", "newline", "TS", "TE"}
Server == 0       \* the number of the ServerJob; the others bear their FIFO's
NoFifo == 0
Fifos  == 1..Cardinality(Writer)
File   == Cardinality(Writer) + 1    \* a regular file, made by O_CREAT

\* What the constants are.
LoggerAssumption ==
    /\ IsFiniteSet(Writer) /\ Strict \subseteq Writer
    /\ NameOf \in [Writer -> Name] /\ Before \in [Writer -> Writer]
    /\ Text \in [Writer -> Seq(Letter)]
    /\ BufSize \in Nat \ {0} /\ PipeSize \in Nat \ {0} /\ MaxFaults \in Nat

VARIABLES
    requests,     \* mklog commands on their way, by writer
    path,         \* what is at /run/logger/<name>: a FIFO, File or NoFifo
    made,         \* how many FIFOs have been made
    owner,        \* history: whose request a FIFO was made for
    blocked,      \* the FIFO the logger waits in open() for
    reading,      \* the FIFOs the logger has open
    writing,      \* who has a FIFO open to write
    pipe,         \* what is in a FIFO
    sbuf,         \* of the job of a FIFO: the beginning of a line
    log,          \* the log file: entries with the FIFO they come from
    wpc, fd, sent, \* of a writer: where it is, what it has open, how much it has written
    consumed,     \* history: what the logger has read from a FIFO
    faults

fileVars   == <<path, made, owner>>
fifoVars   == <<blocked, reading, writing, pipe>>
loggerVars == <<sbuf, log, consumed>>
writerVars == <<wpc, fd, sent>>
vars == <<jobVars, requests, fileVars, fifoVars, loggerVars, writerVars, faults>>

Init ==
    /\ JobInit(<<Server>>)
    /\ requests = <<>>
    /\ path = [n \in Name |-> NoFifo] /\ made = 0 /\ owner = [k \in Fifos |-> "nobody"]
    /\ blocked = NoFifo /\ reading = {}
    /\ writing = [k \in Fifos |-> {}] /\ pipe = [k \in Fifos |-> <<>>]
    /\ sbuf = [k \in Fifos |-> <<>>] /\ log = <<>> /\ consumed = [k \in Fifos |-> <<>>]
    /\ wpc = [w \in Writer |-> "idle"] /\ fd = [w \in Writer |-> NoFifo]
    /\ sent = [w \in Writer |-> 0]
    /\ faults = 0

Fault == faults < MaxFaults /\ faults' = faults + 1

-----------------------------------------------------------------------------
(* Entries and lines                                                       *)

(* wrt(): a line that begins with TS and has a TE has a short form, in     *)
(* front of the first TE; one without TE is bad                            *)
Entry(line) ==
    LET rest == Tail(line)
        n == SelectInSeq(rest, LAMBDA c : c = "TE")
    IN  IF line = <<>> \/ Head(line) # "TS" THEN [terse |-> <<"console">>, text |-> line]
        ELSE IF n = 0 THEN [terse |-> <<"bad-terse-string">>, text |-> rest]
        ELSE [terse |-> SubSeq(rest, 1, n - 1), text |-> SubSeq(rest, n + 1, Len(rest))]

Entries(k, lines) == [n \in DOMAIN lines |-> [fifo |-> k, entry |-> Entry(lines[n])]]

(* Fault: what was kept from the read before is dropped.                   *)
CutForgetful(kept, read) ==
    LET step(acc, c) == IF c = "newline" THEN [lines |-> Append(acc.lines, acc.rest), rest |-> <<>>]
                                         ELSE [acc EXCEPT !.rest = Append(@, c)]
    IN  FoldLeft(step, [lines |-> <<>>, rest |-> <<>>], read)

(* The loop of tick(): lines that are complete with what has been read,    *)
(* and the rest, which goes to sbuf                                        *)
Cut(kept, read) ==
    LET step(acc, c) == IF c = "newline" THEN [lines |-> Append(acc.lines, acc.rest), rest |-> <<>>]
                                         ELSE [acc EXCEPT !.rest = Append(@, c)]
    IN  FoldLeft(step, [lines |-> <<>>, rest |-> kept], read)

-----------------------------------------------------------------------------
(* The logger                                                              *)
Free == blocked = NoFifo

(* on_command, up to the open() that blocks.  What was at the path goes.   *)
Mklog ==
    /\ Free /\ AtJob /\ Current.id = Server /\ requests # <<>>
    /\ LET w == Head(requests)
           k == made + 1
       IN  /\ requests' = Tail(requests)
           /\ \/ /\ made' = k
                 /\ owner' = [owner EXCEPT ![k] = w]
                 /\ path' = [path EXCEPT ![NameOf[w]] = k]
                 /\ blocked' = k
                 /\ UNCHANGED faults
              \/ /\ Fault
                 /\ path' = [path EXCEPT ![NameOf[w]] = NoFifo]
                 /\ UNCHANGED <<made, owner, blocked>>
    /\ UNCHANGED <<jobVars, reading, writing, pipe, loggerVars, writerVars>>

(* open() returns when the FIFO has, or since has had, a writer: the job   *)
(* is added                                                                *)
Opened ==
    /\ blocked # NoFifo
    /\ \E w \in Writer : fd[w] = blocked /\ wpc[w] \in {"writing", "ending", "closed"}
    /\ reading' = reading \cup {blocked}
    /\ jobs' = Append(jobs, NewJob(blocked))
    /\ blocked' = NoFifo
    /\ UNCHANGED <<place, requests, fileVars, writing, pipe, loggerVars, writerVars, faults>>

ServerDone ==
    /\ Free /\ AtJob /\ Current.id = Server /\ requests = <<>>
    /\ RunJob("ok", <<>>)
    /\ UNCHANGED <<requests, fileVars, fifoVars, loggerVars, writerVars, faults>>

AtFifo(k) == Free /\ AtJob /\ Current.id = k /\ k # Server /\ ~Current.finished

ReadNothing ==
    \E k \in Fifos :
        /\ AtFifo(k) /\ pipe[k] = <<>> /\ writing[k] # {}
        /\ RunJob("ok", <<>>)
        /\ UNCHANGED <<requests, fileVars, fifoVars, loggerVars, writerVars, faults>>

ReadSome ==
    \E k \in Fifos :
        /\ AtFifo(k) /\ pipe[k] # <<>>
        /\ LET n == IF Len(pipe[k]) < BufSize THEN Len(pipe[k]) ELSE BufSize
               read == SubSeq(pipe[k], 1, n)
               cut == Cut(sbuf[k], read)
           IN  /\ pipe' = [pipe EXCEPT ![k] = SubSeq(@, n + 1, Len(@))]
               /\ sbuf' = [sbuf EXCEPT ![k] = cut.rest]
               /\ log' = log \o Entries(k, cut.lines)
               /\ consumed' = [consumed EXCEPT ![k] = @ \o read]
        /\ RunJob("ok", <<>>)
        /\ UNCHANGED <<requests, fileVars, blocked, reading, writing, writerVars, faults>>

(* Fault: a line without an end is dropped.                                *)
ReadEndAndDrop ==
    \E k \in Fifos :
        /\ AtFifo(k) /\ pipe[k] = <<>> /\ writing[k] = {}
        /\ RunJob("last", <<>>)
        /\ UNCHANGED <<requests, fileVars, fifoVars, loggerVars, writerVars, faults>>

(* No writer any more: a line without an end is written all the same       *)
ReadEnd ==
    \E k \in Fifos :
        /\ AtFifo(k) /\ pipe[k] = <<>> /\ writing[k] = {}
        /\ log' = IF sbuf[k] = <<>> THEN log ELSE log \o Entries(k, <<sbuf[k]>>)
        /\ sbuf' = [sbuf EXCEPT ![k] = <<>>]
        /\ RunJob("last", <<>>)
        /\ UNCHANGED <<requests, fileVars, fifoVars, consumed, writerVars, faults>>

(* Erasing the job runs ~LogHnd, which closes the FIFO and removes what is *)
(* at its path                                                             *)
EraseLog ==
    /\ Free /\ EraseFinished
    /\ LET k == Current.id IN
        /\ reading' = reading \ {k}
        /\ path' = [path EXCEPT ![NameOf[owner[k]]] = NoFifo]
    /\ UNCHANGED <<requests, made, owner, blocked, writing, pipe, loggerVars, writerVars, faults>>

Walk ==
    /\ Free /\ (BeginTick \/ EndTick)
    /\ UNCHANGED <<requests, fileVars, fifoVars, loggerVars, writerVars, faults>>

Logger ==
    Mklog \/ Opened \/ ServerDone \/ ReadNothing \/ ReadSome \/ ReadEnd \/ EraseLog \/ Walk

-----------------------------------------------------------------------------
(* A writer: raw_start in the daemon, then the process it forks            *)
Move(w, from, to) == wpc[w] = from /\ wpc' = [wpc EXCEPT ![w] = to]

Gone(w) == wpc[w] \in {"ending", "closed", "failed"}

(* The daemon asks.  A service is started again when its launcher has      *)
(* reported its end, which is before that process has closed its log.      *)
Ask(w) ==
    /\ Before[w] = w \/ Gone(Before[w])
    /\ wpc[w] = "idle"
    /\ requests' = Append(requests, w)
    /\ \/ Move(w, "idle", "looking") /\ UNCHANGED faults
       \/ w \notin Strict /\ Fault /\ Move(w, "idle", "failed")        \* fork()
    /\ UNCHANGED <<jobVars, fileVars, fifoVars, loggerVars, fd, sent>>

Served(w) == w \notin ToSet(requests)

(* waitExist returns: the path is there, or is an old one, or the time is up. *)
FindPath(w) ==
    /\ Move(w, "looking", "opening")
    /\ (Served(w) /\ UNCHANGED faults) \/ (~Served(w) /\ Fault)
    /\ UNCHANGED <<jobVars, requests, fileVars, fifoVars, loggerVars, fd, sent>>

(* open() for writing: of a FIFO it returns when the logger has or is      *)
(* opening it too; where there is nothing, a service's makes a file        *)
OpenFifo(w) ==
    /\ wpc[w] = "opening" /\ fd[w] = NoFifo /\ path[NameOf[w]] \in Fifos
    /\ fd' = [fd EXCEPT ![w] = path[NameOf[w]]]
    /\ UNCHANGED <<jobVars, requests, fileVars, fifoVars, loggerVars, wpc, sent, faults>>

Meet(w) ==
    /\ fd[w] \in Fifos /\ (fd[w] = blocked \/ fd[w] \in reading)
    /\ Move(w, "opening", "writing")
    /\ writing' = [writing EXCEPT ![fd[w]] = @ \cup {w}]
    /\ UNCHANGED <<jobVars, requests, fileVars, blocked, reading, pipe, loggerVars, fd, sent, faults>>

OpenNothing(w) ==
    /\ fd[w] = NoFifo /\ path[NameOf[w]] \notin Fifos
    /\ IF w \in Strict /\ path[NameOf[w]] = NoFifo
       THEN Move(w, "opening", "failed") /\ UNCHANGED <<path, fd>>
       ELSE /\ Move(w, "opening", "writing")
            /\ path' = [path EXCEPT ![NameOf[w]] = File]
            /\ fd' = [fd EXCEPT ![w] = File]
    /\ UNCHANGED <<jobVars, requests, made, owner, fifoVars, loggerVars, sent, faults>>

Write(w) ==
    /\ wpc[w] = "writing" /\ sent[w] < Len(Text[w])
    /\ fd[w] \in Fifos => fd[w] \in reading \cup {blocked} /\ Len(pipe[fd[w]]) < PipeSize
    /\ sent' = [sent EXCEPT ![w] = @ + 1]
    /\ pipe' = IF fd[w] \in Fifos THEN [pipe EXCEPT ![fd[w]] = Append(@, Text[w][sent[w] + 1])] ELSE pipe
    /\ UNCHANGED <<jobVars, requests, fileVars, blocked, reading, writing, loggerVars, wpc, fd, faults>>

(* SIGPIPE: the logger has closed the FIFO, which it found without a writer*)
BrokenPipe(w) ==
    /\ sent[w] < Len(Text[w]) /\ fd[w] \in Fifos \ (reading \cup {blocked})
    /\ Move(w, "writing", "failed")
    /\ writing' = [k \in Fifos |-> writing[k] \ {w}]
    /\ UNCHANGED <<jobVars, requests, fileVars, blocked, reading, pipe, loggerVars, fd, sent, faults>>

(* The launcher reports its end to the daemon, then exits                  *)
Report(w) ==
    /\ sent[w] = Len(Text[w])
    /\ Move(w, "writing", "ending")
    /\ UNCHANGED <<jobVars, requests, fileVars, fifoVars, loggerVars, fd, sent, faults>>

Close(w) ==
    /\ Move(w, "ending", "closed")
    /\ writing' = [k \in Fifos |-> writing[k] \ {w}]
    /\ UNCHANGED <<jobVars, requests, fileVars, blocked, reading, pipe, loggerVars, fd, sent, faults>>

WriterStep(w) ==
    \/ FindPath(w) \/ OpenFifo(w) \/ Meet(w) \/ OpenNothing(w) \/ Write(w)
    \/ BrokenPipe(w) \/ Report(w) \/ Close(w)

Next == Logger \/ \E w \in Writer : Ask(w) \/ WriterStep(w)

Spec == Init /\ [][Next]_vars
-----------------------------------------------------------------------------
(* The reference: the lines of a text, by the places of their ends         *)
Ends(text) == {n \in DOMAIN text : text[n] = "newline"}
LastEnd(text, n) == Max({0} \cup {m \in Ends(text) : m < n})
Lines(text) ==
    [i \in 1..Cardinality(Ends(text)) |->
        LET n == CHOOSE m \in Ends(text) : Cardinality({l \in Ends(text) : l <= m}) = i
        IN  SubSeq(text, LastEnd(text, n) + 1, n - 1)]
Rest(text) == SubSeq(text, LastEnd(text, Len(text) + 1) + 1, Len(text))
AllLines(text) == IF Rest(text) = <<>> THEN Lines(text) ELSE Append(Lines(text), Rest(text))

LogOf(k) == SelectSeq(log, LAMBDA e : e.fifo = k)

Reads(k) == \E n \in DOMAIN jobs : jobs[n].id = k /\ ~jobs[n].finished

(* However the bytes of several services fall into reads, the log has      *)
(* exactly their lines; the rest of what was read is kept for the next one.*)
WholeLines ==
    \A k \in Fifos :
        \/ LogOf(k) = Entries(k, Lines(consumed[k])) /\ sbuf[k] = Rest(consumed[k])
        \/ LogOf(k) = Entries(k, AllLines(consumed[k])) /\ sbuf[k] = <<>> /\ ~Reads(k)

(* A service that is started is not left waiting for its log or for room   *)
(* in it, and in the end all it has written is in the log, although one    *)
(* logger serves everybody and waits in open() for each, unless something  *)
(* has gone wrong.                                                         *)
Logged(w) == wpc[w] = "closed" /\ LogOf(fd[w]) = Entries(fd[w], AllLines(Text[w]))
EverythingIsLogged == \A w \in Writer : wpc[w] = "looking" ~> Logged(w) \/ faults > 0
=============================================================================
