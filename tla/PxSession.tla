------------------------------ MODULE PxSession ------------------------------
(***************************************************************************)
(* The sessions of one user: pxpam.cpp opens and closes them, the system's *)
(* daemon forks a daemon for the user (PxDaemon.cpp, "spawn"), and that    *)
(* daemon counts the sessions ("reference") and leaves with the last one.  *)
(*                                                                         *)
(* A daemon bears the name of the session that has asked for it.  Commands *)
(* arrive whole, as PxIPC::Client::Write ends them with a zero byte, and   *)
(* are executed when they are received, in the daemon's walk over its      *)
(* connections.  Environments are left out, the one that a session dumps   *)
(* for its daemon and the one that it waits for at most two seconds and    *)
(* may do without, and so are the services of the user.                    *)
(***************************************************************************)
EXTENDS Integers, FiniteSets

CONSTANTS
    Session,
    None,
    Stay,         \* the sessions that are not closed
    MaxFaults     \* a bound on forks and logs that fail, daemons killed or sent SIGTERM

(* What the constants are.                                                 *)
SessionAssumption ==
    /\ IsFiniteSet(Session) /\ None \notin Session /\ Stay \subseteq Session
    /\ MaxFaults \in Nat

\* A session makes a connection when it opens and one when it closes.
Conn == [who : Session, cmd : {"inc", "logout"}]
Con(s, c) == [who |-> s, cmd |-> c]

VARIABLES
    spc, home,    \* of a session: where it is, the daemon its client is connected to
    path,         \* whose socket is at /run/parallax-svman-u<uid>.sock
    chowned,      \* whether that socket is the user's
    spawns,       \* spawn requests the system's daemon has not executed
    dpc,          \* of a daemon: where it is
    made, handle, \* how many connections were made to it; the number of each, 0 for none
    accepted, walk, \* how many it has accepted; the next one its walk looks at, 0 between ticks
    sent, to_purge, \* the connections with a command in the socket, those found closed
    refs, target,
    faults,
    misled,       \* history: the daemons that were not told of the end of a session of
                  \* theirs, or were told of the end of another's
    robbed        \* history: a daemon that exits has removed the socket of another

pathVars == <<path, chowned>>
connVars == <<made, handle, accepted, walk, sent, to_purge>>
sessionVars == <<spc, home, pathVars, spawns, dpc, connVars, refs, target, faults, misled,
                 robbed>>

SessionInit ==
    /\ spc = [s \in Session |-> "out"] /\ home = [s \in Session |-> None]
    /\ path = None /\ chowned = FALSE
    /\ spawns = {}
    /\ dpc = [d \in Session |-> "none"]
    /\ made = [d \in Session |-> 0] /\ handle = [d \in Session |-> [c \in Conn |-> 0]]
    /\ accepted = [d \in Session |-> 0] /\ walk = [d \in Session |-> 0]
    /\ sent = [d \in Session |-> {}] /\ to_purge = [d \in Session |-> {}]
    /\ refs = [d \in Session |-> 0] /\ target = [d \in Session |-> "boot"]
    /\ faults = 0 /\ misled = {} /\ robbed = FALSE

Fault == faults < MaxFaults /\ faults' = faults + 1

Move(s, from, to) == spc[s] = from /\ spc' = [spc EXCEPT ![s] = to]
Step(d, from, to) == dpc[d] = from /\ dpc' = [dpc EXCEPT ![d] = to]

Listening(d) == dpc[d] \in {"chown", "up"}
Answers == path # None /\ Listening(path)

\* The kernel's queue, and the list of those accepted, are in this order.
MakeConn(d, c) ==
    /\ made' = [made EXCEPT ![d] = @ + 1]
    /\ handle' = [handle EXCEPT ![d][c] = made'[d]]
    /\ UNCHANGED <<accepted, walk, sent, to_purge>>

\* Raw_ClientWrite: EPIPE where the daemon has gone.
Send(d, c) ==
    /\ sent' = IF Listening(d) THEN [sent EXCEPT ![d] = @ \union {c}] ELSE sent
    /\ UNCHANGED <<made, handle, accepted, walk, to_purge>>

Unlink == path' = None /\ chowned' = FALSE

-----------------------------------------------------------------------------
(* pam_sm_open_session                                                     *)
Enter(s) ==
    /\ Answers
    /\ spc' = [spc EXCEPT ![s] = "write"]
    /\ home' = [home EXCEPT ![s] = path]
    /\ MakeConn(path, Con(s, "inc"))
    /\ UNCHANGED <<pathVars, spawns, dpc, refs, target, faults, misled, robbed>>

Connect(s) ==
    /\ spc[s] = "out"
    /\ \/ Enter(s)
       \/ /\ ~Answers
          /\ spc' = [spc EXCEPT ![s] = IF path = None THEN "ask" ELSE "unlink"]
          /\ UNCHANGED <<home, pathVars, spawns, dpc, connVars, refs, target, faults, misled, robbed>>

(* ECONNREFUSED: whatever is at the path now is removed                    *)
RemovePath(s) ==
    /\ Move(s, "unlink", "ask")
    /\ Unlink
    /\ UNCHANGED <<home, spawns, dpc, connVars, refs, target, faults, misled, robbed>>

(* The environment is dumped, and the system's daemon asked for one of the *)
(* user.                                                                   *)
Ask(s) ==
    /\ \/ Move(s, "ask", "poll") /\ spawns' = spawns \cup {s} /\ UNCHANGED faults
       \/ Move(s, "ask", "failed") /\ Fault /\ UNCHANGED spawns
    /\ UNCHANGED <<home, pathVars, dpc, connVars, refs, target, misled, robbed>>

(* Fault: the path is removed each time nobody answers there.              *)
PollAndRemove(s) ==
    /\ spc[s] = "poll"
    /\ \/ Enter(s)
       \/ /\ ~Answers
          /\ Unlink
          /\ UNCHANGED <<spc, home, spawns, dpc, connVars, refs, target, faults, misled, robbed>>

Poll(s) == spc[s] = "poll" /\ Enter(s)

\* "reference inc", which the daemon may execute from now on
WriteInc(s) ==
    /\ Move(s, "write", IF Listening(home[s]) THEN "wait" ELSE "failed")
    /\ Send(home[s], Con(s, "inc"))
    /\ UNCHANGED <<home, pathVars, spawns, dpc, refs, target, faults, misled, robbed>>

\* The wait is over and the client is closed.
Opened(s) ==
    /\ Move(s, "wait", "in")
    /\ UNCHANGED <<home, pathVars, spawns, dpc, connVars, refs, target, faults, misled, robbed>>

-----------------------------------------------------------------------------
(* pam_sm_close_session, which looks for the daemon anew                   *)
BeginClose(s) ==
    /\ s \notin Stay /\ spc[s] = "in"
    /\ \/ /\ Answers
          /\ spc' = [spc EXCEPT ![s] = "leaving"]
          /\ home' = [home EXCEPT ![s] = path]
          /\ MakeConn(path, Con(s, "logout"))
          /\ misled' = IF path = home[s] THEN misled ELSE misled \union {home[s], path}
       \/ /\ ~Answers
          /\ spc' = [spc EXCEPT ![s] = "closed"]
          /\ misled' = misled \union {home[s]}
          /\ UNCHANGED <<home, connVars>>
    /\ UNCHANGED <<pathVars, spawns, dpc, refs, target, faults, robbed>>

\* "reference logout", and the client is closed.
Closed(s) ==
    /\ Move(s, "leaving", "closed")
    /\ Send(home[s], Con(s, "logout"))
    /\ UNCHANGED <<home, pathVars, spawns, dpc, refs, target, faults, misled, robbed>>

SessionStep(s) ==
    \/ RemovePath(s) \/ Ask(s) \/ Poll(s) \/ WriteInc(s) \/ Opened(s)
    \/ Closed(s)

-----------------------------------------------------------------------------
(* A daemon of the user: the fork() of SpawnSession, and its log, which it  *)
(* opens first                                                             *)
Fork(d) ==
    /\ d \in spawns
    /\ spawns' = spawns \ {d}
    /\ \/ Step(d, "none", "init") /\ UNCHANGED faults
       \/ Fault /\ UNCHANGED dpc
       \/ Step(d, "none", "dead") /\ Fault
    /\ UNCHANGED <<spc, home, pathVars, connVars, refs, target, misled, robbed>>

(* Raw_ServerInit: remove(), bind(), listen()                              *)
RemoveSocket(d) ==
    /\ Step(d, "init", "bind")
    /\ Unlink
    /\ UNCHANGED <<spc, home, spawns, connVars, refs, target, faults, misled, robbed>>

(* Where another has bound meanwhile the error is dropped                  *)
Bind(d) ==
    /\ \/ path = None /\ path' = d /\ chowned' = FALSE /\ Step(d, "bind", "listen")
       \/ path # None /\ Step(d, "bind", "unbound") /\ UNCHANGED pathVars
    /\ UNCHANGED <<spc, home, spawns, connVars, refs, target, faults, misled, robbed>>

Listen(d) ==
    /\ Step(d, "listen", "chown")
    /\ UNCHANGED <<spc, home, pathVars, spawns, connVars, refs, target, faults, misled, robbed>>

DropConns(d) ==
    /\ made' = [made EXCEPT ![d] = 0] /\ handle' = [handle EXCEPT ![d] = [c \in Conn |-> 0]]
    /\ accepted' = [accepted EXCEPT ![d] = 0] /\ walk' = [walk EXCEPT ![d] = 0]
    /\ sent' = [sent EXCEPT ![d] = {}] /\ to_purge' = [to_purge EXCEPT ![d] = {}]

(* exit(): ~Server drops the connections, closes the socket and, later,    *)
(* removes what is at the path, as the user or, before seteuid(), as root  *)
Exit(d, from, to) ==
    /\ Step(d, from, to)
    /\ DropConns(d)
    /\ UNCHANGED <<spc, home, pathVars, spawns, refs, target, faults, misled, robbed>>

(* chown() and chmod() of the path, whosesoever socket is there;           *)
(* setTarget("boot").  The first tick of one that has not bound finds no   *)
(* server.                                                                 *)
Chown(d) ==
    \/ path = None /\ Exit(d, "chown", "aborting")
    \/ /\ (path # None /\ Step(d, "chown", "up")) \/ Step(d, "unbound", "dead")
       /\ chowned' = (path # None)
       /\ UNCHANGED <<spc, home, path, spawns, connVars, refs, target, faults, misled, robbed>>

(* Fault: the last session does not count as the last.                     *)
ReferenceLate(d, cmd) ==
    IF cmd = "inc"
    THEN refs' = [refs EXCEPT ![d] = @ + 1] /\ UNCHANGED target
    ELSE /\ refs' = [refs EXCEPT ![d] = @ - 1]
         /\ target' = IF refs'[d] < 0 THEN [target EXCEPT ![d] = cmd] ELSE target

(* "reference": inc, or anything else, which is also the target to set     *)
Reference(d, cmd) ==
    IF cmd = "inc"
    THEN refs' = [refs EXCEPT ![d] = @ + 1] /\ UNCHANGED target
    ELSE /\ refs' = [refs EXCEPT ![d] = @ - 1]
         /\ target' = IF refs'[d] <= 0 THEN [target EXCEPT ![d] = cmd] ELSE target

(* Raw_ServerUpdate: one connection is accepted, and then the walk begins; *)
(* with none there a tick does nothing.                                    *)
Accept(d) ==
    /\ dpc[d] = "up" /\ walk[d] = 0
    /\ accepted[d] < made[d] \/ \E c \in Conn : handle[d][c] # 0
    /\ accepted' = [accepted EXCEPT ![d] = IF @ < made[d] THEN @ + 1 ELSE @]
    /\ walk' = [walk EXCEPT ![d] = 1]
    /\ UNCHANGED <<spc, home, pathVars, spawns, dpc, made, handle, sent, to_purge, refs,
                   target, faults, misled, robbed>>

IsAhead(d, c) == handle[d][c] \in walk[d]..accepted[d]
IsNext(d, c)  == IsAhead(d, c) /\ \A e \in Conn : IsAhead(d, e) => handle[d][c] <= handle[d][e]

ClientClosed(c) ==
    IF c.cmd = "inc" THEN spc[c.who] \notin {"write", "wait"} ELSE spc[c.who] # "leaving"

(* Fault: whether the client has closed is asked before the command is read. *)
RecvIfOpen(d) ==
    /\ dpc[d] = "up" /\ walk[d] # 0
    /\ \E c \in Conn :
        /\ IsNext(d, c)
        /\ walk' = [walk EXCEPT ![d] = handle[d][c] + 1]
        /\ \/ /\ c \in sent[d] /\ ~ClientClosed(c)
              /\ Reference(d, c.cmd)
              /\ sent' = [sent EXCEPT ![d] = @ \ {c}]
              /\ UNCHANGED to_purge
           \/ /\ ClientClosed(c)
              /\ to_purge' = [to_purge EXCEPT ![d] = @ \union {c}]
              /\ UNCHANGED <<sent, refs, target>>
    /\ UNCHANGED <<spc, home, pathVars, spawns, dpc, made, handle, accepted, faults, misled,
                   robbed>>

(* Raw_ServConnUpdate1                                                     *)
Recv(d) ==
    /\ dpc[d] = "up" /\ walk[d] # 0
    /\ \E c \in Conn :
        /\ IsNext(d, c)
        /\ walk' = [walk EXCEPT ![d] = handle[d][c] + 1]
        /\ \/ /\ c \in sent[d]
              /\ Reference(d, c.cmd)
              /\ sent' = [sent EXCEPT ![d] = @ \ {c}]
              /\ UNCHANGED to_purge
           \/ /\ c \notin sent[d]
              /\ to_purge' = IF ClientClosed(c) THEN [to_purge EXCEPT ![d] = @ \union {c}] ELSE to_purge
              /\ UNCHANGED <<sent, refs, target>>
    /\ UNCHANGED <<spc, home, pathVars, spawns, dpc, made, handle, accepted, faults, misled,
                   robbed>>

HandleDisconnects(d) ==
    /\ dpc[d] = "up" /\ walk[d] # 0
    /\ \A c \in Conn : ~IsAhead(d, c)
    /\ walk' = [walk EXCEPT ![d] = 0]
    /\ handle' = [handle EXCEPT ![d] = [c \in Conn |-> IF c \in to_purge[d] THEN 0 ELSE @[c]]]
    /\ sent' = [sent EXCEPT ![d] = @ \ to_purge[d]]
    /\ to_purge' = [to_purge EXCEPT ![d] = {}]
    /\ UNCHANGED <<spc, home, pathVars, spawns, dpc, made, accepted, refs, target, faults,
                   misled, robbed>>

Tick(d) == Accept(d) \/ Recv(d) \/ HandleDisconnects(d)

(* The target logout is reached: its command is exit                       *)
Logout(d) == target[d] = "logout" /\ Exit(d, "up", "closing")

(* /run is sticky: what is still root's stays there.                       *)
DeleteSocket(d) ==
    /\ \/ /\ Step(d, "aborting", "dead") \/ (Step(d, "closing", "dead") /\ chowned)
          /\ Unlink
          /\ robbed' = (robbed \/ path \notin {None, d})
       \/ /\ Step(d, "closing", "dead") /\ ~chowned
          /\ UNCHANGED <<pathVars, robbed>>
    /\ UNCHANGED <<spc, home, spawns, connVars, refs, target, faults, misled>>

DaemonStep(d) ==
    \/ Fork(d) \/ RemoveSocket(d) \/ Bind(d) \/ Listen(d)
    \/ Chown(d) \/ Logout(d) \/ DeleteSocket(d)

(* onterm, and a daemon that is killed: its path stays                     *)
OnTerm(d) ==
    /\ dpc[d] = "up" /\ target[d] = "boot" /\ Fault
    /\ target' = [target EXCEPT ![d] = "logout"]
    /\ UNCHANGED <<spc, home, pathVars, spawns, dpc, connVars, refs, misled, robbed>>

Killed(d) ==
    /\ Step(d, "up", "dead") /\ Fault
    /\ DropConns(d)
    /\ UNCHANGED <<spc, home, pathVars, spawns, refs, target, misled, robbed>>

SessionNext ==
    \/ \E s \in Session : Connect(s) \/ BeginClose(s) \/ SessionStep(s)
    \/ \E d \in Session : DaemonStep(d) \/ Tick(d) \/ OnTerm(d) \/ Killed(d)

SessionSpec == SessionInit /\ [][SessionNext]_sessionVars
-----------------------------------------------------------------------------
(* Properties.                                                             *)

(* Who is in at a daemon: "reference inc" was sent to it, and "reference   *)
(* logout" was not.                                                        *)
InAt(d) == {s \in DOMAIN spc : home[s] = d /\ spc[s] \in {"wait", "in", "leaving"}}

(* A daemon that has read all that was sent to it has as many references   *)
(* as it has sessions, however its walks fell between their commands,      *)
(* unless one of them was closed while another answered at the path, or    *)
(* nobody.                                                                 *)
RefsAgree ==
    \A d \in DOMAIN dpc \ misled :
        dpc[d] = "up" /\ sent[d] = {} => refs[d] = Cardinality(InAt(d))

(* Whoever opens a session comes to be in, or fails: Opening(s) leads to   *)
(* ~Opening(s), although several that open together remove each other's    *)
(* sockets, unless a daemon whose chown() has failed removes the socket of *)
(* the next one (robbed): then nobody may answer any more.                 *)
Opening(s) == spc[s] \in {"unlink", "ask", "poll", "write", "wait"}

(* With its last session a daemon goes: when all sessions are over, it has *)
(* had one and no end of a session has missed it (Deserted), it leads to   *)
(* its death.                                                              *)
NobodyIsIn  == \A s \in Session : spc[s] \in {"closed", "failed"}
Deserted(d) == NobodyIsIn /\ d \notin misled /\ \E s \in Session : home[s] = d /\ spc[s] = "closed"
=============================================================================
