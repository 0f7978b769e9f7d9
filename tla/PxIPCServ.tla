------------------------------ MODULE PxIPCServ -----------------------------
(***************************************************************************)
(* The server half of PxIPC (src/src/PxIPCServ/PxIPCServ.cpp), its job in  *)
(* a JobServer (src/include/PxJob.hpp), and a command callback of the      *)
(* shape of PxDOnCommand: it answers at once, subscribes the caller to     *)
(* later news, or sends the news to the subscribers.                       *)
(*                                                                         *)
(* One tick of the job accepts a connection, receives from and sends to    *)
(* each in turn, and closes those that have ended; clients run between any *)
(* two of these calls.  pc is where the tick is.                           *)
(***************************************************************************)
EXTENDS PxIPC

VARIABLES
  connections,  \* Raw_Server::connections
  cur_command,  \* per connection: the bytes up to cursor
  response,     \* per connection: the bytes from cursor_send on
  to_purge,     \* the connections to close
  subscribed,   \* handles of connections to be told the news
  job,          \* "ticking", "finished" (an error) or "erased"
  killed,       \* SIGPIPE
  pc,           \* [at, i]: the call in progress and the connection it is for
  chunk,        \* what recv returned and has not been looked at
  executed      \* per connection: the commands handed to the callback

serverVars == <<connections, cur_command, response, to_purge, subscribed, job,
                killed, pc, chunk, executed>>
vars == <<sockVars, clientVars, serverVars>>

ServerTypeOK ==
  /\ connections \in Seq(Conns)
  /\ cur_command \in [Conns -> Seq(Byte)]
  /\ response \in [Conns -> Seq(Byte)]
  /\ to_purge \subseteq {connections[i] : i \in DOMAIN connections}
  /\ subscribed \in Seq(Conns)
  /\ job \in {"ticking", "finished", "erased"}
  /\ killed \in BOOLEAN
  /\ pc \in [at : {"sleep", "recv", "parse", "send", "purge"}, i : Nat]
  /\ chunk \in Seq(Byte)
  /\ executed \in [Conns -> Seq(Seq(Byte))]

TypeOK == SocketTypeOK /\ ClientTypeOK /\ ServerTypeOK

Init ==
  /\ SocketInit /\ ClientInit
  /\ connections = <<>>
  /\ cur_command = [c \in Conns |-> <<>>]
  /\ response = [c \in Conns |-> <<>>]
  /\ to_purge = {}
  /\ subscribed = <<>>
  /\ job = "ticking" /\ killed = FALSE
  /\ pc = [at |-> "sleep", i |-> 1]
  /\ chunk = <<>>
  /\ executed = [c \in Conns |-> <<>>]

-----------------------------------------------------------------------------
Go(label, i) == pc' = [at |-> label, i |-> i]
At(label) == ~killed /\ pc.at = label
More == pc.i <= Len(connections)
Here == connections[pc.i]

Connected(c) == Contains(connections, c)

\* An error of Raw_ServerUpdate ends the tick there; Job::onerror sets finished.
Fail == job' = "finished" /\ Go("sleep", 1)

\* Raw_ServConnSend: one reply at a time; EAGAIN while one is not sent.
Busy(c) == response[c] # <<>>
Sent(c, r) == IF Busy(c) THEN response[c] ELSE <<r, Nul>>

\* dispatchState: handles of closed connections are passed over; the first
\* that is busy ends it, and nobody is unsubscribed.
BusyAt(i) ==
  /\ Connected(subscribed[i])
  /\ \/ Busy(subscribed[i])
     \/ \E j \in 1..i - 1 : subscribed[j] = subscribed[i]
Blocked == {i \in DOMAIN subscribed : BusyAt(i)}
Told == {subscribed[i] : i \in {j \in DOMAIN subscribed :
                                  \A b \in Blocked : j < b}}

\* Fault: the subscribers stay subscribed.
AnnounceKeeping ==
  /\ response' = [c \in Conns |->
       IF c \in Told /\ Connected(c) THEN <<"news", Nul>> ELSE response[c]]
  /\ UNCHANGED subscribed

Announce ==
  /\ response' = [c \in Conns |->
       IF c \in Told /\ Connected(c) THEN <<"news", Nul>> ELSE response[c]]
  /\ subscribed' = IF Blocked = {} THEN <<>> ELSE subscribed

\* The callback.  What is no command is an error, printed and forgotten.
OnCommand(c, text) ==
  /\ executed' = [executed EXCEPT ![c] = Append(@, text)]
  /\ \/ /\ text = Text("ask")
        /\ response' = [response EXCEPT ![c] = Sent(c, "answer")]
        /\ UNCHANGED subscribed
     \/ /\ text = Text("await")
        /\ subscribed' = Append(subscribed, c)
        /\ UNCHANGED response
     \/ text = Text("announce") /\ Announce
     \/ /\ text \notin {Text("ask"), Text("await"), Text("announce")}
        /\ UNCHANGED <<response, subscribed>>

-----------------------------------------------------------------------------
(* One tick.                                                               *)

\* JobServer::tick drops a finished job.
EraseJob ==
  /\ At("sleep") /\ job = "finished"
  /\ job' = "erased"
  /\ UNCHANGED <<sockVars, connections, cur_command, response, to_purge,
                 subscribed, killed, pc, chunk, executed>>

Accept ==
  /\ At("sleep") /\ job = "ticking"
  /\ IF backlog = <<>> THEN UNCHANGED <<backlog, connections>>
     ELSE /\ backlog' = Tail(backlog)
          /\ connections' = Append(connections, Head(backlog))
  /\ Go("recv", 1)
  /\ UNCHANGED <<toServer, toClient, left, reset, cur_command, response, to_purge,
                 subscribed, job, killed, chunk, executed>>

\* Fault: a recv of nothing is taken for EAGAIN.
RecvForEver ==
  /\ At("recv") /\ More
  /\ LET c == Here
         n == IF Len(toServer[c]) < BufSize THEN Len(toServer[c]) ELSE BufSize
     IN  /\ chunk' = SubSeq(toServer[c], 1, n)
         /\ toServer' = [toServer EXCEPT ![c] = SubSeq(@, n + 1, Len(@))]
         /\ Go(IF n > 0 THEN "parse" ELSE "send", pc.i)
  /\ UNCHANGED <<backlog, toClient, left, reset, connections, cur_command, response,
                 to_purge, subscribed, job, killed, executed>>

\* Raw_ServConnUpdate1.
Recv ==
  /\ At("recv") /\ More
  /\ LET c == Here
         n == IF Len(toServer[c]) < BufSize THEN Len(toServer[c]) ELSE BufSize
     IN  \/ /\ n > 0
            /\ chunk' = SubSeq(toServer[c], 1, n)
            /\ toServer' = [toServer EXCEPT ![c] = SubSeq(@, n + 1, Len(@))]
            /\ Go("parse", pc.i)
            /\ UNCHANGED <<reset, to_purge, job>>
         \/ /\ n = 0 /\ c \notin left
            /\ Go("send", pc.i)
            /\ UNCHANGED <<chunk, toServer, reset, to_purge, job>>
         \/ /\ n = 0 /\ c \in reset
            /\ reset' = reset \ {c}
            /\ Fail
            /\ UNCHANGED <<chunk, toServer, to_purge>>
         \/ /\ n = 0 /\ c \in left \ reset
            /\ to_purge' = to_purge \union {c}
            /\ Go("send", pc.i)
            /\ UNCHANGED <<chunk, toServer, reset, job>>
  /\ UNCHANGED <<backlog, toClient, left, connections, cur_command, response,
                 subscribed, killed, executed>>

\* One byte of the chunk.
ParseLetter ==
  /\ At("parse") /\ chunk # <<>> /\ Head(chunk) # Nul
  /\ Len(cur_command[Here]) < BufSize
  /\ cur_command' = [cur_command EXCEPT ![Here] = Append(@, Head(chunk))]
  /\ chunk' = Tail(chunk)
  /\ UNCHANGED <<sockVars, connections, response, to_purge, subscribed, job,
                 killed, pc, executed>>

\* Fault: the cursor is not reset.
ParseNulKeeping ==
  /\ At("parse") /\ chunk # <<>> /\ Head(chunk) = Nul
  /\ Len(cur_command[Here]) < BufSize
  /\ OnCommand(Here, cur_command[Here])
  /\ chunk' = Tail(chunk)
  /\ UNCHANGED <<sockVars, connections, cur_command, to_purge, job, killed, pc>>

ParseNul ==
  /\ At("parse") /\ chunk # <<>> /\ Head(chunk) = Nul
  /\ Len(cur_command[Here]) < BufSize
  /\ OnCommand(Here, cur_command[Here])
  /\ cur_command' = [cur_command EXCEPT ![Here] = <<>>]
  /\ chunk' = Tail(chunk)
  /\ UNCHANGED <<sockVars, connections, to_purge, job, killed, pc>>

\* ENOSPC, also for the zero byte of a command that just fits.
ParseOverflows ==
  /\ At("parse") /\ chunk # <<>>
  /\ Len(cur_command[Here]) >= BufSize
  /\ chunk' = <<>>
  /\ Fail
  /\ UNCHANGED <<sockVars, connections, cur_command, response, to_purge,
                 subscribed, killed, executed>>

ParseEnds ==
  /\ At("parse") /\ chunk = <<>>
  /\ Go("send", pc.i)
  /\ UNCHANGED <<sockVars, connections, cur_command, response, to_purge,
                 subscribed, job, killed, chunk, executed>>

\* Fault: a socket that is full is an error.
SendOrFail ==
  /\ At("send")
  /\ LET c == Here
     IN  \/ /\ ~Busy(c)
            /\ Go("recv", pc.i + 1)
            /\ UNCHANGED <<response, toClient, job>>
         \/ /\ Busy(c) /\ (c \in left \/ Space(c) = 0)
            /\ Fail
            /\ UNCHANGED <<response, toClient>>
         \/ /\ Busy(c) /\ c \notin left
            /\ \E n \in 1..Len(response[c]) :
                 /\ n <= Space(c)
                 /\ toClient' = [toClient EXCEPT ![c] = @ \o SubSeq(response[c], 1, n)]
                 /\ response' = [response EXCEPT ![c] = SubSeq(@, n + 1, Len(@))]
            /\ Go("recv", pc.i + 1)
            /\ UNCHANGED job
  /\ UNCHANGED <<backlog, toServer, left, reset, connections, cur_command, to_purge,
                 subscribed, killed, chunk, executed>>

\* Fault: what the kernel did not take is forgotten.
SendOnce ==
  /\ At("send")
  /\ LET c == Here
         n == IF Len(response[c]) < Space(c) THEN Len(response[c]) ELSE Space(c)
     IN  /\ toClient' = [toClient EXCEPT ![c] = @ \o SubSeq(response[c], 1, n)]
         /\ response' = [response EXCEPT ![c] = <<>>]
  /\ Go("recv", pc.i + 1)
  /\ UNCHANGED <<backlog, toServer, left, reset, connections, cur_command, to_purge,
                 subscribed, job, killed, chunk, executed>>

\* Raw_ServConnUpdate2.  The kernel takes what it has room for; a send to a
\* client that has left raises SIGPIPE, which no server handles.
Send ==
  /\ At("send")
  /\ LET c == Here
     IN  \/ /\ ~Busy(c) \/ (c \notin left /\ Space(c) = 0)
            /\ Go("recv", pc.i + 1)
            /\ UNCHANGED <<response, toClient, killed>>
         \/ /\ Busy(c) /\ c \in left
            /\ killed' = TRUE
            /\ UNCHANGED <<pc, response, toClient>>
         \/ /\ Busy(c) /\ c \notin left
            /\ \E n \in 1..Len(response[c]) :
                 /\ n <= Space(c)
                 /\ toClient' = [toClient EXCEPT ![c] = @ \o SubSeq(response[c], 1, n)]
                 /\ response' = [response EXCEPT ![c] = SubSeq(@, n + 1, Len(@))]
            /\ Go("recv", pc.i + 1)
            /\ UNCHANGED killed
  /\ UNCHANGED <<backlog, toServer, left, reset, connections, cur_command, to_purge,
                 subscribed, job, chunk, executed>>

WalkEnds ==
  /\ At("recv") /\ ~More
  /\ Go("purge", 1)
  /\ UNCHANGED <<sockVars, connections, cur_command, response, to_purge,
                 subscribed, job, killed, chunk, executed>>

\* Fault: a connection is erased from the list and still marked.
PurgeMarked ==
  /\ At("purge") /\ More /\ Here \in to_purge
  /\ IF cur_command[Here] # <<>> THEN OnCommand(Here, cur_command[Here])
     ELSE UNCHANGED <<response, subscribed, executed>>
  /\ connections' = RemoveAt(connections, pc.i)
  /\ UNCHANGED <<sockVars, cur_command, to_purge, job, killed, pc, chunk>>

\* Raw_HandleDisconnects: an incomplete command is run as if it were complete.
Purge ==
  /\ At("purge") /\ More /\ Here \in to_purge
  /\ IF cur_command[Here] # <<>> THEN OnCommand(Here, cur_command[Here])
     ELSE UNCHANGED <<response, subscribed, executed>>
  /\ connections' = RemoveAt(connections, pc.i)
  /\ to_purge' = to_purge \ {Here}
  /\ cur_command' = [cur_command EXCEPT ![Here] = <<>>]
  /\ UNCHANGED <<sockVars, job, killed, pc, chunk>>

PurgeNext ==
  /\ At("purge")
  /\ \/ More /\ Here \notin to_purge /\ Go("purge", pc.i + 1)
     \/ ~More /\ Go("sleep", 1)
  /\ UNCHANGED <<sockVars, connections, cur_command, response, to_purge,
                 subscribed, job, killed, chunk, executed>>

ServerStep ==
  \/ EraseJob \/ Accept \/ Recv
  \/ ParseLetter \/ ParseNul \/ ParseOverflows \/ ParseEnds
  \/ Send \/ WalkEnds \/ Purge \/ PurgeNext

Next ==
  \/ ServerStep /\ UNCHANGED clientVars
  \/ \E c \in Conns : ClientStep(c) /\ UNCHANGED serverVars

Spec == Init /\ [][Next]_vars

\* The server's loop goes on; a client that waits for a reply reads it.
Fairness ==
  /\ WF_vars(ServerStep /\ UNCHANGED clientVars)
  /\ \A c \in Conns : WF_vars(Read(c) /\ UNCHANGED serverVars)

FairSpec == Spec /\ Fairness

-----------------------------------------------------------------------------
(* Safety.                                                                 *)

Framed(c) == FlattenSeq([i \in DOMAIN executed[c] |-> Append(executed[c][i], Nul)])
Unread(c) ==
  cur_command[c] \o (IF pc.at = "parse" /\ Here = c THEN chunk ELSE <<>>) \o toServer[c]
Written(c, n) == FlattenSeq([i \in 1..n |-> Packet(c, i)])

\* However the bytes are cut into recvs, the commands executed for a connection
\* are those its client has written, each once and in order, and the rest is
\* still on its way; only an unterminated command of a client that has left is
\* given its end.
Framing ==
  job = "ticking" =>
    \A c \in Conns : \E n \in {at[c] - 1, at[c]} \intersect 0..Len(Script[c]) :
      \/ Framed(c) \o Unread(c) = Written(c, n)
      \/ /\ c \in left /\ ~Connected(c)
         /\ Framed(c) = Append(Written(c, n), Nul)

\* Where every client reads the reply to a command before it sends the next, it
\* gets the reply to that command, though answers and news share one slot, and
\* nothing else comes in the same read, where it would be lost.  (One client
\* that subscribes twice without reading is enough to break this for the
\* others: it is busy, nobody is unsubscribed, and the next news come twice.)
RepliesMatch ==
  [][\A c \in Conns :
       (phase[c] = "reading" /\ phase'[c] = "ready") =>
         got[c] \o toClient[c] =
           <<IF Current(c) = "ask" THEN "answer" ELSE "news", Nul>>]_vars

-----------------------------------------------------------------------------
(* Liveness, under FairSpec.                                               *)

Terminated(c, n) == n < Len(Script[c]) \/ c \notin Unterminated \/ c \in left
HasWritten(c, n) ==
  (at[c] > n \/ (at[c] = n /\ phase[c] = "reading")) /\ Terminated(c, n)
Served(c, n) == Len(executed[c]) >= n

\* Every command is executed, however many connections there are and however
\* they come and go, as long as no connection fails.
CommandsAreServed ==
  \A c \in Conns : \A n \in DOMAIN Script[c] : HasWritten(c, n) ~> Served(c, n)

\* A client that asks gets its answer, though a send may find the socket full.
AnswersArrive ==
  \A c \in Conns :
    (phase[c] = "reading" /\ Current(c) = "ask") ~> (phase[c] # "reading")

\* The connection of a client that has left is closed and forgotten.
TheLeftAreForgotten ==
  \A c \in Conns : (c \in left) ~> (~Connected(c) /\ ~Contains(backlog, c))

-----------------------------------------------------------------------------
(* What the code says and does not do.                                     *)

\* PxJob.hpp, onerror: "Ignoring error in job".  So after the error of one
\* connection the commands of the others are still executed.
ErrorsAreIgnored ==
  \A c \in Conns \ Impatient : \A n \in DOMAIN Script[c] :
    HasWritten(c, n) ~> (Served(c, n) \/ killed)
=============================================================================
