------------------------------ MODULE PxSocket ------------------------------
(***************************************************************************)
(* The kernel's side of the local stream sockets PxIPC talks through: a    *)
(* byte stream in each direction for every connection, connections that    *)
(* wait to be accepted, and what closing one end means for the other.      *)
(* External: nothing of it is in the repository, which uses it through     *)
(* connect, accept, send, recv and close.                                  *)
(***************************************************************************)
EXTENDS SequencesExt, Naturals

CONSTANTS Conns,    \* one connection for each client
          SockBuf   \* how many bytes to a client the kernel holds

ASSUME SocketAssumption == SockBuf \in Nat \ {0}

VARIABLES backlog,   \* connections not yet accepted
          toServer,  \* written by the client, not yet received
          toClient,  \* sent by the server, not yet read
          left,      \* connections the client has closed
          reset      \* of these, those closed with something unread

sockVars == <<backlog, toServer, toClient, left, reset>>

\* The letters of commands and replies, and the zero byte that ends each.
Kinds == {"oneway", "ask", "await", "announce", "long"}
Replies == {"answer", "news"}
Nul == "nul"
Byte == Kinds \union Replies \union {Nul}

SocketTypeOK ==
  /\ backlog \in Seq(Conns)
  /\ toServer \in [Conns -> Seq(Byte)]
  /\ toClient \in [Conns -> Seq(Byte)]
  /\ left \subseteq Conns
  /\ reset \subseteq left

SocketInit ==
  /\ backlog = <<>>
  /\ toServer = [c \in Conns |-> <<>>]
  /\ toClient = [c \in Conns |-> <<>>]
  /\ left = {}
  /\ reset = {}

\* close by the client: what it has not read is gone, and the server's next
\* recv that finds no bytes fails with ECONNRESET.
CloseByClient(c) ==
  /\ left' = left \union {c}
  /\ reset' = IF toClient[c] # <<>> THEN reset \union {c} ELSE reset
  /\ toClient' = [toClient EXCEPT ![c] = <<>>]
  /\ UNCHANGED <<backlog, toServer>>

Space(c) == SockBuf - Len(toClient[c])
=============================================================================
