------------------------------- MODULE PxIPC -------------------------------
(***************************************************************************)
(* The client half of PxIPC (src/src/PxLib/PxIPC.cpp) in the hands of its  *)
(* users.  Each connection has a script, the commands its owner sends one  *)
(* after the other.  pxctl reads the reply to a command before it sends the *)
(* next; launchers, PxPam and scripts only write.                          *)
(***************************************************************************)
EXTENDS PxSocket

CONSTANTS Script,        \* Script[c]: the kinds of the commands c sends
          Reads,         \* those that read replies
          Unterminated,  \* those that do not end their last command
          Impatient,     \* those that may leave at any time
          BufSize        \* PXIS_BUF_SIZE, in bytes of the model

ASSUME ClientAssumption ==
  /\ Script \in [Conns -> Seq(Kinds)]
  /\ Reads \subseteq Conns
  /\ Unterminated \subseteq Conns
  /\ Impatient \subseteq Conns
  /\ BufSize \in Nat /\ BufSize > 2

VARIABLES phase,  \* what the client is doing
          at,     \* the command of its script it is at
          got     \* the bytes of the reply it has read so far

clientVars == <<phase, at, got>>

ClientTypeOK ==
  /\ phase \in [Conns -> {"new", "ready", "reading", "left"}]
  /\ at \in [Conns -> Nat]
  /\ got \in [Conns -> Seq(Byte)]

ClientInit ==
  /\ phase = [c \in Conns |-> "new"]
  /\ at = [c \in Conns |-> 1]
  /\ got = [c \in Conns |-> <<>>]

\* A command is a few letters; a long one fills the server's buffer.
Text(k) == [i \in 1..(IF k = "long" THEN BufSize ELSE 2) |-> k]

Current(c) == Script[c][at[c]]
ScriptDone(c) == at[c] > Len(Script[c])
ExpectsReply(c) == c \in Reads /\ Current(c) \in {"ask", "await"}

Connect(c) ==
  /\ phase[c] = "new"
  /\ phase' = [phase EXCEPT ![c] = "ready"]
  /\ backlog' = Append(backlog, c)
  /\ UNCHANGED <<at, got, toServer, toClient, left, reset>>

\* What is written for the n-th command of c.
Packet(c, n) ==
  IF n = Len(Script[c]) /\ c \in Unterminated THEN Text(Script[c][n])
  ELSE Append(Text(Script[c][n]), Nul)

Write(c) ==
  /\ phase[c] = "ready" /\ ~ScriptDone(c)
  /\ toServer' = [toServer EXCEPT ![c] = @ \o Packet(c, at[c])]
  /\ IF ExpectsReply(c)
     THEN phase' = [phase EXCEPT ![c] = "reading"] /\ UNCHANGED at
     ELSE at' = [at EXCEPT ![c] = @ + 1] /\ UNCHANGED phase
  /\ UNCHANGED <<got, backlog, toClient, left, reset>>

\* Raw_ClientRead takes all there is; whatever follows the first zero byte is
\* dropped with the buffer.
Read(c) ==
  /\ phase[c] = "reading" /\ toClient[c] # <<>>
  /\ IF Contains(toClient[c], Nul)
     THEN /\ phase' = [phase EXCEPT ![c] = "ready"]
          /\ at' = [at EXCEPT ![c] = @ + 1]
          /\ got' = [got EXCEPT ![c] = <<>>]
     ELSE /\ got' = [got EXCEPT ![c] = @ \o toClient[c]]
          /\ UNCHANGED <<phase, at>>
  /\ toClient' = [toClient EXCEPT ![c] = <<>>]
  /\ UNCHANGED <<backlog, toServer, left, reset>>

\* The client has said all it had to say, or is interrupted.
Leave(c) ==
  /\ phase[c] \in {"ready", "reading"}
  /\ ScriptDone(c) \/ c \in Impatient
  /\ phase' = [phase EXCEPT ![c] = "left"]
  /\ CloseByClient(c)
  /\ UNCHANGED <<at, got>>

ClientStep(c) == Connect(c) \/ Write(c) \/ Read(c) \/ Leave(c)
=============================================================================
