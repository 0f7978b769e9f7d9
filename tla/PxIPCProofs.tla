----------------------------- MODULE PxIPCProofs ----------------------------
(***************************************************************************)
(* For any clients, any scripts and any length of the server's buffer, of  *)
(* PxIPCServ: the variables keep their types, which is not plain of the    *)
(* server's pointers (the connections to close are always some of those in *)
(* the list, though the list gets shorter while it is walked), and the     *)
(* commands executed for a connection are those its client has written.    *)
(*                                                                         *)
(* What recv has left in the socket, what it has returned and what is kept *)
(* of a command that has not ended are, in this order, the rest of what    *)
(* the client has written; every step of the server moves a byte from one  *)
(* to the next.  It needs that no connection is twice in the lists and     *)
(* that one to be closed has nothing left to say.                          *)
(*                                                                         *)
(* From this follows which command the callback is given, the next of the  *)
(* script, and with it that a client gets the reply to its own command:    *)
(* until the command it is at is executed nothing is coming for it, and    *)
(* from then on there is the one reply, or the client is subscribed.       *)
(***************************************************************************)
EXTENDS PxIPCServ, SequenceTheorems, WellFoundedInduction, NaturalsInduction, TLAPS

USE SocketAssumption, ClientAssumption

\* In the middle of a connection, the tick is at one there is; a client is at
\* the first command or behind.
Places ==
  /\ pc.i >= 1
  /\ pc.at \in {"parse", "send"} => pc.i <= Len(connections)
  /\ \A c \in Conns : at[c] >= 1

IInv == TypeOK /\ Places

Elements(s) == {s[i] : i \in DOMAIN s}

-----------------------------------------------------------------------------
(* Sequences.                                                              *)

\* The front and the rest of a sequence.
LEMMA Parts ==
  ASSUME NEW S, NEW s \in Seq(S), NEW n \in 0..Len(s)
  PROVE  SubSeq(s, 1, n) \in Seq(S) /\ SubSeq(s, n + 1, Len(s)) \in Seq(S)
<1>1. Len(s) \in Nat /\ \A i \in 1..Len(s) : s[i] \in S
  OBVIOUS
<1>2. \A i \in 1..n : s[i] \in S
  BY <1>1
<1>3. \A i \in (n + 1)..Len(s) : s[i] \in S
  BY <1>1
<1>4. QED
  BY <1>1, <1>2, <1>3, SubSeqProperties

\* What is left in which place.
LEMMA RemovedIs ==
  ASSUME NEW S, NEW s \in Seq(S), NEW n \in 1..Len(s)
  PROVE  /\ RemoveAt(s, n) \in Seq(S) /\ Len(RemoveAt(s, n)) = Len(s) - 1
         /\ \A i \in 1..Len(s) - 1 : RemoveAt(s, n)[i] = IF i < n THEN s[i] ELSE s[i + 1]
<1> DEFINE l == Len(s)
           a == SubSeq(s, 1, n - 1)
           b == SubSeq(s, n + 1, l)
<1>1. /\ l \in Nat /\ n \in 1..l /\ \A i \in 1..l : s[i] \in S
  OBVIOUS
<1>2. RemoveAt(s, n) = a \o b
  BY DEF RemoveAt
<1> HIDE DEF l
<1>3. /\ a \in Seq(S) /\ Len(a) = n - 1
      /\ \A i \in 1..n - 1 : a[i] = s[i]
  <2>1. \A i \in 1..n - 1 : s[i] \in S
    BY <1>1
  <2>2. (IF 1 <= n - 1 THEN (n - 1) - 1 + 1 ELSE 0) = n - 1
    BY <1>1
  <2>3. \A i \in 1..n - 1 : i \in 1..(n - 1) - 1 + 1 /\ 1 + i - 1 = i
    BY <1>1
  <2>4. QED
    BY <1>1, <2>1, <2>2, <2>3, SubSeqProperties
<1>4. /\ b \in Seq(S) /\ Len(b) = l - n
      /\ \A i \in 1..l - n : b[i] = s[n + i]
  <2>1. \A i \in (n + 1)..l : s[i] \in S
    BY <1>1
  <2>2. (IF n + 1 <= l THEN l - (n + 1) + 1 ELSE 0) = l - n
    BY <1>1
  <2>3. \A i \in 1..l - n : i \in 1..l - (n + 1) + 1 /\ (n + 1) + i - 1 = n + i
    BY <1>1
  <2>4. QED
    BY <1>1, <2>1, <2>2, <2>3, SubSeqProperties
<1> HIDE DEF a, b
<1>5. /\ a \o b \in Seq(S) /\ Len(a \o b) = l - 1
      /\ \A i \in 1..l - 1 : (a \o b)[i] = IF i <= n - 1 THEN a[i] ELSE b[i - (n - 1)]
  <2>1. /\ a \o b \in Seq(S) /\ Len(a \o b) = Len(a) + Len(b)
        /\ \A i \in 1..Len(a) + Len(b) :
             (a \o b)[i] = IF i <= Len(a) THEN a[i] ELSE b[i - Len(a)]
    BY <1>3, <1>4, ConcatProperties
  <2>2. Len(a) + Len(b) = l - 1
    BY <1>1, <1>3, <1>4
  <2>3. QED
    BY <1>3, <2>1, <2>2
<1>6. ASSUME NEW i \in 1..l - 1 PROVE (a \o b)[i] = IF i < n THEN s[i] ELSE s[i + 1]
  <2>1. CASE i < n
    <3>1. i <= n - 1 /\ i \in 1..n - 1
      BY <1>1, <2>1
    <3>2. QED
      BY <1>3, <1>5, <2>1, <3>1
  <2>2. CASE ~(i < n)
    <3>1. ~(i <= n - 1) /\ i - (n - 1) \in 1..l - n /\ n + (i - (n - 1)) = i + 1
      BY <1>1, <2>2
    <3>2. QED
      BY <1>4, <1>5, <2>2, <3>1
  <2>3. QED
    BY <2>1, <2>2
<1>7. QED
  BY <1>2, <1>5, <1>6 DEF l

\* What a sequence has, it still has, but for the one removed.
LEMMA Removed ==
  ASSUME NEW S, NEW s \in Seq(S), NEW n \in 1..Len(s)
  PROVE  RemoveAt(s, n) \in Seq(S) /\ Elements(s) \ {s[n]} \subseteq Elements(RemoveAt(s, n))
<1> DEFINE r == RemoveAt(s, n)
           l == Len(s)
<1>1. /\ l \in Nat /\ n \in 1..l /\ DOMAIN s = 1..l
      /\ r \in Seq(S) /\ DOMAIN r = 1..l - 1
      /\ \A i \in 1..l - 1 : r[i] = IF i < n THEN s[i] ELSE s[i + 1]
  <2>1. r \in Seq(S) /\ Len(r) = l - 1
    BY RemovedIs
  <2>2. DOMAIN r = 1..l - 1
    BY <2>1, LenProperties
  <2>3. \A i \in 1..l - 1 : r[i] = IF i < n THEN s[i] ELSE s[i + 1]
    BY RemovedIs
  <2>4. l \in Nat /\ n \in 1..l /\ DOMAIN s = 1..l
    OBVIOUS
  <2>5. QED
    BY <2>1, <2>2, <2>3, <2>4, Zenon
<1> HIDE DEF r, l
<1>2. ASSUME NEW i \in 1..l, i # n PROVE \E j \in DOMAIN r : r[j] = s[i]
  <2>1. CASE i < n
    <3>1. i \in 1..l - 1
      BY <1>1, <2>1
    <3>2. QED
      BY <1>1, <2>1, <3>1
  <2>2. CASE i > n
    <3>1. i - 1 \in 1..l - 1 /\ ~(i - 1 < n) /\ (i - 1) + 1 = i
      BY <1>1, <2>2
    <3>2. QED
      BY <1>1, <3>1
  <2>3. QED
    BY <1>1, <1>2, <2>1, <2>2
<1>3. QED
  BY <1>1, <1>2 DEF Elements, r

\* What is written.
LEMMA Texts ==
  ASSUME NEW k \in Kinds
  PROVE  Text(k) \in Seq(Byte) /\ Append(Text(k), Nul) \in Seq(Byte)
<1> DEFINE n == IF k = "long" THEN BufSize ELSE 2
<1>1. n \in Nat
  OBVIOUS
<1>2. Text(k) = [i \in 1..n |-> k]
  BY DEF Text
<1>3. [i \in 1..n |-> k] \in Seq(Byte)
  <2>1. k \in Byte
    BY DEF Byte
  <2>2. QED
    BY <1>1, <2>1, SeqDef
<1>4. Nul \in Byte
  BY DEF Byte
<1>5. QED
  BY <1>2, <1>3, <1>4

-----------------------------------------------------------------------------
(* The steps.                                                              *)

\* A step of a client.
LEMMA ClientTypes ==
  ASSUME IInv, NEW c \in Conns, ClientStep(c), UNCHANGED serverVars
  PROVE  IInv'
<1>1. (ServerTypeOK /\ pc.i >= 1 /\ (pc.at \in {"parse", "send"} => pc.i <= Len(connections)))'
  BY DEF IInv, TypeOK, ServerTypeOK, Places, serverVars
<1>2. CASE Connect(c)
  BY <1>1, <1>2 DEF IInv, TypeOK, Places, SocketTypeOK, ClientTypeOK, Connect
<1>3. CASE Write(c)
  <2>1. at[c] \in Nat /\ at[c] >= 1 /\ Script[c] \in Seq(Kinds)
    BY DEF IInv, TypeOK, ClientTypeOK, Places
  <2>2. at[c] \in 1..Len(Script[c])
    BY <1>3, <2>1 DEF Write, ScriptDone
  <2>3. Packet(c, at[c]) \in Seq(Byte)
    BY <2>1, <2>2, Texts DEF Packet
  <2>4. toServer[c] \o Packet(c, at[c]) \in Seq(Byte)
    BY <2>3, ConcatProperties DEF IInv, TypeOK, SocketTypeOK
  <2>5. SocketTypeOK'
    BY <1>3, <2>4 DEF Write, IInv, TypeOK, SocketTypeOK
  <2>6. ClientTypeOK' /\ \A d \in Conns : at'[d] >= 1
    <3>1. /\ phase' = phase \/ phase' = [phase EXCEPT ![c] = "reading"]
          /\ at' = at \/ at' = [at EXCEPT ![c] = @ + 1]
          /\ got' = got
      BY <1>3 DEF Write
    <3>2. ClientTypeOK
      BY DEF IInv, TypeOK
    <3>3. /\ phase' \in [Conns -> {"new", "ready", "reading", "left"}]
          /\ got' \in [Conns -> Seq(Byte)]
      BY <3>1, <3>2 DEF ClientTypeOK
    <3>4. at' \in [Conns -> Nat] /\ \A d \in Conns : at'[d] >= 1
      <4>1. at \in [Conns -> Nat] /\ \A d \in Conns : at[d] >= 1
        BY <3>2 DEF ClientTypeOK, IInv, Places
      <4>2. at[c] + 1 \in Nat /\ at[c] + 1 >= 1
        BY <4>1
      <4>3. QED
        BY <3>1, <4>1, <4>2
    <3>5. QED
      BY <3>3, <3>4 DEF ClientTypeOK
  <2>7. QED
    BY <1>1, <2>5, <2>6 DEF IInv, TypeOK, Places
<1>4. CASE Read(c)
  <2>1. got[c] \o toClient[c] \in Seq(Byte)
    BY ConcatProperties DEF IInv, TypeOK, SocketTypeOK, ClientTypeOK
  <2>2. SocketTypeOK'
    BY <1>4 DEF Read, IInv, TypeOK, SocketTypeOK
  <2>3. ClientTypeOK' /\ \A d \in Conns : at'[d] >= 1
    <3>1. /\ phase' = phase \/ phase' = [phase EXCEPT ![c] = "ready"]
          /\ at' = at \/ at' = [at EXCEPT ![c] = @ + 1]
          /\ \/ got' = [got EXCEPT ![c] = <<>>]
             \/ got' = [got EXCEPT ![c] = @ \o toClient[c]]
      BY <1>4 DEF Read
    <3>2. ClientTypeOK
      BY DEF IInv, TypeOK
    <3>3. phase' \in [Conns -> {"new", "ready", "reading", "left"}]
      BY <3>1, <3>2 DEF ClientTypeOK
    <3>4. got' \in [Conns -> Seq(Byte)]
      <4>1. got \in [Conns -> Seq(Byte)] /\ <<>> \in Seq(Byte)
        BY <3>2, EmptySeq DEF ClientTypeOK
      <4>2. CASE got' = [got EXCEPT ![c] = <<>>]
        BY <4>1, <4>2
      <4>3. CASE got' = [got EXCEPT ![c] = @ \o toClient[c]]
        BY <2>1, <4>1, <4>3
      <4>4. QED
        BY <3>1, <4>2, <4>3
    <3>5. at' \in [Conns -> Nat] /\ \A d \in Conns : at'[d] >= 1
      <4>1. at \in [Conns -> Nat] /\ \A d \in Conns : at[d] >= 1
        BY <3>2 DEF ClientTypeOK, IInv, Places
      <4>2. at[c] + 1 \in Nat /\ at[c] + 1 >= 1
        BY <4>1
      <4>3. QED
        BY <3>1, <4>1, <4>2
    <3>6. QED
      BY <3>3, <3>4, <3>5 DEF ClientTypeOK
  <2>4. QED
    BY <1>1, <2>2, <2>3 DEF IInv, TypeOK, Places
<1>5. CASE Leave(c)
  <2>1. SocketTypeOK'
    BY <1>5 DEF Leave, CloseByClient, IInv, TypeOK, SocketTypeOK
  <2>2. ClientTypeOK' /\ \A d \in Conns : at'[d] >= 1
    BY <1>5 DEF Leave, IInv, TypeOK, ClientTypeOK, Places
  <2>3. QED
    BY <1>1, <2>1, <2>2 DEF IInv, TypeOK, Places
<1>6. QED
  BY <1>2, <1>3, <1>4, <1>5 DEF ClientStep

\* The callback.
LEMMA CommandTypes ==
  ASSUME IInv, NEW c \in Conns, NEW text \in Seq(Byte), OnCommand(c, text)
  PROVE  /\ executed' \in [Conns -> Seq(Seq(Byte))]
         /\ response' \in [Conns -> Seq(Byte)]
         /\ subscribed' \in Seq(Conns)
<1> USE DEF IInv, TypeOK, ServerTypeOK
<1>1. /\ "answer" \in Byte /\ "news" \in Byte /\ Nul \in Byte
  BY DEF Byte, Replies
<1>2. <<"answer", Nul>> \in Seq(Byte) /\ <<"news", Nul>> \in Seq(Byte)
  BY <1>1
<1>3. executed' \in [Conns -> Seq(Seq(Byte))]
  <2>1. Append(executed[c], text) \in Seq(Seq(Byte))
    BY AppendProperties
  <2>2. QED
    BY <2>1 DEF OnCommand
<1>4. CASE response' = [response EXCEPT ![c] = Sent(c, "answer")] /\ UNCHANGED subscribed
  BY <1>2, <1>3, <1>4 DEF Sent
<1>5. CASE subscribed' = Append(subscribed, c) /\ UNCHANGED response
  BY <1>3, <1>5, AppendProperties
<1>6. CASE Announce
  <2>1. subscribed' \in Seq(Conns)
    BY <1>6 DEF Announce
  <2>2. response' \in [Conns -> Seq(Byte)]
    BY <1>2, <1>6 DEF Announce
  <2>3. QED
    BY <1>3, <2>1, <2>2
<1>7. CASE UNCHANGED <<response, subscribed>>
  BY <1>3, <1>7
<1>8. QED
  BY <1>4, <1>5, <1>6, <1>7 DEF OnCommand

\* The connection the tick is at.
LEMMA HereIsOne ==
  ASSUME IInv, pc.at \in {"parse", "send"} \/ More
  PROVE  pc.i \in 1..Len(connections) /\ Here \in Conns /\ Here \in Elements(connections)
<1>1. pc.i \in Nat /\ pc.i >= 1 /\ connections \in Seq(Conns) /\ Len(connections) \in Nat
  BY DEF IInv, TypeOK, ServerTypeOK, Places
<1>2. pc.i \in 1..Len(connections)
  BY <1>1 DEF IInv, Places, More
<1>3. QED
  BY <1>1, <1>2, ElementOfSeq DEF Here, Elements


Pcs == [at : {"sleep", "recv", "parse", "send", "purge"}, i : Nat]

\* Where the tick goes.
LEMMA Going ==
  ASSUME NEW label \in {"sleep", "recv", "parse", "send", "purge"}, NEW i \in Nat, Go(label, i)
  PROVE  pc' \in Pcs /\ pc'.at = label /\ pc'.i = i
BY DEF Go, Pcs

\* What a step of the server has to leave of the right type.
LEMMA ServerTypes ==
  ASSUME IInv, UNCHANGED <<clientVars, left>>,
         backlog' \in Seq(Conns), toServer' \in [Conns -> Seq(Byte)],
         toClient' \in [Conns -> Seq(Byte)], reset' \subseteq reset,
         connections' \in Seq(Conns), cur_command' \in [Conns -> Seq(Byte)],
         response' \in [Conns -> Seq(Byte)], to_purge' \subseteq Elements(connections)',
         subscribed' \in Seq(Conns), job' \in {"ticking", "finished", "erased"},
         killed' \in BOOLEAN, chunk' \in Seq(Byte), executed' \in [Conns -> Seq(Seq(Byte))],
         pc' \in Pcs, pc'.i >= 1,
         pc'.at \in {"parse", "send"} => pc'.i <= Len(connections)'
  PROVE  IInv'
<1>1. ClientTypeOK' /\ \A c \in Conns : at'[c] >= 1
  BY DEF IInv, TypeOK, Places, ClientTypeOK, clientVars
<1>2. SocketTypeOK'
  BY DEF IInv, TypeOK, SocketTypeOK
<1>3. ServerTypeOK'
  BY DEF ServerTypeOK, Elements, Pcs
<1>4. QED
  BY <1>1, <1>2, <1>3 DEF IInv, TypeOK, Places

\* What a step finds.
LEMMA ServerTyped ==
  ASSUME IInv
  PROVE  /\ backlog \in Seq(Conns) /\ toServer \in [Conns -> Seq(Byte)]
         /\ toClient \in [Conns -> Seq(Byte)] /\ reset \subseteq left
         /\ connections \in Seq(Conns) /\ cur_command \in [Conns -> Seq(Byte)]
         /\ response \in [Conns -> Seq(Byte)] /\ to_purge \subseteq Elements(connections)
         /\ subscribed \in Seq(Conns) /\ job \in {"ticking", "finished", "erased"}
         /\ killed \in BOOLEAN /\ chunk \in Seq(Byte) /\ executed \in [Conns -> Seq(Seq(Byte))]
         /\ pc \in Pcs /\ pc.i \in Nat /\ pc.i >= 1
         /\ pc.at \in {"parse", "send"} => pc.i <= Len(connections)
         /\ Len(connections) \in Nat
BY DEF IInv, TypeOK, SocketTypeOK, ServerTypeOK, Places, Elements, Pcs

\* A tick begins, or a finished job is dropped.
LEMMA SleepTypes ==
  ASSUME IInv, EraseJob \/ Accept, UNCHANGED clientVars
  PROVE  IInv'
<1>1. CASE EraseJob
  <2>1. /\ UNCHANGED sockVars
        /\ UNCHANGED <<connections, cur_command, response, to_purge, subscribed, killed, pc, chunk,
                       executed>>
        /\ job' = "erased"
    BY <1>1 DEF EraseJob
  <2>2. QED
    BY <2>1, ServerTyped, ServerTypes DEF sockVars, Elements
<1>2. CASE Accept
  <2>1. /\ UNCHANGED <<toServer, toClient, left, reset, cur_command, response, to_purge, subscribed,
                       job, killed, chunk, executed>>
        /\ pc' \in Pcs /\ pc'.i = 1 /\ pc'.at = "recv"
    BY <1>2, Going DEF Accept
  <2>2. /\ backlog' \in Seq(Conns) /\ connections' \in Seq(Conns)
        /\ Elements(connections) \subseteq Elements(connections)'
    <3>1. CASE backlog = <<>>
      BY <1>2, <3>1, ServerTyped DEF Accept, Elements
    <3>2. CASE backlog # <<>>
      <4>1. /\ Head(backlog) \in Conns /\ Tail(backlog) \in Seq(Conns)
            /\ backlog' = Tail(backlog)
            /\ connections' = Append(connections, Head(backlog))
        BY <1>2, <3>2, ServerTyped, HeadTailProperties DEF Accept
      <4>2. /\ connections' \in Seq(Conns) /\ Len(connections') = Len(connections) + 1
            /\ \A i \in 1..Len(connections) : connections'[i] = connections[i]
        BY <4>1, ServerTyped, AppendProperties
      <4>3. /\ DOMAIN connections = 1..Len(connections)
            /\ DOMAIN connections' = 1..Len(connections')
        BY <4>2, ServerTyped, LenProperties
      <4>4. \A i \in DOMAIN connections : i \in DOMAIN connections'
        BY <4>2, <4>3, ServerTyped
      <4>5. QED
        BY <4>1, <4>2, <4>3, <4>4 DEF Elements
    <3>3. QED
      BY <3>1, <3>2
  <2>3. QED
    BY <2>1, <2>2, ServerTyped, ServerTypes
<1>3. QED
  BY <1>1, <1>2

\* A recv.
LEMMA RecvTypes ==
  ASSUME IInv, Recv, UNCHANGED clientVars
  PROVE  IInv'
<1> DEFINE s == toServer[Here]
           n == IF Len(s) < BufSize THEN Len(s) ELSE BufSize
<1>1. pc.i \in 1..Len(connections) /\ Here \in Conns /\ Here \in Elements(connections)
  BY HereIsOne DEF Recv
<1>2. SubSeq(s, 1, n) \in Seq(Byte) /\ SubSeq(s, n + 1, Len(s)) \in Seq(Byte)
  <2>1. s \in Seq(Byte)
    BY <1>1, ServerTyped
  <2>2. Len(s) \in Nat
    BY <2>1
  <2>3. n \in 0..Len(s)
    BY <2>2
  <2>4. QED
    BY <2>1, <2>3, Parts
<1>3. /\ UNCHANGED <<backlog, toClient, left, connections, cur_command, response, subscribed,
                     killed, executed>>
      /\ reset' \subseteq reset
      /\ to_purge' = to_purge \/ to_purge' = to_purge \union {Here}
  BY DEF Recv
<1>4. job' = job \/ job' = "finished"
  BY DEF Recv, Fail
<1>5. Go("parse", pc.i) \/ Go("send", pc.i) \/ Go("sleep", 1)
  BY DEF Recv, Fail
<1>6. /\ chunk' = chunk \/ chunk' = SubSeq(s, 1, n)
      /\ \/ toServer' = toServer
         \/ toServer' = [toServer EXCEPT ![Here] = SubSeq(s, n + 1, Len(s))]
  BY DEF Recv
<1>7. chunk' \in Seq(Byte) /\ toServer' \in [Conns -> Seq(Byte)]
  BY <1>2, <1>6, ServerTyped
<1>8. pc' \in Pcs /\ pc'.i >= 1 /\ pc'.i <= Len(connections)
  BY <1>1, <1>5, Going
<1>9. to_purge' \subseteq Elements(connections)'
  BY <1>1, <1>3, ServerTyped DEF Elements
<1>10. QED
  BY <1>3, <1>4, <1>7, <1>8, <1>9, ServerTyped, ServerTypes

\* Looking at what was received.
LEMMA ParseTypes ==
  ASSUME IInv, ParseLetter \/ ParseNul \/ ParseOverflows \/ ParseEnds, UNCHANGED clientVars
  PROVE  IInv'
<1>1. pc.i \in 1..Len(connections) /\ Here \in Conns
  BY HereIsOne DEF ParseLetter, ParseNul, ParseOverflows, ParseEnds, At
<1>2. UNCHANGED <<sockVars, connections, to_purge, killed>>
  BY DEF ParseLetter, ParseNul, ParseOverflows, ParseEnds
<1>3. /\ UNCHANGED <<backlog, toServer, toClient, left, reset>>
      /\ to_purge' \subseteq Elements(connections)'
  BY <1>2, ServerTyped DEF sockVars, Elements
<1>4. job' = job \/ job' = "finished"
  BY DEF ParseLetter, ParseNul, ParseOverflows, ParseEnds, Fail
<1>5. pc' \in Pcs /\ pc'.i >= 1 /\ pc'.i <= Len(connections)
  <2>1. pc' = pc \/ Go("sleep", 1) \/ Go("send", pc.i)
    BY DEF ParseLetter, ParseNul, ParseOverflows, ParseEnds, Fail
  <2>2. QED
    <3>1. CASE pc' = pc
      BY <1>1, <3>1, ServerTyped
    <3>2. CASE Go("sleep", 1) \/ Go("send", pc.i)
      BY <1>1, <3>2, Going
    <3>3. QED
      BY <2>1, <3>1, <3>2
<1>6. chunk' \in Seq(Byte)
  <2>1. chunk' = chunk \/ (chunk # <<>> /\ chunk' = Tail(chunk)) \/ chunk' = <<>>
    BY DEF ParseLetter, ParseNul, ParseOverflows, ParseEnds
  <2>2. QED
    BY <2>1, ServerTyped, EmptySeq, HeadTailProperties
<1>7. cur_command' \in [Conns -> Seq(Byte)]
  <2>1. CASE ParseLetter
    <3>1. Append(cur_command[Here], Head(chunk)) \in Seq(Byte)
      BY <1>1, <2>1, ServerTyped, HeadTailProperties, AppendProperties DEF ParseLetter
    <3>2. cur_command' = [cur_command EXCEPT ![Here] = Append(@, Head(chunk))]
      BY <2>1 DEF ParseLetter
    <3>3. QED
      BY <3>1, <3>2, ServerTyped
  <2>2. CASE ParseNul
    <3>1. cur_command' = [cur_command EXCEPT ![Here] = <<>>]
      BY <2>2 DEF ParseNul
    <3>2. QED
      BY <3>1, ServerTyped, EmptySeq
  <2>3. CASE ParseOverflows \/ ParseEnds
    BY <2>3, ServerTyped DEF ParseOverflows, ParseEnds
  <2>4. QED
    BY <2>1, <2>2, <2>3
<1>8. /\ executed' \in [Conns -> Seq(Seq(Byte))]
      /\ response' \in [Conns -> Seq(Byte)]
      /\ subscribed' \in Seq(Conns)
  <2>1. CASE ParseNul
    <3>1. cur_command[Here] \in Seq(Byte)
      BY <1>1, ServerTyped
    <3>2. OnCommand(Here, cur_command[Here])
      BY <2>1 DEF ParseNul
    <3>3. QED
      BY <1>1, <3>1, <3>2, CommandTypes
  <2>2. CASE ParseLetter \/ ParseOverflows \/ ParseEnds
    BY <2>2, ServerTyped DEF ParseLetter, ParseOverflows, ParseEnds
  <2>3. QED
    BY <2>1, <2>2
<1>9. QED
  BY <1>2, <1>3, <1>4, <1>5, <1>6, <1>7, <1>8, ServerTyped, ServerTypes

\* A send; the end of the walk.
LEMMA SendTypes ==
  ASSUME IInv, Send \/ WalkEnds, UNCHANGED clientVars
  PROVE  IInv'
<1>1. CASE Send
  <2>1. pc.i \in 1..Len(connections) /\ Here \in Conns
    BY <1>1, HereIsOne DEF Send, At
  <2>2. toClient' \in [Conns -> Seq(Byte)] /\ response' \in [Conns -> Seq(Byte)]
    <3>1. CASE UNCHANGED <<response, toClient>>
      BY <3>1, ServerTyped
    <3> DEFINE r == response[Here]
    <3>2. ASSUME NEW n \in 1..Len(r),
                 toClient' = [toClient EXCEPT ![Here] = @ \o SubSeq(r, 1, n)],
                 response' = [response EXCEPT ![Here] = SubSeq(r, n + 1, Len(r))]
          PROVE  toClient' \in [Conns -> Seq(Byte)] /\ response' \in [Conns -> Seq(Byte)]
      <4>1. r \in Seq(Byte)
        BY <2>1, ServerTyped
      <4>2. n \in 0..Len(r)
        BY <4>1, <3>2
      <4>3. SubSeq(r, 1, n) \in Seq(Byte) /\ SubSeq(r, n + 1, Len(r)) \in Seq(Byte)
        BY <4>1, <4>2, Parts
      <4>4. toClient[Here] \o SubSeq(r, 1, n) \in Seq(Byte)
        BY <2>1, <4>3, ServerTyped, ConcatProperties
      <4>5. QED
        BY <3>2, <4>3, <4>4, ServerTyped
    <3>3. QED
      BY <1>1, <3>1, <3>2 DEF Send
  <2>3. /\ UNCHANGED <<backlog, toServer, left, reset, connections, cur_command, to_purge,
                       subscribed, job, chunk, executed>>
        /\ killed' = killed \/ killed' = TRUE
        /\ pc' = pc \/ Go("recv", pc.i + 1)
    BY <1>1 DEF Send
  <2>4. /\ pc' \in Pcs /\ pc'.i >= 1
        /\ pc'.at \in {"parse", "send"} => pc'.i <= Len(connections)
    <3>1. pc.i + 1 \in Nat
      BY <2>1
    <3>2. CASE Go("recv", pc.i + 1)
      BY <2>1, <3>1, <3>2, Going
    <3>3. QED
      BY <2>3, <3>2, ServerTyped
  <2>5. to_purge' \subseteq Elements(connections)'
    BY <2>3, ServerTyped DEF Elements
  <2>6. QED
    BY <2>2, <2>3, <2>4, <2>5, ServerTyped, ServerTypes
<1>2. CASE WalkEnds
  <2>1. /\ UNCHANGED <<sockVars, connections, cur_command, response, to_purge, subscribed, job,
                       killed, chunk, executed>>
        /\ Go("purge", 1)
    BY <1>2 DEF WalkEnds
  <2>2. pc' \in Pcs /\ pc'.at = "purge" /\ pc'.i = 1
    BY <2>1, Going
  <2>3. QED
    BY <2>1, <2>2, ServerTyped, ServerTypes DEF sockVars, Elements
<1>3. QED
  BY <1>1, <1>2

\* Connections are closed.
LEMMA PurgeTypes ==
  ASSUME IInv, Purge \/ PurgeNext, UNCHANGED clientVars
  PROVE  IInv'
<1>1. CASE Purge
  <2>1. pc.i \in 1..Len(connections) /\ Here \in Conns /\ pc.at = "purge"
    BY <1>1, HereIsOne DEF Purge, At
  <2>2. /\ executed' \in [Conns -> Seq(Seq(Byte))]
        /\ response' \in [Conns -> Seq(Byte)]
        /\ subscribed' \in Seq(Conns)
    <3>1. cur_command[Here] \in Seq(Byte)
      BY <2>1, ServerTyped
    <3>2. OnCommand(Here, cur_command[Here]) \/ UNCHANGED <<response, subscribed, executed>>
      BY <1>1 DEF Purge
    <3>3. CASE OnCommand(Here, cur_command[Here])
      BY <2>1, <3>1, <3>3, CommandTypes
    <3>4. QED
      BY <3>2, <3>3, ServerTyped
  <2>3. /\ connections' = RemoveAt(connections, pc.i) /\ to_purge' = to_purge \ {Here}
        /\ cur_command' = [cur_command EXCEPT ![Here] = <<>>]
        /\ UNCHANGED <<sockVars, job, killed, pc, chunk>>
    BY <1>1 DEF Purge
  <2>4. /\ connections' \in Seq(Conns)
        /\ Elements(connections) \ {Here} \subseteq Elements(connections)'
    <3>1. /\ RemoveAt(connections, pc.i) \in Seq(Conns)
          /\ Elements(connections) \ {connections[pc.i]} \subseteq
               Elements(RemoveAt(connections, pc.i))
      BY <2>1, ServerTyped, Removed
    <3>2. QED
      BY <2>3, <3>1 DEF Elements, Here
  <2>5. to_purge' \subseteq Elements(connections)'
    BY <2>3, <2>4, ServerTyped
  <2>6. cur_command' \in [Conns -> Seq(Byte)]
    BY <2>3, ServerTyped, EmptySeq
  <2>7. QED
    BY <2>1, <2>2, <2>3, <2>4, <2>5, <2>6, ServerTyped, ServerTypes DEF sockVars
<1>2. CASE PurgeNext
  <2>1. UNCHANGED <<sockVars, connections, cur_command, response, to_purge, subscribed, job,
                    killed, chunk, executed>>
    BY <1>2 DEF PurgeNext
  <2>2. pc' \in Pcs /\ pc'.i >= 1 /\ pc'.at \in {"purge", "sleep"}
    <3>1. Go("purge", pc.i + 1) \/ Go("sleep", 1)
      BY <1>2 DEF PurgeNext
    <3>2. pc.i + 1 \in Nat /\ pc.i + 1 >= 1
      BY ServerTyped
    <3>3. QED
      BY <3>1, <3>2, Going
  <2>3. QED
    BY <2>1, <2>2, ServerTyped, ServerTypes DEF sockVars, Elements
<1>3. QED
  BY <1>1, <1>2

-----------------------------------------------------------------------------

\* Every step keeps the types and the places.
LEMMA NextTypes == IInv /\ [Next]_vars => IInv'
<1> SUFFICES ASSUME IInv, [Next]_vars PROVE IInv'
  OBVIOUS
<1>1. CASE ServerStep /\ UNCHANGED clientVars
  BY <1>1, SleepTypes, RecvTypes, ParseTypes, SendTypes, PurgeTypes DEF ServerStep
<1>2. CASE \E c \in Conns : ClientStep(c) /\ UNCHANGED serverVars
  BY <1>2, ClientTypes
<1>3. CASE UNCHANGED vars
  BY <1>3 DEF IInv, TypeOK, SocketTypeOK, ClientTypeOK, ServerTypeOK, Places,
              vars, sockVars, clientVars, serverVars
<1>4. QED
  BY <1>1, <1>2, <1>3 DEF Next

\* At the start.
LEMMA InitTypes == Init => IInv
<1> SUFFICES ASSUME Init PROVE IInv
  OBVIOUS
<1>1. TypeOK
  <2>1. SocketTypeOK /\ ClientTypeOK
    BY DEF Init, SocketInit, ClientInit, SocketTypeOK, ClientTypeOK
  <2>2. ServerTypeOK
    BY EmptySeq DEF Init, ServerTypeOK
  <2>3. QED
    BY <2>1, <2>2 DEF TypeOK
<1>2. Places
  BY DEF Init, ClientInit, Places
<1>3. QED
  BY <1>1, <1>2 DEF IInv

\* The types of PxIPCServ (Raw_Server and its connections, and their clients):
\* among them, that only a connection of the list is ever marked to be closed.
THEOREM Types == Spec => []TypeOK
<1>1. Init => IInv
  BY InitTypes
<1>2. IInv /\ [Next]_vars => IInv'
  BY NextTypes
<1>3. IInv => TypeOK
  BY DEF IInv
<1>4. QED
  BY <1>1, <1>2, <1>3, PTL DEF Spec

\* Some naturals have a least one.  (With it an induction can be done over the
\* places of a sequence: of those where it fails there would be a first.)
LEMMA Least ==
  ASSUME NEW I \in SUBSET Nat, I # {}
  PROVE  \E n \in I : \A m \in I : n <= m
<1> DEFINE LessThan == {p \in Nat \X Nat : p[1] < p[2]}
<1>1. OpToRel(<, Nat) = LessThan
  BY Zenon DEF OpToRel
<1>2. IsWellFoundedOn(LessThan, Nat)
  BY <1>1, NatLessThanWellFounded
<1>3. \E n \in I : \A m \in I : <<m, n>> \notin LessThan
  <2> HIDE DEF LessThan
  <2>1. QED
    BY <1>2, WFMin
<1>4. \A m, n \in Nat : <<m, n>> \notin LessThan => ~(m < n)
  BY Zenon
<1>5. \A m, n \in Nat : ~(m < n) => n <= m
  OBVIOUS
<1> HIDE DEF LessThan
<1>6. QED
  BY <1>3, <1>4, <1>5

\* f[i] is the first i sequences of q, one after the other.
Joins(f, q, m) == f = [i \in 1..m |-> IF i = 1 THEN q[i] ELSE f[i - 1] \o q[i]]

\* There is such a function: what FlattenSeq defines is one.
LEMMA JoinsExist ==
  ASSUME NEW q, NEW m \in Nat
  PROVE  \E f : Joins(f, q, m)
<1> DEFINE I == {k \in Nat : ~\E f : Joins(f, q, k)}
<1> SUFFICES ASSUME I # {} PROVE FALSE
  OBVIOUS
<1>1. PICK k \in I : \A j \in I : k <= j
  <2> I \in SUBSET Nat
    OBVIOUS
  <2> HIDE DEF I
  <2>1. QED
    BY Least
<1>2. k \in Nat /\ ~\E f : Joins(f, q, k)
  OBVIOUS
<1>3. k # 0
  <2> DEFINE e == [i \in 1..0 |-> q]
  <2>1. \A i : i \notin 1..0
    OBVIOUS
  <2>2. e = [i \in 1..0 |-> IF i = 1 THEN q[i] ELSE e[i - 1] \o q[i]]
    BY <2>1, Zenon
  <2>3. QED
    BY <1>2, <2>2 DEF Joins
<1>4. k - 1 \in Nat /\ k - 1 \notin I
  <2>1. k - 1 \in Nat /\ ~(k <= k - 1)
    BY <1>2, <1>3
  <2> HIDE DEF I
  <2>2. QED
    BY <2>1, <1>1
<1>5. PICK f : Joins(f, q, k - 1)
  BY <1>4
<1> DEFINE g == [i \in 1..k |-> IF i = k THEN IF k = 1 THEN q[k] ELSE f[k - 1] \o q[k] ELSE f[i]]
<1>6. \A i \in 1..k : g[i] = IF i = 1 THEN q[i] ELSE g[i - 1] \o q[i]
  <2> SUFFICES ASSUME NEW i \in 1..k PROVE g[i] = IF i = 1 THEN q[i] ELSE g[i - 1] \o q[i]
    OBVIOUS
  <2>1. CASE i = k
    <3>1. i # 1 => i - 1 \in 1..k /\ i - 1 # k
      BY <1>2, <2>1
    <3>2. QED
      BY <2>1, <3>1
  <2>2. CASE i # k
    <3>1. i \in 1..k - 1 /\ (i # 1 => i - 1 \in 1..k /\ i - 1 # k)
      BY <1>2, <2>2
    <3>2. f[i] = IF i = 1 THEN q[i] ELSE f[i - 1] \o q[i]
      BY <1>5, <3>1 DEF Joins
    <3>3. QED
      BY <2>2, <3>1, <3>2
  <2>3. QED
    BY <2>1, <2>2
<1>7. Joins(g, q, k)
  <2>1. g = [i \in 1..k |-> g[i]]
    OBVIOUS
  <2> HIDE DEF g
  <2>2. QED
    BY <2>1, <1>6, Zenon DEF Joins
<1>8. QED
  BY <1>2, <1>7

\* So FlattenSeq is its last value.
LEMMA FlattenIs ==
  ASSUME NEW q, Len(q) \in Nat, Len(q) # 0
  PROVE  \E f : Joins(f, q, Len(q)) /\ FlattenSeq(q) = f[Len(q)]
<1> DEFINE F == CHOOSE f : f = [i \in 1..Len(q) |-> IF i = 1 THEN q[i] ELSE f[i - 1] \o q[i]]
<1>1. FlattenSeq(q) = F[Len(q)]
  BY Zenon DEF FlattenSeq
<1>2. Joins(F, q, Len(q))
  BY JoinsExist, Zenon DEF Joins
<1>3. QED
  BY <1>1, <1>2
\* What is joined does not depend on what comes behind.
LEMMA JoinsAgree ==
  ASSUME NEW B, NEW m \in Nat, NEW n \in Nat, m <= n, NEW q, NEW r, NEW f, NEW g,
         \A i \in 1..m : q[i] \in Seq(B) /\ q[i] = r[i],
         Joins(f, q, m), Joins(g, r, n)
  PROVE  \A i \in 1..m : f[i] \in Seq(B) /\ f[i] = g[i]
<1> DEFINE I == {i \in Nat : i \in 1..m /\ ~(f[i] \in Seq(B) /\ f[i] = g[i])}
<1> SUFFICES ASSUME I # {} PROVE FALSE
  <2>1. 1..m \subseteq Nat
    OBVIOUS
  <2>2. QED
    BY <2>1, Zenon
<1>1. PICK k \in I : \A j \in I : k <= j
  <2> I \in SUBSET Nat
    OBVIOUS
  <2> HIDE DEF I
  <2>1. QED
    BY Least
<1>2. /\ k \in Nat /\ k \in 1..m /\ k \in 1..n
      /\ ~(f[k] \in Seq(B) /\ f[k] = g[k])
  OBVIOUS
<1>3. q[k] \in Seq(B) /\ q[k] = r[k]
  BY <1>2
<1>4. /\ f[k] = IF k = 1 THEN q[k] ELSE f[k - 1] \o q[k]
      /\ g[k] = IF k = 1 THEN r[k] ELSE g[k - 1] \o r[k]
  <2> HIDE DEF I
  <2>1. QED
    BY <1>2 DEF Joins
<1>5. CASE k = 1
  BY <1>2, <1>3, <1>4, <1>5
<1>6. CASE k # 1
  <2>1. k - 1 \in Nat /\ k - 1 \in 1..m /\ ~(k <= k - 1)
    BY <1>2, <1>6
  <2>2. k - 1 \notin I
    <3> HIDE DEF I
    <3>1. QED
      BY <2>1, <1>1
  <2>3. f[k - 1] \in Seq(B) /\ f[k - 1] = g[k - 1]
    BY <2>1, <2>2
  <2> HIDE DEF I
  <2>4. QED
    BY <1>2, <1>3, <1>4, <1>6, <2>3, ConcatProperties
<1>7. QED
  BY <1>5, <1>6

\* Nothing joined.
LEMMA FlattenNone == FlattenSeq(<<>>) = <<>>
BY DEF FlattenSeq

\* What is joined is a sequence over the same set.
LEMMA FlattenTyped ==
  ASSUME NEW B, NEW q \in Seq(Seq(B))
  PROVE  FlattenSeq(q) \in Seq(B)
<1>1. CASE Len(q) = 0
  <2>1. q = <<>>
    BY <1>1
  <2>2. QED
    BY <2>1, FlattenNone, EmptySeq
<1>2. CASE Len(q) # 0
  <2>1. PICK f : Joins(f, q, Len(q)) /\ FlattenSeq(q) = f[Len(q)]
    BY <1>2, FlattenIs
  <2>2. Len(q) \in 1..Len(q) /\ Len(q) \in Nat /\ Len(q) <= Len(q)
    BY <1>2
  <2>3. \A i \in 1..Len(q) : q[i] \in Seq(B) /\ q[i] = q[i]
    OBVIOUS
  <2>4. \A i \in 1..Len(q) : f[i] \in Seq(B) /\ f[i] = f[i]
    BY <2>1, <2>2, <2>3, JoinsAgree
  <2>5. QED
    BY <2>1, <2>2, <2>4
<1>3. QED
  BY <1>1, <1>2

\* r is q, of m sequences, and one more.
OneMore(B, q, r, m) ==
  /\ Len(q) = m /\ Len(r) = m + 1
  /\ \A i \in 1..m : q[i] \in Seq(B) /\ q[i] = r[i]
  /\ r[m + 1] \in Seq(B)
  /\ m = 0 => q = <<>>

\* One sequence more, at the end.
LEMMA FlattenLonger ==
  ASSUME NEW B, NEW m \in Nat, NEW q, NEW r, OneMore(B, q, r, m)
  PROVE  FlattenSeq(r) = FlattenSeq(q) \o r[m + 1]
<1> USE DEF OneMore
<1>1. m + 1 \in Nat /\ m + 1 # 0 /\ m <= m + 1 /\ m + 1 \in 1..m + 1 /\ (m + 1) - 1 = m
  OBVIOUS
<1>2. PICK g : Joins(g, r, m + 1) /\ FlattenSeq(r) = g[m + 1]
  BY <1>1, FlattenIs
<1>3. g[m + 1] = IF m + 1 = 1 THEN r[m + 1] ELSE g[(m + 1) - 1] \o r[m + 1]
  BY <1>1, <1>2, Zenon DEF Joins
<1>5. CASE m = 0
  <2>1. FlattenSeq(q) = <<>>
    BY <1>5, FlattenNone
  <2>2. FlattenSeq(q) \o r[m + 1] = r[m + 1]
    BY <2>1, ConcatEmptySeq
  <2>3. QED
    BY <1>2, <1>3, <1>5, <2>2
<1>6. CASE m # 0
  <2>1. PICK f : Joins(f, q, m) /\ FlattenSeq(q) = f[m]
    BY <1>6, FlattenIs
  <2>2. \A i \in 1..m : f[i] \in Seq(B) /\ f[i] = g[i]
    BY <1>1, <1>2, <2>1, JoinsAgree
  <2>3. m \in 1..m /\ m + 1 # 1
    BY <1>6
  <2>4. f[m] = g[m]
    BY <2>2, <2>3
  <2>5. QED
    BY <1>1, <1>2, <1>3, <2>1, <2>3, <2>4
<1>7. QED
  BY <1>5, <1>6

-----------------------------------------------------------------------------
(* Bytes one after the other.                                              *)

\* Sequences can be put together in any order.
Associate(S) == \A x, y, z \in Seq(S) : (x \o y) \o z = x \o (y \o z)

LEMMA Associative == \A S : Associate(S)
BY ConcatAssociative DEF Associate

\* A sequence is its head and its tail.
LEMMA HeadAndTail ==
  ASSUME NEW S, NEW s \in Seq(S), s # <<>>
  PROVE  <<Head(s)>> \in Seq(S) /\ <<Head(s)>> \o Tail(s) = s
<1>1. /\ Head(s) \in S /\ Tail(s) \in Seq(S) /\ Len(s) \in Nat /\ Len(s) # 0
      /\ Len(Tail(s)) = Len(s) - 1
      /\ \A i \in 1..Len(s) - 1 : Tail(s)[i] = s[i + 1]
      /\ Head(s) = s[1]
  BY HeadTailProperties, EmptySeq
<1>2. <<Head(s)>> \in Seq(S) /\ Len(<<Head(s)>>) = 1 /\ <<Head(s)>>[1] = s[1]
  BY <1>1
<1> DEFINE h == <<Head(s)>>
           t == Tail(s)
<1> HIDE DEF h, t
<1>3. /\ h \o t \in Seq(S) /\ Len(h \o t) = Len(h) + Len(t)
      /\ \A i \in 1..Len(h) + Len(t) : (h \o t)[i] = IF i <= Len(h) THEN h[i] ELSE t[i - Len(h)]
  BY <1>1, <1>2, ConcatProperties DEF h, t
<1>4. Len(h) = 1 /\ Len(t) = Len(s) - 1 /\ Len(h) + Len(t) = Len(s)
  BY <1>1, <1>2 DEF h, t
<1>5. \A i \in 1..Len(s) : (h \o t)[i] = s[i]
  <2> SUFFICES ASSUME NEW i \in 1..Len(s) PROVE (h \o t)[i] = s[i]
    OBVIOUS
  <2>1. (h \o t)[i] = IF i <= 1 THEN h[i] ELSE t[i - 1]
    BY <1>3, <1>4
  <2>2. CASE i = 1
    BY <1>2, <2>1, <2>2 DEF h
  <2>3. CASE i # 1
    <3>1. i - 1 \in 1..Len(s) - 1 /\ ~(i <= 1) /\ (i - 1) + 1 = i
      BY <1>1, <2>3
    <3>2. QED
      BY <1>1, <2>1, <3>1 DEF t
  <2>4. QED
    BY <2>2, <2>3
<1>6. h \o t = s
  BY <1>3, <1>4, <1>5, SeqEqual
<1>7. QED
  BY <1>2, <1>6 DEF h, t

\* A byte moved from the front of s to the end of what is before.
LEMMA Moved ==
  ASSUME NEW S, NEW a \in Seq(S), NEW s \in Seq(S), NEW t \in Seq(S), s # <<>>
  PROVE  (Append(a, Head(s)) \o Tail(s)) \o t = (a \o s) \o t
<1>0. Associate(S)
  BY Associative
<1>1. Head(s) \in S /\ Tail(s) \in Seq(S) /\ <<Head(s)>> \in Seq(S) /\ <<Head(s)>> \o Tail(s) = s
  BY HeadTailProperties, HeadAndTail
<1>2. Append(a, Head(s)) = a \o <<Head(s)>>
  BY <1>1, AppendIsConcat
<1>3. (a \o <<Head(s)>>) \o Tail(s) = a \o (<<Head(s)>> \o Tail(s))
  BY <1>0, <1>1, Zenon DEF Associate
<1>4. QED
  BY <1>1, <1>2, <1>3

\* The front of s, taken out.
LEMMA Taken ==
  ASSUME NEW S, NEW a \in Seq(S), NEW s \in Seq(S), NEW n \in 0..Len(s)
  PROVE  (a \o SubSeq(s, 1, n)) \o SubSeq(s, n + 1, Len(s)) = (a \o <<>>) \o s
<1>0. Associate(S)
  BY Associative
<1>1. SubSeq(s, 1, n) \in Seq(S) /\ SubSeq(s, n + 1, Len(s)) \in Seq(S)
  BY Parts
<1>2. SubSeq(s, 1, n) \o SubSeq(s, n + 1, Len(s)) = s
  <2>1. Len(s) \in Nat /\ 1 \in 1..Len(s) + 1 /\ n \in 1 - 1 .. Len(s) /\ Len(s) \in n..Len(s)
    OBVIOUS
  <2>2. SubSeq(s, 1, n) \o SubSeq(s, n + 1, Len(s)) = SubSeq(s, 1, Len(s))
    BY <2>1, ConcatAdjacentSubSeq
  <2>3. QED
    BY <2>2, SubSeqFull
<1>3. (a \o SubSeq(s, 1, n)) \o SubSeq(s, n + 1, Len(s)) =
        a \o (SubSeq(s, 1, n) \o SubSeq(s, n + 1, Len(s)))
  BY <1>0, <1>1, Zenon DEF Associate
<1>4. a \o <<>> = a
  BY ConcatEmptySeq
<1>5. QED
  BY <1>2, <1>3, <1>4

\* A zero byte moved from the front of s behind the command it ends.
LEMMA Ended ==
  \A f, a, s, t \in Seq(Byte) :
    s # <<>> => (f \o Append(a, Head(s))) \o ((<<>> \o Tail(s)) \o t) = f \o ((a \o s) \o t)
<1> TAKE f, a, s, t \in Seq(Byte)
<1> HAVE s # <<>>
<1>0. Associate(Byte)
  BY Associative
<1> DEFINE h == Append(a, Head(s))
           u == Tail(s)
<1>1. h \in Seq(Byte) /\ u \in Seq(Byte)
  BY HeadTailProperties, AppendProperties
<1>2. (h \o u) \o t = (a \o s) \o t
  BY Moved
<1> HIDE DEF h, u
<1>3. u \o t \in Seq(Byte) /\ <<>> \o u = u
  BY <1>1, ConcatProperties, ConcatEmptySeq
<1>4. (f \o h) \o (u \o t) = f \o (h \o (u \o t))
  BY <1>0, <1>1, <1>3, Zenon DEF Associate
<1>5. (h \o u) \o t = h \o (u \o t)
  BY <1>0, <1>1, Zenon DEF Associate
<1>6. (f \o h) \o ((<<>> \o u) \o t) = f \o ((a \o s) \o t)
  BY <1>2, <1>3, <1>4, <1>5, Zenon
<1>7. QED
  BY <1>6 DEF h, u

\* More bytes at the end.
LEMMA Added ==
  \A f, a, t, x \in Seq(Byte) : f \o (a \o (t \o x)) = (f \o (a \o t)) \o x
<1> TAKE f, a, t, x \in Seq(Byte)
<1>0. Associate(Byte)
  BY Associative
<1>1. a \o t \in Seq(Byte)
  BY ConcatProperties
<1>2. a \o (t \o x) = (a \o t) \o x
  BY <1>0, Zenon DEF Associate
<1>3. f \o ((a \o t) \o x) = (f \o (a \o t)) \o x
  BY <1>0, <1>1, Zenon DEF Associate
<1>4. QED
  BY <1>2, <1>3, Zenon

\* A zero byte at the end.
LEMMA AppendedLast ==
  \A f, a \in Seq(Byte) : f \o Append(a, Nul) = Append(f \o a, Nul)
<1> TAKE f, a \in Seq(Byte)
<1>0. Associate(Byte)
  BY Associative
<1>1. Nul \in Byte /\ <<Nul>> \in Seq(Byte) /\ f \o a \in Seq(Byte)
  BY ConcatProperties DEF Byte
<1>2. Append(a, Nul) = a \o <<Nul>> /\ Append(f \o a, Nul) = (f \o a) \o <<Nul>>
  BY <1>1, AppendIsConcat
<1>3. (f \o a) \o <<Nul>> = f \o (a \o <<Nul>>)
  BY <1>0, <1>1, Zenon DEF Associate
<1>4. QED
  BY <1>2, <1>3, Zenon

-----------------------------------------------------------------------------
(* What is written and what is executed, byte by byte.                     *)

Frames(e) == FlattenSeq([i \in DOMAIN e |-> Append(e[i], Nul)])

\* The zero byte is a byte.
LEMMA NulTyped == Nul \in Byte
BY DEF Byte

\* No command, no bytes.
LEMMA NoFrames == Frames(<<>>) = <<>>
<1>1. [i \in DOMAIN <<>> |-> Append(<<>>[i], Nul)] = <<>>
  OBVIOUS
<1>2. QED
  BY <1>1, FlattenNone DEF Frames

\* The bytes of some commands.
LEMMA FramesTyped ==
  ASSUME NEW e \in Seq(Seq(Byte))
  PROVE  Frames(e) \in Seq(Byte)
<1> DEFINE q == [i \in DOMAIN e |-> Append(e[i], Nul)]
<1>1. DOMAIN e = 1..Len(e) /\ Len(e) \in Nat
  OBVIOUS
<1>2. \A i \in 1..Len(e) : Append(e[i], Nul) \in Seq(Byte)
  BY ElementOfSeq, AppendProperties, NulTyped
<1>3. q \in [1..Len(e) -> Seq(Byte)]
  BY <1>1, <1>2
<1>4. q \in Seq(Seq(Byte))
  BY <1>1, <1>3, SeqDef
<1> HIDE DEF q
<1>5. FlattenSeq(q) \in Seq(Byte)
  BY <1>4, FlattenTyped
<1>6. QED
  BY <1>5 DEF Frames, q

\* One command more.
LEMMA FramesAppend ==
  ASSUME NEW e \in Seq(Seq(Byte)), NEW x \in Seq(Byte)
  PROVE  Frames(Append(e, x)) = Frames(e) \o Append(x, Nul)
<1> DEFINE m == Len(e)
           q == [i \in DOMAIN e |-> Append(e[i], Nul)]
           g == Append(e, x)
           r == [i \in DOMAIN g |-> Append(g[i], Nul)]
<1>1. /\ m \in Nat /\ DOMAIN e = 1..m
      /\ g \in Seq(Seq(Byte)) /\ Len(g) = m + 1
      /\ \A i \in 1..m : g[i] = e[i]
      /\ g[m + 1] = x
  BY AppendProperties
<1>2. DOMAIN g = 1..m + 1
  BY <1>1
<1>3. \A i \in 1..m : e[i] \in Seq(Byte)
  BY ElementOfSeq, Zenon
<1>4. \A y \in Seq(Byte) : Append(y, Nul) \in Seq(Byte)
  BY AppendProperties, NulTyped
<1>9. m = 0 => e = <<>>
  OBVIOUS
<1> SUFFICES FlattenSeq(r) = FlattenSeq(q) \o Append(x, Nul)
  BY DEF Frames
<1> HIDE DEF m, g
<1>5. /\ q = [i \in 1..m |-> Append(e[i], Nul)] /\ r = [i \in 1..m + 1 |-> Append(g[i], Nul)]
  BY <1>1, <1>2, Zenon
<1>6. 1..m \subseteq 1..m + 1 /\ m + 1 \in 1..m + 1 /\ m + 1 \in Nat
  BY <1>1
<1> HIDE DEF q, r
<1>7. /\ \A i \in 1..m : q[i] \in Seq(Byte) /\ q[i] = r[i]
      /\ r[m + 1] = Append(x, Nul) /\ r[m + 1] \in Seq(Byte)
  <2>1. ASSUME NEW i \in 1..m PROVE q[i] \in Seq(Byte) /\ q[i] = r[i]
    <3>1. q[i] = Append(e[i], Nul)
      BY <1>5, Zenon
    <3>2. r[i] = Append(g[i], Nul)
      BY <1>5, <1>6, Zenon
    <3>3. QED
      BY <1>1, <1>3, <1>4, <3>1, <3>2, Zenon
  <2>2. r[m + 1] = Append(x, Nul)
    BY <1>1, <1>5, <1>6, Zenon
  <2>3. QED
    BY <1>4, <2>1, <2>2, Zenon
<1>8. OneMore(Byte, q, r, m)
  <2>1. Len(q) = m /\ Len(r) = m + 1
    BY <1>1, <1>5, <1>6
  <2>2. m = 0 => q = <<>>
    BY <1>5
  <2>3. QED
    BY <1>7, <2>1, <2>2, Zenon DEF OneMore
<1>10. \A n \in Nat : \A p, t : OneMore(Byte, p, t, n) => FlattenSeq(t) = FlattenSeq(p) \o t[n + 1]
  BY FlattenLonger, Zenon
<1>11. FlattenSeq(r) = FlattenSeq(q) \o r[m + 1]
  BY <1>1, <1>8, <1>10, Zenon
<1>12. QED
  BY <1>7, <1>11, Zenon

\* What is written for one command.
LEMMA PacketTyped ==
  ASSUME NEW c \in Conns, NEW n \in 1..Len(Script[c])
  PROVE  Packet(c, n) \in Seq(Byte)
<1>1. Script[c] \in Seq(Kinds)
  OBVIOUS
<1>2. Script[c][n] \in Kinds
  BY <1>1
<1>3. QED
  BY <1>2, Texts DEF Packet

\* Nothing is written at first.
LEMMA NoneWritten ==
  ASSUME NEW c \in Conns
  PROVE  Written(c, 0) = <<>>
<1>1. [i \in 1..0 |-> Packet(c, i)] = <<>>
  OBVIOUS
<1>2. QED
  BY <1>1, FlattenNone DEF Written

\* One command more is written.
LEMMA WrittenNext ==
  \A c \in Conns : \A n \in Nat :
    n + 1 <= Len(Script[c]) => Written(c, n + 1) = Written(c, n) \o Packet(c, n + 1)
<1> TAKE c \in Conns
<1> TAKE n \in Nat
<1> HAVE n + 1 <= Len(Script[c])
<1> DEFINE q == [i \in 1..n |-> Packet(c, i)]
           r == [i \in 1..n + 1 |-> Packet(c, i)]
<1>1. Script[c] \in Seq(Kinds)
  OBVIOUS
<1>2. Len(Script[c]) \in Nat /\ 1..n + 1 \subseteq 1..Len(Script[c])
  BY <1>1
<1>3. \A i \in 1..n + 1 : Packet(c, i) \in Seq(Byte)
  BY <1>2, PacketTyped
<1>4. 1..n \subseteq 1..n + 1 /\ n + 1 \in 1..n + 1 /\ n + 1 \in Nat
  OBVIOUS
<1>5. /\ \A i \in 1..n : q[i] = Packet(c, i) /\ r[i] = Packet(c, i)
      /\ r[n + 1] = Packet(c, n + 1)
  BY <1>4, Zenon
<1>6. Len(q) = n /\ Len(r) = n + 1 /\ (n = 0 => q = <<>>)
  BY <1>4
<1> SUFFICES FlattenSeq(r) = FlattenSeq(q) \o Packet(c, n + 1)
  BY DEF Written
<1> HIDE DEF q, r
<1>7. OneMore(Byte, q, r, n)
  BY <1>3, <1>4, <1>5, <1>6, Zenon DEF OneMore
<1>8. \A k \in Nat : \A p, t : OneMore(Byte, p, t, k) => FlattenSeq(t) = FlattenSeq(p) \o t[k + 1]
  BY FlattenLonger, Zenon
<1>9. FlattenSeq(r) = FlattenSeq(q) \o r[n + 1]
  BY <1>7, <1>8, Zenon
<1>10. QED
  BY <1>5, <1>9, Zenon

-----------------------------------------------------------------------------
(* The invariant.                                                          *)

\* The connections there are, accepted or not yet.
Comers == connections \o backlog

\* How much of its script c may have written: the commands before the one it is
\* at, and that one while it waits for the reply.
Reached(c) ==
  CASE phase[c] \in {"new", "ready"} -> {at[c] - 1}
    [] phase[c] = "reading" -> {at[c]}
    [] phase[c] = "left" -> {at[c] - 1, at[c]}

ClientsInv ==
  \A c \in Conns :
    /\ phase[c] = "left" <=> c \in left
    /\ at[c] - 1 <= Len(Script[c])
    /\ phase[c] = "reading" => at[c] <= Len(Script[c])
    /\ phase[c] = "new" => c \notin Elements(Comers)

Distinct(s) == \A i, j \in DOMAIN s : s[i] = s[j] => i = j

Silent(c) == c \in left /\ toServer[c] = <<>>
Closed(c) == Silent(c) /\ cur_command[c] = <<>> /\ c \notin Elements(Comers)

FramedAt(c, n) ==
  \/ Framed(c) \o Unread(c) = Written(c, n)
  \/ Closed(c) /\ Framed(c) = Append(Written(c, n), Nul)

FramingInv ==
  /\ \A c \in to_purge : Silent(c)
  /\ \A c \in Conns : \E n \in Reached(c) \intersect 0..Len(Script[c]) : FramedAt(c, n)

FInv == IInv /\ ClientsInv /\ Distinct(Comers) /\ (job = "ticking" => FramingInv)

-----------------------------------------------------------------------------
(* The list of connections.                                                *)

\* Without one of its places, a list without repetitions has none, and no longer
\* has what was there.
LEMMA RemovedDistinct ==
  ASSUME NEW S, NEW s \in Seq(S), NEW n \in 1..Len(s), Distinct(s)
  PROVE  /\ Distinct(RemoveAt(s, n))
         /\ Elements(RemoveAt(s, n)) \subseteq Elements(s) \ {s[n]}
<1> DEFINE r == RemoveAt(s, n)
           l == Len(s)
<1>1. /\ l \in Nat /\ n \in 1..l /\ DOMAIN s = 1..l /\ DOMAIN r = 1..l - 1
      /\ \A i \in 1..l - 1 : r[i] = IF i < n THEN s[i] ELSE s[i + 1]
  <2>1. r \in Seq(S) /\ Len(r) = l - 1
    BY RemovedIs
  <2>2. DOMAIN r = 1..l - 1
    BY <2>1, LenProperties
  <2>3. QED
    BY <2>2, RemovedIs
<1> HIDE DEF r, l
<1>2. \A i, j \in 1..l : s[i] = s[j] => i = j
  BY <1>1 DEF Distinct
<1>3. ASSUME NEW i \in 1..l - 1, NEW j \in 1..l - 1, r[i] = r[j] PROVE i = j
  <2>1. /\ i \in 1..l /\ i + 1 \in 1..l /\ j \in 1..l /\ j + 1 \in 1..l
    BY <1>1
  <2>2. CASE i < n /\ j < n
    BY <1>1, <1>2, <1>3, <2>1, <2>2
  <2>3. CASE ~(i < n) /\ ~(j < n)
    BY <1>1, <1>2, <1>3, <2>1, <2>3
  <2>4. CASE i < n /\ ~(j < n)
    <3>1. s[i] = s[j + 1]
      BY <1>1, <1>3, <2>4
    <3>2. QED
      BY <1>1, <1>2, <2>1, <2>4, <3>1
  <2>5. CASE ~(i < n) /\ j < n
    <3>1. s[i + 1] = s[j]
      BY <1>1, <1>3, <2>5
    <3>2. QED
      BY <1>1, <1>2, <2>1, <2>5, <3>1
  <2>6. QED
    BY <2>2, <2>3, <2>4, <2>5
<1>4. ASSUME NEW i \in 1..l - 1 PROVE r[i] \in Elements(s) \ {s[n]}
  <2>1. /\ i \in 1..l /\ i + 1 \in 1..l
    BY <1>1
  <2>2. CASE i < n
    BY <1>1, <1>2, <2>1, <2>2 DEF Elements
  <2>3. CASE ~(i < n)
    BY <1>1, <1>2, <2>1, <2>3 DEF Elements
  <2>4. QED
    BY <2>2, <2>3
<1>5. QED
  BY <1>1, <1>3, <1>4 DEF Distinct, Elements, r

\* What is removed from a list is removed from a longer one.
LEMMA RemovedBefore ==
  \A s, t \in Seq(Conns) : \A n \in 1..Len(s) :
    /\ RemoveAt(s, n) \o t = RemoveAt(s \o t, n)
    /\ n \in 1..Len(s \o t) /\ (s \o t)[n] = s[n]
<1> TAKE s, t \in Seq(Conns)
<1> TAKE n \in 1..Len(s)
<1> DEFINE u == s \o t
           a == RemoveAt(s, n)
           b == RemoveAt(u, n)
           l == Len(s)
           k == Len(t)
<1>1. /\ u \in Seq(Conns) /\ Len(u) = l + k
      /\ \A i \in 1..l + k : u[i] = IF i <= l THEN s[i] ELSE t[i - l]
      /\ l \in Nat /\ k \in Nat
  BY ConcatProperties
<1>2. n \in 1..l /\ n \in 1..Len(u) /\ u[n] = s[n]
  BY <1>1
<1>3. /\ a \in Seq(Conns) /\ Len(a) = l - 1
      /\ \A i \in 1..l - 1 : a[i] = IF i < n THEN s[i] ELSE s[i + 1]
  BY RemovedIs
<1> HIDE DEF u
<1>4. /\ b \in Seq(Conns) /\ Len(b) = (l + k) - 1
      /\ \A i \in 1..(l + k) - 1 : b[i] = IF i < n THEN u[i] ELSE u[i + 1]
  <2>1. /\ b \in Seq(Conns) /\ Len(b) = Len(u) - 1
        /\ \A i \in 1..Len(u) - 1 : b[i] = IF i < n THEN u[i] ELSE u[i + 1]
    BY <1>1, <1>2, RemovedIs
  <2>2. QED
    BY <1>1, <2>1
<1> HIDE DEF a, b
<1>5. /\ a \o t \in Seq(Conns) /\ Len(a \o t) = (l + k) - 1
      /\ \A i \in 1..(l + k) - 1 : (a \o t)[i] = IF i <= l - 1 THEN a[i] ELSE t[i - (l - 1)]
  <2>1. /\ a \o t \in Seq(Conns) /\ Len(a \o t) = Len(a) + k
        /\ \A i \in 1..Len(a) + k : (a \o t)[i] = IF i <= Len(a) THEN a[i] ELSE t[i - Len(a)]
    BY <1>3, ConcatProperties
  <2>2. Len(a) + k = (l + k) - 1
    BY <1>1, <1>3
  <2>3. QED
    BY <1>3, <2>1, <2>2
<1> HIDE DEF l, k
<1>6. ASSUME NEW i \in 1..(l + k) - 1 PROVE (a \o t)[i] = b[i]
  <2>1. CASE i < n
    <3>1. i <= l - 1 /\ i \in 1..l - 1 /\ i \in 1..l + k /\ i <= l
      BY <1>1, <1>2, <2>1
    <3>2. QED
      BY <1>1, <1>3, <1>4, <1>5, <2>1, <3>1
  <2>2. CASE ~(i < n) /\ i <= l - 1
    <3>1. i \in 1..l - 1 /\ i + 1 \in 1..l + k /\ i + 1 <= l
      BY <1>1, <1>2, <2>2
    <3>2. QED
      BY <1>1, <1>3, <1>4, <1>5, <2>2, <3>1
  <2>3. CASE ~(i <= l - 1)
    <3>0. l \in Nat /\ k \in Nat /\ n \in 1..l /\ i \in Nat /\ i \in 1..(l + k) - 1
      BY <1>1, <1>2
    <3>1. ~(i < n) /\ i + 1 \in 1..l + k /\ ~(i + 1 <= l) /\ (i + 1) - l = i - (l - 1)
      BY <2>3, <3>0
    <3>2. QED
      BY <1>1, <1>4, <1>5, <2>3, <3>1
  <2>4. QED
    BY <2>1, <2>2, <2>3
<1>7. a \o t = b
  BY <1>4, <1>5, <1>6, SeqEqual
<1>8. QED
  BY <1>2, <1>7 DEF a, b, u

\* A list without repetitions, and one more.
LEMMA AppendedDistinct ==
  ASSUME NEW S, NEW s \in Seq(S), NEW e \in S, e \notin Elements(s), Distinct(s)
  PROVE  Distinct(Append(s, e)) /\ Elements(Append(s, e)) = Elements(s) \union {e}
<1> DEFINE r == Append(s, e)
           l == Len(s)
<1>1. /\ l \in Nat /\ DOMAIN s = 1..l /\ DOMAIN r = 1..l + 1
      /\ \A i \in 1..l : r[i] = s[i]
      /\ r[l + 1] = e
  BY AppendProperties
<1> HIDE DEF r, l
<1>2. \A i \in 1..l + 1 : i \in 1..l \/ i = l + 1
  BY <1>1
<1>3. 1..l \subseteq 1..l + 1 /\ l + 1 \in 1..l + 1
  BY <1>1
<1>4. \A i \in 1..l : s[i] # e
  BY <1>1 DEF Elements
<1>5. \A i, j \in 1..l : s[i] = s[j] => i = j
  BY <1>1 DEF Distinct
<1>6. Distinct(r)
  <2> SUFFICES ASSUME NEW i \in 1..l + 1, NEW j \in 1..l + 1, r[i] = r[j] PROVE i = j
    BY <1>1 DEF Distinct
  <2>1. QED
    BY <1>1, <1>2, <1>4, <1>5
<1>7. Elements(r) = Elements(s) \union {e}
  BY <1>1, <1>2, <1>3 DEF Elements
<1>8. QED
  BY <1>6, <1>7 DEF r

\* What of the chunk is for c.
Chunk(c) == IF pc.at = "parse" /\ Here = c THEN chunk ELSE <<>>

\* The bytes of c, in the three places they are in.
LEMMA UnreadIs == \A c : Unread(c) = (cur_command[c] \o Chunk(c)) \o toServer[c]
BY DEF Unread, Chunk

\* The bytes of the commands executed for c.
LEMMA FramedIs == \A c : Framed(c) = Frames(executed[c])
BY DEF Framed, Frames

\* All these are sequences of bytes.
LEMMA BytesTyped ==
  ASSUME IInv, NEW c \in Conns
  PROVE  /\ cur_command[c] \in Seq(Byte) /\ toServer[c] \in Seq(Byte) /\ chunk \in Seq(Byte)
         /\ Chunk(c) \in Seq(Byte) /\ cur_command[c] \o Chunk(c) \in Seq(Byte)
         /\ Unread(c) \in Seq(Byte)
         /\ executed[c] \in Seq(Seq(Byte)) /\ Framed(c) \in Seq(Byte)
<1>1. /\ cur_command[c] \in Seq(Byte) /\ toServer[c] \in Seq(Byte) /\ chunk \in Seq(Byte)
      /\ executed[c] \in Seq(Seq(Byte))
  BY ServerTyped
<1>2. Chunk(c) \in Seq(Byte)
  BY <1>1, EmptySeq DEF Chunk
<1>3. cur_command[c] \o Chunk(c) \in Seq(Byte)
  BY <1>1, <1>2, ConcatProperties
<1>4. Unread(c) \in Seq(Byte)
  BY <1>1, <1>3, UnreadIs, ConcatProperties
<1>5. Framed(c) \in Seq(Byte)
  BY <1>1, FramedIs, FramesTyped
<1>6. QED
  BY <1>1, <1>2, <1>3, <1>4, <1>5

\* The connections are some of those there are.
LEMMA ComersTyped ==
  ASSUME IInv
  PROVE  Comers \in Seq(Conns) /\ Elements(connections) \subseteq Elements(Comers)
<1>1. connections \in Seq(Conns) /\ backlog \in Seq(Conns)
  BY ServerTyped
<1>2. /\ Comers \in Seq(Conns) /\ Len(Comers) = Len(connections) + Len(backlog)
      /\ \A i \in 1..Len(connections) + Len(backlog) :
           Comers[i] = IF i <= Len(connections) THEN connections[i]
                       ELSE backlog[i - Len(connections)]
  BY <1>1, ConcatProperties DEF Comers
<1>3. /\ DOMAIN Comers = 1..Len(connections) + Len(backlog)
      /\ DOMAIN connections = 1..Len(connections)
      /\ Len(connections) \in Nat /\ Len(backlog) \in Nat
  BY <1>1, <1>2, LenProperties
<1>4. \A i \in 1..Len(connections) :
        i \in 1..Len(connections) + Len(backlog) /\ Comers[i] = connections[i]
  BY <1>2, <1>3
<1>5. QED
  BY <1>2, <1>3, <1>4 DEF Elements

\* What a step of the server does with the bytes of c: it leaves them alone, or
\* takes some from what is unread to what is executed, or gives the last of them
\* their end and closes the connection.
Carried(c) ==
  \/ Framed(c)' = Framed(c) /\ Unread(c)' = Unread(c) /\ (Closed(c) => Closed(c)')
  \/ Framed(c)' \o Unread(c)' = Framed(c) \o Unread(c) /\ ~Closed(c)
  \/ Framed(c)' = Append(Framed(c) \o Unread(c), Nul) /\ ~Closed(c) /\ Closed(c)'

\* One connection, at a step of the server.
LEMMA ServerFrames ==
  ASSUME NEW c \in Conns, UNCHANGED <<clientVars, left>>,
         \E n \in Reached(c) \intersect 0..Len(Script[c]) : FramedAt(c, n), Carried(c)
  PROVE  (\E n \in Reached(c) \intersect 0..Len(Script[c]) : FramedAt(c, n))'
<1>1. PICK n \in Reached(c) \intersect 0..Len(Script[c]) : FramedAt(c, n)
  OBVIOUS
<1>2. Reached(c)' = Reached(c)
  BY DEF Reached, clientVars
<1>3. FramedAt(c, n)'
  BY <1>1, Zenon DEF FramedAt, Written, Packet, Text, Carried
<1>4. QED
  BY <1>1, <1>2, <1>3

\* What stays, at a step of the server that leaves c alone.
LEMMA Undisturbed ==
  ASSUME NEW c \in Conns, executed'[c] = executed[c], cur_command'[c] = cur_command[c],
         Chunk(c)' = Chunk(c), toServer'[c] = toServer[c], UNCHANGED left,
         Elements(Comers)' \subseteq Elements(Comers)
  PROVE  Carried(c)
<1>1. Framed(c)' = Framed(c)
  BY DEF Framed
<1>2. Unread(c)' = Unread(c)
  <2>1. Unread(c)' = (cur_command'[c] \o Chunk(c)') \o toServer'[c]
    BY DEF Unread, Chunk
  <2>2. QED
    BY <2>1, UnreadIs
<1>3. Closed(c) => Closed(c)'
  BY DEF Closed, Silent
<1>4. QED
  BY <1>1, <1>2, <1>3 DEF Carried

\* What a step of the server has to leave.
LEMMA ServerInv ==
  ASSUME FInv, IInv', UNCHANGED <<clientVars, left>>, Distinct(Comers)',
         Elements(Comers)' \subseteq Elements(Comers),
         job' = "ticking" => job = "ticking",
         job' = "ticking" =>
           /\ \A c \in to_purge' : Silent(c)'
           /\ \A c \in Conns : Carried(c)
  PROVE  FInv'
<1>1. ClientsInv'
  BY DEF FInv, ClientsInv, clientVars
<1>2. ASSUME job' = "ticking" PROVE FramingInv'
  <2>1. FramingInv
    BY <1>2 DEF FInv
  <2>2. \A c \in Conns : (\E n \in Reached(c) \intersect 0..Len(Script[c]) : FramedAt(c, n))'
    <3>1. TAKE c \in Conns
    <3>2. \E n \in Reached(c) \intersect 0..Len(Script[c]) : FramedAt(c, n)
      BY <2>1 DEF FramingInv
    <3>3. Carried(c)
      BY <1>2
    <3>4. QED
      BY <3>2, <3>3, ServerFrames
  <2>3. QED
    BY <1>2, <2>2 DEF FramingInv
<1>3. QED
  BY <1>1, <1>2 DEF FInv

\* A step of the server that looks at no byte and at no list.
LEMMA IdleFrames ==
  ASSUME FInv, IInv', UNCHANGED <<clientVars, backlog, toServer, left, connections, cur_command,
                            to_purge, executed>>,
         job' = "ticking" => pc.at # "parse" \/ chunk = <<>>,
         job' = "ticking" => job = "ticking" /\ pc'.at # "parse"
  PROVE  FInv'
<1>1. UNCHANGED left /\ UNCHANGED Comers /\ UNCHANGED toServer
  BY DEF Comers
<1>2. Distinct(Comers)' /\ Elements(Comers)' \subseteq Elements(Comers)
  BY <1>1 DEF FInv, Distinct, Elements
<1>3. ASSUME job' = "ticking", NEW c \in Conns PROVE Carried(c)
  <2>1. Chunk(c)' = Chunk(c)
    BY <1>3 DEF Chunk
  <2>2. QED
    BY <1>1, <1>2, <2>1, Undisturbed
<1>4. ASSUME job' = "ticking" PROVE \A c \in to_purge' : Silent(c)'
  BY <1>1, <1>4 DEF FInv, FramingInv, Silent
<1>5. QED
  BY <1>1, <1>2, <1>3, <1>4, ServerInv

\* A connection accepted goes from the one list to the other.
LEMMA AcceptFrames ==
  ASSUME FInv, IInv', Accept, UNCHANGED clientVars
  PROVE  FInv'
<1>1. /\ UNCHANGED <<toServer, left, cur_command, to_purge, executed, job>>
      /\ pc.at # "parse" /\ pc'.at # "parse"
  BY DEF Accept, At, Go
<1>2. Comers' = Comers
  <2>1. CASE backlog = <<>>
    BY <2>1 DEF Accept, Comers
  <2>2. CASE backlog # <<>>
    <3>1. connections \in Seq(Conns) /\ backlog \in Seq(Conns) /\ <<>> \in Seq(Conns)
      BY ServerTyped, EmptySeq DEF FInv
    <3>2. /\ (Append(connections, Head(backlog)) \o Tail(backlog)) \o <<>> =
               (connections \o backlog) \o <<>>
      BY <2>2, <3>1, Moved
    <3>3. Head(backlog) \in Conns /\ Tail(backlog) \in Seq(Conns)
      BY <2>2, <3>1, HeadTailProperties
    <3>4. Append(connections, Head(backlog)) \in Seq(Conns)
      BY <3>1, <3>3, AppendProperties
    <3>5. /\ Append(connections, Head(backlog)) \o Tail(backlog) \in Seq(Conns)
          /\ connections \o backlog \in Seq(Conns)
      BY <3>1, <3>3, <3>4, ConcatProperties
    <3>6. Append(connections, Head(backlog)) \o Tail(backlog) = connections \o backlog
      BY <3>2, <3>5, ConcatEmptySeq
    <3>7. QED
      BY <2>2, <3>6 DEF Accept, Comers
  <2>3. QED
    BY <2>1, <2>2
<1>3. Distinct(Comers)' /\ Elements(Comers)' \subseteq Elements(Comers)
  BY <1>2 DEF FInv, Distinct, Elements
<1>4. ASSUME NEW c \in Conns PROVE Carried(c)
  <2>1. Chunk(c)' = Chunk(c)
    BY <1>1 DEF Chunk
  <2>2. QED
    BY <1>1, <1>3, <2>1, Undisturbed
<1>5. ASSUME job' = "ticking" PROVE \A c \in to_purge' : Silent(c)'
  BY <1>1, <1>5 DEF FInv, FramingInv, Silent
<1>6. QED
  BY <1>1, <1>3, <1>4, <1>5, ServerInv

\* A recv takes the front of what was written.
LEMMA RecvFrames ==
  ASSUME FInv, IInv', Recv, UNCHANGED clientVars
  PROVE  FInv'
<1> DEFINE s == toServer[Here]
           n == IF Len(s) < BufSize THEN Len(s) ELSE BufSize
<1>1. Here \in Conns /\ Here \in Elements(connections) /\ Here \in Elements(Comers)
  BY HereIsOne, ComersTyped DEF Recv, FInv
<1>2. /\ UNCHANGED <<backlog, left, connections, cur_command, executed>>
      /\ pc.at = "recv"
  BY DEF Recv, At
<1>3. s \in Seq(Byte) /\ Len(s) \in Nat
  BY <1>1, BytesTyped DEF FInv
<1>4. n \in 0..Len(s) /\ (n = 0 => s = <<>>)
  BY <1>3
<1>5. CASE /\ UNCHANGED <<toServer, to_purge>>
           /\ (Go("send", pc.i) /\ job' = job) \/ (job' = "finished" /\ Go("sleep", 1))
  BY <1>2, <1>5, IdleFrames DEF Go, FInv
<1>6. CASE /\ n = 0 /\ Here \in left /\ to_purge' = to_purge \union {Here}
           /\ Go("send", pc.i) /\ UNCHANGED <<toServer, job>>
  <2>1. Comers' = Comers
    BY <1>2 DEF Comers
  <2>2. Distinct(Comers)' /\ Elements(Comers)' \subseteq Elements(Comers)
    BY <2>1 DEF FInv, Distinct, Elements
  <2>3. ASSUME NEW c \in Conns PROVE Carried(c)
    <3>1. Chunk(c)' = Chunk(c)
      BY <1>2, <1>6 DEF Chunk, Go
    <3>2. QED
      BY <1>2, <1>6, <2>2, <3>1, Undisturbed
  <2>4. ASSUME job' = "ticking" PROVE \A c \in to_purge' : Silent(c)'
    <3>1. \A c \in to_purge : Silent(c)
      BY <1>6, <2>4 DEF FInv, FramingInv
    <3>2. Silent(Here)
      BY <1>4, <1>6 DEF Silent
    <3>3. \A c : Silent(c)' <=> Silent(c)
      BY <1>2, <1>6 DEF Silent
    <3>4. QED
      BY <1>6, <3>1, <3>2, <3>3
  <2>5. QED
    BY <1>2, <1>6, <2>2, <2>3, <2>4, ServerInv
<1>7. CASE /\ n > 0 /\ chunk' = SubSeq(s, 1, n)
           /\ toServer' = [toServer EXCEPT ![Here] = SubSeq(s, n + 1, Len(s))]
           /\ Go("parse", pc.i) /\ UNCHANGED <<to_purge, job>>
  <2>1. Comers' = Comers /\ Here' = Here
    BY <1>2, <1>7 DEF Comers, Here, Go
  <2>2. Distinct(Comers)' /\ Elements(Comers)' \subseteq Elements(Comers)
    BY <2>1 DEF FInv, Distinct, Elements
  <2>3. \A c \in Conns : toServer'[c] = IF c = Here THEN SubSeq(s, n + 1, Len(s)) ELSE toServer[c]
    <3>1. toServer \in [Conns -> Seq(Byte)]
      BY ServerTyped DEF FInv
    <3>2. QED
      BY <1>7, <3>1
  <2>4. ASSUME NEW c \in Conns PROVE Carried(c)
    <3>1. Chunk(c)' = (IF c = Here THEN SubSeq(s, 1, n) ELSE <<>>) /\ Chunk(c) = <<>>
      BY <1>2, <1>7, <2>1 DEF Chunk, Go
    <3>2. CASE c = Here
      <4>1. Framed(c)' = Framed(c)
        BY <1>2 DEF Framed
      <4>2. Unread(c)' = (cur_command[c] \o SubSeq(s, 1, n)) \o SubSeq(s, n + 1, Len(s))
        <5>1. Unread(c)' = (cur_command'[c] \o Chunk(c)') \o toServer'[c]
          BY DEF Unread, Chunk
        <5>2. QED
          BY <1>2, <2>3, <3>1, <3>2, <5>1
      <4>3. Unread(c) = (cur_command[c] \o <<>>) \o s
        BY <3>1, <3>2, UnreadIs
      <4>4. cur_command[c] \in Seq(Byte)
        BY BytesTyped DEF FInv
      <4>5. Unread(c)' = Unread(c)
        <5> HIDE DEF s, n
        <5>1. QED
          BY <1>3, <1>4, <4>2, <4>3, <4>4, Taken
      <4>6. ~Closed(c)
        BY <1>1, <3>2 DEF Closed
      <4>7. QED
        BY <4>1, <4>5, <4>6 DEF Carried
    <3>3. CASE c # Here
      <4>1. Chunk(c)' = Chunk(c) /\ toServer'[c] = toServer[c]
        BY <2>3, <3>1, <3>3
      <4>2. QED
        BY <1>2, <2>2, <4>1, Undisturbed
    <3>4. QED
      BY <3>2, <3>3
  <2>5. ASSUME job' = "ticking" PROVE \A c \in to_purge' : Silent(c)'
    <3>1. \A c \in to_purge : Silent(c)
      BY <1>7, <2>5 DEF FInv, FramingInv
    <3>2. Here \notin to_purge
      BY <1>3, <1>7, <3>1, EmptySeq DEF Silent
    <3>3. to_purge \subseteq Conns
      BY DEF FInv, IInv, TypeOK, ServerTypeOK
    <3>4. QED
      BY <1>2, <1>7, <2>3, <3>1, <3>2, <3>3 DEF Silent
  <2>6. QED
    BY <1>2, <1>7, <2>2, <2>4, <2>5, ServerInv
<1>8. QED
  <2> HIDE DEF n
  <2>1. \/ n > 0 /\ chunk' = SubSeq(s, 1, n) /\ Go("parse", pc.i)
           /\ toServer' = [toServer EXCEPT ![Here] = SubSeq(s, n + 1, Len(s))]
           /\ UNCHANGED <<to_purge, job>>
        \/ /\ UNCHANGED <<toServer, to_purge>>
           /\ (Go("send", pc.i) /\ job' = job) \/ (job' = "finished" /\ Go("sleep", 1))
        \/ /\ n = 0 /\ Here \in left /\ to_purge' = to_purge \union {Here}
           /\ Go("send", pc.i) /\ UNCHANGED <<toServer, job>>
    BY DEF Recv, Fail, n
  <2>2. QED
    BY <2>1, <1>5, <1>6, <1>7

\* A letter goes from the chunk to the command.
LEMMA LetterFrames ==
  ASSUME FInv, IInv', ParseLetter, UNCHANGED clientVars
  PROVE  FInv'
<1>1. Here \in Conns /\ Here \in Elements(connections) /\ Here \in Elements(Comers)
  BY HereIsOne, ComersTyped DEF ParseLetter, At, FInv
<1>2. /\ UNCHANGED <<backlog, toServer, left, connections, to_purge, executed, job, pc>>
      /\ pc.at = "parse" /\ chunk # <<>> /\ chunk' = Tail(chunk)
      /\ cur_command' = [cur_command EXCEPT ![Here] = Append(@, Head(chunk))]
  BY DEF ParseLetter, At, sockVars
<1>3. Comers' = Comers /\ Here' = Here
  BY <1>2 DEF Comers, Here
<1>4. Distinct(Comers)' /\ Elements(Comers)' \subseteq Elements(Comers)
  BY <1>3 DEF FInv, Distinct, Elements
<1>5. cur_command \in [Conns -> Seq(Byte)]
  BY ServerTyped DEF FInv
<1>6. ASSUME NEW c \in Conns PROVE Carried(c)
  <2>1. CASE c = Here
    <3>1. Framed(c)' = Framed(c)
      BY <1>2 DEF Framed
    <3>2. Chunk(c) = chunk /\ Chunk(c)' = Tail(chunk)
      BY <1>2, <1>3, <2>1 DEF Chunk
    <3>3. cur_command'[c] = Append(cur_command[c], Head(chunk))
      BY <1>1, <1>2, <1>5, <2>1
    <3>4. Unread(c)' = (Append(cur_command[c], Head(chunk)) \o Tail(chunk)) \o toServer[c]
      <4>1. Unread(c)' = (cur_command'[c] \o Chunk(c)') \o toServer'[c]
        BY DEF Unread, Chunk
      <4>2. QED
        BY <1>2, <3>2, <3>3, <4>1
    <3>5. Unread(c) = (cur_command[c] \o chunk) \o toServer[c]
      BY <3>2, UnreadIs
    <3>6. cur_command[c] \in Seq(Byte) /\ chunk \in Seq(Byte) /\ toServer[c] \in Seq(Byte)
      BY BytesTyped DEF FInv
    <3>7. Unread(c)' = Unread(c)
      <4>1. \A a, s, t \in Seq(Byte) : s # <<>> =>
              (Append(a, Head(s)) \o Tail(s)) \o t = (a \o s) \o t
        BY Moved
      <4>2. QED
        BY <1>2, <3>4, <3>5, <3>6, <4>1, Zenon
    <3>8. ~Closed(c)
      BY <1>1, <2>1 DEF Closed
    <3>9. QED
      BY <3>1, <3>7, <3>8 DEF Carried
  <2>2. CASE c # Here
    <3>1. Chunk(c)' = Chunk(c) /\ cur_command'[c] = cur_command[c]
      BY <1>1, <1>2, <1>3, <1>5, <2>2 DEF Chunk
    <3>2. QED
      BY <1>2, <1>4, <3>1, Undisturbed
  <2>3. QED
    BY <2>1, <2>2
<1>7. ASSUME job' = "ticking" PROVE \A c \in to_purge' : Silent(c)'
  BY <1>2, <1>7 DEF FInv, FramingInv, Silent
<1>8. QED
  BY <1>2, <1>4, <1>6, <1>7, ServerInv

\* A zero byte ends the command, which is executed.
LEMMA NulFrames ==
  ASSUME FInv, IInv', ParseNul, UNCHANGED clientVars
  PROVE  FInv'
<1>1. Here \in Conns /\ Here \in Elements(connections) /\ Here \in Elements(Comers)
  BY HereIsOne, ComersTyped DEF ParseNul, At, FInv
<1>2. /\ UNCHANGED <<backlog, toServer, left, connections, to_purge, job, pc>>
      /\ pc.at = "parse" /\ chunk # <<>> /\ chunk' = Tail(chunk) /\ Head(chunk) = Nul
      /\ cur_command' = [cur_command EXCEPT ![Here] = <<>>]
      /\ executed' = [executed EXCEPT ![Here] = Append(@, cur_command[Here])]
  BY DEF ParseNul, OnCommand, At, sockVars
<1>3. Comers' = Comers /\ Here' = Here
  BY <1>2 DEF Comers, Here
<1>4. Distinct(Comers)' /\ Elements(Comers)' \subseteq Elements(Comers)
  BY <1>3 DEF FInv, Distinct, Elements
<1>5. cur_command \in [Conns -> Seq(Byte)] /\ executed \in [Conns -> Seq(Seq(Byte))]
  BY ServerTyped DEF FInv
<1>6. ASSUME NEW c \in Conns PROVE Carried(c)
  <2>1. CASE c = Here
    <3>1. Chunk(c) = chunk /\ Chunk(c)' = Tail(chunk)
      BY <1>2, <1>3, <2>1 DEF Chunk
    <3>2. cur_command'[c] = <<>> /\ executed'[c] = Append(executed[c], cur_command[c])
      BY <1>1, <1>2, <1>5, <2>1
    <3>3. /\ cur_command[c] \in Seq(Byte) /\ chunk \in Seq(Byte) /\ toServer[c] \in Seq(Byte)
          /\ Framed(c) \in Seq(Byte) /\ executed[c] \in Seq(Seq(Byte))
      BY BytesTyped DEF FInv
    <3>4. Framed(c)' = Framed(c) \o Append(cur_command[c], Head(chunk))
      <4>1. Framed(c)' = Frames(executed'[c])
        BY DEF Framed, Frames
      <4>2. QED
        BY <1>2, <3>2, <3>3, <4>1, FramedIs, FramesAppend
    <3>5. Unread(c)' = (<<>> \o Tail(chunk)) \o toServer[c]
      <4>1. Unread(c)' = (cur_command'[c] \o Chunk(c)') \o toServer'[c]
        BY DEF Unread, Chunk
      <4>2. QED
        BY <1>2, <3>1, <3>2, <4>1
    <3>6. Unread(c) = (cur_command[c] \o chunk) \o toServer[c]
      BY <3>1, UnreadIs
    <3>7. Framed(c)' \o Unread(c)' = Framed(c) \o Unread(c)
      <4>1. (Framed(c) \o Append(cur_command[c], Head(chunk)))
              \o ((<<>> \o Tail(chunk)) \o toServer[c]) =
            Framed(c) \o ((cur_command[c] \o chunk) \o toServer[c])
        <5>1. chunk # <<>>
          BY <1>2
        <5>2. QED
          BY <3>3, <5>1, Ended, Zenon
      <4>2. QED
        BY <3>4, <3>5, <3>6, <4>1, Zenon
    <3>8. ~Closed(c)
      BY <1>1, <2>1 DEF Closed
    <3>9. QED
      BY <3>7, <3>8 DEF Carried
  <2>2. CASE c # Here
    <3>1. Chunk(c)' = Chunk(c) /\ cur_command'[c] = cur_command[c] /\ executed'[c] = executed[c]
      BY <1>1, <1>2, <1>3, <1>5, <2>2 DEF Chunk
    <3>2. QED
      BY <1>2, <1>4, <3>1, Undisturbed
  <2>3. QED
    BY <2>1, <2>2
<1>7. ASSUME job' = "ticking" PROVE \A c \in to_purge' : Silent(c)'
  BY <1>2, <1>7 DEF FInv, FramingInv, Silent
<1>8. QED
  BY <1>2, <1>4, <1>6, <1>7, ServerInv

\* A connection is closed; what is left of a command is executed.
LEMMA PurgeFrames ==
  ASSUME FInv, IInv', Purge, UNCHANGED clientVars
  PROVE  FInv'
<1>1. Here \in Conns /\ Here \in Elements(connections) /\ Here \in Elements(Comers)
  BY HereIsOne, ComersTyped DEF Purge, FInv
<1>2. /\ UNCHANGED <<backlog, toServer, left, job, pc>>
      /\ pc.at = "purge" /\ Here \in to_purge /\ pc.i \in 1..Len(connections)
      /\ connections' = RemoveAt(connections, pc.i)
      /\ to_purge' = to_purge \ {Here}
      /\ cur_command' = [cur_command EXCEPT ![Here] = <<>>]
      /\ executed' = IF cur_command[Here] = <<>> THEN executed
                     ELSE [executed EXCEPT ![Here] = Append(@, cur_command[Here])]
  BY HereIsOne DEF Purge, OnCommand, At, sockVars, FInv
<1>3. Distinct(Comers)' /\ Elements(Comers)' \subseteq Elements(Comers) \ {Here}
  <2>1. connections \in Seq(Conns) /\ backlog \in Seq(Conns)
    BY ServerTyped DEF FInv
  <2>2. /\ Comers' = RemoveAt(Comers, pc.i)
        /\ pc.i \in 1..Len(Comers) /\ Comers[pc.i] = Here
    <3>1. /\ RemoveAt(connections, pc.i) \o backlog = RemoveAt(connections \o backlog, pc.i)
          /\ pc.i \in 1..Len(connections \o backlog)
          /\ (connections \o backlog)[pc.i] = connections[pc.i]
      <4>1. pc.i \in 1..Len(connections)
        BY <1>2
      <4>2. QED
        BY <2>1, <4>1, RemovedBefore, Zenon
    <3>2. QED
      BY <1>2, <3>1, Zenon DEF Comers, Here
  <2>3. Distinct(Comers) /\ Comers \in Seq(Conns)
    BY ComersTyped DEF FInv
  <2>4. /\ Distinct(RemoveAt(Comers, pc.i))
        /\ Elements(RemoveAt(Comers, pc.i)) \subseteq Elements(Comers) \ {Comers[pc.i]}
    BY <2>2, <2>3, RemovedDistinct
  <2>5. QED
    BY <2>2, <2>4 DEF Distinct, Elements
<1>4. cur_command \in [Conns -> Seq(Byte)] /\ executed \in [Conns -> Seq(Seq(Byte))]
  BY ServerTyped DEF FInv
<1>5. \A c : Chunk(c) = <<>> /\ Chunk(c)' = <<>>
  BY <1>2 DEF Chunk
<1>6. ASSUME job' = "ticking", NEW c \in Conns PROVE Carried(c)
  <2>1. CASE c = Here
    <3>1. Silent(c) /\ toServer[c] = <<>> /\ c \in left
      BY <1>2, <1>6, <2>1 DEF FInv, FramingInv, Silent
    <3>2. cur_command[c] \in Seq(Byte) /\ Framed(c) \in Seq(Byte) /\ executed[c] \in Seq(Seq(Byte))
      BY BytesTyped DEF FInv
    <3>3. Unread(c) = cur_command[c]
      <4>1. Unread(c) = (cur_command[c] \o <<>>) \o <<>>
        BY <1>5, <3>1, UnreadIs
      <4>2. QED
        BY <3>2, <4>1, ConcatEmptySeq
    <3>4. ~Closed(c)
      BY <1>1, <2>1 DEF Closed
    <3>5. cur_command'[c] = <<>>
      BY <1>1, <1>2, <1>4, <2>1
    <3>6. Closed(c)'
      BY <1>2, <1>3, <2>1, <3>1, <3>5 DEF Closed, Silent
    <3>7. CASE cur_command[c] = <<>>
      <4>1. Framed(c)' = Framed(c)
        BY <1>2, <2>1, <3>7 DEF Framed
      <4>2. Unread(c)' = (cur_command'[c] \o Chunk(c)') \o toServer'[c]
        BY DEF Unread, Chunk
      <4>3. Unread(c)' = Unread(c)
        BY <1>2, <1>5, <3>5, <3>7, <4>2, UnreadIs
      <4>4. QED
        BY <3>4, <4>1, <4>3 DEF Carried
    <3>8. CASE cur_command[c] # <<>>
      <4>1. executed'[c] = Append(executed[c], cur_command[c])
        BY <1>1, <1>2, <1>4, <2>1, <3>8
      <4>2. Framed(c)' = Framed(c) \o Append(cur_command[c], Nul)
        <5>1. Framed(c)' = Frames(executed'[c])
          BY DEF Framed, Frames
        <5>2. QED
          BY <3>2, <4>1, <5>1, FramedIs, FramesAppend
      <4>3. Framed(c)' = Append(Framed(c) \o cur_command[c], Nul)
        BY <3>2, <4>2, AppendedLast, Zenon
      <4>4. QED
        BY <3>3, <3>4, <3>6, <4>3 DEF Carried
    <3>9. QED
      BY <3>7, <3>8
  <2>2. CASE c # Here
    <3>1. Chunk(c)' = Chunk(c) /\ cur_command'[c] = cur_command[c] /\ executed'[c] = executed[c]
      BY <1>1, <1>2, <1>4, <1>5, <2>2
    <3>2. QED
      BY <1>2, <1>3, <3>1, Undisturbed
  <2>3. QED
    BY <2>1, <2>2
<1>7. ASSUME job' = "ticking" PROVE \A c \in to_purge' : Silent(c)'
  BY <1>2, <1>7 DEF FInv, FramingInv, Silent
<1>8. QED
  BY <1>2, <1>3, <1>6, <1>7, ServerInv

\* Every step of the server.
LEMMA ServerStepFrames ==
  ASSUME FInv, IInv', ServerStep, UNCHANGED clientVars
  PROVE  FInv'
<1>1. CASE EraseJob
  <2>1. job' = "erased" /\ UNCHANGED sockVars
        /\ UNCHANGED <<connections, cur_command, to_purge, executed>>
    BY <1>1 DEF EraseJob
  <2>2. QED
    BY <2>1, IdleFrames DEF sockVars
<1>2. CASE ParseOverflows
  <2>1. job' = "finished" /\ UNCHANGED sockVars
        /\ UNCHANGED <<connections, cur_command, to_purge, executed>>
    BY <1>2 DEF ParseOverflows, Fail
  <2>2. QED
    BY <2>1, IdleFrames DEF sockVars
<1>3. CASE ParseEnds \/ WalkEnds \/ PurgeNext
  <2>1. /\ UNCHANGED sockVars
        /\ UNCHANGED <<connections, cur_command, to_purge, executed, job>>
        /\ pc.at # "parse" \/ chunk = <<>>
        /\ pc'.at # "parse"
    BY <1>3 DEF ParseEnds, WalkEnds, PurgeNext, At, Go
  <2>2. QED
    BY <2>1, IdleFrames DEF sockVars
<1>4. CASE Send
  <2>1. /\ UNCHANGED <<backlog, toServer, left, connections, cur_command, to_purge, executed, job>>
        /\ pc.at # "parse" /\ pc'.at # "parse"
    BY <1>4 DEF Send, At, Go
  <2>2. QED
    BY <2>1, IdleFrames
<1>5. QED
  BY <1>1, <1>2, <1>3, <1>4, AcceptFrames, RecvFrames, LetterFrames, NulFrames, PurgeFrames
     DEF ServerStep

\* At a step of client c the others stay as they are; c may have written more.
LEMMA ClientFrames ==
  ASSUME FInv, IInv', NEW c \in Conns, UNCHANGED serverVars,
         Distinct(Comers)', ClientsInv',
         left' \subseteq left \union {c}, left \subseteq left',
         \A d \in Conns \ {c} : /\ phase'[d] = phase[d] /\ at'[d] = at[d]
                                /\ toServer'[d] = toServer[d]
                                /\ d \in Elements(Comers)' => d \in Elements(Comers),
         Silent(c) => Silent(c)',
         job = "ticking" =>
           \A n \in Reached(c) \intersect 0..Len(Script[c]) :
             FramedAt(c, n) =>
               \E k \in Reached(c)' \intersect 0..Len(Script[c]) : FramedAt(c, k)'
  PROVE  FInv'
<1>1. UNCHANGED <<connections, cur_command, to_purge, executed, job, pc, chunk>>
  BY DEF serverVars
<1>2. ASSUME job = "ticking", NEW d \in Conns
      PROVE  (\E n \in Reached(d) \intersect 0..Len(Script[d]) : FramedAt(d, n))'
  <2>1. PICK n \in Reached(d) \intersect 0..Len(Script[d]) : FramedAt(d, n)
    BY <1>2 DEF FInv, FramingInv
  <2>2. CASE d = c
    BY <1>2, <2>1, <2>2
  <2>3. CASE d # c
    <3>1. Reached(d)' = Reached(d)
      BY <2>3 DEF Reached
    <3>2. Framed(d)' = Framed(d)
      BY <1>1 DEF Framed
    <3>3. Unread(d)' = Unread(d)
      <4>1. Unread(d)' = (cur_command'[d] \o Chunk(d)') \o toServer'[d]
        BY DEF Unread, Chunk
      <4>2. Chunk(d)' = Chunk(d)
        BY <1>1 DEF Chunk, Here
      <4>3. QED
        BY <1>1, <2>3, <4>1, <4>2, UnreadIs
    <3>4. Closed(d) => Closed(d)'
      BY <1>1, <2>3 DEF Closed, Silent
    <3>5. FramedAt(d, n)'
      BY <2>1, <3>2, <3>3, <3>4, Zenon DEF FramedAt, Written, Packet, Text
    <3>6. QED
      BY <2>1, <3>1, <3>5
  <2>4. QED
    BY <2>2, <2>3
<1>3. ASSUME job = "ticking" PROVE \A d \in to_purge' : Silent(d)'
  <2>1. \A d \in to_purge : Silent(d) /\ d \in Conns
    BY <1>3 DEF FInv, FramingInv, IInv, TypeOK, ServerTypeOK
  <2>2. \A d \in Conns : Silent(d) => Silent(d)'
    BY DEF Silent
  <2>3. QED
    BY <1>1, <2>1, <2>2
<1>4. QED
  BY <1>1, <1>2, <1>3 DEF FInv, FramingInv

\* A connection is opened once.
LEMMA ConnectFrames ==
  ASSUME FInv, IInv', NEW c \in Conns, Connect(c), UNCHANGED serverVars
  PROVE  FInv'
<1>1. /\ phase[c] = "new" /\ phase' = [phase EXCEPT ![c] = "ready"]
      /\ UNCHANGED <<at, toServer, left, connections, cur_command, executed, pc, chunk>>
      /\ Comers' = connections \o Append(backlog, c)
  BY DEF Connect, serverVars, Comers
<1>2. phase \in [Conns -> {"new", "ready", "reading", "left"}]
  BY DEF FInv, IInv, TypeOK, ClientTypeOK
<1>3. c \notin Elements(Comers) /\ Comers \in Seq(Conns) /\ Distinct(Comers)
  BY <1>1, ComersTyped DEF FInv, ClientsInv
<1>4. Comers' = Append(Comers, c)
  <2>1. connections \in Seq(Conns) /\ backlog \in Seq(Conns) /\ <<c>> \in Seq(Conns)
    BY ServerTyped DEF FInv
  <2>2. Append(backlog, c) = backlog \o <<c>> /\ Append(Comers, c) = Comers \o <<c>>
    BY <1>3, <2>1, AppendIsConcat
  <2>3. Associate(Conns)
    BY Associative
  <2>4. connections \o (backlog \o <<c>>) = (connections \o backlog) \o <<c>>
    BY <2>1, <2>3, Zenon DEF Associate
  <2>5. QED
    BY <1>1, <2>2, <2>4, Zenon DEF Comers
<1>5. Distinct(Comers)' /\ Elements(Comers)' = Elements(Comers) \union {c}
  <2>1. /\ Distinct(Append(Comers, c))
        /\ Elements(Append(Comers, c)) = Elements(Comers) \union {c}
    BY <1>3, AppendedDistinct
  <2>2. QED
    BY <1>4, <2>1 DEF Distinct, Elements
<1>6. /\ phase'[c] = "ready"
      /\ \A d \in Conns \ {c} : phase'[d] = phase[d]
  BY <1>1, <1>2
<1>7. ClientsInv'
  BY <1>1, <1>5, <1>6 DEF FInv, ClientsInv
<1>8. Reached(c)' = Reached(c)
  BY <1>1, <1>6 DEF Reached
<1>9. ASSUME NEW n \in Reached(c) \intersect 0..Len(Script[c]), FramedAt(c, n)
      PROVE  \E k \in Reached(c)' \intersect 0..Len(Script[c]) : FramedAt(c, k)'
  <2>1. c \notin left
    BY <1>1 DEF FInv, ClientsInv
  <2>2. Framed(c) \o Unread(c) = Written(c, n)
    BY <1>9, <2>1 DEF FramedAt, Closed, Silent
  <2>3. Framed(c)' = Framed(c)
    BY <1>1 DEF Framed
  <2>4. Unread(c)' = Unread(c)
    <3>1. Unread(c)' = (cur_command'[c] \o Chunk(c)') \o toServer'[c]
      BY DEF Unread, Chunk
    <3>2. Chunk(c)' = Chunk(c)
      BY <1>1 DEF Chunk, Here
    <3>3. QED
      BY <1>1, <3>1, <3>2, UnreadIs
  <2>5. FramedAt(c, n)'
    BY <2>2, <2>3, <2>4, Zenon DEF FramedAt, Written, Packet, Text
  <2>6. QED
    BY <1>8, <2>5
<1>10. Silent(c) => Silent(c)'
  BY <1>1 DEF Silent
<1>11. QED
  BY <1>1, <1>5, <1>6, <1>7, <1>9, <1>10, ClientFrames

\* One command more is written.
LEMMA WriteFrames ==
  ASSUME FInv, IInv', NEW c \in Conns, Write(c), UNCHANGED serverVars
  PROVE  FInv'
<1> DEFINE x == Packet(c, at[c])
<1>1. /\ phase[c] = "ready" /\ ~ScriptDone(c)
      /\ toServer' = [toServer EXCEPT ![c] = @ \o x]
      /\ \/ phase' = [phase EXCEPT ![c] = "reading"] /\ at' = at
         \/ at' = [at EXCEPT ![c] = @ + 1] /\ phase' = phase
      /\ UNCHANGED <<backlog, left, connections, cur_command, executed, pc, chunk>>
  BY DEF Write, serverVars
<1>2. /\ phase \in [Conns -> {"new", "ready", "reading", "left"}] /\ at \in [Conns -> Nat]
      /\ toServer \in [Conns -> Seq(Byte)] /\ at[c] >= 1 /\ Script[c] \in Seq(Kinds)
  BY DEF FInv, IInv, TypeOK, SocketTypeOK, ClientTypeOK, Places
<1>3. /\ at[c] \in 1..Len(Script[c]) /\ at[c] - 1 \in Nat /\ (at[c] - 1) + 1 = at[c]
      /\ Len(Script[c]) \in Nat
  BY <1>1, <1>2 DEF ScriptDone
<1>4. /\ \/ phase'[c] = "reading" /\ at'[c] = at[c]
         \/ phase'[c] = "ready" /\ at'[c] = at[c] + 1
      /\ toServer'[c] = toServer[c] \o x
      /\ \A d \in Conns \ {c} : phase'[d] = phase[d] /\ at'[d] = at[d] /\ toServer'[d] = toServer[d]
  BY <1>1, <1>2
<1>5. Comers' = Comers
  BY <1>1 DEF Comers
<1>6. Distinct(Comers)' /\ Elements(Comers)' = Elements(Comers)
  BY <1>5 DEF FInv, Distinct, Elements
<1>7. ClientsInv'
  <2> SUFFICES ASSUME NEW d \in Conns
               PROVE  /\ phase'[d] = "left" <=> d \in left'
                      /\ at'[d] - 1 <= Len(Script[d])
                      /\ phase'[d] = "reading" => at'[d] <= Len(Script[d])
                      /\ phase'[d] = "new" => d \notin Elements(Comers)'
    BY DEF ClientsInv
  <2>1. /\ phase[d] = "left" <=> d \in left
        /\ at[d] - 1 <= Len(Script[d])
        /\ phase[d] = "reading" => at[d] <= Len(Script[d])
        /\ phase[d] = "new" => d \notin Elements(Comers)
    BY DEF FInv, ClientsInv
  <2>2. CASE d = c
    BY <1>1, <1>3, <1>4, <2>1, <2>2
  <2>3. CASE d # c
    BY <1>1, <1>4, <1>6, <2>1, <2>3
  <2>4. QED
    BY <2>2, <2>3
<1>8. c \notin left
  BY <1>1 DEF FInv, ClientsInv
<1>9. Reached(c) = {at[c] - 1} /\ Reached(c)' = {at[c]}
  <2>1. (at[c] + 1) - 1 = at[c]
    BY <1>3
  <2>2. QED
    BY <1>1, <1>4, <2>1 DEF Reached
<1>10. ASSUME NEW n \in Reached(c) \intersect 0..Len(Script[c]), FramedAt(c, n)
       PROVE  \E k \in Reached(c)' \intersect 0..Len(Script[c]) : FramedAt(c, k)'
  <2>1. n \in Nat /\ n + 1 = at[c] /\ n + 1 \in 1..Len(Script[c]) /\ n + 1 <= Len(Script[c])
    BY <1>3, <1>9
  <2>2. Framed(c) \o Unread(c) = Written(c, n)
    BY <1>8, <1>10 DEF FramedAt, Closed, Silent
  <2>3. Framed(c)' = Framed(c)
    BY <1>1 DEF Framed
  <2> DEFINE y == Packet(c, n + 1)
  <2>4. Unread(c)' = (cur_command[c] \o Chunk(c)) \o (toServer[c] \o y)
    <3>1. Unread(c)' = (cur_command'[c] \o Chunk(c)') \o toServer'[c]
      BY DEF Unread, Chunk
    <3>2. Chunk(c)' = Chunk(c)
      BY <1>1 DEF Chunk, Here
    <3>3. QED
      BY <1>1, <1>4, <2>1, <3>1, <3>2
  <2>5. y \in Seq(Byte)
    BY <2>1, PacketTyped
  <2>6. Written(c, n + 1) = Written(c, n) \o y
    BY <2>1, WrittenNext, Zenon
  <2>7. Framed(c)' \o Unread(c)' = (Framed(c) \o Unread(c)) \o y
    <3>1. /\ cur_command[c] \o Chunk(c) \in Seq(Byte) /\ toServer[c] \in Seq(Byte)
          /\ Framed(c) \in Seq(Byte)
      BY BytesTyped DEF FInv
    <3> DEFINE f == Framed(c)
               a == cur_command[c] \o Chunk(c)
               t == toServer[c]
    <3> HIDE DEF y, f, a, t
    <3>2. f \o (a \o (t \o y)) = (f \o (a \o t)) \o y
      <4>1. f \in Seq(Byte) /\ a \in Seq(Byte) /\ t \in Seq(Byte)
        BY <3>1 DEF f, a, t
      <4>2. QED
        BY <2>5, <4>1, Added
    <3>3. QED
      BY <2>3, <2>4, <3>2, UnreadIs, Zenon DEF f, a, t
  <2>8. Framed(c)' \o Unread(c)' = Written(c, n + 1)
    BY <2>2, <2>6, <2>7, Zenon
  <2>9. FramedAt(c, n + 1)'
    BY <2>8, Zenon DEF FramedAt, Written, Packet, Text
  <2>10. n + 1 \in Reached(c)' \intersect 0..Len(Script[c])
    BY <1>9, <2>1
  <2>11. QED
    BY <2>9, <2>10
<1>11. Silent(c) => Silent(c)'
  BY <1>8 DEF Silent
<1>12. QED
  BY <1>1, <1>4, <1>6, <1>7, <1>10, <1>11, ClientFrames

\* The bytes of a connection, at a step of its client that writes none.
LEMMA ClientKeeps ==
  ASSUME NEW c \in Conns, UNCHANGED <<serverVars, toServer, backlog>>, left \subseteq left',
         NEW n, FramedAt(c, n)
  PROVE  FramedAt(c, n)'
<1>1. UNCHANGED <<connections, cur_command, executed, pc, chunk, toServer, backlog>>
  BY DEF serverVars
<1>2. Framed(c)' = Framed(c)
  BY <1>1 DEF Framed
<1>3. Unread(c)' = Unread(c)
  <2>1. Unread(c)' = (cur_command'[c] \o Chunk(c)') \o toServer'[c]
    BY DEF Unread, Chunk
  <2>2. Chunk(c)' = Chunk(c)
    BY <1>1 DEF Chunk, Here
  <2>3. QED
    BY <1>1, <2>1, <2>2, UnreadIs
<1>4. Closed(c) => Closed(c)'
  BY <1>1 DEF Closed, Silent, Comers, Elements
<1>5. QED
  BY <1>2, <1>3, <1>4, Zenon DEF FramedAt, Written, Packet, Text

\* A reply is read, in whole or in part.
LEMMA ReadFrames ==
  ASSUME FInv, IInv', NEW c \in Conns, Read(c), UNCHANGED serverVars
  PROVE  FInv'
<1>1. /\ phase[c] = "reading"
      /\ \/ phase' = [phase EXCEPT ![c] = "ready"] /\ at' = [at EXCEPT ![c] = @ + 1]
         \/ phase' = phase /\ at' = at
      /\ UNCHANGED <<backlog, toServer, left, connections>>
  BY DEF Read, serverVars
<1>2. /\ phase \in [Conns -> {"new", "ready", "reading", "left"}] /\ at \in [Conns -> Nat]
      /\ at[c] >= 1 /\ Script[c] \in Seq(Kinds)
  BY DEF FInv, IInv, TypeOK, ClientTypeOK, Places
<1>3. /\ \/ phase'[c] = "ready" /\ at'[c] = at[c] + 1
         \/ phase'[c] = "reading" /\ at'[c] = at[c]
      /\ \A d \in Conns \ {c} : phase'[d] = phase[d] /\ at'[d] = at[d]
  BY <1>1, <1>2
<1>4. Comers' = Comers
  BY <1>1 DEF Comers
<1>5. Distinct(Comers)' /\ Elements(Comers)' = Elements(Comers)
  BY <1>4 DEF FInv, Distinct, Elements
<1>6. at[c] <= Len(Script[c]) /\ Len(Script[c]) \in Nat /\ at[c] \in Nat /\ (at[c] + 1) - 1 = at[c]
  BY <1>1, <1>2 DEF FInv, ClientsInv
<1>7. ClientsInv'
  <2> SUFFICES ASSUME NEW d \in Conns
               PROVE  /\ phase'[d] = "left" <=> d \in left'
                      /\ at'[d] - 1 <= Len(Script[d])
                      /\ phase'[d] = "reading" => at'[d] <= Len(Script[d])
                      /\ phase'[d] = "new" => d \notin Elements(Comers)'
    BY DEF ClientsInv
  <2>1. /\ phase[d] = "left" <=> d \in left
        /\ at[d] - 1 <= Len(Script[d])
        /\ phase[d] = "reading" => at[d] <= Len(Script[d])
        /\ phase[d] = "new" => d \notin Elements(Comers)
    BY DEF FInv, ClientsInv
  <2>2. CASE d = c
    BY <1>1, <1>3, <1>6, <2>1, <2>2
  <2>3. CASE d # c
    BY <1>1, <1>3, <1>5, <2>1, <2>3
  <2>4. QED
    BY <2>2, <2>3
<1>8. Reached(c) = {at[c]} /\ Reached(c)' = {at[c]}
  BY <1>1, <1>3, <1>6 DEF Reached
<1>9. ASSUME NEW n \in Reached(c) \intersect 0..Len(Script[c]), FramedAt(c, n)
      PROVE  \E k \in Reached(c)' \intersect 0..Len(Script[c]) : FramedAt(c, k)'
  <2>1. FramedAt(c, n)'
    BY <1>1, <1>9, ClientKeeps
  <2>2. QED
    BY <1>8, <2>1
<1>10. Silent(c) => Silent(c)'
  BY <1>1 DEF Silent
<1>11. QED
  BY <1>1, <1>3, <1>5, <1>7, <1>9, <1>10, ClientFrames

\* The client is gone, and with a command half waited for it may be either.
LEMMA LeaveFrames ==
  ASSUME FInv, IInv', NEW c \in Conns, Leave(c), UNCHANGED serverVars
  PROVE  FInv'
<1>1. /\ phase[c] \in {"ready", "reading"} /\ phase' = [phase EXCEPT ![c] = "left"]
      /\ left' = left \union {c}
      /\ UNCHANGED <<at, backlog, toServer, connections>>
  BY DEF Leave, CloseByClient, serverVars
<1>2. phase \in [Conns -> {"new", "ready", "reading", "left"}]
  BY DEF FInv, IInv, TypeOK, ClientTypeOK
<1>3. phase'[c] = "left" /\ \A d \in Conns \ {c} : phase'[d] = phase[d]
  BY <1>1, <1>2
<1>4. Comers' = Comers
  BY <1>1 DEF Comers
<1>5. Distinct(Comers)' /\ Elements(Comers)' = Elements(Comers)
  BY <1>4 DEF FInv, Distinct, Elements
<1>6. ClientsInv'
  <2> SUFFICES ASSUME NEW d \in Conns
               PROVE  /\ phase'[d] = "left" <=> d \in left'
                      /\ at'[d] - 1 <= Len(Script[d])
                      /\ phase'[d] = "reading" => at'[d] <= Len(Script[d])
                      /\ phase'[d] = "new" => d \notin Elements(Comers)'
    BY DEF ClientsInv
  <2>1. /\ phase[d] = "left" <=> d \in left
        /\ at[d] - 1 <= Len(Script[d])
        /\ phase[d] = "reading" => at[d] <= Len(Script[d])
        /\ phase[d] = "new" => d \notin Elements(Comers)
    BY DEF FInv, ClientsInv
  <2>2. CASE d = c
    BY <1>1, <1>3, <2>1, <2>2
  <2>3. CASE d # c
    BY <1>1, <1>3, <1>5, <2>1, <2>3
  <2>4. QED
    BY <2>2, <2>3
<1>7. Reached(c) \subseteq Reached(c)'
  BY <1>1, <1>3 DEF Reached
<1>8. ASSUME NEW n \in Reached(c) \intersect 0..Len(Script[c]), FramedAt(c, n)
      PROVE  \E k \in Reached(c)' \intersect 0..Len(Script[c]) : FramedAt(c, k)'
  <2>1. FramedAt(c, n)'
    BY <1>1, <1>8, ClientKeeps
  <2>2. QED
    BY <1>7, <2>1
<1>9. Silent(c) => Silent(c)'
  BY <1>1 DEF Silent
<1>10. QED
  BY <1>1, <1>3, <1>5, <1>6, <1>8, <1>9, ClientFrames

\* Every step keeps all this.
LEMMA NextFrames == FInv /\ [Next]_vars => FInv'
<1> SUFFICES ASSUME FInv, [Next]_vars PROVE FInv'
  OBVIOUS
<1>1. IInv'
  BY NextTypes DEF FInv
<1>2. CASE ServerStep /\ UNCHANGED clientVars
  BY <1>1, <1>2, ServerStepFrames
<1>3. CASE \E c \in Conns : ClientStep(c) /\ UNCHANGED serverVars
  BY <1>1, <1>3, ConnectFrames, WriteFrames, ReadFrames, LeaveFrames DEF ClientStep
<1>4. CASE UNCHANGED vars
  <2>1. UNCHANGED <<backlog, toServer, left, phase, at, connections, cur_command, to_purge, job, pc,
                    chunk, executed>>
    BY <1>4 DEF vars, sockVars, clientVars, serverVars
  <2>2. ClientsInv' /\ Distinct(Comers)'
    BY <2>1 DEF FInv, ClientsInv, Distinct, Comers, Elements
  <2>3. ASSUME job = "ticking" PROVE FramingInv'
    <3>1. \A c \in to_purge' : Silent(c)'
      BY <2>1, <2>3 DEF FInv, FramingInv, Silent
    <3>2. ASSUME NEW c \in Conns
          PROVE  (\E n \in Reached(c) \intersect 0..Len(Script[c]) : FramedAt(c, n))'
      <4>1. PICK n \in Reached(c) \intersect 0..Len(Script[c]) : FramedAt(c, n)
        BY <2>3 DEF FInv, FramingInv
      <4>2. Reached(c)' = Reached(c)
        BY <2>1 DEF Reached
      <4>3. FramedAt(c, n)'
        BY <1>4, <2>1, <4>1, ClientKeeps DEF vars
      <4>4. QED
        BY <4>1, <4>2, <4>3
    <3>3. QED
      BY <3>1, <3>2 DEF FramingInv
  <2>4. QED
    BY <1>1, <2>1, <2>2, <2>3 DEF FInv
<1>5. QED
  BY <1>2, <1>3, <1>4 DEF Next

\* It holds at first: nobody is connected and nothing is written.
LEMMA InitFrames == Init => FInv
<1> SUFFICES ASSUME Init PROVE FInv
  OBVIOUS
<1>1. IInv
  BY InitTypes
<1>2. Comers = <<>>
  BY EmptySeq, ConcatEmptySeq DEF Init, SocketInit, Comers
<1>3. Distinct(Comers) /\ Elements(Comers) = {}
  BY <1>2 DEF Distinct, Elements
<1>4. ClientsInv
  <2>1. \A c \in Conns : phase[c] = "new" /\ at[c] = 1 /\ c \notin left /\ Len(Script[c]) \in Nat
    BY DEF Init, SocketInit, ClientInit
  <2>2. QED
    BY <1>3, <2>1 DEF ClientsInv
<1>5. ASSUME NEW c \in Conns
      PROVE  \E n \in Reached(c) \intersect 0..Len(Script[c]) : FramedAt(c, n)
  <2>1. Len(Script[c]) \in Nat /\ 0 \in 0..Len(Script[c])
    <3>1. Script[c] \in Seq(Kinds)
      OBVIOUS
    <3>2. QED
      BY <3>1
  <2>2. 0 \in Reached(c)
    BY DEF Init, ClientInit, Reached
  <2>3. Framed(c) = <<>>
    BY NoFrames DEF Init, Framed, Frames
  <2>4. Unread(c) = <<>>
    <3>1. Chunk(c) = <<>> /\ cur_command[c] = <<>> /\ toServer[c] = <<>>
      BY DEF Init, SocketInit, Chunk
    <3>2. <<>> \o <<>> = <<>>
      BY EmptySeq, ConcatEmptySeq
    <3>3. QED
      BY <3>1, <3>2, UnreadIs, Zenon
  <2>5. FramedAt(c, 0)
    BY <2>3, <2>4, EmptySeq, ConcatEmptySeq, NoneWritten DEF FramedAt
  <2>6. QED
    BY <2>1, <2>2, <2>5
<1>6. to_purge = {}
  BY DEF Init
<1>7. QED
  BY <1>1, <1>3, <1>4, <1>5, <1>6 DEF FInv, FramingInv

\* Raw_Server cuts the bytes of every client into the commands it has written, each
\* once and in order, wherever recv, its buffer and the other clients interrupt it.
THEOREM CommandsAreFramed == Spec => []Framing
<1>1. Init => FInv
  BY InitFrames
<1>2. FInv /\ [Next]_vars => FInv'
  BY NextFrames
<1>3. FInv => Framing
  <2> SUFFICES ASSUME FInv, job = "ticking", NEW c \in Conns
               PROVE  \E n \in {at[c] - 1, at[c]} \intersect 0..Len(Script[c]) :
                        \/ Framed(c) \o Unread(c) = Written(c, n)
                        \/ /\ c \in left /\ ~Connected(c)
                           /\ Framed(c) = Append(Written(c, n), Nul)
    BY DEF Framing
  <2>1. PICK n \in Reached(c) \intersect 0..Len(Script[c]) : FramedAt(c, n)
    BY DEF FInv, FramingInv
  <2>2. Reached(c) \subseteq {at[c] - 1, at[c]}
    <3>1. phase[c] \in {"new", "ready", "reading", "left"}
      BY DEF FInv, IInv, TypeOK, ClientTypeOK
    <3>2. QED
      BY <3>1 DEF Reached
  <2>3. Connected(c) => c \in Elements(Comers)
    <3>1. /\ connections \in Seq(Conns) /\ Elements(connections) \subseteq Elements(Comers)
      BY ServerTyped, ComersTyped DEF FInv
    <3>2. DOMAIN connections = 1..Len(connections)
      BY <3>1
    <3>3. QED
      BY <3>1, <3>2 DEF Connected, Contains, Elements
  <2>4. QED
    BY <2>1, <2>2, <2>3 DEF FramedAt, Closed, Silent
<1>4. QED
  BY <1>1, <1>2, <1>3, PTL DEF Spec

-----------------------------------------------------------------------------
(* Which command the next one is.                                          *)

\* The words of a command are alike, and none is the zero byte.
LEMMA TextIs ==
  ASSUME NEW k \in Kinds
  PROVE  /\ Text(k) \in Seq(Byte) /\ Len(Text(k)) \in Nat /\ Len(Text(k)) >= 2
         /\ \A i \in 1..Len(Text(k)) : Text(k)[i] = k
         /\ k # Nul
<1> DEFINE n == IF k = "long" THEN BufSize ELSE 2
<1>1. n \in Nat /\ n >= 2
  OBVIOUS
<1>2. Text(k) = [i \in 1..n |-> k]
  BY DEF Text
<1>3. Text(k) \in Seq(Byte)
  BY Texts
<1> HIDE DEF n
<1>4. Len(Text(k)) = n
  BY <1>1, <1>2
<1>5. k # Nul
  BY DEF Kinds, Nul
<1>6. QED
  BY <1>1, <1>2, <1>3, <1>4, <1>5

\* So a command tells its kind.
LEMMA TextTells ==
  \A k, m \in Kinds : Text(k) = Text(m) => k = m
<1> SUFFICES ASSUME NEW k \in Kinds, NEW m \in Kinds, Text(k) = Text(m) PROVE k = m
  OBVIOUS
<1>1. 1 \in 1..Len(Text(k)) /\ 1 \in 1..Len(Text(m))
  BY TextIs
<1>2. Text(k)[1] = k /\ Text(m)[1] = m
  BY <1>1, TextIs
<1>3. QED
  BY <1>2

\* What has been written is the beginning of what will have been.
LEMMA WrittenTyped ==
  \A c \in Conns : \A e, n \in Nat :
    e <= n /\ n <= Len(Script[c]) =>
      /\ Written(c, e) \in Seq(Byte)
      /\ \E r \in Seq(Byte) : Written(c, n) = Written(c, e) \o r
<1> SUFFICES ASSUME NEW c \in Conns PROVE
      \A e, n \in Nat : e <= n /\ n <= Len(Script[c]) =>
        /\ Written(c, e) \in Seq(Byte)
        /\ \E r \in Seq(Byte) : Written(c, n) = Written(c, e) \o r
  OBVIOUS
<1>0. Len(Script[c]) \in Nat /\ Associate(Byte) /\ <<>> \in Seq(Byte)
  <2>1. Script[c] \in Seq(Kinds)
    OBVIOUS
  <2>2. QED
    BY <2>1, Associative, EmptySeq
<1>1. ASSUME NEW e \in Nat, e <= Len(Script[c]) PROVE Written(c, e) \in Seq(Byte)
  <2> DEFINE q == [i \in 1..e |-> Packet(c, i)]
  <2>1. 1..e \subseteq 1..Len(Script[c])
    BY <1>0, <1>1
  <2>2. \A i \in 1..e : Packet(c, i) \in Seq(Byte)
    BY <2>1, PacketTyped
  <2>3. q \in Seq(Seq(Byte))
    <3>1. q \in [1..e -> Seq(Byte)]
      BY <2>2
    <3> HIDE DEF q
    <3>2. QED
      BY <3>1, SeqDef
  <2> HIDE DEF q
  <2>4. FlattenSeq(q) \in Seq(Byte)
    BY <2>3, FlattenTyped
  <2>5. QED
    BY <2>4 DEF Written, q
<1>2. ASSUME NEW e \in Nat,
             {n \in Nat : /\ e <= n /\ n <= Len(Script[c])
                          /\ ~\E r \in Seq(Byte) : Written(c, n) = Written(c, e) \o r} # {}
      PROVE  FALSE
  <2> DEFINE I == {n \in Nat : /\ e <= n /\ n <= Len(Script[c])
                          /\ ~\E r \in Seq(Byte) : Written(c, n) = Written(c, e) \o r}
  <2>1. PICK n \in I : \A m \in I : n <= m
    <3> I \in SUBSET Nat /\ I # {}
      BY <1>2
    <3> HIDE DEF I
    <3>1. QED
      BY Least
  <2>2. /\ n \in Nat /\ e <= n /\ n <= Len(Script[c])
        /\ ~\E r \in Seq(Byte) : Written(c, n) = Written(c, e) \o r
    OBVIOUS
  <2>3. Written(c, e) \in Seq(Byte)
    BY <1>0, <1>1, <2>2
  <2>4. n # e
    <3>1. Written(c, e) \o <<>> = Written(c, e)
      BY <2>3, ConcatEmptySeq
    <3>2. QED
      BY <1>0, <2>2, <3>1
  <2>5. n - 1 \in Nat /\ e <= n - 1 /\ n - 1 <= Len(Script[c]) /\ ~(n <= n - 1)
        /\ (n - 1) + 1 = n /\ n \in 1..Len(Script[c])
    BY <1>0, <2>2, <2>4
  <2>6. n - 1 \notin I
    <3> HIDE DEF I
    <3>1. QED
      BY <2>1, <2>5
  <2>7. PICK r \in Seq(Byte) : Written(c, n - 1) = Written(c, e) \o r
    BY <2>5, <2>6
  <2>8. Written(c, n) = Written(c, n - 1) \o Packet(c, n)
    <3>1. (n - 1) + 1 <= Len(Script[c])
      BY <2>2, <2>5
    <3>2. Written(c, (n - 1) + 1) = Written(c, n - 1) \o Packet(c, (n - 1) + 1)
      BY <2>5, <3>1, WrittenNext, Zenon
    <3>3. QED
      BY <2>5, <3>2, Zenon
  <2> DEFINE p == Packet(c, n)
             w == Written(c, e)
  <2>9. p \in Seq(Byte) /\ w \in Seq(Byte)
    BY <2>3, <2>5, PacketTyped
  <2> HIDE DEF p, w
  <2>10. (w \o r) \o p = w \o (r \o p) /\ r \o p \in Seq(Byte)
    <3>1. (w \o r) \o p = w \o (r \o p)
      BY <1>0, <2>9, Zenon DEF Associate
    <3>2. QED
      BY <2>9, <3>1, ConcatProperties
  <2>11. QED
    BY <2>2, <2>7, <2>8, <2>10, Zenon DEF p, w
<1>3. QED
  <2> SUFFICES ASSUME NEW e \in Nat, NEW n \in Nat, e <= n, n <= Len(Script[c])
               PROVE  /\ Written(c, e) \in Seq(Byte)
                      /\ \E r \in Seq(Byte) : Written(c, n) = Written(c, e) \o r
    OBVIOUS
  <2>1. e <= Len(Script[c])
    BY <1>0
  <2>2. QED
    BY <1>1, <1>2, <2>1, Zenon

\* The commands executed for c are the first of its script.
Words(c, e) ==
  /\ Len(e) <= Len(Script[c])
  /\ \A i \in 1..Len(e) : e[i] = Text(Script[c][i])

\* Then their bytes are what it has written of these, and one zero byte more
\* when it has left out the last.
LEMMA FramesWritten ==
  ASSUME NEW c \in Conns, NEW x \in Seq(Seq(Byte)), Words(c, x)
  PROVE  \/ Frames(x) = Written(c, Len(x))
         \/ Len(x) = Len(Script[c]) /\ Frames(x) = Append(Written(c, Len(x)), Nul)
<1> DEFINE e == Len(x)
<1>0. /\ e \in Nat /\ DOMAIN x = 1..e /\ Len(Script[c]) \in Nat /\ e <= Len(Script[c])
      /\ \A i \in 1..e : x[i] = Text(Script[c][i])
  <2>1. Script[c] \in Seq(Kinds)
    OBVIOUS
  <2>2. QED
    BY <2>1 DEF Words
<1> HIDE DEF e
<1>1. \A i \in 1..e : Script[c][i] \in Kinds
  <2>1. Script[c] \in Seq(Kinds)
    OBVIOUS
  <2>2. 1..e \subseteq 1..Len(Script[c])
    BY <1>0
  <2>3. QED
    BY <2>1, <2>2
<1>2. ASSUME NEW m \in Nat, m <= e,
             \A i \in 1..m : Packet(c, i) = Append(Text(Script[c][i]), Nul)
      PROVE  FlattenSeq([i \in 1..m |-> Append(x[i], Nul)]) = Written(c, m)
  <2>1. \A i \in 1..m : Append(x[i], Nul) = Packet(c, i)
    BY <1>0, <1>2
  <2>2. [i \in 1..m |-> Append(x[i], Nul)] = [i \in 1..m |-> Packet(c, i)]
    BY <2>1
  <2>3. QED
    BY <2>2, Zenon DEF Written
<1>3. CASE ~(e = Len(Script[c]) /\ c \in Unterminated)
  <2>1. \A i \in 1..e : Packet(c, i) = Append(Text(Script[c][i]), Nul)
    BY <1>0, <1>3 DEF Packet
  <2>2. FlattenSeq([i \in 1..e |-> Append(x[i], Nul)]) = Written(c, e)
    <3>1. e <= e
      BY <1>0
    <3>2. QED
      BY <1>0, <1>2, <2>1, <3>1, Zenon
  <2>3. QED
    BY <1>0, <2>2, Zenon DEF Frames, e
<1>4. CASE e = Len(Script[c]) /\ c \in Unterminated /\ e = 0
  <2>1. \A i \in 1..0 : Packet(c, i) = Append(Text(Script[c][i]), Nul)
    OBVIOUS
  <2>2. FlattenSeq([i \in 1..0 |-> Append(x[i], Nul)]) = Written(c, 0)
    <3>1. 0 \in Nat /\ 0 <= e
      BY <1>0
    <3>2. QED
      BY <1>2, <2>1, <3>1, Zenon
  <2>3. QED
    BY <1>0, <1>4, <2>2, Zenon DEF Frames, e
<1>5. CASE e = Len(Script[c]) /\ c \in Unterminated /\ e # 0
  <2> DEFINE m == e - 1
             q == [i \in 1..m |-> Append(x[i], Nul)]
             r == [i \in 1..e |-> Append(x[i], Nul)]
             t == Text(Script[c][e])
  <2>1. m \in Nat /\ m + 1 = e /\ m <= e /\ m + 1 <= Len(Script[c]) /\ e \in 1..e
        /\ 1..m \subseteq 1..e
    BY <1>0, <1>5
  <2>2. /\ \A i \in 1..m : Packet(c, i) = Append(Text(Script[c][i]), Nul)
        /\ Packet(c, e) = t
    BY <1>0, <1>5 DEF Packet
  <2>3. FlattenSeq(q) = Written(c, m)
    BY <1>2, <2>1, <2>2
  <2>4. t \in Seq(Byte) /\ Append(t, Nul) \in Seq(Byte) /\ Written(c, m) \in Seq(Byte)
    <3>1. m <= m
      BY <2>1
    <3>2. m <= Len(Script[c])
      BY <1>0, <2>1
    <3>3. QED
      BY <1>1, <2>1, <3>1, <3>2, Texts, WrittenTyped
  <2>5. \A i \in 1..e : Append(x[i], Nul) \in Seq(Byte)
    BY <1>0, <1>1, Texts
  <2>6. r[e] = Append(t, Nul)
    BY <1>0, <2>1
  <2>7. OneMore(Byte, q, r, m)
    <3>1. Len(q) = m /\ Len(r) = m + 1 /\ (m = 0 => q = <<>>)
      BY <2>1
    <3>2. \A i \in 1..m : q[i] = Append(x[i], Nul) /\ r[i] = Append(x[i], Nul)
      BY <2>1, Zenon
    <3> HIDE DEF q, r, m, t
    <3>3. QED
      BY <2>1, <2>4, <2>5, <2>6, <3>1, <3>2, Zenon DEF OneMore
  <2> HIDE DEF q, r, m, t
  <2>8. FlattenSeq(r) = FlattenSeq(q) \o r[m + 1]
    <3>1. \A n \in Nat : \A u, v :
            OneMore(Byte, u, v, n) => FlattenSeq(v) = FlattenSeq(u) \o v[n + 1]
      BY FlattenLonger, Zenon
    <3>2. QED
      BY <2>1, <2>7, <3>1, Zenon
  <2>9. FlattenSeq(r) = Written(c, m) \o Append(t, Nul)
    BY <2>1, <2>3, <2>6, <2>8, Zenon
  <2>10. Written(c, e) = Written(c, m) \o t
    BY <2>1, <2>2, WrittenNext, Zenon
  <2>11. Written(c, m) \o Append(t, Nul) = Append(Written(c, m) \o t, Nul)
    BY <2>4, AppendedLast, Zenon
  <2>12. Frames(x) = FlattenSeq(r)
    BY <1>0, Zenon DEF Frames, r
  <2>13. QED
    BY <1>5, <2>9, <2>10, <2>11, <2>12, Zenon DEF e
<1>6. QED
  BY <1>3, <1>4, <1>5

\* So what is not executed begins with what has been written for the next command.
LEMMA NextPacket ==
  ASSUME NEW c \in Conns, NEW x \in Seq(Seq(Byte)), Words(c, x), NEW y \in Seq(Byte), y # <<>>,
         NEW n \in 0..Len(Script[c]), Frames(x) \o y = Written(c, n)
  PROVE  /\ Len(x) < n /\ Len(x) + 1 \in 1..Len(Script[c])
         /\ \E r \in Seq(Byte) : /\ y = Packet(c, Len(x) + 1) \o r
                                 /\ Len(x) + 1 = Len(Script[c]) => r = <<>>
<1> DEFINE e == Len(x)
           f == Frames(x)
<1>0. /\ e \in Nat /\ Len(Script[c]) \in Nat /\ e <= Len(Script[c]) /\ n \in Nat
      /\ n <= Len(Script[c]) /\ n <= n
  <2>1. Script[c] \in Seq(Kinds)
    OBVIOUS
  <2>2. QED
    BY <2>1 DEF Words
<1>1. f \in Seq(Byte) /\ Written(c, n) \in Seq(Byte) /\ Written(c, e) \in Seq(Byte)
  BY <1>0, FramesTyped, WrittenTyped
<1>2. \/ f = Written(c, e)
      \/ e = Len(Script[c]) /\ f = Append(Written(c, e), Nul)
  BY FramesWritten
<1> HIDE DEF e, f
<1>3. Len(f) >= Len(Written(c, e)) /\ Len(f) \in Nat /\ Len(Written(c, e)) \in Nat
  BY <1>1, <1>2, NulTyped, AppendProperties
<1>4. Len(Written(c, n)) = Len(f) + Len(y) /\ Len(y) \in Nat /\ Len(y) > 0
  <2>1. Len(f \o y) = Len(f) + Len(y)
    BY <1>1, ConcatProperties
  <2>2. Len(y) \in Nat /\ Len(y) > 0
    BY EmptySeq
  <2>3. QED
    BY <2>1, <2>2 DEF f
<1>5. e < n
  <2> SUFFICES ASSUME n <= e PROVE FALSE
    BY <1>0
  <2>1. PICK r \in Seq(Byte) : Written(c, e) = Written(c, n) \o r
    BY <1>0, WrittenTyped
  <2>2. Len(Written(c, e)) = Len(Written(c, n)) + Len(r) /\ Len(r) \in Nat
    BY <1>1, <2>1, ConcatProperties
  <2>3. QED
    BY <1>3, <1>4, <2>2
<1>6. e + 1 \in Nat /\ e + 1 <= n /\ e + 1 <= Len(Script[c]) /\ e + 1 \in 1..Len(Script[c])
      /\ f = Written(c, e)
  BY <1>0, <1>2, <1>5
<1> DEFINE p == Packet(c, e + 1)
<1>7. PICK r \in Seq(Byte) : /\ Written(c, n) = Written(c, e + 1) \o r
                             /\ e + 1 = Len(Script[c]) => r = <<>>
  <2>1. CASE e + 1 = Len(Script[c])
    <3>1. n = e + 1 /\ Written(c, n) \o <<>> = Written(c, n) /\ <<>> \in Seq(Byte)
      BY <1>0, <1>1, <1>6, <2>1, ConcatEmptySeq, EmptySeq
    <3>2. QED
      BY <3>1
  <2>2. CASE e + 1 # Len(Script[c])
    BY <1>0, <1>6, <2>2, WrittenTyped
  <2>3. QED
    BY <2>1, <2>2
<1>8. Written(c, e + 1) = f \o p
  BY <1>0, <1>6, WrittenNext, Zenon
<1>9. p \in Seq(Byte)
  BY <1>6, PacketTyped
<1> HIDE DEF p
<1>10. f \o y = f \o (p \o r) /\ p \o r \in Seq(Byte)
  <2>1. Associate(Byte)
    BY Associative
  <2>2. (f \o p) \o r = f \o (p \o r)
    BY <1>1, <1>9, <2>1, Zenon DEF Associate
  <2>3. f \o y = Written(c, n)
    BY DEF f
  <2>4. p \o r \in Seq(Byte)
    BY <1>9, ConcatProperties
  <2>5. QED
    BY <1>7, <1>8, <2>2, <2>3, <2>4, Zenon
<1>11. y = p \o r
  <2>1. \A S : \A s, t, v \in Seq(S) : s \o t = s \o v => t = v
    BY ConcatSimplifications, Zenon
  <2>2. QED
    BY <1>1, <1>10, <2>1, Zenon
<1>12. QED
  BY <1>5, <1>6, <1>7, <1>11, Zenon DEF e, p

\* In bytes that begin with a command and its end, what comes before the first zero
\* byte is the command.
LEMMA FirstWord ==
  ASSUME NEW k \in Kinds, NEW w \in Seq(Byte), NEW u \in Seq(Byte), NEW r \in Seq(Byte),
         Nul \notin Elements(w)
  PROVE  /\ Append(w, Nul) \o u = Append(Text(k), Nul) \o r => w = Text(k)
         /\ Append(w, Nul) \o u # Text(k)
         /\ w # Append(Text(k), Nul) \o r
<1> DEFINE t == Text(k)
           a == Append(w, Nul)
           b == Append(t, Nul)
<1>1. /\ t \in Seq(Byte) /\ Len(t) \in Nat /\ \A i \in 1..Len(t) : t[i] # Nul
      /\ Len(w) \in Nat
  BY TextIs
<1> HIDE DEF t
<1>2. \A i \in 1..Len(w) : w[i] # Nul
  BY DEF Elements
<1>3. /\ a \in Seq(Byte) /\ Len(a) = Len(w) + 1 /\ a[Len(w) + 1] = Nul
      /\ \A i \in 1..Len(w) : a[i] = w[i]
  BY NulTyped, AppendProperties
<1>4. /\ b \in Seq(Byte) /\ Len(b) = Len(t) + 1 /\ b[Len(t) + 1] = Nul
      /\ \A i \in 1..Len(t) : b[i] = t[i]
  BY <1>1, NulTyped, AppendProperties
<1> HIDE DEF a, b
<1>5. /\ a \o u \in Seq(Byte) /\ Len(a \o u) = Len(a) + Len(u) /\ Len(u) \in Nat
      /\ \A i \in 1..Len(a) : (a \o u)[i] = a[i]
  <2>1. Len(a) \in Nat /\ Len(u) \in Nat
    BY <1>3
  <2>2. 1..Len(a) \subseteq 1..Len(a) + Len(u) /\ \A i \in 1..Len(a) : i <= Len(a)
    BY <2>1
  <2>3. QED
    BY <1>3, <2>1, <2>2, ConcatProperties
<1>6. /\ b \o r \in Seq(Byte) /\ Len(b \o r) = Len(b) + Len(r) /\ Len(r) \in Nat
      /\ \A i \in 1..Len(b) : (b \o r)[i] = b[i]
  <2>1. Len(b) \in Nat /\ Len(r) \in Nat
    BY <1>4
  <2>2. 1..Len(b) \subseteq 1..Len(b) + Len(r) /\ \A i \in 1..Len(b) : i <= Len(b)
    BY <2>1
  <2>3. QED
    BY <1>4, <2>1, <2>2, ConcatProperties
<1>7. /\ (a \o u)[Len(w) + 1] = Nul /\ \A i \in 1..Len(w) : (a \o u)[i] = w[i]
  <2>1. Len(w) + 1 \in 1..Len(a) /\ 1..Len(w) \subseteq 1..Len(a)
    BY <1>1, <1>3
  <2>2. QED
    BY <1>3, <1>5, <2>1
<1>8. /\ (b \o r)[Len(t) + 1] = Nul /\ \A i \in 1..Len(t) : (b \o r)[i] = t[i]
  <2>1. Len(t) + 1 \in 1..Len(b) /\ 1..Len(t) \subseteq 1..Len(b)
    BY <1>1, <1>4
  <2>2. QED
    BY <1>4, <1>6, <2>1
<1>9. ASSUME a \o u = b \o r PROVE w = t
  <2> DEFINE z == b \o r
  <2>1. /\ z[Len(w) + 1] = Nul /\ \A i \in 1..Len(w) : z[i] = w[i]
        /\ z[Len(t) + 1] = Nul /\ \A i \in 1..Len(t) : z[i] = t[i]
    BY <1>7, <1>8, <1>9
  <2> HIDE DEF z
  <2>2. ~(Len(w) < Len(t))
    <3> SUFFICES ASSUME Len(w) < Len(t) PROVE FALSE
      OBVIOUS
    <3>1. Len(w) + 1 \in 1..Len(t)
      BY <1>1
    <3>2. QED
      BY <1>1, <2>1, <3>1
  <2>3. ~(Len(t) < Len(w))
    <3> SUFFICES ASSUME Len(t) < Len(w) PROVE FALSE
      OBVIOUS
    <3>1. Len(t) + 1 \in 1..Len(w)
      BY <1>1
    <3>2. QED
      BY <1>2, <2>1, <3>1
  <2>4. Len(w) = Len(t)
    BY <1>1, <2>2, <2>3
  <2>5. \A i \in 1..Len(w) : w[i] = t[i]
    BY <2>1, <2>4
  <2>6. QED
    BY <1>1, <2>4, <2>5, SeqEqual
<1>10. a \o u # t
  <2> SUFFICES ASSUME a \o u = t PROVE FALSE
    OBVIOUS
  <2>1. Len(w) + 1 \in 1..Len(t)
    BY <1>1, <1>3, <1>5
  <2>2. QED
    BY <1>1, <1>7, <2>1
<1>11. w # b \o r
  <2> SUFFICES ASSUME w = b \o r PROVE FALSE
    OBVIOUS
  <2>1. Len(t) + 1 \in 1..Len(w)
    BY <1>1, <1>4, <1>6
  <2>2. QED
    BY <1>2, <1>8, <2>1
<1>12. QED
  BY <1>9, <1>10, <1>11 DEF a, b, t

\* What is kept of a command when its end is found is the next of the script.
LEMMA NextCommand ==
  ASSUME FInv, job = "ticking", NEW c \in Conns, c \in Elements(Comers),
         Words(c, executed[c]), Nul \notin Elements(cur_command[c]),
         \/ \E u \in Seq(Byte) : Unread(c) = Append(cur_command[c], Nul) \o u
         \/ Unread(c) = cur_command[c] /\ cur_command[c] # <<>>
  PROVE  /\ Len(executed[c]) + 1 \in 1..Len(Script[c])
         /\ cur_command[c] = Text(Script[c][Len(executed[c]) + 1])
         /\ \E n \in Reached(c) : Len(executed[c]) < n
<1> DEFINE e == Len(executed[c])
           w == cur_command[c]
           y == Unread(c)
<1>1. /\ w \in Seq(Byte) /\ y \in Seq(Byte) /\ executed[c] \in Seq(Seq(Byte))
      /\ Framed(c) = Frames(executed[c])
  BY BytesTyped, FramedIs DEF FInv
<1>2. PICK n \in Reached(c) \intersect 0..Len(Script[c]) : Framed(c) \o y = Written(c, n)
  <2>1. PICK n \in Reached(c) \intersect 0..Len(Script[c]) : FramedAt(c, n)
    BY DEF FInv, FramingInv
  <2>2. ~Closed(c)
    BY DEF Closed
  <2>3. QED
    BY <2>1, <2>2 DEF FramedAt
<1>3. y # <<>>
  <2>1. CASE y = w /\ w # <<>>
    BY <2>1
  <2>2. CASE \E u \in Seq(Byte) : y = Append(w, Nul) \o u
    <3>1. PICK u \in Seq(Byte) : y = Append(w, Nul) \o u
      BY <2>2
    <3> HIDE DEF w, y
    <3>2. /\ Append(w, Nul) \in Seq(Byte) /\ Len(Append(w, Nul)) = Len(w) + 1
          /\ Len(w) \in Nat /\ Len(u) \in Nat
      BY <1>1, NulTyped, AppendProperties
    <3>3. Len(y) = (Len(w) + 1) + Len(u)
      BY <3>1, <3>2, ConcatProperties
    <3>4. Len(y) # 0
      BY <3>2, <3>3
    <3>5. QED
      BY <3>4, EmptySeq
  <2>3. QED
    BY <2>1, <2>2
<1> DEFINE s == Script[c]
           k == s[e + 1]
<1>4. /\ e < n /\ e + 1 \in 1..Len(Script[c])
      /\ \E r \in Seq(Byte) : /\ y = Packet(c, e + 1) \o r
                              /\ e + 1 = Len(Script[c]) => r = <<>>
  <2>1. Frames(executed[c]) \o y = Written(c, n)
    BY <1>1, <1>2
  <2> HIDE DEF y
  <2>2. QED
    BY <1>1, <1>3, <2>1, NextPacket
<1>5. PICK r \in Seq(Byte) : /\ y = Packet(c, e + 1) \o r
                             /\ e + 1 = Len(Script[c]) => r = <<>>
  BY <1>4
<1>6. k \in Kinds
  <2>1. s \in Seq(Kinds)
    OBVIOUS
  <2> HIDE DEF s
  <2>2. QED
    BY <1>4, <2>1 DEF s
<1>7. \/ y = Append(Text(k), Nul) \o r
      \/ y = Text(k)
  <2>1. CASE e + 1 = Len(Script[c]) /\ c \in Unterminated
    <3>1. Packet(c, e + 1) = Text(k) /\ r = <<>>
      BY <1>5, <2>1 DEF Packet
    <3>2. Text(k) \o <<>> = Text(k)
      BY <1>6, TextIs, ConcatEmptySeq
    <3>3. QED
      BY <1>5, <3>1, <3>2
  <2>2. CASE ~(e + 1 = Len(Script[c]) /\ c \in Unterminated)
    <3>1. Packet(c, e + 1) = Append(Text(k), Nul)
      BY <2>2 DEF Packet
    <3>2. QED
      BY <1>5, <3>1
  <2>3. QED
    BY <2>1, <2>2
<1>8. w = Text(k)
  <2> HIDE DEF k
  <2>1. /\ \A u \in Seq(Byte) : Append(w, Nul) \o u = Append(Text(k), Nul) \o r => w = Text(k)
        /\ \A u \in Seq(Byte) : Append(w, Nul) \o u # Text(k)
        /\ w # Append(Text(k), Nul) \o r
    <3> Nul \notin Elements(w) /\ <<>> \in Seq(Byte)
      BY EmptySeq
    <3> HIDE DEF w
    <3>1. QED
      BY <1>1, <1>6, FirstWord, Zenon
  <2>2. \/ \E u \in Seq(Byte) : y = Append(w, Nul) \o u
        \/ y = w
    OBVIOUS
  <2> HIDE DEF w, y
  <2>3. QED
    BY <1>7, <2>1, <2>2, Zenon
<1>9. QED
  BY <1>2, <1>4, <1>8

-----------------------------------------------------------------------------
(* Replies.                                                                *)

\* Who waits for news reads them when they come.
WhoAwaitsReads ==
  \A c \in Conns \ Reads : \A i \in DOMAIN Script[c] : Script[c][i] # "await"

Asking == {"ask", "await"}
ReplyTo(c) == <<IF Current(c) = "ask" THEN "answer" ELSE "news", Nul>>

\* Nobody has anything to tell c.
Idle(c) == c \notin Elements(subscribed) /\ response[c] = <<>>
Empty(c) == Idle(c) /\ toClient[c] = <<>> /\ got[c] = <<>>
Awaiting(c) ==
  /\ c \in Elements(subscribed) /\ Current(c) = "await"
  /\ toClient[c] = <<>> /\ got[c] = <<>> /\ response[c] = <<>>
OnItsWay(c) ==
  /\ c \notin Elements(subscribed)
  /\ (got[c] \o toClient[c]) \o response[c] = ReplyTo(c)

\* A client that waits is to be answered yet, or has subscribed, or the reply is
\* somewhere on its way; one that does not has nothing coming.
ReplyAt(c) ==
  /\ phase[c] = "reading" => c \in Reads /\ (Empty(c) \/ Awaiting(c) \/ OnItsWay(c))
  /\ c \in Reads /\ phase[c] \in {"new", "ready"} => Empty(c)
  /\ c \in Elements(subscribed) => c \in Reads /\ response[c] = <<>>

\* Of the commands not executed but the current none asks, and until that one is
\* executed nobody has anything to tell its client.
PendingAt(c) ==
  /\ \A i \in 1..Len(Script[c]) :
       Len(executed[c]) < i /\ i < at[c] => Script[c][i] \notin Asking
  /\ Len(executed[c]) < at[c] => Idle(c) /\ (phase[c] # "left" => Empty(c))

WordsAt(c) == Words(c, executed[c]) /\ Nul \notin Elements(cur_command[c])

RInv ==
  /\ Distinct(subscribed)
  /\ pc.at # "sleep" => job = "ticking"
  /\ \A c \in Conns : WordsAt(c) /\ ReplyAt(c)
  /\ job = "ticking" => \A c \in Reads : PendingAt(c)

\* All these are sequences.
LEMMA RepliesTyped ==
  ASSUME FInv, NEW c \in Conns
  PROVE  /\ response[c] \in Seq(Byte) /\ toClient[c] \in Seq(Byte) /\ got[c] \in Seq(Byte)
         /\ at[c] \in Nat /\ at[c] >= 1 /\ executed[c] \in Seq(Seq(Byte))
         /\ Len(executed[c]) \in Nat /\ subscribed \in Seq(Conns) /\ Len(Script[c]) \in Nat
         /\ Script[c] \in Seq(Kinds) /\ phase[c] \in {"new", "ready", "reading", "left"}
<1>1. /\ got \in [Conns -> Seq(Byte)] /\ at \in [Conns -> Nat] /\ at[c] >= 1
      /\ phase \in [Conns -> {"new", "ready", "reading", "left"}]
  BY DEF FInv, IInv, TypeOK, ClientTypeOK, Places
<1>2. /\ response \in [Conns -> Seq(Byte)] /\ toClient \in [Conns -> Seq(Byte)]
      /\ executed \in [Conns -> Seq(Seq(Byte))] /\ subscribed \in Seq(Conns)
  BY ServerTyped DEF FInv
<1>3. Script[c] \in Seq(Kinds)
  OBVIOUS
<1>4. QED
  BY <1>1, <1>2, <1>3

\* A connection a step leaves alone.
LEMMA ReplyKept ==
  ASSUME NEW c \in Conns, ReplyAt(c),
         phase'[c] = phase[c], at'[c] = at[c], got'[c] = got[c], toClient'[c] = toClient[c],
         response'[c] = response[c], c \in Elements(subscribed)' <=> c \in Elements(subscribed)
  PROVE  ReplyAt(c)'
BY DEF ReplyAt, Empty, Idle, Awaiting, OnItsWay, Current, ReplyTo

LEMMA PendingKept ==
  ASSUME NEW c \in Conns, PendingAt(c),
         phase'[c] = phase[c], at'[c] = at[c], got'[c] = got[c], toClient'[c] = toClient[c],
         response'[c] = response[c], c \in Elements(subscribed)' <=> c \in Elements(subscribed),
         executed'[c] = executed[c]
  PROVE  PendingAt(c)'
BY DEF PendingAt, Empty, Idle

\* A step of the server that neither executes nor sends.
LEMMA QuietReplies ==
  ASSUME RInv, UNCHANGED <<clientVars, toClient, response, subscribed, executed>>,
         job' = "ticking" => job = "ticking",
         pc'.at # "sleep" => job' = "ticking",
         \A c \in Conns : Nul \notin Elements(cur_command[c])'
  PROVE  RInv'
<1>1. UNCHANGED <<phase, at, got>> /\ Elements(subscribed)' = Elements(subscribed)
  BY DEF clientVars, Elements
<1>2. Distinct(subscribed)'
  BY DEF RInv, Distinct
<1>3. ASSUME NEW c \in Conns PROVE WordsAt(c)' /\ ReplyAt(c)'
  <2>1. WordsAt(c) /\ ReplyAt(c)
    BY DEF RInv
  <2>2. WordsAt(c)'
    BY <2>1 DEF WordsAt, Words, Text
  <2>3. QED
    BY <1>1, <2>1, <2>2, ReplyKept
<1>4. ASSUME job' = "ticking", NEW c \in Reads PROVE PendingAt(c)'
  <2>1. PendingAt(c) /\ c \in Conns
    BY <1>4 DEF RInv
  <2>2. QED
    BY <1>1, <2>1, PendingKept
<1>5. QED
  BY <1>2, <1>3, <1>4 DEF RInv

\* A client that will be told something by the next of its commands waits for it.
LEMMA Due ==
  ASSUME FInv, RInv, job = "ticking", NEW c \in Reads,
         Len(executed[c]) + 1 \in 1..Len(Script[c]),
         \E n \in Reached(c) : Len(executed[c]) < n
  PROVE  /\ Len(executed[c]) < at[c]
         /\ Script[c][Len(executed[c]) + 1] \in Asking =>
              Len(executed[c]) + 1 = at[c] /\ phase[c] \in {"reading", "left"}
<1> DEFINE e == Len(executed[c])
<1>1. c \in Conns
  OBVIOUS
<1>2. /\ e \in Nat /\ at[c] \in Nat /\ Len(Script[c]) \in Nat
      /\ phase[c] \in {"new", "ready", "reading", "left"}
  BY <1>1, RepliesTyped
<1>3. \A i \in 1..Len(Script[c]) : e < i /\ i < at[c] => Script[c][i] \notin Asking
  BY DEF RInv, PendingAt
<1>4. PICK n \in Reached(c) : e < n
  OBVIOUS
<1>5. n \in {at[c] - 1, at[c]} /\ (phase[c] \in {"new", "ready"} => n = at[c] - 1)
  BY <1>2 DEF Reached
<1> HIDE DEF e
<1>6. e < at[c] /\ e < e + 1
  BY <1>2, <1>4, <1>5
<1>7. ASSUME Script[c][e + 1] \in Asking PROVE e + 1 = at[c] /\ phase[c] \in {"reading", "left"}
  <2>1. ~(e + 1 < at[c])
    BY <1>3, <1>6, <1>7 DEF e
  <2>2. e + 1 = at[c]
    BY <1>2, <1>6, <2>1
  <2>3. n # at[c] - 1
    BY <1>2, <1>4, <2>2
  <2>4. QED
    BY <1>2, <1>5, <2>2, <2>3
<1>8. QED
  BY <1>6, <1>7 DEF e

\* The news reach every subscriber there still is, since each has read what it was
\* told before, and then nobody is subscribed.
LEMMA Announced ==
  ASSUME FInv, RInv, Announce
  PROVE  /\ subscribed' = <<>> /\ Elements(subscribed)' = {}
         /\ \A d \in Conns \ Elements(subscribed) : response'[d] = response[d]
         /\ \A d \in Elements(subscribed) :
              d \in Conns /\ response'[d] \in {<<>>, <<"news", Nul>>}
<1>1. subscribed \in Seq(Conns) /\ DOMAIN subscribed = 1..Len(subscribed) /\ Len(subscribed) \in Nat
  BY ServerTyped DEF FInv
<1>2. \A i \in DOMAIN subscribed : subscribed[i] \in Conns /\ subscribed[i] \in Elements(subscribed)
  BY <1>1 DEF Elements
<1>3. \A i \in DOMAIN subscribed : response[subscribed[i]] = <<>>
  BY <1>2 DEF RInv, ReplyAt
<1>4. Blocked = {}
  <2> SUFFICES ASSUME NEW i \in DOMAIN subscribed, BusyAt(i) PROVE FALSE
    BY DEF Blocked
  <2>1. ~Busy(subscribed[i])
    BY <1>3 DEF Busy
  <2>2. PICK j \in 1..i - 1 : subscribed[j] = subscribed[i]
    BY <2>1 DEF BusyAt
  <2>3. j \in DOMAIN subscribed /\ j # i
    BY <1>1
  <2>4. QED
    BY <2>2, <2>3 DEF RInv, Distinct
<1>5. subscribed' = <<>>
  BY <1>4 DEF Announce
<1>6. Elements(subscribed)' = {}
  BY <1>5 DEF Elements
<1>7. Told \subseteq Elements(subscribed)
  BY DEF Told, Elements
<1>8. \A d \in Conns :
        response'[d] = IF d \in Told /\ Connected(d) THEN <<"news", Nul>> ELSE response[d]
  BY Zenon DEF Announce
<1>9. \A d \in Elements(subscribed) : d \in Conns /\ response[d] = <<>>
  BY <1>2, <1>3 DEF Elements
<1>10. QED
  BY <1>5, <1>6, <1>7, <1>8, <1>9

\* What an execution may do to the reply of a client, and what that keeps.
Newly(d) ==
  \/ /\ response'[d] = response[d]
     /\ d \in Elements(subscribed)' <=> d \in Elements(subscribed)
  \/ /\ d \in Elements(subscribed) /\ d \notin Elements(subscribed)'
     /\ response'[d] \in {<<>>, <<"news", Nul>>}

LEMMA NewlyKept ==
  ASSUME FInv, NEW d \in Conns, ReplyAt(d), Newly(d), UNCHANGED <<clientVars, toClient>>
  PROVE  ReplyAt(d)'
<1>0. UNCHANGED <<phase, at, got, toClient>>
  BY DEF clientVars
<1>1. CASE /\ response'[d] = response[d]
           /\ d \in Elements(subscribed)' <=> d \in Elements(subscribed)
  BY <1>0, <1>1, ReplyKept
<1>2. CASE /\ d \in Elements(subscribed) /\ d \notin Elements(subscribed)'
           /\ response'[d] \in {<<>>, <<"news", Nul>>}
  <2>1. ~(d \in Reads /\ phase[d] \in {"new", "ready"})
    BY <1>2 DEF ReplyAt, Empty, Idle
  <2>2. ASSUME phase[d] = "reading"
        PROVE  d \in Reads /\ (Empty(d)' \/ OnItsWay(d)')
    <3>1. d \in Reads /\ Awaiting(d)
      BY <1>2, <2>2 DEF ReplyAt, Empty, Idle, OnItsWay
    <3>2. CASE response'[d] = <<>>
      BY <1>0, <1>2, <3>1, <3>2 DEF Awaiting, Empty, Idle
    <3>3. CASE response'[d] = <<"news", Nul>>
      <4>1. toClient'[d] = <<>> /\ got'[d] = <<>>
        BY <1>0, <3>1 DEF Awaiting
      <4>2. <<"news", Nul>> \in Seq(Byte) /\ <<>> \in Seq(Byte)
        BY EmptySeq DEF Byte, Replies
      <4>3. (<<>> \o <<>>) \o <<"news", Nul>> = <<"news", Nul>>
        BY <4>2, ConcatEmptySeq, Zenon
      <4>4. (got'[d] \o toClient'[d]) \o response'[d] = <<"news", Nul>>
        BY <3>3, <4>1, <4>3, Zenon
      <4>5. Current(d)' # "ask"
        BY <1>0, <3>1 DEF Awaiting, Current
      <4>6. ReplyTo(d)' = <<"news", Nul>>
        BY <4>5 DEF ReplyTo
      <4>7. QED
        BY <1>2, <3>1, <4>4, <4>6 DEF OnItsWay
    <3>4. QED
      BY <1>2, <3>1, <3>2, <3>3
  <2>3. QED
    BY <1>0, <1>2, <2>1, <2>2 DEF ReplyAt
<1>3. QED
  BY <1>1, <1>2 DEF Newly

\* A command is executed.
LEMMA ExecutionReplies ==
  ASSUME FInv, RInv, WhoAwaitsReads, job = "ticking", NEW c \in Conns,
         Len(executed[c]) + 1 \in 1..Len(Script[c]),
         \E n \in Reached(c) : Len(executed[c]) < n,
         OnCommand(c, Text(Script[c][Len(executed[c]) + 1])),
         UNCHANGED <<clientVars, toClient, job>>,
         \A d \in Conns : Nul \notin Elements(cur_command[d])'
  PROVE  RInv'
<1> DEFINE e == Len(executed[c])
           k == Script[c][e + 1]
           x == Text(k)
<1>0. UNCHANGED <<phase, at, got, toClient>>
  BY DEF clientVars
<1>1. /\ e \in Nat /\ k \in Kinds /\ executed[c] \in Seq(Seq(Byte)) /\ e + 1 \in 1..Len(Script[c])
      /\ x \in Seq(Byte)
  <2>1. Script[c] \in Seq(Kinds) /\ e \in Nat /\ executed[c] \in Seq(Seq(Byte))
    BY RepliesTyped
  <2>2. k \in Kinds
    BY <2>1
  <2>3. QED
    BY <2>1, <2>2, Texts
<1>2. /\ executed' = [executed EXCEPT ![c] = Append(@, x)]
      /\ \/ /\ x = Text("ask")
            /\ response' = [response EXCEPT ![c] = Sent(c, "answer")]
            /\ UNCHANGED subscribed
         \/ /\ x = Text("await")
            /\ subscribed' = Append(subscribed, c)
            /\ UNCHANGED response
         \/ x = Text("announce") /\ Announce
         \/ /\ x \notin {Text("ask"), Text("await"), Text("announce")}
            /\ UNCHANGED <<response, subscribed>>
  BY DEF OnCommand
<1>3. /\ executed'[c] = Append(executed[c], x)
      /\ \A d \in Conns \ {c} : executed'[d] = executed[d]
  BY <1>2, ServerTyped DEF FInv
<1>4. /\ Len(executed'[c]) = e + 1 /\ executed'[c][e + 1] = x
      /\ \A i \in 1..e : executed'[c][i] = executed[c][i]
  BY <1>1, <1>3, AppendProperties
<1>5. response \in [Conns -> Seq(Byte)] /\ subscribed \in Seq(Conns)
  BY ServerTyped DEF FInv
<1>7. ASSUME NEW d \in Conns PROVE WordsAt(d)'
  <2>1. WordsAt(d)
    BY DEF RInv
  <2>2. CASE d = c
    <3>1. \A i \in 1..e : executed[c][i] = Text(Script[c][i])
      BY <2>1, <2>2 DEF WordsAt, Words
    <3>2. \A i \in 1..e + 1 : executed'[c][i] = Text(Script[c][i])
      <4> SUFFICES ASSUME NEW i \in 1..e + 1 PROVE executed'[c][i] = Text(Script[c][i])
        OBVIOUS
      <4>1. i \in 1..e \/ i = e + 1
        BY <1>1
      <4> HIDE DEF e
      <4>2. QED
        BY <1>4, <3>1, <4>1, Zenon
    <3>3. e + 1 <= Len(Script[c])
      BY <1>1
    <3> HIDE DEF e
    <3>4. Words(c, executed'[c])
      BY <1>4, <3>2, <3>3 DEF Words
    <3>5. QED
      BY <2>2, <3>4 DEF WordsAt, Words, Text
  <2>3. CASE d # c
    BY <1>3, <2>1, <2>3 DEF WordsAt, Words, Text
  <2>4. QED
    BY <2>2, <2>3
<1>8. pc'.at # "sleep" => job' = "ticking"
  OBVIOUS
<1>9. ASSUME Distinct(subscribed)', \A d \in Conns : ReplyAt(d)',
             \A d \in Conns \ {c} : Newly(d),
             c \in Reads /\ e + 1 < at[c] => Newly(c)
      PROVE  RInv'
  <2>1. ASSUME NEW d \in Reads PROVE PendingAt(d)'
    <3>1. PendingAt(d) /\ d \in Conns
      BY DEF RInv
    <3>2. CASE d # c
      <4>1. CASE /\ response'[d] = response[d]
                 /\ d \in Elements(subscribed)' <=> d \in Elements(subscribed)
        BY <1>0, <1>3, <3>1, <3>2, <4>1, PendingKept
      <4>2. CASE d \in Elements(subscribed)
        <5>1. ~(Len(executed[d]) < at[d])
          BY <3>1, <4>2 DEF PendingAt, Idle
        <5>2. QED
          BY <1>0, <1>3, <3>1, <3>2, <5>1 DEF PendingAt
      <4>3. QED
        BY <1>9, <3>1, <3>2, <4>1, <4>2 DEF Newly
    <3>3. CASE d = c
      <4>1. at'[c] = at[c] /\ at[c] \in Nat /\ phase'[c] = phase[c]
        BY <1>0, RepliesTyped
      <4>2. \A i \in 1..Len(Script[c]) :
              Len(executed'[c]) < i /\ i < at'[c] => Script[c][i] \notin Asking
        <5>1. \A i \in Nat : e + 1 < i => e < i
          BY <1>1
        <5>2. 1..Len(Script[c]) \subseteq Nat
          OBVIOUS
        <5>3. QED
          BY <1>4, <3>1, <3>3, <4>1, <5>1, <5>2 DEF PendingAt
      <4>3. ASSUME Len(executed'[c]) < at'[c]
            PROVE  Idle(c)' /\ (phase'[c] # "left" => Empty(c)')
        <5>1. e + 1 < at[c] /\ e < at[c]
          BY <1>1, <1>4, <4>1, <4>3
        <5>2. Idle(c) /\ (phase[c] # "left" => Empty(c))
          BY <3>1, <3>3, <5>1 DEF PendingAt
        <5>3. /\ response'[c] = response[c]
              /\ c \in Elements(subscribed)' <=> c \in Elements(subscribed)
          BY <1>9, <3>3, <5>1, <5>2 DEF Newly, Idle
        <5>4. QED
          BY <1>0, <5>2, <5>3 DEF Idle, Empty
      <4>4. QED
        BY <3>3, <4>2, <4>3 DEF PendingAt
    <3>4. QED
      BY <3>2, <3>3
  <2>2. QED
    BY <1>7, <1>8, <1>9, <2>1 DEF RInv
<1>10. CASE x = Text("ask") /\ response' = [response EXCEPT ![c] = Sent(c, "answer")]
            /\ UNCHANGED subscribed
  <2>1. k = "ask"
    BY <1>1, <1>10, TextTells DEF Kinds
  <2>2. Distinct(subscribed)' /\ Elements(subscribed)' = Elements(subscribed)
    BY <1>10 DEF RInv, Distinct, Elements
  <2>3. \A d \in Conns \ {c} : Newly(d)
    BY <1>5, <1>10, <2>2 DEF Newly
  <2>4. c \in Reads => e + 1 = at[c] /\ e < at[c] /\ phase[c] \in {"reading", "left"}
    BY <2>1, Due DEF Asking
  <2>5. ReplyAt(c) /\ at[c] \in Nat
    BY RepliesTyped DEF RInv
  <2>6. ReplyAt(c)'
    <3>1. CASE c \notin Reads
      BY <1>0, <2>2, <2>5, <3>1 DEF ReplyAt
    <3>2. CASE c \in Reads
      <4>1. Idle(c) /\ (phase[c] # "left" => Empty(c))
        BY <2>4, <3>2 DEF RInv, PendingAt
      <4>2. c \notin Elements(subscribed)'
        BY <2>2, <4>1 DEF Idle
      <4>3. response'[c] = <<"answer", Nul>>
        BY <1>5, <1>10, <4>1 DEF Sent, Busy, Idle
      <4>4. CASE phase[c] = "reading"
        <5>1. got'[c] = <<>> /\ toClient'[c] = <<>>
          BY <1>0, <4>1, <4>4 DEF Empty
        <5>2. <<"answer", Nul>> \in Seq(Byte) /\ <<>> \in Seq(Byte)
          BY EmptySeq DEF Byte, Replies
        <5>3. (<<>> \o <<>>) \o <<"answer", Nul>> = <<"answer", Nul>>
          BY <5>2, ConcatEmptySeq, Zenon
        <5>4. (got'[c] \o toClient'[c]) \o response'[c] = <<"answer", Nul>>
          BY <4>3, <5>1, <5>3, Zenon
        <5>5. Current(c)' = "ask"
          BY <1>0, <2>1, <2>4, <3>2 DEF Current
        <5>6. ReplyTo(c)' = <<"answer", Nul>>
          BY <5>5 DEF ReplyTo
        <5>7. OnItsWay(c)'
          BY <4>2, <5>4, <5>6 DEF OnItsWay
        <5>8. QED
          BY <1>0, <3>2, <4>2, <4>4, <5>7 DEF ReplyAt
      <4>5. CASE phase[c] = "left"
        BY <1>0, <4>2, <4>5 DEF ReplyAt
      <4>6. QED
        BY <2>4, <3>2, <4>4, <4>5
    <3>3. QED
      BY <3>1, <3>2
  <2>7. \A d \in Conns : ReplyAt(d)'
    BY <2>3, <2>6, NewlyKept DEF RInv
  <2>8. c \in Reads => ~(e + 1 < at[c])
    BY <2>4, <2>5
  <2>9. QED
    BY <1>9, <2>2, <2>3, <2>7, <2>8
<1>11. CASE x = Text("await") /\ subscribed' = Append(subscribed, c) /\ UNCHANGED response
  <2>1. k = "await"
    BY <1>1, <1>11, TextTells DEF Kinds
  <2>2. c \in Reads
    <3>1. Script[c] \in Seq(Kinds)
      OBVIOUS
    <3>2. e + 1 \in DOMAIN Script[c]
      BY <1>1, <3>1
    <3>3. QED
      BY <2>1, <3>2 DEF WhoAwaitsReads
  <2>3. e + 1 = at[c] /\ e < at[c] /\ phase[c] \in {"reading", "left"} /\ at[c] \in Nat
    BY <2>1, <2>2, Due, RepliesTyped DEF Asking
  <2>4. Idle(c) /\ (phase[c] # "left" => Empty(c))
    BY <2>2, <2>3 DEF RInv, PendingAt
  <2>5. Distinct(subscribed)' /\ Elements(subscribed)' = Elements(subscribed) \union {c}
    <3>1. /\ Distinct(Append(subscribed, c))
          /\ Elements(Append(subscribed, c)) = Elements(subscribed) \union {c}
      BY <1>5, <2>4, AppendedDistinct DEF RInv, Idle
    <3>2. QED
      BY <1>11, <3>1 DEF Distinct, Elements
  <2>6. \A d \in Conns \ {c} : Newly(d)
    BY <1>11, <2>5 DEF Newly
  <2>7. ReplyAt(c)'
    <3>1. c \in Elements(subscribed)' /\ response'[c] = <<>>
      BY <1>11, <2>4, <2>5 DEF Idle
    <3>2. phase[c] = "reading" => Awaiting(c)'
      <4>1. Current(c)' = "await"
        BY <1>0, <2>1, <2>3 DEF Current
      <4>2. QED
        BY <1>0, <2>4, <3>1, <4>1 DEF Awaiting, Empty
    <3>3. QED
      BY <1>0, <2>2, <2>3, <3>1, <3>2 DEF ReplyAt
  <2>8. \A d \in Conns : ReplyAt(d)'
    BY <2>6, <2>7, NewlyKept DEF RInv
  <2>9. ~(e + 1 < at[c])
    BY <2>3
  <2>10. QED
    BY <1>9, <2>5, <2>6, <2>8, <2>9
<1>12. CASE Announce
  <2>1. \A d \in Conns : Newly(d)
    BY <1>12, Announced DEF Newly
  <2>2. \A d \in Conns : ReplyAt(d)'
    BY <2>1, NewlyKept DEF RInv
  <2>3. Distinct(subscribed)'
    BY <1>12, Announced DEF Distinct
  <2>4. QED
    BY <1>9, <2>1, <2>2, <2>3
<1>13. CASE UNCHANGED <<response, subscribed>>
  <2>1. Distinct(subscribed)' /\ Elements(subscribed)' = Elements(subscribed)
    BY <1>13 DEF RInv, Distinct, Elements
  <2>2. \A d \in Conns : Newly(d)
    BY <1>13, <2>1 DEF Newly
  <2>3. \A d \in Conns : ReplyAt(d)'
    BY <2>2, NewlyKept DEF RInv
  <2>4. QED
    BY <1>9, <2>1, <2>2, <2>3
<1>14. QED
  BY <1>2, <1>10, <1>11, <1>12, <1>13

\* A zero byte is received, or a connection with half a command closed.
LEMMA ParseReplies ==
  ASSUME FInv, RInv, WhoAwaitsReads, ParseNul, UNCHANGED clientVars
  PROVE  RInv'
<1> DEFINE c == Here
           a == cur_command[Here]
           t == toServer[Here]
<1>1. c \in Conns /\ c \in Elements(connections) /\ c \in Elements(Comers)
  BY HereIsOne, ComersTyped DEF ParseNul, At, FInv
<1>2. /\ UNCHANGED <<toClient, job, pc>> /\ pc.at = "parse"
      /\ chunk # <<>> /\ Head(chunk) = Nul /\ OnCommand(c, cur_command[c])
      /\ cur_command' = [cur_command EXCEPT ![c] = <<>>]
  BY DEF ParseNul, At, sockVars
<1>3. job = "ticking" /\ WordsAt(c)
  BY <1>1, <1>2 DEF RInv
<1>4. \E u \in Seq(Byte) : Unread(c) = Append(cur_command[c], Nul) \o u
  <2>1. a \in Seq(Byte) /\ t \in Seq(Byte) /\ chunk \in Seq(Byte)
    BY <1>1, BytesTyped DEF FInv
  <2>2. Unread(c) = (a \o chunk) \o t
    BY <1>2, UnreadIs DEF Chunk
  <2> HIDE DEF a, t
  <2>3. Append(a, Nul) \in Seq(Byte) /\ Tail(chunk) \in Seq(Byte)
    BY <1>2, <2>1, NulTyped, AppendProperties, HeadTailProperties
  <2>4. (Append(a, Nul) \o Tail(chunk)) \o t = (a \o chunk) \o t
    BY <1>2, <2>1, Moved
  <2>5. (Append(a, Nul) \o Tail(chunk)) \o t = Append(a, Nul) \o (Tail(chunk) \o t)
    <3>1. Associate(Byte)
      BY Associative
    <3>2. QED
      BY <2>1, <2>3, <3>1, Zenon DEF Associate
  <2>6. Tail(chunk) \o t \in Seq(Byte)
    BY <2>1, <2>3, ConcatProperties
  <2>7. QED
    BY <2>2, <2>4, <2>5, <2>6, Zenon DEF a
<1> HIDE DEF c
<1>5. /\ Len(executed[c]) + 1 \in 1..Len(Script[c])
      /\ cur_command[c] = Text(Script[c][Len(executed[c]) + 1])
      /\ \E n \in Reached(c) : Len(executed[c]) < n
  BY <1>1, <1>3, <1>4, NextCommand DEF WordsAt
<1>6. OnCommand(c, Text(Script[c][Len(executed[c]) + 1]))
  BY <1>2, <1>5, Zenon
<1>7. \A d \in Conns : Nul \notin Elements(cur_command[d])'
  <2>1. cur_command \in [Conns -> Seq(Byte)]
    BY ServerTyped DEF FInv
  <2>2. \A d \in Conns : Nul \notin Elements(cur_command[d])
    BY DEF RInv, WordsAt
  <2>3. QED
    BY <1>2, <2>1, <2>2 DEF Elements
<1>8. UNCHANGED <<clientVars, toClient, job>>
  BY <1>2
<1>9. QED
  BY <1>1, <1>3, <1>5, <1>6, <1>7, <1>8, ExecutionReplies

LEMMA PurgeReplies ==
  ASSUME FInv, RInv, WhoAwaitsReads, Purge, UNCHANGED clientVars
  PROVE  RInv'
<1> DEFINE c == Here
<1>1. c \in Conns /\ c \in Elements(connections) /\ c \in Elements(Comers)
  BY HereIsOne, ComersTyped DEF Purge, FInv
<1>2. /\ UNCHANGED <<toClient, job, pc>> /\ pc.at = "purge" /\ c \in to_purge
      /\ cur_command' = [cur_command EXCEPT ![c] = <<>>]
      /\ cur_command[c] # <<>> => OnCommand(c, cur_command[c])
      /\ cur_command[c] = <<>> => UNCHANGED <<response, subscribed, executed>>
  BY DEF Purge, At, sockVars
<1>3. job = "ticking" /\ WordsAt(c)
  BY <1>1, <1>2 DEF RInv
<1>4. \A d \in Conns : Nul \notin Elements(cur_command[d])'
  <2>1. cur_command \in [Conns -> Seq(Byte)]
    BY ServerTyped DEF FInv
  <2>2. \A d \in Conns : Nul \notin Elements(cur_command[d])
    BY DEF RInv, WordsAt
  <2> HIDE DEF c
  <2>3. QED
    BY <1>2, <2>1, <2>2 DEF Elements
<1> HIDE DEF c
<1>5. CASE cur_command[c] = <<>>
  BY <1>2, <1>3, <1>4, <1>5, QuietReplies
<1>6. CASE cur_command[c] # <<>>
  <2>1. Unread(c) = cur_command[c]
    <3>1. Unread(c) = (cur_command[c] \o Chunk(c)) \o toServer[c]
      BY UnreadIs
    <3>2. Chunk(c) = <<>> /\ toServer[c] = <<>>
      BY <1>2, <1>3 DEF Chunk, FInv, FramingInv, Silent
    <3>3. cur_command[c] \in Seq(Byte)
      BY <1>1, BytesTyped DEF FInv
    <3>4. QED
      BY <3>1, <3>2, <3>3, ConcatEmptySeq
  <2>2. /\ Len(executed[c]) + 1 \in 1..Len(Script[c])
        /\ cur_command[c] = Text(Script[c][Len(executed[c]) + 1])
        /\ \E n \in Reached(c) : Len(executed[c]) < n
    BY <1>1, <1>3, <1>6, <2>1, NextCommand DEF WordsAt
  <2>3. OnCommand(c, Text(Script[c][Len(executed[c]) + 1]))
    BY <1>2, <1>6, <2>2, Zenon
  <2>4. UNCHANGED <<clientVars, toClient, job>>
    BY <1>2
  <2>5. QED
    BY <1>1, <1>3, <1>4, <2>2, <2>3, <2>4, ExecutionReplies
<1>7. QED
  BY <1>5, <1>6

\* As much of a reply as the kernel takes is sent.
LEMMA SendReplies ==
  ASSUME FInv, RInv, Send, UNCHANGED clientVars
  PROVE  RInv'
<1>1. PICK c \in Conns : c = Here
  BY HereIsOne DEF Send, At, FInv
<1>2. /\ UNCHANGED <<executed, cur_command, subscribed, job>> /\ pc.at = "send"
      /\ \/ UNCHANGED <<response, toClient>>
         \/ /\ Busy(c)
            /\ \E n \in 1..Len(response[c]) :
                 /\ toClient' = [toClient EXCEPT ![c] = @ \o SubSeq(response[c], 1, n)]
                 /\ response' = [response EXCEPT ![c] = SubSeq(@, n + 1, Len(@))]
  BY <1>1 DEF Send, At
<1>3. job = "ticking"
  BY <1>2 DEF RInv
<1>4. \A d \in Conns : Nul \notin Elements(cur_command[d])'
  BY <1>2 DEF RInv, WordsAt, Elements
<1>5. CASE UNCHANGED <<response, toClient>>
  BY <1>2, <1>3, <1>4, <1>5, QuietReplies
<1>6. CASE /\ Busy(c)
           /\ \E n \in 1..Len(response[c]) :
                 /\ toClient' = [toClient EXCEPT ![c] = @ \o SubSeq(response[c], 1, n)]
                 /\ response' = [response EXCEPT ![c] = SubSeq(@, n + 1, Len(@))]
  <2>0. UNCHANGED <<phase, at, got>>
    BY DEF clientVars
  <2>1. PICK n \in 1..Len(response[c]) :
               /\ toClient' = [toClient EXCEPT ![c] = @ \o SubSeq(response[c], 1, n)]
               /\ response' = [response EXCEPT ![c] = SubSeq(@, n + 1, Len(@))]
    BY <1>6
  <2> DEFINE r == response[c]
             f == SubSeq(r, 1, n)
             g == SubSeq(r, n + 1, Len(r))
  <2>2. /\ r \in Seq(Byte) /\ n \in 0..Len(r) /\ toClient[c] \in Seq(Byte) /\ got[c] \in Seq(Byte)
        /\ r # <<>>
    BY <1>1, <1>6, RepliesTyped DEF Busy
  <2>3. /\ toClient'[c] = toClient[c] \o f /\ response'[c] = g
        /\ \A d \in Conns \ {c} : toClient'[d] = toClient[d] /\ response'[d] = response[d]
    BY <1>1, <2>1, ServerTyped DEF FInv
  <2>4. (got[c] \o (toClient[c] \o f)) \o g = (got[c] \o toClient[c]) \o r
    <3> DEFINE u == got[c]
               v == toClient[c]
    <3> HIDE DEF r, f, g
    <3>1. u \in Seq(Byte) /\ v \in Seq(Byte) /\ r \in Seq(Byte) /\ u \o v \in Seq(Byte)
          /\ f \in Seq(Byte) /\ g \in Seq(Byte)
      BY <2>2, Parts, ConcatProperties DEF f, g
    <3> HIDE DEF u, v
    <3>2. ((u \o v) \o f) \o g = ((u \o v) \o <<>>) \o r
      BY <2>2, <3>1, Taken DEF f, g
    <3>3. (u \o v) \o <<>> = u \o v
      BY <3>1, ConcatEmptySeq
    <3>4. (u \o v) \o f = u \o (v \o f)
      <4>1. Associate(Byte)
        BY Associative
      <4>2. QED
        BY <3>1, <4>1, Zenon DEF Associate
    <3>5. QED
      BY <3>2, <3>3, <3>4, Zenon DEF u, v
  <2> HIDE DEF f, g
  <2>5. Elements(subscribed)' = Elements(subscribed) /\ Distinct(subscribed)'
    BY <1>2 DEF Elements, Distinct, RInv
  <2>6. c \notin Elements(subscribed) /\ ~Idle(c) /\ ~Empty(c) /\ ~Awaiting(c) /\ ReplyAt(c)
    BY <1>1, <2>2 DEF RInv, ReplyAt, Idle, Empty, Awaiting
  <2>7. ReplyAt(c)'
    <3>1. OnItsWay(c) => OnItsWay(c)'
      <4>1. Current(c)' = Current(c) /\ ReplyTo(c)' = ReplyTo(c) /\ got'[c] = got[c]
        BY <2>0 DEF Current, ReplyTo
      <4>2. (got'[c] \o toClient'[c]) \o response'[c] = (got[c] \o toClient[c]) \o response[c]
        BY <2>3, <2>4, <4>1, Zenon
      <4>3. QED
        BY <2>5, <4>1, <4>2, Zenon DEF OnItsWay
    <3>2. QED
      BY <2>0, <2>5, <2>6, <3>1 DEF ReplyAt
  <2>8. ASSUME NEW d \in Conns PROVE WordsAt(d)' /\ ReplyAt(d)'
    <3>1. WordsAt(d) /\ ReplyAt(d)
      BY DEF RInv
    <3>2. WordsAt(d)'
      BY <1>2, <3>1 DEF WordsAt, Words, Text
    <3>3. CASE d # c
      BY <2>0, <2>3, <2>5, <3>1, <3>2, <3>3, ReplyKept
    <3>4. QED
      BY <2>7, <3>2, <3>3
  <2>9. ASSUME NEW d \in Reads PROVE PendingAt(d)'
    <3>1. PendingAt(d) /\ d \in Conns
      BY <1>3 DEF RInv
    <3>2. CASE d # c
      BY <1>2, <2>0, <2>3, <2>5, <3>1, <3>2, PendingKept
    <3>3. CASE d = c
      BY <1>2, <2>0, <2>6, <3>1, <3>3 DEF PendingAt
    <3>4. QED
      BY <3>2, <3>3
  <2>10. QED
    BY <1>2, <1>3, <2>5, <2>8, <2>9 DEF RInv
<1>7. QED
  BY <1>2, <1>5, <1>6

\* Every step of the server.
LEMMA ServerReplies ==
  ASSUME FInv, RInv, WhoAwaitsReads, ServerStep, UNCHANGED clientVars
  PROVE  RInv'
<1>1. CASE EraseJob \/ Accept \/ Recv \/ ParseOverflows \/ ParseEnds \/ WalkEnds \/ PurgeNext
  <2>1. /\ UNCHANGED <<toClient, response, subscribed, executed, cur_command>>
        /\ job' = "ticking" => job = "ticking"
    BY <1>1 DEF EraseJob, Accept, Recv, ParseOverflows, ParseEnds, WalkEnds, PurgeNext, sockVars,
                Fail
  <2>2. pc'.at # "sleep" => job' = "ticking"
    <3>1. pc.at # "sleep" => job = "ticking"
      BY DEF RInv
    <3>2. QED
      BY <1>1, <3>1 DEF EraseJob, Accept, Recv, ParseOverflows, ParseEnds, WalkEnds, PurgeNext,
                        Fail, Go, At
  <2>3. \A c \in Conns : Nul \notin Elements(cur_command[c])'
    BY <2>1 DEF RInv, WordsAt, Elements
  <2>4. QED
    BY <2>1, <2>2, <2>3, QuietReplies
<1>2. CASE ParseLetter
  <2>1. /\ UNCHANGED <<toClient, response, subscribed, executed, job, pc>>
        /\ cur_command' = [cur_command EXCEPT ![Here] = Append(@, Head(chunk))]
        /\ Head(chunk) # Nul /\ chunk # <<>>
    BY <1>2 DEF ParseLetter, sockVars
  <2>2. ASSUME NEW c \in Conns PROVE Nul \notin Elements(cur_command[c])'
    <3>1. Nul \notin Elements(cur_command[c]) /\ cur_command \in [Conns -> Seq(Byte)]
          /\ chunk \in Seq(Byte)
      BY ServerTyped DEF RInv, WordsAt, FInv
    <3>2. \/ cur_command'[c] = cur_command[c]
          \/ cur_command'[c] = Append(cur_command[c], Head(chunk))
      BY <2>1, <3>1
    <3>3. CASE cur_command'[c] = Append(cur_command[c], Head(chunk))
      <4> DEFINE a == cur_command[c]
                 h == Head(chunk)
      <4>1. a \in Seq(Byte) /\ h \in Byte /\ h # Nul /\ Len(a) \in Nat /\ DOMAIN a = 1..Len(a)
        BY <2>1, <3>1, HeadTailProperties
      <4> HIDE DEF a, h
      <4>2. /\ DOMAIN Append(a, h) = 1..Len(a) + 1 /\ Append(a, h)[Len(a) + 1] = h
            /\ \A i \in 1..Len(a) : Append(a, h)[i] = a[i]
        BY <4>1, AppendProperties
      <4>3. \A i \in 1..Len(a) + 1 : i \in 1..Len(a) \/ i = Len(a) + 1
        BY <4>1
      <4>4. \A i \in 1..Len(a) : a[i] # Nul
        BY <3>1, <4>1 DEF Elements, a
      <4>5. \A i \in DOMAIN Append(a, h) : Append(a, h)[i] # Nul
        BY <4>1, <4>2, <4>3, <4>4
      <4>6. QED
        BY <3>3, <4>5 DEF Elements, a, h
    <3>4. QED
      BY <3>1, <3>2, <3>3 DEF Elements
  <2>3. pc'.at # "sleep" => job' = "ticking"
    BY <2>1 DEF RInv
  <2>4. QED
    BY <2>1, <2>2, <2>3, QuietReplies
<1>3. QED
  BY <1>1, <1>2, ParseReplies, PurgeReplies, SendReplies DEF ServerStep

\* At a step of client c the others stay as they are.
LEMMA ClientReplies ==
  ASSUME RInv, NEW c \in Conns, UNCHANGED serverVars,
         \A d \in Conns \ {c} : /\ phase'[d] = phase[d] /\ at'[d] = at[d]
                                /\ got'[d] = got[d] /\ toClient'[d] = toClient[d],
         ReplyAt(c)', job = "ticking" /\ c \in Reads => PendingAt(c)'
  PROVE  RInv'
<1>1. /\ UNCHANGED <<cur_command, response, subscribed, job, pc, executed>>
      /\ Elements(subscribed)' = Elements(subscribed) /\ Distinct(subscribed)'
  BY DEF serverVars, Elements, Distinct, RInv
<1>2. ASSUME NEW d \in Conns PROVE WordsAt(d)' /\ ReplyAt(d)'
  <2>1. WordsAt(d) /\ ReplyAt(d)
    BY DEF RInv
  <2>2. WordsAt(d)'
    BY <1>1, <2>1 DEF WordsAt, Words, Text, Elements
  <2>3. CASE d # c
    BY <1>1, <2>1, <2>2, <2>3, ReplyKept
  <2>4. QED
    BY <2>2, <2>3
<1>3. ASSUME job = "ticking", NEW d \in Reads PROVE PendingAt(d)'
  <2>1. PendingAt(d) /\ d \in Conns
    BY <1>3 DEF RInv
  <2>2. CASE d # c
    BY <1>1, <2>1, <2>2, PendingKept
  <2>3. QED
    BY <1>3, <2>2
<1>4. QED
  BY <1>1, <1>2, <1>3 DEF RInv

\* What a client that reads finds: the reply, and the command is executed.
LEMMA ReplyFound ==
  ASSUME FInv, RInv, NEW c \in Conns, Read(c)
  PROVE  /\ c \in Reads /\ OnItsWay(c) /\ toClient[c] # <<>>
         /\ job = "ticking" => Len(executed[c]) >= at[c]
<1>1. phase[c] = "reading" /\ toClient[c] # <<>>
  BY DEF Read
<1>2. c \in Reads /\ OnItsWay(c)
  BY <1>1 DEF RInv, ReplyAt, Empty, Awaiting
<1>3. ASSUME job = "ticking" PROVE Len(executed[c]) >= at[c]
  <2>1. ~(Len(executed[c]) < at[c])
    BY <1>1, <1>2, <1>3 DEF RInv, PendingAt, Empty
  <2>2. QED
    BY <2>1, RepliesTyped
<1>4. QED
  BY <1>1, <1>2, <1>3

\* The end of a reply comes last, and with it nothing is left.
LEMMA ReplyEnds ==
  ASSUME FInv, RInv, NEW c \in Conns, Read(c), Contains(toClient[c], Nul)
  PROVE  got[c] \o toClient[c] = ReplyTo(c) /\ response[c] = <<>>
<1> DEFINE u == got[c]
           v == toClient[c]
           r == response[c]
           z == ReplyTo(c)
<1>1. u \in Seq(Byte) /\ v \in Seq(Byte) /\ r \in Seq(Byte)
  BY RepliesTyped
<1>2. (u \o v) \o r = z
  BY ReplyFound DEF OnItsWay
<1>3. Len(z) = 2 /\ z[1] # Nul
  BY DEF ReplyTo, Nul
<1>4. PICK j \in 1..Len(v) : v[j] = Nul
  BY DEF Contains
<1> HIDE DEF u, v, r, z
<1>5. /\ u \o v \in Seq(Byte) /\ Len(u \o v) = Len(u) + Len(v)
      /\ \A i \in 1..Len(u) + Len(v) : (u \o v)[i] = IF i <= Len(u) THEN u[i] ELSE v[i - Len(u)]
  BY <1>1, ConcatProperties
<1>6. /\ Len((u \o v) \o r) = Len(u \o v) + Len(r)
      /\ \A i \in 1..Len(u \o v) + Len(r) :
           ((u \o v) \o r)[i] = IF i <= Len(u \o v) THEN (u \o v)[i] ELSE r[i - Len(u \o v)]
  BY <1>1, <1>5, ConcatProperties
<1>7. Len(u) \in Nat /\ Len(v) \in Nat /\ Len(r) \in Nat /\ j \in Nat /\ 1 <= j /\ j <= Len(v)
  BY <1>1, <1>4
<1> DEFINE i == Len(u) + j
<1>8. i \in 1..Len(u) + Len(v) /\ ~(i <= Len(u)) /\ i - Len(u) = j
  BY <1>7
<1>9. (u \o v)[i] = Nul
  BY <1>4, <1>5, <1>8
<1> HIDE DEF i
<1>10. i \in 1..Len(u \o v) + Len(r) /\ i <= Len(u \o v)
  BY <1>5, <1>7, <1>8
<1>11. ((u \o v) \o r)[i] = Nul
  BY <1>6, <1>9, <1>10
<1>12. i # 1
  BY <1>2, <1>3, <1>11
<1>13. Len(u \o v) + Len(r) = 2 /\ Len(u \o v) \in Nat /\ Len(u \o v) >= 2
  <2>1. Len((u \o v) \o r) = 2
    BY <1>2, <1>3
  <2>2. Len(u \o v) \in Nat
    BY <1>5, <1>7
  <2>3. i \in Nat /\ i >= 1 /\ i <= Len(u \o v)
    BY <1>7, <1>8, <1>10
  <2>4. QED
    BY <1>6, <1>12, <2>1, <2>2, <2>3
<1>14. Len(r) = 0
  BY <1>7, <1>13
<1>15. r = <<>>
  BY <1>1, <1>14, EmptySeq
<1>16. u \o v = z
  BY <1>2, <1>5, <1>15, ConcatEmptySeq
<1>17. QED
  BY <1>15, <1>16 DEF u, v, r, z

\* A client opens its connection.
LEMMA ConnectReplies ==
  ASSUME FInv, RInv, NEW c \in Conns, Connect(c), UNCHANGED serverVars
  PROVE  RInv'
<1>1. /\ phase[c] = "new" /\ phase' = [phase EXCEPT ![c] = "ready"]
      /\ UNCHANGED <<at, got, toClient, response, subscribed, executed>>
  BY DEF Connect, serverVars
<1>2. phase'[c] = "ready" /\ \A d \in Conns \ {c} : phase'[d] = phase[d]
  BY <1>1 DEF FInv, IInv, TypeOK, ClientTypeOK
<1>3. ReplyAt(c)'
  BY <1>1, <1>2 DEF RInv, ReplyAt, Empty, Idle, Elements
<1>4. ASSUME job = "ticking", c \in Reads PROVE PendingAt(c)'
  BY <1>1, <1>2, <1>4 DEF RInv, PendingAt, Empty, Idle, Elements
<1>5. QED
  BY <1>1, <1>2, <1>3, <1>4, ClientReplies

\* It writes a command, and waits if there is a reply to wait for.
LEMMA WriteReplies ==
  ASSUME FInv, RInv, NEW c \in Conns, Write(c), UNCHANGED serverVars
  PROVE  RInv'
<1>1. /\ phase[c] = "ready" /\ ~ScriptDone(c)
      /\ UNCHANGED <<got, toClient, response, subscribed, executed>>
      /\ \/ /\ ExpectsReply(c) /\ phase' = [phase EXCEPT ![c] = "reading"] /\ at' = at
         \/ /\ ~ExpectsReply(c) /\ phase' = phase /\ at' = [at EXCEPT ![c] = @ + 1]
  BY DEF Write, serverVars
<1>2. /\ phase \in [Conns -> {"new", "ready", "reading", "left"}] /\ at \in [Conns -> Nat]
      /\ Len(Script[c]) \in Nat /\ Len(executed[c]) \in Nat
  BY RepliesTyped DEF FInv, IInv, TypeOK, ClientTypeOK
<1>3. \A d \in Conns \ {c} : phase'[d] = phase[d] /\ at'[d] = at[d]
  BY <1>1, <1>2
<1>4. ReplyAt(c) /\ (c \in Reads => Empty(c)) /\ Elements(subscribed)' = Elements(subscribed)
  BY <1>1 DEF RInv, ReplyAt, Elements
<1>5. CASE ExpectsReply(c) /\ phase' = [phase EXCEPT ![c] = "reading"] /\ at' = at
  <2>1. phase'[c] = "reading" /\ at'[c] = at[c] /\ c \in Reads
    BY <1>2, <1>5 DEF ExpectsReply
  <2>2. Empty(c) /\ Empty(c)' /\ Idle(c)'
    BY <1>1, <1>4, <2>1 DEF Empty, Idle
  <2>3. ReplyAt(c)'
    BY <1>1, <1>4, <2>1, <2>2 DEF ReplyAt
  <2>4. ASSUME job = "ticking" PROVE PendingAt(c)'
    BY <1>1, <2>1, <2>2, <2>4 DEF RInv, PendingAt
  <2>5. QED
    BY <1>1, <1>3, <2>3, <2>4, ClientReplies
<1>6. CASE ~ExpectsReply(c) /\ phase' = phase /\ at' = [at EXCEPT ![c] = @ + 1]
  <2>1. phase'[c] = "ready" /\ at'[c] = at[c] + 1 /\ at[c] \in Nat
    BY <1>1, <1>2, <1>6
  <2>2. c \in Reads => Empty(c) /\ Empty(c)' /\ Idle(c)' /\ Script[c][at[c]] \notin Asking
    BY <1>1, <1>4, <1>6 DEF Empty, Idle, ExpectsReply, Current, Asking
  <2>3. ReplyAt(c)'
    BY <1>1, <1>4, <2>1, <2>2 DEF ReplyAt
  <2>4. ASSUME job = "ticking", c \in Reads PROVE PendingAt(c)'
    <3>1. \A i \in 1..Len(Script[c]) :
            Len(executed[c]) < i /\ i < at[c] => Script[c][i] \notin Asking
      BY <2>4 DEF RInv, PendingAt
    <3>2. \A i \in 1..Len(Script[c]) : i < at[c] + 1 => i < at[c] \/ i = at[c]
      BY <1>2, <2>1
    <3>3. \A i \in 1..Len(Script[c]) :
            Len(executed[c]) < i /\ i < at[c] + 1 => Script[c][i] \notin Asking
      BY <2>2, <2>4, <3>1, <3>2
    <3>4. QED
      BY <1>1, <2>1, <2>2, <2>4, <3>3 DEF PendingAt
  <2>5. QED
    BY <1>1, <1>3, <2>3, <2>4, ClientReplies
<1>7. QED
  BY <1>1, <1>5, <1>6

\* It reads.
LEMMA ReadReplies ==
  ASSUME FInv, RInv, NEW c \in Conns, Read(c), UNCHANGED serverVars
  PROVE  RInv'
<1>1. /\ phase[c] = "reading"
      /\ UNCHANGED <<response, subscribed, executed>>
      /\ toClient' = [toClient EXCEPT ![c] = <<>>]
      /\ \/ /\ Contains(toClient[c], Nul) /\ phase' = [phase EXCEPT ![c] = "ready"]
            /\ at' = [at EXCEPT ![c] = @ + 1] /\ got' = [got EXCEPT ![c] = <<>>]
         \/ /\ phase' = phase /\ at' = at
            /\ got' = [got EXCEPT ![c] = @ \o toClient[c]]
  BY DEF Read, serverVars
<1>2. /\ phase \in [Conns -> {"new", "ready", "reading", "left"}] /\ at \in [Conns -> Nat]
      /\ got \in [Conns -> Seq(Byte)] /\ toClient \in [Conns -> Seq(Byte)]
      /\ Len(executed[c]) \in Nat
  BY RepliesTyped, ServerTyped DEF FInv, IInv, TypeOK, ClientTypeOK
<1>3. \A d \in Conns \ {c} : /\ phase'[d] = phase[d] /\ at'[d] = at[d]
                             /\ got'[d] = got[d] /\ toClient'[d] = toClient[d]
  BY <1>1, <1>2
<1>4. /\ c \in Reads /\ c \notin Elements(subscribed)' /\ c \notin Elements(subscribed)
      /\ OnItsWay(c) /\ ReplyAt(c) /\ toClient'[c] = <<>>
      /\ job = "ticking" => Len(executed[c]) >= at[c]
  <2>1. /\ c \in Reads /\ OnItsWay(c) /\ c \notin Elements(subscribed)
        /\ job = "ticking" => Len(executed[c]) >= at[c]
    BY ReplyFound DEF OnItsWay
  <2>2. Elements(subscribed)' = Elements(subscribed) /\ toClient'[c] = <<>>
    BY <1>1, <1>2 DEF Elements
  <2>3. QED
    BY <2>1, <2>2 DEF RInv
<1>5. CASE /\ Contains(toClient[c], Nul) /\ phase' = [phase EXCEPT ![c] = "ready"]
           /\ at' = [at EXCEPT ![c] = @ + 1] /\ got' = [got EXCEPT ![c] = <<>>]
  <2>1. phase'[c] = "ready" /\ at'[c] = at[c] + 1 /\ got'[c] = <<>> /\ at[c] \in Nat
    BY <1>2, <1>5
  <2>2. Idle(c)' /\ Empty(c)'
    BY <1>1, <1>4, <1>5, <2>1, ReplyEnds DEF Idle, Empty
  <2>3. ReplyAt(c)'
    BY <1>4, <2>1, <2>2 DEF ReplyAt
  <2>4. ASSUME job = "ticking" PROVE PendingAt(c)'
    <3>1. \A i \in 1..Len(Script[c]) : ~(Len(executed[c]) < i /\ i < at[c] + 1)
      BY <1>2, <1>4, <2>1, <2>4
    <3>2. QED
      BY <1>1, <2>1, <2>2, <3>1 DEF PendingAt
  <2>5. QED
    BY <1>3, <2>3, <2>4, ClientReplies
<1>6. CASE /\ phase' = phase /\ at' = at
           /\ got' = [got EXCEPT ![c] = @ \o toClient[c]]
  <2>1. got'[c] = got[c] \o toClient[c] /\ phase'[c] = "reading" /\ at'[c] = at[c]
    BY <1>1, <1>2, <1>6
  <2>2. OnItsWay(c)'
    <3>1. got[c] \o toClient[c] \in Seq(Byte)
      BY <1>2, ConcatProperties
    <3>2. (got[c] \o toClient[c]) \o <<>> = got[c] \o toClient[c]
      BY <3>1, ConcatEmptySeq
    <3>3. (got'[c] \o toClient'[c]) \o response'[c] = (got[c] \o toClient[c]) \o response[c]
      BY <1>1, <1>4, <2>1, <3>2
    <3>4. ReplyTo(c)' = ReplyTo(c)
      BY <1>6 DEF ReplyTo, Current
    <3>5. QED
      BY <1>4, <3>3, <3>4 DEF OnItsWay
  <2>3. ReplyAt(c)'
    BY <1>4, <2>1, <2>2 DEF ReplyAt
  <2>4. ASSUME job = "ticking" PROVE PendingAt(c)'
    <3>1. ~(Len(executed[c]) < at[c])
      BY <1>2, <1>4, <2>4
    <3>2. QED
      BY <1>1, <2>1, <2>4, <3>1, <1>4 DEF PendingAt, RInv
  <2>5. QED
    BY <1>3, <2>3, <2>4, ClientReplies
<1>7. QED
  BY <1>1, <1>5, <1>6

\* It leaves; what was told it and not read is gone.
LEMMA LeaveReplies ==
  ASSUME FInv, RInv, NEW c \in Conns, Leave(c), UNCHANGED serverVars
  PROVE  RInv'
<1>1. /\ phase' = [phase EXCEPT ![c] = "left"] /\ toClient' = [toClient EXCEPT ![c] = <<>>]
      /\ UNCHANGED <<at, got, response, subscribed, executed>>
  BY DEF Leave, CloseByClient, serverVars
<1>2. /\ phase'[c] = "left"
      /\ \A d \in Conns \ {c} : phase'[d] = phase[d] /\ toClient'[d] = toClient[d]
  BY <1>1, ServerTyped DEF FInv, IInv, TypeOK, ClientTypeOK
<1>3. ReplyAt(c)'
  BY <1>1, <1>2 DEF RInv, ReplyAt, Elements
<1>4. ASSUME job = "ticking", c \in Reads PROVE PendingAt(c)'
  BY <1>1, <1>2, <1>4 DEF RInv, PendingAt, Idle, Elements
<1>5. QED
  BY <1>1, <1>2, <1>3, <1>4, ClientReplies

\* A client that reads the reply to a command before it sends the next gets that
\* reply and nothing with it, though answers and news share one slot (response) and
\* are sent in pieces; provided that who subscribes reads the news.
THEOREM OneReplyAtATime ==
  ASSUME WhoAwaitsReads
  PROVE  Spec => RepliesMatch
<1>1. Init => FInv /\ RInv
  <2> SUFFICES ASSUME Init PROVE RInv
    BY InitFrames
  <2>1. Elements(subscribed) = {} /\ Distinct(subscribed)
    BY DEF Init, Elements, Distinct
  <2>2. ASSUME NEW c \in Conns
        PROVE  /\ phase[c] = "new" /\ at[c] = 1 /\ got[c] = <<>> /\ toClient[c] = <<>>
               /\ response[c] = <<>> /\ executed[c] = <<>> /\ cur_command[c] = <<>>
               /\ Len(Script[c]) \in Nat
    <3>1. Script[c] \in Seq(Kinds)
      OBVIOUS
    <3>2. QED
      BY <3>1 DEF Init, SocketInit, ClientInit
  <2>3. ASSUME NEW c \in Conns PROVE Idle(c) /\ Empty(c) /\ ReplyAt(c)
    BY <2>1, <2>2 DEF Idle, Empty, ReplyAt
  <2>4. ASSUME NEW c \in Conns PROVE WordsAt(c)
    <3>1. Len(<<>>) = 0 /\ DOMAIN <<>> = 1..0
      BY EmptySeq
    <3>2. \A i : i \notin 1..0
      OBVIOUS
    <3>3. QED
      BY <2>2, <3>1, <3>2 DEF WordsAt, Words, Elements
  <2>5. ASSUME NEW c \in Reads PROVE PendingAt(c)
    <3>1. c \in Conns /\ at[c] = 1 /\ Len(executed[c]) = 0
      BY <2>2, EmptySeq
    <3>2. \A i \in 1..Len(Script[c]) : ~(0 < i /\ i < 1)
      BY <2>2, <3>1
    <3>3. QED
      BY <2>3, <3>1, <3>2 DEF PendingAt
  <2>6. pc.at = "sleep"
    BY DEF Init
  <2>7. QED
    BY <2>1, <2>3, <2>4, <2>5, <2>6 DEF RInv
<1>2. FInv /\ RInv /\ [Next]_vars => FInv' /\ RInv'
  <2> SUFFICES ASSUME FInv, RInv, [Next]_vars PROVE RInv'
    BY NextFrames
  <2>1. CASE ServerStep /\ UNCHANGED clientVars
    BY <2>1, ServerReplies
  <2>2. CASE \E c \in Conns : ClientStep(c) /\ UNCHANGED serverVars
    BY <2>2, ConnectReplies, WriteReplies, ReadReplies, LeaveReplies DEF ClientStep
  <2>3. CASE UNCHANGED vars
    <3>1. UNCHANGED <<clientVars, toClient, response, subscribed, executed, cur_command, job, pc>>
      BY <2>3 DEF vars, sockVars, serverVars
    <3>2. \A c \in Conns : Nul \notin Elements(cur_command[c])'
      BY <3>1 DEF RInv, WordsAt, Elements
    <3>3. pc'.at # "sleep" => job' = "ticking"
      BY <3>1 DEF RInv
    <3>4. QED
      BY <3>1, <3>2, <3>3, QuietReplies
  <2>4. QED
    BY <2>1, <2>2, <2>3 DEF Next
<1> DEFINE Matching ==
      \A c \in Conns :
        (phase[c] = "reading" /\ phase'[c] = "ready") =>
          got[c] \o toClient[c] =
            <<IF Current(c) = "ask" THEN "answer" ELSE "news", Nul>>
<1>3. FInv /\ RInv /\ [Next]_vars => [Matching]_vars
  <2> SUFFICES ASSUME FInv, RInv, Next, NEW c \in Conns,
                      phase[c] = "reading", phase'[c] = "ready"
               PROVE  got[c] \o toClient[c] = ReplyTo(c)
    BY DEF ReplyTo
  <2>1. phase \in [Conns -> {"new", "ready", "reading", "left"}]
    BY DEF FInv, IInv, TypeOK, ClientTypeOK
  <2>2. PICK d \in Conns : ClientStep(d)
    <3>1. ~UNCHANGED clientVars
      BY DEF clientVars
    <3>2. QED
      BY <3>1 DEF Next
  <2>3. CASE Connect(d)
    BY <2>1, <2>3 DEF Connect
  <2>4. CASE Write(d)
    BY <2>1, <2>4 DEF Write
  <2>5. CASE Leave(d)
    BY <2>1, <2>5 DEF Leave
  <2>6. CASE Read(d)
    <3>1. Contains(toClient[d], Nul) /\ d = c
      BY <2>1, <2>6 DEF Read
    <3>2. QED
      BY <2>6, <3>1, ReplyEnds
  <2>7. QED
    BY <2>2, <2>3, <2>4, <2>5, <2>6 DEF ClientStep
<1>4. QED
  BY <1>1, <1>2, <1>3, PTL DEF Spec, RepliesMatch
=============================================================================
