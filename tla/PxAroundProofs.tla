--------------------------- MODULE PxAroundProofs ---------------------------
(***************************************************************************)
(* Two users of the daemon of PxDaemon: pxctl (PxControl), whose client    *)
(* reads what the daemon tells, and the console log (PxConsole), in which  *)
(* the daemon says what it does.                                           *)
(***************************************************************************)
EXTENDS PxControl, PxConsole, PxDaemonProofs, FiniteSetTheorems

-----------------------------------------------------------------------------
(***************************************************************************)
(* What pxctl says is true, for any services and dependencies, any number  *)
(* of clients and any command lines.  That a client reads "started" is not *)
(* yet to say that its service has run since it asked: the news might be   *)
(* about what it asked for before, or come from a finishStart() that was   *)
(* in progress already.  AskInv and AnnounceInv exclude these.             *)
(***************************************************************************)

(* The invariant.                                                          *)

ControlTypes ==
  /\ called \in [Clients -> CommandLines]
  /\ todo \in [Clients -> Seq({"start", "stop"} \X Services)]
  /\ said \in [Clients -> Said]
  /\ seen \in [Clients -> [Services -> SUBSET Status]]

\* What c was given to write, and what it has seen of the service of a command.
Line(c) == CommandsFor(called[c][1], called[c][2])
Down == {"Inactive", "Failed"}
HasRun(c, s) == "Running" \in seen[c][s]
HasBeenDown(c, s) == seen[c][s] \intersect Down # {}
Honoured(c, command) ==
  /\ command[1] = "start" => HasRun(c, command[2])
  /\ command[1] = "stop" => HasBeenDown(c, command[2])

\* c has dealt with the first k commands of its line.
DealtWith(c, k) ==
  /\ Len(Line(c)) = k + Len(todo[c])
  /\ \A j \in DOMAIN todo[c] : todo[c][j] = Line(c)[k + j]
  /\ \A i \in 1..k : Honoured(c, Line(c)[i])

TalkInv ==
  \A c \in Clients :
    /\ \E k \in Nat : DealtWith(c, k)
    /\ said[c] = "done" => todo[c] = <<>>

\* A client is subscribed to the service of its current command and no other, and
\* has no news it could read; news are of this service, and true.
AskInv ==
  \A c \in Clients :
    /\ \A s \in Services : c \in subscribed[s] =>
         reply[c] \in {"pending", "error"} /\ Current(c)[2] = s
    /\ reply[c] # "unsent" => todo[c] # <<>>
    /\ reply[c] = "started" => HasRun(c, Current(c)[2])
    /\ reply[c] = "stopped" => HasBeenDown(c, Current(c)[2])

\* Who waits for the end of a finishStart() asked before it began.
Announcing(s) ==
  \E k \in DOMAIN stack : stack[k].fn = "finishStart" /\ stack[k].svc = s
AnnounceInv ==
  \A s \in Services : Announcing(s) =>
    \A c \in Clients : c \in subscribed[s] /\ reply[c] = "pending" => HasRun(c, s)

ControlInv == TypeInv /\ ControlTypes /\ TalkInv /\ AskInv /\ AnnounceInv

-----------------------------------------------------------------------------
(* Command lines.                                                          *)

\* The commands of a line are a sequence of start and stop, as many as there are
\* services, or twice as many.
LEMMA LineIsSeq ==
  ASSUME NEW l \in CommandLines
  PROVE  CommandsFor(l[1], l[2]) \in Seq({"start", "stop"} \X Services)
<1> DEFINE names == l[2]
           n == Len(names)
<1>1. l[1] \in {"start", "stop", "restart"} /\ names \in Seq(Services)
  BY ControlAssumption
<1>2. n \in Nat /\ DOMAIN names = 1..n /\ \A i \in 1..n : names[i] \in Services
  BY <1>1
<1> HIDE DEF names, n
<1>3. CASE l[1] = "restart"
  <2> DEFINE item(i) == <<IF i % 2 = 1 THEN "stop" ELSE "start", names[(i + 1) \div 2]>>
  <2>1. \A i \in 1..(2 * n) : (i + 1) \div 2 \in 1..n
    BY <1>2
  <2>2. \A i \in 1..(2 * n) : item(i) \in {"start", "stop"} \X Services
    BY <1>2, <2>1
  <2>3. CommandsFor(l[1], l[2]) = [i \in 1..(2 * n) |-> item(i)]
    BY <1>3 DEF CommandsFor, names, n
  <2> HIDE DEF item
  <2>4. 2 * n \in Nat
    BY <1>2
  <2>5. QED
    BY <2>2, <2>3, <2>4
<1>4. CASE l[1] # "restart"
  <2>1. CommandsFor(l[1], l[2]) = [i \in 1..n |-> <<l[1], names[i]>>]
    BY <1>2, <1>4 DEF CommandsFor, names
  <2>2. QED
    BY <1>1, <1>2, <1>4, <2>1
<1>5. QED
  BY <1>3, <1>4

\* Each service of a line is started, stopped, or stopped and started.
LEMMA LineNames ==
  ASSUME NEW l \in CommandLines, NEW i \in DOMAIN l[2]
  PROVE  /\ l[1] \in {"start", "restart"} =>
              \E j \in DOMAIN CommandsFor(l[1], l[2]) :
                CommandsFor(l[1], l[2])[j] = <<"start", l[2][i]>>
         /\ l[1] \in {"stop", "restart"} =>
              \E j \in DOMAIN CommandsFor(l[1], l[2]) :
                CommandsFor(l[1], l[2])[j] = <<"stop", l[2][i]>>
<1> DEFINE names == l[2]
           n == Len(names)
<1>1. l[1] \in {"start", "stop", "restart"} /\ names \in Seq(Services)
  BY ControlAssumption
<1>2. n \in Nat /\ DOMAIN names = 1..n /\ i \in 1..n
  BY <1>1
<1> HIDE DEF n
<1>3. CASE l[1] = "restart"
  <2> DEFINE item(j) == <<IF j % 2 = 1 THEN "stop" ELSE "start", names[(j + 1) \div 2]>>
  <2>1. CommandsFor(l[1], l[2]) = [j \in 1..(2 * n) |-> item(j)]
    BY <1>3 DEF CommandsFor, n
  <2>2. /\ 2 * i \in 1..(2 * n) /\ (2 * i) % 2 = 0 /\ (2 * i + 1) \div 2 = i
        /\ 2 * i - 1 \in 1..(2 * n) /\ (2 * i - 1) % 2 = 1 /\ (2 * i - 1 + 1) \div 2 = i
    BY <1>2
  <2>3. item(2 * i) = <<"start", names[i]>> /\ item(2 * i - 1) = <<"stop", names[i]>>
    BY <2>2
  <2> HIDE DEF item
  <2>4. QED
    BY <2>1, <2>2, <2>3
<1>4. CASE l[1] # "restart"
  <2>1. CommandsFor(l[1], l[2]) = [j \in 1..n |-> <<l[1], names[j]>>]
    BY <1>2, <1>4 DEF CommandsFor
  <2>2. QED
    BY <1>1, <1>2, <1>4, <2>1
<1>5. QED
  BY <1>3, <1>4

\* A client that has dealt with everything may say so.
LEMMA InvSaysTrue == ControlInv => SaidIsTrue
<1> SUFFICES ASSUME ControlInv, NEW c \in Clients, said[c] = "done",
                    NEW i \in DOMAIN called[c][2]
             PROVE  LET s == called[c][2][i]
                    IN  /\ called[c][1] \in {"start", "restart"} => HasRun(c, s)
                        /\ called[c][1] \in {"stop", "restart"} => HasBeenDown(c, s)
  BY DEF SaidIsTrue, Names, HasRun, HasBeenDown, Down
<1> DEFINE s == called[c][2][i]
<1>1. called[c] \in CommandLines
  BY DEF ControlInv, ControlTypes
<1>2. Line(c) \in Seq({"start", "stop"} \X Services)
  BY <1>1, LineIsSeq DEF Line
<1>3. PICK k \in Nat : DealtWith(c, k)
  BY DEF ControlInv, TalkInv
<1>4. Len(Line(c)) = k
  BY <1>3 DEF ControlInv, TalkInv, DealtWith
<1>5. \A j \in DOMAIN Line(c) : Honoured(c, Line(c)[j])
  BY <1>2, <1>3, <1>4 DEF DealtWith
<1>6. ASSUME called[c][1] \in {"start", "restart"} PROVE HasRun(c, s)
  <2>1. PICK j \in DOMAIN Line(c) : Line(c)[j] = <<"start", s>>
    BY <1>1, <1>6, LineNames DEF Line
  <2>2. QED
    BY <1>5, <2>1 DEF Honoured
<1>7. ASSUME called[c][1] \in {"stop", "restart"} PROVE HasBeenDown(c, s)
  <2>1. PICK j \in DOMAIN Line(c) : Line(c)[j] = <<"stop", s>>
    BY <1>1, <1>7, LineNames DEF Line
  <2>2. QED
    BY <1>5, <2>1 DEF Honoured
<1>8. QED
  BY <1>6, <1>7

\* At first nothing has been dealt with.
LEMMA InitControl == ControlInit => ControlInv
<1> SUFFICES ASSUME ControlInit PROVE ControlInv
  OBVIOUS
<1>1. TypeInv
  BY InitTypes DEF ControlInit
<1>2. ControlTypes
  BY LineIsSeq DEF ControlInit, ControlTypes, Said
<1>3. ASSUME NEW c \in Clients PROVE DealtWith(c, 0)
  <2>1. todo[c] = Line(c) /\ Line(c) \in Seq({"start", "stop"} \X Services)
    BY <1>2 DEF ControlInit, ControlTypes, Line
  <2>2. QED
    BY <2>1 DEF DealtWith
<1>4. TalkInv
  BY <1>3 DEF ControlInit, TalkInv
<1>5. AskInv /\ AnnounceInv
  BY DEF ControlInit, Init, AskInv, AnnounceInv, Announcing
<1>6. QED
  BY <1>1, <1>2, <1>4, <1>5 DEF ControlInv

-----------------------------------------------------------------------------
(* What a client sees.                                                     *)

\* It forgets only before it has dealt with its first command.
LEMMA Sees ==
  ASSUME See, NEW c \in Clients, reply'[c] # "unsent" \/ todo'[c] # Line(c)
  PROVE  \A s \in Services : seen'[c][s] = seen[c][s] \union {status'[s]}
  BY DEF See, Line

\* What it has seen are statuses.
LEMMA SeenTypes ==
  ASSUME ControlTypes, See, status' \in [Services -> Status]
  PROVE  seen' \in [Clients -> [Services -> SUBSET Status]]
<1>1. \A c \in Clients, s \in Services :
        seen[c][s] \subseteq Status /\ status'[s] \in Status
  BY DEF ControlTypes
<1>2. QED
  BY <1>1 DEF See

\* What a client has dealt with it has dealt with for good.
LEMMA DealtWithStays ==
  ASSUME ControlTypes, See, NEW c \in Clients, NEW k \in Nat, DealtWith(c, k),
         called' = called,
         todo'[c] = todo[c]
  PROVE  DealtWith(c, k)'
<1>1. called[c] \in CommandLines /\ Line(c)' = Line(c)
  BY DEF ControlTypes, Line
<1>2. Line(c) \in Seq({"start", "stop"} \X Services)
  BY <1>1, LineIsSeq DEF Line
<1>3. todo[c] \in Seq({"start", "stop"} \X Services)
  BY DEF ControlTypes
<1>4. ASSUME NEW i \in 1..k PROVE Honoured(c, Line(c)[i])'
  <2>1. todo'[c] # Line(c)
    BY <1>2, <1>3, <1>4 DEF DealtWith
  <2>2. Line(c)[i][2] \in Services
    BY <1>2, <1>3, <1>4 DEF DealtWith
  <2>3. seen[c][Line(c)[i][2]] \subseteq seen'[c][Line(c)[i][2]]
    BY <2>1, <2>2, Sees
  <2>4. Honoured(c, Line(c)[i])
    BY <1>4 DEF DealtWith
  <2>5. QED
    BY <1>1, <2>3, <2>4 DEF Honoured, HasRun, HasBeenDown
<1>5. QED
  BY <1>1, <1>4 DEF DealtWith

\* So a step that writes and reads nothing keeps TalkInv.
LEMMA TalkStays ==
  ASSUME ControlTypes, TalkInv, See, UNCHANGED <<called, todo, said>>
  PROVE  TalkInv'
<1> SUFFICES ASSUME NEW c \in Clients
             PROVE  (\E k \in Nat : DealtWith(c, k)') /\ (said'[c] = "done" => todo'[c] = <<>>)
  BY DEF TalkInv
<1>1. PICK k \in Nat : DealtWith(c, k)
  BY DEF TalkInv
<1>2. DealtWith(c, k)'
  BY <1>1, DealtWithStays
<1>3. QED
  BY <1>2 DEF TalkInv

-----------------------------------------------------------------------------
(* What the daemon's steps tell clients.                                   *)

\* News go to who is subscribed, "started" at the end of a finishStart() and
\* "stopped" when the service is down; an error goes to the one that asked.
Tells ==
  \/ UNCHANGED clientVars
  \/ \E s \in Services, news \in {"started", "stopped", "failed"} :
       /\ Dispatch(s, news)
       /\ news = "started" => Announcing(s)
       /\ news = "stopped" => status'[s] \in Down
  \/ /\ UNCHANGED subscribed
     /\ \E a : reply' = [reply EXCEPT ![a] =
                           IF ret = "err" /\ @ = "pending" THEN "error" ELSE @]

\* They tell nothing else.
LEMMA DaemonTells ==
  ASSUME TypeInv, Boot \/ Run \/ \E s \in Services : Deliver(s) \/ Launch(s)
  PROVE  Tells
<1>1. CASE Boot \/ \E s \in Services : Launch(s)
  BY <1>1 DEF Boot, SetTarget, Launch, Tells, clientVars
<1>2. ASSUME NEW s \in Services, Deliver(s) PROVE Tells
  <2>1. Head(outbox[s]) \in Message /\ Handler(s, Head(outbox[s]))
    BY <1>2 DEF Deliver, TypeInv, DataTypes, LaunchTypeOK
  <2>2. UNCHANGED clientVars \/ FinishStopService(s)
    BY <2>1 DEF Handler, Message, FinishStartService, ServiceFinishes, FailService
  <2>3. CASE FinishStopService(s)
    <3>1. status'[s] = IF failLocked[s] THEN "Failed" ELSE "Inactive"
      BY <2>3 DEF FinishStopService, SetStatus, TypeInv, DataTypes
    <3>2. Dispatch(s, "failed") \/ Dispatch(s, "stopped")
      BY <2>3 DEF FinishStopService
    <3>3. QED
      BY <3>1, <3>2 DEF Tells, Down
  <2>4. QED
    BY <2>2, <2>3 DEF Tells
<1>3. CASE CommandReturns
  BY <1>3 DEF CommandReturns, Tells
<1>4. CASE TargetNext \/ TargetEnds
  BY <1>4 DEF TargetNext, TargetEnds, Tells
<1>5. ASSUME NEW s \in Services, FinishStartEnds(s) PROVE Tells
  <2>1. 1 \in DOMAIN stack /\ stack[1].fn = "finishStart" /\ stack[1].svc = s
    BY <1>5 DEF FinishStartEnds, Runs, Top, TypeInv, CallTypes
  <2>2. QED
    BY <1>5, <2>1 DEF FinishStartEnds, Announcing, Tells
<1>6. ASSUME NEW s \in Services, Update(s) PROVE UNCHANGED clientVars
  BY <1>6 DEF Update, RawStart, RawStartFails, RawStop, BeginStart, BeginStop,
              UpdateIsIdle
<1>7. CASE ServiceStep
  <2>1. UNCHANGED clientVars \/ \E s \in Services : Update(s) \/ FinishStartEnds(s)
    BY <1>7 DEF ServiceStep, StartDepends, StartDepended, StartTriesAfter,
                StartTriedAfter, StartAddedAfter, UpdateSelf, ReturnFromTail,
                StopNext, CascadeEnters, CascadeNext, FinishStartNext,
                FinishStartFails, FinishStopNext, FinishStopEnds
  <2>2. QED
    BY <1>5, <1>6, <2>1 DEF Tells
<1>8. QED
  BY <1>1, <1>2, <1>3, <1>4, <1>7 DEF Run

\* What a client is told it can believe.
LEMMA AskStays ==
  ASSUME TypeInv, ControlTypes, AskInv, AnnounceInv, See, Tells,
         UNCHANGED <<called, todo, said>>
  PROVE  AskInv'
<1> SUFFICES ASSUME NEW c \in Clients
             PROVE  /\ \A s \in Services : c \in subscribed'[s] =>
                         reply'[c] \in {"pending", "error"} /\ Current(c)[2] = s
                    /\ reply'[c] # "unsent" => todo[c] # <<>>
                    /\ reply'[c] = "started" => HasRun(c, Current(c)[2])'
                    /\ reply'[c] = "stopped" => HasBeenDown(c, Current(c)[2])'
  BY DEF AskInv, Current
<1> DEFINE d == Current(c)[2]
<1>1. /\ reply \in [Clients -> Reply] /\ subscribed \in [Services -> SUBSET Clients]
  BY DEF TypeInv, DataTypes
<1>2. todo[c] # <<>> => d \in Services
  BY DEF ControlTypes, Current
<1>3. /\ reply[c] # "unsent" => todo[c] # <<>>
      /\ \A s \in Services : c \in subscribed[s] =>
           reply[c] \in {"pending", "error"} /\ d = s
      /\ reply[c] = "started" => HasRun(c, d)
      /\ reply[c] = "stopped" => HasBeenDown(c, d)
  BY DEF AskInv
<1>4. reply'[c] # "unsent" => \A s \in Services : seen'[c][s] = seen[c][s] \union {status'[s]}
  BY Sees
<1>5. d' = d
  BY DEF Current
<1> HIDE DEF d
<1>6. CASE reply'[c] = reply[c] /\ \A s \in Services : c \in subscribed'[s] => c \in subscribed[s]
  <2>1. reply[c] = "started" => HasRun(c, d)'
    BY <1>2, <1>3, <1>4, <1>5, <1>6 DEF HasRun
  <2>2. reply[c] = "stopped" => HasBeenDown(c, d)'
    BY <1>2, <1>3, <1>4, <1>5, <1>6 DEF HasBeenDown
  <2>3. QED
    BY <1>3, <1>5, <1>6, <2>1, <2>2 DEF d
<1>7. ASSUME NEW s \in Services, NEW news \in {"started", "stopped", "failed"},
             Dispatch(s, news), news = "started" => Announcing(s),
             news = "stopped" => status'[s] \in Down,
             c \in subscribed[s], reply[c] = "pending"
      PROVE  /\ \A r \in Services : c \notin subscribed'[r]
             /\ reply'[c] = news /\ todo[c] # <<>>
             /\ news = "started" => HasRun(c, d)'
             /\ news = "stopped" => HasBeenDown(c, d)'
  <2>1. d = s /\ todo[c] # <<>> /\ \A r \in Services : c \in subscribed[r] => r = s
    BY <1>3, <1>7
  <2>2. reply'[c] = news /\ \A r \in Services : c \notin subscribed'[r]
    BY <1>1, <1>7, <2>1 DEF Dispatch
  <2>3. seen'[c][s] = seen[c][s] \union {status'[s]}
    BY <1>4, <2>2
  <2>4. ASSUME news = "started" PROVE HasRun(c, d)'
    <3>1. HasRun(c, s)
      BY <1>7, <2>4 DEF AnnounceInv
    <3>2. QED
      BY <1>5, <2>1, <2>3, <3>1 DEF HasRun
  <2>5. ASSUME news = "stopped" PROVE HasBeenDown(c, d)'
    BY <1>5, <1>7, <2>1, <2>3, <2>5 DEF HasBeenDown
  <2>6. QED
    BY <2>1, <2>2, <2>4, <2>5
<1>8. ASSUME NEW s \in Services, NEW news \in {"started", "stopped", "failed"},
             Dispatch(s, news), ~(c \in subscribed[s] /\ reply[c] = "pending")
      PROVE  reply'[c] = reply[c] /\ \A r \in Services : c \in subscribed'[r] => c \in subscribed[r]
  BY <1>1, <1>8 DEF Dispatch
<1>9. ASSUME NEW a, UNCHANGED subscribed,
             reply' = [reply EXCEPT ![a] =
                         IF ret = "err" /\ @ = "pending" THEN "error" ELSE @]
      PROVE  \/ reply'[c] = reply[c]
             \/ reply[c] = "pending" /\ reply'[c] = "error"
  BY <1>1, <1>9
<1>10. CASE UNCHANGED subscribed /\ reply[c] = "pending" /\ reply'[c] = "error"
  BY <1>3, <1>10 DEF d
<1>11. CASE UNCHANGED clientVars
  BY <1>6, <1>11 DEF clientVars
<1>12. ASSUME NEW s \in Services, NEW news \in {"started", "stopped", "failed"},
              Dispatch(s, news), news = "started" => Announcing(s),
              news = "stopped" => status'[s] \in Down
       PROVE  /\ \A r \in Services : c \in subscribed'[r] =>
                   reply'[c] \in {"pending", "error"} /\ Current(c)[2] = r
              /\ reply'[c] # "unsent" => todo[c] # <<>>
              /\ reply'[c] = "started" => HasRun(c, Current(c)[2])'
              /\ reply'[c] = "stopped" => HasBeenDown(c, Current(c)[2])'
  <2>1. CASE c \in subscribed[s] /\ reply[c] = "pending"
    BY <1>7, <1>12, <2>1 DEF d
  <2>2. CASE ~(c \in subscribed[s] /\ reply[c] = "pending")
    BY <1>6, <1>8, <1>12, <2>2
  <2>3. QED
    BY <2>1, <2>2
<1>13. QED
  BY <1>6, <1>9, <1>10, <1>11, <1>12 DEF Tells

-----------------------------------------------------------------------------
(* The calls of finishStart() in progress.                                 *)

\* A frame the running one goes on as is of the same function and service.
Follows(f) == f.fn = "finishStart" => Top.fn = "finishStart" /\ f.svc = Top.svc

\* The running member function stays what it is.
LEMMA TopFollows ==
  ASSUME CallTypes, stack # <<>>, NEW s, NEW label,
         NEW fn \in {"update", "start", "stop", "finishStart", "finishStop",
                     "cascadeStop"},
         Runs(fn, s, label)
  PROVE  Follows(Top) /\ Follows(Next1) /\ \A l : Follows(At(l))
<1>1. Top \in ServiceFrame
  BY ServiceTop DEF GoodServiceFrame
<1>2. Next1.fn = Top.fn /\ Next1.svc = Top.svc
  BY <1>1 DEF Next1, ServiceFrame
<1>3. \A l : At(l).fn = Top.fn /\ At(l).svc = Top.svc
  BY <1>1 DEF At, ServiceFrame
<1>4. QED
  BY <1>2, <1>3 DEF Follows

\* No step of a call makes another finishStart().
LEMMA RunFollows ==
  ASSUME TypeInv, Run
  PROVE  /\ stack # <<>>
         /\ \/ \E v : ReturnWith(v)
            \/ \E f : Continue(f) /\ Follows(f)
            \/ \E f, g : Invoke(f, g) /\ Follows(f) /\ g.fn # "finishStart"
<1>1. stack # <<>> /\ CallTypes
  BY DEF Run, ServiceStep, Update, StartDepends, StartDepended, StartTriesAfter,
         StartTriedAfter, StartAddedAfter, UpdateSelf, ReturnFromTail, StopNext,
         CascadeEnters, CascadeNext, FinishStartNext, FinishStartFails,
         FinishStartEnds, FinishStopNext, FinishStopEnds, CommandReturns,
         TargetNext, TargetEnds, Runs, TypeInv
<1>2. /\ \A s : Call("update", s).fn # "finishStart" /\ CascadeCall(s).fn # "finishStart"
      /\ \A s : Follows(Call("start", s)) /\ Follows(Call("stop", s))
  BY DEF Call, CascadeCall, Follows
<1>3. ASSUME NEW s \in Services, Update(s)
      PROVE  (\E v : ReturnWith(v)) \/ \E f : Continue(f) /\ Follows(f)
  BY <1>2, <1>3 DEF Update, RawStart, RawStartFails, RawStop, BeginStart, BeginStop,
                    UpdateIsIdle
<1>4. ASSUME NEW s \in Services, StartDepends(s) \/ StartDepended(s)
      PROVE  \/ \E v : ReturnWith(v)
             \/ Continue(Next1) /\ Follows(Next1)
             \/ \E d : Invoke(At("depended"), Call("update", d)) /\ Follows(At("depended"))
  BY <1>1, <1>4, TopFollows DEF StartDepends, StartDepended
<1>5. ASSUME NEW s \in Services,
             StartTriesAfter(s) \/ StartTriedAfter(s) \/ StartAddedAfter(s)
      PROVE  \/ Continue(Next1) /\ Follows(Next1)
             \/ \E l, d : Invoke(At(l), Call("update", d)) /\ Follows(At(l))
  BY <1>1, <1>5, TopFollows DEF StartTriesAfter, StartTriedAfter, StartAddedAfter
<1>6. ASSUME NEW s \in Services, UpdateSelf(s) \/ StopNext(s) \/ FinishStartNext(s)
                                 \/ FinishStopNext(s)
      PROVE  \E d : \/ Invoke(At("tail"), Call("update", d)) /\ Follows(At("tail"))
                    \/ Invoke(Next1, Call("update", d)) /\ Follows(Next1)
  BY <1>1, <1>6, TopFollows DEF UpdateSelf, StopNext, FinishStartNext, FinishStopNext
<1>7. ASSUME NEW s \in Services, CascadeEnters(s) \/ CascadeNext(s)
      PROVE  \/ \E v : ReturnWith(v)
             \/ \E f \in {At("next"), Next1} : Continue(f) /\ Follows(f)
             \/ \E d : Invoke(Next1, CascadeCall(d)) /\ Follows(Next1)
  BY <1>1, <1>7, TopFollows DEF CascadeEnters, CascadeNext
<1>8. ASSUME NEW s \in Services, ReturnFromTail(s) \/ FinishStartFails(s)
                                 \/ FinishStartEnds(s) \/ FinishStopEnds(s)
      PROVE  \E v : ReturnWith(v)
  BY <1>8 DEF ReturnFromTail, FinishStartFails, FinishStartEnds, FinishStopEnds
<1>9. CASE CommandReturns \/ TargetEnds
  BY <1>1, <1>9 DEF CommandReturns, TargetEnds
<1>10. CASE TargetNext
  <2>1. Top.fn = "setTarget" /\ Top \in GoodFrame
    BY <1>1, <1>10 DEF TargetNext, CallTypes, Top
  <2>2. Top \in TargetFrame
    BY <2>1 DEF GoodFrame, GoodServiceFrame, ServiceFrame, CommandFrame
  <2>3. \A s : Follows([Top EXCEPT !.todo = @ \ {s}])
    BY <2>1, <2>2 DEF TargetFrame, Follows
  <2>4. PICK s : Invoke([Top EXCEPT !.todo = @ \ {s}], Call("update", s))
    BY <1>10 DEF TargetNext
  <2>5. QED
    BY <1>1, <1>2, <2>3, <2>4
<1>11. CASE ServiceStep
  <2>1. PICK s \in Services :
          \/ Update(s)
          \/ StartDepends(s) \/ StartDepended(s)
          \/ StartTriesAfter(s) \/ StartTriedAfter(s) \/ StartAddedAfter(s)
          \/ UpdateSelf(s) \/ StopNext(s) \/ FinishStartNext(s) \/ FinishStopNext(s)
          \/ CascadeEnters(s) \/ CascadeNext(s)
          \/ ReturnFromTail(s) \/ FinishStartFails(s) \/ FinishStartEnds(s)
          \/ FinishStopEnds(s)
    BY <1>11, Zenon DEF ServiceStep
  <2>2. QED
    BY <1>1, <1>2, <1>3, <1>4, <1>5, <1>6, <1>7, <1>8, <2>1
<1>12. QED
  BY <1>9, <1>10, <1>11 DEF Run

\* So the calls of finishStart() are some of those there were.
LEMMA RunAnnounces ==
  ASSUME TypeInv, Run, NEW s \in Services, Announcing(s)'
  PROVE  Announcing(s)
<1> DEFINE rest == Tail(stack)
<1>1. stack # <<>> /\ stack \in Seq(GoodFrame)
  BY RunFollows DEF TypeInv, CallTypes
<1>2. /\ rest \in Seq(GoodFrame) /\ Len(rest) \in Nat /\ DOMAIN rest = 1..Len(rest)
      /\ \A k \in 1..Len(rest) : k + 1 \in DOMAIN stack /\ rest[k] = stack[k + 1]
      /\ 1 \in DOMAIN stack /\ stack[1] = Top
  BY <1>1 DEF Top
<1> HIDE DEF rest
<1>3. \A k \in DOMAIN rest : rest[k].fn = "finishStart" /\ rest[k].svc = s => Announcing(s)
  BY <1>2 DEF Announcing
<1>4. ASSUME NEW f, Follows(f), f.fn = "finishStart", f.svc = s PROVE Announcing(s)
  BY <1>2, <1>4 DEF Follows, Announcing
<1>5. PICK k \in DOMAIN stack' : stack'[k].fn = "finishStart" /\ stack'[k].svc = s
  BY DEF Announcing
<1>6. CASE stack' = rest
  BY <1>3, <1>5, <1>6
<1>7. ASSUME NEW f, stack' = <<f>> \o rest, Follows(f) PROVE Announcing(s)
  <2>1. <<f>> \in Seq({f} \union GoodFrame) /\ rest \in Seq({f} \union GoodFrame)
    BY <1>2
  <2>2. /\ DOMAIN stack' = 1..(1 + Len(rest)) /\ stack'[1] = f
        /\ \A j \in 2..(1 + Len(rest)) : stack'[j] = rest[j - 1]
    BY <1>2, <1>7, <2>1
  <2>3. CASE k = 1
    BY <1>4, <1>5, <1>7, <2>2, <2>3
  <2>4. CASE k # 1
    <3>1. k \in 2..(1 + Len(rest)) /\ k - 1 \in DOMAIN rest
      BY <1>2, <2>2, <2>4
    <3>2. QED
      BY <1>3, <1>5, <2>2, <3>1
  <2>5. QED
    BY <2>3, <2>4
<1>8. ASSUME NEW f, NEW g, stack' = <<g, f>> \o rest, Follows(f), g.fn # "finishStart"
      PROVE  Announcing(s)
  <2>1. <<g, f>> \in Seq({f, g} \union GoodFrame) /\ rest \in Seq({f, g} \union GoodFrame)
    BY <1>2
  <2>2. \/ k = 1 /\ stack'[k] = g
        \/ k = 2 /\ stack'[k] = f
        \/ k - 2 \in DOMAIN rest /\ stack'[k] = rest[k - 2]
    BY <1>2, <1>5, <1>8, <2>1
  <2>3. QED
    BY <1>3, <1>4, <1>5, <1>8, <2>2
<1>9. QED
  BY <1>6, <1>7, <1>8, RunFollows DEF ReturnWith, Continue, Invoke, rest

\* It begins with the report, when the service is Running; who is asked
\* nothing is told later.
LEMMA AnnounceStays ==
  ASSUME TypeInv, ControlTypes, AnnounceInv, See, Tells,
         UNCHANGED <<called, todo, said>>,
         \A s \in Services : Announcing(s)' => Announcing(s) \/ status'[s] = "Running"
  PROVE  AnnounceInv'
<1> SUFFICES ASSUME NEW s \in Services, Announcing(s)',
                    NEW c \in Clients, c \in subscribed'[s], reply'[c] = "pending"
             PROVE  HasRun(c, s)'
  BY DEF AnnounceInv
<1>1. /\ reply \in [Clients -> Reply] /\ subscribed \in [Services -> SUBSET Clients]
  BY DEF TypeInv, DataTypes
<1>2. seen'[c][s] = seen[c][s] \union {status'[s]}
  BY Sees
<1>3. c \in subscribed[s] /\ reply[c] = "pending"
  <2>1. ASSUME NEW r \in Services, NEW news \in {"started", "stopped", "failed"},
               Dispatch(r, news)
        PROVE  c \in subscribed[s] /\ reply[c] = "pending"
    BY <1>1, <2>1 DEF Dispatch
  <2>2. ASSUME NEW a, UNCHANGED subscribed,
               reply' = [reply EXCEPT ![a] =
                           IF ret = "err" /\ @ = "pending" THEN "error" ELSE @]
        PROVE  c \in subscribed[s] /\ reply[c] = "pending"
    BY <1>1, <2>2
  <2>3. QED
    BY <2>1, <2>2 DEF Tells, clientVars
<1>4. CASE Announcing(s)
  BY <1>2, <1>3, <1>4 DEF AnnounceInv, HasRun
<1>5. CASE status'[s] = "Running"
  BY <1>2, <1>5 DEF HasRun
<1>6. QED
  BY <1>4, <1>5

\* Which calls of finishStart() the daemon's other steps leave.
LEMMA DaemonAnnounces ==
  ASSUME TypeInv, Boot \/ Run \/ \E r \in Services : Deliver(r) \/ Launch(r),
         NEW s \in Services, Announcing(s)'
  PROVE  Announcing(s) \/ status'[s] = "Running"
<1>1. CASE Run
  BY <1>1, RunAnnounces
<1>2. CASE UNCHANGED stack
  BY <1>2 DEF Announcing
<1>3. ASSUME NEW f, stack' = <<f>>
      PROVE  f.fn = "finishStart" /\ f.svc = s
  BY <1>3 DEF Announcing
<1>4. CASE Boot
  <2>1. \/ UNCHANGED stack
        \/ \E all : stack' = <<[fn |-> "setTarget", todo |-> all]>>
    BY <1>4 DEF Boot, SetTarget, EnterTarget, EnterTargetFails, callVars, Serve
  <2>2. QED
    BY <1>2, <1>3, <2>1
<1>5. ASSUME NEW r \in Services, Deliver(r)
      PROVE  Announcing(s) \/ status'[s] = "Running"
  <2>1. Head(outbox[r]) \in Message /\ Handler(r, Head(outbox[r]))
    BY <1>5 DEF Deliver, TypeInv, DataTypes, LaunchTypeOK
  <2>2. \/ FinishStartService(r)
        \/ \E fn \in {"update", "finishStop"} : stack' = <<Call(fn, r)>>
    BY <2>1 DEF Handler, Message, ServiceFinishes, FailService, FinishStopService, Serve
  <2>3. CASE FinishStartService(r)
    <3>1. r = s
      BY <1>3, <2>3 DEF FinishStartService, Serve, Call
    <3>2. QED
      BY <2>3, <3>1 DEF FinishStartService, SetStatus, TypeInv, DataTypes
  <2>4. CASE \E fn \in {"update", "finishStop"} : stack' = <<Call(fn, r)>>
    BY <1>3, <2>4 DEF Call
  <2>5. QED
    BY <2>2, <2>3, <2>4
<1>6. QED
  BY <1>1, <1>2, <1>4, <1>5 DEF Launch, callVars

\* What the daemon does keeps the invariant.
LEMMA DaemonStep ==
  ASSUME ControlInv,
         OfTheDaemon(Boot \/ Run) \/ \E s \in Services : OfTheDaemon(Deliver(s))
                                                         \/ OfTheDaemon(Launch(s))
  PROVE  ControlInv'
<1>1. /\ Boot \/ Run \/ \E s \in Services : Deliver(s) \/ Launch(s)
      /\ UNCHANGED <<called, todo, said, useful>> /\ See
  BY DEF OfTheDaemon
<1>2. TypeInv'
  BY <1>1, NextTypes DEF ControlInv, Next
<1>3. ControlTypes'
  BY <1>1, <1>2, SeenTypes DEF ControlInv, ControlTypes, TypeInv, DataTypes
<1>4. TalkInv'
  BY <1>1, TalkStays DEF ControlInv
<1>5. Tells
  BY <1>1, DaemonTells DEF ControlInv
<1>6. AskInv'
  BY <1>1, <1>5, AskStays DEF ControlInv
<1>7. AnnounceInv'
  BY <1>1, <1>5, AnnounceStays, DaemonAnnounces DEF ControlInv
<1>8. QED
  BY <1>2, <1>3, <1>4, <1>6, <1>7 DEF ControlInv

-----------------------------------------------------------------------------
(* What a client does.                                                     *)

\* It writes the next command, and waits for news of its service alone.
LEMMA SendStep ==
  ASSUME ControlInv, NEW c \in Clients, Send(c), See
  PROVE  ControlInv'
<1> USE DEF ControlInv
<1> DEFINE d == Current(c)[2]
<1>1. /\ todo[c] # <<>> /\ Current(c) \in {"start", "stop"} \X Services
      /\ d \in Services /\ said[c] = "nothing" /\ reply[c] = "unsent" /\ stack = <<>>
  BY DEF Send, Talking, Idle, Current, ControlTypes
<1>2. UNCHANGED <<called, todo, said>> /\ (StartService(d, c) \/ StopService(d, c))
  BY DEF Send
<1>3. TypeInv'
  BY <1>1, <1>2, ClientTypes
<1>4. ControlTypes'
  BY <1>2, <1>3, SeenTypes DEF ControlTypes, TypeInv, DataTypes
<1>5. TalkInv'
  BY <1>2, TalkStays
<1>6. /\ reply \in [Clients -> Reply] /\ subscribed \in [Services -> SUBSET Clients]
  BY DEF TypeInv, DataTypes
<1>7. /\ \A e \in Clients \ {c} : reply'[e] = reply[e]
      /\ \A e \in Clients \ {c}, s \in Services : e \in subscribed'[s] <=> e \in subscribed[s]
      /\ reply'[c] \in {"pending", "error"}
      /\ \A s \in Services : c \in subscribed'[s] => s = d
  <2>1. \A s \in Services : c \notin subscribed[s]
    BY <1>1 DEF AskInv
  <2>2. CASE UNCHANGED subscribed /\ reply' = [reply EXCEPT ![c] = "error"]
    BY <1>6, <2>1, <2>2
  <2>3. CASE Subscribe(d, c)
    BY <1>1, <1>6, <2>1, <2>3 DEF Subscribe
  <2>4. QED
    BY <1>2, <2>2, <2>3 DEF StartService, StopService, Refuse
<1>8. \A e \in Clients : Current(e)' = Current(e)
  BY <1>2 DEF Current
<1>9. AskInv'
  <2>1. ASSUME NEW e \in Clients \ {c}
        PROVE  /\ reply[e] = "started" => HasRun(e, Current(e)[2])'
               /\ reply[e] = "stopped" => HasBeenDown(e, Current(e)[2])'
    <3>1. reply[e] # "unsent" => Current(e)[2] \in Services
      BY DEF AskInv, ControlTypes, Current
    <3>2. reply[e] # "unsent" => seen[e][Current(e)[2]] \subseteq seen'[e][Current(e)[2]]
      BY <1>7, <3>1, Sees
    <3>3. QED
      BY <1>8, <3>2 DEF AskInv, HasRun, HasBeenDown
  <2>2. QED
    BY <1>1, <1>2, <1>7, <1>8, <2>1 DEF AskInv
<1>10. AnnounceInv'
  <2>1. \A s \in Services : ~Announcing(s)'
    <3>1. UNCHANGED stack \/ stack' = <<Call("update", d), Command(c)>>
      BY <1>2 DEF StartService, StopService, Refuse, callVars, Serve
    <3>2. Call("update", d).fn = "update" /\ Command(c).fn = "command"
      BY DEF Call, Command
    <3>3. \A k \in DOMAIN stack' : stack'[k].fn \in {"update", "command"}
      BY <1>1, <3>1, <3>2
    <3>4. QED
      BY <3>3 DEF Announcing
  <2>2. QED
    BY <2>1 DEF AnnounceInv
<1>11. QED
  BY <1>3, <1>4, <1>5, <1>9, <1>10

\* It reads the answer: the one it wants, and it has dealt with one more
\* command, or another, and it says so.
LEMMA ReadStep ==
  ASSUME ControlInv, NEW c \in Clients, Read(c), See
  PROVE  ControlInv'
<1> USE DEF ControlInv
<1>1. /\ todo[c] \in Seq({"start", "stop"} \X Services) /\ todo[c] # <<>>
      /\ todo \in [Clients -> Seq({"start", "stop"} \X Services)]
      /\ said \in [Clients -> Said]
      /\ reply[c] \notin {"unsent", "pending"}
  BY DEF ControlTypes, Read, Talking, Answered
<1>2. UNCHANGED <<status, subscribed, stack, called>>
  BY DEF Read, serviceVars, callVars
<1>3. /\ reply \in [Clients -> Reply] /\ subscribed \in [Services -> SUBSET Clients]
      /\ status \in [Services -> Status]
  BY DEF TypeInv, DataTypes
<1>4. UNCHANGED <<serviceVars, edgeVars, subscribed, targetVars, callVars, services,
                  faults, launchVars>>
  BY DEF Read
<1>5. TypeInv'
  <2>1. reply' \in [Clients -> Reply]
    BY <1>3 DEF Read, Reply
  <2>2. QED
    BY <1>4, <2>1 DEF TypeInv, DataTypes, CallTypes, LaunchTypeOK, serviceVars,
                      edgeVars, targetVars, callVars, launchVars
<1>6. ControlTypes'
  <2>1. Tail(todo[c]) \in Seq({"start", "stop"} \X Services)
    BY <1>1
  <2>2. todo' \in [Clients -> Seq({"start", "stop"} \X Services)]
    BY <1>1, <2>1 DEF Read
  <2>3. said' \in [Clients -> Said]
    BY <1>1 DEF Read, Said
  <2>4. QED
    BY <1>2, <1>3, <2>2, <2>3, SeenTypes DEF ControlTypes
<1>7. \A e \in Clients \ {c} :
        todo'[e] = todo[e] /\ said'[e] = said[e] /\ reply'[e] = reply[e]
  BY <1>1, <1>3 DEF Read
<1>8. \/ /\ reply[c] = Wanted(Current(c))
         /\ todo'[c] = Tail(todo[c]) /\ reply'[c] = "unsent"
         /\ said'[c] = IF todo'[c] = <<>> THEN "done" ELSE "nothing"
      \/ todo'[c] = todo[c] /\ reply'[c] = reply[c] /\ said'[c] = "failed"
  <2>1. said[c] = "nothing"
    BY DEF Read, Talking
  <2>2. QED
    BY <1>1, <1>3, <2>1 DEF Read
<1>9. TalkInv'
  <2>1. ASSUME NEW e \in Clients, todo'[e] = todo[e]
        PROVE  \E k \in Nat : DealtWith(e, k)'
    <3>1. PICK k \in Nat : DealtWith(e, k)
      BY DEF TalkInv
    <3>2. QED
      BY <1>2, <2>1, <3>1, DealtWithStays
  <2>2. ASSUME reply[c] = Wanted(Current(c)), todo'[c] = Tail(todo[c])
        PROVE  \E k \in Nat : DealtWith(c, k)'
    <3>1. PICK k \in Nat : DealtWith(c, k)
      BY DEF TalkInv
    <3>2. Line(c)' = Line(c) /\ Line(c) \in Seq({"start", "stop"} \X Services)
      BY <1>2, LineIsSeq DEF ControlTypes, Line
    <3>3. /\ Len(Line(c)) = (k + 1) + Len(todo'[c])
          /\ \A j \in DOMAIN todo'[c] : todo'[c][j] = Line(c)[(k + 1) + j]
          /\ todo'[c] # Line(c) /\ Current(c) = Line(c)[k + 1]
      <4> DEFINE q == todo[c]
                 l == Line(c)
      <4>1. /\ Len(q) \in Nat \ {0} /\ DOMAIN q = 1..Len(q) /\ Head(q) = q[1]
            /\ Len(Tail(q)) = Len(q) - 1 /\ DOMAIN Tail(q) = 1..(Len(q) - 1)
            /\ \A j \in 1..(Len(q) - 1) : Tail(q)[j] = q[j + 1]
        BY <1>1
      <4>2. /\ Len(l) = k + Len(q)
            /\ \A j \in 1..Len(q) : q[j] = l[k + j]
        BY <3>1, <4>1 DEF DealtWith
      <4>3. \A j \in 1..(Len(q) - 1) : j + 1 \in 1..Len(q) /\ k + (j + 1) = (k + 1) + j
        BY <4>1
      <4>4. Len(l) = (k + 1) + Len(Tail(q)) /\ Len(l) # Len(Tail(q))
        <5>1. PICK n \in Nat : n = Len(q) /\ Len(Tail(q)) = n - 1 /\ Len(l) = k + n
          BY <4>1, <4>2
        <5>2. k + n = (k + 1) + (n - 1) /\ k + n # n - 1
          OBVIOUS
        <5>3. QED
          BY <5>1, <5>2, Zenon
      <4>5. \A j \in DOMAIN Tail(q) : Tail(q)[j] = l[(k + 1) + j]
        BY <4>1, <4>2, <4>3
      <4>6. Head(q) = l[k + 1]
        BY <4>1, <4>2
      <4>7. QED
        BY <2>2, <4>4, <4>5, <4>6 DEF Current
    <3>4. \A s \in Services : seen[c][s] \subseteq seen'[c][s]
      BY <3>3, Sees
    <3>5. \A i \in 1..(k + 1) :
            Line(c)[i] \in {"start", "stop"} \X Services /\ Honoured(c, Line(c)[i])
      <4>1. k + 1 \in DOMAIN Line(c) /\ \A i \in 1..(k + 1) : i \in DOMAIN Line(c)
        <5>1. Len(todo'[c]) \in Nat /\ DOMAIN Line(c) = 1..Len(Line(c))
          BY <1>1, <2>2, <3>2
        <5>2. QED
          BY <3>3, <5>1
      <4>2. Honoured(c, Current(c))
        BY <2>2, <3>2, <3>3, <4>1 DEF AskInv, Wanted, Honoured
      <4>3. \A i \in 1..(k + 1) : i \in 1..k \/ i = k + 1
        OBVIOUS
      <4>4. \A i \in 1..(k + 1) : Line(c)[i] \in {"start", "stop"} \X Services
        BY <3>2, <4>1
      <4>5. \A i \in 1..k : Honoured(c, Line(c)[i])
        BY <3>1 DEF DealtWith
      <4>6. Honoured(c, Line(c)[k + 1])
        BY <3>3, <4>2
      <4>7. QED
        BY <4>3, <4>4, <4>5, <4>6
    <3>6. \A i \in 1..(k + 1) : Honoured(c, Line(c)[i])'
      BY <3>2, <3>4, <3>5 DEF Honoured, HasRun, HasBeenDown
    <3>7. DealtWith(c, k + 1)'
      BY <3>2, <3>3, <3>6 DEF DealtWith
    <3>8. QED
      BY <3>7
  <2>3. \A e \in Clients : said'[e] = "done" => todo'[e] = <<>>
    BY <1>7, <1>8 DEF TalkInv
  <2>4. \A e \in Clients : \E k \in Nat : DealtWith(e, k)'
    BY <1>7, <1>8, <2>1, <2>2
  <2>5. QED
    BY <2>3, <2>4 DEF TalkInv
<1>10. AskInv'
  <2>1. ASSUME NEW e \in Clients, todo'[e] = todo[e], reply'[e] = reply[e]
        PROVE  /\ \A s \in Services : e \in subscribed'[s] =>
                    reply'[e] \in {"pending", "error"} /\ Current(e)'[2] = s
               /\ reply'[e] # "unsent" => todo'[e] # <<>>
               /\ reply'[e] = "started" => HasRun(e, Current(e)[2])'
               /\ reply'[e] = "stopped" => HasBeenDown(e, Current(e)[2])'
    <3>1. Current(e)' = Current(e)
      BY <2>1 DEF Current
    <3>2. reply[e] # "unsent" => Current(e)[2] \in Services
      BY DEF AskInv, ControlTypes, Current
    <3>3. reply[e] # "unsent" => seen[e][Current(e)[2]] \subseteq seen'[e][Current(e)[2]]
      BY <2>1, <3>2, Sees
    <3>4. QED
      BY <1>2, <2>1, <3>1, <3>3 DEF AskInv, HasRun, HasBeenDown
  <2>2. ASSUME reply[c] = Wanted(Current(c)), reply'[c] = "unsent"
        PROVE  \A s \in Services : c \notin subscribed'[s]
    BY <1>2, <2>2 DEF AskInv, Wanted
  <2>3. QED
    BY <1>7, <1>8, <2>1, <2>2 DEF AskInv
<1>11. AnnounceInv'
  <2>1. ASSUME NEW s \in Services, Announcing(s)', NEW e \in Clients,
               e \in subscribed'[s], reply'[e] = "pending"
        PROVE  HasRun(e, s)'
    <3>1. Announcing(s) /\ e \in subscribed[s] /\ reply[e] = "pending"
      BY <1>1, <1>2, <1>7, <1>8, <2>1 DEF Announcing
    <3>2. seen[e][s] \subseteq seen'[e][s]
      BY <2>1, Sees
    <3>3. QED
      BY <3>1, <3>2 DEF AnnounceInv, HasRun
  <2>2. QED
    BY <2>1 DEF AnnounceInv
<1>12. QED
  BY <1>5, <1>6, <1>9, <1>10, <1>11

-----------------------------------------------------------------------------
(* Every step.                                                             *)

\* The invariant is inductive.
LEMMA NextControl ==
  ControlInv /\ [ControlNext]_<<vars, controlVars>> => ControlInv'
<1> SUFFICES ASSUME ControlInv, [ControlNext]_<<vars, controlVars>> PROVE ControlInv'
  OBVIOUS
<1>1. CASE UNCHANGED <<vars, controlVars>>
  <2>1. UNCHANGED vars /\ UNCHANGED controlVars
    BY <1>1
  <2>2. UNCHANGED <<subscribed, reply, stack>>
    BY <2>1 DEF vars, clientVars, callVars
  <2>3. TypeInv'
    BY <2>1, NextTypes DEF ControlInv
  <2>4. UNCHANGED <<called, todo, said, seen>>
    BY <2>1 DEF controlVars
  <2>5. ControlTypes' /\ TalkInv'
    <3>1. ControlTypes'
      BY <2>4 DEF ControlInv, ControlTypes
    <3>2. ASSUME NEW c \in Clients, NEW k \in Nat, DealtWith(c, k)
          PROVE  DealtWith(c, k)'
      BY <2>4, <3>2 DEF DealtWith, Line, Honoured, HasRun, HasBeenDown
    <3>3. QED
      BY <2>4, <3>1, <3>2 DEF ControlInv, TalkInv
  <2>6. AskInv' /\ AnnounceInv'
    BY <2>2, <2>4 DEF ControlInv, AskInv, Current, HasRun, HasBeenDown, AnnounceInv,
                      Announcing
  <2>7. QED
    BY <2>3, <2>5, <2>6 DEF ControlInv
<1>2. ASSUME NEW c \in Clients, Sends(c) PROVE ControlInv'
  BY <1>2, SendStep DEF Sends
<1>3. ASSUME NEW c \in Clients, IsRead(c) PROVE ControlInv'
  BY <1>3, ReadStep DEF IsRead
<1>4. CASE GoesOn \/ \E s \in Services : Reads(s) \/ OfTheDaemon(Launch(s))
  BY <1>4, DaemonStep DEF GoesOn, Reads
<1>5. QED
  BY <1>1, <1>2, <1>3, <1>4 DEF ControlNext

\* "Started", "Stopped" and "Restarted" (startstop.cpp, CmdStart, CmdStop and
\* CmdRestart) are said of services that have been Running, down, or down and
\* Running since the command was given, although the news are given to whoever
\* is subscribed to the service when its status changes (PxService.hpp,
\* dispatchState), and a finishStart() may be in progress when they are given.
THEOREM PxctlSpeaksTrue == ControlSpec => []SaidIsTrue
  BY InitControl, NextControl, InvSaysTrue, PTL DEF ControlSpec

-----------------------------------------------------------------------------
(***************************************************************************)
(* The console.  The log counts how often it was silenced; that the count  *)
(* is right, and never below zero, rests on when a service that uses the   *)
(* console is silent for it: from the end of its finishStart() to its      *)
(* raw_stop().  Each of these happens at most once for each start if       *)
(* nothing depends on such a service: UserInv says how far it has come.    *)
(***************************************************************************)
\* No Depend or After line names a service that uses the console.
NobodyNeedsThem ==
  \A s \in Services :
    /\ \A j \in DOMAIN Depend[s] : Depend[s][j].name \notin UseConsole
    /\ \A j \in DOMAIN After[s] : After[s][j] \notin UseConsole

\* The launcher of s is starting it, or that it runs has still to be read.
StartsUnheard(s) ==
  \/ stage[s] \in {"begin", "beginStop"}
  \/ \E k \in DOMAIN outbox[s] : outbox[s][k] = "finstart"

\* What the daemon is told when the Command of a service is over.
LastWords == {"servfin", "servfail"}

\* The Command of s is over and the daemon has read so.
Ended(s) ==
  /\ stage[s] \in {"end", "err", "dead"}
  /\ \A k \in DOMAIN outbox[s] : outbox[s][k] \notin LastWords

NextCall(c) == stack # <<>> /\ Top = c

\* A service that uses the console goes through stop() in one go, as nothing
\* depends on it, and is stopped as soon as it is read that its Command is over.
UserInv(s) ==
  /\ dependedBy[s] = <<>>
  /\ StartsUnheard(s) => status[s] = "Starting"
  /\ Announcing(s) => stack = <<Call("finishStart", s)>> /\ ret # "err" /\ Included(s)
  /\ status[s] = "StopWaiting" => NextCall(Call("stop", s)) \/ NextCall(Call("update", s))
  /\ Included(s) /\ Ended(s) => NextCall(Call("update", s)) /\ ~ShouldRun(s)

UsersInv == (tgts = <<>> => stack = <<>>) /\ \A s \in UseConsole : UserInv(s)

\* Those the log is silent for: finishStart() has suppressed it, raw_stop() has not yet
\* unsuppressed it.
Silences(s) == status[s] \in {"Running", "StopWaiting"} /\ ~Announcing(s)
Using == {s \in UseConsole : Silences(s)}

LogInv ==
  /\ smudged \in BOOLEAN /\ ScreenIsTasks
  /\ suppressors = Cardinality(Using)

-----------------------------------------------------------------------------
(* The log.                                                                *)

Fields == {"curID", "tasks", "logTask", "suppressors", "screen", "smudged"}

\* ScreenIsTasks, of any log.
Neat(g) ==
  /\ Fields \subseteq DOMAIN g
  /\ g.suppressors \in Nat
  /\ g.smudged = FALSE
  /\ g.suppressors = 0 => g.screen = g.tasks
  /\ g.suppressors > 0 => g.screen = <<>>

\* What is done to the log keeps it neat, if none unsuppresses it before it was
\* suppressed.
LEMMA StaysNeat ==
  ASSUME NEW g, Neat(g), NEW s, NEW id
  PROVE  /\ Neat(Println(g)) /\ Println(g).suppressors = g.suppressors
         /\ Neat(NewTask(g, s)) /\ NewTask(g, s).suppressors = g.suppressors
         /\ Neat(CompleteTask(g, id)) /\ CompleteTask(g, id).suppressors = g.suppressors
         /\ Neat([g EXCEPT !.logTask[s] = 0])
         /\ [g EXCEPT !.logTask[s] = 0].suppressors = g.suppressors
         /\ Neat(Suppress(g)) /\ Suppress(g).suppressors = g.suppressors + 1
         /\ g.suppressors > 0 =>
              Neat(Unsuppress(g)) /\ Unsuppress(g).suppressors = g.suppressors - 1
<1> USE DEF Neat, Fields
<1>0. g.suppressors = 0 \/ g.suppressors > 0
  OBVIOUS
<1>1. ASSUME NEW h, Fields \subseteq DOMAIN h, h.suppressors = g.suppressors, h.smudged = FALSE,
             h.screen = g.screen
      PROVE  /\ Neat(Redraw(h, Len(g.tasks)))
             /\ Redraw(h, Len(g.tasks)).suppressors = g.suppressors
  <2>1. CASE g.suppressors > 0
    BY <1>1, <2>1 DEF Redraw, Suppressed
  <2>2. CASE g.suppressors = 0
    <3>1. Len(g.tasks) = Len(h.screen)
      BY <1>1, <2>2
    <3>2. Redraw(h, Len(g.tasks)) = [h EXCEPT !.smudged = @ \/ Len(g.tasks) # Len(h.screen),
                                              !.screen = h.tasks]
      BY <1>1, <2>2 DEF Redraw, Suppressed
    <3>3. PICK b \in BOOLEAN : b = (h.smudged \/ Len(g.tasks) # Len(h.screen))
      OBVIOUS
    <3>4. Redraw(h, Len(g.tasks)) = [h EXCEPT !.smudged = b, !.screen = h.tasks]
      BY <3>2, <3>3, Zenon
    <3>5. b = FALSE
      BY <1>1, <3>1, <3>3
    <3>6. QED
      BY <1>1, <2>2, <3>4, <3>5
  <2>3. QED
    BY <1>0, <2>1, <2>2, Zenon
<1>2. Neat(Println(g)) /\ Println(g).suppressors = g.suppressors
  BY <1>1 DEF Println
<1>3. Neat(NewTask(g, s)) /\ NewTask(g, s).suppressors = g.suppressors
  BY DEF NewTask, Suppressed
<1>4. Neat(CompleteTask(g, id)) /\ CompleteTask(g, id).suppressors = g.suppressors
  <2> DEFINE h == [g EXCEPT !.tasks = Remove(@, id)]
  <2>1. /\ Fields \subseteq DOMAIN h /\ h.suppressors = g.suppressors /\ h.smudged = FALSE
        /\ h.screen = g.screen
    OBVIOUS
  <2> HIDE DEF h
  <2>2. Neat(Redraw(h, Len(g.tasks))) /\ Redraw(h, Len(g.tasks)).suppressors = g.suppressors
    BY <1>1, <2>1
  <2>3. CompleteTask(g, id) = IF Contains(g.tasks, id) THEN Redraw(h, Len(g.tasks)) ELSE g
    BY DEF CompleteTask, h
  <2>4. QED
    BY <2>2, <2>3
<1>5. /\ Neat([g EXCEPT !.logTask[s] = 0])
      /\ [g EXCEPT !.logTask[s] = 0].suppressors = g.suppressors
  OBVIOUS
<1>6. Neat(Suppress(g)) /\ Suppress(g).suppressors = g.suppressors + 1
  <2>1. CASE g.suppressors > 0
    BY <2>1 DEF Suppress, Suppressed
  <2>2. CASE g.suppressors = 0
    <3>1. Suppress(g) = [[Println(g) EXCEPT !.screen = <<>>] EXCEPT !.suppressors = @ + 1]
      BY <2>2 DEF Suppress, Suppressed
    <3>2. QED
      BY <1>2, <2>2, <3>1
  <2>3. QED
    BY <1>0, <2>1, <2>2, Zenon
<1>7. ASSUME g.suppressors > 0
      PROVE  Neat(Unsuppress(g)) /\ Unsuppress(g).suppressors = g.suppressors - 1
  <2>1. CASE g.suppressors > 1
    BY <1>7, <2>1 DEF Unsuppress, Suppressed
  <2>2. CASE g.suppressors = 1
    <3> DEFINE h == [g EXCEPT !.suppressors = @ - 1]
    <3>1. /\ Fields \subseteq DOMAIN h /\ h.suppressors = 0 /\ h.smudged = FALSE
          /\ h.screen = <<>> /\ h.tasks = g.tasks
      BY <1>7, <2>2
    <3>2. Unsuppress(g) = [h EXCEPT !.smudged = @ \/ h.screen # <<>>, !.screen = h.tasks]
      BY <3>1 DEF Unsuppress, Suppressed
    <3> HIDE DEF h
    <3>3. PICK b \in BOOLEAN : b = (h.smudged \/ h.screen # <<>>)
      OBVIOUS
    <3>4. Unsuppress(g) = [h EXCEPT !.smudged = b, !.screen = h.tasks]
      BY <3>2, <3>3, Zenon
    <3>5. b = FALSE
      BY <3>1, <3>3
    <3>6. QED
      BY <2>2, <3>1, <3>4, <3>5
  <2>3. QED
    <3>1. g.suppressors = 1 \/ g.suppressors > 1
      BY <1>7
    <3>2. QED
      BY <2>1, <2>2, <3>1, Zenon
<1>8. QED
  BY <1>2, <1>3, <1>4, <1>5, <1>6, <1>7

\* What a step says keeps the log neat, and suppresses or unsuppresses it for
\* a service that uses the console only.
LEMMA SayStaysNeat ==
  ASSUME Neat(log), Say, \A s \in UseConsole : RawStops(s) => suppressors > 0
  PROVE  /\ Neat(log')
         /\ \/ /\ suppressors' = suppressors
               /\ \/ \A s \in Services : ~Speaks(s)
                  \/ \E s \in Services : RawStarts(s) \/ StopsInError(s) \/ Finishes(s)
            \/ \E s \in Services :
                 /\ RawStops(s)
                 /\ suppressors' = IF Uses(s) THEN suppressors - 1 ELSE suppressors
            \/ \E s \in Services :
                 /\ HasStarted(s)
                 /\ suppressors' = IF Uses(s) THEN suppressors + 1 ELSE suppressors
<1>1. log.suppressors = suppressors
  BY DEF log
<1>2. ASSUME NEW g, Neat(g), Becomes(g) PROVE Neat(log') /\ suppressors' = g.suppressors
  BY <1>2 DEF Becomes, Neat, Fields, log
<1> HIDE DEF log
<1>3. ASSUME NEW s \in Services, RawStarts(s), Becomes(SaysRawStart(s))
      PROVE  Neat(log') /\ suppressors' = suppressors
  <2> DEFINE done == IF logTask[s] # 0 THEN CompleteTask(log, logTask[s]) ELSE log
  <2>1. Neat(done) /\ done.suppressors = suppressors
    BY <1>1, StaysNeat
  <2> HIDE DEF done
  <2>2. Neat(NewTask(done, s)) /\ NewTask(done, s).suppressors = suppressors
    BY <2>1, StaysNeat
  <2>3. SaysRawStart(s) = NewTask(done, s)
    BY DEF SaysRawStart, done
  <2>4. QED
    BY <1>2, <1>3, <2>2, <2>3
<1>4. ASSUME NEW s \in Services, RawStops(s), Becomes(SaysRawStop(s))
      PROVE  /\ Neat(log')
             /\ suppressors' = IF Uses(s) THEN suppressors - 1 ELSE suppressors
  <2> DEFINE mine == IF Uses(s) THEN Unsuppress(log) ELSE log
             done == IF logTask[s] # 0 THEN CompleteTask(mine, logTask[s]) ELSE mine
             left == IF Uses(s) THEN suppressors - 1 ELSE suppressors
  <2>1. Neat(mine) /\ mine.suppressors = left
    BY <1>1, <1>4, StaysNeat DEF Uses
  <2> HIDE DEF mine, left
  <2>2. Neat(done) /\ done.suppressors = left
    BY <2>1, StaysNeat
  <2> HIDE DEF done
  <2>3. Neat(NewTask(done, s)) /\ NewTask(done, s).suppressors = left
    BY <2>2, StaysNeat
  <2>4. SaysRawStop(s) = NewTask(done, s)
    BY DEF SaysRawStop, done, mine
  <2>5. QED
    BY <1>2, <1>4, <2>3, <2>4 DEF left
<1>5. ASSUME NEW s \in Services, StopsInError(s), Becomes(Println(log))
      PROVE  Neat(log') /\ suppressors' = suppressors
  BY <1>1, <1>2, <1>5, StaysNeat
<1>6. ASSUME NEW s \in Services, Finishes(s), Becomes(SaysFinished(s))
      PROVE  Neat(log') /\ suppressors' = suppressors
  <2> DEFINE done == CompleteTask(log, logTask[s])
  <2>1. Neat(done) /\ done.suppressors = suppressors
    BY <1>1, StaysNeat
  <2> HIDE DEF done
  <2>2. /\ Neat([done EXCEPT !.logTask[s] = 0])
        /\ [done EXCEPT !.logTask[s] = 0].suppressors = suppressors
    BY <2>1, StaysNeat
  <2>3. SaysFinished(s) = [done EXCEPT !.logTask[s] = 0]
    BY DEF SaysFinished, done
  <2>4. QED
    BY <1>2, <1>6, <2>2, <2>3
<1>7. ASSUME NEW s \in Services, HasStarted(s),
             Becomes(IF Uses(s) THEN Suppress(log) ELSE log)
      PROVE  /\ Neat(log')
             /\ suppressors' = IF Uses(s) THEN suppressors + 1 ELSE suppressors
  <2> DEFINE mine == IF Uses(s) THEN Suppress(log) ELSE log
  <2>1. Neat(mine) /\ mine.suppressors = IF Uses(s) THEN suppressors + 1 ELSE suppressors
    BY <1>1, StaysNeat
  <2>2. QED
    BY <1>2, <1>7, <2>1
<1>8. CASE (\A s \in Services : ~Speaks(s)) /\ Becomes(log)
  BY <1>1, <1>2, <1>8
<1>9. QED
  BY <1>3, <1>4, <1>5, <1>6, <1>7, <1>8, Zenon DEF Say

-----------------------------------------------------------------------------
(* What is read of a launcher.                                             *)

\* That a service runs is read first, and when its Command is over by then, this
\* has still to be read; a farewell is read last.
LEMMA WhatIsRead ==
  ASSUME LauncherInv, InConversation, NEW s \in Services, outbox[s] # <<>>
  PROVE  /\ outbox[s] \in Seq(Message)
         /\ stage[s] \notin {"begin", "beginStop"}
         /\ \A k \in DOMAIN Tail(outbox[s]) : Tail(outbox[s])[k] # "finstart"
         /\ Head(outbox[s]) = "finstart" /\ stage[s] \in {"end", "err", "dead"} =>
              \E k \in DOMAIN Tail(outbox[s]) : Tail(outbox[s])[k] \in LastWords
         /\ Head(outbox[s]) \in Farewell =>
              Tail(outbox[s]) = <<>> /\ Ended(s)
<1>1. PICK c \in Conversation, i \in Nat, n \in Nat :
        Unread(outbox[s], c, i, n) /\ Spoken(stage[s], c, n)
  BY DEF InConversation
<1>2. PICK b \in Beginning, e \in Ending : c = b \o e
  BY DEF Conversation, Beginning, Ending
<1>3. PICK q \in Seq(Message) : q = outbox[s]
  BY DEF LauncherInv, LauncherTypes
<1>4. PICK t \in Seq(Message) : t = Tail(q)
  <2>1. Tail(q) \in Seq(Message)
    BY <1>3, HeadTailProperties
  <2>2. QED
    BY <2>1, Zenon
<1>5. /\ q # <<>> /\ Len(q) >= 1 /\ Head(q) = q[1] /\ Len(t) = Len(q) - 1
      /\ \A k \in 1..Len(t) : t[k] = q[k + 1]
      /\ \A k \in 1..Len(q) : q[k] = c[i + k]
      /\ n = i + Len(q) /\ n <= Len(c)
  BY <1>1, <1>3, <1>4 DEF Unread
<1>6. /\ c \in Seq(Message) /\ Len(b) \in {0, 1} /\ Len(e) \in {2, 3}
      /\ Len(c) = Len(b) + Len(e)
      /\ Len(b) = 1 => c[1] = "finstart"
      /\ \A k \in 1..Len(e) : c[Len(b) + k] = e[k]
  BY <1>2, Messages
<1>15. PICK p \in Nat, w \in Nat : p = Len(b) /\ w = Len(e) /\ p <= 1 /\ 2 <= w
  <2>1. PICK p \in {0, 1}, w \in {2, 3} : p = Len(b) /\ w = Len(e)
    BY <1>6, Zenon
  <2>2. p \in Nat /\ w \in Nat /\ p <= 1 /\ 2 <= w
    OBVIOUS
  <2>3. QED
    BY <2>1, <2>2, Zenon
<1>16. /\ Len(q) \in Nat /\ Len(t) \in Nat /\ Len(c) \in Nat /\ i \in Nat /\ n \in Nat
  BY <1>1, <1>3, <1>4, <1>6
<1>7. \A k \in 1..Len(e) : e[k] # "finstart" /\ (e[k] \in Farewell => k = Len(e))
  <2>1. e = <<"servfin", "finstop">> \/ e = <<"servfail", "finfail">>
        \/ e = <<"servfin", "servfail", "finfail">>
    BY DEF Ending
  <2>2. CASE Len(e) = 2
    <3>1. e \in {<<"servfin", "finstop">>, <<"servfail", "finfail">>}
      BY <2>1, <2>2
    <3>2. \A k \in 1..2 : e[k] # "finstart" /\ (e[k] \in Farewell => k = 2)
      BY <3>1 DEF Farewell
    <3>3. QED
      BY <2>2, <3>2
  <2>3. CASE Len(e) = 3
    <3>1. e = <<"servfin", "servfail", "finfail">>
      BY <2>1, <2>3
    <3>2. \A k \in 1..3 : e[k] # "finstart" /\ (e[k] \in Farewell => k = 3)
      BY <3>1 DEF Farewell
    <3>3. QED
      BY <2>3, <3>2
  <2>4. QED
    BY <1>6, <2>2, <2>3
<1>8. e[1] \in LastWords
  BY DEF Ending, LastWords
<1>9. ASSUME NEW k \in 1..Len(c), k > Len(b) PROVE c[k] # "finstart"
  <2>1. k - Len(b) \in 1..Len(e) /\ Len(b) + (k - Len(b)) = k
    BY <1>6, <1>9
  <2>2. QED
    BY <1>6, <1>7, <2>1
<1>10. stage[s] \notin {"begin", "beginStop", "none"}
  BY <1>1, <1>5 DEF Spoken
<1>11. \A k \in DOMAIN t : t[k] # "finstart"
  <2>1. ASSUME NEW k \in 1..Len(t) PROVE t[k] # "finstart"
    <3>1. t[k] = q[k + 1] /\ k + 1 \in 1..Len(q)
      BY <1>5, <1>16
    <3>2. q[k + 1] = c[i + (k + 1)]
      BY <1>5, <3>1
    <3>3. i + (k + 1) \in 1..Len(c) /\ i + (k + 1) > p
      BY <1>5, <1>15, <1>16, <3>1
    <3>4. QED
      BY <1>9, <1>15, <3>1, <3>2, <3>3
  <2>2. QED
    BY <2>1
<1>12. ASSUME q[1] = "finstart", stage[s] \in {"end", "err", "dead"}
       PROVE  \E k \in DOMAIN t : t[k] \in LastWords
  <2>1. c[i + 1] = "finstart" /\ i + 1 \in 1..Len(c)
    BY <1>5, <1>12
  <2>2. i = 0 /\ Len(b) = 1
    <3>1. ~(i + 1 > Len(b))
      BY <1>9, <2>1
    <3>2. QED
      <4>1. ~(i + 1 > p)
        BY <3>1, <1>15
      <4>2. i = 0 /\ p = 1
        BY <1>15, <1>16, <4>1
      <4>3. QED
        BY <1>15, <4>2
  <2>3. n >= 2
    <3>1. CASE stage[s] = "dead"
      <4>1. n = Len(c)
        BY <1>1, <3>1 DEF Spoken
      <4>2. QED
        BY <1>6, <1>15, <1>16, <2>2, <4>1
    <3>2. CASE stage[s] \in {"end", "err"}
      BY <1>1, <1>5, <2>1, <2>2, <3>2 DEF Spoken
    <3>3. QED
      BY <1>12, <3>1, <3>2
  <2>4. 1 \in 1..Len(t) /\ t[1] = c[2]
    BY <1>5, <2>2, <2>3
  <2>5. c[2] = e[1]
    BY <1>6, <2>2
  <2>6. QED
    BY <1>8, <2>4, <2>5
<1>13. ASSUME q[1] \in Farewell PROVE t = <<>> /\ Ended(s)
  <2>1. 1 \in DOMAIN q /\ 1 = Len(q) /\ ~Alive(s)
    <3>1. \A k \in DOMAIN q : q[k] \in Farewell => k = Len(q) /\ ~Alive(s)
      BY <1>3 DEF LauncherInv, FarewellIsLast
    <3>2. 1 \in DOMAIN q
      BY <1>3, <1>5
    <3>3. QED
      BY <1>13, <3>1, <3>2
  <2>2. stage[s] = "dead"
    BY <1>10, <2>1 DEF Alive
  <2>3. \A k \in DOMAIN outbox[s] : outbox[s][k] \notin LastWords
    BY <1>3, <1>13, <2>1 DEF Farewell, LastWords
  <2>4. t = <<>>
    BY <1>5, <2>1
  <2>5. QED
    BY <2>2, <2>3, <2>4 DEF Ended
<1>14. QED
  BY <1>3, <1>4, <1>5, <1>10, <1>11, <1>12, <1>13

-----------------------------------------------------------------------------
(* Nothing comes to depend on a service that uses the console.             *)

\* What is taken from an empty list.
LEMMA NothingToRemove ==
  ASSUME NEW x
  PROVE  RemoveFirst(<<>>, x) = <<>> /\ WithoutEdgeOf(<<>>, x) = <<>>
<1>1. 1..Len(<<>>) = {}
  OBVIOUS
<1>2. RemoveFirst(<<>>, x) = <<>>
  BY <1>1 DEF RemoveFirst
<1>3. WithoutEdgeOf(<<>>, x) = <<>>
  BY <1>1 DEF WithoutEdgeOf, RemoveFirstMatch
<1>4. QED
  BY <1>2, <1>3

\* Only start() adds edges, for the lines of its service.
LEMMA NobodyComes ==
  ASSUME NobodyNeedsThem, TypeInv, NEW u \in UseConsole, u \in Services, dependedBy[u] = <<>>,
         Run
  PROVE  dependedBy'[u] = <<>>
<1> USE DEF TypeInv, DataTypes
<1>1. CASE UNCHANGED dependedBy
  BY <1>1
<1>2. ASSUME NEW d, NEW x, dependedBy' = [dependedBy EXCEPT ![d] = RemoveFirst(@, x)]
      PROVE  dependedBy'[u] = <<>>
  BY <1>2, NothingToRemove
<1>3. ASSUME NEW s \in Services, StartDepends(s) \/ StartDepended(s)
      PROVE  dependedBy'[u] = <<>>
  <2>1. CASE StartDepended(s)
    BY <1>1, <1>2, <2>1 DEF StartDepended, DropEdge, edgeVars
  <2>2. CASE StartDepends(s)
    <3>1. Top \in GoodServiceFrame /\ Top.svc = s /\ AtDepend(s) /\ Top.i \in Nat \ {0}
      BY <2>2, ServiceTop DEF StartDepends, Runs
    <3>2. Depend[s] \in Seq(Edge) /\ Top.i \in DOMAIN Depend[s]
      BY <3>1, ServiceAssumption DEF AtDepend
    <3>3. DependAt(s).name # u
      BY <3>2 DEF NobodyNeedsThem, DependAt
    <3>4. QED
      BY <1>1, <2>2, <3>3 DEF StartDepends, AddEdge, edgeVars
  <2>3. QED
    BY <1>3, <2>1, <2>2
<1>4. ASSUME NEW s \in Services, StartTriesAfter(s) \/ StartTriedAfter(s) \/ StartAddedAfter(s)
      PROVE  dependedBy'[u] = <<>>
  <2>1. CASE StartTriesAfter(s) \/ StartAddedAfter(s)
    BY <1>1, <1>2, <2>1 DEF StartTriesAfter, StartAddedAfter, DropEdge, edgeVars
  <2>2. CASE StartTriedAfter(s)
    <3>1. Top \in GoodServiceFrame /\ Top.svc = s /\ Top.at = "tried"
      BY <2>2, ServiceTop DEF StartTriedAfter, Runs
    <3>2. /\ Top.i \in Len(Depend[s]) + 1 .. Len(Depend[s]) + Len(After[s])
          /\ Depend[s] \in Seq(Edge) /\ After[s] \in Seq(Services)
      BY <3>1, ServiceAssumption DEF GoodServiceFrame
    <3>3. Top.i - Len(Depend[s]) \in DOMAIN After[s]
      <4>1. PICK m \in Nat, k \in Nat : m = Len(Depend[s]) /\ k = Len(After[s])
        BY <3>2
      <4>2. Top.i \in m + 1 .. m + k
        <5>1. Top.i \in Len(Depend[s]) + 1 .. Len(Depend[s]) + Len(After[s])
          BY <3>2
        <5>2. QED
          BY <4>1, <5>1, Zenon
      <4>5. DOMAIN After[s] = 1..k
        BY <3>2, <4>1
      <4>3. Top.i - m \in 1..k
        BY <4>2
      <4>4. QED
        BY <4>1, <4>3, <4>5
    <3>4. AfterAt(s) # u
      BY <3>3 DEF NobodyNeedsThem, AfterAt
    <3>5. QED
      BY <1>1, <2>2, <3>4 DEF StartTriedAfter, AddEdge, edgeVars
  <2>3. QED
    BY <1>4, <2>1, <2>2
<1>5. ASSUME NEW s \in Services, FinishStopNext(s) PROVE dependedBy'[u] = <<>>
  <2>1. PICK d : dependedBy' = [dependedBy EXCEPT ![d] = WithoutEdgeOf(@, s)]
    BY <1>5 DEF FinishStopNext
  <2>2. QED
    BY <2>1, NothingToRemove
<1>6. ASSUME NEW s \in Services,
             \/ Update(s) \/ UpdateSelf(s) \/ ReturnFromTail(s)
             \/ StopNext(s) \/ CascadeEnters(s) \/ CascadeNext(s)
             \/ FinishStartNext(s) \/ FinishStartFails(s) \/ FinishStartEnds(s)
             \/ FinishStopEnds(s)
      PROVE  UNCHANGED dependedBy
  BY <1>6 DEF Update, RawStart, RawStartFails, RawStop, BeginStart, BeginStop, UpdateIsIdle,
              UpdateSelf, ReturnFromTail, StopNext, CascadeEnters, CascadeNext, FinishStartNext,
              FinishStartFails, FinishStartEnds, FinishStopEnds, edgeVars
<1>7. CASE CommandReturns \/ TargetNext \/ TargetEnds
  BY <1>1, <1>7 DEF CommandReturns, TargetNext, TargetEnds, edgeVars
<1>8. CASE ServiceStep
  BY <1>1, <1>3, <1>4, <1>5, <1>6, <1>8, Zenon DEF ServiceStep
<1>9. QED
  BY <1>7, <1>8 DEF Run

-----------------------------------------------------------------------------
(* The steps of a call.                                                    *)

\* Only update() changes a status, and nothing reads or writes for a launcher.
LEMMA RunOrUpdate ==
  ASSUME Run
  PROVE  \/ \E r \in Services : Update(r)
         \/ UNCHANGED <<status, stage, outbox>>
<1>1. CASE CommandReturns \/ TargetNext \/ TargetEnds
  BY <1>1 DEF CommandReturns, TargetNext, TargetEnds, serviceVars, launchVars
<1>2. ASSUME NEW s \in Services,
             \/ StartDepends(s) \/ StartDepended(s)
             \/ StartTriesAfter(s) \/ StartTriedAfter(s) \/ StartAddedAfter(s)
             \/ UpdateSelf(s) \/ ReturnFromTail(s)
             \/ StopNext(s) \/ CascadeEnters(s) \/ CascadeNext(s)
             \/ FinishStartNext(s) \/ FinishStartFails(s) \/ FinishStartEnds(s)
             \/ FinishStopNext(s) \/ FinishStopEnds(s)
      PROVE  UNCHANGED <<status, stage, outbox>>
  BY <1>2 DEF StartDepends, StartDepended, StartTriesAfter, StartTriedAfter, StartAddedAfter,
              UpdateSelf, ReturnFromTail, StopNext, CascadeEnters, CascadeNext, FinishStartNext,
              FinishStartFails, FinishStartEnds, FinishStopNext, FinishStopEnds,
              serviceVars, launchVars
<1>3. QED
  BY <1>1, <1>2, Zenon DEF Run, ServiceStep

\* Which step it is when the running call is one of these, on a service on which nothing
\* depends.
LEMMA ItsStep ==
  ASSUME Run, NEW u, dependedBy[u] = <<>>
  PROVE  /\ NextCall(Call("update", u)) => Update(u)
         /\ NextCall(Call("stop", u)) => UpdateSelf(u)
         /\ stack = <<Call("finishStart", u)>> /\ ret # "err" => FinishStartEnds(u)
<1>1. ASSUME NEW fn, NextCall(Call(fn, u))
      PROVE  Top.fn = fn /\ Top.svc = u /\ Top.at = "next" /\ Top.i = 1 /\ ~MoreDependents(u)
  BY <1>1 DEF NextCall, Call, MoreDependents
<1>2. \A f : stack = <<f>> => NextCall(f)
  BY DEF NextCall, Top
<1>3. ASSUME NEW s \in Services,
             \/ Update(s)
             \/ StartDepends(s) \/ StartDepended(s)
             \/ StartTriesAfter(s) \/ StartTriedAfter(s) \/ StartAddedAfter(s)
             \/ UpdateSelf(s) \/ ReturnFromTail(s)
             \/ StopNext(s) \/ CascadeEnters(s) \/ CascadeNext(s)
             \/ FinishStartNext(s) \/ FinishStartFails(s) \/ FinishStartEnds(s)
             \/ FinishStopNext(s) \/ FinishStopEnds(s)
      PROVE  /\ NextCall(Call("update", u)) => Update(u)
             /\ NextCall(Call("stop", u)) => UpdateSelf(u)
             /\ NextCall(Call("finishStart", u)) /\ ret # "err" => FinishStartEnds(u)
  <2> USE DEF Update, StartDepends, StartDepended, StartTriesAfter, StartTriedAfter,
              StartAddedAfter, UpdateSelf, ReturnFromTail, StopNext, CascadeEnters, CascadeNext,
              FinishStartNext, FinishStartFails, FinishStartEnds, FinishStopNext,
              FinishStopEnds, Runs
  <2>1. \E fn, l : Runs(fn, s, l)
    BY <1>3
  <2>2. ASSUME NextCall(Call("update", u)) PROVE Update(u)
    <3>1. Top.fn = "update" /\ s = u
      BY <1>1, <2>1, <2>2
    <3>2. QED
      BY <1>3, <3>1
  <2>3. ASSUME NextCall(Call("stop", u)) PROVE UpdateSelf(u)
    <3>1. Top.fn = "stop" /\ Top.at = "next" /\ s = u /\ ~MoreDependents(u)
      BY <1>1, <2>1, <2>3
    <3>2. QED
      BY <1>3, <3>1
  <2>4. ASSUME NextCall(Call("finishStart", u)), ret # "err" PROVE FinishStartEnds(u)
    <3>1. Top.fn = "finishStart" /\ Top.at = "next" /\ s = u /\ ~MoreDependents(u)
      BY <1>1, <2>1, <2>4
    <3>2. QED
      BY <1>3, <2>4, <3>1
  <2>5. QED
    BY <2>2, <2>3, <2>4
<1>4. CASE CommandReturns \/ TargetNext \/ TargetEnds
  BY <1>1, <1>2, <1>4 DEF CommandReturns, TargetNext, TargetEnds
<1>5. QED
  BY <1>2, <1>3, <1>4, Zenon DEF Run, ServiceStep

-----------------------------------------------------------------------------
(* A service that uses the console, through each kind of step.             *)

\* The invariant stays, and only the end of finishStart() and raw_stop() change
\* whether the log is silent for it.
UserGoesOn(u) ==
  /\ UserInv(u)'
  /\ Silences(u)' <=> (Silences(u) /\ ~RawStops(u)) \/ HasStarted(u)
  /\ RawStops(u) => Silences(u)
  /\ HasStarted(u) => ~Silences(u)

\* The step of a launcher.
LEMMA LaunchUser ==
  ASSUME TypeInv, NEW u \in Services, UserInv(u), NEW r \in Services, Launch(r)
  PROVE  UserGoesOn(u)
<1>1. UNCHANGED <<status, userOverride, failLocked, dependedBy, tgts, stack, ret>>
  BY DEF Launch, serviceVars, edgeVars, targetVars, callVars
<1>2. ~RawStops(u)
  BY <1>1 DEF RawStops
<1>3. ~HasStarted(u)
  <2>1. \A q \in Seq(GoodFrame) : q # <<>> => Tail(q) # q
    <3>1. \A q \in Seq(GoodFrame) : q # <<>> => Len(Tail(q)) # Len(q)
      OBVIOUS
    <3>2. QED
      BY <3>1
  <2>2. QED
    BY <1>1, <2>1 DEF HasStarted, Runs, TypeInv, CallTypes
<1>4. Silences(u)' <=> Silences(u)
  BY <1>1 DEF Silences, Announcing
<1>5. LauncherTypes
  BY DEF TypeInv, DataTypes, LaunchTypeOK, LauncherTypes
<1>6. (StartsUnheard(u)' => StartsUnheard(u)) /\ (Ended(u)' => Ended(u))
  <2>1. CASE r # u
    <3>1. stage'[u] = stage[u] /\ outbox'[u] = outbox[u]
      <4>1. /\ outbox' = outbox \/ \E m : outbox' = [outbox EXCEPT ![r] = Append(@, m)]
            /\ \E next : stage' = [stage EXCEPT ![r] = next]
        BY <1>5, LaunchSpeaks, Zenon DEF Launch
      <4>2. QED
        BY <1>5, <2>1, <4>1 DEF LauncherTypes
    <3>2. QED
      BY <3>1 DEF StartsUnheard, Ended
  <2>2. CASE r = u
    <3>1. PICK q \in Seq(Message) : q = outbox[u]
      BY <1>5 DEF LauncherTypes
    <3>2. CASE outbox' = outbox
      <4>1. /\ stage'[u] \in {"begin", "beginStop"} => stage[u] \in {"begin", "beginStop"}
            /\ stage'[u] \in {"end", "err", "dead"} => stage'[u] = stage[u]
        <5>1. \A m : outbox' # [outbox EXCEPT ![u] = Append(@, m)]
          <6>1. \A m : Append(q, m) # q
            <7>1. \A m : Len(Append(q, m)) # Len(q)
              OBVIOUS
            <7>2. QED
              BY <7>1
          <6>2. QED
            BY <1>5, <3>1, <3>2, <6>1 DEF LauncherTypes
        <5>2. BeginInterrupted(u) \/ RunInterrupted(u) \/ LastInterrupted(u)
          BY <2>2, <5>1 DEF Launch, LaunchNext, SeesInterrupt, CommandExits, HangInterrupted,
                            BeginExits, KilledExits, EndExits, ErrExits, RunExits,
                            EnterAnnounced, Write
        <5>3. QED
          BY <1>5, <5>2 DEF BeginInterrupted, RunInterrupted, LastInterrupted, Enter,
                            LauncherTypes
      <4>2. QED
        BY <3>2, <4>1 DEF StartsUnheard, Ended
    <3>3. ASSUME NEW m \in Message, NEW next \in Stage,
                 outbox' = [outbox EXCEPT ![u] = Append(@, m)],
                 stage' = [stage EXCEPT ![u] = next],
                 MaySay(stage[u], m), SpokenAt(m, next)
          PROVE  (StartsUnheard(u)' => StartsUnheard(u)) /\ (Ended(u)' => Ended(u))
      <4>1. outbox'[u] = Append(q, m) /\ stage'[u] = next
        BY <1>5, <3>1, <3>3 DEF LauncherTypes
      <4>2. PICK k \in Nat : k = Len(q)
        BY <3>1
      <4>3. PICK t \in Seq(Message) : t = Append(q, m)
        <5>1. Append(q, m) \in Seq(Message)
          OBVIOUS
        <5>2. QED
          BY <5>1, Zenon
      <4>4. /\ DOMAIN q = 1..k /\ DOMAIN t = 1..(k + 1) /\ t[k + 1] = m
            /\ \A j \in 1..k : t[j] = q[j]
        BY <4>2, <4>3
      <4>5. StartsUnheard(u)' => StartsUnheard(u)
        <5>1. next \notin {"begin", "beginStop"}
          BY <3>3 DEF SpokenAt
        <5>2. CASE m = "finstart"
          BY <3>3, <5>2 DEF MaySay, StartsUnheard, Farewell
        <5>3. CASE m # "finstart"
          <6>1. ASSUME NEW j \in 1..(k + 1), t[j] = "finstart" PROVE j \in 1..k
            BY <4>2, <4>4, <5>3, <6>1
          <6>2. QED
            BY <3>1, <4>1, <4>3, <4>4, <5>1, <6>1 DEF StartsUnheard
        <5>4. QED
          BY <5>2, <5>3
      <4>6. Ended(u)' => Ended(u)
        <5>1. SUFFICES ASSUME Ended(u)' PROVE Ended(u)
          OBVIOUS
        <5>2. \A j \in 1..(k + 1) : t[j] \notin LastWords
          BY <4>1, <4>3, <4>4, <5>1 DEF Ended
        <5>3. k + 1 \in 1..(k + 1) /\ \A j \in 1..k : j \in 1..(k + 1)
          BY <4>2
        <5>4. m \notin LastWords
          BY <4>4, <5>2, <5>3
        <5>5. m \in Farewell
          BY <3>3, <4>1, <5>1, <5>4 DEF SpokenAt, Ended, LastWords
        <5>6. stage[u] \in {"end", "err"}
          BY <3>3, <5>5 DEF MaySay, Farewell
        <5>7. \A j \in 1..k : q[j] \notin LastWords
          BY <4>4, <5>2, <5>3
        <5>8. QED
          BY <3>1, <4>4, <5>6, <5>7 DEF Ended
      <4>7. QED
        BY <4>5, <4>6
    <3>4. \/ outbox' = outbox
          \/ \E m \in Message, next \in Stage :
               /\ outbox' = [outbox EXCEPT ![u] = Append(@, m)]
               /\ stage' = [stage EXCEPT ![u] = next]
               /\ MaySay(stage[u], m) /\ SpokenAt(m, next)
      BY <1>5, <2>2, LaunchSpeaks, Zenon DEF Launch
    <3>5. QED
      BY <3>2, <3>3, <3>4
  <2>3. QED
    BY <2>1, <2>2
<1>7. UserInv(u)'
  <2>1. \A c : NextCall(c)' <=> NextCall(c)
    BY <1>1 DEF NextCall, Top
  <2>2. Announcing(u)' <=> Announcing(u)
    BY <1>1 DEF Announcing
  <2>3. ShouldRun(u)' <=> ShouldRun(u)
    BY <1>1 DEF ShouldRun, MustStop, IsShutdown, HasAttribute, TargetIncludes, Enabled, Disabled,
                LastWord
  <2>4. QED
    BY <1>1, <1>6, <2>1, <2>2, <2>3 DEF UserInv, Included
<1>8. QED
  BY <1>2, <1>3, <1>4, <1>7 DEF UserGoesOn

\* Between two calls.
LEMMA AtRest ==
  ASSUME NEW u, UserInv(u), stack = <<>>
  PROVE  /\ ~Announcing(u) /\ status[u] # "StopWaiting" /\ ~(Included(u) /\ Ended(u))
         /\ Silences(u) <=> Included(u)
         /\ ~RawStops(u) /\ ~HasStarted(u)
<1>1. DOMAIN stack = {}
  OBVIOUS
<1>2. ~Announcing(u) /\ ~HasStarted(u)
  BY <1>1 DEF Announcing, HasStarted, Runs
<1>3. status[u] # "StopWaiting" /\ ~(Included(u) /\ Ended(u))
  BY DEF UserInv, NextCall
<1>4. QED
  BY <1>2, <1>3 DEF Silences, RawStops, Included

\* A call begins that has nothing to do with u yet.
LEMMA ServedUser ==
  ASSUME NEW u, UserInv(u), stack = <<>>,
         dependedBy'[u] = dependedBy[u], stage'[u] = stage[u], outbox'[u] = outbox[u],
         status'[u] = status[u] \/ (status[u] = "Failed" /\ status'[u] = "Inactive"),
         ~Announcing(u)'
  PROVE  UserGoesOn(u)
<1>1. (StartsUnheard(u)' <=> StartsUnheard(u)) /\ (Ended(u)' <=> Ended(u))
  BY DEF StartsUnheard, Ended
<1>2. QED
  BY <1>1, AtRest DEF UserGoesOn, UserInv, Silences, Included

\* The frames a call begins with.
LEMMA BeginsWith ==
  ASSUME NEW u
  PROVE  /\ stack' = <<>> => ~Announcing(u)'
         /\ \A f : stack' = <<f>> => (Announcing(u)' <=> f.fn = "finishStart" /\ f.svc = u)
         /\ \A f, g : stack' = <<f, g>> /\ f.fn # "finishStart" /\ g.fn # "finishStart"
                        => ~Announcing(u)'
BY DEF Announcing

\* The requests, and the target at boot.
LEMMA RequestUser ==
  ASSUME TypeInv, NEW u \in Services, UserInv(u), stack = <<>>,
         Boot \/ \E c \in Clients : Request(c)
  PROVE  UserGoesOn(u)
<1> USE DEF TypeInv, DataTypes
<1>1. ASSUME NEW t, SetTarget(t) PROVE UserGoesOn(u)
  <2>1. /\ UNCHANGED <<status, dependedBy, stage, outbox>>
        /\ stack' = stack \/ \E all : stack' = <<[fn |-> "setTarget", todo |-> all]>>
    BY <1>1 DEF SetTarget, serviceVars, edgeVars, launchVars, callVars, EnterTarget,
                EnterTargetFails, Serve
  <2>2. QED
    BY <2>1, BeginsWith, ServedUser
<1>2. ASSUME NEW s \in Services, NEW c,
             StartService(s, c) \/ StopService(s, c) \/ CascadeStopService(s, c)
      PROVE  UserGoesOn(u)
  <2>1. UNCHANGED <<dependedBy, stage, outbox>> /\ (UNCHANGED status \/ Forgive(s))
    BY <1>2 DEF StartService, StopService, CascadeStopService, Refuse, edgeVars, launchVars,
                serviceVars
  <2>2. status'[u] = status[u] \/ (status[u] = "Failed" /\ status'[u] = "Inactive")
    BY <2>1 DEF Forgive
  <2>3. \/ stack' = stack
        \/ stack' = <<Call("update", s), Command(c)>>
        \/ stack' = <<CascadeCall(s)>>
    BY <1>2 DEF StartService, StopService, CascadeStopService, Refuse, callVars, Serve
  <2>4. /\ Call("update", s).fn # "finishStart" /\ Command(c).fn # "finishStart"
        /\ CascadeCall(s).fn # "finishStart"
    BY DEF Call, Command, CascadeCall
  <2>5. ~Announcing(u)'
    BY <2>3, <2>4, BeginsWith
  <2>6. QED
    BY <2>1, <2>2, <2>5, ServedUser
<1>3. QED
  BY <1>1, <1>2 DEF Boot, Request

\* What is read of the launcher of u or of another.
LEMMA DeliverUser ==
  ASSUME TypeInv, LauncherInv, InConversation, NEW u \in Services, UserInv(u),
         NEW r \in Services, Deliver(r)
  PROVE  UserGoesOn(u)
<1> USE DEF TypeInv, DataTypes, LaunchTypeOK
<1> DEFINE m == Head(outbox[r])
<1>1. /\ stack = <<>> /\ outbox[r] # <<>> /\ m \in Message /\ Handler(r, m)
      /\ outbox' = [outbox EXCEPT ![r] = Tail(@)] /\ stage' = stage
  BY DEF Deliver, Idle
<1>2. dependedBy' = dependedBy
  BY <1>1 DEF Handler, Message, FinishStartService, ServiceFinishes, FailService,
              FinishStopService, edgeVars
<1>3. \/ /\ m = "finstart" /\ SetStatus(r, "Running")
         /\ stack' = <<Call("finishStart", r)>> /\ ret' = "idle"
      \/ /\ m \in LastWords /\ (UNCHANGED status \/ Forgive(r))
         /\ stack' = <<Call("update", r)>>
         /\ \/ userOverride' = [userOverride EXCEPT ![r] = "Exclude"]
            \/ failLocked' = [failLocked EXCEPT ![r] = TRUE]
      \/ /\ m \in Farewell /\ \E st \in {"Inactive", "Failed"} : SetStatus(r, st)
         /\ stack' = <<Call("finishStop", r)>>
  BY <1>1 DEF Handler, Message, FinishStartService, ServiceFinishes, FailService,
              FinishStopService, Want, Serve, LastWords, Farewell
<1> HIDE DEF m
<1>4. CASE r # u
  <2>1. PICK fn : stack' = <<Call(fn, r)>>
    BY <1>3
  <2>2. ~Announcing(u)'
    BY <1>4, <2>1, BeginsWith DEF Call
  <2>3. status'[u] = status[u]
    BY <1>3, <1>4 DEF SetStatus, Forgive
  <2>4. QED
    BY <1>1, <1>2, <1>4, <2>2, <2>3, ServedUser
<1>5. CASE r = u
  <2>1. outbox'[u] = Tail(outbox[u])
    BY <1>1, <1>5
  <2>2. ~StartsUnheard(u)'
    BY <1>1, <1>5, <2>1, WhatIsRead DEF StartsUnheard
  <2>3. CASE m = "finstart"
    <3>1. status'[u] = "Running" /\ stack' = <<Call("finishStart", u)>> /\ ret' = "idle"
      BY <1>3, <1>5, <2>3 DEF SetStatus, LastWords, Farewell
    <3>2. Announcing(u)'
      <4>1. Call("finishStart", u).fn = "finishStart" /\ Call("finishStart", u).svc = u
        BY DEF Call
      <4>2. QED
        BY <3>1, <4>1, BeginsWith, Zenon
    <3>3. ~Ended(u)'
      BY <1>1, <1>5, <2>1, <2>3, WhatIsRead DEF Ended, m
    <3>4. status[u] = "Starting"
      <4>1. 1 \in DOMAIN outbox[u] /\ outbox[u][1] = m
        BY <1>1, <1>5 DEF m
      <4>2. QED
        BY <2>3, <4>1 DEF StartsUnheard, UserInv
    <3>5. QED
      BY <1>1, <1>2, <2>2, <3>1, <3>2, <3>3, <3>4, AtRest
         DEF UserGoesOn, UserInv, Silences, Included
  <2>4. CASE m \in LastWords
    <3>1. /\ UNCHANGED status \/ Forgive(u)
          /\ stack' = <<Call("update", u)>>
          /\ userOverride'[u] = "Exclude" \/ failLocked'[u]
      BY <1>3, <1>5, <2>4 DEF LastWords, Farewell
    <3>2. status'[u] = status[u] \/ (status[u] = "Failed" /\ status'[u] = "Inactive")
      BY <3>1 DEF Forgive
    <3>3. ~Announcing(u)' /\ NextCall(Call("update", u))'
      BY <3>1, BeginsWith DEF Call, NextCall, Top
    <3>4. ~ShouldRun(u)'
      BY <1>2, <3>1 DEF ShouldRun, UserInv
    <3>5. QED
      BY <1>1, <1>2, <2>2, <3>2, <3>3, <3>4, AtRest
         DEF UserGoesOn, UserInv, Silences, Included
  <2>5. CASE m \in Farewell
    <3>1. status'[u] \in {"Inactive", "Failed"} /\ stack' = <<Call("finishStop", u)>>
      BY <1>3, <1>5, <2>5 DEF SetStatus, LastWords, Farewell
    <3>2. ~Announcing(u)'
      BY <3>1, BeginsWith DEF Call
    <3>3. ~Included(u)
      BY <1>1, <1>5, <2>5, WhatIsRead, AtRest DEF m
    <3>4. QED
      BY <1>1, <1>2, <2>2, <3>1, <3>2, <3>3, AtRest
         DEF UserGoesOn, UserInv, Silences, Included
  <2>6. QED
    BY <1>3, <2>3, <2>4, <2>5
<1>6. QED
  BY <1>4, <1>5

\* update() of u.
LEMMA UpdateUser ==
  ASSUME TypeInv, NEW u \in Services, UserInv(u), dependedBy'[u] = <<>>,
         ~Announcing(u), ~Announcing(u)', ~HasStarted(u), Update(u)
  PROVE  UserGoesOn(u)
<1> USE DEF TypeInv, DataTypes, LaunchTypeOK, SetStatus
<1>1. CASE ReadyToStart(u) /\ (RawStart(u) \/ RawStartFails(u))
  <2>1. status[u] = "Waiting" /\ status'[u] = "Starting"
    BY <1>1 DEF ReadyToStart, RawStart, RawStartFails
  <2>2. QED
    BY <2>1 DEF UserGoesOn, UserInv, Silences, RawStops, Included
<1>2. CASE ReadyToStop(u) /\ RawStop(u)
  <2>1. /\ status[u] = "StopWaiting" /\ status'[u] \in {"Stopping", "FailStopping"}
        /\ UNCHANGED <<stage, outbox>>
    BY <1>2 DEF ReadyToStop, RawStop, Interrupt
  <2>2. ~StartsUnheard(u)'
    BY <2>1 DEF UserInv, StartsUnheard
  <2>3. QED
    BY <2>1, <2>2 DEF UserGoesOn, UserInv, Silences, RawStops, Included
<1>3. CASE WantsStart(u) /\ BeginStart(u)
  <2>1. Excluded(u) /\ status'[u] = "Waiting" /\ UNCHANGED <<stage, outbox>>
    BY <1>3 DEF WantsStart, BeginStart, launchVars
  <2>2. ~StartsUnheard(u)'
    BY <2>1 DEF UserInv, StartsUnheard, Excluded
  <2>3. QED
    BY <2>1, <2>2 DEF UserGoesOn, UserInv, Silences, RawStops, Included, Excluded
<1>4. CASE WantsStop(u) /\ BeginStop(u)
  <2>1. /\ status[u] = "Running" /\ status'[u] = "StopWaiting" /\ UNCHANGED <<stage, outbox>>
        /\ stack' = <<Call("stop", u)>> \o Tail(stack)
    BY <1>4 DEF WantsStop, BeginStop, launchVars, Included, Continue
  <2>2. ~StartsUnheard(u)'
    BY <2>1 DEF UserInv, StartsUnheard
  <2>3. NextCall(Call("stop", u))'
    <3>1. Call("stop", u) \in GoodFrame /\ stack \in Seq(GoodFrame) /\ stack # <<>>
      BY CallIsGood DEF CallTypes, Update, Runs
    <3>2. QED
      BY <2>1, <3>1 DEF NextCall, Top
  <2>4. QED
    BY <2>1, <2>2, <2>3 DEF UserGoesOn, UserInv, Silences, RawStops, Included
<1>5. CASE ~(ReadyToStart(u) \/ ReadyToStop(u) \/ WantsStart(u) \/ WantsStop(u))
           /\ UpdateIsIdle(u)
  <2>1. UNCHANGED <<status, stage, outbox>>
    BY <1>5 DEF UpdateIsIdle, serviceVars, launchVars
  <2>2. status[u] # "StopWaiting"
    <3>1. DependentsGone(u)
      BY DEF DependentsGone, UserInv
    <3>2. QED
      BY <1>5, <3>1 DEF ReadyToStop
  <2>3. ~(Included(u) /\ Ended(u))
    BY <1>5 DEF UserInv, WantsStop
  <2>4. (StartsUnheard(u)' <=> StartsUnheard(u)) /\ (Ended(u)' <=> Ended(u))
    BY <2>1 DEF StartsUnheard, Ended
  <2>5. QED
    BY <2>1, <2>2, <2>3, <2>4 DEF UserGoesOn, UserInv, Silences, RawStops, Included
<1>6. QED
  BY <1>1, <1>2, <1>3, <1>4, <1>5 DEF Update

\* A step of a call.
LEMMA RunUser ==
  ASSUME TypeInv, NobodyNeedsThem, NEW u \in UseConsole, u \in Services, UserInv(u), Run
  PROVE  UserGoesOn(u)
<1>1. dependedBy[u] = <<>> /\ dependedBy'[u] = <<>>
  BY NobodyComes DEF UserInv
<1>2. CASE Announcing(u)
  <2>1. /\ stack = <<Call("finishStart", u)>> /\ ret # "err" /\ Included(u)
        /\ FinishStartEnds(u)
    BY <1>1, <1>2, ItsStep DEF UserInv
  <2>2. stack' = Tail(stack) /\ UNCHANGED <<status, stage, outbox>>
    BY <2>1 DEF FinishStartEnds, ReturnWith, serviceVars, launchVars
  <2>3. HasStarted(u)
    BY <2>1, <2>2 DEF FinishStartEnds, HasStarted
  <2>4. ~Announcing(u)'
    BY <2>1, <2>2, BeginsWith
  <2>5. ~Ended(u)
    <3>1. Top.fn # "update"
      BY <2>1 DEF FinishStartEnds, Runs
    <3>2. QED
      BY <2>1, <3>1 DEF UserInv, NextCall, Call
  <2>6. (StartsUnheard(u)' <=> StartsUnheard(u)) /\ (Ended(u)' <=> Ended(u))
    BY <2>2 DEF StartsUnheard, Ended
  <2>7. QED
    BY <1>1, <1>2, <2>1, <2>2, <2>3, <2>4, <2>5, <2>6
       DEF UserGoesOn, UserInv, Silences, RawStops, Included
<1>3. CASE ~Announcing(u)
  <2>1. ~Announcing(u)'
    BY <1>3, RunAnnounces
  <2>2. ~HasStarted(u)
    <3>1. stack # <<>> => 1 \in DOMAIN stack /\ stack[1] = Top
      BY DEF TypeInv, CallTypes, Top
    <3>2. QED
      BY <1>3, <3>1 DEF HasStarted, Runs, Announcing
  <2>3. CASE Update(u)
    BY <1>1, <1>3, <2>1, <2>2, <2>3, UpdateUser
  <2>4. CASE ~Update(u)
    <3>1. status'[u] = status[u] /\ stage'[u] = stage[u] /\ outbox'[u] = outbox[u]
      <4>1. ASSUME NEW r \in Services, Update(r)
            PROVE  status'[u] = status[u] /\ stage'[u] = stage[u] /\ outbox'[u] = outbox[u]
        BY <2>4, <4>1 DEF Update, RawStart, RawStartFails, RawStop, BeginStart, BeginStop,
                          UpdateIsIdle, SetStatus, Fork, Interrupt, serviceVars, launchVars,
                          TypeInv, DataTypes, LaunchTypeOK
      <4>2. QED
        BY <4>1, RunOrUpdate
    <3>2. ~(Included(u) /\ Ended(u))
      BY <1>1, <2>4, ItsStep DEF UserInv
    <3>3. (StartsUnheard(u)' <=> StartsUnheard(u)) /\ (Ended(u)' <=> Ended(u))
      BY <3>1 DEF StartsUnheard, Ended
    <3>4. CASE status[u] = "StopWaiting"
      <4>1. UpdateSelf(u)
        BY <1>1, <2>4, <3>4, ItsStep DEF UserInv
      <4>2. NextCall(Call("update", u))'
        <5>1. /\ stack # <<>> /\ stack \in Seq(GoodFrame) /\ At("tail") \in GoodFrame
              /\ Call("update", u) \in GoodFrame
          BY <4>1, ServiceTop, CallIsGood DEF UpdateSelf, Runs, TypeInv, CallTypes
        <5>2. stack' = <<Call("update", u), At("tail")>> \o Tail(stack)
          BY <4>1 DEF UpdateSelf, Invoke
        <5>3. QED
          BY <5>1, <5>2 DEF NextCall, Top
      <4>3. QED
        BY <1>1, <1>3, <2>1, <2>2, <3>1, <3>2, <3>3, <3>4, <4>2
           DEF UserGoesOn, UserInv, Silences, RawStops, Included
    <3>5. QED
      BY <1>1, <1>3, <2>1, <2>2, <3>1, <3>2, <3>3, <3>4
         DEF UserGoesOn, UserInv, Silences, RawStops, Included
  <2>5. QED
    BY <2>3, <2>4
<1>4. QED
  BY <1>2, <1>3

\* So each goes on through every step.
LEMMA UserStep ==
  ASSUME TypeInv, LauncherInv, InConversation, NobodyNeedsThem, UsersInv, Next,
         NEW u \in UseConsole, u \in Services
  PROVE  UserGoesOn(u)
<1>1. UserInv(u)
  BY DEF UsersInv
<1>2. Boot \/ (\E c \in Clients : Request(c)) => stack = <<>>
  BY DEF Boot, Request, Idle, UsersInv
<1>3. QED
  BY <1>1, <1>2, RequestUser, DeliverUser, LaunchUser, RunUser DEF Next

\* No call is made before there is a target.
LEMMA NoCallBeforeBoot ==
  ASSUME TypeInv, tgts = <<>> => stack = <<>>, Next, tgts' = <<>>
  PROVE  stack' = <<>>
<1> USE DEF TypeInv, DataTypes
<1>1. ASSUME NEW t, SetTarget(t) PROVE stack' = stack /\ tgts' = tgts
  <2>1. AddTarget(tgts, t) # <<>>
    <3>1. Append(tgts, t) # <<>>
      <4>1. PICK q \in Seq(Targets \union {t}) : q = tgts
        OBVIOUS
      <4>2. Len(Append(q, t)) = Len(q) + 1 /\ Len(q) + 1 # 0
        OBVIOUS
      <4>3. Append(q, t) # <<>>
        BY <4>2
      <4>4. QED
        BY <4>1, <4>3, Zenon
    <3>2. QED
      BY <3>1 DEF AddTarget
  <2>2. QED
    BY <1>1, <2>1 DEF SetTarget, EnterTarget, EnterTargetFails, targetVars, callVars
<1>2. CASE Run
  <2>1. tgts' = tgts /\ stack # <<>>
    BY <1>2, RunFollows DEF Run, ServiceStep, Update, RawStart, RawStartFails, RawStop,
         BeginStart, BeginStop, UpdateIsIdle, StartDepends, StartDepended, StartTriesAfter,
         StartTriedAfter, StartAddedAfter, UpdateSelf, ReturnFromTail, StopNext,
         CascadeEnters, CascadeNext, FinishStartNext, FinishStartFails,
         FinishStartEnds, FinishStopNext, FinishStopEnds, CommandReturns,
         TargetNext, TargetEnds, targetVars, CheckReach
  <2>2. QED
    BY <2>1
<1>3. ASSUME NEW c, Request(c) PROVE FALSE
  <2>1. tgts # <<>> /\ stack = <<>>
    BY <1>3 DEF Request, Idle
  <2>2. ~\E t : SetTarget(t)
    BY <1>1, <2>1
  <2>3. UNCHANGED targetVars
    BY <1>3, <2>2 DEF Request, StartService, StopService, CascadeStopService, Refuse
  <2>4. QED
    BY <2>1, <2>3 DEF targetVars
<1>4. ASSUME NEW r \in Services, Deliver(r) PROVE FALSE
  <2>1. tgts # <<>> /\ Head(outbox[r]) \in Message /\ Handler(r, Head(outbox[r]))
    BY <1>4 DEF Deliver, Idle, LaunchTypeOK
  <2>2. UNCHANGED targetVars
    BY <2>1 DEF Handler, Message, FinishStartService, ServiceFinishes, FailService,
                FinishStopService
  <2>3. QED
    BY <2>1, <2>2 DEF targetVars
<1>5. ASSUME NEW r \in Services, Launch(r) PROVE stack' = stack /\ tgts' = tgts
  BY <1>5 DEF Launch, callVars, targetVars
<1>6. QED
  BY <1>1, <1>2, <1>3, <1>4, <1>5 DEF Next, Boot

\* The whole invariant of those that use the console.
LEMMA NextUsers ==
  ASSUME TypeInv, LauncherInv, InConversation, NobodyNeedsThem, UseConsole \subseteq Services,
         UsersInv, Next
  PROVE  UsersInv'
<1>1. \A u \in UseConsole : UserInv(u)'
  BY UserStep DEF UserGoesOn
<1>2. tgts' = <<>> => stack' = <<>>
  BY NoCallBeforeBoot DEF UsersInv
<1>3. QED
  BY <1>1, <1>2 DEF UsersInv

-----------------------------------------------------------------------------
(* What is said in a step.                                                 *)

\* A step changes the status of one service at most, and the end of a finishStart()
\* and raw_stop() change no queue of messages.
LEMMA OneSpeaks ==
  ASSUME TypeInv, Next
  PROVE  /\ \A s, r \in Services : RawStops(s) /\ RawStops(r) => s = r
         /\ \A s, r \in Services : HasStarted(s) /\ HasStarted(r) => s = r
         /\ \A s \in Services : HasStarted(s) => UNCHANGED <<status, outbox>>
         /\ \A s, r \in Services :
              RawStops(s) => ~(RawStarts(r) \/ StopsInError(r) \/ Finishes(r))
<1> USE DEF TypeInv, DataTypes, LaunchTypeOK
<1>1. CASE Boot \/ \E c \in Clients : Request(c)
  <2>1. UNCHANGED outbox
    BY <1>1 DEF Boot, Request, SetTarget, StartService, StopService, CascadeStopService,
                Refuse, launchVars
  <2>2. UNCHANGED status \/ \E x \in Services : Forgive(x)
    BY <1>1 DEF Boot, Request, SetTarget, StartService, StopService, CascadeStopService,
                Refuse, serviceVars
  <2>3. \A s \in Services : ~RawStops(s)
    BY <2>2 DEF Forgive, RawStops
  <2>4. \A s \in Services : HasStarted(s) => UNCHANGED status
    BY <1>1 DEF Boot, Request, Idle, HasStarted, Runs, SetTarget, serviceVars
  <2>5. QED
    BY <2>1, <2>3, <2>4 DEF HasStarted, Runs
<1>2. ASSUME NEW x \in Services, Deliver(x)
      PROVE  \A s \in Services : ~RawStops(s) /\ ~HasStarted(s)
  <2>1. stack = <<>> /\ Head(outbox[x]) \in Message /\ Handler(x, Head(outbox[x]))
    BY <1>2 DEF Deliver, Idle
  <2>2. \/ UNCHANGED status \/ Forgive(x)
        \/ \E st \in {"Running", "Inactive", "Failed"} : SetStatus(x, st)
    BY <2>1 DEF Handler, Message, FinishStartService, ServiceFinishes, FailService,
                FinishStopService
  <2>3. QED
    BY <2>1, <2>2 DEF Forgive, SetStatus, RawStops, HasStarted, Runs
<1>3. ASSUME NEW x \in Services, Launch(x)
      PROVE  \A s \in Services : ~RawStops(s) /\ ~HasStarted(s)
  <2>1. UNCHANGED status /\ stack' = stack
    BY <1>3 DEF Launch, serviceVars, callVars
  <2>2. stack # <<>> => Tail(stack) # stack
    <3>1. PICK q \in Seq(GoodFrame) : q = stack
      BY DEF CallTypes
    <3>2. q # <<>> => Len(Tail(q)) # Len(q)
      OBVIOUS
    <3>3. QED
      BY <3>1, <3>2
  <2>3. QED
    BY <2>1, <2>2 DEF RawStops, HasStarted, Runs
<1>4. CASE Run
  <2>1. ASSUME NEW x \in Services, Update(x)
        PROVE  /\ \A s \in Services : ~HasStarted(s)
               /\ UNCHANGED outbox
               /\ \A s \in Services : s # x => status'[s] = status[s]
    BY <2>1 DEF Update, RawStart, RawStartFails, RawStop, BeginStart, BeginStop,
                UpdateIsIdle, SetStatus, Fork, Interrupt, serviceVars, launchVars,
                HasStarted, Runs
  <2>2. \A s \in Services : ~Finishes(s)
    <3>1. UNCHANGED outbox
      BY <1>4, <2>1, RunOrUpdate
    <3>2. \A s \in Services : Len(outbox[s]) \in Nat
      OBVIOUS
    <3>3. QED
      BY <3>1, <3>2 DEF Finishes
  <2>3. CASE \E x \in Services : Update(x)
    <3>1. PICK x \in Services : Update(x)
      BY <2>3
    <3>2. \A s \in Services : RawStops(s) \/ RawStarts(s) \/ StopsInError(s) => s = x
      BY <2>1, <3>1 DEF RawStops, RawStarts, StopsInError
    <3>3. \A s \in Services : RawStops(s) => ~(RawStarts(s) \/ StopsInError(s))
      BY DEF RawStops, RawStarts, StopsInError
    <3>4. QED
      BY <2>1, <2>2, <3>1, <3>2, <3>3
  <2>4. CASE UNCHANGED <<status, stage, outbox>>
    BY <2>2, <2>4 DEF RawStops, HasStarted, Runs
  <2>5. QED
    BY <1>4, <2>3, <2>4, RunOrUpdate
<1>5. CASE \E x \in Services : Deliver(x) \/ Launch(x)
  BY <1>2, <1>3, <1>5
<1>6. QED
  BY <1>1, <1>4, <1>5, Zenon DEF Next

\* The log stays right.
LEMMA NextLog ==
  ASSUME TypeInv, LauncherInv, InConversation, NobodyNeedsThem, UsersInv, LogInv, Next, Say,
         UseConsole \subseteq Services, IsFiniteSet(UseConsole)
  PROVE  LogInv'
<1>1. IsFiniteSet(Using) /\ Using \subseteq UseConsole /\ suppressors \in Nat
  <2>1. Using \subseteq UseConsole
    BY DEF Using
  <2>2. IsFiniteSet(Using)
    BY <2>1, FS_Subset
  <2>3. QED
    BY <2>1, <2>2, FS_CardinalityType DEF LogInv
<1>2. \A u \in UseConsole : UserGoesOn(u)
  BY UserStep
<1>3. \A u \in UseConsole : RawStops(u) => u \in Using
  BY <1>2 DEF UserGoesOn, Using
<1>4. \A u \in UseConsole : RawStops(u) => suppressors > 0
  <2>1. ASSUME NEW u \in UseConsole, RawStops(u) PROVE Cardinality(Using) # 0
    BY <1>1, <1>3, <2>1, FS_EmptySet
  <2>2. QED
    BY <1>1, <2>1 DEF LogInv
<1>5. Neat(log)
  BY <1>1 DEF LogInv, ScreenIsTasks, Neat, Fields, log
<1>6. /\ Neat(log')
      /\ \/ /\ suppressors' = suppressors
            /\ \/ \A s \in Services : ~Speaks(s)
               \/ \E s \in Services : RawStarts(s) \/ StopsInError(s) \/ Finishes(s)
         \/ \E s \in Services :
              /\ RawStops(s)
              /\ suppressors' = IF Uses(s) THEN suppressors - 1 ELSE suppressors
         \/ \E s \in Services :
              /\ HasStarted(s)
              /\ suppressors' = IF Uses(s) THEN suppressors + 1 ELSE suppressors
  BY <1>4, <1>5, SayStaysNeat, Zenon
<1>7. Using' = {u \in UseConsole : (u \in Using /\ ~RawStops(u)) \/ HasStarted(u)}
  BY <1>2 DEF Using, UserGoesOn
<1>8. suppressors' = Cardinality(Using')
  <2>1. CASE /\ suppressors' = suppressors
             /\ \/ \A s \in Services : ~Speaks(s)
                \/ \E s \in Services : RawStarts(s) \/ StopsInError(s) \/ Finishes(s)
    <3>1. \A u \in UseConsole : ~RawStops(u) /\ ~HasStarted(u)
      <4>1. CASE \A s \in Services : ~Speaks(s)
        BY <4>1 DEF Speaks
      <4>2. ASSUME NEW s \in Services, RawStarts(s) \/ StopsInError(s) \/ Finishes(s),
                   NEW u \in UseConsole
            PROVE  ~RawStops(u) /\ ~HasStarted(u)
        <5>1. ~RawStops(u)
          BY <4>2, OneSpeaks
        <5>2. ~HasStarted(u)
          <6>1. ~UNCHANGED <<status, outbox>>
            <7>1. Len(outbox[s]) \in Nat
              BY DEF TypeInv, DataTypes, LaunchTypeOK
            <7>2. QED
              BY <4>2, <7>1 DEF RawStarts, StopsInError, Finishes
          <6>2. QED
            BY <6>1, OneSpeaks
        <5>3. QED
          BY <5>1, <5>2
      <4>3. QED
        BY <2>1, <4>1, <4>2
    <3>2. Using' = Using
      BY <1>1, <1>7, <3>1
    <3>3. QED
      BY <2>1, <3>2 DEF LogInv
  <2>2. ASSUME NEW s \in Services, RawStops(s),
               suppressors' = IF Uses(s) THEN suppressors - 1 ELSE suppressors
        PROVE  suppressors' = Cardinality(Using')
    <3>1. \A u \in UseConsole : ~HasStarted(u) /\ (RawStops(u) <=> u = s)
      <4>1. ~UNCHANGED <<status, outbox>>
        BY <2>2 DEF RawStops
      <4>2. QED
        BY <2>2, <4>1, OneSpeaks
    <3>2. Using' = Using \ {s}
      BY <1>1, <1>7, <3>1
    <3>3. CASE Uses(s)
      <4>1. s \in Using
        BY <1>3, <2>2, <3>3 DEF Uses
      <4>2. Cardinality(Using \ {s}) = Cardinality(Using) - 1
        BY <1>1, <4>1, FS_RemoveElement
      <4>3. QED
        BY <2>2, <3>2, <3>3, <4>2 DEF LogInv
    <3>4. CASE ~Uses(s)
      <4>1. Using' = Using
        BY <1>1, <3>2, <3>4 DEF Uses
      <4>2. QED
        BY <2>2, <3>4, <4>1 DEF LogInv
    <3>5. QED
      BY <3>3, <3>4
  <2>3. ASSUME NEW s \in Services, HasStarted(s),
               suppressors' = IF Uses(s) THEN suppressors + 1 ELSE suppressors
        PROVE  suppressors' = Cardinality(Using')
    <3>1. \A u \in UseConsole : ~RawStops(u) /\ (HasStarted(u) <=> u = s)
      <4>1. UNCHANGED <<status, outbox>>
        BY <2>3, OneSpeaks
      <4>2. QED
        BY <2>3, <4>1, OneSpeaks DEF RawStops
    <3>2. CASE Uses(s)
      <4>1. Using' = Using \union {s}
        BY <1>1, <1>7, <3>1, <3>2 DEF Uses
      <4>2. s \notin Using
        BY <1>2, <2>3, <3>2 DEF Uses, UserGoesOn, Using
      <4>3. Cardinality(Using \union {s}) = Cardinality(Using) + 1
        BY <1>1, <4>2, FS_AddElement
      <4>4. QED
        BY <2>3, <3>2, <4>1, <4>3 DEF LogInv
    <3>3. CASE ~Uses(s)
      <4>1. Using' = Using
        BY <1>1, <1>7, <3>1, <3>3 DEF Uses
      <4>2. QED
        BY <2>3, <3>3, <4>1 DEF LogInv
    <3>4. QED
      BY <3>2, <3>3
  <2>4. QED
    BY <1>6, <2>1, <2>2, <2>3, Zenon
<1>9. smudged' = FALSE /\ ScreenIsTasks'
  BY <1>6 DEF Neat, Fields, log, ScreenIsTasks
<1>10. QED
  BY <1>8, <1>9 DEF LogInv

-----------------------------------------------------------------------------
(* From the first state on.                                                *)

\* Nothing has been started, and nothing said.
LEMMA InitConsole ==
  ASSUME ConsoleInit, UseConsole \subseteq Services
  PROVE  UsersInv /\ LogInv
<1>1. stack = <<>> /\ DOMAIN stack = {} /\ DOMAIN <<>> = {}
  BY DEF ConsoleInit, Init
<1>2. \A s \in Services : /\ status[s] = "Inactive" /\ dependedBy[s] = <<>>
                          /\ stage[s] = "none" /\ outbox[s] = <<>>
  BY DEF ConsoleInit, Init, LaunchInit
<1>3. UsersInv
  <2>1. \A u \in Services : ~Announcing(u) /\ ~StartsUnheard(u) /\ ~Ended(u)
    BY <1>1, <1>2 DEF Announcing, StartsUnheard, Ended
  <2>2. QED
    BY <1>1, <1>2, <2>1 DEF UsersInv, UserInv
<1>4. Using = {}
  BY <1>2 DEF Using, Silences
<1>5. QED
  BY <1>3, <1>4, FS_EmptySet DEF LogInv, ScreenIsTasks, ConsoleInit

\* Between two calls nobody is about to suppress it.
LEMMA LogIsRight ==
  ASSUME LogInv
  PROVE  ConsoleIsRight
<1>1. stack = <<>> => \A s : ~Announcing(s)
  BY DEF Announcing
<1>2. stack = <<>> => Using = {s \in UseConsole : status[s] \in {"Running", "StopWaiting"}}
  BY <1>1 DEF Using, Silences
<1>3. QED
  BY <1>2 DEF LogInv, ConsoleIsRight, SilentWhileUsed, Quiescent

\* The last lines of the screen are the pending tasks, none overwritten or left
\* behind, and the log is silent as often as there are services that use the console
\* and run (PxLog.hpp; raw_start, finishStart, raw_stop of PxService.hpp).
THEOREM ConsoleShowsTasks ==
  ASSUME ConsoleAssumption, IsFiniteSet(UseConsole), NobodyNeedsThem
  PROVE  ConsoleSpec => []ConsoleIsRight
<1> DEFINE ConsoleInv == TypeInv /\ LauncherInv /\ InConversation /\ UsersInv /\ LogInv
<1>1. ConsoleInit => ConsoleInv
  BY InitTypes, InitLauncher, InitConversation, InitConsole DEF ConsoleAssumption, ConsoleInit
<1>2. ConsoleInv /\ [ConsoleNext]_<<vars, consoleVars>> => ConsoleInv'
  <2> SUFFICES ASSUME ConsoleInv, [ConsoleNext]_<<vars, consoleVars>> PROVE ConsoleInv'
    OBVIOUS
  <2>1. CASE ConsoleNext
    <3>1. (TypeInv /\ LauncherInv /\ InConversation)'
      BY <2>1, NextTypes, NextLauncher, NextConversation DEF ConsoleNext
    <3>2. UsersInv' /\ LogInv'
      BY <2>1, NextUsers, NextLog DEF ConsoleNext, ConsoleAssumption
    <3>3. QED
      BY <3>1, <3>2
  <2>2. CASE UNCHANGED <<vars, consoleVars>>
    <3>1. (TypeInv /\ LauncherInv /\ InConversation)'
      BY <2>2, NextTypes, NextLauncher, NextConversation
    <3>2. UsersInv'
      BY <2>2 DEF vars, serviceVars, edgeVars, targetVars, callVars, launchVars, UsersInv,
                  UserInv, StartsUnheard, Ended, Announcing, NextCall, Top, Included,
                  ShouldRun, MustStop, IsShutdown, HasAttribute, TargetIncludes, Enabled,
                  Disabled, LastWord
    <3>3. LogInv'
      BY <2>2 DEF vars, serviceVars, callVars, consoleVars, LogInv, ScreenIsTasks, Using,
                  Silences, Announcing
    <3>4. QED
      BY <3>1, <3>2, <3>3
  <2>3. QED
    BY <2>1, <2>2
<1>3. ConsoleInv => ConsoleIsRight
  BY LogIsRight
<1>4. QED
  BY <1>1, <1>2, <1>3, PTL DEF ConsoleSpec
=============================================================================
