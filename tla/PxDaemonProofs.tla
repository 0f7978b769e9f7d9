--------------------------- MODULE PxDaemonProofs ---------------------------
(***************************************************************************)
(* Theorems about PxDaemon, for any services, dependencies, targets,       *)
(* clients and number of failing calls.                                    *)
(***************************************************************************)
EXTENDS PxDaemon, SequenceTheorems, WellFoundedInduction, TLAPS

(* The launcher invariant.  Of the daemon's state only the statuses and the *)
(* number of faults matter to it.                                           *)

LauncherTypes ==
  /\ status \in [Services -> Status]
  /\ stage \in [Services -> Stage]
  /\ outbox \in [Services -> Seq(Message)]
  /\ faults \in Nat

\* What makes NoStrayLauncher inductive: reading a farewell leaves nothing.
FarewellIsLast ==
  \A s \in Services : \A k \in DOMAIN outbox[s] :
    outbox[s][k] \in Farewell => k = Len(outbox[s]) /\ ~Alive(s)

LauncherInv ==
  LauncherTypes /\ NoStrayLauncher /\ NoLostLauncher /\ FarewellIsLast

\* At first there is no launcher and nothing to read.
LEMMA InitLauncher == Init => LauncherInv
<1> SUFFICES ASSUME Init PROVE LauncherInv
  OBVIOUS
<1>1. LauncherTypes
  BY DEF Init, LaunchInit, LauncherTypes, Status, Stage
<1>2. NoStrayLauncher
  BY DEF Init, LaunchInit, NoStrayLauncher, Alive
<1>3. NoLostLauncher
  BY DEF Init, LaunchInit, NoLostLauncher, Up
<1>4. FarewellIsLast
  BY DEF Init, LaunchInit, FarewellIsLast
<1>5. QED
  BY <1>1, <1>2, <1>3, <1>4 DEF LauncherInv

-----------------------------------------------------------------------------
(* The steps that matter to it, one lemma for each kind.                    *)

\* A change of status that takes no service up or down, and a fault, disturb
\* nothing.
LEMMA StatusOnly ==
  ASSUME LauncherInv, status' \in [Services -> Status],
         \A s \in Services : Up(s)' = Up(s),
         stage' = stage, outbox' = outbox, faults' = faults
  PROVE  LauncherInv'
<1>1. LauncherTypes'
  BY DEF LauncherInv, LauncherTypes
<1>2. NoStrayLauncher'
  BY DEF LauncherInv, NoStrayLauncher, Alive
<1>3. NoLostLauncher'
  BY DEF LauncherInv, NoLostLauncher, WillReport, Alive
<1>4. FarewellIsLast'
  BY DEF LauncherInv, FarewellIsLast, Alive
<1>5. QED
  BY <1>1, <1>2, <1>3, <1>4 DEF LauncherInv

\* raw_start: the service was Waiting, so it had no launcher.
LEMMA RawStartLauncher ==
  ASSUME LauncherInv, NEW s \in Services, status[s] = "Waiting", RawStart(s)
  PROVE  LauncherInv'
<1> USE DEF LauncherInv, LauncherTypes, RawStart, SetStatus, Fork
<1>0. ~Alive(s) /\ outbox[s] = <<>>
  BY DEF NoStrayLauncher, Up
<1>1. LauncherTypes'
  BY DEF Status, Stage
<1>2. NoStrayLauncher'
  BY DEF NoStrayLauncher, Up, Alive
<1>3. NoLostLauncher'
  BY DEF NoLostLauncher, Up, WillReport, Alive
<1>4. FarewellIsLast'
  BY <1>0 DEF FarewellIsLast, Alive
<1>5. QED
  BY <1>1, <1>2, <1>3, <1>4

\* raw_start that fails leaves a service up without a launcher, and a fault.
LEMMA RawStartFailsLauncher ==
  ASSUME LauncherInv, NEW s \in Services, status[s] = "Waiting", RawStartFails(s)
  PROVE  LauncherInv'
<1> USE DEF LauncherInv, LauncherTypes, RawStartFails, SetStatus, launchVars
<1>1. LauncherTypes'
  BY DEF Status
<1>2. NoStrayLauncher'
  BY DEF NoStrayLauncher, Up, Alive
<1>3. NoLostLauncher'
  BY DEF NoLostLauncher
<1>4. FarewellIsLast'
  BY DEF FarewellIsLast, Alive
<1>5. QED
  BY <1>1, <1>2, <1>3, <1>4

\* A launcher's step: it goes on in silence, announces a stage, or says
\* farewell and dies.
Silent(s) == \E st \in Stage \ {"none", "dead"} : Enter(s, st) /\ outbox' = outbox
Announces(s) == \E st \in {"run", "end", "err"} : EnterAnnounced(s, st)
Leaves(s) == \E m \in Farewell : Enter(s, "dead") /\ Write(s, m)

\* Only a live launcher steps, in one of these three ways.
LEMMA LaunchKinds ==
  ASSUME LauncherTypes, NEW s \in Services, LaunchNext(s)
  PROVE  Alive(s) /\ (Silent(s) \/ Announces(s) \/ Leaves(s))
<1>1. CASE BeginInterrupted(s) \/ RunInterrupted(s)
  BY <1>1 DEF BeginInterrupted, RunInterrupted, Alive, Enter, Stage, Silent
<1>2. CASE LastInterrupted(s)
  <2>1. stage[s] \in {"end", "err"} /\ outbox' = outbox
    BY <1>2 DEF LastInterrupted
  <2>2. stage' = [stage EXCEPT ![s] = stage[s]]
    BY <1>2 DEF LastInterrupted, LauncherTypes
  <2>3. QED
    BY <2>1, <2>2 DEF Alive, Enter, Stage, Silent
<1>3. CASE BeginExits(s) \/ HangInterrupted(s) \/ RunExits(s) \/ KilledExits(s)
  BY <1>3 DEF BeginExits, HangInterrupted, RunExits, KilledExits, AfterBegin,
              Alive, Announces
<1>4. CASE EndExits(s) \/ ErrExits(s)
  BY <1>4 DEF EndExits, ErrExits, Alive, Farewell, Announces, Leaves
<1>5. QED
  BY <1>1, <1>2, <1>3, <1>4 DEF LaunchNext, SeesInterrupt, CommandExits

\* A launcher's step: what it says last is its farewell.
LEMMA LaunchLauncher ==
  ASSUME LauncherInv, NEW s \in Services, LaunchNext(s),
         status' = status, faults' = faults
  PROVE  LauncherInv'
<1> USE DEF LauncherInv, LauncherTypes
<1>1. Alive(s) /\ Up(s)
  BY LaunchKinds DEF NoStrayLauncher
<1>2. \A k \in DOMAIN outbox[s] : outbox[s][k] \notin Farewell
  BY <1>1 DEF FarewellIsLast
<1>3. PICK st \in Stage \ {"none"} :
        /\ stage' = [stage EXCEPT ![s] = st]
        /\ \/ st # "dead" /\ outbox' = outbox
           \/ \E m \in Message : /\ outbox' = [outbox EXCEPT ![s] = Append(@, m)]
                                 /\ m \in Farewell <=> st = "dead"
  <2>1. CASE Silent(s)
    BY <2>1 DEF Silent, Enter
  <2>2. CASE Announces(s)
    BY <2>2 DEF Announces, EnterAnnounced, Enter, Write, Announce, Message,
                Farewell, Stage
  <2>3. CASE Leaves(s)
    BY <2>3 DEF Leaves, Enter, Write, Message, Farewell, Stage
  <2>4. QED
    BY <2>1, <2>2, <2>3, LaunchKinds
<1>4. \A r \in Services \ {s} : outbox'[r] = outbox[r] /\ stage'[r] = stage[r]
  BY <1>3
<1>5. LauncherTypes'
  <2>1. stage' \in [Services -> Stage]
    BY <1>3
  <2>2. \A m \in Message : Append(outbox[s], m) \in Seq(Message)
    OBVIOUS
  <2>3. outbox' \in [Services -> Seq(Message)]
    BY <1>3, <2>2
  <2>4. QED
    BY <2>1, <2>3
<1>6. NoStrayLauncher'
  BY <1>1, <1>4 DEF NoStrayLauncher, Up, Alive
<1>7. WillReport(s)' /\ \A k \in DOMAIN outbox'[s] :
          outbox'[s][k] \in Farewell => k = Len(outbox'[s]) /\ ~Alive(s)'
  <2>1. CASE st # "dead" /\ outbox' = outbox
    BY <1>2, <1>3, <2>1 DEF WillReport, Alive
  <2>2. CASE \E m \in Message : /\ outbox' = [outbox EXCEPT ![s] = Append(@, m)]
                                /\ m \in Farewell <=> st = "dead"
    <3>1. PICK m \in Message : /\ outbox'[s] = Append(outbox[s], m)
                               /\ m \in Farewell <=> st = "dead"
      BY <2>2
    <3>2. /\ Len(outbox'[s]) = Len(outbox[s]) + 1
          /\ outbox'[s][Len(outbox'[s])] = m
          /\ \A k \in 1..Len(outbox[s]) : outbox'[s][k] = outbox[s][k]
          /\ outbox'[s] # <<>>
      BY <3>1
    <3>3. stage'[s] = st
      BY <1>3
    <3>4. QED
      BY <1>2, <1>5, <3>1, <3>2, <3>3 DEF WillReport, Alive
  <2>3. QED
    BY <1>3, <2>1, <2>2
<1>8. NoLostLauncher'
  BY <1>4, <1>7 DEF NoLostLauncher, Up, WillReport, Alive
<1>9. FarewellIsLast'
  BY <1>4, <1>7 DEF FarewellIsLast, Alive
<1>10. QED
  BY <1>5, <1>6, <1>8, <1>9

\* Reading a report: the queue gets shorter, and the status changes as the
\* handler says.
LEMMA ReadReport ==
  ASSUME LauncherInv, NEW s \in Services, outbox[s] # <<>>,
         outbox' = [outbox EXCEPT ![s] = Tail(@)],
         stage' = stage, faults' = faults,
         status' \in [Services -> Status],
         \A r \in Services \ {s} : status'[r] = status[r],
         IF Head(outbox[s]) \in Farewell THEN ~Up(s)' ELSE Up(s)'
  PROVE  LauncherInv'
<1> USE DEF LauncherInv, LauncherTypes
<1> DEFINE q == outbox[s]
<1>1. /\ q \in Seq(Message) /\ Len(q) \in Nat \ {0}
      /\ Head(q) = q[1]
      /\ outbox'[s] = Tail(q)
      /\ Tail(q) \in Seq(Message)
      /\ Len(Tail(q)) = Len(q) - 1
      /\ \A k \in 1..Len(q) - 1 : Tail(q)[k] = q[k + 1]
  OBVIOUS
<1>2. \A r \in Services \ {s} : outbox'[r] = outbox[r]
  OBVIOUS
<1>3. Up(s)
  BY DEF NoStrayLauncher
<1>4. LauncherTypes'
  BY <1>1
<1>5. \A k \in DOMAIN outbox'[s] :
        outbox'[s][k] \in Farewell => k = Len(outbox'[s]) /\ ~Alive(s)'
  BY <1>1 DEF FarewellIsLast, Alive
<1>6. FarewellIsLast'
  BY <1>2, <1>5 DEF FarewellIsLast, Alive
<1>7. CASE q[1] \in Farewell
  <2>1. Len(q) = 1 /\ ~Alive(s)
    BY <1>1, <1>7 DEF FarewellIsLast
  <2>2. outbox'[s] = <<>>
    BY <1>1, <2>1
  <2>3. NoStrayLauncher'
    BY <1>2, <2>1, <2>2 DEF NoStrayLauncher, Up, Alive
  <2>4. NoLostLauncher'
    BY <1>1, <1>2, <1>7 DEF NoLostLauncher, Up, WillReport, Alive
  <2>5. QED
    BY <1>4, <1>6, <2>3, <2>4
<1>8. CASE q[1] \notin Farewell
  <2>1. NoStrayLauncher'
    BY <1>1, <1>2, <1>8 DEF NoStrayLauncher, Up, Alive
  <2>2. WillReport(s) => WillReport(s)'
    <3>1. CASE Alive(s)
      BY <3>1 DEF WillReport, Alive
    <3>2. CASE q[Len(q)] \in Farewell
      <4>1. Len(q) > 1 /\ Tail(q)[Len(q) - 1] = q[Len(q)]
        BY <1>1, <1>8, <3>2
      <4>2. Len(outbox'[s]) = Len(q) - 1
        BY <1>1
      <4>3. outbox'[s] # <<>>
        <5>1. Len(outbox'[s]) > 0
          BY <1>1, <4>1, <4>2
        <5>2. ASSUME outbox'[s] = <<>> PROVE Len(outbox'[s]) = 0
          BY <5>2, EmptySeq, Zenon
        <5>3. QED
          BY <5>1, <5>2
      <4>4. outbox'[s][Len(outbox'[s])] \in Farewell
        BY <1>1, <3>2, <4>1, <4>2
      <4>5. QED
        BY <4>3, <4>4 DEF WillReport
    <3>3. QED
      BY <3>1, <3>2 DEF WillReport
  <2>3. NoLostLauncher'
    BY <1>2, <1>3, <2>2 DEF NoLostLauncher, Up, WillReport, Alive
  <2>4. QED
    BY <1>4, <1>6, <2>1, <2>3
<1>9. QED
  BY <1>7, <1>8

\* The daemon reads a report: a farewell takes the service down, nothing else does.
LEMMA DeliverLauncher ==
  ASSUME LauncherInv, NEW s \in Services, Deliver(s)
  PROVE  LauncherInv'
<1> DEFINE m == Head(outbox[s])
<1>1. /\ outbox[s] # <<>> /\ outbox' = [outbox EXCEPT ![s] = Tail(@)]
      /\ stage' = stage /\ m \in Message /\ status \in [Services -> Status]
      /\ Handler(s, m)
  BY DEF Deliver, LauncherInv, LauncherTypes
<1>2. Up(s)
  BY <1>1 DEF LauncherInv, NoStrayLauncher
<1>3. faults' = faults /\ \A r \in Services \ {s} : status'[r] = status[r]
  BY <1>1 DEF Handler, Message, FinishStartService, ServiceFinishes, FailService,
              FinishStopService, SetStatus, Forgive
<1>4. status' \in [Services -> Status]
  BY <1>1 DEF Handler, Message, FinishStartService, ServiceFinishes, FailService,
              FinishStopService, SetStatus, Forgive, Status
<1>5. CASE m \in Farewell
  <2>1. FinishStopService(s)
    BY <1>1, <1>5 DEF Handler, Farewell
  <2>2. ~Up(s)'
    BY <1>1, <2>1 DEF FinishStopService, SetStatus, Up
  <2>3. QED
    BY <1>1, <1>3, <1>4, <1>5, <2>2, ReadReport
<1>6. CASE m \notin Farewell
  <2>1. FinishStartService(s) \/ ServiceFinishes(s) \/ FailService(s)
    BY <1>1, <1>6 DEF Handler, Farewell, Message
  <2>2. Up(s)'
    BY <1>1, <1>2, <2>1 DEF FinishStartService, ServiceFinishes, FailService,
                            SetStatus, Forgive, Up
  <2>3. QED
    BY <1>1, <1>3, <1>4, <1>6, <2>2, ReadReport
<1>7. QED
  BY <1>5, <1>6

-----------------------------------------------------------------------------
(* Every step.                                                              *)

\* The daemon's own steps but update(), and clients' requests, touch neither
\* launchers nor faults, and the status of a service only to forgive it.
LEMMA RequestLauncher ==
  ASSUME LauncherInv, NEW c \in Clients, Request(c)
  PROVE  LauncherInv'
<1> USE DEF LauncherInv, LauncherTypes
<1>1. CASE \E t \in Targets : SetTarget(t)
  <2>1. PICK t \in Targets : SetTarget(t)
    BY <1>1
  <2>2. status' = status /\ stage' = stage /\ outbox' = outbox
    BY <2>1 DEF SetTarget, serviceVars, launchVars
  <2>3. faults' = faults \/ faults' = faults + 1
    BY <2>1 DEF SetTarget, EnterTarget, EnterTargetFails
  <2>4. LauncherInv'
    BY <2>2, <2>3 DEF NoStrayLauncher, NoLostLauncher, FarewellIsLast, Up,
                      WillReport, Alive
  <2>5. QED
    BY <2>4
<1>2. CASE \E s \in Services : StartService(s, c) \/ StopService(s, c)
                               \/ CascadeStopService(s, c)
  <2>1. PICK s \in Services : StartService(s, c) \/ StopService(s, c)
                              \/ CascadeStopService(s, c)
    BY <1>2
  <2>2. stage' = stage /\ outbox' = outbox /\ faults' = faults
    BY <2>1 DEF StartService, StopService, CascadeStopService, Refuse, launchVars
  <2>3. status' = status \/ Forgive(s)
    BY <2>1 DEF StartService, StopService, CascadeStopService, Refuse, serviceVars
  <2>4. status' \in [Services -> Status] /\ \A r \in Services : Up(r)' = Up(r)
    BY <2>3 DEF Forgive, Up, Status
  <2>5. QED
    BY <2>2, <2>4, StatusOnly
<1>3. QED
  BY <1>1, <1>2 DEF Request

\* update(): only raw_start brings a service up.
LEMMA UpdateLauncher ==
  ASSUME LauncherInv, NEW s \in Services, Update(s)
  PROVE  LauncherInv'
<1>1. CASE ReadyToStart(s) /\ (RawStart(s) \/ RawStartFails(s))
  BY <1>1, RawStartLauncher, RawStartFailsLauncher DEF ReadyToStart
<1>2. CASE ReadyToStop(s) /\ RawStop(s)
  BY <1>2, StatusOnly DEF ReadyToStop, RawStop, SetStatus, Interrupt, LauncherInv,
                          LauncherTypes, Up, Status
<1>3. CASE WantsStart(s) /\ BeginStart(s)
  BY <1>3, StatusOnly DEF WantsStart, BeginStart, SetStatus, Excluded, launchVars,
                          LauncherInv, LauncherTypes, Up, Status
<1>4. CASE WantsStop(s) /\ BeginStop(s)
  BY <1>4, StatusOnly DEF WantsStop, BeginStop, SetStatus, Included, launchVars,
                          LauncherInv, LauncherTypes, Up, Status
<1>5. CASE UpdateIsIdle(s)
  BY <1>5, StatusOnly DEF UpdateIsIdle, serviceVars, launchVars, LauncherInv,
                          LauncherTypes, Up
<1>6. QED
  BY <1>1, <1>2, <1>3, <1>4, <1>5 DEF Update

\* The other steps of a call in progress change no status.
LEMMA CallLauncher ==
  ASSUME LauncherInv, Run
  PROVE  LauncherInv'
<1>1. CASE \E s \in Services : Update(s)
  BY <1>1, UpdateLauncher
<1>2. CASE ~\E s \in Services : Update(s)
  <2>1. UNCHANGED <<status, faults, launchVars>>
    BY <1>2 DEF Run, ServiceStep, CommandReturns, TargetNext, TargetEnds,
                StartDepends, StartDepended, StartTriesAfter, StartTriedAfter,
                StartAddedAfter, UpdateSelf, ReturnFromTail, StopNext,
                CascadeEnters, CascadeNext, FinishStartNext, FinishStartFails,
                FinishStartEnds, FinishStopNext, FinishStopEnds, serviceVars
  <2>2. QED
    BY <2>1, StatusOnly DEF launchVars, LauncherInv, LauncherTypes, Up
<1>3. QED
  BY <1>1, <1>2

\* The invariant is inductive.
LEMMA NextLauncher == LauncherInv /\ [Next]_vars => LauncherInv'
<1> SUFFICES ASSUME LauncherInv, [Next]_vars PROVE LauncherInv'
  OBVIOUS
<1>1. CASE Boot
  <2>1. status' = status /\ stage' = stage /\ outbox' = outbox
    BY <1>1 DEF Boot, SetTarget, serviceVars, launchVars
  <2>2. faults' = faults
    BY <1>1, DaemonAssumption DEF Boot, SetTarget, EnterTarget, EnterTargetFails
  <2>3. QED
    BY <2>1, <2>2, StatusOnly DEF LauncherInv, LauncherTypes, Up
<1>2. ASSUME NEW c \in Clients, Request(c) PROVE LauncherInv'
  BY <1>2, RequestLauncher
<1>3. ASSUME NEW s \in Services, Deliver(s) PROVE LauncherInv'
  BY <1>3, DeliverLauncher
<1>4. ASSUME NEW s \in Services, Launch(s) PROVE LauncherInv'
  BY <1>4, LaunchLauncher DEF Launch, serviceVars
<1>5. CASE Run
  BY <1>5, CallLauncher
<1>6. CASE UNCHANGED vars
  BY <1>6, StatusOnly DEF vars, serviceVars, launchVars, LauncherInv,
                          LauncherTypes, Up
<1>7. QED
  BY <1>1, <1>2, <1>3, <1>4, <1>5, <1>6 DEF Next

\* The launcher invariant holds in every reachable state.
THEOREM LauncherInvariant == Spec => []LauncherInv
  BY InitLauncher, NextLauncher, PTL DEF Spec

\* A service that is not up has no live launcher and no unread report of one
\* (PxService.hpp, raw_start and finishStop): at most one launcher per service.
THEOREM OneLauncher == Spec => []NoStrayLauncher
<1>1. LauncherInv => NoStrayLauncher
  BY DEF LauncherInv
<1>2. QED
  BY <1>1, LauncherInvariant, PTL

\* Without failing calls, every service that is up will be reported on by its
\* launcher (PxLaunch.cpp, main): the daemon never waits for nobody.
THEOREM LauncherReports == Spec => []NoLostLauncher
<1>1. LauncherInv => NoLostLauncher
  BY DEF LauncherInv
<1>2. QED
  BY <1>1, LauncherInvariant, PTL

-----------------------------------------------------------------------------
(* What the daemon has still to read is a piece of a conversation.          *)

\* What a launcher has said by the time it is at stage st is the beginning of
\* conversation c that ends with c[n].
Spoken(st, c, n) ==
  /\ st \in {"none", "begin", "beginStop"} => n = 0
  /\ st \in {"run", "killed"} => n > 0 /\ c[n] = "finstart"
  /\ st = "end" => n > 0 /\ c[n] = "servfin"
  /\ st = "err" => n > 0 /\ c[n] = "servfail"
  /\ st = "dead" => n = Len(c)

\* Of that, the daemon has read the first i.
Unread(q, c, i, n) ==
  /\ i <= n /\ n <= Len(c)
  /\ Len(q) = n - i
  /\ \A k \in 1..Len(q) : q[k] = c[i + k]

InConversation ==
  \A s \in Services : \E c \in Conversation : \E i, n \in Nat :
    Unread(outbox[s], c, i, n) /\ Spoken(stage[s], c, n)

Beginning == {<<>>, <<"finstart">>}
Ending == {<<"servfin", "finstop">>, <<"servfail", "finfail">>,
           <<"servfin", "servfail", "finfail">>}

\* The messages of a conversation, one by one.
LEMMA Messages ==
  ASSUME NEW b \in Beginning, NEW e \in Ending
  PROVE  /\ b \o e \in Conversation
         /\ b \o e \in Seq(Message)
         /\ Len(b) \in {0, 1} /\ Len(e) \in {2, 3}
         /\ Len(b \o e) = Len(b) + Len(e)
         /\ Len(b) = 1 => (b \o e)[1] = "finstart"
         /\ \A k \in 1..Len(e) : (b \o e)[Len(b) + k] = e[k]
<1>1. b \in Seq(Message) /\ e \in Seq(Message)
  <2>1. <<>> \in Seq(Message) /\ <<"finstart">> \in Seq(Message)
    BY DEF Message
  <2>2. /\ <<"servfin", "finstop">> \in Seq(Message)
        /\ <<"servfail", "finfail">> \in Seq(Message)
        /\ <<"servfin", "servfail", "finfail">> \in Seq(Message)
    BY DEF Message
  <2>3. QED
    BY <2>1, <2>2 DEF Beginning, Ending
<1>2. /\ Len(b) \in {0, 1} /\ Len(e) \in {2, 3}
      /\ Len(b) = 1 => b[1] = "finstart"
  BY DEF Beginning, Ending
<1>3. b \o e \in Conversation
  <2>1. Conversation = {x \o y : x \in Beginning, y \in Ending}
    BY DEF Beginning, Ending, Conversation
  <2>2. QED
    BY <2>1
<1>4. QED
  BY <1>1, <1>2, <1>3

\* Where a message stands in a conversation, and what may be said next.
LEMMA NextMessage ==
  ASSUME NEW c \in Conversation, NEW n \in Nat, n <= Len(c),
         NEW m \in Message,
         \/ n = 0 /\ m \in {"finstart", "servfin", "servfail"}
         \/ n > 0 /\ c[n] = "finstart" /\ m \in {"servfin", "servfail"}
         \/ n > 0 /\ c[n] = "servfin" /\ m \in {"servfail", "finstop"}
         \/ n > 0 /\ c[n] = "servfail" /\ m = "finfail"
  PROVE  \E d \in Conversation :
           /\ n + 1 <= Len(d) /\ d[n + 1] = m
           /\ \A k \in 1..n : d[k] = c[k]
           /\ m \in Farewell => n + 1 = Len(d)
<1>1. PICK b \in Beginning, e \in Ending : c = b \o e
  BY DEF Conversation, Beginning, Ending
<1> DEFINE Fits(d) == /\ n + 1 <= Len(d) /\ d[n + 1] = m
                      /\ \A k \in 1..n : d[k] = c[k]
                      /\ m \in Farewell => n + 1 = Len(d)
           done == <<"servfin", "finstop">>
           failed == <<"servfail", "finfail">>
           both == <<"servfin", "servfail", "finfail">>
           hello == <<"finstart">>
<1>2. /\ done \in Ending /\ failed \in Ending /\ both \in Ending
      /\ Len(done) = 2 /\ done[1] = "servfin" /\ done[2] = "finstop"
      /\ Len(failed) = 2 /\ failed[1] = "servfail" /\ failed[2] = "finfail"
      /\ Len(both) = 3 /\ both[1] = "servfin" /\ both[2] = "servfail"
      /\ both[3] = "finfail"
      /\ e = done \/ e = failed \/ e = both
  BY DEF Ending
<1>3. /\ hello \in Beginning /\ <<>> \in Beginning
      /\ Len(hello) = 1 /\ Len(<<>>) = 0
  BY DEF Beginning
<1> HIDE DEF done, failed, both, hello
<1>4. CASE n = 0
  <2>1. Fits(<<>> \o done) \/ m # "servfin"
    BY <1>2, <1>3, <1>4, Messages DEF Farewell
  <2>2. Fits(<<>> \o failed) \/ m # "servfail"
    BY <1>2, <1>3, <1>4, Messages DEF Farewell
  <2>3. Fits(hello \o done) \/ m # "finstart"
    BY <1>2, <1>3, <1>4, Messages DEF Farewell
  <2>4. /\ <<>> \o done \in Conversation /\ <<>> \o failed \in Conversation
        /\ hello \o done \in Conversation
    BY <1>2, <1>3, Messages
  <2>5. m \in {"finstart", "servfin", "servfail"}
    BY <1>4
  <2>6. \E d \in Conversation : Fits(d)
    BY <2>1, <2>2, <2>3, <2>4, <2>5, Zenon
  <2>7. QED
    BY <2>6
<1>5. CASE n > 0
  <2> DEFINE p == Len(b)
             w == Len(e)
  <2>1. /\ p \in {0, 1} /\ w \in {2, 3} /\ Len(c) = p + w
        /\ \A k \in 1..w : c[p + k] = e[k]
        /\ p = 1 => c[1] = "finstart"
    BY <1>1, Messages
  <2>2. \A f \in Ending : /\ b \o f \in Conversation /\ Len(b \o f) = p + Len(f)
                          /\ (b \o f)[p + 1] = f[1] /\ (b \o f)[p + 2] = f[2]
                          /\ \A k \in 1..p : (b \o f)[k] = c[k]
    <3>1. ASSUME NEW f \in Ending
          PROVE  /\ b \o f \in Conversation /\ Len(b \o f) = p + Len(f)
                 /\ \A k \in 1..Len(f) : (b \o f)[p + k] = f[k]
                 /\ p \in {0, 1} /\ Len(f) \in {2, 3}
                 /\ p = 1 => (b \o f)[1] = c[1]
      BY <1>1, Messages
    <3>2. ASSUME NEW f \in Ending
          PROVE  (b \o f)[p + 1] = f[1] /\ (b \o f)[p + 2] = f[2]
      BY <3>1
    <3>3. QED
      BY <3>1, <3>2
  <2>3. /\ e = done => w = 2 /\ e[1] = "servfin" /\ e[2] = "finstop"
        /\ e = failed => w = 2 /\ e[1] = "servfail" /\ e[2] = "finfail"
        /\ e = both => /\ w = 3 /\ e[1] = "servfin" /\ e[2] = "servfail"
                       /\ e[3] = "finfail"
    BY <1>2
  <2> HIDE DEF p, w
  <2>4. \/ n = p /\ p = 1
        \/ n = p + 1
        \/ n = p + 2
        \/ n = p + 3 /\ w = 3
    BY <1>5, <2>1
  <2>5. c[p + 1] = e[1] /\ c[p + 2] = e[2] /\ (w = 3 => c[p + 3] = e[3])
    BY <2>1
  <2>6. /\ c[n] = "finstart" => n = p
        /\ c[n] = "servfin" => n = p + 1 /\ e \in {done, both}
        /\ c[n] = "servfail" => n = p + w - 1 /\ e[w] = "finfail"
    BY <1>2, <2>1, <2>3, <2>4, <2>5
  <2> DEFINE bd == b \o done
             bf == b \o failed
             bb == b \o both
  <2>7. /\ bd \in Conversation /\ bf \in Conversation /\ bb \in Conversation
         /\ Len(bd) = p + 2 /\ Len(bf) = p + 2 /\ Len(bb) = p + 3
         /\ bd[p + 1] = "servfin" /\ bd[p + 2] = "finstop"
         /\ bf[p + 1] = "servfail"
         /\ bb[p + 1] = "servfin" /\ bb[p + 2] = "servfail"
         /\ \A k \in 1..p : bd[k] = c[k] /\ bf[k] = c[k] /\ bb[k] = c[k]
    BY <1>2, <2>2
  <2> HIDE DEF bd, bf, bb
  <2>8. CASE c[n] = "finstart"
    <3>1. n = p /\ n + 1 = p + 1 /\ n + 1 <= p + 2
      BY <2>1, <2>6, <2>8
    <3>2. m = "servfin" => Fits(bd)
      BY <2>7, <3>1 DEF Farewell
    <3>3. m = "servfail" => Fits(bf)
      BY <2>7, <3>1 DEF Farewell
    <3>4. m \in {"servfin", "servfail"}
      BY <1>5, <2>8
    <3>5. \E d \in Conversation : Fits(d)
      BY <2>7, <3>2, <3>3, <3>4, Zenon
    <3>6. QED
      BY <3>5
  <2>9. CASE c[n] = "servfin"
    <3>1. n = p + 1 /\ n + 1 = p + 2 /\ n + 1 <= p + 3
      BY <2>1, <2>6, <2>9
    <3>2. \A k \in 1..n : bd[k] = c[k] /\ bb[k] = c[k]
      <4>1. \A k \in 1..n : k = n \/ k \in 1..p
        BY <2>1, <3>1
      <4>2. QED
        BY <2>9, <2>7, <3>1, <4>1
    <3>3. m = "finstop" => Fits(bd)
      BY <2>7, <3>1, <3>2
    <3>4. m = "servfail" => Fits(bb)
      BY <2>7, <3>1, <3>2 DEF Farewell
    <3>5. m \in {"finstop", "servfail"}
      BY <1>5, <2>9
    <3>6. \E d \in Conversation : Fits(d)
      BY <2>7, <3>3, <3>4, <3>5, Zenon
    <3>7. QED
      BY <3>6
  <2>10. CASE c[n] = "servfail"
    <3>1. n = p + w - 1 /\ e[w] = "finfail" /\ m = "finfail"
      BY <1>5, <2>6, <2>10
    <3>2. n + 1 = Len(c) /\ c[n + 1] = "finfail"
      BY <2>1, <3>1
    <3>3. Fits(c)
      BY <3>1, <3>2
    <3>4. QED
      BY <3>3
  <2>11. QED
    BY <1>5, <2>8, <2>9, <2>10
<1>6. QED
  BY <1>4, <1>5

\* At first nothing has been said.
LEMMA InitConversation == Init => InConversation
<1> SUFFICES ASSUME Init, NEW s \in Services
             PROVE  \E c \in Conversation : \E i, n \in Nat :
                      Unread(outbox[s], c, i, n) /\ Spoken(stage[s], c, n)
  BY DEF InConversation
<1>1. <<>> \in Beginning /\ <<"servfin", "finstop">> \in Ending
  BY DEF Beginning, Ending
<1>2. PICK c \in Conversation : Len(c) \in Nat
  BY <1>1, Messages, LenProperties
<1>3. outbox[s] = <<>> /\ stage[s] = "none"
  BY DEF Init, LaunchInit
<1>4. Unread(outbox[s], c, 0, 0) /\ Spoken(stage[s], c, 0)
  BY <1>2, <1>3 DEF Unread, Spoken
<1>5. QED
  BY <1>4

\* At stage st a launcher may say m, and is then at stage next.
MaySay(st, m) ==
  \/ st \in {"begin", "beginStop"} /\ m \in {"finstart", "servfin", "servfail"}
  \/ st \in {"run", "killed"} /\ m \in {"servfin", "servfail"}
  \/ st = "end" /\ m \in {"servfail", "finstop"}
  \/ st = "err" /\ m = "finfail"
SpokenAt(m, next) ==
  \/ m = "finstart" /\ next = "run"
  \/ m = "servfin" /\ next = "end"
  \/ m = "servfail" /\ next = "err"
  \/ m \in Farewell /\ next = "dead"

\* What a launcher's step says, and what it has then said.
LEMMA LaunchSpeaks ==
  ASSUME LauncherTypes, NEW s \in Services, LaunchNext(s)
  PROVE  \/ /\ outbox' = outbox
            /\ \E next \in Stage :
                 /\ stage' = [stage EXCEPT ![s] = next]
                 /\ \A c, n : Spoken(stage[s], c, n) => Spoken(next, c, n)
         \/ \E m \in Message, next \in Stage :
              /\ outbox' = [outbox EXCEPT ![s] = Append(@, m)]
              /\ stage' = [stage EXCEPT ![s] = next]
              /\ MaySay(stage[s], m) /\ SpokenAt(m, next)
<1> USE DEF Stage, Message
<1>1. CASE BeginInterrupted(s) \/ RunInterrupted(s)
  BY <1>1 DEF BeginInterrupted, RunInterrupted, Enter, Spoken
<1>2. CASE LastInterrupted(s)
  <2>1. /\ stage[s] \in Stage /\ outbox' = outbox
        /\ stage' = [stage EXCEPT ![s] = stage[s]]
    BY <1>2 DEF LastInterrupted, LauncherTypes
  <2>2. QED
    BY <2>1
<1>3. CASE BeginExits(s) \/ HangInterrupted(s) \/ RunExits(s) \/ KilledExits(s)
  BY <1>3 DEF BeginExits, HangInterrupted, RunExits, KilledExits, AfterBegin,
              EnterAnnounced, Enter, Write, Announce, MaySay, SpokenAt
<1>4. CASE EndExits(s) \/ ErrExits(s)
  BY <1>4 DEF EndExits, ErrExits, EnterAnnounced, Enter, Write, Announce, Farewell,
              MaySay, SpokenAt
<1>5. QED
  BY <1>1, <1>2, <1>3, <1>4 DEF LaunchNext, SeesInterrupt, CommandExits

\* A launcher's step goes on with the conversation.
LEMMA LaunchConversation ==
  ASSUME LauncherInv, InConversation, NEW s \in Services, LaunchNext(s)
  PROVE  InConversation'
<1> USE DEF LauncherInv, LauncherTypes
<1>1. \A r \in Services \ {s} : outbox'[r] = outbox[r] /\ stage'[r] = stage[r]
  BY LaunchSpeaks
<1>2. PICK c \in Conversation, i \in Nat, n \in Nat :
        Unread(outbox[s], c, i, n) /\ Spoken(stage[s], c, n)
  BY DEF InConversation
<1>3. \E d \in Conversation : \E j, k \in Nat :
        Unread(outbox'[s], d, j, k) /\ Spoken(stage'[s], d, k)
  <2>1. CASE outbox' = outbox /\ \A e, k : Spoken(stage[s], e, k) => Spoken(stage'[s], e, k)
    BY <1>2, <2>1
  <2>2. CASE \E m \in Message, next \in Stage :
               /\ outbox' = [outbox EXCEPT ![s] = Append(@, m)]
               /\ stage' = [stage EXCEPT ![s] = next]
               /\ MaySay(stage[s], m) /\ SpokenAt(m, next)
    <3>1. PICK m \in Message, next \in Stage :
            /\ outbox'[s] = Append(outbox[s], m) /\ stage'[s] = next
            /\ MaySay(stage[s], m) /\ SpokenAt(m, next)
      BY <2>2
    <3>2. n <= Len(c)
      BY <1>2 DEF Unread
    <3>3. \/ n = 0 /\ m \in {"finstart", "servfin", "servfail"}
          \/ n > 0 /\ c[n] = "finstart" /\ m \in {"servfin", "servfail"}
          \/ n > 0 /\ c[n] = "servfin" /\ m \in {"servfail", "finstop"}
          \/ n > 0 /\ c[n] = "servfail" /\ m = "finfail"
      BY <1>2, <3>1 DEF MaySay, Spoken
    <3>4. PICK d \in Conversation : /\ n + 1 <= Len(d) /\ d[n + 1] = m
                                    /\ \A k \in 1..n : d[k] = c[k]
                                    /\ m \in Farewell => n + 1 = Len(d)
      BY <3>2, <3>3, NextMessage
    <3>5. Spoken(stage'[s], d, n + 1)
      BY <3>1, <3>4 DEF Spoken, SpokenAt, Farewell
    <3>6. Unread(outbox'[s], d, i, n + 1)
      <4> DEFINE q == outbox[s]
      <4>1. q \in Seq(Message) /\ i <= n /\ Len(q) = n - i
        BY <1>2 DEF Unread
      <4>2. /\ Len(outbox'[s]) = (n + 1) - i
            /\ outbox'[s][n + 1 - i] = m
            /\ \A k \in 1..n - i : outbox'[s][k] = q[k]
        BY <3>1, <4>1
      <4>3. \A k \in 1..(n + 1) - i : outbox'[s][k] = d[i + k]
        <5>1. ASSUME NEW k \in 1..(n + 1) - i PROVE outbox'[s][k] = d[i + k]
          <6>1. CASE k = n + 1 - i
            <7>1. i + k = n + 1
              BY <6>1
            <7>2. QED
              BY <3>4, <4>2, <6>1, <7>1
          <6>2. CASE k # n + 1 - i
            <7>1. k \in 1..n - i /\ i + k \in 1..n
              BY <4>1, <6>2
            <7>2. q[k] = c[i + k]
              BY <1>2, <4>1, <7>1 DEF Unread
            <7>3. QED
              BY <3>4, <4>2, <7>1, <7>2
          <6>3. QED
            BY <6>1, <6>2
        <5>2. QED
          BY <5>1
      <4>4. QED
        <5>1. i <= n + 1 /\ n + 1 <= Len(d)
          BY <3>4, <4>1
        <5>2. QED
          BY <4>2, <4>3, <5>1 DEF Unread
    <3>7. n + 1 \in Nat
      OBVIOUS
    <3>8. QED
      BY <3>5, <3>6, <3>7
  <2>3. QED
    BY <2>1, <2>2, LaunchSpeaks
<1>4. QED
  BY <1>1, <1>3 DEF InConversation

\* Every step keeps to the conversations: a launcher is forked only when all of
\* the last one has been read.
LEMMA NextConversation ==
  LauncherInv /\ InConversation /\ [Next]_vars => InConversation'
<1> SUFFICES ASSUME LauncherInv, InConversation, [Next]_vars PROVE InConversation'
  OBVIOUS
<1> USE DEF LauncherInv, LauncherTypes
<1>1. CASE UNCHANGED <<stage, outbox>>
  BY <1>1 DEF InConversation
<1>2. ASSUME NEW s \in Services, Update(s) PROVE InConversation'
  <2>1. CASE ReadyToStart(s) /\ RawStart(s)
    <3>1. outbox[s] = <<>>
      BY <2>1 DEF ReadyToStart, NoStrayLauncher, Up
    <3>2. outbox' = outbox /\ stage' = [stage EXCEPT ![s] = "begin"]
      BY <2>1 DEF RawStart, Fork
    <3>3. PICK c \in Conversation : \E i, n \in Nat : Unread(outbox[s], c, i, n)
      BY DEF InConversation
    <3>4. Unread(outbox'[s], c, 0, 0) /\ Spoken(stage'[s], c, 0)
      BY <3>1, <3>2, <3>3 DEF Unread, Spoken
    <3>5. \A r \in Services \ {s} : outbox'[r] = outbox[r] /\ stage'[r] = stage[r]
      BY <3>2
    <3>6. QED
      BY <3>4, <3>5 DEF InConversation
  <2>2. CASE ~(ReadyToStart(s) /\ RawStart(s))
    BY <1>1, <1>2, <2>2 DEF Update, RawStartFails, RawStop, BeginStart, BeginStop,
                            UpdateIsIdle, Interrupt, launchVars
  <2>3. QED
    BY <2>1, <2>2
<1>3. CASE Run
  <2>1. UNCHANGED launchVars \/ \E s \in Services : Update(s)
    BY <1>3 DEF Run, ServiceStep, CommandReturns, TargetNext, TargetEnds,
                StartDepends, StartDepended, StartTriesAfter, StartTriedAfter,
                StartAddedAfter, UpdateSelf, ReturnFromTail, StopNext,
                CascadeEnters, CascadeNext, FinishStartNext, FinishStartFails,
                FinishStartEnds, FinishStopNext, FinishStopEnds
  <2>2. QED
    BY <1>1, <1>2, <2>1 DEF launchVars
<1>4. ASSUME NEW s \in Services, Deliver(s) PROVE InConversation'
  <2>1. /\ outbox[s] # <<>> /\ outbox' = [outbox EXCEPT ![s] = Tail(@)]
        /\ stage' = stage
    BY <1>4 DEF Deliver
  <2>2. PICK c \in Conversation, i \in Nat, n \in Nat :
          Unread(outbox[s], c, i, n) /\ Spoken(stage[s], c, n)
    BY DEF InConversation
  <2> DEFINE q == outbox[s]
  <2>3. /\ q \in Seq(Message) /\ Len(q) \in Nat \ {0} /\ Len(q) = n - i
        /\ outbox'[s] = Tail(q) /\ Len(Tail(q)) = n - (i + 1)
        /\ \A k \in 1..n - (i + 1) : Tail(q)[k] = q[k + 1]
    BY <2>1, <2>2 DEF Unread
  <2>4. \A k \in 1..n - (i + 1) : Tail(q)[k] = c[(i + 1) + k]
    <3>1. ASSUME NEW k \in 1..n - (i + 1) PROVE Tail(q)[k] = c[(i + 1) + k]
      <4>1. k + 1 \in 1..n - i /\ i + (k + 1) = (i + 1) + k
        OBVIOUS
      <4>2. q[k + 1] = c[i + (k + 1)]
        BY <2>2, <2>3, <4>1 DEF Unread
      <4>3. QED
        BY <2>3, <4>1, <4>2
    <3>2. QED
      BY <3>1
  <2>5. Unread(outbox'[s], c, i + 1, n)
    BY <2>2, <2>3, <2>4 DEF Unread
  <2>6. i + 1 \in Nat /\ stage'[s] = stage[s]
    BY <2>1
  <2>7. \A r \in Services \ {s} : outbox'[r] = outbox[r] /\ stage'[r] = stage[r]
    BY <2>1
  <2>8. QED
    BY <2>2, <2>5, <2>6, <2>7 DEF InConversation
<1>5. ASSUME NEW s \in Services, Launch(s) PROVE InConversation'
  BY <1>5, LaunchConversation DEF Launch
<1>6. ASSUME NEW c \in Clients, Request(c) PROVE InConversation'
  BY <1>1, <1>6 DEF Request, StartService, StopService, CascadeStopService, Refuse,
                    SetTarget, launchVars
<1>7. CASE Boot \/ UNCHANGED vars
  BY <1>1, <1>7 DEF Boot, SetTarget, vars, launchVars
<1>8. QED
  BY <1>2, <1>3, <1>4, <1>5, <1>6, <1>7 DEF Next

\* What the daemon has still to read of a launcher is a piece of a conversation
\* its command table is written for (PxLaunch.cpp, main; PxDaemon.cpp,
\* PxDOnCommand), and all the rest of one if the launcher has exited.
THEOREM Conversations == Spec => []WellFormedConversation
<1>1. LauncherInv /\ InConversation => WellFormedConversation
  <2> SUFFICES ASSUME LauncherInv, InConversation, NEW s \in Services, outbox[s] # <<>>
               PROVE  \E c \in Conversation : \E i, j \in DOMAIN c :
                        /\ outbox[s] = SubSeq(c, i, j)
                        /\ stage[s] = "dead" => j = Len(c)
    BY DEF WellFormedConversation
  <2>1. PICK c \in Conversation, i \in Nat, n \in Nat :
          Unread(outbox[s], c, i, n) /\ Spoken(stage[s], c, n)
    BY DEF InConversation
  <2>2. c \in Seq(Message)
    <3>1. PICK b \in Beginning, e \in Ending : c = b \o e
      BY DEF Conversation, Beginning, Ending
    <3>2. QED
      BY <3>1, Messages
  <2>3. outbox[s] \in Seq(Message) /\ Len(outbox[s]) \in Nat \ {0}
    BY DEF LauncherInv, LauncherTypes
  <2>4. i + 1 \in DOMAIN c /\ n \in DOMAIN c /\ i + 1 <= n
    BY <2>1, <2>2, <2>3 DEF Unread
  <2>5. SubSeq(c, i + 1, n) = outbox[s]
    <3>1. /\ SubSeq(c, i + 1, n) \in Seq(Message)
          /\ Len(SubSeq(c, i + 1, n)) = n - i
          /\ \A k \in 1..n - i : SubSeq(c, i + 1, n)[k] = c[i + k]
      BY <2>2, <2>4
    <3>2. QED
      BY <2>1, <2>3, <3>1, SeqEqual DEF Unread
  <2>6. stage[s] = "dead" => n = Len(c)
    BY <2>1 DEF Spoken
  <2>7. QED
    BY <2>4, <2>5, <2>6
<1>2. QED
  BY <1>1, InitLauncher, NextLauncher, InitConversation, NextConversation, PTL DEF Spec

-----------------------------------------------------------------------------
(* The type invariant: among other things, every call in progress is on a  *)
(* service, every edge names services, and every report waiting to be read *)
(* is one of the launcher's.  It is not inductive: that start() finds a    *)
(* service at its place in the Depend and After lines rests on where a     *)
(* call can be, which GoodFrame adds.                                      *)

(* Sequences with an element taken out.                                    *)

\* Without the element at a place it has.
LEMMA RemoveAtIsSeq ==
  ASSUME NEW S, NEW q \in Seq(S), NEW i \in 1..Len(q)
  PROVE  RemoveAt(q, i) \in Seq(S)
<1>1. SubSeq(q, 1, i - 1) \in Seq(S)
  OBVIOUS
<1>2. SubSeq(q, i + 1, Len(q)) \in Seq(S)
  OBVIOUS
<1>3. QED
  BY <1>1, <1>2, ConcatProperties DEF RemoveAt

\* The least of some naturals is one of them.
LEMMA MinIsMember ==
  ASSUME NEW I \in SUBSET Nat, I # {}
  PROVE  Min(I) \in I
<1> DEFINE LessThan == {p \in Nat \X Nat : p[1] < p[2]}
<1>1. OpToRel(<, Nat) = LessThan
  BY Zenon DEF OpToRel
<1>2. IsWellFoundedOn(LessThan, Nat)
  BY <1>1, NatLessThanWellFounded
<1>3. \E n \in I : \A m \in I : <<m, n>> \notin LessThan
  <2> HIDE DEF LessThan
  <2>1. QED
    BY <1>2, WFMin
<1>4. \E n \in I : \A m \in I : n <= m
  <2>1. \A m, n \in Nat : <<m, n>> \notin LessThan => ~(m < n)
    BY Zenon
  <2>2. \A m, n \in Nat : ~(m < n) => n <= m
    OBVIOUS
  <2> HIDE DEF LessThan
  <2>3. QED
    BY <1>3, <2>1, <2>2
<1>5. QED
  BY <1>4 DEF Min

\* Without the first element equal to e (DropEdge).
LEMMA RemoveFirstIsSeq ==
  ASSUME NEW S, NEW q \in Seq(S), NEW e
  PROVE  RemoveFirst(q, e) \in Seq(S)
<1> DEFINE I == {i \in 1..Len(q) : q[i] = e}
<1>1. CASE I = {}
  BY <1>1 DEF RemoveFirst
<1>2. CASE I # {}
  <2>1. Min(I) \in I
    <3>1. I \subseteq Nat
      OBVIOUS
    <3> HIDE DEF I
    <3>2. QED
      BY <1>2, <3>1, MinIsMember
  <2>2. RemoveAt(q, Min(I)) \in Seq(S)
    BY <2>1, RemoveAtIsSeq
  <2>3. RemoveFirst(q, e) = RemoveAt(q, Min(I))
    BY <1>2 DEF RemoveFirst, SelectInSeq
  <2>4. QED
    BY <2>2, <2>3
<1>3. QED
  BY <1>1, <1>2

\* Without the first edge of x (finishStop).
LEMMA RemoveEdgeIsSeq ==
  ASSUME NEW S, NEW q \in Seq(S), NEW x
  PROVE  WithoutEdgeOf(q, x) \in Seq(S)
<1> DEFINE I == {i \in 1..Len(q) : IsEdgeOf(q[i], x)}
<1>1. CASE I = {}
  BY <1>1 DEF WithoutEdgeOf, RemoveFirstMatch
<1>2. CASE I # {}
  <2>1. Min(I) \in I
    <3>1. I \subseteq Nat
      OBVIOUS
    <3> HIDE DEF I
    <3>2. QED
      BY <1>2, <3>1, MinIsMember
  <2>2. RemoveAt(q, Min(I)) \in Seq(S)
    BY <2>1, RemoveAtIsSeq
  <2>3. WithoutEdgeOf(q, x) = RemoveAt(q, Min(I))
    BY <1>2 DEF WithoutEdgeOf, RemoveFirstMatch, SelectInSeq
  <2>4. QED
    BY <2>2, <2>3
<1>3. QED
  BY <1>1, <1>2

-----------------------------------------------------------------------------
(* The invariant.                                                          *)

\* A call is at a place that its lists have.
GoodServiceFrame ==
  {f \in ServiceFrame :
     /\ f.i >= 1
     /\ f.at = "depended" => f.i <= Len(Depend[f.svc])
     /\ f.at \in {"tried", "after"} =>
          f.i \in Len(Depend[f.svc]) + 1 .. Len(Depend[f.svc]) + Len(After[f.svc])}
GoodFrame == GoodServiceFrame \union TargetFrame \union CommandFrame

CallTypes == stack \in Seq(GoodFrame) /\ ret \in Return

DataTypes ==
  /\ status \in [Services -> Status]
  /\ userOverride \in [Services -> Override]
  /\ failLocked \in [Services -> BOOLEAN]
  /\ deps \in [Services -> Seq(Edge)]
  /\ dependedBy \in [Services -> Seq(Edge)]
  /\ subscribed \in [Services -> SUBSET Clients]
  /\ services \subseteq Services
  /\ tgts \in Seq(Targets)
  /\ reached \subseteq Targets
  /\ reachedTarget \in BOOLEAN
  /\ ran \subseteq Targets
  /\ reply \in [Clients -> Reply]
  /\ faults \in 0..MaxFaults
  /\ LaunchTypeOK

TypeInv == DataTypes /\ CallTypes

\* The invariant is the type invariant and more.
LEMMA TypeInvIsTypeOK == TypeInv => TypeOK
<1>1. GoodFrame \subseteq Frame
  BY DEF GoodFrame, GoodServiceFrame, Frame
<1>2. Seq(GoodFrame) \subseteq Seq(Frame)
  BY <1>1
<1>3. QED
  BY <1>2 DEF TypeInv, TypeOK, DataTypes, CallTypes, ServiceTypeOK

\* At first nothing is called, and every list is empty.
LEMMA InitTypes == Init => TypeInv
<1> SUFFICES ASSUME Init PROVE TypeInv
  OBVIOUS
<1>1. LaunchTypeOK
  BY DEF Init, LaunchInit, LaunchTypeOK, Stage
<1>2. /\ tgts \in Seq(Targets) /\ stack \in Seq(GoodFrame)
      /\ <<>> \in Seq(Edge)
  BY DEF Init
<1>3. faults \in 0..MaxFaults
  BY ServiceAssumption DEF Init
<1>4. QED
  BY <1>1, <1>2, <1>3 DEF Init, TypeInv, DataTypes, CallTypes, Status, Override,
                          Reply, Return

-----------------------------------------------------------------------------
(* Calls and returns.                                                      *)

\* Most labels say nothing about the index.
LEMMA PlainFrame ==
  ASSUME NEW f \in ServiceFrame, f.i # 0, f.at \notin {"depended", "tried", "after"}
  PROVE  f \in GoodFrame
<1>1. f.i \in Nat /\ f.i >= 1
  BY DEF ServiceFrame
<1>2. f.at # "depended" /\ f.at \notin {"tried", "after"}
  OBVIOUS
<1>3. QED
  BY <1>1, <1>2 DEF GoodServiceFrame, GoodFrame

\* A fresh call of a member function is in place.
LEMMA CallIsGood ==
  ASSUME NEW s \in Services,
         NEW fn \in {"update", "start", "stop", "finishStart", "finishStop",
                     "cascadeStop"}
  PROVE  Call(fn, s) \in GoodFrame
<1>1. Call(fn, s) \in ServiceFrame
  BY DEF Call, ServiceFrame
<1>2. Call(fn, s).i = 1 /\ Call(fn, s).at = "next"
  BY DEF Call
<1>3. QED
  BY <1>1, <1>2, PlainFrame

\* So is a fresh call of cascadeStop.
LEMMA CascadeCallIsGood ==
  ASSUME NEW s \in Services
  PROVE  CascadeCall(s) \in GoodFrame
<1>1. CascadeCall(s) \in ServiceFrame
  BY DEF CascadeCall, Call, ServiceFrame
<1>2. CascadeCall(s).i = 1 /\ CascadeCall(s).at = "enter"
  BY DEF CascadeCall, Call
<1>3. QED
  BY <1>1, <1>2, PlainFrame

\* The running member function is on a service; it may advance its index, or
\* go to a label that says nothing about it.
LEMMA ServiceTop ==
  ASSUME CallTypes, NEW s, NEW label, stack # <<>>,
         NEW fn \in {"update", "start", "stop", "finishStart", "finishStop",
                     "cascadeStop"},
         Runs(fn, s, label)
  PROVE  /\ Top \in GoodServiceFrame /\ Top.svc = s /\ Top.at = label
         /\ s \in Services /\ Top.i \in Nat \ {0}
         /\ Next1 \in GoodFrame /\ At("tail") \in GoodFrame
         /\ At("next") \in GoodFrame
<1>1. Top \in GoodFrame
  BY DEF CallTypes, Top
<1>2. Top \in GoodServiceFrame
  BY <1>1 DEF Runs, GoodFrame, TargetFrame, CommandFrame
<1>3. /\ Top \in ServiceFrame /\ Top.svc = s /\ Top.at = label
      /\ Top.svc \in Services /\ Top.i \in Nat \ {0}
  BY <1>2 DEF Runs, GoodServiceFrame, ServiceFrame
<1>4. Next1 \in GoodFrame
  <2>1. Next1 \in ServiceFrame
    <3> DEFINE f == [Top EXCEPT !.at = "next"]
    <3>1. f \in ServiceFrame /\ f.i = Top.i
      BY <1>3 DEF ServiceFrame
    <3>2. Next1 = [f EXCEPT !.i = Top.i + 1]
      BY DEF Next1
    <3>3. Top.i + 1 \in Nat
      BY <1>3
    <3> HIDE DEF f
    <3>4. QED
      BY <3>1, <3>2, <3>3 DEF ServiceFrame
  <2>2. Next1.i = Top.i + 1 /\ Next1.at = "next"
    BY <1>3 DEF Next1, ServiceFrame
  <2>3. QED
    BY <1>3, <2>1, <2>2, PlainFrame
<1>5. ASSUME NEW l \in {"tail", "next"} PROVE At(l) \in GoodFrame
  <2>1. At(l) \in ServiceFrame /\ At(l).i = Top.i /\ At(l).at = l
    BY <1>3 DEF At, ServiceFrame
  <2>2. QED
    BY <1>3, <2>1, PlainFrame
<1>6. QED
  BY <1>2, <1>3, <1>4, <1>5

\* A call that goes on leaves every call in place.
LEMMA ContinueTypes ==
  ASSUME CallTypes, stack # <<>>, NEW f \in GoodFrame, Continue(f)
  PROVE  CallTypes'
  BY DEF Continue, CallTypes

\* The same, when it calls another.
LEMMA InvokeTypes ==
  ASSUME CallTypes, stack # <<>>, NEW f \in GoodFrame, NEW g \in GoodFrame,
         Invoke(f, g)
  PROVE  CallTypes'
  BY DEF Invoke, CallTypes

\* The same, when it returns.
LEMMA ReturnTypes ==
  ASSUME CallTypes, stack # <<>>, NEW v \in Return, ReturnWith(v)
  PROVE  CallTypes'
  BY DEF ReturnWith, CallTypes
-----------------------------------------------------------------------------
(* Side effects.                                                           *)

EdgeTypes == /\ deps \in [Services -> Seq(Edge)]
             /\ dependedBy \in [Services -> Seq(Edge)]

\* An edge between services keeps both lists lists of edges.
LEMMA AddEdgeTypes ==
  ASSUME EdgeTypes, NEW s \in Services, NEW d \in Services, NEW o \in BOOLEAN,
         AddEdge(s, d, o)
  PROVE  EdgeTypes'
<1>1. /\ [name |-> s, optional |-> o] \in Edge
      /\ [name |-> d, optional |-> o] \in Edge
  BY DEF Edge
<1>2. \A q \in Seq(Edge), e \in Edge : Append(q, e) \in Seq(Edge)
  OBVIOUS
<1>3. QED
  BY <1>1, <1>2 DEF AddEdge, EdgeTypes

\* So does taking one away.
LEMMA DropEdgeTypes ==
  ASSUME EdgeTypes, NEW s, NEW d, NEW o, DropEdge(s, d, o)
  PROVE  EdgeTypes'
<1>1. \A q \in Seq(Edge) : \A e : RemoveFirst(q, e) \in Seq(Edge)
  BY RemoveFirstIsSeq
<1>2. QED
  BY <1>1 DEF DropEdge, EdgeTypes

\* dispatchState tells clients something a client may be told.
LEMMA DispatchTypes ==
  ASSUME DataTypes, NEW s \in Services, NEW news \in Reply, Dispatch(s, news)
  PROVE  /\ reply' \in [Clients -> Reply]
         /\ subscribed' \in [Services -> SUBSET Clients]
  BY DEF DataTypes, Dispatch

\* What is set is a target.
LEMMA CheckReachTypes ==
  ASSUME DataTypes, CheckReach
  PROVE  /\ reached' \subseteq Targets /\ reachedTarget' \in BOOLEAN
         /\ ran' \subseteq Targets /\ tgts' \in Seq(Targets)
<1>1. {tgts[i] : i \in DOMAIN tgts} \subseteq Targets
  BY DEF DataTypes
<1>2. /\ reached' \subseteq Targets /\ tgts' \in Seq(Targets)
      /\ ran' \subseteq Targets
  BY <1>1 DEF CheckReach, DataTypes
<1>3. reachedTarget' \in BOOLEAN
  BY Zenon DEF CheckReach, DataTypes
<1>4. QED
  BY <1>2, <1>3

-----------------------------------------------------------------------------
(* The member functions of Service.                                        *)

\* Steps that touch the calls in progress only.
LEMMA DataUnchanged ==
  ASSUME TypeInv, CallTypes',
         UNCHANGED <<serviceVars, edgeVars, clientVars, targetVars, services,
                     faults, launchVars>>
  PROVE  TypeInv'
  BY DEF TypeInv, DataTypes, serviceVars, edgeVars, clientVars, targetVars,
         launchVars, LaunchTypeOK

\* update(): each of its outcomes.
LEMMA UpdateTypes ==
  ASSUME TypeInv, NEW s \in Services, Update(s)
  PROVE  TypeInv'
<1> USE DEF TypeInv
<1>1. stack # <<>> /\ Runs("update", s, "next")
  BY DEF Update, Runs
<1>2. {"acted", "err", "idle"} \subseteq Return
  BY DEF Return
<1>3. CASE RawStart(s)
  <2>1. CallTypes'
    BY <1>1, <1>2, <1>3, ReturnTypes DEF RawStart
  <2>2. DataTypes'
    BY <1>3 DEF RawStart, SetStatus, Fork, DataTypes, LaunchTypeOK, Status, Stage,
                edgeVars, clientVars, targetVars
  <2>3. QED
    BY <2>1, <2>2
<1>4. CASE RawStartFails(s)
  <2>1. CallTypes'
    BY <1>1, <1>2, <1>4, ReturnTypes DEF RawStartFails
  <2>2. faults' \in 0..MaxFaults
    BY <1>4, ServiceAssumption DEF RawStartFails, DataTypes
  <2>3. DataTypes'
    BY <1>4, <2>2 DEF RawStartFails, SetStatus, DataTypes, LaunchTypeOK, Status,
                      edgeVars, clientVars, targetVars, launchVars
  <2>4. QED
    BY <2>1, <2>3
<1>5. CASE RawStop(s)
  <2>1. CallTypes'
    BY <1>1, <1>2, <1>5, ReturnTypes DEF RawStop
  <2>2. status' \in [Services -> Status]
    BY <1>5 DEF RawStop, SetStatus, DataTypes, Status
  <2>3. LaunchTypeOK'
    <3>1. Alive(s) \in BOOLEAN
      BY Zenon DEF Alive
    <3>2. QED
      BY <1>5, <3>1 DEF RawStop, Interrupt, DataTypes, LaunchTypeOK
  <2>4. QED
    BY <1>5, <2>1, <2>2, <2>3 DEF RawStop, DataTypes, edgeVars, clientVars,
                                  targetVars
<1>6. CASE BeginStart(s)
  <2>1. Call("start", s) \in GoodFrame
    BY CallIsGood
  <2>2. CallTypes'
    BY <1>1, <1>6, <2>1, ContinueTypes DEF BeginStart
  <2>3. deps' \in [Services -> Seq(Edge)]
    <3>1. <<>> \in Seq(Edge)
      OBVIOUS
    <3>2. QED
      BY <1>6, <3>1 DEF BeginStart, DataTypes
  <2>4. DataTypes'
    BY <1>6, <2>3 DEF BeginStart, SetStatus, DataTypes, LaunchTypeOK, Status,
                      clientVars, targetVars, launchVars
  <2>5. QED
    BY <2>2, <2>4
<1>7. CASE BeginStop(s)
  <2>1. Call("stop", s) \in GoodFrame
    BY CallIsGood
  <2>2. CallTypes'
    BY <1>1, <1>7, <2>1, ContinueTypes DEF BeginStop
  <2>3. DataTypes'
    BY <1>7 DEF BeginStop, SetStatus, DataTypes, LaunchTypeOK, Status, edgeVars,
                clientVars, targetVars, launchVars
  <2>4. QED
    BY <2>2, <2>3
<1>8. CASE UpdateIsIdle(s)
  <2>1. CallTypes'
    BY <1>1, <1>2, <1>8, ReturnTypes DEF UpdateIsIdle
  <2>2. QED
    BY <1>8, <2>1, DataUnchanged DEF UpdateIsIdle
<1>9. QED
  BY <1>3, <1>4, <1>5, <1>6, <1>7, <1>8 DEF Update
\* Where start() is, there is a service: on the Depend line of the index, or on
\* the After line.
LEMMA LinesAreServices ==
  ASSUME TypeInv, NEW s \in Services, Top \in GoodServiceFrame, Top.svc = s
  PROVE  /\ (Top.at = "depended" \/ AtDepend(s)) =>
              DependAt(s).name \in Services /\ DependAt(s).optional \in BOOLEAN
         /\ (Top.at \in {"tried", "after"} \/ AtAfter(s)) => AfterAt(s) \in Services
<1>1. /\ Depend[s] \in Seq(Edge) /\ After[s] \in Seq(Services)
      /\ Len(Depend[s]) \in Nat /\ Len(After[s]) \in Nat
  BY ServiceAssumption
<1>2. /\ Top.i \in Nat /\ Top.i >= 1
      /\ Top.at = "depended" => Top.i <= Len(Depend[s])
      /\ Top.at \in {"tried", "after"} =>
           Top.i \in Len(Depend[s]) + 1 .. Len(Depend[s]) + Len(After[s])
  BY DEF GoodServiceFrame, ServiceFrame
<1>3. ASSUME Top.at = "depended" \/ AtDepend(s)
      PROVE  DependAt(s).name \in Services /\ DependAt(s).optional \in BOOLEAN
  <2>1. Top.i \in 1..Len(Depend[s])
    BY <1>1, <1>2, <1>3 DEF AtDepend
  <2>2. Depend[s][Top.i] \in Edge
    BY <1>1, <2>1
  <2>3. QED
    BY <2>2 DEF DependAt, Edge
<1>4. ASSUME Top.at \in {"tried", "after"} \/ AtAfter(s)
      PROVE  AfterAt(s) \in Services
  <2>1. Top.i \in Len(Depend[s]) + 1 .. Len(Depend[s]) + Len(After[s])
    BY <1>2, <1>4 DEF AtAfter
  <2>2. Top.i - Len(Depend[s]) \in 1..Len(After[s])
    <3>1. \A i, m, n \in Nat : i \in m + 1 .. m + n => i - m \in 1..n
      OBVIOUS
    <3>2. QED
      BY <1>1, <1>2, <2>1, <3>1, Zenon
  <2>3. After[s][Top.i - Len(Depend[s])] \in Services
    BY <1>1, <2>2
  <2>4. QED
    BY <2>3 DEF AfterAt
<1>5. QED
  BY <1>3, <1>4

\* The labels that stand for a line are entered at one.
LEMMA LineFrames ==
  ASSUME NEW s \in Services, Top \in GoodServiceFrame, Top.svc = s
  PROVE  /\ AtDepend(s) => At("depended") \in GoodFrame
         /\ AtAfter(s) => At("tried") \in GoodFrame
         /\ Top.at = "tried" => At("after") \in GoodFrame
<1>1. \A l \in {"depended", "tried", "after"} :
        At(l) \in ServiceFrame /\ At(l).at = l /\ At(l).i = Top.i /\ At(l).svc = s
  BY DEF At, GoodServiceFrame, ServiceFrame
<1>2. Top.i >= 1
  BY DEF GoodServiceFrame
<1>3. Top.at = "tried" => AtAfter(s)
  BY DEF GoodServiceFrame, AtAfter
<1>4. AtDepend(s) => At("depended") \in GoodFrame
  BY <1>1, <1>2 DEF AtDepend, GoodServiceFrame, GoodFrame
<1>5. ASSUME NEW l \in {"tried", "after"}, AtAfter(s) PROVE At(l) \in GoodFrame
  BY <1>1, <1>2, <1>5 DEF AtAfter, GoodServiceFrame, GoodFrame
<1>6. QED
  BY <1>3, <1>4, <1>5

\* start() walks its lines.
LEMMA StartTypes ==
  ASSUME TypeInv, NEW s \in Services,
         \/ StartDepends(s) \/ StartDepended(s)
         \/ StartTriesAfter(s) \/ StartTriedAfter(s) \/ StartAddedAfter(s)
  PROVE  TypeInv'
<1> USE DEF TypeInv
<1>1. /\ stack # <<>> /\ Top \in GoodServiceFrame /\ Top.svc = s
      /\ Next1 \in GoodFrame
  BY ServiceTop DEF StartDepends, StartDepended, StartTriesAfter, StartTriedAfter,
                    StartAddedAfter, Runs
<1>2. "err" \in Return /\ EdgeTypes /\ TRUE \in BOOLEAN
  BY DEF Return, EdgeTypes, DataTypes
<1>3. ASSUME CallTypes', EdgeTypes', services' \subseteq Services,
             UNCHANGED <<serviceVars, clientVars, targetVars, faults, launchVars>>
      PROVE  TypeInv'
  BY <1>3 DEF DataTypes, EdgeTypes, serviceVars, clientVars, targetVars, launchVars,
              LaunchTypeOK
<1>4. UNCHANGED edgeVars => EdgeTypes'
  BY <1>2 DEF EdgeTypes, edgeVars
<1>5. services \subseteq Services
  BY DEF DataTypes
<1>6. CASE StartDepends(s)
  <2> DEFINE d == DependAt(s)
  <2>1. AtDepend(s) /\ services' = services \union {d.name}
    BY <1>6 DEF StartDepends, Load
  <2>2. d.name \in Services /\ d.optional \in BOOLEAN
    BY <1>1, <2>1, LinesAreServices
  <2>3. At("depended") \in GoodFrame /\ Call("update", d.name) \in GoodFrame
    BY <1>1, <2>1, <2>2, LineFrames, CallIsGood
  <2> HIDE DEF d
  <2>4. CASE AddEdge(s, d.name, d.optional)
             /\ Invoke(At("depended"), Call("update", d.name))
    <3>1. CallTypes'
      BY <1>1, <2>3, <2>4, InvokeTypes
    <3>2. EdgeTypes'
      BY <1>2, <2>2, <2>4, AddEdgeTypes
    <3>3. QED
      BY <1>3, <1>5, <1>6, <2>1, <2>2, <3>1, <3>2 DEF StartDepends
  <2>5. CASE Continue(Next1) /\ UNCHANGED edgeVars
    <3>1. CallTypes'
      BY <1>1, <2>5, ContinueTypes
    <3>2. QED
      BY <1>3, <1>4, <1>5, <1>6, <2>1, <2>2, <2>5, <3>1 DEF StartDepends
  <2>6. CASE ReturnWith("err") /\ UNCHANGED edgeVars
    <3>1. CallTypes'
      BY <1>1, <1>2, <2>6, ReturnTypes
    <3>2. QED
      BY <1>3, <1>4, <1>5, <1>6, <2>1, <2>2, <2>6, <3>1 DEF StartDepends
  <2>7. QED
    BY <1>6, <2>4, <2>5, <2>6 DEF StartDepends, d
<1>7. CASE StartDepended(s)
  <2>1. CASE Continue(Next1) /\ UNCHANGED edgeVars
    <3>1. CallTypes'
      BY <1>1, <2>1, ContinueTypes
    <3>2. QED
      BY <1>3, <1>4, <1>5, <1>7, <2>1, <3>1 DEF StartDepended
  <2>2. CASE DropEdge(s, DependAt(s).name, TRUE) /\ Continue(Next1)
    <3>1. CallTypes'
      BY <1>1, <2>2, ContinueTypes
    <3>2. EdgeTypes'
      BY <1>2, <2>2, DropEdgeTypes
    <3>3. QED
      BY <1>3, <1>5, <1>7, <3>1, <3>2 DEF StartDepended
  <2>3. CASE ReturnWith("err") /\ UNCHANGED edgeVars
    <3>1. CallTypes'
      BY <1>1, <1>2, <2>3, ReturnTypes
    <3>2. QED
      BY <1>3, <1>4, <1>5, <1>7, <2>3, <3>1 DEF StartDepended
  <2>4. QED
    BY <1>7, <2>1, <2>2, <2>3 DEF StartDepended
<1>8. CASE StartTriesAfter(s)
  <2>1. AtAfter(s) /\ services' = services \union {AfterAt(s)}
    BY <1>8 DEF StartTriesAfter, Load
  <2>2. AfterAt(s) \in Services
    BY <1>1, <2>1, LinesAreServices
  <2>3. At("tried") \in GoodFrame /\ Call("update", AfterAt(s)) \in GoodFrame
    BY <1>1, <2>1, <2>2, LineFrames, CallIsGood
  <2>4. CASE Invoke(At("tried"), Call("update", AfterAt(s)))
    <3>1. CallTypes'
      BY <1>1, <2>3, <2>4, InvokeTypes
    <3>2. QED
      BY <1>3, <1>4, <1>5, <1>8, <2>1, <2>2, <3>1 DEF StartTriesAfter
  <2>5. CASE Continue(Next1)
    <3>1. CallTypes'
      BY <1>1, <2>5, ContinueTypes
    <3>2. QED
      BY <1>3, <1>4, <1>5, <1>8, <2>1, <2>2, <3>1 DEF StartTriesAfter
  <2>6. QED
    BY <1>8, <2>4, <2>5 DEF StartTriesAfter
<1>9. CASE StartTriedAfter(s)
  <2>1. Top.at = "tried"
    BY <1>9 DEF StartTriedAfter, Runs
  <2>2. AfterAt(s) \in Services
    BY <1>1, <2>1, LinesAreServices
  <2>3. At("after") \in GoodFrame /\ Call("update", AfterAt(s)) \in GoodFrame
    BY <1>1, <2>1, <2>2, LineFrames, CallIsGood
  <2>4. CASE AddEdge(s, AfterAt(s), TRUE)
             /\ Invoke(At("after"), Call("update", AfterAt(s)))
    <3>1. CallTypes'
      BY <1>1, <2>3, <2>4, InvokeTypes
    <3>2. EdgeTypes'
      BY <1>2, <2>2, <2>4, AddEdgeTypes
    <3>3. QED
      BY <1>3, <1>5, <1>9, <3>1, <3>2 DEF StartTriedAfter
  <2>5. CASE Continue(Next1) /\ UNCHANGED edgeVars
    <3>1. CallTypes'
      BY <1>1, <2>5, ContinueTypes
    <3>2. QED
      BY <1>3, <1>4, <1>5, <1>9, <2>5, <3>1 DEF StartTriedAfter
  <2>6. QED
    BY <1>9, <2>4, <2>5 DEF StartTriedAfter
<1>10. CASE StartAddedAfter(s)
  <2>1. CallTypes'
    BY <1>1, <1>10, ContinueTypes DEF StartAddedAfter
  <2>2. EdgeTypes'
    BY <1>2, <1>4, <1>10, DropEdgeTypes DEF StartAddedAfter
  <2>3. QED
    BY <1>3, <1>5, <1>10, <2>1, <2>2 DEF StartAddedAfter
<1>11. QED
  BY <1>6, <1>7, <1>8, <1>9, <1>10
\* What start(), stop() and cascadeStop() end with.
LEMMA TailTypes ==
  ASSUME TypeInv, NEW s \in Services, UpdateSelf(s) \/ ReturnFromTail(s)
  PROVE  TypeInv'
<1> USE DEF TypeInv
<1>1. stack # <<>> /\ At("tail") \in GoodFrame
  BY ServiceTop DEF UpdateSelf, ReturnFromTail, Runs
<1>2. CASE UpdateSelf(s)
  <2>1. Call("update", s) \in GoodFrame
    BY CallIsGood
  <2>2. CallTypes'
    BY <1>1, <1>2, <2>1, InvokeTypes DEF UpdateSelf
  <2>3. QED
    BY <1>2, <2>2, DataUnchanged DEF UpdateSelf
<1>3. CASE ReturnFromTail(s)
  <2>1. {"err", "acted"} \subseteq Return
    BY DEF Return
  <2>2. CallTypes'
    BY <1>1, <1>3, <2>1, ReturnTypes DEF ReturnFromTail
  <2>3. QED
    BY <1>3, <2>2, DataUnchanged DEF ReturnFromTail
<1>4. QED
  BY <1>2, <1>3

\* A dependent is a service.
LEMMA DependentIsService ==
  ASSUME TypeInv, NEW s \in Services, Top.i \in Nat \ {0}, MoreDependents(s)
  PROVE  DependentAt(s).name \in Services
<1>1. dependedBy[s] \in Seq(Edge)
  BY DEF TypeInv, DataTypes
<1>2. Top.i \in 1..Len(dependedBy[s])
  BY <1>1 DEF MoreDependents
<1>3. dependedBy[s][Top.i] \in Edge
  BY <1>1, <1>2
<1>4. QED
  BY <1>3 DEF DependentAt, Edge

\* stop(), cascadeStop() and finishStart() walk the dependents.
LEMMA WalkTypes ==
  ASSUME TypeInv, NEW s \in Services,
         StopNext(s) \/ CascadeNext(s) \/ FinishStartNext(s)
  PROVE  TypeInv'
<1> USE DEF TypeInv
<1>1. /\ stack # <<>> /\ Next1 \in GoodFrame /\ Top.i \in Nat \ {0}
      /\ MoreDependents(s)
  BY ServiceTop DEF StopNext, CascadeNext, FinishStartNext, Runs
<1>2. DependentAt(s).name \in Services
  BY <1>1, DependentIsService
<1>3. /\ Call("update", DependentAt(s).name) \in GoodFrame
      /\ CascadeCall(DependentAt(s).name) \in GoodFrame
  BY <1>2, CallIsGood, CascadeCallIsGood
<1>4. CallTypes'
  <2>1. CASE Invoke(Next1, Call("update", DependentAt(s).name))
    BY <1>1, <1>3, <2>1, InvokeTypes
  <2>2. CASE Invoke(Next1, CascadeCall(DependentAt(s).name))
    BY <1>1, <1>3, <2>2, InvokeTypes
  <2>3. CASE Continue(Next1)
    BY <1>1, <2>3, ContinueTypes
  <2>4. QED
    BY <2>1, <2>2, <2>3 DEF StopNext, CascadeNext, FinishStartNext
<1>5. QED
  BY <1>4, DataUnchanged DEF StopNext, CascadeNext, FinishStartNext

\* The first lines of cascadeStop().
LEMMA CascadeEntersTypes ==
  ASSUME TypeInv, NEW s \in Services, CascadeEnters(s)
  PROVE  TypeInv'
<1> USE DEF TypeInv
<1>1. stack # <<>> /\ At("next") \in GoodFrame
  BY ServiceTop DEF CascadeEnters, Runs
<1>2. "idle" \in Return
  BY DEF Return
<1>3. CallTypes'
  BY <1>1, <1>2, ContinueTypes, ReturnTypes DEF CascadeEnters
<1>4. DataTypes'
  BY DEF CascadeEnters, DataTypes, LaunchTypeOK, Override, edgeVars, clientVars,
         targetVars, launchVars
<1>5. QED
  BY <1>3, <1>4

\* finishStart() returns.
LEMMA FinishStartTypes ==
  ASSUME TypeInv, NEW s \in Services, FinishStartFails(s) \/ FinishStartEnds(s)
  PROVE  TypeInv'
<1> USE DEF TypeInv
<1>1. stack # <<>> /\ {"err", "idle"} \subseteq Return
  BY DEF FinishStartFails, FinishStartEnds, Runs, Return
<1>2. CASE FinishStartFails(s)
  <2>1. CallTypes'
    BY <1>1, <1>2, ReturnTypes DEF FinishStartFails
  <2>2. QED
    BY <1>2, <2>1, DataUnchanged DEF FinishStartFails
<1>3. CASE FinishStartEnds(s)
  <2>1. CallTypes'
    BY <1>1, <1>3, ReturnTypes DEF FinishStartEnds
  <2>2. "started" \in Reply
    BY DEF Reply
  <2>3. /\ reply' \in [Clients -> Reply]
        /\ subscribed' \in [Services -> SUBSET Clients]
    BY <1>3, <2>2, DispatchTypes DEF FinishStartEnds
  <2>4. /\ reached' \subseteq Targets /\ reachedTarget' \in BOOLEAN
        /\ ran' \subseteq Targets /\ tgts' \in Seq(Targets)
    BY <1>3, CheckReachTypes DEF FinishStartEnds
  <2>5. DataTypes'
    BY <1>3, <2>3, <2>4 DEF FinishStartEnds, DataTypes, LaunchTypeOK, serviceVars,
                            edgeVars, launchVars
  <2>6. QED
    BY <2>1, <2>5
<1>4. QED
  BY <1>2, <1>3

\* finishStop() gives every dependency back, then forgets them.
LEMMA FinishStopTypes ==
  ASSUME TypeInv, NEW s \in Services, FinishStopNext(s) \/ FinishStopEnds(s)
  PROVE  TypeInv'
<1> USE DEF TypeInv
<1>1. /\ stack # <<>> /\ Next1 \in GoodFrame /\ Top.i \in Nat \ {0}
      /\ "idle" \in Return
  BY ServiceTop DEF FinishStopNext, FinishStopEnds, Runs, Return
<1>2. CASE FinishStopNext(s)
  <2> DEFINE d == deps[s][Top.i].name
  <2>1. d \in Services
    <3>1. deps[s] \in Seq(Edge) /\ Top.i \in 1..Len(deps[s])
      BY <1>1, <1>2 DEF FinishStopNext, DataTypes
    <3>2. deps[s][Top.i] \in Edge
      BY <3>1
    <3>3. QED
      BY <3>2 DEF Edge
  <2>2. Invoke(Next1, Call("update", d))
    BY <1>2 DEF FinishStopNext
  <2>3. dependedBy' = [dependedBy EXCEPT ![d] = WithoutEdgeOf(@, s)]
    BY <1>2 DEF FinishStopNext
  <2> HIDE DEF d
  <2>4. CallTypes'
    <3>1. Call("update", d) \in GoodFrame
      BY <2>1, CallIsGood
    <3>2. QED
      BY <1>1, <2>2, <3>1, InvokeTypes
  <2>5. dependedBy' \in [Services -> Seq(Edge)]
    <3>1. dependedBy[d] \in Seq(Edge)
      BY <2>1 DEF DataTypes
    <3>2. WithoutEdgeOf(dependedBy[d], s) \in Seq(Edge)
      BY <3>1, RemoveEdgeIsSeq
    <3>3. QED
      BY <2>3, <3>2 DEF DataTypes
  <2>6. DataTypes'
    BY <1>2, <2>5 DEF FinishStopNext, DataTypes, LaunchTypeOK, serviceVars,
                      clientVars, targetVars, launchVars
  <2>7. QED
    BY <2>4, <2>6
<1>3. CASE FinishStopEnds(s)
  <2>1. CallTypes'
    BY <1>1, <1>3, ReturnTypes DEF FinishStopEnds
  <2>2. deps' \in [Services -> Seq(Edge)]
    <3>1. <<>> \in Seq(Edge)
      OBVIOUS
    <3>2. QED
      BY <1>3, <3>1 DEF FinishStopEnds, DataTypes
  <2>3. /\ reached' \subseteq Targets /\ reachedTarget' \in BOOLEAN
        /\ ran' \subseteq Targets /\ tgts' \in Seq(Targets)
    BY <1>3, CheckReachTypes DEF FinishStopEnds
  <2>4. DataTypes'
    BY <1>3, <2>2, <2>3 DEF FinishStopEnds, DataTypes, LaunchTypeOK, serviceVars,
                            clientVars, launchVars
  <2>5. QED
    BY <2>1, <2>4
<1>4. QED
  BY <1>2, <1>3
\* Every step of a member function of Service.
LEMMA ServiceStepTypes == TypeInv /\ ServiceStep => TypeInv'
  BY UpdateTypes, StartTypes, TailTypes, WalkTypes, CascadeEntersTypes,
     FinishStartTypes, FinishStopTypes DEF ServiceStep

-----------------------------------------------------------------------------
(* Requests, targets and reports.                                          *)

\* A request or a report starts a fresh call.
LEMMA ServeTypes ==
  ASSUME CallTypes, NEW f \in GoodFrame, Serve(<<f>>)
  PROVE  CallTypes'
  BY DEF Serve, CallTypes, Return

\* start, stop and cascade-stop.
LEMMA ClientTypes ==
  ASSUME TypeInv, NEW s \in Services, NEW c \in Clients,
         StartService(s, c) \/ StopService(s, c) \/ CascadeStopService(s, c)
  PROVE  TypeInv'
<1> USE DEF TypeInv
<1>1. CallTypes'
  <2>1. CASE Serve(<<Call("update", s), Command(c)>>)
    <3>1. Call("update", s) \in GoodFrame
      BY CallIsGood
    <3>2. Command(c) \in GoodFrame
      BY DEF Command, CommandFrame, GoodFrame
    <3>3. <<Call("update", s), Command(c)>> \in Seq(GoodFrame)
      BY <3>1, <3>2
    <3>4. QED
      BY <2>1, <3>3 DEF Serve, CallTypes, Return
  <2>2. CASE Serve(<<CascadeCall(s)>>)
    BY <2>2, CascadeCallIsGood, ServeTypes
  <2>3. CASE UNCHANGED callVars
    BY <2>3 DEF CallTypes, callVars
  <2>4. QED
    BY <2>1, <2>2, <2>3 DEF StartService, StopService, CascadeStopService, Refuse,
                            callVars
<1>2. /\ status' \in [Services -> Status]
      /\ userOverride' \in [Services -> Override]
      /\ failLocked' \in [Services -> BOOLEAN]
  <2>1. \/ UNCHANGED status \/ Forgive(s)
    BY DEF StartService, StopService, CascadeStopService, Refuse, serviceVars
  <2>2. UNCHANGED userOverride \/ \E o \in Override : Want(s, o)
    BY DEF StartService, StopService, CascadeStopService, Refuse, serviceVars, Override
  <2>3. UNCHANGED failLocked \/ Unlock(s)
    BY DEF StartService, StopService, CascadeStopService, Refuse, serviceVars
  <2>4. QED
    BY <2>1, <2>2, <2>3 DEF DataTypes, Forgive, Want, Unlock, Status
<1>3. /\ reply' \in [Clients -> Reply]
      /\ subscribed' \in [Services -> SUBSET Clients]
  <2>1. \E r \in Reply : reply' = [reply EXCEPT ![c] = r]
    BY DEF StartService, StopService, CascadeStopService, Refuse, Subscribe, Reply
  <2>2. \/ UNCHANGED subscribed
        \/ subscribed' = [subscribed EXCEPT ![s] = @ \union {c}]
    BY DEF StartService, StopService, CascadeStopService, Refuse, Subscribe
  <2>3. subscribed[s] \union {c} \in SUBSET Clients
    BY DEF DataTypes
  <2>4. reply' \in [Clients -> Reply]
    BY <2>1 DEF DataTypes
  <2>5. subscribed' \in [Services -> SUBSET Clients]
    BY <2>2, <2>3 DEF DataTypes
  <2>6. QED
    BY <2>4, <2>5
<1>4. services' \subseteq Services
  BY DEF StartService, StopService, CascadeStopService, Refuse, Load, DataTypes
<1>5. UNCHANGED <<edgeVars, targetVars, faults, launchVars>>
  BY DEF StartService, StopService, CascadeStopService, Refuse
<1>6. DataTypes'
  BY <1>2, <1>3, <1>4, <1>5 DEF DataTypes, LaunchTypeOK, edgeVars, targetVars,
                                launchVars
<1>7. QED
  BY <1>1, <1>6

\* A client's command is over.
LEMMA CommandReturnsTypes ==
  ASSUME TypeInv, CommandReturns
  PROVE  TypeInv'
<1> USE DEF TypeInv
<1>1. "idle" \in Return /\ "error" \in Reply
  BY DEF Return, Reply
<1>2. CallTypes'
  BY <1>1, ReturnTypes DEF CommandReturns
<1>3. reply' \in [Clients -> Reply]
  <2>1. reply' = reply \/ reply' = [reply EXCEPT ![Top.client] = "error"]
    BY DEF CommandReturns, DataTypes
  <2>2. QED
    BY <1>1, <2>1 DEF DataTypes
<1>4. DataTypes'
  BY <1>3 DEF CommandReturns, DataTypes, LaunchTypeOK, serviceVars, edgeVars,
              targetVars, launchVars
<1>5. QED
  BY <1>2, <1>4

\* A target mentions services only.
LEMMA TargetsMentionServices ==
  ASSUME NEW q \in Seq(Targets), NEW loaded \in SUBSET Services
  PROVE  ListAll(q, loaded) \subseteq Services
<1>1. \A t \in Targets : List(t, loaded) \subseteq Services
  BY TargetAssumption DEF List, Mentioned
<1>2. \A i \in DOMAIN q : q[i] \in Targets
  OBVIOUS
<1>3. QED
  BY <1>1, <1>2 DEF ListAll

\* setTarget, with or without its failure.
LEMMA SetTargetTypes ==
  ASSUME TypeInv, NEW t \in Targets, SetTarget(t), reply' \in [Clients -> Reply]
  PROVE  TypeInv'
<1> USE DEF TypeInv
<1>1. AddTarget(tgts, t) \in Seq(Targets)
  BY DEF AddTarget, DataTypes
<1>2. UNCHANGED <<serviceVars, edgeVars, subscribed, launchVars>>
  BY DEF SetTarget
<1>3. CASE EnterTarget(t)
  <2> DEFINE all == ListAll(AddTarget(tgts, t), services)
  <2>1. all \subseteq Services
    BY <1>1, TargetsMentionServices DEF DataTypes
  <2>2. /\ Serve(<<[fn |-> "setTarget", todo |-> all \intersect Known]>>)
        /\ services' = services \union all
        /\ tgts' = AddTarget(tgts, t)
        /\ reachedTarget' = FALSE /\ faults' = faults
    BY <1>3 DEF EnterTarget
  <2>3. reached' \subseteq Targets /\ ran' \subseteq Targets
    BY <1>3 DEF EnterTarget, DataTypes
  <2> HIDE DEF all
  <2>4. CallTypes'
    <3>1. [fn |-> "setTarget", todo |-> all \intersect Known] \in GoodFrame
      BY <2>1 DEF TargetFrame, GoodFrame
    <3>2. QED
      BY <2>2, <3>1 DEF Serve, CallTypes, Return
  <2>5. DataTypes'
    BY <1>1, <1>2, <2>1, <2>2, <2>3 DEF DataTypes, LaunchTypeOK, serviceVars,
                                        edgeVars, launchVars
  <2>6. QED
    BY <2>4, <2>5
<1>4. CASE EnterTargetFails(t)
  <2>1. faults' \in 0..MaxFaults
    BY <1>4, ServiceAssumption DEF EnterTargetFails, DataTypes
  <2>2. /\ reached' \subseteq Targets /\ ran' \subseteq Targets
        /\ tgts' = AddTarget(tgts, t)
        /\ UNCHANGED <<reachedTarget, services, callVars>>
    BY <1>4 DEF EnterTargetFails, DataTypes
  <2>3. CallTypes'
    BY <2>2 DEF CallTypes, callVars
  <2>4. DataTypes'
    BY <1>1, <1>2, <2>1, <2>2 DEF DataTypes, LaunchTypeOK, serviceVars, edgeVars,
                                  launchVars
  <2>5. QED
    BY <2>3, <2>4
<1>5. CASE UNCHANGED <<targetVars, callVars, services, faults>>
  BY <1>2, <1>5 DEF DataTypes, CallTypes, LaunchTypeOK, serviceVars, edgeVars,
                    targetVars, callVars, launchVars
<1>6. QED
  BY <1>3, <1>4, <1>5 DEF SetTarget

\* setTarget updates one service after another, and then looks whether the
\* targets are reached.
LEMMA TargetStepTypes ==
  ASSUME TypeInv, TargetNext \/ TargetEnds
  PROVE  TypeInv'
<1> USE DEF TypeInv
<1>1. stack # <<>> /\ Top \in GoodFrame /\ Top.fn = "setTarget"
  BY DEF TargetNext, TargetEnds, CallTypes, Top
<1>2. Top \in TargetFrame
  <2>1. \A f \in GoodServiceFrame \union CommandFrame : f.fn # "setTarget"
    BY DEF GoodServiceFrame, ServiceFrame, CommandFrame
  <2>2. QED
    BY <1>1, <2>1 DEF GoodFrame
<1>3. CASE TargetNext
  <2>1. PICK s \in Top.todo : Invoke([Top EXCEPT !.todo = @ \ {s}], Call("update", s))
    BY <1>3 DEF TargetNext
  <2>2. s \in Services /\ [Top EXCEPT !.todo = @ \ {s}] \in GoodFrame
    BY <1>2, <2>1 DEF TargetFrame, GoodFrame
  <2>3. Call("update", s) \in GoodFrame
    BY <2>2, CallIsGood
  <2>4. CallTypes'
    BY <1>1, <2>1, <2>2, <2>3, InvokeTypes
  <2>5. QED
    BY <1>3, <2>4, DataUnchanged DEF TargetNext
<1>4. CASE TargetEnds
  <2>1. "idle" \in Return
    BY DEF Return
  <2>2. CallTypes'
    BY <1>1, <1>4, <2>1, ReturnTypes DEF TargetEnds
  <2>3. /\ reached' \subseteq Targets /\ reachedTarget' \in BOOLEAN
        /\ ran' \subseteq Targets /\ tgts' \in Seq(Targets)
    BY <1>4, CheckReachTypes DEF TargetEnds
  <2>4. DataTypes'
    BY <1>4, <2>3 DEF TargetEnds, DataTypes, LaunchTypeOK, serviceVars, edgeVars,
                      clientVars, launchVars
  <2>5. QED
    BY <2>2, <2>4
<1>5. QED
  BY <1>3, <1>4
\* A report of a launcher is read and acted on.
LEMMA DeliverTypes ==
  ASSUME TypeInv, NEW s \in Services, Deliver(s)
  PROVE  TypeInv'
<1> USE DEF TypeInv
<1>1. /\ outbox[s] \in Seq(Message) /\ outbox[s] # <<>>
      /\ outbox' = [outbox EXCEPT ![s] = Tail(@)]
      /\ UNCHANGED <<stage, intr>>
  BY DEF Deliver, DataTypes, LaunchTypeOK
<1>2. Head(outbox[s]) \in Message /\ Tail(outbox[s]) \in Seq(Message)
  BY <1>1
<1>3. LaunchTypeOK'
  BY <1>1, <1>2 DEF DataTypes, LaunchTypeOK
<1>4. \/ FinishStartService(s) \/ ServiceFinishes(s)
      \/ FailService(s) \/ FinishStopService(s)
  BY <1>2 DEF Deliver, Handler, Message
<1>5. CallTypes'
  <2>1. /\ Call("update", s) \in GoodFrame
        /\ Call("finishStart", s) \in GoodFrame
        /\ Call("finishStop", s) \in GoodFrame
    BY CallIsGood
  <2>2. QED
    BY <1>4, <2>1, ServeTypes DEF FinishStartService, ServiceFinishes, FailService,
                                  FinishStopService
<1>6. CASE FinishStartService(s) \/ ServiceFinishes(s) \/ FailService(s)
  <2>1. /\ status' \in [Services -> Status]
        /\ userOverride' \in [Services -> Override]
        /\ failLocked' \in [Services -> BOOLEAN]
    BY <1>6 DEF FinishStartService, ServiceFinishes, FailService, SetStatus, Unlock,
                Forgive, Want, DataTypes, Status, Override
  <2>2. UNCHANGED <<edgeVars, clientVars, targetVars, services, faults>>
    BY <1>6 DEF FinishStartService, ServiceFinishes, FailService
  <2>3. QED
    BY <1>3, <1>5, <2>1, <2>2 DEF DataTypes, edgeVars, clientVars, targetVars
<1>7. CASE FinishStopService(s)
  <2>1. status' \in [Services -> Status]
    BY <1>7 DEF FinishStopService, SetStatus, DataTypes, Status
  <2>2. {"failed", "stopped"} \subseteq Reply
    BY DEF Reply
  <2>3. /\ reply' \in [Clients -> Reply]
        /\ subscribed' \in [Services -> SUBSET Clients]
    BY <1>7, <2>2, DispatchTypes DEF FinishStopService
  <2>4. UNCHANGED <<userOverride, failLocked, edgeVars, targetVars, services, faults>>
    BY <1>7 DEF FinishStopService
  <2>5. QED
    BY <1>3, <1>5, <2>1, <2>3, <2>4 DEF DataTypes, edgeVars, targetVars
<1>8. QED
  BY <1>4, <1>6, <1>7

-----------------------------------------------------------------------------
(* The launchers.                                                          *)

\* A launcher's step leaves the daemon's state alone.
LEMMA LaunchTypes ==
  ASSUME TypeInv, NEW s \in Services, Launch(s)
  PROVE  TypeInv'
<1> USE DEF TypeInv
<1>1. /\ stage \in [Services -> Stage] /\ intr \in [Services -> BOOLEAN]
      /\ outbox \in [Services -> Seq(Message)]
  BY DEF DataTypes, LaunchTypeOK
<1>2. LaunchNext(s)
  BY DEF Launch
<1>3. intr' \in [Services -> BOOLEAN]
  <2>1. intr' = intr \/ Interrupted(s)
    BY <1>2 DEF LaunchNext, SeesInterrupt, CommandExits, BeginInterrupted,
                HangInterrupted, RunInterrupted, LastInterrupted, BeginExits,
                KilledExits, EndExits, ErrExits, RunExits
  <2>2. QED
    BY <1>1, <2>1 DEF Interrupted
<1>4. stage' = stage \/ \E st \in Stage : Enter(s, st)
  <2>1. CASE BeginInterrupted(s) \/ RunInterrupted(s) \/ LastInterrupted(s)
    BY <2>1 DEF BeginInterrupted, RunInterrupted, LastInterrupted, Stage
  <2>2. CASE BeginExits(s) \/ HangInterrupted(s) \/ RunExits(s) \/ KilledExits(s)
    BY <2>2 DEF BeginExits, HangInterrupted, RunExits, KilledExits, AfterBegin,
                EnterAnnounced, Stage
  <2>3. CASE EndExits(s) \/ ErrExits(s)
    BY <2>3 DEF EndExits, ErrExits, EnterAnnounced, Stage
  <2>4. QED
    BY <1>2, <2>1, <2>2, <2>3 DEF LaunchNext, SeesInterrupt, CommandExits
<1>5. outbox' = outbox \/ \E m \in Message : Write(s, m)
  <2>1. \A st \in {"run", "end", "err"} : Announce(st) \in Message
    BY DEF Announce, Message
  <2>2. CASE BeginInterrupted(s) \/ RunInterrupted(s) \/ LastInterrupted(s)
    BY <2>2 DEF BeginInterrupted, RunInterrupted, LastInterrupted
  <2>3. CASE BeginExits(s) \/ HangInterrupted(s) \/ RunExits(s) \/ KilledExits(s)
    BY <2>1, <2>3 DEF BeginExits, HangInterrupted, RunExits, KilledExits,
                      AfterBegin, EnterAnnounced
  <2>4. CASE EndExits(s) \/ ErrExits(s)
    BY <2>1, <2>4 DEF EndExits, ErrExits, EnterAnnounced, Message
  <2>5. QED
    BY <1>2, <2>2, <2>3, <2>4 DEF LaunchNext, SeesInterrupt, CommandExits
<1>6. LaunchTypeOK'
  <2>1. stage' \in [Services -> Stage]
    BY <1>1, <1>4 DEF Enter
  <2>2. \A q \in Seq(Message), m \in Message : Append(q, m) \in Seq(Message)
    OBVIOUS
  <2>3. CASE \E m \in Message : Write(s, m)
    <3>1. PICK m \in Message : outbox' = [outbox EXCEPT ![s] = Append(outbox[s], m)]
      BY <2>3 DEF Write
    <3>2. Append(outbox[s], m) \in Seq(Message)
      BY <1>1, <2>2
    <3>3. outbox' \in [Services -> Seq(Message)]
      BY <1>1, <3>1, <3>2
    <3>4. QED
      BY <1>3, <2>1, <3>3 DEF LaunchTypeOK
  <2>4. QED
    BY <1>1, <1>3, <1>5, <2>1, <2>3 DEF LaunchTypeOK
<1>7. QED
  BY <1>6 DEF Launch, DataTypes, CallTypes, serviceVars, edgeVars, clientVars,
              targetVars, callVars

-----------------------------------------------------------------------------
(* Every step.                                                             *)

\* The invariant is inductive.
LEMMA NextTypes == TypeInv /\ [Next]_vars => TypeInv'
<1> SUFFICES ASSUME TypeInv, [Next]_vars PROVE TypeInv'
  OBVIOUS
<1>1. CASE Boot
  <2>1. reply' \in [Clients -> Reply]
    BY <1>1 DEF Boot, TypeInv, DataTypes
  <2>2. QED
    BY <1>1, <2>1, SetTargetTypes, DaemonAssumption DEF Boot
<1>2. ASSUME NEW c \in Clients, Request(c) PROVE TypeInv'
  <2>1. CASE \E s \in Services : StartService(s, c) \/ StopService(s, c)
                                 \/ CascadeStopService(s, c)
    BY <2>1, ClientTypes
  <2>2. CASE (\E t \in Targets : SetTarget(t))
             /\ reply' = [reply EXCEPT ![c] = "pending"]
    <3>1. reply' \in [Clients -> Reply]
      BY <2>2 DEF TypeInv, DataTypes, Reply
    <3>2. QED
      BY <2>2, <3>1, SetTargetTypes
  <2>3. QED
    BY <1>2, <2>1, <2>2 DEF Request
<1>3. ASSUME NEW s \in Services, Deliver(s) PROVE TypeInv'
  BY <1>3, DeliverTypes
<1>4. ASSUME NEW s \in Services, Launch(s) PROVE TypeInv'
  BY <1>4, LaunchTypes
<1>5. CASE Run
  BY <1>5, ServiceStepTypes, CommandReturnsTypes, TargetStepTypes DEF Run
<1>6. CASE UNCHANGED vars
  BY <1>6 DEF vars, TypeInv, DataTypes, CallTypes, LaunchTypeOK, serviceVars,
              edgeVars, clientVars, targetVars, callVars, launchVars
<1>7. QED
  BY <1>1, <1>2, <1>3, <1>4, <1>5, <1>6 DEF Next

\* Every variable keeps its type; in particular every service that start(),
\* stop(), finishStart() and finishStop() (PxService.hpp) call update() on, from
\* a Depend or After line or an edge, is one there is.
THEOREM TypeCorrect == Spec => []TypeOK
  BY InitTypes, NextTypes, TypeInvIsTypeOK, PTL DEF Spec

-----------------------------------------------------------------------------
(* The shutdown.  A shutdown target is reached when the services in the    *)
(* manager's map are down.  So it must be shown that nothing outside the   *)
(* map has ever been started, although update() is called through Depend   *)
(* lines, After lines, edges recorded long before, and frames that have    *)
(* been waiting: MapInv.                                                   *)

\* Who a call in progress is, or will be, about is in S.
MappedIn(f, S) ==
  /\ f \in ServiceFrame =>
       /\ f.svc \in S
       /\ f.at \in {"tried", "after"} => After[f.svc][f.i - Len(Depend[f.svc])] \in S
  /\ f \in TargetFrame => f.todo \subseteq S

CallsMapped == \A k \in DOMAIN stack : MappedIn(stack[k], services)

EdgesIn(q, S) == \A i \in DOMAIN q : q[i].name \in S

EdgesMapped ==
  \A s \in Services : EdgesIn(deps[s], services) /\ EdgesIn(dependedBy[s], services)

\* What is not in the map is as it was in the beginning.
OthersInactive == \A s \in Services \ services : status[s] = "Inactive"

MapInv == CallsMapped /\ EdgesMapped /\ OthersInactive

\* At first there are no calls and no edges, and all is Inactive.
LEMMA InitMap == Init => MapInv
  BY DEF Init, MapInv, CallsMapped, EdgesMapped, EdgesIn, OthersInactive

-----------------------------------------------------------------------------
(* Calls and returns.                                                      *)

\* Names are never taken out of the map.
LEMMA MappedGrows ==
  ASSUME NEW S, NEW T, S \subseteq T, NEW f, MappedIn(f, S)
  PROVE  MappedIn(f, T)
  BY DEF MappedIn

\* A frame of a member function that is not at an After line.
LEMMA PlainIsMapped ==
  ASSUME NEW f \in ServiceFrame, NEW S, f.svc \in S, f.at \notin {"tried", "after"}
  PROVE  MappedIn(f, S)
<1>1. f \notin TargetFrame
  BY DEF ServiceFrame, TargetFrame
<1>2. QED
  BY <1>1 DEF MappedIn

\* A fresh call of a member function of a service in the map.
LEMMA CallIsMapped ==
  ASSUME NEW S \in SUBSET Services, NEW s \in S,
         NEW fn \in {"update", "start", "stop", "finishStart", "finishStop",
                     "cascadeStop"}
  PROVE  MappedIn(Call(fn, s), S) /\ MappedIn(CascadeCall(s), S)
<1>1. Call(fn, s) \in ServiceFrame /\ Call(fn, s).svc = s /\ Call(fn, s).at = "next"
  BY DEF Call, ServiceFrame
<1>2. /\ CascadeCall(s) \in ServiceFrame /\ CascadeCall(s).svc = s
      /\ CascadeCall(s).at = "enter"
  BY DEF CascadeCall, Call, ServiceFrame
<1>3. QED
  BY <1>1, <1>2, PlainIsMapped

\* The running member function is of a service in the map, wherever it goes on.
LEMMA TopMapped ==
  ASSUME CallTypes, CallsMapped, NEW s, NEW label, stack # <<>>,
         NEW fn \in {"update", "start", "stop", "finishStart", "finishStop",
                     "cascadeStop"},
         Runs(fn, s, label)
  PROVE  /\ s \in services /\ Top \in GoodServiceFrame /\ Top.svc = s
         /\ MappedIn(Top, services) /\ MappedIn(Next1, services)
         /\ \A l \in {"tail", "next", "depended"} : MappedIn(At(l), services)
<1>1. /\ Top \in GoodServiceFrame /\ Top.svc = s /\ Top.at = label
      /\ s \in Services /\ Top.i \in Nat \ {0}
  BY ServiceTop
<1>2. Top \in ServiceFrame
  BY <1>1 DEF GoodServiceFrame
<1>3. MappedIn(Top, services)
  BY DEF CallsMapped, CallTypes, Top
<1>4. s \in services
  BY <1>1, <1>2, <1>3 DEF MappedIn
<1>5. MappedIn(Next1, services)
  <2>1. Next1 \in GoodFrame
    BY ServiceTop
  <2>2. Next1 \in ServiceFrame /\ Next1.svc = s /\ Next1.at = "next"
    <3>1. /\ Next1.fn = Top.fn /\ Next1.svc = s /\ Next1.at = "next"
      BY <1>1, <1>2 DEF Next1, ServiceFrame
    <3>2. Next1.fn # "setTarget" /\ Next1.fn # "command"
      BY <3>1 DEF Runs
    <3>3. QED
      BY <2>1, <3>1, <3>2 DEF GoodFrame, GoodServiceFrame, TargetFrame, CommandFrame
  <2>3. QED
    BY <1>4, <2>2, PlainIsMapped
<1>6. ASSUME NEW l \in {"tail", "next", "depended"} PROVE MappedIn(At(l), services)
  <2>1. At(l) \in ServiceFrame /\ At(l).svc = s /\ At(l).at = l
    BY <1>1, <1>2 DEF At, ServiceFrame
  <2>2. QED
    BY <1>4, <2>1, PlainIsMapped
<1>7. QED
  BY <1>1, <1>3, <1>4, <1>5, <1>6

\* The running call goes on, calls another or returns.
LEMMA StackMapped ==
  ASSUME CallTypes, CallsMapped, stack # <<>>, services \subseteq services',
         \/ \E f : Continue(f) /\ MappedIn(f, services')
         \/ \E f, g : Invoke(f, g) /\ MappedIn(f, services') /\ MappedIn(g, services')
         \/ \E v : ReturnWith(v)
  PROVE  CallsMapped'
<1> DEFINE rest == Tail(stack)
<1>1. /\ stack \in Seq(GoodFrame) /\ rest \in Seq(GoodFrame) /\ Len(rest) \in Nat
      /\ DOMAIN rest = 1..Len(rest)
      /\ Len(rest) = Len(stack) - 1
      /\ \A k \in 1..Len(rest) : k + 1 \in DOMAIN stack /\ rest[k] = stack[k + 1]
  BY DEF CallTypes
<1>2. \A k \in 1..Len(rest) : MappedIn(rest[k], services')
  BY <1>1, MappedGrows DEF CallsMapped
<1> HIDE DEF rest
<1>3. ASSUME NEW f, MappedIn(f, services'), stack' = <<f>> \o rest PROVE CallsMapped'
  <2>1. <<f>> \in Seq({f} \union GoodFrame) /\ rest \in Seq({f} \union GoodFrame)
    BY <1>1
  <2>2. /\ Len(stack') = 1 + Len(rest) /\ DOMAIN stack' = 1..(1 + Len(rest))
        /\ stack'[1] = f
        /\ \A k \in 2..(1 + Len(rest)) : stack'[k] = rest[k - 1]
    BY <1>1, <1>3, <2>1
  <2>3. \A k \in DOMAIN stack' : MappedIn(stack'[k], services')
    BY <1>1, <1>2, <1>3, <2>2
  <2>4. QED
    BY <2>3 DEF CallsMapped, MappedIn
<1>4. ASSUME NEW f, NEW g, MappedIn(f, services'), MappedIn(g, services'),
             stack' = <<g, f>> \o rest
      PROVE  CallsMapped'
  <2>1. /\ <<g, f>> \in Seq({f, g} \union GoodFrame)
        /\ rest \in Seq({f, g} \union GoodFrame)
    BY <1>1
  <2>2. /\ Len(stack') = 2 + Len(rest) /\ DOMAIN stack' = 1..(2 + Len(rest))
        /\ stack'[1] = g /\ stack'[2] = f
        /\ \A k \in 3..(2 + Len(rest)) : stack'[k] = rest[k - 2]
    BY <1>1, <1>4, <2>1
  <2>3. \A k \in DOMAIN stack' : MappedIn(stack'[k], services')
    BY <1>1, <1>2, <1>4, <2>2
  <2>4. QED
    BY <2>3 DEF CallsMapped, MappedIn
<1>5. ASSUME stack' = rest PROVE CallsMapped'
  BY <1>1, <1>2, <1>5 DEF CallsMapped, MappedIn
<1>6. QED
  BY <1>3, <1>4, <1>5 DEF Continue, Invoke, ReturnWith, rest

-----------------------------------------------------------------------------
(* Edges.                                                                  *)

\* Lists of edges to services in S are a set of sequences.
LEMMA EdgesInIsSeq ==
  ASSUME NEW S, NEW q \in Seq(Edge)
  PROVE  EdgesIn(q, S) <=> q \in Seq({e \in Edge : e.name \in S})
<1> DEFINE E == {e \in Edge : e.name \in S}
<1>1. ASSUME EdgesIn(q, S) PROVE q \in Seq(E)
  <2>1. \A i \in 1..Len(q) : q[i] \in E
    BY <1>1 DEF EdgesIn
  <2> HIDE DEF E
  <2>2. QED
    BY <2>1
<1>2. ASSUME q \in Seq(E) PROVE EdgesIn(q, S)
  <2>1. \A i \in DOMAIN q : q[i] \in E
    BY <1>2
  <2>2. QED
    BY <2>1 DEF EdgesIn
<1>3. QED
  BY <1>1, <1>2

\* Edges are added to services in the map, and taken away.
LEMMA EdgesInGrows ==
  ASSUME NEW S, NEW T, S \subseteq T, NEW q \in Seq(Edge), EdgesIn(q, S)
  PROVE  /\ EdgesIn(q, T)
         /\ \A e \in Edge : e.name \in T => EdgesIn(Append(q, e), T)
         /\ \A e : EdgesIn(RemoveFirst(q, e), T)
         /\ \A x : EdgesIn(WithoutEdgeOf(q, x), T)
<1> DEFINE E == {e \in Edge : e.name \in T}
<1>1. EdgesIn(q, T)
  BY DEF EdgesIn
<1>2. q \in Seq(E)
  BY <1>1, EdgesInIsSeq
<1>3. \A p \in Seq(E) : p \in Seq(Edge)
  <2>1. E \subseteq Edge
    OBVIOUS
  <2> HIDE DEF E
  <2>2. QED
    BY <2>1
<1>4. \A p \in Seq(E) : EdgesIn(p, T)
  BY <1>3, EdgesInIsSeq
<1>5. \A e \in Edge : e.name \in T => Append(q, e) \in Seq(E)
  <2>1. \A e \in Edge : e.name \in T => e \in E
    OBVIOUS
  <2> HIDE DEF E
  <2>2. QED
    BY <1>2, <2>1
<1>6. /\ \A e : RemoveFirst(q, e) \in Seq(E)
      /\ \A x : WithoutEdgeOf(q, x) \in Seq(E)
  BY <1>2, RemoveFirstIsSeq, RemoveEdgeIsSeq
<1> HIDE DEF E
<1>7. QED
  BY <1>1, <1>4, <1>5, <1>6

\* The lists stay, while the map may grow.
LEMMA EdgesStayMapped ==
  ASSUME EdgeTypes, EdgesMapped, services \subseteq services', UNCHANGED edgeVars
  PROVE  EdgesMapped'
<1>1. \A s \in Services : /\ deps[s] \in Seq(Edge) /\ dependedBy[s] \in Seq(Edge)
                          /\ EdgesIn(deps[s], services')
                          /\ EdgesIn(dependedBy[s], services')
  BY EdgesInGrows DEF EdgeTypes, EdgesMapped
<1>2. QED
  BY <1>1 DEF EdgesMapped, EdgesIn, edgeVars

\* An edge between two services in the map.
LEMMA AddEdgeMapped ==
  ASSUME EdgeTypes, EdgesMapped, services \subseteq services', services' \subseteq Services,
         NEW s \in services', NEW d \in services', NEW o \in BOOLEAN, AddEdge(s, d, o)
  PROVE  EdgesMapped'
<1>1. /\ [name |-> s, optional |-> o] \in Edge
      /\ [name |-> d, optional |-> o] \in Edge
  BY DEF Edge
<1>2. \A r \in Services :
        /\ EdgesIn(deps[r], services') /\ EdgesIn(dependedBy[r], services')
        /\ EdgesIn(Append(deps[r], [name |-> d, optional |-> o]), services')
        /\ EdgesIn(Append(dependedBy[r], [name |-> s, optional |-> o]), services')
  BY <1>1, EdgesInGrows DEF EdgeTypes, EdgesMapped
<1>3. \A r \in Services :
        /\ deps'[r] \in {deps[r], Append(deps[r], [name |-> d, optional |-> o])}
        /\ dependedBy'[r] \in {dependedBy[r], Append(dependedBy[r], [name |-> s, optional |-> o])}
  BY DEF AddEdge, EdgeTypes
<1>4. \A r \in Services : EdgesIn(deps'[r], services') /\ EdgesIn(dependedBy'[r], services')
  BY <1>2, <1>3, Zenon
<1>5. QED
  BY <1>4 DEF EdgesMapped, EdgesIn

\* An edge is dropped at both ends.
LEMMA DropEdgeMapped ==
  ASSUME EdgeTypes, EdgesMapped, services' = services,
         NEW s, NEW d, NEW o, DropEdge(s, d, o)
  PROVE  EdgesMapped'
<1>1. \A r \in Services :
        /\ EdgesIn(deps[r], services) /\ EdgesIn(dependedBy[r], services)
        /\ EdgesIn(RemoveFirst(deps[r], [name |-> d, optional |-> o]), services)
        /\ EdgesIn(RemoveFirst(dependedBy[r], [name |-> s, optional |-> o]), services)
  BY EdgesInGrows DEF EdgeTypes, EdgesMapped
<1>2. \A r \in Services :
        /\ deps'[r] \in {deps[r], RemoveFirst(deps[r], [name |-> d, optional |-> o])}
        /\ dependedBy'[r]
             \in {dependedBy[r], RemoveFirst(dependedBy[r], [name |-> s, optional |-> o])}
  BY DEF DropEdge, EdgeTypes
<1>3. \A r \in Services : EdgesIn(deps'[r], services) /\ EdgesIn(dependedBy'[r], services)
  BY <1>1, <1>2, Zenon
<1>4. QED
  BY <1>3 DEF EdgesMapped, EdgesIn

-----------------------------------------------------------------------------
(* Every step.                                                             *)

\* Only the status of a service in the map changes.
LEMMA MapFrom ==
  ASSUME MapInv, services \subseteq services', CallsMapped', EdgesMapped',
         \A s \in Services : status'[s] = status[s] \/ s \in services'
  PROVE  MapInv'
<1>1. OthersInactive'
  BY DEF MapInv, OthersInactive
<1>2. QED
  BY <1>1 DEF MapInv

\* A step of the running call that touches neither edges nor the map.
LEMMA MapFromCall ==
  ASSUME TypeInv, MapInv, stack # <<>>, UNCHANGED <<edgeVars, services>>,
         \A s \in Services : status'[s] = status[s] \/ s \in services,
         \/ \E f : Continue(f) /\ MappedIn(f, services)
         \/ \E f, g : Invoke(f, g) /\ MappedIn(f, services) /\ MappedIn(g, services)
         \/ \E v : ReturnWith(v)
  PROVE  MapInv'
<1>1. CallsMapped'
  BY StackMapped DEF TypeInv, MapInv
<1>2. EdgesMapped'
  BY EdgesStayMapped DEF TypeInv, DataTypes, EdgeTypes, MapInv
<1>3. QED
  BY <1>1, <1>2, MapFrom

\* update() is called on services in the map.
LEMMA UpdateMapped ==
  ASSUME TypeInv, MapInv, NEW s \in Services, Update(s)
  PROVE  MapInv'
<1>1. stack # <<>> /\ services \in SUBSET Services
  BY DEF Update, Runs, TypeInv, DataTypes
<1>2. s \in services
  BY <1>1, TopMapped DEF Update, TypeInv, MapInv
<1>3. \A r \in Services : status'[r] = status[r] \/ r \in services
  <2>1. UNCHANGED status \/ \E st \in Status : SetStatus(s, st)
    BY DEF Update, RawStart, RawStartFails, RawStop, BeginStart, BeginStop, UpdateIsIdle,
           serviceVars, Status
  <2>2. QED
    BY <1>2, <2>1 DEF SetStatus, TypeInv, DataTypes
<1>4. /\ MappedIn(Call("start", s), services) /\ MappedIn(Call("stop", s), services)
  BY <1>1, <1>2, CallIsMapped
<1>5. CASE BeginStart(s)
  <2>1. services' = services /\ Continue(Call("start", s))
    BY <1>5 DEF BeginStart
  <2>2. CallsMapped'
    BY <1>1, <1>4, <2>1, StackMapped DEF TypeInv, MapInv
  <2>3. EdgesMapped'
    <3>1. /\ dependedBy' = dependedBy
          /\ \A r \in Services : deps'[r] = deps[r] \/ deps'[r] = <<>>
      BY <1>5 DEF BeginStart, TypeInv, DataTypes
    <3>2. QED
      BY <2>1, <3>1 DEF MapInv, EdgesMapped, EdgesIn
  <2>4. QED
    BY <1>3, <2>1, <2>2, <2>3, MapFrom
<1>6. CASE RawStart(s) \/ RawStartFails(s) \/ RawStop(s) \/ BeginStop(s) \/ UpdateIsIdle(s)
  BY <1>1, <1>3, <1>4, <1>6, MapFromCall
     DEF RawStart, RawStartFails, RawStop, BeginStop, UpdateIsIdle, edgeVars
<1>7. QED
  BY <1>5, <1>6 DEF Update

\* start() walks its lines: each name is put into the map before it is updated.
LEMMA StartMapped ==
  ASSUME TypeInv, MapInv, NEW s \in Services,
         \/ StartDepends(s) \/ StartDepended(s)
         \/ StartTriesAfter(s) \/ StartTriedAfter(s) \/ StartAddedAfter(s)
  PROVE  MapInv'
<1>1. stack # <<>> /\ CallTypes /\ CallsMapped /\ EdgesMapped /\ EdgeTypes
      /\ services \in SUBSET Services
  BY DEF StartDepends, StartDepended, StartTriesAfter, StartTriedAfter, StartAddedAfter,
         Runs, TypeInv, DataTypes, EdgeTypes, MapInv
<1>2. /\ s \in services /\ Top \in GoodServiceFrame /\ Top.svc = s
      /\ MappedIn(Top, services) /\ MappedIn(Next1, services)
      /\ MappedIn(At("depended"), services)
  BY <1>1, TopMapped DEF StartDepends, StartDepended, StartTriesAfter, StartTriedAfter,
                         StartAddedAfter
<1>3. status' = status
  BY DEF StartDepends, StartDepended, StartTriesAfter, StartTriedAfter, StartAddedAfter,
         serviceVars
<1>4. ASSUME services \subseteq services', CallsMapped', EdgesMapped' PROVE MapInv'
  BY <1>3, <1>4, MapFrom
<1>5. CASE StartDepends(s)
  <2> DEFINE d == DependAt(s)
  <2>1. AtDepend(s) /\ services' = services \union {d.name}
    BY <1>5 DEF StartDepends, Load
  <2>2. d.name \in Services /\ d.optional \in BOOLEAN
    BY <1>2, <2>1, LinesAreServices
  <2>3. services \subseteq services' /\ services' \in SUBSET Services /\ d.name \in services'
    BY <1>1, <2>1, <2>2
  <2>4. /\ MappedIn(At("depended"), services') /\ MappedIn(Next1, services')
        /\ MappedIn(Call("update", d.name), services')
    BY <1>2, <2>3, MappedGrows, CallIsMapped
  <2> HIDE DEF d
  <2>5. \/ AddEdge(s, d.name, d.optional) /\ Invoke(At("depended"), Call("update", d.name))
        \/ Continue(Next1) /\ UNCHANGED edgeVars
        \/ ReturnWith("err") /\ UNCHANGED edgeVars
    BY <1>5 DEF StartDepends, d
  <2>6. CallsMapped'
    BY <1>1, <2>3, <2>4, <2>5, StackMapped
  <2>7. EdgesMapped'
    BY <1>1, <1>2, <2>2, <2>3, <2>5, AddEdgeMapped, EdgesStayMapped
  <2>8. QED
    BY <1>4, <2>3, <2>6, <2>7
<1>6. CASE StartTriesAfter(s)
  <2> DEFINE a == AfterAt(s)
  <2>1. AtAfter(s) /\ services' = services \union {a}
    BY <1>6 DEF StartTriesAfter, Load
  <2>2. a \in Services
    BY <1>2, <2>1, LinesAreServices
  <2>3. services \subseteq services' /\ services' \in SUBSET Services /\ a \in services'
    BY <1>1, <2>1, <2>2
  <2>4. MappedIn(At("tried"), services')
    <3>1. /\ At("tried") \in ServiceFrame /\ At("tried").svc = s /\ At("tried").i = Top.i
          /\ At("tried") \notin TargetFrame
      BY <1>2 DEF At, GoodServiceFrame, ServiceFrame, TargetFrame
    <3>2. a = After[s][Top.i - Len(Depend[s])]
      BY DEF AfterAt
    <3>3. QED
      BY <1>2, <2>3, <3>1, <3>2 DEF MappedIn
  <2>5. MappedIn(Next1, services') /\ MappedIn(Call("update", a), services')
    BY <1>2, <2>3, MappedGrows, CallIsMapped
  <2> HIDE DEF a
  <2>6. Invoke(At("tried"), Call("update", a)) \/ Continue(Next1)
    BY <1>6 DEF StartTriesAfter, a
  <2>7. CallsMapped'
    BY <1>1, <2>3, <2>4, <2>5, <2>6, StackMapped
  <2>8. EdgesMapped'
    BY <1>1, <1>6, <2>3, EdgesStayMapped DEF StartTriesAfter
  <2>9. QED
    BY <1>4, <2>3, <2>7, <2>8
<1>7. CASE StartTriedAfter(s)
  <2> DEFINE a == AfterAt(s)
  <2>1. Top.at = "tried" /\ services' = services
    BY <1>7 DEF StartTriedAfter, Runs
  <2>2. a \in services
    BY <1>2, <2>1 DEF AfterAt, MappedIn, GoodServiceFrame
  <2>3. MappedIn(At("after"), services)
    <3>1. /\ At("after") \in ServiceFrame /\ At("after").svc = s /\ At("after").i = Top.i
          /\ At("after") \notin TargetFrame
      BY <1>2 DEF At, GoodServiceFrame, ServiceFrame, TargetFrame
    <3>2. QED
      BY <1>2, <2>2, <3>1 DEF MappedIn, AfterAt
  <2>4. MappedIn(Call("update", a), services)
    BY <1>1, <2>2, CallIsMapped
  <2> HIDE DEF a
  <2>5. \/ AddEdge(s, a, TRUE) /\ Invoke(At("after"), Call("update", a))
        \/ Continue(Next1) /\ UNCHANGED edgeVars
    BY <1>7 DEF StartTriedAfter, a
  <2>6. CallsMapped'
    BY <1>1, <1>2, <2>1, <2>3, <2>4, <2>5, StackMapped
  <2>7. EdgesMapped'
    BY <1>1, <1>2, <2>1, <2>2, <2>5, AddEdgeMapped, EdgesStayMapped
  <2>8. QED
    BY <1>4, <2>1, <2>6, <2>7
<1>8. CASE StartDepended(s) \/ StartAddedAfter(s)
  <2>1. services' = services
    BY <1>8 DEF StartDepended, StartAddedAfter
  <2>2. CallsMapped'
    BY <1>1, <1>2, <1>8, <2>1, StackMapped DEF StartDepended, StartAddedAfter
  <2>3. UNCHANGED edgeVars \/ \E d : DropEdge(s, d, TRUE)
    BY <1>8 DEF StartDepended, StartAddedAfter
  <2>4. EdgesMapped'
    BY <1>1, <2>1, <2>3, DropEdgeMapped, EdgesStayMapped
  <2>5. QED
    BY <1>4, <2>1, <2>2, <2>4
<1>9. QED
  BY <1>5, <1>6, <1>7, <1>8


\* A dependent, or a dependency, is in the map.
LEMMA NeighbourMapped ==
  ASSUME TypeInv, MapInv, NEW s \in Services, Top.i \in Nat \ {0}
  PROVE  /\ MoreDependents(s) => DependentAt(s).name \in services
         /\ Top.i <= Len(deps[s]) => deps[s][Top.i].name \in services
<1>1. deps[s] \in Seq(Edge) /\ dependedBy[s] \in Seq(Edge)
  BY DEF TypeInv, DataTypes
<1>2. EdgesIn(deps[s], services) /\ EdgesIn(dependedBy[s], services)
  BY DEF MapInv, EdgesMapped
<1>3. QED
  BY <1>1, <1>2 DEF MoreDependents, DependentAt, EdgesIn

\* The other member functions: what they call is an entry of a list of edges.
LEMMA WalkMapped ==
  ASSUME TypeInv, MapInv, NEW s \in Services,
         \/ UpdateSelf(s) \/ ReturnFromTail(s) \/ StopNext(s)
         \/ CascadeEnters(s) \/ CascadeNext(s)
         \/ FinishStartNext(s) \/ FinishStartFails(s) \/ FinishStartEnds(s)
  PROVE  MapInv'
<1>1. /\ stack # <<>> /\ services \in SUBSET Services
      /\ UNCHANGED <<status, edgeVars, services>>
  BY DEF UpdateSelf, ReturnFromTail, StopNext, CascadeEnters, CascadeNext, FinishStartNext,
         FinishStartFails, FinishStartEnds, Runs, serviceVars, TypeInv, DataTypes
<1>2. /\ s \in services /\ Top.i \in Nat \ {0}
      /\ MappedIn(Next1, services)
      /\ \A l \in {"tail", "next"} : MappedIn(At(l), services)
  BY <1>1, TopMapped, ServiceTop
     DEF UpdateSelf, ReturnFromTail, StopNext, CascadeEnters, CascadeNext, FinishStartNext,
         FinishStartFails, FinishStartEnds, TypeInv, MapInv
<1>3. MappedIn(Call("update", s), services)
  BY <1>1, <1>2, CallIsMapped
<1>4. ASSUME MoreDependents(s)
      PROVE  /\ MappedIn(Call("update", DependentAt(s).name), services)
             /\ MappedIn(CascadeCall(DependentAt(s).name), services)
  BY <1>1, <1>2, <1>4, NeighbourMapped, CallIsMapped
<1>5. \/ \E f : Continue(f) /\ MappedIn(f, services)
      \/ \E f, g : Invoke(f, g) /\ MappedIn(f, services) /\ MappedIn(g, services)
      \/ \E v : ReturnWith(v)
  BY <1>2, <1>3, <1>4
     DEF UpdateSelf, ReturnFromTail, StopNext, CascadeEnters, CascadeNext, FinishStartNext,
         FinishStartFails, FinishStartEnds
<1>6. QED
  BY <1>1, <1>5, MapFromCall

\* finishStop() gives its edges back.
LEMMA FinishStopMapped ==
  ASSUME TypeInv, MapInv, NEW s \in Services, FinishStopNext(s) \/ FinishStopEnds(s)
  PROVE  MapInv'
<1>1. /\ stack # <<>> /\ CallTypes /\ CallsMapped /\ services \in SUBSET Services
      /\ UNCHANGED <<status, services>>
  BY DEF FinishStopNext, FinishStopEnds, Runs, serviceVars, TypeInv, DataTypes, MapInv
<1>2. Top.i \in Nat \ {0} /\ MappedIn(Next1, services)
  BY <1>1, TopMapped, ServiceTop DEF FinishStopNext, FinishStopEnds
<1>3. CASE FinishStopNext(s)
  <2> DEFINE d == deps[s][Top.i].name
  <2>1. d \in services
    BY <1>2, <1>3, NeighbourMapped DEF FinishStopNext
  <2>2. MappedIn(Call("update", d), services)
    BY <1>1, <2>1, CallIsMapped
  <2> HIDE DEF d
  <2>3. /\ Invoke(Next1, Call("update", d)) /\ deps' = deps
        /\ dependedBy' = [dependedBy EXCEPT ![d] = WithoutEdgeOf(@, s)]
    BY <1>3 DEF FinishStopNext, d
  <2>4. CallsMapped'
    BY <1>1, <1>2, <2>2, <2>3, StackMapped
  <2>5. \A r \in Services :
          EdgesIn(dependedBy[r], services) /\ EdgesIn(WithoutEdgeOf(dependedBy[r], s), services)
    BY EdgesInGrows DEF TypeInv, DataTypes, MapInv, EdgesMapped
  <2>6. \A r \in Services : dependedBy'[r] \in {dependedBy[r], WithoutEdgeOf(dependedBy[r], s)}
    BY <2>3 DEF TypeInv, DataTypes
  <2>7. \A r \in Services : EdgesIn(dependedBy'[r], services)
    BY <2>5, <2>6, Zenon
  <2>8. EdgesMapped'
    BY <1>1, <2>3, <2>7 DEF MapInv, EdgesMapped, EdgesIn
  <2>9. QED
    BY <1>1, <2>4, <2>8, MapFrom
<1>4. CASE FinishStopEnds(s)
  <2>1. CallsMapped'
    BY <1>1, <1>4, StackMapped DEF FinishStopEnds
  <2>2. /\ dependedBy' = dependedBy
        /\ \A r \in Services : deps'[r] = deps[r] \/ deps'[r] = <<>>
    BY <1>4 DEF FinishStopEnds, TypeInv, DataTypes
  <2>3. EdgesMapped'
    BY <1>1, <2>2 DEF MapInv, EdgesMapped, EdgesIn
  <2>4. QED
    BY <1>1, <2>1, <2>3, MapFrom
<1>5. QED
  BY <1>3, <1>4

\* A request puts what it is about into the map.
LEMMA ClientMapped ==
  ASSUME TypeInv, MapInv, NEW s \in Services, NEW c \in Clients, Idle,
         StartService(s, c) \/ StopService(s, c) \/ CascadeStopService(s, c)
  PROVE  MapInv'
<1>1. /\ services' = services \union {s} /\ UNCHANGED edgeVars
      /\ services' \in SUBSET Services /\ services \subseteq services' /\ s \in services'
  BY DEF StartService, StopService, CascadeStopService, Refuse, Load, TypeInv, DataTypes
<1>2. /\ MappedIn(Call("update", s), services') /\ MappedIn(CascadeCall(s), services')
      /\ MappedIn(Command(c), services')
  <2>1. Command(c) \notin ServiceFrame /\ Command(c) \notin TargetFrame
    BY DEF Command, ServiceFrame, TargetFrame
  <2>2. QED
    BY <1>1, <2>1, CallIsMapped DEF MappedIn
<1>3. CallsMapped'
  <2>1. CASE Serve(<<Call("update", s), Command(c)>>)
    <3>1. \A k \in DOMAIN stack' : MappedIn(stack'[k], services')
      BY <1>2, <2>1 DEF Serve
    <3>2. QED
      BY <3>1 DEF CallsMapped, MappedIn
  <2>2. CASE Serve(<<CascadeCall(s)>>)
    <3>1. \A k \in DOMAIN stack' : MappedIn(stack'[k], services')
      BY <1>2, <2>2 DEF Serve
    <3>2. QED
      BY <3>1 DEF CallsMapped, MappedIn
  <2>3. CASE UNCHANGED callVars
    BY <2>3 DEF Idle, callVars, CallsMapped
  <2>4. QED
    BY <2>1, <2>2, <2>3 DEF StartService, StopService, CascadeStopService, Refuse, callVars
<1>4. EdgesMapped'
  BY <1>1, EdgesStayMapped DEF TypeInv, DataTypes, EdgeTypes, MapInv
<1>5. status' = status \/ Forgive(s)
  BY DEF StartService, StopService, CascadeStopService, Refuse, serviceVars
<1>6. \A r \in Services : status'[r] = status[r] \/ r \in services'
  BY <1>1, <1>5 DEF Forgive, TypeInv, DataTypes
<1>7. QED
  BY <1>1, <1>3, <1>4, <1>6, MapFrom


\* setTarget puts what it will update into the map, and updates it.
LEMMA TargetMapped ==
  ASSUME TypeInv, MapInv,
         \/ \E t \in Targets : SetTarget(t)
         \/ TargetNext \/ TargetEnds \/ CommandReturns
  PROVE  MapInv'
<1> USE DEF TypeInv
<1>1. CASE \E t \in Targets : SetTarget(t)
  <2>1. PICK t \in Targets : SetTarget(t)
    BY <1>1
  <2>2. status' = status /\ UNCHANGED edgeVars /\ services \subseteq services'
    BY <2>1 DEF SetTarget, EnterTarget, EnterTargetFails, serviceVars
  <2>3. CallsMapped'
    <3>1. CASE EnterTarget(t)
      <4> DEFINE all == ListAll(AddTarget(tgts, t), services)
                 f == [fn |-> "setTarget", todo |-> all \intersect Known]
      <4>1. stack' = <<f>> /\ services' = services \union all
        BY <3>1 DEF EnterTarget, Serve
      <4>2. f \notin ServiceFrame /\ f.todo \subseteq services'
        BY <4>1 DEF ServiceFrame
      <4> HIDE DEF f
      <4>3. \A k \in DOMAIN stack' : MappedIn(stack'[k], services')
        BY <4>1, <4>2 DEF MappedIn
      <4>4. QED
        BY <4>3 DEF CallsMapped, MappedIn
    <3>2. CASE stack' = stack
      <4>1. \A k \in DOMAIN stack' : MappedIn(stack'[k], services')
        BY <2>2, <3>2, MappedGrows DEF MapInv, CallsMapped
      <4>2. QED
        BY <4>1 DEF CallsMapped, MappedIn
    <3>3. QED
      BY <2>1, <3>1, <3>2 DEF SetTarget, EnterTargetFails, callVars
  <2>4. EdgesMapped'
    BY <2>2, EdgesStayMapped DEF DataTypes, EdgeTypes, MapInv
  <2>5. QED
    BY <2>2, <2>3, <2>4, MapFrom
<1>2. CASE TargetNext
  <2>1. stack # <<>> /\ Top \in GoodFrame /\ Top.fn = "setTarget" /\ services \in SUBSET Services
    BY <1>2 DEF TargetNext, CallTypes, DataTypes, Top
  <2>2. Top \in TargetFrame
    <3>1. \A f \in GoodServiceFrame \union CommandFrame : f.fn # "setTarget"
      BY DEF GoodServiceFrame, ServiceFrame, CommandFrame
    <3>2. QED
      BY <2>1, <3>1 DEF GoodFrame
  <2>3. Top.todo \subseteq services
    <3>1. MappedIn(Top, services)
      BY <2>1 DEF MapInv, CallsMapped, CallTypes, Top
    <3>2. QED
      BY <2>2, <3>1 DEF MappedIn
  <2>4. PICK s \in Top.todo : Invoke([Top EXCEPT !.todo = @ \ {s}], Call("update", s))
    BY <1>2 DEF TargetNext
  <2> DEFINE f == [Top EXCEPT !.todo = @ \ {s}]
  <2>5. f \notin ServiceFrame /\ f.todo \subseteq services
    BY <2>2, <2>3 DEF TargetFrame, ServiceFrame
  <2>6. MappedIn(f, services) /\ MappedIn(Call("update", s), services)
    BY <2>1, <2>3, <2>5, CallIsMapped DEF MappedIn
  <2> HIDE DEF f
  <2>7. Invoke(f, Call("update", s))
    BY <2>4 DEF f
  <2>8. QED
    BY <1>2, <2>1, <2>6, <2>7, MapFromCall DEF TargetNext, serviceVars
<1>3. CASE TargetEnds \/ CommandReturns
  BY <1>3, MapFromCall DEF TargetEnds, CommandReturns, serviceVars
<1>4. QED
  BY <1>1, <1>2, <1>3

\* A report comes from a service that is up, which is in the map.
LEMMA DeliverMapped ==
  ASSUME TypeInv, LauncherInv, MapInv, NEW s \in Services, Deliver(s)
  PROVE  MapInv'
<1>1. outbox[s] # <<>> /\ stack = <<>>
  BY DEF Deliver, Idle
<1>2. s \in services /\ services \in SUBSET Services
  BY <1>1 DEF LauncherInv, NoStrayLauncher, Up, MapInv, OthersInactive, TypeInv, DataTypes
<1>3. Head(outbox[s]) \in Message
  BY <1>1 DEF TypeInv, DataTypes, LaunchTypeOK
<1>4. \/ FinishStartService(s) \/ ServiceFinishes(s)
      \/ FailService(s) \/ FinishStopService(s)
  BY <1>3 DEF Deliver, Handler, Message
<1>5. UNCHANGED <<edgeVars, services>>
  BY <1>4 DEF FinishStartService, ServiceFinishes, FailService, FinishStopService
<1>6. CallsMapped'
  <2>1. \E fn \in {"update", "finishStart", "finishStop"} : stack' = <<Call(fn, s)>>
    BY <1>4 DEF FinishStartService, ServiceFinishes, FailService, FinishStopService, Serve
  <2>2. PICK fn \in {"update", "finishStart", "finishStop"} : stack' = <<Call(fn, s)>>
    BY <2>1
  <2>3. MappedIn(Call(fn, s), services)
    BY <1>2, CallIsMapped
  <2>4. \A k \in DOMAIN stack' : MappedIn(stack'[k], services')
    BY <1>5, <2>2, <2>3
  <2>5. QED
    BY <2>4 DEF CallsMapped, MappedIn
<1>7. EdgesMapped'
  BY <1>5, EdgesStayMapped DEF TypeInv, DataTypes, EdgeTypes, MapInv
<1>8. \A r \in Services : status'[r] = status[r] \/ r \in services'
  <2>1. status' = status \/ Forgive(s) \/ \E st \in Status : SetStatus(s, st)
    BY <1>4 DEF FinishStartService, ServiceFinishes, FailService, FinishStopService, Status
  <2>2. QED
    BY <1>2, <1>5, <2>1 DEF Forgive, SetStatus, TypeInv, DataTypes
<1>9. QED
  BY <1>5, <1>6, <1>7, <1>8, MapFrom

\* The map's invariant is inductive, given types and launchers.
LEMMA NextMap == TypeInv /\ LauncherInv /\ MapInv /\ [Next]_vars => MapInv'
<1> SUFFICES ASSUME TypeInv, LauncherInv, MapInv, [Next]_vars PROVE MapInv'
  OBVIOUS
<1>1. CASE Boot
  BY <1>1, TargetMapped, DaemonAssumption DEF Boot
<1>2. ASSUME NEW c \in Clients, Request(c) PROVE MapInv'
  BY <1>2, ClientMapped, TargetMapped DEF Request
<1>3. ASSUME NEW s \in Services, Deliver(s) PROVE MapInv'
  BY <1>3, DeliverMapped
<1>4. CASE Run
  BY <1>4, UpdateMapped, StartMapped, WalkMapped, FinishStopMapped, TargetMapped
     DEF Run, ServiceStep
<1>5. CASE UNCHANGED vars \/ \E s \in Services : Launch(s)
  <2>1. UNCHANGED <<status, deps, dependedBy, services, stack>>
    BY <1>5 DEF vars, Launch, serviceVars, edgeVars, callVars
  <2>2. QED
    BY <2>1 DEF MapInv, CallsMapped, EdgesMapped, EdgesIn, OthersInactive, MappedIn
<1>6. QED
  BY <1>1, <1>2, <1>3, <1>4, <1>5 DEF Next

-----------------------------------------------------------------------------
(* The invariants hold, and quiet stays.                                   *)

\* The map's invariant holds in every reachable state.
LEMMA MapInvariant == Spec => [](TypeInv /\ LauncherInv /\ MapInv)
  BY InitTypes, NextTypes, InitLauncher, NextLauncher, InitMap, NextMap, PTL DEF Spec

\* While a shutdown target is set, a service that does not ignore it and is down
\* stays down: shouldRun says no, and there is no launcher to report otherwise.
LEMMA DownStaysDown ==
  ASSUME TypeInv, LauncherInv, [Next]_vars, IsShutdown(tgts),
         NEW s \in Services \ IgnoreShutdown, Excluded(s)
  PROVE  Excluded(s)'
<1> USE DEF TypeInv, DataTypes
<1>1. CASE status' = status
  BY <1>1 DEF Excluded
<1>2. ASSUME NEW r \in Services, Forgive(r) PROVE Excluded(s)'
  BY <1>2 DEF Forgive, Excluded
<1>3. ASSUME NEW r \in Services, Update(r) PROVE Excluded(s)'
  <2>1. CASE ReadyToStart(r) /\ (RawStart(r) \/ RawStartFails(r))
    BY <2>1 DEF ReadyToStart, RawStart, RawStartFails, SetStatus, Excluded
  <2>2. CASE ReadyToStop(r) /\ RawStop(r)
    BY <2>2 DEF ReadyToStop, RawStop, SetStatus, Excluded
  <2>3. CASE WantsStart(r) /\ BeginStart(r)
    BY <2>3 DEF WantsStart, ShouldRun, MustStop, BeginStart, SetStatus, Excluded
  <2>4. CASE WantsStop(r) /\ BeginStop(r)
    BY <2>4 DEF WantsStop, Included, BeginStop, SetStatus, Excluded
  <2>5. CASE UpdateIsIdle(r)
    BY <1>1, <2>5 DEF UpdateIsIdle, serviceVars
  <2>6. QED
    BY <1>3, <2>1, <2>2, <2>3, <2>4, <2>5 DEF Update
<1>4. ASSUME NEW r \in Services, Deliver(r) PROVE Excluded(s)'
  <2>1. r # s
    BY <1>4 DEF Deliver, LauncherInv, NoStrayLauncher, Up, Excluded
  <2>2. Head(outbox[r]) \in Message /\ Handler(r, Head(outbox[r]))
    BY <1>4 DEF Deliver, LauncherInv, LauncherTypes
  <2>3. \/ FinishStartService(r) \/ ServiceFinishes(r)
        \/ FailService(r) \/ FinishStopService(r)
    BY <2>2 DEF Handler, Message
  <2>4. status'[s] = status[s]
    BY <2>1, <2>3 DEF FinishStartService, ServiceFinishes, FailService,
                      FinishStopService, SetStatus, Forgive
  <2>5. QED
    BY <2>4 DEF Excluded
<1>5. ASSUME NEW c \in Clients, Request(c) PROVE Excluded(s)'
  <2>1. status' = status \/ \E r \in Services : Forgive(r)
    BY <1>5 DEF Request, StartService, StopService, CascadeStopService, Refuse,
                SetTarget, serviceVars
  <2>2. QED
    BY <1>1, <1>2, <2>1
<1>6. CASE Run
  <2>1. status' = status \/ \E r \in Services : Update(r)
    BY <1>6 DEF Run, ServiceStep, CommandReturns, TargetNext, TargetEnds,
                StartDepends, StartDepended, StartTriesAfter, StartTriedAfter,
                StartAddedAfter, UpdateSelf, ReturnFromTail, StopNext,
                CascadeEnters, CascadeNext, FinishStartNext, FinishStartFails,
                FinishStartEnds, FinishStopNext, FinishStopEnds, serviceVars
  <2>2. QED
    BY <1>1, <1>3, <2>1
<1>7. CASE Boot \/ UNCHANGED vars \/ \E r \in Services : Launch(r)
  BY <1>1, <1>7 DEF Boot, SetTarget, Launch, vars, serviceVars
<1>8. QED
  BY <1>3, <1>4, <1>5, <1>6, <1>7 DEF Next

\* A shutdown target whose command has just been run was reached: what is in
\* the map is down, and what is not has never been up.
LEMMA ReachedIsQuiet ==
  ASSUME TypeInv, MapInv, CheckReach, status' = status,
         HasAttribute(tgts, ran \intersect SystemShutdown)',
         NEW s \in Known \ IgnoreShutdown
  PROVE  \/ HasAttribute(tgts, ran \intersect SystemShutdown)
         \/ Excluded(s)'
<1>1. CASE ran' = ran
  BY <1>1 DEF HasAttribute, CheckReach
<1>2. CASE ran' # ran
  <2>1. \A i \in DOMAIN tgts : HasReached(tgts[i])
    BY <1>2 DEF CheckReach
  <2>2. PICK i \in DOMAIN tgts : tgts[i] \in SystemShutdown
    BY DEF HasAttribute, CheckReach
  <2>3. CASE s \in services
    <3>1. s \in List(tgts[i], services) \intersect Known
      BY <2>3 DEF List
    <3>2. ReachedFor(tgts[i], s)
      BY <2>1, <3>1 DEF HasReached
    <3>3. QED
      BY <2>2, <3>2 DEF ReachedFor, Excluded
  <2>4. CASE s \notin services
    BY <2>4, ServiceAssumption DEF MapInv, OthersInactive, Excluded
  <2>5. QED
    BY <2>3, <2>4
<1>3. QED
  BY <1>1, <1>2

\* The command of a shutdown target is pending again when the target is set
\* anew; otherwise only reaching it makes it run.
LEMMA RunsWhenReached ==
  ASSUME TypeInv, [Next]_vars, HasAttribute(tgts, ran \intersect SystemShutdown)'
  PROVE  \/ HasAttribute(tgts, ran \intersect SystemShutdown)
         \/ CheckReach /\ status' = status
<1>1. CASE UNCHANGED <<tgts, ran>>
  BY <1>1 DEF HasAttribute
<1>2. ASSUME NEW t \in Targets, SetTarget(t)
      PROVE  HasAttribute(tgts, ran \intersect SystemShutdown)
  <2>1. CASE AlreadySet(t) /\ UNCHANGED targetVars
    BY <1>1, <2>1 DEF targetVars
  <2>2. CASE tgts' = AddTarget(tgts, t) /\ ran' = ran \ {t}
    <3>1. PICK i \in DOMAIN tgts' : tgts'[i] \in (ran \ {t}) \intersect SystemShutdown
      BY <2>2 DEF HasAttribute
    <3>2. tgts'[i] # t
      BY <3>1
    <3>3. tgts \in Seq(Targets)
      BY DEF TypeInv, DataTypes
    <3>4. i \in DOMAIN tgts /\ tgts'[i] = tgts[i]
      BY <1>2, <2>2, <3>1, <3>2, <3>3 DEF AddTarget
    <3>5. QED
      BY <3>1, <3>4 DEF HasAttribute
  <2>3. QED
    BY <1>2, <2>1, <2>2 DEF SetTarget, EnterTarget, EnterTargetFails
<1>3. ASSUME NEW s \in Services, Update(s) PROVE UNCHANGED <<tgts, ran>>
  BY <1>3 DEF Update, RawStart, RawStartFails, RawStop, BeginStart, BeginStop,
              UpdateIsIdle, targetVars
<1>4. CASE Run
  <2>1. \/ UNCHANGED targetVars
        \/ \E s \in Services : Update(s)
        \/ CheckReach /\ UNCHANGED serviceVars
    BY <1>4 DEF Run, ServiceStep, CommandReturns, TargetNext, TargetEnds,
                StartDepends, StartDepended, StartTriesAfter, StartTriedAfter,
                StartAddedAfter, UpdateSelf, ReturnFromTail, StopNext,
                CascadeEnters, CascadeNext, FinishStartNext, FinishStartFails,
                FinishStartEnds, FinishStopNext, FinishStopEnds
  <2>2. QED
    BY <1>1, <1>3, <2>1 DEF targetVars, serviceVars
<1>5. ASSUME NEW s \in Services, Deliver(s) PROVE UNCHANGED <<tgts, ran>>
  <2>1. Head(outbox[s]) \in Message /\ Handler(s, Head(outbox[s]))
    BY <1>5 DEF Deliver, TypeInv, DataTypes, LaunchTypeOK
  <2>2. QED
    BY <2>1 DEF Handler, Message, FinishStartService, ServiceFinishes, FailService,
                FinishStopService, targetVars
<1>6. ASSUME NEW c \in Clients, Request(c)
      PROVE  \/ UNCHANGED <<tgts, ran>> \/ \E t \in Targets : SetTarget(t)
  BY <1>6 DEF Request, StartService, StopService, CascadeStopService, Refuse, targetVars
<1>7. CASE Boot
  BY <1>2, <1>7, DaemonAssumption DEF Boot
<1>8. CASE UNCHANGED vars \/ \E s \in Services : Launch(s)
  BY <1>1, <1>8 DEF vars, Launch, targetVars
<1>9. QED
  BY <1>1, <1>2, <1>4, <1>5, <1>6, <1>7, <1>8 DEF Next

\* Every step keeps a quiet shutdown quiet.
LEMMA QuietStep ==
  TypeInv /\ LauncherInv /\ LauncherInv' /\ MapInv /\ ShutdownIsQuiet /\ [Next]_vars
    => ShutdownIsQuiet'
<1> SUFFICES ASSUME TypeInv, LauncherInv, LauncherInv', MapInv, ShutdownIsQuiet,
                    [Next]_vars,
                    HasAttribute(tgts, ran \intersect SystemShutdown)',
                    NEW s \in Known \ IgnoreShutdown
             PROVE  Excluded(s)' /\ ~Alive(s)'
  BY DEF ShutdownIsQuiet
<1>1. s \in Services
  BY ServiceAssumption
<1>2. Excluded(s)'
  <2>1. CASE HasAttribute(tgts, ran \intersect SystemShutdown)
    <3>1. Excluded(s)
      BY <2>1 DEF ShutdownIsQuiet
    <3>2. IsShutdown(tgts)
      BY <2>1 DEF IsShutdown, HasAttribute
    <3>3. QED
      BY <1>1, <3>1, <3>2, DownStaysDown
  <2>2. CASE ~HasAttribute(tgts, ran \intersect SystemShutdown)
    BY <2>2, RunsWhenReached, ReachedIsQuiet
  <2>3. QED
    BY <2>1, <2>2
<1>3. ~Alive(s)'
  <2>1. ~Up(s)'
    BY <1>2 DEF Excluded, Up
  <2>2. QED
    BY <1>1, <2>1 DEF LauncherInv, NoStrayLauncher
<1>4. QED
  BY <1>2, <1>3

\* Once the command of a shutdown target has been run, every service but the
\* IgnoreShutdown ones is down and stays down while the target is set
\* (PxService.hpp, shouldRun and ReachedForTarget; PxServiceManager.hpp,
\* ReachedTarget): PxInit begins to kill only when the daemon has finished.
THEOREM QuietShutdown == Spec => []ShutdownIsQuiet
<1>1. Init => ShutdownIsQuiet
  BY DEF Init, ShutdownIsQuiet, HasAttribute
<1>2. QED
  BY <1>1, QuietStep, MapInvariant, PTL DEF Spec
=============================================================================
