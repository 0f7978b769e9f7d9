------------------------------ MODULE PxDaemon ------------------------------
(***************************************************************************)
(* PxDaemon: one manager, the launchers of its services and the clients of *)
(* its socket (src/src/PxDaemon/PxDaemon.cpp).  main() sets the target     *)
(* "boot" and then serves commands one at a time: PxDOnCommand is run to   *)
(* its end before the next command is read.                                *)
(***************************************************************************)
EXTENDS PxServiceManager

CONSTANTS BootTarget,  \* "boot"
          Requests     \* the commands clients may send, as <<verb, argument>>

ASSUME DaemonAssumption ==
  /\ BootTarget \in Targets
  /\ BootTarget \notin SystemShutdown
  /\ Requests \subseteq ({"start", "stop", "cascade-stop"} \X Services)
                         \union ({"target"} \X Targets)

TypeOK == ServiceTypeOK /\ LaunchTypeOK

Init ==
  /\ status = [s \in Services |-> "Inactive"]
  /\ userOverride = [s \in Services |-> "Auto"]
  /\ failLocked = [s \in Services |-> FALSE]
  /\ deps = [s \in Services |-> <<>>]
  /\ dependedBy = [s \in Services |-> <<>>]
  /\ subscribed = [s \in Services |-> {}]
  /\ reply = [c \in Clients |-> "unsent"]
  /\ services = {}
  /\ tgts = <<>>
  /\ reached = {}
  /\ reachedTarget = FALSE
  /\ ran = {}
  /\ stack = <<>>
  /\ ret = "idle"
  /\ faults = 0
  /\ LaunchInit

Boot ==
  /\ tgts = <<>>
  /\ SetTarget(BootTarget)
  /\ UNCHANGED reply

\* A client sends its command.
Request(c) ==
  /\ Idle
  /\ reply[c] = "unsent"
  /\ \/ \E s \in Services : <<"start", s>> \in Requests /\ StartService(s, c)
     \/ \E s \in Services : <<"stop", s>> \in Requests /\ StopService(s, c)
     \/ \E s \in Services :
          <<"cascade-stop", s>> \in Requests /\ CascadeStopService(s, c)
     \/ /\ \E t \in Targets : <<"target", t>> \in Requests /\ SetTarget(t)
        /\ reply' = [reply EXCEPT ![c] = "pending"]

\* Fault: "finfail" is not in the table of commands.
HandlerOfSuccess(s, m) ==
  CASE m = "finstart" -> FinishStartService(s)
    [] m = "servfin"  -> ServiceFinishes(s)
    [] m = "servfail" -> FailService(s)
    [] m = "finstop"  -> FinishStopService(s)
    [] m = "finfail"  -> UNCHANGED <<serviceVars, edgeVars, clientVars, targetVars,
                                     callVars, services, faults>>

\* PxDOnCommand on what a launcher wrote.
Handler(s, m) ==
  CASE m = "finstart" -> FinishStartService(s)
    [] m = "servfin"  -> ServiceFinishes(s)
    [] m = "servfail" -> FailService(s)
    [] m \in {"finstop", "finfail"} -> FinishStopService(s)

Deliver(s) ==
  /\ Idle
  /\ outbox[s] # <<>>
  /\ outbox' = [outbox EXCEPT ![s] = Tail(@)]
  /\ Handler(s, Head(outbox[s]))
  /\ UNCHANGED <<stage, intr>>

\* A step of the call in progress.
Run == ServiceStep \/ CommandReturns \/ TargetNext \/ TargetEnds

Launch(s) ==
  /\ LaunchNext(s)
  /\ UNCHANGED <<serviceVars, edgeVars, clientVars, targetVars, callVars,
                 services, faults>>

Next ==
  \/ Boot
  \/ \E c \in Clients : Request(c)
  \/ \E s \in Services : Deliver(s) \/ Launch(s)
  \/ Run

Spec == Init /\ [][Next]_vars

\* The daemon's loop goes on, and reads every connection in each round; the
\* launchers run.  Clients owe nothing.
Fairness ==
  /\ WF_vars(Boot \/ Run)
  /\ \A s \in Services : WF_vars(Deliver(s))
  /\ LaunchFairness

FairSpec == Spec /\ Fairness

-----------------------------------------------------------------------------
(* Safety.                                                                 *)

\* The statuses of a service that has, or had until it reported its end, a
\* launcher.
Up(s) == status[s] \in {"Starting", "Running", "StopWaiting", "Stopping",
                        "FailStopping"}

\* A service that is not up has no launcher, and no report of an old one is
\* still to be read: a new launcher never competes with another, and a late
\* "finstop" never takes down a service that has been started since.
NoStrayLauncher ==
  \A s \in Services : ~Up(s) => ~Alive(s) /\ outbox[s] = <<>>

Farewell == {"finstop", "finfail"}

WillReport(s) ==
  Alive(s) \/ (outbox[s] # <<>> /\ outbox[s][Len(outbox[s])] \in Farewell)

\* While every system call works, a service that is up will be heard of again:
\* its launcher is alive, or the last thing it wrote is on its way.  No service
\* waits in Starting or Stopping for a report nobody will send.
NoLostLauncher == faults = 0 => \A s \in Services : Up(s) => WillReport(s)

Quiescent == stack = <<>>

Occurrences(seq, e) == Cardinality({i \in DOMAIN seq : seq[i] = e})

\* Between two commands deps and dependedBy are each other's mirror image: an
\* edge recorded at one end only would keep a dependency up for ever, or let it
\* stop under a service that needs it.
EdgesMatch ==
  Quiescent =>
    \A a, b \in Services, o \in BOOLEAN :
      Occurrences(deps[a], [name |-> b, optional |-> o])
        = Occurrences(dependedBy[b], [name |-> a, optional |-> o])

\* A service that is not running holds on to nothing once its stop is done.
NoEdgeOfTheDead == Quiescent => \A s \in Services : Excluded(s) => deps[s] = <<>>

\* The lists walked by reference (for (auto &i : dependedBy)) by a call that is
\* still in progress: a push_back or erase in a nested call would leave the
\* iterator dangling.
WalksDependents(s) ==
  \E k \in DOMAIN stack : /\ stack[k].fn \in {"stop", "cascadeStop", "finishStart"}
                          /\ stack[k].svc = s
WalksDependencies(s) ==
  \E k \in DOMAIN stack : stack[k].fn = "finishStop" /\ stack[k].svc = s

WalkedListsStay ==
  [][\A s \in Services :
       /\ WalksDependents(s) => dependedBy'[s] = dependedBy[s]
       /\ WalksDependencies(s) => deps'[s] = deps[s] \/ Len(stack') < Len(stack)]_vars

\* Once the command of a shutdown target has run (it makes PxInit kill what is
\* left), everything but the IgnoreShutdown services is down, and stays down as
\* long as that target is set, whatever clients ask for.
ShutdownIsQuiet ==
  HasAttribute(tgts, ran \intersect SystemShutdown) =>
    \A s \in Known \ IgnoreShutdown : Excluded(s) /\ ~Alive(s)

\* Both of these, where something may come between two steps of a call: the
\* lists of dependencies are as they should be between two calls, and a
\* shutdown leaves nothing up that the interrupted call was about to start.
ListsAgree == EdgesMatch /\ ShutdownIsQuiet

-----------------------------------------------------------------------------
(* The daemon implements PxSupervision.                                    *)

Required(s) ==
  {Depend[s][i].name : i \in {j \in DOMAIN Depend[s] : ~Depend[s][j].optional}}

Supervision == INSTANCE PxSupervision WITH
  Requires <- [s \in Services |-> Required(s)],
  up       <- {s \in Services : Up(s)},
  running  <- {s \in Services : Included(s)},
  told     <- {s \in Services : status[s] \in {"Stopping", "FailStopping"}}

\* Through all the nested calls, a service enters Starting only while every
\* service on its mandatory Depend lines is Running, and Stopping only while no
\* service that has it on such a line is up.
Supervised == Supervision!Spec

-----------------------------------------------------------------------------
(* Liveness, under FairSpec.                                               *)

\* The nested calls of a command come to an end: the daemon always returns to
\* its loop, though update() calls itself through every list of dependencies.
HandlerReturns == (stack # <<>>) ~> (stack = <<>>)

\* A service whose launcher has been forked or interrupted does not stay
\* half-way: it becomes Running, Inactive or Failed.
HalfWay(s) == status[s] \in {"Starting", "Stopping", "FailStopping"}

NobodyStaysHalfWay == \A s \in Services : HalfWay(s) ~> ~HalfWay(s)

\* A shutdown that begins while nothing is being started runs to its end: every
\* service stops, dependents first, and the target's command is run.  (One that
\* begins in the middle of a start may not: see ShutdownTakesPrecedence.)
SettingShutdown ==
  /\ stack # <<>> /\ Top.fn = "setTarget"
  /\ HasAttribute(tgts, SystemShutdown)
NothingStarts == \A s \in Services : status[s] \notin {"Waiting", "Starting"}

OrderlyShutdown ==
  (SettingShutdown /\ NothingStarts) ~>
    (HasAttribute(tgts, ran \intersect SystemShutdown) \/ ~IsShutdown(tgts))

-----------------------------------------------------------------------------
(* What comments of the code say and the code does not do.                 *)

\* PxService.hpp, shouldRun: "System shutdown takes precedence over all other
\* things."  So a service that does not ignore it is brought down.
ShutdownTakesPrecedence ==
  \A s \in Services : MustStop(s) ~> (Excluded(s) \/ ~MustStop(s))

\* PxServiceHelpers.hpp, Waiting: "The service is waiting for a dependency to
\* finish starting".  So one of its dependencies is being started.
WaitingForAStart ==
  Quiescent =>
    \A s \in Services : status[s] = "Waiting" =>
      \E i \in DOMAIN deps[s] : status[deps[s][i].name] \in {"Waiting", "Starting"}

\* PxService.hpp, update of a Waiting service: "Check if dependencies have
\* started."  So its mandatory ones have when it is started.
StartsAfterDependencies ==
  [][\A s \in Services :
       (status[s] = "Waiting" /\ status'[s] = "Starting") =>
         \A d \in Required(s) : Included(d)]_vars
=============================================================================
