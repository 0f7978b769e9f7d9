----------------------------- MODULE PxService -----------------------------
(***************************************************************************)
(* The services of one manager and the functions of class Service that     *)
(* change them: start, raw_start, finishStart, stop, cascadeStop,          *)
(* raw_stop, finishStop and update (src/include/PxService.hpp), which call *)
(* one another, on one service and across its dependencies, before the     *)
(* single-threaded daemon returns to its loop.                             *)
(*                                                                         *)
(* The calls in progress are an explicit stack of frames, the running one  *)
(* first, so that every state a nested call can see is a state of the      *)
(* model, and no recursive operator is needed.  ret is what the last frame *)
(* to be popped returned.  While the stack is not empty only its first     *)
(* frame steps on behalf of the daemon; launchers run all the time.        *)
(***************************************************************************)
EXTENDS PxTarget, PxLaunch, SequencesExt

CONSTANTS Known,           \* services that have a service file
          Depend,          \* Depend[s]: its "Depend" lines, as edges
          After,           \* After[s]: its "After" lines, as names
          IgnoreShutdown,  \* services with IgnoreShutdown = true
          Clients,         \* connections that send one command each
          MaxFaults        \* how many operating-system calls may fail

\* An entry of deps or dependedBy (DependType).
Edge == [name : Services, optional : BOOLEAN]

ASSUME ServiceAssumption ==
  /\ Known \subseteq Services
  /\ Depend \in [Services -> Seq(Edge)]
  /\ After \in [Services -> Seq(Services)]
  /\ IgnoreShutdown \subseteq Services
  /\ MaxFaults \in Nat

VARIABLES
  status, userOverride, failLocked, deps, dependedBy,  \* fields of Service
  subscribed,     \* subscribed_handles: who waits to be told
  services,       \* the names in the manager's map
  tgts,           \* the collective target
  reached,        \* the targets in tgts whose reachedTarget is set
  reachedTarget,  \* the manager's own flag: all of them
  ran,            \* the targets whose collective command has been run since set
  reply,          \* what each client has been told
  stack, ret,     \* the calls in progress, the last value returned
  faults          \* the calls that have failed so far

serviceVars == <<status, userOverride, failLocked>>
edgeVars    == <<deps, dependedBy>>
clientVars  == <<subscribed, reply>>
targetVars  == <<tgts, reached, reachedTarget, ran>>
callVars    == <<stack, ret>>
vars == <<serviceVars, edgeVars, clientVars, targetVars, callVars,
          services, faults, launchVars>>

\* "unsent": its command is to come; "pending": it has been given nothing yet.
Reply == {"unsent", "pending", "started", "stopped", "failed", "error"}

\* A call of a member function of Service on svc, at a point of its body; i is
\* the next element of the list it walks.
ServiceFrame ==
  [fn : {"update", "start", "stop", "finishStart", "finishStop", "cascadeStop"},
   svc : Services, i : Nat,
   at : {"enter", "next", "depended", "tried", "after", "tail"}]
\* A call of setTarget, with the services it has still to update.
TargetFrame == [fn : {"setTarget"}, todo : SUBSET Services]
\* PxDOnCommand on behalf of a client that is told of an error.
CommandFrame == [fn : {"command"}, client : Clients]
Frame == ServiceFrame \union TargetFrame \union CommandFrame

Return == {"acted", "idle", "err"}

ServiceTypeOK ==
  /\ status \in [Services -> Status]
  /\ userOverride \in [Services -> Override]
  /\ failLocked \in [Services -> BOOLEAN]
  /\ deps \in [Services -> Seq(Edge)]
  /\ dependedBy \in [Services -> Seq(Edge)]
  /\ subscribed \in [Services -> SUBSET Clients]
  /\ services \subseteq Services
  /\ tgts \in Seq(Targets)
  /\ reached \subseteq Targets
  /\ reachedTarget \in BOOLEAN
  /\ ran \subseteq Targets
  /\ reply \in [Clients -> Reply]
  /\ stack \in Seq(Frame)
  /\ ret \in Return
  /\ faults \in 0..MaxFaults

-----------------------------------------------------------------------------
(* Calls and returns.                                                      *)

Call(fn, s) == [fn |-> fn, svc |-> s, at |-> "next", i |-> 1]

Top == Head(stack)

\* The running frame goes on as f; or goes on as f once g has returned; or
\* returns v.
Continue(f) == stack' = <<f>> \o Tail(stack) /\ UNCHANGED ret
Invoke(f, g) == stack' = <<g, f>> \o Tail(stack) /\ UNCHANGED ret
ReturnWith(v) == stack' = Tail(stack) /\ ret' = v

At(label) == [Top EXCEPT !.at = label]
Next1     == [Top EXCEPT !.at = "next", !.i = @ + 1]

\* The running frame is a call of fn on s, at label.
Runs(fn, s, label) ==
  /\ stack # <<>>
  /\ Top.fn = fn
  /\ Top.svc = s
  /\ Top.at = label

-----------------------------------------------------------------------------
(* What the fields of a service say.                                       *)

Excluded(s) == status[s] \in {"Inactive", "Failed"}
Included(s) == status[s] = "Running"
\* isRunning() is Auto for every other status.
Moving(s) == ~Excluded(s) /\ ~Included(s)

MustStop(s) == IsShutdown(tgts) /\ s \notin IgnoreShutdown

ShouldRun(s) ==
  /\ ~MustStop(s)
  /\ ~failLocked[s]
  /\ \/ dependedBy[s] # <<>>
     \/ userOverride[s] = "Include"
     \/ userOverride[s] = "Auto" /\ TargetIncludes(tgts, s)

\* Fault: any dependency that has come to rest will do.
DependencyRests(e) == ~Moving(e.name)

\* update() of a Waiting service: a dependency has started, or is optional and
\* not running.
DependencyReady(e) == Included(e.name) \/ (e.optional /\ Excluded(e.name))
DependenciesReady(s) == \A i \in DOMAIN deps[s] : DependencyReady(deps[s][i])

\* update() of a StopWaiting service: a dependent has stopped, or is optional
\* and running.
DependentGone(e) == Excluded(e.name) \/ (e.optional /\ Included(e.name))
DependentsGone(s) ==
  \A i \in DOMAIN dependedBy[s] : DependentGone(dependedBy[s][i])

-----------------------------------------------------------------------------
(* Side effects shared by several functions.                               *)

SetStatus(s, st) == status' = [status EXCEPT ![s] = st]

AddEdge(s, d, optional) ==
  /\ dependedBy' = [dependedBy EXCEPT ![d] =
                      Append(@, [name |-> s, optional |-> optional])]
  /\ deps' = [deps EXCEPT ![s] = Append(@, [name |-> d, optional |-> optional])]

DropEdge(s, d, optional) ==
  /\ dependedBy' = [dependedBy EXCEPT ![d] =
                      RemoveFirst(@, [name |-> s, optional |-> optional])]
  /\ deps' = [deps EXCEPT ![s] =
                RemoveFirst(@, [name |-> d, optional |-> optional])]

\* dispatchState.  A client that has its answer has left (EPIPE).
Dispatch(s, news) ==
  /\ reply' = [c \in Clients |->
                 IF c \in subscribed[s] /\ reply[c] = "pending"
                 THEN news ELSE reply[c]]
  /\ subscribed' = [subscribed EXCEPT ![s] = {}]

\* Fault: a service that has come to rest is as good as one that is down.
ReachedAtRest(t, s) == ~Moving(s)

\* ReachedForTarget, Target::hasReached: a service that cannot be loaded does
\* not count.  (Loading it here adds a name to the map only if the target
\* mentions it, and List counts those anyway.)
ReachedFor(t, s) ==
  IF t \in SystemShutdown /\ s \notin IgnoreShutdown THEN Excluded(s) ELSE ~Moving(s)
HasReached(t) == \A s \in List(t, services) \intersect Known : ReachedFor(t, s)

\* ServiceManager::ReachedTarget, called as CheckReach.  Each target keeps the
\* flag it once earned; the collective command runs when all have reached at
\* the same time, once per setTarget.
CheckReach ==
  LET now == {tgts[i] : i \in DOMAIN tgts}
      all == \A t \in now : HasReached(t)
  IN  /\ reached' = reached \union {t \in now : HasReached(t)}
      /\ reachedTarget' = (reachedTarget \/ all)
      /\ ran' = IF all /\ ~reachedTarget THEN ran \union now ELSE ran
      /\ UNCHANGED tgts

-----------------------------------------------------------------------------
(* update().                                                               *)

\* raw_start: the service is Starting before its log and its launcher exist.
RawStart(s) ==
  /\ SetStatus(s, "Starting")
  /\ Fork(s)
  /\ ReturnWith("acted")
  /\ UNCHANGED <<userOverride, failLocked, edgeVars, clientVars, targetVars,
                 services, faults>>

\* The logger is not to be reached, or fork fails: the status stays.
RawStartFails(s) ==
  /\ faults < MaxFaults
  /\ faults' = faults + 1
  /\ SetStatus(s, "Starting")
  /\ ReturnWith("err")
  /\ UNCHANGED <<userOverride, failLocked, edgeVars, clientVars, targetVars,
                 services, launchVars>>

RawStop(s) ==
  /\ SetStatus(s, IF failLocked[s] THEN "FailStopping" ELSE "Stopping")
  /\ Interrupt(s)
  /\ ReturnWith("acted")
  /\ UNCHANGED <<userOverride, failLocked, edgeVars, clientVars, targetVars,
                 services, faults>>

\* The first lines of start().
BeginStart(s) ==
  /\ SetStatus(s, "Waiting")
  /\ deps' = [deps EXCEPT ![s] = <<>>]
  /\ Continue(Call("start", s))
  /\ UNCHANGED <<userOverride, failLocked, dependedBy, clientVars, targetVars,
                 services, faults, launchVars>>

\* The first lines of stop().
BeginStop(s) ==
  /\ SetStatus(s, "StopWaiting")
  /\ Continue(Call("stop", s))
  /\ UNCHANGED <<userOverride, failLocked, edgeVars, clientVars, targetVars,
                 services, faults, launchVars>>

UpdateIsIdle(s) ==
  /\ ReturnWith("idle")
  /\ UNCHANGED <<serviceVars, edgeVars, clientVars, targetVars, services,
                 faults, launchVars>>

ReadyToStart(s) == status[s] = "Waiting" /\ DependenciesReady(s)
ReadyToStop(s)  == status[s] = "StopWaiting" /\ DependentsGone(s)
WantsStart(s)   == Excluded(s) /\ ShouldRun(s)
WantsStop(s)    == Included(s) /\ ~ShouldRun(s)

Update(s) ==
  /\ Runs("update", s, "next")
  /\ \/ ReadyToStart(s) /\ (RawStart(s) \/ RawStartFails(s))
     \/ ReadyToStop(s)  /\ RawStop(s)
     \/ WantsStart(s)   /\ BeginStart(s)
     \/ WantsStop(s)    /\ BeginStop(s)
     \/ /\ ~(ReadyToStart(s) \/ ReadyToStop(s) \/ WantsStart(s) \/ WantsStop(s))
        /\ UpdateIsIdle(s)

-----------------------------------------------------------------------------
(* start(): the Depend lines, then the After lines, then update().         *)

DependAt(s)    == Depend[s][Top.i]
AfterAt(s)     == After[s][Top.i - Len(Depend[s])]
AtDepend(s)    == Top.i <= Len(Depend[s])
AtAfter(s)     == Top.i \in Len(Depend[s]) + 1 .. Len(Depend[s]) + Len(After[s])
PastBoth(s)    == Top.i > Len(Depend[s]) + Len(After[s])

\* LoadServiceOf: the name enters the map even when there is no such service.
Load(d) == services' = services \union {d}

\* The edge is recorded first, then the dependency is updated.
StartDepends(s) ==
  /\ Runs("start", s, "next") /\ AtDepend(s)
  /\ LET d == DependAt(s)
     IN  /\ Load(d.name)
         /\ \/ /\ d.name \in Known
               /\ AddEdge(s, d.name, d.optional)
               /\ Invoke(At("depended"), Call("update", d.name))
            \/ /\ d.name \notin Known /\ d.optional
               /\ Continue(Next1)
               /\ UNCHANGED edgeVars
            \/ /\ d.name \notin Known /\ ~d.optional
               /\ ReturnWith("err")
               /\ UNCHANGED edgeVars
  /\ UNCHANGED <<serviceVars, clientVars, targetVars, faults, launchVars>>

\* An error undoes an optional dependency and ends start() on a mandatory one,
\* with the service Waiting and the edges recorded so far in place.
StartDepended(s) ==
  /\ Runs("start", s, "depended")
  /\ LET d == DependAt(s)
     IN  \/ ret # "err" /\ Continue(Next1) /\ UNCHANGED edgeVars
         \/ /\ ret = "err" /\ d.optional
            /\ DropEdge(s, d.name, TRUE)
            /\ Continue(Next1)
         \/ ret = "err" /\ ~d.optional /\ ReturnWith("err") /\ UNCHANGED edgeVars
  /\ UNCHANGED <<serviceVars, clientVars, targetVars, services, faults, launchVars>>

\* A service named in After is updated before there is an edge to it.
StartTriesAfter(s) ==
  /\ Runs("start", s, "next") /\ AtAfter(s)
  /\ LET a == AfterAt(s)
     IN  /\ Load(a)
         /\ \/ a \in Known    /\ Invoke(At("tried"), Call("update", a))
            \/ a \notin Known /\ Continue(Next1)
  /\ UNCHANGED <<serviceVars, edgeVars, clientVars, targetVars, faults, launchVars>>

\* Only one that had something to do is waited for.
StartTriedAfter(s) ==
  /\ Runs("start", s, "tried")
  /\ LET a == AfterAt(s)
     IN  \/ /\ ret = "acted"
            /\ AddEdge(s, a, TRUE)
            /\ Invoke(At("after"), Call("update", a))
         \/ ret # "acted" /\ Continue(Next1) /\ UNCHANGED edgeVars
  /\ UNCHANGED <<serviceVars, clientVars, targetVars, services, faults, launchVars>>

StartAddedAfter(s) ==
  /\ Runs("start", s, "after")
  /\ Continue(Next1)
  /\ IF ret = "err" THEN DropEdge(s, AfterAt(s), TRUE) ELSE UNCHANGED edgeVars
  /\ UNCHANGED <<serviceVars, clientVars, targetVars, services, faults, launchVars>>

-----------------------------------------------------------------------------
(* What start(), stop() and cascadeStop() end with: update() of the        *)
(* service itself.                                                         *)

DependentAt(s) == dependedBy[s][Top.i]
MoreDependents(s) == Top.i <= Len(dependedBy[s])

ListIsDone(s) ==
  \/ Top.fn = "start" /\ PastBoth(s)
  \/ Top.fn \in {"stop", "cascadeStop"} /\ ~MoreDependents(s)

UpdateSelf(s) ==
  /\ \E fn \in {"start", "stop", "cascadeStop"} : Runs(fn, s, "next")
  /\ ListIsDone(s)
  /\ Invoke(At("tail"), Call("update", s))
  /\ UNCHANGED <<serviceVars, edgeVars, clientVars, targetVars, services,
                 faults, launchVars>>

ReturnFromTail(s) ==
  /\ \E fn \in {"start", "stop", "cascadeStop"} : Runs(fn, s, "tail")
  /\ ReturnWith(IF ret = "err" THEN "err" ELSE "acted")
  /\ UNCHANGED <<serviceVars, edgeVars, clientVars, targetVars, services,
                 faults, launchVars>>

-----------------------------------------------------------------------------
(* stop() and cascadeStop() walk the dependents and ignore errors.         *)

\* Fault: the walk does not advance.
StopNextAgain(s) ==
  /\ Runs("stop", s, "next") /\ MoreDependents(s)
  /\ Invoke(Top, Call("update", DependentAt(s).name))
  /\ UNCHANGED <<serviceVars, edgeVars, clientVars, targetVars, services,
                 faults, launchVars>>

StopNext(s) ==
  /\ Runs("stop", s, "next") /\ MoreDependents(s)
  /\ Invoke(Next1, Call("update", DependentAt(s).name))
  /\ UNCHANGED <<serviceVars, edgeVars, clientVars, targetVars, services,
                 faults, launchVars>>

CascadeCall(s) == [Call("cascadeStop", s) EXCEPT !.at = "enter"]

CascadeEnters(s) ==
  /\ Runs("cascadeStop", s, "enter")
  /\ userOverride' = [userOverride EXCEPT ![s] = "Exclude"]
  /\ IF Included(s) THEN Continue(At("next")) ELSE ReturnWith("idle")
  /\ UNCHANGED <<status, failLocked, edgeVars, clientVars, targetVars, services,
                 faults, launchVars>>

CascadeNext(s) ==
  /\ Runs("cascadeStop", s, "next") /\ MoreDependents(s)
  /\ IF DependentAt(s).optional
     THEN Continue(Next1)
     ELSE Invoke(Next1, CascadeCall(DependentAt(s).name))
  /\ UNCHANGED <<serviceVars, edgeVars, clientVars, targetVars, services,
                 faults, launchVars>>

-----------------------------------------------------------------------------
(* finishStart(): tell the dependents, then the targets and the clients.   *)
(* The service is Running already.  An error ends it there.                *)

FinishStartNext(s) ==
  /\ Runs("finishStart", s, "next") /\ ret # "err" /\ MoreDependents(s)
  /\ Invoke(Next1, Call("update", DependentAt(s).name))
  /\ UNCHANGED <<serviceVars, edgeVars, clientVars, targetVars, services,
                 faults, launchVars>>

FinishStartFails(s) ==
  /\ Runs("finishStart", s, "next") /\ ret = "err"
  /\ ReturnWith("err")
  /\ UNCHANGED <<serviceVars, edgeVars, clientVars, targetVars, services,
                 faults, launchVars>>

\* Fault: who waits for the service is not told.
FinishStartUnheard(s) ==
  /\ Runs("finishStart", s, "next") /\ ret # "err" /\ ~MoreDependents(s)
  /\ CheckReach
  /\ ReturnWith("idle")
  /\ UNCHANGED <<serviceVars, edgeVars, clientVars, services, faults, launchVars>>

FinishStartEnds(s) ==
  /\ Runs("finishStart", s, "next") /\ ret # "err" /\ ~MoreDependents(s)
  /\ CheckReach
  /\ Dispatch(s, "started")
  /\ ReturnWith("idle")
  /\ UNCHANGED <<serviceVars, edgeVars, services, faults, launchVars>>

-----------------------------------------------------------------------------
(* finishStop(): give every dependency back, and let it stop if nobody     *)
(* else wants it.  The service is Inactive or Failed already.              *)

\* Fault: the first edge is dropped, whosever it is.
IsAnyEdge(e, s) == TRUE

IsEdgeOf(e, s) == e.name = s
WithoutEdgeOf(q, s) == RemoveFirstMatch(q, LAMBDA e : IsEdgeOf(e, s))

\* Fault: each entry of deps is erased as it is walked over.
FinishStopErasing(s) ==
  /\ Runs("finishStop", s, "next") /\ Top.i <= Len(deps[s])
  /\ LET d == deps[s][Top.i].name
     IN  /\ dependedBy' = [dependedBy EXCEPT ![d] = WithoutEdgeOf(@, s)]
         /\ deps' = [deps EXCEPT ![s] = RemoveAt(@, Top.i)]
         /\ Invoke(Top, Call("update", d))
  /\ UNCHANGED <<serviceVars, clientVars, targetVars, services, faults, launchVars>>

\* Fault: the dependencies are not told.
FinishStopSilently(s) ==
  /\ Runs("finishStop", s, "next") /\ Top.i <= Len(deps[s])
  /\ LET d == deps[s][Top.i].name
     IN  dependedBy' = [dependedBy EXCEPT ![d] = WithoutEdgeOf(@, s)]
  /\ Continue(Next1)
  /\ UNCHANGED <<serviceVars, deps, clientVars, targetVars, services, faults,
                 launchVars>>

FinishStopNext(s) ==
  /\ Runs("finishStop", s, "next") /\ Top.i <= Len(deps[s])
  /\ LET d == deps[s][Top.i].name
     IN  /\ dependedBy' = [dependedBy EXCEPT ![d] = WithoutEdgeOf(@, s)]
         /\ Invoke(Next1, Call("update", d))
  /\ UNCHANGED <<serviceVars, deps, clientVars, targetVars, services, faults,
                 launchVars>>

\* Fault: the list of dependencies is kept.
FinishStopKeeping(s) ==
  /\ Runs("finishStop", s, "next") /\ Top.i > Len(deps[s])
  /\ CheckReach
  /\ ReturnWith("idle")
  /\ UNCHANGED <<serviceVars, edgeVars, clientVars, services, faults, launchVars>>

FinishStopEnds(s) ==
  /\ Runs("finishStop", s, "next") /\ Top.i > Len(deps[s])
  /\ deps' = [deps EXCEPT ![s] = <<>>]
  /\ CheckReach
  /\ ReturnWith("idle")
  /\ UNCHANGED <<serviceVars, dependedBy, clientVars, services, faults, launchVars>>

\* One step of the running call, when it is a member function of Service.
ServiceStep ==
  \E s \in Services :
    \/ Update(s)
    \/ StartDepends(s) \/ StartDepended(s)
    \/ StartTriesAfter(s) \/ StartTriedAfter(s) \/ StartAddedAfter(s)
    \/ UpdateSelf(s) \/ ReturnFromTail(s)
    \/ StopNext(s) \/ CascadeEnters(s) \/ CascadeNext(s)
    \/ FinishStartNext(s) \/ FinishStartFails(s) \/ FinishStartEnds(s)
    \/ FinishStopNext(s) \/ FinishStopEnds(s)
=============================================================================
