-------------------------- MODULE PxServiceManager --------------------------
(***************************************************************************)
(* The requests a ServiceManager serves (src/include/PxServiceManager.hpp):*)
(* each starts a chain of calls of PxService, and is served only when the  *)
(* one before has returned.                                                *)
(***************************************************************************)
EXTENDS PxService

\* main() has called setTarget("boot"), and no call is in progress.
Idle == stack = <<>> /\ tgts # <<>>

Serve(frames) == stack' = frames /\ ret' = "idle"

Command(c) == [fn |-> "command", client |-> c]

-----------------------------------------------------------------------------
(* Requests of clients.                                                    *)

\* ReloadService failed with ENOENT: "error nonexist".
Refuse(s, c) ==
  /\ s \notin Known
  /\ Load(s)
  /\ reply' = [reply EXCEPT ![c] = "error"]
  /\ UNCHANGED <<serviceVars, edgeVars, subscribed, targetVars, callVars, faults,
                 launchVars>>

\* The client is subscribed to whatever happens next to s.
Subscribe(s, c) ==
  /\ subscribed' = [subscribed EXCEPT ![s] = @ \union {c}]
  /\ reply' = [reply EXCEPT ![c] = "pending"]

Unlock(s) == failLocked' = [failLocked EXCEPT ![s] = FALSE]

Want(s, override) == userOverride' = [userOverride EXCEPT ![s] = override]

\* Fault: any service that is to stop counts as stopped.
ForgiveAll(s) == status' = [status EXCEPT ![s] = "Inactive"]

\* Failed is Inactive again once somebody stops the service.
Forgive(s) ==
  status' = [status EXCEPT ![s] = IF @ = "Failed" THEN "Inactive" ELSE @]

StartService(s, c) ==
  \/ Refuse(s, c)
  \/ /\ s \in Known
     /\ Load(s) /\ Subscribe(s, c)
     /\ Unlock(s) /\ Want(s, "Include")
     /\ Serve(<<Call("update", s), Command(c)>>)
     /\ UNCHANGED <<status, edgeVars, targetVars, faults, launchVars>>

StopService(s, c) ==
  \/ Refuse(s, c)
  \/ /\ s \in Known
     /\ Load(s) /\ Subscribe(s, c)
     /\ Unlock(s) /\ Forgive(s) /\ Want(s, "Exclude")
     /\ Serve(<<Call("update", s), Command(c)>>)
     /\ UNCHANGED <<edgeVars, targetVars, faults, launchVars>>

\* The client is told nothing, whatever the outcome.
CascadeStopService(s, c) ==
  /\ Load(s)
  /\ reply' = [reply EXCEPT ![c] = "pending"]
  /\ \/ /\ s \notin Known
        /\ UNCHANGED <<serviceVars, callVars>>
     \/ /\ s \in Known
        /\ Unlock(s) /\ Forgive(s)
        /\ Serve(<<CascadeCall(s)>>)
        /\ UNCHANGED userOverride
  /\ UNCHANGED <<edgeVars, subscribed, targetVars, faults, launchVars>>

\* The request is over: an error is reported, unless there was an answer.
CommandReturns ==
  /\ stack # <<>> /\ Top.fn = "command"
  /\ reply' = [reply EXCEPT ![Top.client] =
                 IF ret = "err" /\ @ = "pending" THEN "error" ELSE @]
  /\ ReturnWith("idle")
  /\ UNCHANGED <<serviceVars, edgeVars, subscribed, targetVars, services, faults,
                 launchVars>>

-----------------------------------------------------------------------------
(* Reports of launchers.                                                   *)

ServiceFinishes(s) ==
  /\ Unlock(s) /\ Forgive(s) /\ Want(s, "Exclude")
  /\ Serve(<<Call("update", s)>>)
  /\ UNCHANGED <<edgeVars, clientVars, targetVars, services, faults>>

FailService(s) ==
  /\ failLocked' = [failLocked EXCEPT ![s] = TRUE]
  /\ Serve(<<Call("update", s)>>)
  /\ UNCHANGED <<status, userOverride, edgeVars, clientVars, targetVars, services,
                 faults>>

FinishStartService(s) ==
  /\ SetStatus(s, "Running")
  /\ Serve(<<Call("finishStart", s)>>)
  /\ UNCHANGED <<userOverride, failLocked, edgeVars, clientVars, targetVars,
                 services, faults>>

FinishStopService(s) ==
  /\ SetStatus(s, IF failLocked[s] THEN "Failed" ELSE "Inactive")
  /\ Dispatch(s, IF failLocked[s] THEN "failed" ELSE "stopped")
  /\ Serve(<<Call("finishStop", s)>>)
  /\ UNCHANGED <<userOverride, failLocked, edgeVars, targetVars, services, faults>>

-----------------------------------------------------------------------------
(* setTarget.                                                              *)

AlreadySet(t) == \E i \in DOMAIN tgts : tgts[i] = t

\* A service once in the map stays there; a target starts unreached.
EnterTarget(t) ==
  LET new == AddTarget(tgts, t)
      all == ListAll(new, services)
  IN  /\ tgts' = new
      /\ reached' = (IF t \in Base THEN {} ELSE reached)
      /\ reachedTarget' = FALSE
      /\ services' = services \union all
      /\ Serve(<<[fn |-> "setTarget", todo |-> all \intersect Known]>>)
      /\ ran' = ran \ {t}
      /\ UNCHANGED faults

\* The switch to the first console fails and setTarget returns: the target
\* counts as set, no service has been told.
EnterTargetFails(t) ==
  /\ t \in SystemShutdown
  /\ faults < MaxFaults /\ faults' = faults + 1
  /\ tgts' = AddTarget(tgts, t)
  /\ reached' = (IF t \in Base THEN {} ELSE reached)
  /\ ran' = ran \ {t}
  /\ UNCHANGED <<reachedTarget, services, callVars>>

SetTarget(t) ==
  /\ \/ AlreadySet(t)  /\ UNCHANGED <<targetVars, callVars, services, faults>>
     \/ ~AlreadySet(t) /\ (EnterTarget(t) \/ EnterTargetFails(t))
  /\ UNCHANGED <<serviceVars, edgeVars, subscribed, launchVars>>

\* The services are updated one by one, in the order of their names, which
\* the model leaves open; errors are logged.
TargetNext ==
  /\ stack # <<>> /\ Top.fn = "setTarget"
  /\ \E s \in Top.todo :
       Invoke([Top EXCEPT !.todo = @ \ {s}], Call("update", s))
  /\ UNCHANGED <<serviceVars, edgeVars, clientVars, targetVars, services, faults,
                 launchVars>>

TargetEnds ==
  /\ stack # <<>> /\ Top.fn = "setTarget" /\ Top.todo = {}
  /\ CheckReach
  /\ ReturnWith("idle")
  /\ UNCHANGED <<serviceVars, edgeVars, clientVars, services, faults, launchVars>>
=============================================================================
