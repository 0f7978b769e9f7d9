------------------------------ MODULE PxSignals ------------------------------
(***************************************************************************)
(* onint of PxDaemon.cpp: ctrl-alt-delete, which PxInit forwards as        *)
(* SIGINT, sets the target "reboot" from a signal handler.  The handler    *)
(* runs between any two steps of the call in progress, which goes on       *)
(* afterwards with whatever the handler has left; main() has installed it  *)
(* before it sets "boot".  (onterm of a user's daemon does the same with   *)
(* "logout".)                                                              *)
(*                                                                         *)
(* What comes before the updates in setTarget is one step when the handler *)
(* calls it: nothing interrupts the handler.  Where main() or a client     *)
(* calls it, it is the steps between which the handler may run.            *)
(*                                                                         *)
(* The handler's calls lie on the same stack.  That it may also interrupt  *)
(* a single step, an insertion into a list or an allocation, is left out.  *)
(***************************************************************************)
EXTENDS PxDaemon

CONSTANTS SignalTarget,   \* "reboot"
          MaxPresses      \* a bound on how often ctrl-alt-delete is pressed

\* What the constants are.
SignalAssumption == SignalTarget \in Targets /\ MaxPresses \in Nat

VARIABLES entering,       \* the call of setTarget by the main line, up to its updates
          pending,        \* the signal is pending, or its handler still blocks it
          height,         \* where the handler's frame is on the stack, 0 if it does not run
          saved,          \* what the interrupted call has been returned
          presses

signalVars == <<entering, pending, height, saved, presses>>

\* Where the main line is in setTarget; the updates that follow are on the stack.
Enters(t, place) == entering' = [target |-> t, at |-> place]
GoesTo(place) == Enters(entering.target, place)

\* The handler is installed and "boot" is about to be set.
SignalInit ==
  /\ Init
  /\ entering = [target |-> BootTarget, at |-> "check"]
  /\ pending = FALSE /\ height = 0 /\ saved = "idle" /\ presses = 0

Press ==
  /\ presses < MaxPresses
  /\ presses' = presses + 1
  /\ pending' = TRUE
  /\ UNCHANGED <<vars, entering, height, saved>>

OnTop(frame) == stack' = <<frame>> \o stack /\ UNCHANGED ret

-----------------------------------------------------------------------------
(* setTarget, called by the main line.                                     *)

AtStep(place) == stack = <<>> /\ entering.at = place

\* A target that is set already is not set again.
Checks ==
  /\ AtStep("check")
  /\ GoesTo(IF AlreadySet(entering.target) THEN "done" ELSE "add")
  /\ UNCHANGED vars

\* A target of a name that the handler has set meanwhile is a second one, which
\* is not reached.  The switch to the first console fails, and setTarget returns.
Adds ==
  LET t == entering.target IN
  /\ AtStep("add")
  /\ tgts' = AddTarget(tgts, t)
  /\ reached' = (IF t \in Base THEN {} ELSE reached \ {t})
  /\ ran' = (IF AlreadySet(t) THEN ran ELSE ran \ {t})
  /\ \/ GoesTo("reset") /\ UNCHANGED faults
     \/ /\ t \in SystemShutdown
        /\ faults < MaxFaults /\ faults' = faults + 1
        /\ GoesTo("done")
  /\ UNCHANGED <<serviceVars, edgeVars, clientVars, reachedTarget, services, callVars,
                 launchVars>>

Resets ==
  /\ AtStep("reset")
  /\ reachedTarget' = FALSE
  /\ GoesTo("list")
  /\ UNCHANGED <<serviceVars, edgeVars, clientVars, tgts, reached, ran, services, faults,
                 callVars, launchVars>>

\* What is listed now is loaded and updated, whatever is listed later.
Lists ==
  LET all == ListAll(tgts, services) IN
  /\ AtStep("list")
  /\ services' = services \union all
  /\ Serve(<<[fn |-> "setTarget", todo |-> all \intersect Known]>>)
  /\ GoesTo("done")
  /\ UNCHANGED <<serviceVars, edgeVars, clientVars, targetVars, faults, launchVars>>

\* A client asks for a target.
RequestTarget(c) ==
  /\ Idle /\ AtStep("done")
  /\ reply[c] = "unsent"
  /\ reply' = [reply EXCEPT ![c] = "pending"]
  /\ \E t \in Targets : <<"target", t>> \in Requests /\ Enters(t, "check")
  /\ UNCHANGED <<serviceVars, edgeVars, subscribed, targetVars, callVars, services, faults,
                 launchVars>>

SetsTarget == Checks \/ Adds \/ Resets \/ Lists \/ \E c \in Clients : RequestTarget(c)

-----------------------------------------------------------------------------
(* setTarget, called by the handler.                                       *)

\* Fault: the targets count as reached, if those before did.
EnterFromHandlerReached(t) ==
  LET new == AddTarget(tgts, t)
      all == ListAll(new, services)
  IN  /\ tgts' = new
      /\ reached' = (IF t \in Base THEN {} ELSE reached)
      /\ services' = services \union all
      /\ OnTop([fn |-> "setTarget", todo |-> all \intersect Known])
      /\ ran' = ran \ {t}
      /\ UNCHANGED <<reachedTarget, faults>>

\* Up to the first service it updates.
EnterFromHandler(t) ==
  LET new == AddTarget(tgts, t)
      all == ListAll(new, services)
  IN  /\ tgts' = new
      /\ reached' = (IF t \in Base THEN {} ELSE reached)
      /\ reachedTarget' = FALSE
      /\ services' = services \union all
      /\ OnTop([fn |-> "setTarget", todo |-> all \intersect Known])
      /\ ran' = ran \ {t}
      /\ UNCHANGED faults

\* Linux blocks a signal while its handler runs.
Onint ==
  /\ pending /\ height = 0
  /\ pending' = FALSE
  /\ saved' = ret
  /\ \/ /\ AlreadySet(SignalTarget)
        /\ UNCHANGED <<targetVars, callVars, services, faults, height>>
     \/ /\ ~AlreadySet(SignalTarget) /\ EnterFromHandler(SignalTarget)
        /\ height' = Len(stack) + 1
     \/ /\ ~AlreadySet(SignalTarget) /\ EnterTargetFails(SignalTarget)
        /\ UNCHANGED height
  /\ UNCHANGED <<serviceVars, edgeVars, clientVars, launchVars, entering, presses>>

HandlerAtEnd == height # 0 /\ Len(stack) = height /\ Top.todo = {}

\* Fault: the call that was interrupted is not taken up again.
HandlerReturnAlone ==
  /\ HandlerAtEnd
  /\ CheckReach
  /\ stack' = <<>>
  /\ ret' = saved
  /\ height' = 0
  /\ UNCHANGED <<serviceVars, edgeVars, clientVars, services, faults, launchVars,
                 entering, pending, saved, presses>>

HandlerReturn ==
  /\ HandlerAtEnd
  /\ CheckReach
  /\ stack' = Tail(stack)
  /\ ret' = saved
  /\ height' = 0
  /\ UNCHANGED <<serviceVars, edgeVars, clientVars, services, faults, launchVars,
                 entering, pending, saved, presses>>

\* What goes on as in PxDaemon: all that does not set a target.
Undisturbed ==
  \/ \E c \in Clients : entering.at = "done" /\ Request(c) /\ UNCHANGED tgts
  \/ \E s \in Services : (entering.at = "done" /\ Deliver(s)) \/ Launch(s)
  \/ ~HandlerAtEnd /\ Run

OfTheDaemon(A) == A /\ UNCHANGED signalVars
OfMain(A) == A /\ UNCHANGED <<pending, height, saved, presses>>

SignalNext ==
  Press \/ Onint \/ HandlerReturn \/ OfMain(SetsTarget) \/ OfTheDaemon(Undisturbed)

\* The call in progress, the handler's frames on top of it, goes on.
GoesOn ==
  \/ HandlerReturn
  \/ OfMain(Checks \/ Adds \/ Resets \/ Lists)
  \/ OfTheDaemon(~HandlerAtEnd /\ Run)

\* The daemon reads what a launcher has written.
Delivers(s) == OfTheDaemon(entering.at = "done" /\ Deliver(s))

SignalSpec == SignalInit /\ [][SignalNext]_<<vars, signalVars>>
-----------------------------------------------------------------------------
\* A shutdown that ctrl-alt-delete begins, whatever it interrupts, stops every
\* service and runs the target's command, if it meets none that is being started
\* and no target is set that takes its place.
SignalShutsDown ==
  (height # 0 /\ NothingStarts) ~>
    (HasAttribute(tgts, ran \intersect SystemShutdown) \/ ~IsShutdown(tgts))
=============================================================================
