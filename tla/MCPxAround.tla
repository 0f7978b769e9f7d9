----------------------------- MODULE MCPxAround -----------------------------
(***************************************************************************)
(* The daemon and what is around it, one thing at a time: `setting` says   *)
(* which behaviour this is, and the variables of the others stay as they   *)
(* begin.                                                                  *)
(*   "ctrl-alt-delete": the key is pressed while a service and the one it  *)
(* depends on start and stop, or while "boot" or a client's target, one    *)
(* that shuts down and one that does not, is being set.                    *)
(*   "pxctl": two clients with a command line each, over the same services.*)
(*   "pxctl alone": the same, of services that do not depend on each other.*)
(*   "console": an ordinary service and a shell on the console, which the  *)
(* boot target enables and on which nothing depends.  No other setting has *)
(* the shell installed.                                                    *)
(***************************************************************************)
EXTENDS PxControl, PxConsole, TLC

CONSTANTS app, db, shell, boot, halt, rescue, c1, c2

Must(s) == [name |-> s, optional |-> FALSE]
NoLines == [s \in Services |-> <<>>]
AppNeedsDb == [NoLines EXCEPT ![app] = <<Must(db)>>]
Nobody == [t \in Targets |-> {}]
BootEnables(s) == [Nobody EXCEPT ![boot] = {s}]
MCRequests == {<<"target", halt>>, <<"target", rescue>>}

VARIABLES
  setting,
  entering, pending, height, saved, presses   \* PxSignals

MCCommandLines == {<<"start", <<app>>>>, <<"stop", <<app>>>>, <<"restart", <<app>>>>, <<"stop", <<app, db>>>>}

Signals == INSTANCE PxSignals WITH
  Clients <- {c1}, Requests <- MCRequests, Enable <- BootEnables(app), SignalTarget <- halt,
  MaxPresses <- 1

Alone == INSTANCE PxControl WITH Depend <- NoLines

Console == INSTANCE PxConsole WITH
  Known <- {app, shell}, Hang <- {}, Depend <- NoLines, Enable <- BootEnables(shell),
  Requests <- {<<"start", app>>, <<"stop", shell>>, <<"target", halt>>}

ASSUME Signals!SignalAssumption /\ ConsoleAssumption

signalVars == <<entering, pending, height, saved, presses>>
allVars == <<setting, vars, signalVars, controlVars, consoleVars>>

NoSignals ==
  /\ entering = [target |-> boot, at |-> "done"] /\ pending = FALSE
  /\ height = 0 /\ saved = "idle" /\ presses = 0
NoControl == /\ called = <<>> /\ todo = <<>> /\ seen = <<>> /\ useful = <<>>
             /\ said = [c \in Clients |-> "nothing"]
NoConsole == /\ curID = 0 /\ tasks = <<>> /\ logTask = <<>> /\ suppressors = 0
             /\ screen = <<>> /\ smudged = FALSE

AroundInit ==
  \/ setting = "ctrl-alt-delete" /\ Signals!SignalInit /\ NoControl /\ NoConsole
  \/ setting = "pxctl" /\ ControlInit /\ NoSignals /\ NoConsole
  \/ setting = "pxctl alone" /\ Alone!ControlInit /\ NoSignals /\ NoConsole
  \/ /\ setting = "console" /\ Console!ConsoleInit /\ NoSignals /\ NoControl
     /\ logTask[db] = 0   \* not installed there: no Service, no garbage in it

SignalStep(A)  == setting = "ctrl-alt-delete" /\ A /\ UNCHANGED <<setting, controlVars, consoleVars>>
ControlStep(A) == setting = "pxctl" /\ A /\ UNCHANGED <<setting, signalVars, consoleVars>>
AloneStep(A)   == setting = "pxctl alone" /\ A /\ UNCHANGED <<setting, signalVars, consoleVars>>
ConsoleStep(A) == setting = "console" /\ A /\ UNCHANGED <<setting, signalVars, controlVars>>

AroundNext ==
  \/ SignalStep(Signals!SignalNext)
  \/ ControlStep(ControlNext)
  \/ AloneStep(Alone!ControlNext)
  \/ ConsoleStep(Console!ConsoleNext)

\* A pending signal is delivered; the daemon goes on and reads what is written
\* to it, the launchers run, and pxctl reads.
AroundFairness ==
  /\ WF_allVars(SignalStep(Signals!Onint))
  /\ WF_allVars(SignalStep(Signals!GoesOn))
  /\ WF_allVars(AloneStep(Alone!GoesOn))
  /\ \A s \in {app, db} :
       /\ WF_allVars(SignalStep(Signals!Delivers(s)))
       /\ WF_allVars(AloneStep(Alone!Reads(s)))
       /\ WF_launchVars(setting # "console" /\ SeesInterrupt(s))
       /\ WF_launchVars(setting # "console" /\ CommandExits(s))
  /\ \A c \in Clients : WF_allVars(AloneStep(Alone!IsRead(c)))

AroundSpec == AroundInit /\ [][AroundNext]_allVars /\ AroundFairness
-----------------------------------------------------------------------------
\* A pxctl start of a service that is down, and a stop of one that is Running,
\* is answered, whatever the other client does and whichever call fails.
UsefulIsAnswered ==
  \A c \in Clients :
    (setting = "pxctl alone" /\ Alone!Asked(c)) ~> (setting = "pxctl alone" /\ ~Alone!Asked(c))

\* A shutdown that ctrl-alt-delete begins runs to its end, whatever it interrupts.
SignalShutsDown == Signals!SignalShutsDown
=============================================================================
