------------------------------ MODULE PxConsole ------------------------------
(***************************************************************************)
(* The console log of the system's daemon (class Log of                    *)
(* src/include/PxLog.hpp) and what the functions of PxService say in it.   *)
(* Unfinished tasks are lines at the bottom of the screen; whatever else   *)
(* is said goes above them, by moving the cursor up over as many lines as  *)
(* there are tasks and drawing these again.  A service that uses the       *)
(* console silences the log while it runs.                                 *)
(*                                                                         *)
(* Every step of PxDaemon is taken together with what it says.  The words  *)
(* and colours are left out, and so is what OscJob repaints in place.      *)
(***************************************************************************)
EXTENDS PxDaemon, Integers

CONSTANTS UseConsole,   \* the services with UseConsole = true
          Garbage       \* what the member logTask, which no constructor sets, may hold

\* What the constants are.
ConsoleAssumption == UseConsole \subseteq Services /\ Garbage \subseteq Nat

VARIABLES
  curID,
  tasks,        \* the ids of the pending tasks
  logTask,      \* logTask[s]: the id of the task of s, or 0
  suppressors,
  screen,       \* the tasks drawn on the last lines of the screen, the cursor below
  smudged       \* a line of the screen was overwritten, or a task line left behind

consoleVars == <<curID, tasks, logTask, suppressors, screen, smudged>>
log == [curID |-> curID, tasks |-> tasks, logTask |-> logTask, suppressors |-> suppressors,
        screen |-> screen, smudged |-> smudged]

Becomes(new) ==
  /\ curID' = new.curID /\ tasks' = new.tasks /\ logTask' = new.logTask
  /\ suppressors' = new.suppressors
  /\ screen' = new.screen /\ smudged' = new.smudged

ConsoleInit ==
  /\ Init
  /\ curID = 1 /\ tasks = <<>> /\ suppressors = 0
  /\ logTask \in [Services -> Garbage]
  /\ screen = <<>> /\ smudged = FALSE

-----------------------------------------------------------------------------
(* Log.  Each operator takes the log and gives the log.                    *)

Suppressed(g) == g.suppressors > 0

\* The cursor goes up k lines, and the tasks are drawn from there on.
Redraw(g, k) ==
  IF Suppressed(g) THEN g
  ELSE [g EXCEPT !.smudged = @ \/ k # Len(g.screen), !.screen = g.tasks]

\* println: top(), the lines, printTasks().
Println(g) == Redraw(g, Len(g.tasks))

NewTask(g, s) ==
  [g EXCEPT !.curID = @ + 1, !.tasks = Append(@, g.curID), !.logTask[s] = g.curID,
            !.screen = IF Suppressed(g) THEN @ ELSE Append(@, g.curID)]

\* The line of the task goes up, the others stay.
CompleteTask(g, id) ==
  IF Contains(g.tasks, id)
  THEN Redraw([g EXCEPT !.tasks = Remove(@, id)], Len(g.tasks))
  ELSE g

Suppress(g) ==
  [(IF Suppressed(g) THEN g ELSE [Println(g) EXCEPT !.screen = <<>>])
     EXCEPT !.suppressors = @ + 1]

Unsuppress(g) ==
  LET fewer == [g EXCEPT !.suppressors = @ - 1]
  IN  IF Suppressed(fewer) THEN fewer
      ELSE [fewer EXCEPT !.smudged = @ \/ fewer.screen # <<>>, !.screen = fewer.tasks]

-----------------------------------------------------------------------------
(* What PxService says: one operator for each function, and the step of    *)
(* PxDaemon it belongs to.                                                 *)

Uses(s) == s \in UseConsole

SaysRawStart(s) ==
  NewTask(IF logTask[s] # 0 THEN CompleteTask(log, logTask[s]) ELSE log, s)

\* finishStart and finishStop.
SaysFinished(s) == [CompleteTask(log, logTask[s]) EXCEPT !.logTask[s] = 0]

\* Fault: the console is left silent.
SaysRawStopSilently(s) ==
  NewTask(IF logTask[s] # 0 THEN CompleteTask(log, logTask[s]) ELSE log, s)

SaysRawStop(s) ==
  LET mine == IF Uses(s) THEN Unsuppress(log) ELSE log
  IN  NewTask(IF logTask[s] # 0 THEN CompleteTask(mine, logTask[s]) ELSE mine, s)

RawStarts(s)  == status[s] # "Starting" /\ status'[s] = "Starting"
RawStops(s)   == status[s] = "StopWaiting" /\ status'[s] \in {"Stopping", "FailStopping"}
StopsInError(s) == status[s] # "StopWaiting" /\ status'[s] = "StopWaiting" /\ failLocked[s]
Finishes(s)   == Len(outbox'[s]) < Len(outbox[s])
                   /\ Head(outbox[s]) \in {"finstart", "finstop", "finfail"}
HasStarted(s) == Runs("finishStart", s, "next") /\ ret # "err" /\ ~MoreDependents(s)
                   /\ stack' = Tail(stack)

Speaks(s) == RawStarts(s) \/ RawStops(s) \/ StopsInError(s) \/ Finishes(s) \/ HasStarted(s)

Say ==
  \/ \E s \in Services :
       \/ RawStarts(s) /\ Becomes(SaysRawStart(s))
       \/ RawStops(s) /\ Becomes(SaysRawStop(s))
       \/ StopsInError(s) /\ Becomes(Println(log))
       \/ Finishes(s) /\ Becomes(SaysFinished(s))
       \/ HasStarted(s) /\ Becomes(IF Uses(s) THEN Suppress(log) ELSE log)
  \/ (\A s \in Services : ~Speaks(s)) /\ Becomes(log)

ConsoleNext == Next /\ Say

ConsoleSpec == ConsoleInit /\ [][ConsoleNext]_<<vars, consoleVars>>
-----------------------------------------------------------------------------
\* The last lines of the screen are the pending tasks, each once and in order,
\* and no line was overwritten or left behind, through any interleaving of
\* starts, stops and services that silence the log.
ScreenIsTasks ==
  /\ ~smudged
  /\ suppressors <= 0 => screen = tasks
  /\ suppressors > 0 => screen = <<>>

\* Between two calls the log is silent as often as there are services that
\* use the console and run, if no other depends on them.
SilentWhileUsed ==
  Quiescent =>
    suppressors = Cardinality({s \in UseConsole : status[s] \in {"Running", "StopWaiting"}})

\* The console: the screen shows the tasks, and is silent while it is used.
ConsoleIsRight == ScreenIsTasks /\ SilentWhileUsed
=============================================================================
