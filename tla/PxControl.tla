------------------------------ MODULE PxControl ------------------------------
(***************************************************************************)
(* pxctl start, stop and restart (src/src/PxControl/startstop.cpp) over    *)
(* the daemon of PxDaemon: a client that sends one command after the       *)
(* other, waits after each for the news that is to follow, and gives up at *)
(* the first that is not the one it wants.                                 *)
(*                                                                         *)
(* A client of PxDaemon sends one command; here its connection stays open  *)
(* and it sends the next when it has read the answer to the last.          *)
(***************************************************************************)
EXTENDS PxDaemon

CONSTANTS CommandLines   \* what pxctl may be called with, as <<verb, services>>

ASSUME ControlAssumption ==
  CommandLines \subseteq ({"start", "stop", "restart"} \X Seq(Services))

VARIABLES called,   \* the command line of each pxctl
          todo,     \* the commands it has still to write, the current one first
          said,     \* what it has printed
          seen,     \* seen[c][s]: the statuses s has had since c began
          useful    \* the current command asked for a change

controlVars == <<called, todo, said, seen, useful>>

Said == {"nothing", "done", "failed"}

\* The commands CmdStart, CmdStop and CmdRestart write.
CommandsFor(verb, names) ==
  IF verb = "restart"
  THEN [i \in 1..(2 * Len(names)) |->
          <<IF i % 2 = 1 THEN "stop" ELSE "start", names[(i + 1) \div 2]>>]
  ELSE [i \in DOMAIN names |-> <<verb, names[i]>>]

Wanted(command) == IF command[1] = "start" THEN "started" ELSE "stopped"
Current(c) == Head(todo[c])
Talking(c) == todo[c] # <<>> /\ said[c] = "nothing"

ControlInit ==
  /\ Init
  /\ called \in [Clients -> CommandLines]
  /\ todo = [c \in Clients |-> CommandsFor(called[c][1], called[c][2])]
  /\ said = [c \in Clients |-> "nothing"]
  /\ seen = [c \in Clients |-> [s \in Services |-> {}]]
  /\ useful = [c \in Clients |-> FALSE]

\* The write, and what PxDOnCommand makes of it.
Send(c) ==
  /\ Idle
  /\ Talking(c) /\ reply[c] = "unsent"
  /\ \/ Current(c)[1] = "start" /\ StartService(Current(c)[2], c)
     \/ Current(c)[1] = "stop"  /\ StopService(Current(c)[2], c)
  /\ useful' = [useful EXCEPT ![c] =
                  IF Current(c)[1] = "start" THEN Excluded(Current(c)[2])
                                             ELSE Included(Current(c)[2])]
  /\ UNCHANGED <<called, todo, said>>

Answered(c) == reply[c] \notin {"unsent", "pending"}

\* Fault: any news will do.
ReadAnything(c) ==
  /\ Talking(c) /\ Answered(c)
  /\ todo' = [todo EXCEPT ![c] = Tail(@)]
  /\ reply' = [reply EXCEPT ![c] = "unsent"]
  /\ said' = [said EXCEPT ![c] = IF todo'[c] = <<>> THEN "done" ELSE @]
  /\ UNCHANGED <<serviceVars, edgeVars, subscribed, targetVars, callVars, services,
                 faults, launchVars, called, useful>>

Read(c) ==
  /\ Talking(c) /\ Answered(c)
  /\ \/ /\ reply[c] = Wanted(Current(c))
        /\ todo' = [todo EXCEPT ![c] = Tail(@)]
        /\ reply' = [reply EXCEPT ![c] = "unsent"]
        /\ said' = [said EXCEPT ![c] = IF todo'[c] = <<>> THEN "done" ELSE @]
     \/ /\ reply[c] # Wanted(Current(c))
        /\ said' = [said EXCEPT ![c] = "failed"]
        /\ UNCHANGED <<todo, reply>>
  /\ UNCHANGED <<serviceVars, edgeVars, subscribed, targetVars, callVars, services,
                 faults, launchVars, called, useful>>

\* What each pxctl could have seen since its first command.
See ==
  seen' = [c \in Clients |->
             [s \in Services |->
                IF reply'[c] = "unsent" /\ todo'[c] = CommandsFor(called[c][1], called[c][2])
                THEN {} ELSE seen[c][s] \union {status'[s]}]]

OfTheDaemon(A) == A /\ UNCHANGED <<called, todo, said, useful>> /\ See
GoesOn     == OfTheDaemon(Boot \/ Run)
Reads(s)   == OfTheDaemon(Deliver(s))
Sends(c)   == Send(c) /\ See
IsRead(c)  == Read(c) /\ See

ControlNext ==
  \/ GoesOn
  \/ \E s \in Services : Reads(s) \/ OfTheDaemon(Launch(s))
  \/ \E c \in Clients : Sends(c) \/ IsRead(c)

ControlSpec == ControlInit /\ [][ControlNext]_<<vars, controlVars>>
-----------------------------------------------------------------------------
(* What pxctl says, and what it waits for.                                 *)

Names(c) == {called[c][2][i] : i \in DOMAIN called[c][2]}

\* "Started", "Stopped" and "Restarted" are said of services that have been
\* Running, down, or down and Running, since the command was given, whatever
\* other clients have asked for in between.
SaidIsTrue ==
  \A c \in Clients : said[c] = "done" =>
    \A s \in Names(c) :
      /\ called[c][1] \in {"start", "restart"} => "Running" \in seen[c][s]
      /\ called[c][1] \in {"stop", "restart"} =>
           seen[c][s] \intersect {"Inactive", "Failed"} # {}

\* A command that asks for a change waits for its answer.
Asked(c) == useful[c] /\ reply[c] = "pending"
=============================================================================
