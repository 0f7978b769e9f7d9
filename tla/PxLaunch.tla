------------------------------ MODULE PxLaunch ------------------------------
(***************************************************************************)
(* PxLaunch is the supervisor process PxDaemon forks for one service.  It  *)
(* runs the StartCommand, the Command, the StopCommand and, when one of    *)
(* them fails, the FailCommand, and tells the daemon about each passage    *)
(* with a one-way message on the daemon's socket.  It learns that it must  *)
(* stop from a SIGINT, whose handler only sets IntrFlag.                   *)
(*                                                                         *)
(* One launcher per service is modelled: stage[s] is where main() of       *)
(* src/src/PxLaunch/PxLaunch.cpp is, intr[s] is IntrFlag, outbox[s] is     *)
(* what the launcher has written and the daemon has not read.              *)
(***************************************************************************)
EXTENDS PxServiceHelpers, Sequences, Naturals

CONSTANT Hang   \* the services whose Command is "hang": no child to run

ASSUME HangAssumption == Hang \subseteq Services

VARIABLES stage, intr, outbox

launchVars == <<stage, intr, outbox>>

Message == {"finstart", "servfin", "servfail", "finstop", "finfail"}

\* "begin": the StartCommand runs; "beginStop": the same, after an interrupt;
\* "run": Stages::Running; "killed": the Command was sent SIGTERM or SIGKILL
\* and is waited for; "end", "err": the StopCommand and the FailCommand run.
Stage == {"none", "begin", "beginStop", "run", "killed", "end", "err", "dead"}

LaunchTypeOK ==
  /\ stage \in [Services -> Stage]
  /\ intr \in [Services -> BOOLEAN]
  /\ outbox \in [Services -> Seq(Message)]

LaunchInit ==
  /\ stage = [s \in Services |-> "none"]
  /\ intr = [s \in Services |-> FALSE]
  /\ outbox = [s \in Services |-> <<>>]

Alive(s) == stage[s] \notin {"none", "dead"}

-----------------------------------------------------------------------------
(* What the daemon does to a launcher.                                     *)

\* fork and exec of a fresh launcher.
Fork(s) ==
  /\ stage' = [stage EXCEPT ![s] = "begin"]
  /\ intr' = [intr EXCEPT ![s] = FALSE]
  /\ UNCHANGED outbox

\* Fault: SIGKILL instead of SIGINT.
InterruptByKill(s) ==
  /\ stage' = [stage EXCEPT ![s] = IF Alive(s) THEN "dead" ELSE @]
  /\ UNCHANGED <<intr, outbox>>

\* SIGINT to the launcher.  To one that has exited (nobody reaps it, so its
\* pid is not reused) it means nothing.
Interrupt(s) ==
  /\ intr' = [intr EXCEPT ![s] = Alive(s)]
  /\ UNCHANGED <<stage, outbox>>

-----------------------------------------------------------------------------
(* What the launcher does.                                                 *)

Enter(s, st) == stage' = [stage EXCEPT ![s] = st]
Write(s, m)  == outbox' = [outbox EXCEPT ![s] = Append(@, m)]

\* The message main() writes as it enters a stage.
Announce(st) ==
  CASE st = "run" -> "finstart"
    [] st = "end" -> "servfin"
    [] st = "err" -> "servfail"

EnterAnnounced(s, st) == Enter(s, st) /\ Write(s, Announce(st))

\* wp() saw IntrFlag before it saw the child exit: it clears the flag and
\* returns -1.
Interrupted(s) ==
  /\ intr[s]
  /\ intr' = [intr EXCEPT ![s] = FALSE]

\* The StartCommand goes on after an interrupt, and stop is remembered.
BeginInterrupted(s) ==
  /\ stage[s] \in {"begin", "beginStop"}
  /\ Interrupted(s)
  /\ Enter(s, "beginStop")
  /\ UNCHANGED outbox

AfterBegin(s) == IF stage[s] = "beginStop" THEN "end" ELSE "run"

\* The StartCommand exits.  The flag may be set and stay set: waitpid is
\* looked at first.
BeginExits(s) ==
  /\ stage[s] \in {"begin", "beginStop"}
  /\ \E next \in {AfterBegin(s), "err"} : EnterAnnounced(s, next)
  /\ UNCHANGED intr

\* "hang" ends on an interrupt only.
HangInterrupted(s) ==
  /\ stage[s] = "run" /\ s \in Hang
  /\ Interrupted(s)
  /\ EnterAnnounced(s, "end")

\* The Command is killed on each interrupt and waited for.
RunInterrupted(s) ==
  /\ stage[s] \in {"run", "killed"} /\ s \notin Hang
  /\ Interrupted(s)
  /\ Enter(s, "killed")
  /\ UNCHANGED outbox

\* The Command exits by itself, with success or not.
RunExits(s) ==
  /\ stage[s] = "run" /\ s \notin Hang
  /\ \E next \in {"end", "err"} : EnterAnnounced(s, next)
  /\ UNCHANGED intr

\* The killed Command exits: its status no longer matters.
KilledExits(s) ==
  /\ stage[s] = "killed"
  /\ EnterAnnounced(s, "end")
  /\ UNCHANGED intr

\* runShellNoSig: the StopCommand and the FailCommand outlive interrupts.
LastInterrupted(s) ==
  /\ stage[s] \in {"end", "err"}
  /\ Interrupted(s)
  /\ UNCHANGED <<stage, outbox>>

\* Fault: "finstop" is written whatever the StopCommand returned.
EndExitsHasty(s) ==
  /\ stage[s] = "end"
  /\ \E st \in {"dead", "err"} : Enter(s, st)
  /\ Write(s, "finstop")
  /\ UNCHANGED intr

EndExits(s) ==
  /\ stage[s] = "end"
  /\ \/ Enter(s, "dead") /\ Write(s, "finstop")
     \/ EnterAnnounced(s, "err")
  /\ UNCHANGED intr

ErrExits(s) ==
  /\ stage[s] = "err"
  /\ Enter(s, "dead") /\ Write(s, "finfail")
  /\ UNCHANGED intr

\* wp() polls the flag; a command exits.  Only the Command may run for ever.
SeesInterrupt(s) == \/ BeginInterrupted(s) \/ HangInterrupted(s)
                    \/ RunInterrupted(s)   \/ LastInterrupted(s)
CommandExits(s)  == BeginExits(s) \/ KilledExits(s) \/ EndExits(s) \/ ErrExits(s)

LaunchNext(s) == SeesInterrupt(s) \/ CommandExits(s) \/ RunExits(s)

\* A launcher is scheduled, and every command but the Command itself ends: a
\* StartCommand, StopCommand or FailCommand that hangs, or a Command that
\* survives its SIGTERM, holds the launcher for ever.
LaunchFairness ==
  \A s \in Services : /\ WF_launchVars(SeesInterrupt(s))
                      /\ WF_launchVars(CommandExits(s))
-----------------------------------------------------------------------------
\* All a launcher can say in its life.
Conversation ==
  { beginning \o ending :
      beginning \in {<<>>, <<"finstart">>},
      ending \in {<<"servfin", "finstop">>, <<"servfail", "finfail">>,
                  <<"servfin", "servfail", "finfail">>} }

\* What the daemon has still to read of a launcher is a piece of the
\* conversation PxDaemon's command table is written for: at most one finstart,
\* before anything else; one of finstop and finfail, last, and only after a
\* servfin or servfail.  A launcher that has exited has said it all.
WellFormedConversation ==
  \A s \in Services : outbox[s] # <<>> =>
    \E c \in Conversation : \E i, j \in DOMAIN c :
      /\ outbox[s] = SubSeq(c, i, j)
      /\ stage[s] = "dead" => j = Len(c)
=============================================================================
