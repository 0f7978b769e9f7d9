------------------------------- MODULE PxInit -------------------------------
(***************************************************************************)
(* PxInit.cpp: the process with PID 1.  Its loop serves commands and       *)
(* forwards ctrl-alt-delete to the daemon; a handler of SIGCHLD, which may *)
(* run between any two steps of the loop, collects zombies.                *)
(***************************************************************************)
EXTENDS PxShutdown

CONSTANTS MayIgnore   \* the processes that may ask to be left alone

\* What the constants are.
InitAssumption == MayIgnore \subseteq Pids

VARIABLES
    hat,          \* the handler's place in /proc; 0 when it does not run
    opened,       \* it has opened the stat of the process there
    cadPress      \* set by the handler of SIGINT

initVars == <<hat, opened, cadPress>>
vars == <<kernelVars, shutdownVars, initVars>>

Init ==
    /\ KernelInit /\ ShutdownInit
    /\ hat = 0 /\ opened = FALSE
    /\ cadPress = FALSE

-----------------------------------------------------------------------------
(* The loop of main()                                                      *)

(* jobs.tick() with nothing to do, and "ignore N"                          *)
Tick ==
    /\ Goto("tick", "cad")
    /\ \/ UNCHANGED ignorePID
       \/ \E p \in MayIgnore : ignorePID' = ignorePID \cup {p}
    /\ UNCHANGED <<kernelVars, walkVars, diskVars, shuttingDown, poweropt, power, faults, initVars>>

(* jobs.tick() with "poweroff", "reboot" or "halt"                         *)
OnCommand ==
    /\ \E opt \in {"poweroff", "reboot", "halt"} : EnterShutdown(opt)
    /\ UNCHANGED initVars

CheckCad ==
    /\ pc = "cad"
    /\ pc' = IF cadPress THEN "send" ELSE "tick"
    /\ UNCHANGED <<kernelVars, walkVars, diskVars, askVars, power, faults, initVars>>

Forward ==
    /\ Goto("send", "reset")   \* the daemon gets SIGINT: PxSignals
    /\ UNCHANGED <<kernelVars, walkVars, diskVars, askVars, power, faults, initVars>>

ResetCad ==
    /\ Goto("reset", "tick")
    /\ cadPress' = FALSE
    /\ UNCHANGED <<kernelVars, walkVars, diskVars, askVars, power, faults, hat, opened>>

Shutdown == ShutdownStep /\ UNCHANGED initVars

Main == hat = 0 /\ (Tick \/ OnCommand \/ CheckCad \/ Forward \/ ResetCad \/ Shutdown)

-----------------------------------------------------------------------------
(* The handlers.  onchild runs CollectorJob::tick to its end before main() *)
(* goes on; SIGCHLD itself is blocked meanwhile and stays pending.         *)
handlerFrame == <<shutdownVars, cadPress>>

OnChild ==
    /\ sigchld /\ hat = 0
    /\ sigchld' = FALSE
    /\ hat' = IF shuttingDown THEN 0 ELSE 2
    /\ UNCHANGED <<proc, parent, chldIgnored, opened, handlerFrame>>

Open ==
    /\ hat \in Pids /\ ~opened
    /\ \/ Exists(hat) /\ opened' = TRUE /\ UNCHANGED hat
       \/ ~Exists(hat) /\ hat' = hat + 1 /\ UNCHANGED opened
    /\ UNCHANGED <<kernelVars, handlerFrame>>

(* Fault: one zombie for each SIGCHLD.                                     *)
ReadOne ==
    /\ hat \in Pids /\ opened
    /\ opened' = FALSE
    /\ \/ ~Exists(hat) /\ hat' = 0 /\ UNCHANGED kernelVars
       \/ /\ Exists(hat)
          /\ IF parent[hat] = InitPid /\ ReadsAsZombie(hat)
             THEN Collect(hat) /\ hat' = 0
             ELSE hat' = hat + 1 /\ UNCHANGED kernelVars
    /\ UNCHANGED handlerFrame

(* A process that is collected between the opening of its stat and the     *)
(* reading reads as nothing, and the tick returns with EINVAL.             *)
Read ==
    /\ hat \in Pids /\ opened
    /\ opened' = FALSE
    /\ \/ ~Exists(hat) /\ hat' = 0 /\ UNCHANGED kernelVars
       \/ /\ Exists(hat) /\ hat' = hat + 1
          /\ IF parent[hat] = InitPid /\ ReadsAsZombie(hat) THEN Collect(hat) ELSE UNCHANGED kernelVars
    /\ UNCHANGED handlerFrame

Return ==
    /\ hat > LastPid
    /\ hat' = 0
    /\ UNCHANGED <<kernelVars, opened, handlerFrame>>

Handler == OnChild \/ Open \/ Read \/ Return

(* ctrl-alt-delete; after shutdown() SIGINT is ignored                     *)
Cad ==
    /\ ~chldIgnored
    /\ cadPress' = TRUE
    /\ UNCHANGED <<kernelVars, shutdownVars, hat, opened>>

Others == power = "on" /\ Process /\ UNCHANGED <<shutdownVars, initVars>>

Ended == power # "on" /\ UNCHANGED vars

Next == (power = "on" /\ (Main \/ Handler \/ Cad)) \/ Others \/ Ended

Spec == Init /\ [][Next]_vars
-----------------------------------------------------------------------------
DiskPhases == {"list", "swap", "remount", "unmount", "power", "halt", "done"}

(* When PxInit turns to the disks, nothing runs any more but what it was   *)
(* asked to leave alone (and not the daemon, even if that was asked for),  *)
(* although processes fork while they are looked for and killed.           *)
QuietDisks == pc \in DiskPhases => Alive \subseteq ignorePID \ {Daemon}

(* What the shutdown skips on purpose                                      *)
Data == ToSet(Mounts) \ Api

(* When the power goes off, a disk that may still have something to write  *)
(* has been noted as an error, whatever failed and whoever was left alone; *)
(* if nothing failed and nobody was, all is unmounted and nothing noted.   *)
Clean(f) == f \notin mounted \/ f \notin writable \/ f \in Pseudo

DisksAreSafe ==
    power # "on" /\ listed =>
        /\ (\A f \in Data : Clean(f)) \/ errorsEncountered
        /\ ignorePID = {} /\ faults = 0 => Data \cap mounted \subseteq {Root} /\ ~errorsEncountered

Orphan(p) == proc[p] = "zombie" /\ parent[p] = InitPid

(* "collect zombie": between two runs of the handler no zombie is left     *)
(* that is PxInit's, although one signal may stand for several of them and *)
(* more may come while they are looked for.                                *)
ZombiesAreCollected ==
    hat = 0 /\ ~sigchld /\ ~shuttingDown => \A p \in Pids : ~Orphan(p)
=============================================================================
