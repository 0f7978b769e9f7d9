------------------------------ MODULE PxKernel ------------------------------
(***************************************************************************)
(* What PxInit uses of the kernel: the processes of the machine, who is    *)
(* whose parent, zombies, SIGCHLD for the process with PID 1, and the      *)
(* numbering of processes as /proc lists it.  External: none of it is in   *)
(* src/.                                                                   *)
(***************************************************************************)
EXTENDS Naturals, FiniteSets

CONSTANTS
    LastPid,      \* the highest process number
    Daemon,       \* the number of PxDaemon, the first child
    Started,      \* the processes there are when PxInit enters its loop
    Childless,    \* those that never fork
    Waits,        \* those that collect their own children
    Wraps         \* whether numbers have wrapped round: a new process may then
                  \* get a number below that of an older one

InitPid == 1
Pids == 2..LastPid

\* What the constants are.
KernelAssumption ==
    /\ LastPid \in Nat
    /\ Daemon \in Started
    /\ Started \subseteq Pids /\ Childless \subseteq Pids /\ Waits \subseteq Pids
    /\ Wraps \in BOOLEAN

VARIABLES
    proc,         \* "unused", "alive", "zombie", or "gone": numbers are not reused
    parent,
    sigchld,      \* SIGCHLD is pending for PxInit: signals of a kind do not queue
    chldIgnored   \* PxInit has set SIGCHLD to SIG_IGN: the kernel collects

kernelVars == <<proc, parent, sigchld, chldIgnored>>

KernelInit ==
    /\ proc = [p \in Pids |-> IF p \in Started THEN "alive" ELSE "unused"]
    /\ parent = [p \in Pids |-> IF p = Daemon THEN InitPid ELSE Daemon]
    /\ sigchld = FALSE /\ chldIgnored = FALSE

Alive == {p \in Pids : proc[p] = "alive"}
Exists(p) == proc[p] \in {"alive", "zombie"}
Children(p) == {c \in Pids : parent[c] = p}

MayBeNext(c) ==
    /\ proc[c] = "unused"
    /\ Wraps \/ \A d \in Pids : d > c => proc[d] = "unused"

Fork(p, c) ==
    /\ p \in Alive \ Childless
    /\ MayBeNext(c)
    /\ proc' = [proc EXCEPT ![c] = "alive"]
    /\ parent' = [parent EXCEPT ![c] = p]
    /\ UNCHANGED <<sigchld, chldIgnored>>

(* Process p dies, by itself or killed.  Its children become those of      *)
(* PxInit, and PxInit is sent SIGCHLD for p and for the zombies it is left.*)
Die(p) ==
    LET left == {c \in Children(p) : proc[c] = "zombie"}
        collected == (IF parent[p] = InitPid THEN {p} ELSE {}) \cup left
    IN  /\ p \in Alive
        /\ proc' = [q \in Pids |->
                      CASE chldIgnored /\ q \in collected -> "gone"
                        [] q = p /\ ~(chldIgnored /\ q \in collected) -> "zombie"
                        [] OTHER -> proc[q]]
        /\ parent' = [q \in Pids |-> IF q \in Children(p) THEN InitPid ELSE parent[q]]
        /\ sigchld' = (sigchld \/ (~chldIgnored /\ collected # {}))
        /\ UNCHANGED chldIgnored

Collect(p) ==
    /\ proc[p] = "zombie"
    /\ proc' = [proc EXCEPT ![p] = "gone"]
    /\ UNCHANGED <<parent, sigchld, chldIgnored>>

(* kill(p, SIGKILL) of PxInit                                              *)
Kill(p) == IF p \in Alive THEN Die(p) ELSE UNCHANGED kernelVars

Process ==
    \/ \E p \in Alive : Die(p)
    \/ \E p \in Alive \ Childless, c \in Pids : Fork(p, c)
    \/ \E q \in Waits : q \in Alive /\ \E p \in Children(q) : Collect(p)
=============================================================================
