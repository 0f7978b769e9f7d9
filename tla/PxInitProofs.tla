---------------------------- MODULE PxInitProofs ----------------------------
(***************************************************************************)
(* Theorems about PxInit: any number of processes, any file systems.  What *)
(* they assume of a machine is named here, and why the code needs it.      *)
(***************************************************************************)
EXTENDS PxInit, TLAPS

(* What is assumed.                                                        *)

ConstantsAssumption == KernelAssumption /\ ShutdownAssumption /\ InitAssumption

\* Numbers of processes have not wrapped round, and nothing that is left alone
\* forks: a process that starts behind the place in /proc would not be seen.
ProcAssumption == ~Wraps /\ MayIgnore \subseteq Childless

-----------------------------------------------------------------------------
(* Types.                                                                  *)

KernelTypes ==
  /\ proc \in [Pids -> {"unused", "alive", "zombie", "gone"}]
  /\ parent \in [Pids -> Nat]

WalkTypes ==
  /\ sig \in {"TERM", "KILL"}
  /\ round \in Nat \ {0}
  /\ at \in 2..LastPid + 1
  /\ pids \subseteq Pids
  /\ ignorePID \subseteq MayIgnore

Used == {p \in Pids : proc[p] # "unused"}

\* Who is to be killed.
Running == Alive \ ignorePID

\* A death makes no process and no number.
LEMMA DieKernel ==
  ASSUME KernelTypes, NEW p, Die(p)
  PROVE  KernelTypes' /\ Alive' = Alive \ {p} /\ Used' = Used
<1> DEFINE kill(q) == chldIgnored /\ q \in ((IF parent[p] = InitPid THEN {p} ELSE {})
                                  \union {c \in Children(p) : proc[c] = "zombie"})
<1>1. /\ p \in Pids /\ proc[p] = "alive"
      /\ proc' = [q \in Pids |-> CASE kill(q) -> "gone"
                                   [] q = p /\ ~kill(q) -> "zombie"
                                   [] OTHER -> proc[q]]
      /\ parent' = [q \in Pids |-> IF q \in Children(p) THEN InitPid ELSE parent[q]]
  BY DEF Die, Alive
<1>2. \A q \in Pids : kill(q) => q = p \/ proc[q] = "zombie"
  OBVIOUS
<1> HIDE DEF kill
<1>3. \A q \in Pids : \/ q = p /\ proc'[q] \in {"gone", "zombie"}
                      \/ q # p /\ proc[q] = "zombie" /\ proc'[q] = "gone"
                      \/ q # p /\ proc'[q] = proc[q]
  BY <1>1, <1>2
<1>4. KernelTypes'
  BY <1>1, <1>3 DEF KernelTypes, InitPid
<1>5. QED
  BY <1>1, <1>3, <1>4 DEF Alive, Used

\* Nor does the collection of a zombie.
LEMMA CollectKernel ==
  ASSUME KernelTypes, NEW p \in Pids, Collect(p)
  PROVE  KernelTypes' /\ Alive' = Alive /\ Used' = Used
  BY DEF KernelTypes, Collect, Alive, Used

\* A new process has the highest number there is.
LEMMA ForkKernel ==
  ASSUME KernelTypes, ConstantsAssumption, ~Wraps, NEW p, NEW c \in Pids, Fork(p, c)
  PROVE  /\ KernelTypes' /\ Alive' = Alive \union {c} /\ Used' = Used \union {c}
         /\ p \in Alive \ Childless /\ c \notin Used
         /\ \A d \in Used : d < c
<1>1. /\ c \in Pids /\ p \in Pids /\ p \in Nat
      /\ \A d \in Pids : d > c => proc[d] = "unused"
  BY DEF Fork, MayBeNext, Alive, Pids, ConstantsAssumption, KernelAssumption
<1>2. \A d \in Used : d < c
  BY <1>1 DEF Used, Fork, MayBeNext, Pids, ConstantsAssumption, KernelAssumption
<1>3. QED
  BY <1>1, <1>2 DEF Fork, MayBeNext, KernelTypes, Alive, Used

-----------------------------------------------------------------------------
(* The killing.  In each round everything found is killed, so what runs    *)
(* afterwards was started since, and has a higher number than all before.  *)

\* s is some process that is there from the beginning.
Floor(s) == s + round - 1

Unseen(s, p) == p \in pids \/ p > Floor(s)

KillInv(s) ==
  /\ KernelTypes /\ WalkTypes
  /\ s \in Used /\ Daemon \in Used
  /\ pc \in {"look", "kill"} /\ sig = "KILL" =>
       /\ Running = {} \/ \E p \in Used : p >= Floor(s)
       /\ \A p \in Running : Unseen(s, p) \/ (pc = "look" /\ p >= at)
  /\ pc = "look" /\ sig = "KILL" /\ pids = {} => \A p \in Running : p >= at
  /\ pc \in DiskPhases \union {"daemon"} => \A p \in Running : p >= s + Rounds
  /\ pc \in DiskPhases => Daemon \notin Alive

\* At first PxInit is in its loop.
LEMMA InitKill ==
  ASSUME ConstantsAssumption, NEW s \in Started, Init
  PROVE  KillInv(s)
<1> USE DEF ConstantsAssumption, KernelAssumption, Init, KernelInit, ShutdownInit
<1>1. KernelTypes
  BY DEF KernelTypes, InitPid, Pids
<1>2. WalkTypes
  <2>1. 2 \in 2..LastPid + 1
    BY DEF Pids
  <2>2. QED
    BY <2>1 DEF WalkTypes
<1>3. s \in Used /\ Daemon \in Used
  BY DEF Used
<1>4. QED
  BY <1>1, <1>2, <1>3 DEF KillInv, DiskPhases

\* The other processes and the handler of SIGCHLD.
LEMMA OthersKill ==
  ASSUME ConstantsAssumption, ProcAssumption, NEW s \in Started, KillInv(s),
         UNCHANGED <<pc, sig, round, at, pids, ignorePID>>,
         \/ KernelTypes' /\ Alive' \subseteq Alive /\ Used' = Used
         \/ \E p, c \in Pids : Fork(p, c)
  PROVE  KillInv(s)'
<1> USE DEF KillInv
<1>0. /\ LastPid \in Nat /\ s \in Nat /\ Rounds \in Nat /\ round \in Nat \ {0}
      /\ Floor(s) \in Nat /\ at \in Nat
  BY DEF ConstantsAssumption, KernelAssumption, ShutdownAssumption, WalkTypes, Pids, Floor
<1>1. CASE KernelTypes' /\ Alive' \subseteq Alive /\ Used' = Used
  <2>1. WalkTypes' /\ Running' \subseteq Running /\ Floor(s)' = Floor(s)
    BY <1>1 DEF WalkTypes, Running, Floor
  <2>2. \A p : Unseen(s, p)' <=> Unseen(s, p)
    BY <2>1 DEF Unseen
  <2>3. QED
    BY <1>1, <2>1, <2>2
<1>2. CASE \E p, c \in Pids : Fork(p, c)
  <2>1. PICK p \in Pids, c \in Pids : Fork(p, c)
    BY <1>2
  <2>2. /\ KernelTypes' /\ Alive' = Alive \union {c} /\ Used' = Used \union {c}
        /\ p \in Alive \ Childless /\ c \notin Used
        /\ \A d \in Used : d < c
    BY <2>1, ForkKernel DEF ProcAssumption
  <2>3. p \in Running /\ p \in Used /\ p < c
    BY <2>2 DEF Running, WalkTypes, ProcAssumption, Alive, Used
  <2>4. WalkTypes' /\ Running' \subseteq Running \union {c} /\ Floor(s)' = Floor(s)
    BY <2>2 DEF WalkTypes, Running, Floor
  <2>5. p \in Nat /\ c \in Nat /\ \A d \in Used : d \in Nat
    BY <1>0 DEF Used, Pids
  <2>6. \A q : Unseen(s, q)' <=> Unseen(s, q)
    BY <2>4 DEF Unseen
  <2>7. ASSUME pc \in {"look", "kill"}, sig = "KILL"
        PROVE  /\ \E q \in Used' : q >= Floor(s)'
               /\ \A q \in Running' : Unseen(s, q) \/ (pc = "look" /\ q >= at)
    <3>1. PICK q \in Used : q >= Floor(s)
      BY <2>3, <2>7
    <3>2. c > Floor(s)
      BY <1>0, <2>2, <2>5, <3>1
    <3>3. Unseen(s, c)
      BY <3>2 DEF Unseen
    <3>4. QED
      BY <2>2, <2>4, <2>7, <3>1, <3>3
  <2>8. ASSUME pc = "look", sig = "KILL", pids = {} PROVE \A q \in Running' : q >= at
    BY <1>0, <2>3, <2>4, <2>5, <2>8
  <2>9. ASSUME pc \in DiskPhases \union {"daemon"}
        PROVE  \A q \in Running' : q >= s + Rounds
    <3>1. p >= s + Rounds
      BY <2>3, <2>9
    <3>2. c >= s + Rounds
      BY <1>0, <2>3, <2>5, <3>1
    <3>3. QED
      BY <2>4, <2>9, <3>2
  <2>10. pc \in DiskPhases => Daemon \notin Alive'
    BY <2>2
  <2>11. QED
    BY <2>2, <2>4, <2>6, <2>7, <2>8, <2>9, <2>10
<1>3. QED
  BY <1>1, <1>2

\* The loop before the shutdown, and the beginning of it.
LEMMA LoopKill ==
  ASSUME ConstantsAssumption, NEW s \in Started, KillInv(s),
         Tick \/ OnCommand \/ CheckCad \/ Forward \/ ResetCad \/ IgnoreSignals
  PROVE  KillInv(s)'
<1> USE DEF KillInv
<1>1. CASE Tick \/ OnCommand \/ CheckCad \/ Forward \/ ResetCad
  <2>1. /\ UNCHANGED <<proc, parent, sig, round, at, pids>>
        /\ pc' \in {"tick", "cad", "send", "reset", "signals"}
    BY <1>1 DEF Tick, OnCommand, CheckCad, Forward, ResetCad, EnterShutdown, Goto,
                kernelVars, walkVars
  <2>2. ignorePID' = ignorePID \/ \E p \in MayIgnore : ignorePID' = ignorePID \union {p}
    BY <1>1 DEF Tick, OnCommand, CheckCad, Forward, ResetCad, EnterShutdown, askVars
  <2>3. WalkTypes'
    BY <2>1, <2>2 DEF WalkTypes
  <2>4. QED
    BY <2>1, <2>3 DEF KernelTypes, Used, DiskPhases
<1>2. CASE IgnoreSignals
  <2>1. /\ UNCHANGED <<proc, parent, ignorePID>>
        /\ pc' = "look" /\ sig' = "TERM" /\ round' = 1 /\ at' = 2 /\ pids' = {}
    BY <1>2 DEF IgnoreSignals, Goto, askVars
  <2>2. WalkTypes'
    BY <2>1 DEF WalkTypes, ConstantsAssumption, KernelAssumption, Pids
  <2>3. QED
    BY <2>1, <2>2 DEF KernelTypes, Used, DiskPhases
<1>3. QED
  BY <1>1, <1>2

\* One look at a process.
LEMMA LookKill ==
  ASSUME ConstantsAssumption, NEW s \in Started, KillInv(s), Look
  PROVE  KillInv(s)'
<1> USE DEF KillInv
<1>1. /\ UNCHANGED <<proc, parent, pc, sig, round, ignorePID>>
      /\ pc = "look" /\ at \in Pids /\ at' = at + 1
      /\ pids' = IF ToSignal(at) THEN pids \union {at} ELSE pids
  BY DEF Look, kernelVars, askVars
<1>2. LastPid \in Nat /\ s \in Nat /\ at \in Nat /\ Floor(s)' = Floor(s)
  BY <1>1 DEF ConstantsAssumption, KernelAssumption, WalkTypes, Pids, Floor
<1>3. WalkTypes'
  BY <1>1, <1>2 DEF WalkTypes, Pids
<1>4. KernelTypes' /\ Used' = Used /\ Running' = Running /\ Alive' = Alive
  BY <1>1 DEF KernelTypes, Used, Running, Alive
<1>5. \A p \in Running : p \in Pids /\ p \in Nat /\ (p = at => p \in pids')
  BY <1>1, <1>2 DEF Running, Alive, ToSignal, Exists, ReadsAsZombie, Pids
<1>6. \A p \in Running : p >= at => p \in pids' \/ p >= at'
  BY <1>1, <1>2, <1>5
<1>7. pids \subseteq pids'
  BY <1>1
<1>8. QED
  BY <1>1, <1>2, <1>3, <1>4, <1>6, <1>7 DEF Unseen, DiskPhases

\* What follows signal_all_processes.
LEMMA EndOfSignalsKill ==
  ASSUME ConstantsAssumption, NEW s \in Started, KillInv(s), EndOfSignals,
         UNCHANGED <<proc, parent, ignorePID>>,
         sig = "KILL" => \A p \in Running : p >= s + Rounds
  PROVE  KillInv(s)'
<1> USE DEF KillInv
<1>1. KernelTypes' /\ Used' = Used /\ Running' = Running /\ Alive' = Alive
  BY DEF KernelTypes, Used, Running, Alive
<1>2. \A p \in Pids : p \in Nat /\ p >= 2
  BY DEF Pids, ConstantsAssumption, KernelAssumption
<1>3. CASE sig = "TERM" /\ pc' = "look" /\ sig' = "KILL" /\ round' = 1 /\ at' = 2 /\ pids' = {}
  <2>1. WalkTypes'
    BY <1>3 DEF WalkTypes, ConstantsAssumption, KernelAssumption, Pids
  <2>2. s \in Used' /\ s >= Floor(s)'
    BY <1>1, <1>2, <1>3 DEF Floor, Used
  <2>3. \A p \in Running' : p >= at'
    BY <1>1, <1>2, <1>3 DEF Running, Alive
  <2>4. QED
    BY <1>1, <1>3, <2>1, <2>2, <2>3 DEF DiskPhases
<1>4. CASE sig = "KILL" /\ pc' = "daemon" /\ UNCHANGED <<sig, round, at, pids>>
  <2>1. WalkTypes'
    BY <1>4 DEF WalkTypes
  <2>2. QED
    BY <1>1, <1>4, <2>1 DEF DiskPhases
<1>5. QED
  BY <1>3, <1>4 DEF EndOfSignals

\* The end of a look: what runs and has not been found is behind the end.
LEMMA LookedKill ==
  ASSUME ConstantsAssumption, NEW s \in Started, KillInv(s), Looked
  PROVE  KillInv(s)'
<1> USE DEF KillInv
<1>1. /\ UNCHANGED <<proc, parent, ignorePID>> /\ pc = "look" /\ at \notin Pids
      /\ IF pids = {} THEN EndOfSignals ELSE pc' = "kill" /\ UNCHANGED <<sig, round, at, pids>>
  BY DEF Looked, kernelVars, askVars
<1>2. \A p \in Running : ~(p >= at)
  <2>1. LastPid \in Nat /\ at \in Nat /\ at > LastPid
    BY <1>1 DEF ConstantsAssumption, KernelAssumption, WalkTypes, Pids
  <2>2. QED
    BY <2>1 DEF Running, Alive, Pids
<1>3. CASE pids = {}
  <2>1. sig = "KILL" => Running = {}
    BY <1>1, <1>2, <1>3
  <2>2. QED
    BY <1>1, <1>3, <2>1, EndOfSignalsKill
<1>4. CASE pids # {}
  <2>1. pc' = "kill" /\ UNCHANGED <<sig, round, at, pids>>
    BY <1>1, <1>4
  <2>2. /\ KernelTypes' /\ WalkTypes' /\ Used' = Used /\ Running' = Running
        /\ Floor(s)' = Floor(s)
    BY <1>1, <2>1 DEF KernelTypes, WalkTypes, Used, Running, Alive, Floor
  <2>3. QED
    BY <1>1, <1>2, <2>1, <2>2 DEF Unseen, DiskPhases
<1>5. QED
  BY <1>3, <1>4

\* One process is signalled.
LEMMA SignalKill ==
  ASSUME ConstantsAssumption, NEW s \in Started, KillInv(s), NEW p \in Pids, Signal(p)
  PROVE  KillInv(s)'
<1> USE DEF KillInv
<1>1. /\ UNCHANGED <<pc, sig, round, at, ignorePID>> /\ pc = "kill" /\ pids' = pids \ {p}
      /\ IF sig = "KILL" THEN Kill(p) ELSE UNCHANGED kernelVars
  BY DEF Signal, askVars
<1>2. WalkTypes' /\ Floor(s)' = Floor(s)
  BY <1>1 DEF WalkTypes, Floor
<1>3. CASE sig = "KILL"
  <2>1. KernelTypes' /\ Used' = Used /\ Alive' = Alive \ {p}
    <3>1. CASE p \in Alive
      BY <1>1, <1>3, <3>1, DieKernel DEF Kill
    <3>2. CASE p \notin Alive
      BY <1>1, <1>3, <3>2 DEF Kill, KernelTypes, Used, Alive, kernelVars
    <3>3. QED
      BY <3>1, <3>2
  <2>2. Running' = Running \ {p}
    BY <1>1, <2>1 DEF Running
  <2>3. QED
    BY <1>1, <1>2, <1>3, <2>1, <2>2 DEF Unseen, DiskPhases
<1>4. CASE sig # "KILL"
  <2>1. KernelTypes' /\ Used' = Used
    BY <1>1, <1>4 DEF KernelTypes, Used, kernelVars
  <2>2. QED
    BY <1>1, <1>2, <1>4, <2>1 DEF DiskPhases
<1>5. QED
  BY <1>3, <1>4

\* The end of a round: everything found has been killed.
LEMMA SignalledKill ==
  ASSUME ConstantsAssumption, NEW s \in Started, KillInv(s), Signalled
  PROVE  KillInv(s)'
<1> USE DEF KillInv
<1>1. UNCHANGED <<proc, parent, ignorePID>> /\ pc = "kill" /\ pids = {}
  BY DEF Signalled, kernelVars, askVars
<1>2. /\ s \in Nat /\ round \in Nat \ {0} /\ Rounds \in Nat /\ Floor(s) \in Nat
      /\ LastPid \in Nat
  BY DEF ConstantsAssumption, KernelAssumption, ShutdownAssumption, WalkTypes, Pids, Floor
<1>3. \A p \in Running : p \in Used /\ p \in Nat /\ p >= 2
  BY <1>2 DEF Running, Alive, Used, Pids
<1>4. sig = "KILL" => \A p \in Running : p >= s + round
  BY <1>1, <1>2, <1>3 DEF Unseen, Floor
<1>5. CASE sig = "KILL" /\ round < Rounds
  <2>1. /\ pc' = "look" /\ round' = round + 1 /\ at' = 2
        /\ UNCHANGED <<sig, pids>>
    BY <1>1, <1>2, <1>5 DEF Signalled
  <2>2. /\ KernelTypes' /\ Used' = Used /\ Running' = Running
        /\ Floor(s)' = s + round
    BY <1>1, <1>2, <2>1 DEF KernelTypes, Used, Running, Alive, Floor
  <2>3. WalkTypes'
    BY <1>1, <2>1 DEF WalkTypes, ConstantsAssumption, KernelAssumption, Pids
  <2>4. Running' = {} \/ \E p \in Used' : p >= Floor(s)'
    BY <1>3, <1>4, <1>5, <2>2
  <2>5. \A p \in Running' : p >= at'
    BY <1>3, <2>1, <2>2
  <2>6. QED
    BY <2>1, <2>2, <2>3, <2>4, <2>5 DEF DiskPhases
<1>6. CASE (sig # "KILL" \/ round >= Rounds) /\ EndOfSignals
  <2>1. sig = "KILL" => \A p \in Running : p >= s + Rounds
    BY <1>2, <1>3, <1>4, <1>6
  <2>2. QED
    BY <1>1, <1>6, <2>1, EndOfSignalsKill
<1>7. QED
  BY <1>5, <1>6 DEF Signalled

\* The daemon is killed, whoever is to be left alone; then come the disks.
LEMMA DiskKill ==
  ASSUME ConstantsAssumption, NEW s \in Started, KillInv(s),
         \/ KillDaemon \/ List \/ SwapOff \/ Remount \/ Remounted
         \/ Unmount \/ Unmounted \/ ShutdownCall \/ Halt
  PROVE  KillInv(s)'
<1> USE DEF KillInv
<1>1. /\ UNCHANGED <<sig, round, at, pids, ignorePID>>
      /\ pc \in DiskPhases \union {"daemon"} /\ pc' \in DiskPhases
  BY DEF KillDaemon, List, SwapOff, Remount, Remounted, Unmount, Unmounted,
         ShutdownCall, Halt, Goto, walkVars, askVars, DiskPhases
<1>2. KernelTypes' /\ Used' = Used /\ Alive' \subseteq Alive /\ Daemon \notin Alive'
  <2>1. CASE KillDaemon
    <3>1. CASE Daemon \in Alive
      BY <2>1, <3>1, DieKernel DEF KillDaemon, Kill
    <3>2. CASE Daemon \notin Alive
      BY <2>1, <3>2 DEF KillDaemon, Kill, KernelTypes, Used, Alive, kernelVars
    <3>3. QED
      BY <3>1, <3>2
  <2>2. CASE ~KillDaemon
    <3>1. UNCHANGED <<proc, parent>> /\ pc \in DiskPhases
      BY <2>2 DEF List, SwapOff, Remount, Remounted, Unmount, Unmounted,
                  ShutdownCall, Halt, Goto, kernelVars, DiskPhases
    <3>2. QED
      BY <3>1 DEF KernelTypes, Used, Alive
  <2>3. QED
    BY <2>1, <2>2
<1>3. WalkTypes' /\ Running' \subseteq Running
  BY <1>1, <1>2 DEF WalkTypes, Running
<1>4. QED
  BY <1>1, <1>2, <1>3 DEF DiskPhases

\* Every step keeps it.
LEMMA NextKill ==
  ASSUME ConstantsAssumption, ProcAssumption, NEW s \in Started
  PROVE  KillInv(s) /\ [Next]_vars => KillInv(s)'
<1> SUFFICES ASSUME KillInv(s), [Next]_vars PROVE KillInv(s)'
  OBVIOUS
<1>0. KernelTypes
  BY DEF KillInv
<1>1. CASE Main
  BY <1>1, LoopKill, LookKill, LookedKill, SignalKill, SignalledKill, DiskKill
     DEF Main, Shutdown, ShutdownStep
<1>2. CASE Handler \/ Cad
  <2>1. UNCHANGED <<pc, sig, round, at, pids, ignorePID>>
    BY <1>2 DEF Handler, OnChild, Open, Read, Return, Cad, handlerFrame, shutdownVars
  <2>2. KernelTypes' /\ Alive' \subseteq Alive /\ Used' = Used
    <3>1. CASE UNCHANGED <<proc, parent>>
      BY <1>0, <3>1 DEF KernelTypes, Alive, Used
    <3>2. CASE hat \in Pids /\ Collect(hat)
      BY <1>0, <3>2, CollectKernel
    <3>3. QED
      BY <1>2, <3>1, <3>2 DEF Handler, OnChild, Open, Read, Return, Cad, kernelVars
  <2>3. QED
    BY <2>1, <2>2, OthersKill
<1>3. CASE Others
  <2>1. UNCHANGED <<pc, sig, round, at, pids, ignorePID>>
    BY <1>3 DEF Others, shutdownVars
  <2>2. \/ KernelTypes' /\ Alive' \subseteq Alive /\ Used' = Used
        \/ \E p, c \in Pids : Fork(p, c)
    <3>1. CASE \E p \in Alive : Die(p)
      BY <1>0, <3>1, DieKernel
    <3>2. CASE \E p \in Pids : Collect(p)
      BY <1>0, <3>2, CollectKernel
    <3>3. CASE \E p \in Alive, c \in Pids : Fork(p, c)
      BY <3>3 DEF Alive
    <3>4. QED
      BY <1>3, <3>1, <3>2, <3>3 DEF Others, Process, Children
  <2>3. QED
    BY <2>1, <2>2, OthersKill
<1>4. CASE UNCHANGED vars
  <2>1. UNCHANGED <<proc, parent, pc, sig, round, at, pids, ignorePID>>
    BY <1>4 DEF vars, kernelVars, shutdownVars
  <2>2. KernelTypes' /\ Alive' \subseteq Alive /\ Used' = Used
    BY <1>0, <2>1 DEF KernelTypes, Alive, Used
  <2>3. QED
    BY <2>1, <2>2, OthersKill
<1>5. QED
  BY <1>1, <1>2, <1>3, <1>4 DEF Next, Ended

\* At the disks, what runs has slipped through Rounds rounds.
LateOnes == pc \in DiskPhases =>
  /\ Daemon \notin Alive
  /\ \A s \in Started : \A p \in Alive \ ignorePID : p >= s + Rounds

\* However many processes fork, what still runs when PxInit turns to the disks
\* has slipped through Rounds rounds (10 of them in signal_all_processes of
\* PxShutdown.cpp): at least that many numbers were given out after any process
\* of the beginning.  And the daemon does not run.
THEOREM OnlyLateOnesRun ==
  ASSUME ConstantsAssumption, ProcAssumption
  PROVE  Spec => []LateOnes
<1> DEFINE Inv == \A s \in Started : KillInv(s)
<1>1. Init => Inv
  BY InitKill
<1>2. Inv /\ [Next]_vars => Inv'
  BY NextKill
<1>3. Inv => LateOnes
  BY DEF KillInv, LateOnes, Running, ConstantsAssumption, KernelAssumption
<1> HIDE DEF Inv
<1>4. QED
  BY <1>1, <1>2, <1>3, PTL DEF Spec

\* There are not numbers left for as many forks as there are rounds.
FewForks == \E s \in Started : s + Rounds > LastPid

\* Then nothing runs when PxInit turns to the disks but what it was asked to
\* leave alone (PxShutdown.cpp, signal_all_processes): a process that forks
\* behind the walk in every round would need more numbers.
THEOREM DisksAreQuiet ==
  ASSUME ConstantsAssumption, ProcAssumption, FewForks
  PROVE  Spec => []QuietDisks
<1>1. LateOnes => QuietDisks
  <2> SUFFICES ASSUME LateOnes, pc \in DiskPhases PROVE Alive \subseteq ignorePID \ {Daemon}
    BY DEF QuietDisks
  <2>1. PICK s \in Started : s + Rounds > LastPid
    BY DEF FewForks
  <2>2. /\ LastPid \in Nat /\ s \in Nat /\ Rounds \in Nat
        /\ \A p \in Alive : p \in Nat /\ p <= LastPid
    BY DEF ConstantsAssumption, KernelAssumption, ShutdownAssumption, Pids, Alive
  <2>3. \A p \in Alive \ ignorePID : p >= s + Rounds
    BY DEF LateOnes
  <2>4. QED
    BY <2>1, <2>2, <2>3 DEF LateOnes
<1>2. QED
  BY <1>1, OnlyLateOnesRun, PTL

-----------------------------------------------------------------------------
(* The zombies.  One signal may stand for many of them: each is ahead of   *)
(* the handler, or the handler will run again.                             *)

Before == {"tick", "cad", "send", "reset"}

ZombieInv ==
  /\ KernelTypes
  /\ hat \in Nat
  /\ \A p \in Pids : parent[p] # p
  /\ pc \notin Before => shuttingDown
  /\ chldIgnored => shuttingDown
  /\ ~shuttingDown => \A p \in Pids : Orphan(p) => sigchld \/ (hat # 0 /\ hat <= p)

\* No process is collected by another parent between the opening of its stat and
\* its reading (the race of CollectorJob::tick, which then gives up: EINVAL).
NoneVanishes == hat \in Pids /\ opened => Exists(hat)

\* At first there is no zombie.
LEMMA InitZombies == ASSUME ConstantsAssumption PROVE Init => ZombieInv
<1> SUFFICES ASSUME Init PROVE ZombieInv
  OBVIOUS
<1> USE DEF ConstantsAssumption, KernelAssumption, Init, KernelInit, ShutdownInit
<1>1. KernelTypes
  BY DEF KernelTypes, InitPid, Pids
<1>2. \A p \in Pids : parent[p] # p
  BY DEF InitPid, Pids
<1>3. \A p \in Pids : ~Orphan(p)
  BY DEF Orphan
<1>4. QED
  BY <1>1, <1>2, <1>3 DEF ZombieInv, Before

\* A death that makes zombies of PxInit's sends a signal.
LEMMA DieZombies ==
  ASSUME ConstantsAssumption, ZombieInv, NEW p, Die(p),
         UNCHANGED <<pc, shuttingDown, hat>>
  PROVE  ZombieInv'
<1> USE DEF ZombieInv
<1> DEFINE orphans == {c \in Children(p) : proc[c] = "zombie"}
           own == IF parent[p] = InitPid THEN {p} ELSE {}
<1>1. KernelTypes'
  BY DieKernel
<1>2. /\ p \in Pids
      /\ parent' = [q \in Pids |-> IF q \in Children(p) THEN InitPid ELSE parent[q]]
      /\ chldIgnored' = chldIgnored
  BY DEF Die, Alive
<1>3. \A q \in Pids : parent'[q] # q
  BY <1>2 DEF InitPid, Pids, ConstantsAssumption, KernelAssumption
<1>4. ASSUME ~shuttingDown, NEW q \in Pids, Orphan(q)'
      PROVE  sigchld' \/ (hat' # 0 /\ hat' <= q)
  <2>1. ~chldIgnored
    BY <1>4
  <2>2. /\ sigchld' = (sigchld \/ own \union orphans # {})
        /\ proc' = [r \in Pids |-> IF r = p THEN "zombie" ELSE proc[r]]
    BY <2>1 DEF Die
  <2>3. CASE q = p
    <3>1. p \notin Children(p)
      BY DEF Children
    <3>2. parent[p] = InitPid
      BY <1>2, <1>4, <2>3, <3>1 DEF Orphan
    <3>3. QED
      BY <2>2, <3>2
  <2>4. CASE q # p /\ q \in Children(p)
    <3>1. q \in orphans
      BY <1>4, <2>2, <2>4 DEF Orphan
    <3>2. QED
      BY <2>2, <3>1
  <2>5. CASE q # p /\ q \notin Children(p)
    BY <1>2, <1>4, <2>2, <2>5 DEF Orphan
  <2>6. QED
    BY <2>3, <2>4, <2>5
<1>5. QED
  BY <1>1, <1>2, <1>3, <1>4

\* No new zombie.
LEMMA SameZombies ==
  ASSUME ZombieInv, KernelTypes', \A p \in Pids : parent'[p] # p,
         UNCHANGED <<sigchld, chldIgnored, hat, shuttingDown>>,
         pc' = pc \/ shuttingDown \/ pc' \in Before,
         \A p \in Pids : Orphan(p)' => Orphan(p)
  PROVE  ZombieInv'
  BY DEF ZombieInv

\* Every step keeps it, unless the handler gives up.
LEMMA NextZombies ==
  ASSUME ConstantsAssumption, Spaced = {}
  PROVE  ZombieInv /\ NoneVanishes /\ [Next]_vars => ZombieInv'
<1> SUFFICES ASSUME ZombieInv, NoneVanishes, [Next]_vars PROVE ZombieInv'
  OBVIOUS
<1> USE DEF ZombieInv
<1>1. ASSUME NEW p \in Pids, Collect(p), UNCHANGED <<hat, shuttingDown, pc>>
      PROVE  ZombieInv'
  <2>1. KernelTypes'
    BY <1>1, CollectKernel
  <2>2. QED
    BY <1>1, <2>1, SameZombies DEF Collect, KernelTypes, Orphan
<1>2. ASSUME UNCHANGED <<proc, parent, sigchld, chldIgnored, hat, shuttingDown>>,
             pc' = pc \/ shuttingDown \/ pc' \in Before
      PROVE  ZombieInv'
  BY <1>2, SameZombies DEF KernelTypes, Orphan
<1>3. CASE Main
  <2>1. CASE Tick \/ CheckCad \/ Forward \/ ResetCad
    BY <1>2, <2>1 DEF Tick, CheckCad, Forward, ResetCad, Goto, kernelVars, askVars,
                      initVars, Before
  <2>2. CASE OnCommand
    BY <2>2 DEF OnCommand, EnterShutdown, kernelVars, initVars, KernelTypes
  <2>3. CASE Shutdown
    <3>1. /\ UNCHANGED <<hat, shuttingDown>> /\ shuttingDown
      BY <2>3 DEF Shutdown, ShutdownStep, IgnoreSignals, Look, Looked, Signal,
                  Signalled, KillDaemon, List, SwapOff, Remount, Remounted, Unmount,
                  Unmounted, ShutdownCall, Halt, Goto, askVars, initVars, Before
    <3>2. CASE UNCHANGED kernelVars
      BY <1>2, <3>1, <3>2 DEF kernelVars
    <3>3. CASE IgnoreSignals
      BY <3>1, <3>3 DEF IgnoreSignals, KernelTypes
    <3>4. ASSUME NEW p, Die(p) PROVE ZombieInv'
      <4>1. KernelTypes'
        BY <3>4, DieKernel
      <4>2. \A q \in Pids : parent'[q] # q
        BY <3>4 DEF Die, InitPid, Pids, ConstantsAssumption, KernelAssumption
      <4>3. QED
        BY <3>1, <4>1, <4>2
    <3>5. QED
      BY <2>3, <3>2, <3>3, <3>4 DEF Shutdown, ShutdownStep, Look, Looked, Signal,
                Signalled, KillDaemon, Kill, List, SwapOff, Remount, Remounted,
                Unmount, Unmounted, ShutdownCall, Halt
  <2>4. QED
    BY <1>3, <2>1, <2>2, <2>3 DEF Main
<1>4. CASE OnChild
  <2>1. /\ UNCHANGED <<proc, parent, chldIgnored, pc, shuttingDown>>
        /\ ~shuttingDown => hat' = 2
        /\ hat' \in Nat
    BY <1>4 DEF OnChild, handlerFrame, shutdownVars
  <2>2. \A p \in Pids : p \in Nat /\ p >= 2
    BY DEF Pids, ConstantsAssumption, KernelAssumption
  <2>3. QED
    BY <2>1, <2>2 DEF KernelTypes
<1>5. CASE Open \/ Read
  <2>1. hat \in Pids /\ UNCHANGED <<pc, shuttingDown, sigchld, chldIgnored, parent>>
    BY <1>5 DEF Open, Read, kernelVars, Collect, handlerFrame, shutdownVars
  <2>2. \A p \in Pids : p \in Nat /\ p >= 2
    BY DEF Pids, ConstantsAssumption, KernelAssumption
  <2>3. \/ hat' = hat /\ UNCHANGED proc
        \/ hat' = hat + 1 /\ Collect(hat)
        \/ hat' = hat + 1 /\ ~Orphan(hat) /\ UNCHANGED proc
    BY <1>5, <2>1 DEF Open, Read, kernelVars, NoneVanishes, Exists, Orphan, ReadsAsZombie
  <2>4. KernelTypes' /\ \A p \in Pids : Orphan(p)' => Orphan(p) /\ (p = hat => hat' = hat)
    BY <2>1, <2>3 DEF Collect, KernelTypes, Orphan
  <2>5. ASSUME ~shuttingDown, NEW p \in Pids, Orphan(p)', ~sigchld
        PROVE  hat' # 0 /\ hat' <= p
    <3>1. hat <= p
      BY <2>4, <2>5
    <3>2. QED
      BY <2>1, <2>2, <2>3, <2>4, <2>5, <3>1
  <2>6. hat' \in Nat
    BY <2>1, <2>2, <2>3
  <2>7. QED
    BY <2>1, <2>4, <2>5, <2>6
<1>6. CASE Return
  <2>1. /\ UNCHANGED <<proc, parent, sigchld, chldIgnored, pc, shuttingDown>>
        /\ hat > LastPid /\ hat' = 0
    BY <1>6 DEF Return, kernelVars, handlerFrame, shutdownVars
  <2>2. \A p \in Pids : ~(hat <= p)
    BY <2>1 DEF Pids, ConstantsAssumption, KernelAssumption
  <2>3. QED
    BY <2>1, <2>2 DEF KernelTypes, Orphan
<1>7. CASE Cad
  BY <1>2, <1>7 DEF Cad, kernelVars, shutdownVars
<1>8. CASE Others
  <2>1. UNCHANGED <<pc, shuttingDown, hat>>
    BY <1>8 DEF Others, shutdownVars, initVars
  <2>2. CASE \E p \in Alive : Die(p)
    BY <2>1, <2>2, DieZombies
  <2>3. CASE \E p \in Pids : Collect(p)
    BY <1>1, <2>1, <2>3
  <2>4. CASE \E p \in Alive, c \in Pids : Fork(p, c)
    <3>1. PICK p \in Alive, c \in Pids : Fork(p, c)
      BY <2>4
    <3>2. /\ proc' = [proc EXCEPT ![c] = "alive"] /\ parent' = [parent EXCEPT ![c] = p]
          /\ proc[c] = "unused" /\ proc[p] = "alive" /\ p \in Nat
          /\ UNCHANGED <<sigchld, chldIgnored>>
      BY <3>1 DEF Fork, MayBeNext, Alive, Pids, ConstantsAssumption, KernelAssumption
    <3>3. QED
      BY <2>1, <3>2, SameZombies DEF KernelTypes, Orphan
  <2>5. QED
    BY <1>8, <2>2, <2>3, <2>4 DEF Others, Process, Children
<1>9. CASE UNCHANGED vars
  BY <1>2, <1>9 DEF vars, kernelVars, shutdownVars, initVars
<1>10. QED
  BY <1>3, <1>4, <1>5, <1>6, <1>7, <1>8, <1>9 DEF Next, Handler, Ended

\* Until the shutdown begins, no zombie of PxInit's is left between two runs of
\* the handler (PxInit.cpp, CollectorJob::tick and onchild), as long as nobody
\* else collects one while its stat is being read, and names have no spaces.
THEOREM NoZombieStays ==
  ASSUME ConstantsAssumption, Spaced = {}
  PROVE  Spec /\ []NoneVanishes => []ZombiesAreCollected
<1>1. Init => ZombieInv
  BY InitZombies
<1>2. ZombieInv /\ NoneVanishes /\ [Next]_vars => ZombieInv'
  BY NextZombies
<1>3. ZombieInv => ZombiesAreCollected
  BY DEF ZombieInv, ZombiesAreCollected
<1>4. QED
  BY <1>1, <1>2, <1>3, PTL DEF Spec

-----------------------------------------------------------------------------
(* The disks.                                                              *)

\* What is on /sysroot and the like is not taken for one of the kernel's; what
\* is mounted on a directory of another file system was mounted after it, and
\* is neither the root nor one that is skipped.
MountsAssumption ==
  /\ Lookalikes \subseteq Api
  /\ \A i, j \in DOMAIN Mounts :
       <<Mounts[j], Mounts[i]>> \in OnTop /\ Mounts[i] \notin Api \union {Root}
         => j > i /\ Mounts[j] \notin Api \union {Root}

\* Nothing was to be left alone, and no call has failed.
Innocent == ignorePID = {} /\ faults = 0

\* left is what is still to do of Mounts, the last one first.
LeftInv ==
  /\ left \in Seq(STRING) /\ Len(left) <= Len(Mounts)
  /\ \A i \in 1..Len(left) : left[i] = Mounts[Len(left) + 1 - i]

Flushed(f) == f \in Api \/ f \notin writable \/ f \in Pseudo
Away(f) == f \in Api \union {Root} \/ f \notin mounted

DiskInv ==
  /\ LeftInv /\ faults \in Nat
  /\ pc = "remount" =>
       \/ errorsEncountered
       \/ \A i \in 1..Len(Mounts) : i <= Len(left) \/ Flushed(Mounts[i])
  /\ pc \in {"unmount", "power", "halt", "done"} /\ listed =>
       errorsEncountered \/ \A i \in 1..Len(Mounts) : Flushed(Mounts[i])
  /\ pc \notin DiskPhases \/ pc = "list" => ~listed
  /\ power # "on" => pc \in {"halt", "done"}
  /\ Innocent => ~errorsEncountered
  /\ pc = "unmount" /\ Innocent =>
       \A i \in 1..Len(Mounts) : i <= Len(left) \/ Away(Mounts[i])
  /\ pc \in {"power", "halt", "done"} /\ listed /\ Innocent =>
       \A i \in 1..Len(Mounts) : Away(Mounts[i])

\* The whole list, the last mounted first.
LEMMA WholeList ==
  ASSUME ShutdownAssumption, left' = Reverse(Mounts)
  PROVE  LeftInv' /\ Len(left') = Len(Mounts)
<1>1. Mounts \in Seq(STRING) /\ Len(Mounts) \in Nat
  BY DEF ShutdownAssumption
<1>2. left' = [i \in 1..Len(Mounts) |-> Mounts[(Len(Mounts) - i) + 1]]
  BY DEF Reverse
<1>3. \A i \in 1..Len(Mounts) : (Len(Mounts) - i) + 1 \in 1..Len(Mounts)
  BY <1>1
<1>4. left' \in Seq(STRING) /\ Len(left') = Len(Mounts)
  BY <1>1, <1>2, <1>3
<1>5. \A i \in 1..Len(left') : left'[i] = Mounts[Len(left') + 1 - i]
  <2>1. ASSUME NEW i \in 1..Len(left') PROVE left'[i] = Mounts[Len(left') + 1 - i]
    <3>1. (Len(Mounts) - i) + 1 = Len(Mounts) + 1 - i
      BY <1>1, <1>4
    <3>2. QED
      BY <1>2, <1>4, <3>1
  <2>2. QED
    BY <2>1
<1>6. QED
  BY <1>1, <1>4, <1>5 DEF LeftInv

\* One less: the next is the last mounted of those before.
LEMMA LessToDo ==
  ASSUME ShutdownAssumption, LeftInv, left # <<>>
  PROVE  /\ Len(left) \in 1..Len(Mounts) /\ Head(left) = Mounts[Len(left)]
         /\ left' = Tail(left) => LeftInv' /\ Len(left') = Len(left) - 1
<1> DEFINE n == Len(left)
<1>1. /\ left \in Seq(STRING) /\ Mounts \in Seq(STRING) /\ Len(Mounts) \in Nat
      /\ n \in Nat \ {0} /\ n <= Len(Mounts)
  BY DEF ShutdownAssumption, LeftInv
<1>2. Head(left) = Mounts[n]
  <2>1. left[1] = Mounts[n + 1 - 1] /\ n + 1 - 1 = n
    BY <1>1 DEF LeftInv
  <2>2. QED
    BY <1>1, <2>1
<1>3. ASSUME left' = Tail(left) PROVE LeftInv' /\ Len(left') = n - 1
  <2>1. /\ left' \in Seq(STRING) /\ Len(left') = n - 1
        /\ \A i \in 1..n - 1 : left'[i] = left[i + 1]
    BY <1>1, <1>3
  <2>2. ASSUME NEW i \in 1..n - 1 PROVE left'[i] = Mounts[(n - 1) + 1 - i]
    <3>1. i + 1 \in 1..n /\ n + 1 - (i + 1) = (n - 1) + 1 - i
      BY <1>1
    <3>2. left[i + 1] = Mounts[n + 1 - (i + 1)]
      BY <3>1 DEF LeftInv
    <3>3. QED
      BY <2>1, <3>1, <3>2
  <2>3. QED
    BY <1>1, <2>1, <2>2 DEF LeftInv
<1>4. QED
  BY <1>1, <1>2, <1>3

\* Faults are never taken back, nor is the wish to be left alone.
LEMMA StaysGuilty ==
  ASSUME ConstantsAssumption, DiskInv, [Next]_vars
  PROVE  faults' \in Nat /\ (faults' = faults \/ faults' = faults + 1)
         /\ (Innocent' => Innocent)
<1>1. faults' = faults \/ faults' = faults + 1
  BY DEF Next, Main, Handler, OnChild, Open, Read, Return, Cad, Others, Ended, vars,
         handlerFrame, Tick, OnCommand, EnterShutdown, CheckCad, Forward, ResetCad,
         Shutdown, ShutdownStep, IgnoreSignals, Look, Looked, Signal, Signalled,
         KillDaemon, List, SwapOff, Remount, Remounted, Unmount, Unmounted,
         ShutdownCall, Halt, Fault, shutdownVars
<1>2. ignorePID \subseteq ignorePID'
  BY DEF Next, Main, Handler, OnChild, Open, Read, Return, Cad, Others, Ended, vars,
         handlerFrame, Tick, OnCommand, EnterShutdown, CheckCad, Forward, ResetCad,
         Shutdown, ShutdownStep, IgnoreSignals, Look, Looked, Signal, Signalled,
         KillDaemon, List, SwapOff, Remount, Remounted, Unmount, Unmounted,
         ShutdownCall, Halt, askVars, shutdownVars
<1>3. QED
  BY <1>1, <1>2 DEF Innocent, DiskInv

\* Until the disks, and beside them.
LEMMA ElsewhereDisk ==
  ASSUME DiskInv, UNCHANGED <<diskVars, power, faults>>, Innocent' => Innocent,
         pc' = pc \/ (pc \notin DiskPhases /\ pc' \notin DiskPhases \ {"list"})
  PROVE  DiskInv'
<1>1. LeftInv'
  BY DEF DiskInv, LeftInv, diskVars
<1>2. QED
  BY <1>1 DEF DiskInv, diskVars, Flushed, Away, DiskPhases

\* The list is read, or there is none; swap is turned off.
LEMMA ListDisk ==
  ASSUME ConstantsAssumption, DiskInv, List \/ SwapOff, faults' \in Nat,
         Innocent' => Innocent
  PROVE  DiskInv'
<1> USE DEF DiskInv
<1>1. CASE List
  <2>1. UNCHANGED <<left, ntry, mounted, writable, errorsEncountered, power>> /\ pc = "list"
    BY <1>1 DEF List
  <2>2. LeftInv'
    BY <2>1 DEF LeftInv
  <2>3. pc' = "swap" \/ (pc' = "power" /\ listed' = listed)
    BY <1>1 DEF List
  <2>4. QED
    BY <2>1, <2>2, <2>3 DEF Innocent, DiskPhases
<1>2. CASE SwapOff
  <2>1. /\ pc = "swap" /\ pc' = "remount" /\ left' = Reverse(Mounts)
        /\ UNCHANGED <<mounted, writable, listed, power>>
        /\ UNCHANGED errorsEncountered \/ (faults' = faults + 1)
    BY <1>2 DEF SwapOff, Goto, Fault
  <2>2. LeftInv' /\ Len(left') = Len(Mounts)
    BY <2>1, WholeList DEF ConstantsAssumption
  <2>3. \A i \in 1..Len(Mounts) : i <= Len(left')
    BY <2>2 DEF ConstantsAssumption, ShutdownAssumption
  <2>4. Innocent' => ~errorsEncountered'
    BY <2>1 DEF Innocent
  <2>5. QED
    BY <2>1, <2>2, <2>3, <2>4 DEF DiskPhases
<1>3. QED
  BY <1>1, <1>2

\* One attempt to make a file system read-only.
LEMMA RemountDisk ==
  ASSUME ConstantsAssumption, MountsAssumption, DiskInv, Remount, faults' \in Nat,
         Innocent' => Innocent, Innocent => ~InUse
  PROVE  DiskInv'
<1> USE DEF DiskInv
<1>1. /\ pc = "remount" /\ pc' = "remount" /\ left # <<>>
      /\ UNCHANGED <<mounted, listed, power>>
      /\ writable' = writable \/ writable' = writable \ {Head(left)}
  BY DEF Remount
<1>2. /\ Len(Mounts) \in Nat
      /\ \E n \in 1..Len(Mounts) : n = Len(left) /\ Mounts[n] = Head(left)
  BY <1>1, LessToDo DEF ConstantsAssumption, ShutdownAssumption
<1>. PICK n \in 1..Len(Mounts) : n = Len(left) /\ Mounts[n] = Head(left)
  BY <1>2
<1> DEFINE f == Mounts[n]
<1>3. \/ left' = left /\ errorsEncountered' = errorsEncountered
      \/ left' = Tail(left) /\ (errorsEncountered' \/ Flushed(f)')
  <2>1. CASE f \in Skipped /\ NextEntry
    BY <2>1 DEF NextEntry, Skipped, Flushed, MountsAssumption
  <2>2. CASE writable' = writable \ {f} /\ NextEntry
    BY <2>2 DEF NextEntry, Flushed
  <2>3. CASE f \in Pseudo /\ NextEntry
    BY <2>3 DEF NextEntry, Flushed
  <2>4. CASE \/ NextEntry /\ errorsEncountered' = TRUE
             \/ UNCHANGED <<left, errorsEncountered>>
    BY <2>4 DEF NextEntry
  <2>5. QED
    BY <2>1, <2>2, <2>3, <2>4 DEF Remount
<1>4. LeftInv' /\ (Len(left') = n \/ Len(left') = n - 1)
  BY <1>1, <1>3, LessToDo DEF ConstantsAssumption, LeftInv
<1>5. errorsEncountered => errorsEncountered'
  BY DEF Remount
<1>6. \A i \in 1..Len(Mounts) : Flushed(Mounts[i]) => Flushed(Mounts[i])'
  BY <1>1 DEF Flushed
<1>7. errorsEncountered' \/ \A i \in 1..Len(Mounts) : i <= Len(left') \/ Flushed(Mounts[i])'
  <2>1. CASE left' = left /\ errorsEncountered' = errorsEncountered
    BY <1>1, <1>6, <2>1
  <2>2. CASE left' = Tail(left) /\ (errorsEncountered' \/ Flushed(f)')
    <3>1. Len(left') = n - 1
      BY <1>1, <2>2, LessToDo DEF ConstantsAssumption
    <3>2. \A i \in 1..Len(Mounts) : i <= n => i <= Len(left') \/ i = n
      BY <1>2, <3>1
    <3>3. ASSUME ~errorsEncountered', NEW i \in 1..Len(Mounts), ~(i <= Len(left'))
          PROVE  Flushed(Mounts[i])'
      <4>1. CASE i = n
        BY <1>2, <2>2, <3>3, <4>1 DEF Flushed
      <4>2. CASE i # n
        BY <1>1, <1>5, <1>6, <3>2, <3>3, <4>2
      <4>3. QED
        BY <4>1, <4>2
    <3>4. QED
      BY <3>3
  <2>3. QED
    BY <1>3, <2>1, <2>2
<1>8. Innocent' => ~errorsEncountered'
  <2> SUFFICES ASSUME Innocent', Innocent PROVE ~errorsEncountered'
    OBVIOUS
  <2>1. ~InUse /\ ~(faults' = faults + 1)
    BY DEF Innocent
  <2>2. errorsEncountered' = errorsEncountered
    BY <2>1 DEF Remount, Fault
  <2>3. QED
    BY <2>2
<1>9. QED
  BY <1>1, <1>4, <1>7, <1>8 DEF DiskPhases

\* All are read-only, or an error has been noted.
LEMMA RemountedDisk ==
  ASSUME ConstantsAssumption, DiskInv, Remounted, Innocent' => Innocent
  PROVE  DiskInv'
<1> USE DEF DiskInv
<1>1. /\ pc = "remount" /\ pc' = "unmount" /\ left = <<>> /\ left' = Reverse(Mounts)
      /\ UNCHANGED <<mounted, writable, errorsEncountered, listed, power, faults>>
  BY DEF Remounted, Goto
<1>2. LeftInv' /\ Len(left') = Len(Mounts)
  BY <1>1, WholeList DEF ConstantsAssumption
<1>3. \A i \in 1..Len(Mounts) : i <= Len(left') /\ ~(i <= Len(left))
  BY <1>1, <1>2 DEF ConstantsAssumption, ShutdownAssumption
<1>4. QED
  BY <1>1, <1>2, <1>3 DEF Flushed, DiskPhases

\* What is next to be unmounted has nothing on it any more.
LEMMA NothingOnTop ==
  ASSUME ConstantsAssumption, MountsAssumption, DiskInv, pc = "unmount", Innocent,
         left # <<>>, Head(left) \notin Api \union {Root}
  PROVE  ~Covered(Head(left))
<1> USE DEF DiskInv
<1>1. /\ Len(left) \in 1..Len(Mounts) /\ Head(left) = Mounts[Len(left)]
      /\ Mounts \in Seq(STRING) /\ Len(Mounts) \in Nat
      /\ DOMAIN Mounts = 1..Len(Mounts)
  BY LessToDo DEF ConstantsAssumption, ShutdownAssumption
<1>2. SUFFICES ASSUME NEW g \in mounted, <<g, Head(left)>> \in OnTop PROVE FALSE
  BY DEF Covered
<1>3. g \in ToSet(Mounts)
  BY <1>2 DEF ConstantsAssumption, ShutdownAssumption
<1>4. PICK j \in 1..Len(Mounts) : g = Mounts[j]
  BY <1>1, <1>3 DEF ToSet
<1>5. j > Len(left) /\ Mounts[j] \notin Api \union {Root}
  BY <1>1, <1>2, <1>4 DEF MountsAssumption
<1>6. Away(Mounts[j])
  BY <1>1, <1>4, <1>5
<1>7. QED
  BY <1>2, <1>4, <1>5, <1>6 DEF Away

\* One file system is unmounted, or not.
LEMMA UnmountDisk ==
  ASSUME ConstantsAssumption, MountsAssumption, DiskInv, Unmount, faults' \in Nat,
         Innocent' => Innocent, Innocent => ~InUse
  PROVE  DiskInv'
<1> USE DEF DiskInv
<1>1. /\ pc = "unmount" /\ pc' = "unmount" /\ left # <<>> /\ left' = Tail(left)
      /\ UNCHANGED <<writable, listed, power>> /\ mounted' \subseteq mounted
      /\ errorsEncountered => errorsEncountered'
  BY DEF Unmount
<1>2. /\ Len(Mounts) \in Nat /\ LeftInv' /\ Len(left') = Len(left) - 1
      /\ \E n \in 1..Len(Mounts) : n = Len(left) /\ Mounts[n] = Head(left)
  BY <1>1, LessToDo DEF ConstantsAssumption, ShutdownAssumption
<1>. PICK n \in 1..Len(Mounts) : n = Len(left) /\ Mounts[n] = Head(left)
  BY <1>2
<1> DEFINE f == Mounts[n]
<1>3. ASSUME Innocent', Innocent PROVE errorsEncountered' = errorsEncountered /\ Away(f)'
  <2>1. ~InUse /\ ~(faults' = faults + 1)
    BY <1>3 DEF Innocent
  <2>2. f \in Skipped \union {Root} <=> f \in Api \union {Root}
    BY DEF Skipped, MountsAssumption
  <2>3. f \notin Skipped \union {Root} => ~Covered(f)
    BY <1>1, <1>3, <2>2, NothingOnTop DEF DiskInv
  <2>4. \/ f \in Skipped \union {Root} /\ UNCHANGED errorsEncountered
        \/ mounted' = mounted \ {f} /\ UNCHANGED errorsEncountered
    BY <2>1, <2>3 DEF Unmount, Fault
  <2>5. QED
    BY <2>2, <2>4 DEF Away
<1>4. ASSUME Innocent', Innocent
      PROVE  \A i \in 1..Len(Mounts) : i <= Len(left') \/ Away(Mounts[i])'
  <2>1. ASSUME NEW i \in 1..Len(Mounts), ~(i <= Len(left')) PROVE Away(Mounts[i])'
    <3>1. CASE i = n
      BY <1>2, <1>3, <1>4, <3>1 DEF Away
    <3>2. CASE i # n
      <4>1. ~(i <= n)
        BY <1>2, <2>1, <3>2
      <4>2. Away(Mounts[i])
        BY <1>1, <1>4, <4>1
      <4>3. QED
        BY <1>1, <4>2 DEF Away
    <3>3. QED
      BY <3>1, <3>2
  <2>2. QED
    BY <2>1
<1>5. \A i \in 1..Len(Mounts) : Flushed(Mounts[i]) => Flushed(Mounts[i])'
  BY <1>1 DEF Flushed
<1>6. QED
  BY <1>1, <1>2, <1>3, <1>4, <1>5 DEF DiskPhases

\* The end.
LEMMA PowerDisk ==
  ASSUME ConstantsAssumption, DiskInv, Unmounted \/ ShutdownCall \/ Halt,
         faults' \in Nat, Innocent' => Innocent
  PROVE  DiskInv'
<1> USE DEF DiskInv
<1>1. /\ UNCHANGED diskVars
      /\ \/ pc = "unmount" /\ left = <<>> /\ pc' = "power"
         \/ pc = "power" /\ pc' = "halt"
         \/ pc = "halt" /\ pc' = "done"
      /\ power' = power \/ pc' \in {"halt", "done"}
  <2>1. CASE Unmounted
    BY <2>1 DEF Unmounted, Goto
  <2>2. CASE ShutdownCall
    BY <2>2 DEF ShutdownCall, Goto
  <2>3. CASE Halt
    BY <2>3 DEF Halt, Goto
  <2>4. QED
    BY <2>1, <2>2, <2>3
<1>2. LeftInv'
  BY <1>1 DEF LeftInv, diskVars
<1>3. left = <<>> => \A i \in 1..Len(Mounts) : ~(i <= Len(left))
  BY DEF ConstantsAssumption, ShutdownAssumption
<1>4. QED
  BY <1>1, <1>2, <1>3 DEF diskVars, Flushed, Away, DiskPhases

\* Every step keeps it.
LEMMA NextDisk ==
  ASSUME ConstantsAssumption, MountsAssumption
  PROVE  DiskInv /\ QuietDisks /\ [Next]_vars => DiskInv'
<1> SUFFICES ASSUME DiskInv, QuietDisks, [Next]_vars PROVE DiskInv'
  OBVIOUS
<1>1. faults' \in Nat /\ (Innocent' => Innocent)
  BY StaysGuilty
<1>2. pc \in DiskPhases /\ Innocent => ~InUse
  BY DEF QuietDisks, Innocent, InUse
<1>3. CASE UNCHANGED <<pc, diskVars, power, faults>>
  BY <1>1, <1>3, ElsewhereDisk
<1>4. CASE Main
  <2>1. CASE Tick \/ OnCommand \/ CheckCad \/ Forward \/ ResetCad
    <3>1. /\ UNCHANGED <<diskVars, power, faults>>
          /\ pc \in {"tick", "cad", "send", "reset"}
          /\ pc' \in {"tick", "cad", "send", "reset", "signals"}
      BY <2>1 DEF Tick, OnCommand, EnterShutdown, CheckCad, Forward, ResetCad, Goto
    <3>2. QED
      BY <1>1, <3>1, ElsewhereDisk DEF DiskPhases
  <2>2. CASE IgnoreSignals \/ Look \/ Looked \/ (\E p \in Pids : Signal(p))
             \/ Signalled \/ KillDaemon
    <3>1. /\ UNCHANGED <<diskVars, power, faults>>
          /\ pc \in {"signals", "look", "kill", "daemon"}
          /\ pc' \in {"look", "kill", "daemon", "list"}
      BY <2>2 DEF IgnoreSignals, Look, Looked, Signal, Signalled, KillDaemon,
                  EndOfSignals, Goto
    <3>2. QED
      BY <1>1, <3>1, ElsewhereDisk DEF DiskPhases
  <2>3. CASE List \/ SwapOff
    BY <1>1, <2>3, ListDisk
  <2>4. CASE Remount
    BY <1>1, <1>2, <2>4, RemountDisk DEF Remount, DiskPhases
  <2>5. CASE Remounted
    BY <1>1, <2>5, RemountedDisk
  <2>6. CASE Unmount
    BY <1>1, <1>2, <2>6, UnmountDisk DEF Unmount, DiskPhases
  <2>7. CASE Unmounted \/ ShutdownCall \/ Halt
    BY <1>1, <2>7, PowerDisk
  <2>8. QED
    BY <1>4, <2>1, <2>2, <2>3, <2>4, <2>5, <2>6, <2>7 DEF Main, Shutdown, ShutdownStep
<1>5. CASE Handler \/ Cad \/ Others \/ UNCHANGED vars
  BY <1>3, <1>5 DEF Handler, OnChild, Open, Read, Return, Cad, Others, vars,
                    handlerFrame, shutdownVars, diskVars
<1>6. QED
  BY <1>4, <1>5 DEF Next, Ended

\* When the power goes off, what of the data may still have something to write
\* has been noted (PxShutdown.cpp, shutdown); and if nobody was left alone and no
\* call failed, all is unmounted and nothing noted.
THEOREM DisksAreLeftSafe ==
  ASSUME ConstantsAssumption, ProcAssumption, FewForks, MountsAssumption
  PROVE  Spec => []DisksAreSafe
<1>1. Init => DiskInv
  <2> SUFFICES ASSUME Init PROVE DiskInv
    OBVIOUS
  <2>1. left = <<>> /\ Len(Mounts) \in Nat
    BY DEF Init, ShutdownInit, ConstantsAssumption, ShutdownAssumption
  <2>2. LeftInv
    BY <2>1 DEF LeftInv
  <2>3. QED
    BY <2>2 DEF Init, ShutdownInit, DiskInv, DiskPhases
<1>2. DiskInv /\ QuietDisks /\ [Next]_vars => DiskInv'
  BY NextDisk
<1>3. DiskInv => DisksAreSafe
  <2> SUFFICES ASSUME DiskInv, power # "on", listed PROVE
        /\ (\A f \in Data : Clean(f)) \/ errorsEncountered
        /\ Innocent => Data \intersect mounted \subseteq {Root} /\ ~errorsEncountered
    BY DEF DisksAreSafe, Innocent
  <2>1. pc \in {"halt", "done"}
    BY DEF DiskInv
  <2>2. \A f \in Data : \E i \in 1..Len(Mounts) : f = Mounts[i]
    BY DEF Data, ToSet, ConstantsAssumption, ShutdownAssumption
  <2>3. (\A f \in Data : Clean(f)) \/ errorsEncountered
    BY <2>1, <2>2 DEF DiskInv, Flushed, Clean, Data
  <2>4. Innocent => Data \intersect mounted \subseteq {Root} /\ ~errorsEncountered
    BY <2>1, <2>2 DEF DiskInv, Away, Data
  <2>5. QED
    BY <2>3, <2>4
<1>4. QED
  BY <1>1, <1>2, <1>3, DisksAreQuiet, PTL DEF Spec
=============================================================================
