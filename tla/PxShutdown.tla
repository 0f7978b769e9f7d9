----------------------------- MODULE PxShutdown -----------------------------
(***************************************************************************)
(* PxShutdown.cpp: how PxInit ends everything.  shutdown() signals the     *)
(* processes it finds in /proc, kills the daemon, turns swap off, makes    *)
(* the file systems read-only, unmounts them and asks for the power.  It   *)
(* runs on PxInit's only thread while other processes go on.               *)
(*                                                                         *)
(* pc says where the thread is; one step is one look at a process, one     *)
(* kill, one attempt to remount or unmount.  sync() and the waits are left *)
(* out: no property is about time.                                         *)
(***************************************************************************)
EXTENDS PxKernel, SequencesExt

CONSTANTS
    Rounds,       \* signal_all_processes gives up after this many (10 in the code)
    Tries,        \* remount_as_readonly tries this often (4)
    Mounts,       \* the file systems in the order they were mounted
    Root,         \* the one on /
    Api,          \* those on /sys, /proc, /dev, under them, or of a type in ALLOWED_FS
    Lookalikes,   \* those whose target only begins with the same letters (/sysroot)
    Pseudo,       \* those whose remount gives EINVAL (overlays)
    OnTop,        \* pairs: the first is mounted on a directory of the second
    Spaced,       \* the processes whose name has a space in it
    MaxFaults     \* a bound on system calls that fail for no reason given here

\* What the constants are.
ShutdownAssumption ==
    /\ Rounds \in Nat \ {0} /\ Tries \in Nat \ {0} /\ MaxFaults \in Nat
    /\ Mounts \in Seq(STRING) /\ Root \in ToSet(Mounts)
    /\ Api \subseteq ToSet(Mounts) /\ Lookalikes \subseteq ToSet(Mounts)
    /\ Pseudo \subseteq ToSet(Mounts) /\ Spaced \subseteq Pids
    /\ OnTop \subseteq ToSet(Mounts) \X ToSet(Mounts)

VARIABLES
    pc,
    shuttingDown, poweropt,
    sig, round, at, pids,     \* locals of signal_all_processes; at: the place in /proc
    ignorePID,                \* the processes to leave alone
    left, ntry,               \* the list of file systems still to do; tries left
    mounted, writable,        \* of the kernel: what is mounted, what of it read-write
    errorsEncountered, listed, power,
    faults                    \* system calls that have failed

shutdownVars == <<pc, shuttingDown, poweropt, sig, round, at, pids, ignorePID, left, ntry,
                  mounted, writable, errorsEncountered, listed, power, faults>>
walkVars == <<sig, round, at, pids>>
diskVars == <<left, ntry, mounted, writable, errorsEncountered, listed>>
askVars  == <<shuttingDown, poweropt, ignorePID>>

ShutdownInit ==
    /\ pc = "tick"
    /\ shuttingDown = FALSE /\ poweropt = "none" /\ ignorePID = {}
    /\ sig = "TERM" /\ round = 1 /\ at = 2 /\ pids = {}
    /\ left = <<>> /\ ntry = Tries /\ listed = FALSE
    /\ mounted = ToSet(Mounts) /\ writable = ToSet(Mounts)
    /\ errorsEncountered = FALSE /\ power = "on" /\ faults = 0

Goto(from, to) == pc = from /\ pc' = to

(* Fields of /proc/N/stat are told apart by spaces, and the name is one of *)
(* them: with a space in the name the third field is not the state.        *)
ReadsAsZombie(p) == proc[p] = "zombie" /\ p \notin Spaced

(* shutdown(): the flag, then the signals                                  *)
EnterShutdown(opt) ==
    /\ ~shuttingDown
    /\ shuttingDown' = TRUE
    /\ poweropt' = opt
    /\ Goto("tick", "signals")
    /\ UNCHANGED <<kernelVars, walkVars, diskVars, ignorePID, power, faults>>

IgnoreSignals ==
    /\ Goto("signals", "look")
    /\ chldIgnored' = TRUE /\ sigchld' = FALSE
    /\ sig' = "TERM" /\ round' = 1 /\ at' = 2 /\ pids' = {}
    /\ UNCHANGED <<proc, parent, diskVars, askVars, power, faults>>

-----------------------------------------------------------------------------
(* signal_all_processes                                                    *)
ToSignal(p) == p \notin ignorePID /\ Exists(p) /\ ~ReadsAsZombie(p)

Look ==
    /\ pc = "look" /\ at \in Pids
    /\ pids' = IF ToSignal(at) THEN pids \cup {at} ELSE pids
    /\ at' = at + 1
    /\ UNCHANGED <<kernelVars, pc, sig, round, diskVars, askVars, power, faults>>

(* What follows signal_all_processes(sig)                                  *)
EndOfSignals ==
    \/ /\ sig = "TERM"
       /\ pc' = "look" /\ sig' = "KILL" /\ round' = 1 /\ at' = 2 /\ pids' = {}
    \/ /\ sig = "KILL"
       /\ pc' = "daemon"
       /\ UNCHANGED <<sig, round, at, pids>>

Looked ==
    /\ pc = "look" /\ at \notin Pids
    /\ IF pids = {} THEN EndOfSignals
                    ELSE pc' = "kill" /\ UNCHANGED <<sig, round, at, pids>>
    /\ UNCHANGED <<kernelVars, diskVars, askVars, power, faults>>

Signal(p) ==
    /\ pc = "kill" /\ p \in pids /\ \A q \in pids : p <= q
    /\ pids' = pids \ {p}
    /\ IF sig = "KILL" THEN Kill(p) ELSE UNCHANGED kernelVars
    /\ UNCHANGED <<pc, sig, round, at, diskVars, askVars, power, faults>>

(* Fault: one round of KILL, as of TERM.                                   *)
SignalledOnce ==
    /\ pc = "kill" /\ pids = {}
    /\ EndOfSignals
    /\ UNCHANGED <<kernelVars, diskVars, askVars, power, faults>>

Signalled ==
    /\ pc = "kill" /\ pids = {}
    /\ \/ /\ sig = "KILL" /\ round < Rounds
          /\ pc' = "look" /\ round' = round + 1 /\ at' = 2
          /\ UNCHANGED <<sig, pids>>
       \/ (sig # "KILL" \/ round >= Rounds) /\ EndOfSignals
    /\ UNCHANGED <<kernelVars, diskVars, askVars, power, faults>>

KillDaemon ==
    /\ Goto("daemon", "list")
    /\ Kill(Daemon)
    /\ UNCHANGED <<walkVars, diskVars, askVars, power, faults>>

-----------------------------------------------------------------------------
(* The file systems.  A call may fail for a reason of its own, at most     *)
(* MaxFaults times, or because somebody is still using the disk.           *)
Fault == faults < MaxFaults /\ faults' = faults + 1

List ==
    /\ pc = "list"
    /\ \/ pc' = "swap" /\ listed' = TRUE /\ UNCHANGED faults
       \/ Fault /\ pc' = "power" /\ UNCHANGED listed
    /\ UNCHANGED <<kernelVars, walkVars, askVars, left, ntry, mounted, writable, errorsEncountered,
                   power>>

SwapOff ==
    /\ Goto("swap", "remount")
    /\ left' = Reverse(Mounts)
    /\ ntry' = Tries
    /\ \/ UNCHANGED <<faults, errorsEncountered>>
       \/ Fault /\ errorsEncountered' = TRUE
    /\ UNCHANGED <<kernelVars, walkVars, askVars, mounted, writable, listed, power>>

Skipped == Api \cup Lookalikes

InUse == Alive # {}

NextEntry == left' = Tail(left) /\ ntry' = Tries

(* Fault: the last failure is not noted.                                   *)
RemountUnnoted ==
    /\ pc = "remount" /\ left # <<>>
    /\ LET f == Head(left) IN
       \/ f \in Skipped \cup Pseudo /\ NextEntry /\ UNCHANGED <<writable, faults>>
       \/ f \notin Skipped \cup Pseudo /\ writable' = writable \ {f} /\ NextEntry /\ UNCHANGED faults
       \/ /\ f \notin Skipped
          /\ (InUse /\ UNCHANGED faults) \/ Fault
          /\ IF ntry = 1 THEN NextEntry ELSE ntry' = ntry - 1 /\ UNCHANGED left
          /\ UNCHANGED writable
    /\ UNCHANGED <<pc, kernelVars, walkVars, askVars, mounted, listed, power, errorsEncountered>>

Remount ==
    /\ pc = "remount" /\ left # <<>>
    /\ LET f == Head(left) IN
       \/ /\ f \in Skipped
          /\ NextEntry /\ UNCHANGED <<writable, errorsEncountered, faults>>
       \/ /\ f \notin Skipped \cup Pseudo /\ writable' = writable \ {f}
          /\ NextEntry /\ UNCHANGED <<errorsEncountered, faults>>
       \/ /\ f \in Pseudo \ Skipped
          /\ NextEntry /\ UNCHANGED <<writable, errorsEncountered, faults>>
       \/ /\ f \notin Skipped
          /\ (InUse /\ UNCHANGED faults) \/ Fault
          /\ IF ntry = 1 THEN NextEntry /\ errorsEncountered' = TRUE
                         ELSE ntry' = ntry - 1 /\ UNCHANGED <<left, errorsEncountered>>
          /\ UNCHANGED writable
    /\ UNCHANGED <<pc, kernelVars, walkVars, askVars, mounted, listed, power>>

Remounted ==
    /\ left = <<>>
    /\ Goto("remount", "unmount")
    /\ left' = Reverse(Mounts)
    /\ UNCHANGED <<kernelVars, walkVars, askVars, ntry, mounted, writable, errorsEncountered, listed,
                   power, faults>>

Covered(f) == \E g \in mounted : <<g, f>> \in OnTop

Unmount ==
    /\ pc = "unmount" /\ left # <<>>
    /\ LET f == Head(left) IN
       \/ /\ f \in Skipped \cup {Root}
          /\ UNCHANGED <<mounted, errorsEncountered, faults>>
       \/ /\ f \notin Skipped \cup {Root} /\ ~Covered(f)
          /\ mounted' = mounted \ {f} /\ UNCHANGED <<errorsEncountered, faults>>
       \/ /\ f \notin Skipped \cup {Root}
          /\ ((InUse \/ Covered(f)) /\ UNCHANGED faults) \/ Fault
          /\ errorsEncountered' = TRUE /\ UNCHANGED mounted
    /\ left' = Tail(left)
    /\ UNCHANGED <<pc, kernelVars, walkVars, askVars, ntry, writable, listed, power>>

Unmounted ==
    /\ left = <<>>
    /\ Goto("unmount", "power")
    /\ UNCHANGED <<kernelVars, walkVars, diskVars, askVars, power, faults>>

(* shutdown_call: what was asked for; if that fails, or halt was asked     *)
(* for, halt; if that fails PxInit ends, and with it the kernel.           *)
Asked == CASE poweropt = "poweroff" -> {"off"}
           [] poweropt = "reboot"   -> {"restarted"}
           [] OTHER                 -> {}

ShutdownCall ==
    /\ Goto("power", "halt")
    /\ \/ power' \in Asked /\ UNCHANGED faults
       \/ Asked = {} /\ UNCHANGED <<power, faults>>
       \/ Asked # {} /\ Fault /\ UNCHANGED power
    /\ UNCHANGED <<kernelVars, walkVars, diskVars, askVars>>

Halt ==
    /\ power = "on"
    /\ Goto("halt", "done")
    /\ \/ power' = "halted" /\ UNCHANGED faults
       \/ Fault /\ power' = "panic"
    /\ UNCHANGED <<kernelVars, walkVars, diskVars, askVars>>

ShutdownStep ==
    \/ IgnoreSignals
    \/ Look \/ Looked \/ (\E p \in Pids : Signal(p)) \/ Signalled
    \/ KillDaemon
    \/ List \/ SwapOff \/ Remount \/ Remounted \/ Unmount \/ Unmounted
    \/ ShutdownCall \/ Halt
=============================================================================
