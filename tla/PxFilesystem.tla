---------------------------- MODULE PxFilesystem ----------------------------
(***************************************************************************)
(* PxFilesystem (src/src/PxFilesystem/PxFilesystem.cpp), which checks and  *)
(* mounts what /etc/fstab lists: two passes of fsck over devices that      *)
(* appear while it runs, then one mount after the other.                   *)
(*                                                                         *)
(* A name is what fstab and mtab write: a device, or a UUID, a label... of *)
(* one.  Sources of mtab are taken to be the names libmount resolves to.   *)
(* Devices do not vanish.                                                  *)
(***************************************************************************)
EXTENDS Integers, Sequences

CONSTANTS Names,     \* names of devices and of pseudo-filesystems
          Targets,   \* mount points
          Fstab,     \* the entries of /etc/fstab
          Mtab,      \* what is mounted at the start
          Devices,   \* the names that denote a device
          Path,      \* Path[n]: what a name of a device resolves to
          Statuses   \* Statuses[d]: what system("fsck ...") may return for d

Entry == [source : Names, target : Targets, pass : 0..2, type : {"fs", "swap"},
          noauto : BOOLEAN]

ASSUME FilesystemAssumption ==
  /\ Fstab \in Seq(Entry)
  /\ Mtab \subseteq [source : Names, target : Targets]
  /\ Devices \subseteq Names
  /\ Path \in [Devices -> Devices]
  /\ \A n \in Devices : Path[Path[n]] = Path[n]
  /\ Statuses \in [Devices -> SUBSET Nat]

VARIABLES
  pc,          \* "check": in chkpass; "mount": in the second loop of main; "done"
  pass,        \* the argument of chkpass
  at,          \* the entry at which the loop is
  unchecked,   \* any_is_unchecked
  checked,     \* checked_set
  failed,
  rebootAsked, \* PxDaemon has been sent "target reboot"
  online,      \* the devices that exist
  fscked,      \* the devices fsck has been run on, and with what result
  mounted      \* what has been mounted, and how, in order

vars == <<pc, pass, at, unchecked, checked, failed, rebootAsked, online, fscked, mounted>>

SkipDevices == {m.source : m \in Mtab}
ExistingTargets == {m.target : m \in Mtab}

Init ==
  /\ pc = "check" /\ pass = 1 /\ at = 1
  /\ unchecked = FALSE
  /\ checked = SkipDevices
  /\ failed = FALSE /\ rebootAsked = FALSE
  /\ online \in SUBSET {Path[n] : n \in Devices}
  /\ fscked = {}
  /\ mounted = <<>>

-----------------------------------------------------------------------------
(* The environment.                                                        *)

Appear ==
  /\ \E d \in {Path[n] : n \in Devices} \ online : online' = online \union {d}
  /\ UNCHANGED <<pc, pass, at, unchecked, checked, failed, rebootAsked, fscked, mounted>>

\* The bits of what wait(2) gives.
Bit(status, k) == (status \div 2^k) % 2 = 1
BitsOfFailure == {2, 3, 4, 5, 7}     \* 0b10111100

-----------------------------------------------------------------------------
(* chkpass.                                                                *)

\* Fault: every entry with a pass is checked in the first.
IsCheckedInAny(e, n) == e.source \in Devices /\ e.pass # 0 /\ e.source \notin SkipDevices

\* The entries_to_check of a pass; check_online.
IsChecked(e, n) == e.source \in Devices /\ e.pass = n /\ e.source \notin SkipDevices
AtEntry == pc = "check" /\ at <= Len(Fstab)
Source == Fstab[at].source
ToCheck == AtEntry /\ IsChecked(Fstab[at], pass) /\ Source \notin checked
Online(n) == Path[n] \in online

NextEntry == at' = at + 1 /\ UNCHANGED <<pc, pass, online, mounted>>

Pass ==
  /\ AtEntry /\ ~ToCheck
  /\ NextEntry
  /\ UNCHANGED <<unchecked, checked, failed, rebootAsked, fscked>>

\* Fault: a device that is not there is given up.
OfflineIsSkipped ==
  /\ ToCheck /\ ~Online(Source)
  /\ NextEntry
  /\ UNCHANGED <<unchecked, checked, failed, rebootAsked, fscked>>

Offline ==
  /\ ToCheck /\ ~Online(Source)
  /\ unchecked' = TRUE
  /\ NextEntry
  /\ UNCHANGED <<checked, failed, rebootAsked, fscked>>

\* Fault: only the name in fstab is compared.
IsKnownByName(n) == FALSE

\* The device is mounted, or was checked under the name it resolves to.
IsKnown(n) == Path[n] \in checked

SameDevice ==
  /\ ToCheck /\ Online(Source) /\ IsKnown(Source)
  /\ checked' = checked \union {Source}
  /\ NextEntry
  /\ UNCHANGED <<unchecked, failed, rebootAsked, fscked>>

\* The tests of the bits, in the order of the code.
Check ==
  /\ ToCheck /\ Online(Source) /\ ~IsKnown(Source)
  /\ \E status \in Statuses[Path[Source]] :
       LET broken == \E k \in BitsOfFailure : Bit(status, k)
           reboot == ~broken /\ Bit(status, 1)
       IN  /\ fscked' = fscked \union {[device |-> Path[Source], status |-> status]}
           /\ failed' = (failed \/ broken \/ reboot)
           /\ rebootAsked' = (rebootAsked \/ reboot)
  /\ checked' = checked \union {Source}
  /\ NextEntry
  /\ UNCHANGED unchecked

\* usleep(1000), and once more over all of them.
Round ==
  /\ pc = "check" /\ at > Len(Fstab) /\ unchecked
  /\ at' = 1 /\ unchecked' = FALSE
  /\ UNCHANGED <<pc, pass, checked, failed, rebootAsked, online, fscked, mounted>>

EndOfPass ==
  /\ pc = "check" /\ at > Len(Fstab) /\ ~unchecked
  /\ \/ pass = 1 /\ pass' = 2 /\ pc' = "check"
     \/ pass = 2 /\ failed /\ pc' = "done" /\ UNCHANGED pass
     \/ pass = 2 /\ ~failed /\ pc' = "mount" /\ UNCHANGED pass
  /\ at' = 1
  /\ checked' = SkipDevices
  /\ UNCHANGED <<unchecked, failed, rebootAsked, online, fscked, mounted>>

-----------------------------------------------------------------------------
(* The loop of mounts: a failure is remembered and the next one tried.     *)

Mounting == pc = "mount" /\ at <= Len(Fstab)
How(e) == IF e.type = "swap" THEN "swapon"
          ELSE IF e.target \in ExistingTargets THEN "remount" ELSE "mount"
Possible(e) == e.source \in Devices /\ How(e) # "remount" => Online(e.source)

NextMount == at' = at + 1 /\ UNCHANGED <<pc, pass, unchecked, checked, rebootAsked, online, fscked>>

NoAuto ==
  /\ Mounting /\ Fstab[at].noauto
  /\ NextMount
  /\ UNCHANGED <<failed, mounted>>

Mount ==
  /\ Mounting /\ ~Fstab[at].noauto
  /\ \/ /\ Possible(Fstab[at])
        /\ mounted' = Append(mounted, [source |-> Source, target |-> Fstab[at].target,
                                       how |-> How(Fstab[at])])
        /\ UNCHANGED failed
     \/ failed' = TRUE /\ UNCHANGED mounted
  /\ NextMount

EndOfMounts ==
  /\ pc = "mount" /\ at > Len(Fstab)
  /\ pc' = "done"
  /\ UNCHANGED <<pass, at, unchecked, checked, failed, rebootAsked, online, fscked, mounted>>

Main == Pass \/ Offline \/ SameDevice \/ Check \/ Round \/ EndOfPass
          \/ NoAuto \/ Mount \/ EndOfMounts

Next == Main \/ Appear

Spec == Init /\ [][Next]_vars

-----------------------------------------------------------------------------
\* Every variable keeps its type.
TypeOK ==
  /\ pc \in {"check", "mount", "done"}
  /\ pass \in 1..2
  /\ at \in 1..(Len(Fstab) + 1)
  /\ unchecked \in BOOLEAN /\ failed \in BOOLEAN /\ rebootAsked \in BOOLEAN
  /\ checked \subseteq Names
  /\ online \subseteq Devices
  /\ fscked \subseteq [device : Devices, status : Nat]
  /\ mounted \in Seq([source : Names, target : Targets, how : {"mount", "remount", "swapon"}])

Fscked == {f.device : f \in fscked}
MustBeChecked(n) ==
  {Path[Fstab[i].source] : i \in {j \in DOMAIN Fstab :
     Fstab[j].pass = n /\ Fstab[j].source \in Devices \ SkipDevices}}

\* fsck -p is never run on a device that is mounted, by whatever name fstab
\* calls it: nothing is mounted before the checks end, and what was mounted
\* before is recognised.
NeverWhileMounted ==
  /\ Fscked \intersect SkipDevices = {}
  /\ pc = "check" => mounted = <<>>

\* Whatever fstab wants checked has been checked, or was mounted before,
\* when the first filesystem is mounted, however late its device appeared.
CheckedFirst ==
  mounted # <<>> => MustBeChecked(1) \union MustBeChecked(2) \subseteq Fscked \union SkipDevices

\* A device of the second pass that is not in the first is not touched before
\* those of the first are done.
PassesInOrder ==
  [][ \A d \in MustBeChecked(2) \ MustBeChecked(1) :
        d \in Fscked' \ Fscked => MustBeChecked(1) \subseteq Fscked \union SkipDevices ]_vars

\* "fsck failed", "Failed to check all devices.": an fsck that exits with 4 or
\* more keeps everything from being mounted.
ExitCode(status) == status \div 256
FailedIsNotMounted ==
  (\E f \in fscked : ExitCode(f.status) >= 4) => mounted = <<>>
=============================================================================
