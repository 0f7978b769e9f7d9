---------------------------- MODULE PxUseProofs -----------------------------
(***************************************************************************)
(* What is proved of PxFilesystem, of JobServer, of PxSession and of       *)
(* PxEnable, four of the programs that MCPxUse puts side by side.  They    *)
(* share nothing; one comes after the other.                               *)
(***************************************************************************)
EXTENDS PxFilesystem, PxTimers, PxSession, PxEnable, SequenceTheorems, FiniteSetTheorems, TLAPS

(***************************************************************************)
(* For every fstab, every mtab and every result of fsck: what PxFilesystem *)
(* checks was not mounted, and nothing is mounted before all that fstab    *)
(* wants checked is checked, in the order of the passes.                   *)
(*                                                                         *)
(* The argument is about checked_set.  A name that PxFilesystem has put    *)
(* into it denotes a device that fsck has seen or that was mounted before  *)
(* (Marked); the names of the entries behind the loop are in it, unless    *)
(* the flag any_is_unchecked is up (Behind).  So a pass that ends with the *)
(* flag down has seen to all its entries, and Passed keeps that when       *)
(* checked_set is made anew.                                               *)
(***************************************************************************)

Done == Fscked \union SkipDevices

\* Names in checked_set that were not there at the start.
Marked == \A n \in (checked \ SkipDevices) \intersect Devices : Path[n] \in Done

Behind ==
  pc = "check" /\ ~unchecked =>
    \A j \in 1..(at - 1) : IsChecked(Fstab[j], pass) => Fstab[j].source \in checked

Passed ==
  /\ pass = 2 => MustBeChecked(1) \subseteq Done
  /\ pc # "check" => pass = 2 /\ MustBeChecked(2) \subseteq Done

IInv ==
  /\ TypeOK
  /\ SkipDevices \subseteq checked
  /\ NeverWhileMounted
  /\ Marked
  /\ Behind
  /\ Passed

-----------------------------------------------------------------------------

\* What is in the range of fstab is an entry.
LEMMA EntryType == \A j \in 1..Len(Fstab) : j \in DOMAIN Fstab /\ Fstab[j] \in Entry
  BY FilesystemAssumption

\* A pass that ends has seen to everything that it must check.
LEMMA PassIsComplete ==
  ASSUME IInv, pc = "check", at > Len(Fstab), ~unchecked
  PROVE  MustBeChecked(pass) \subseteq Done
<1> SUFFICES ASSUME NEW j \in DOMAIN Fstab, Fstab[j].pass = pass,
                    Fstab[j].source \in Devices \ SkipDevices
             PROVE  Path[Fstab[j].source] \in Done
  BY DEF MustBeChecked
<1>1. j \in 1..(at - 1)
  BY FilesystemAssumption DEF IInv, TypeOK
<1>2. Fstab[j].source \in checked
  BY <1>1 DEF IInv, Behind, IsChecked
<1>3. QED
  BY <1>2 DEF IInv, Marked

LEMMA InitIInv == Init => IInv
<1> SUFFICES ASSUME Init PROVE IInv
  OBVIOUS
<1>1. TypeOK
  <2>1. SkipDevices \subseteq Names /\ Len(Fstab) \in Nat
    BY FilesystemAssumption DEF SkipDevices
  <2>2. online \subseteq Devices
    BY FilesystemAssumption DEF Init
  <2>3. mounted \in Seq([source : Names, target : Targets,
                         how : {"mount", "remount", "swapon"}])
    BY DEF Init
  <2>4. fscked \subseteq [device : Devices, status : Nat]
    BY DEF Init
  <2>5. pass \in 1..2 /\ at \in 1..(Len(Fstab) + 1)
    BY <2>1 DEF Init
  <2>6. QED
    BY <2>1, <2>2, <2>3, <2>4, <2>5 DEF Init, TypeOK
<1>2. NeverWhileMounted
  BY DEF Init, NeverWhileMounted, Fscked
<1>3. QED
  BY <1>1, <1>2 DEF Init, IInv, Marked, Behind, Passed

-----------------------------------------------------------------------------
(* The steps of chkpass.                                                    *)

\* A step of the loop that leaves fscked alone and takes the name at hand into
\* checked_set only if its device is seen to keeps the invariant, when the
\* entry needs no check any more or the flag is up.
LEMMA LoopStep ==
  ASSUME IInv, AtEntry, NextEntry,
         checked' \in {checked, checked \union {Source}},
         unchecked' \in BOOLEAN, failed' \in BOOLEAN, rebootAsked' \in BOOLEAN,
         SkipDevices \intersect Fscked' = {}, Fscked \subseteq Fscked',
         fscked' \subseteq [device : Devices, status : Nat],
         Source \in (checked' \ SkipDevices) \intersect Devices => Path[Source] \in Done',
         unchecked => unchecked',
         ~unchecked' /\ IsChecked(Fstab[at], pass) => Source \in checked'
  PROVE  IInv'
<1>0. at \in 1..Len(Fstab) /\ Fstab[at] \in Entry /\ Source \in Names
  BY EntryType, FilesystemAssumption DEF IInv, TypeOK, AtEntry, Source, Entry
<1>1. TypeOK'
  BY <1>0, FilesystemAssumption DEF IInv, TypeOK, NextEntry
<1>2. (SkipDevices \subseteq checked)'
  BY DEF IInv, SkipDevices
<1>3. NeverWhileMounted'
  BY DEF IInv, NeverWhileMounted, NextEntry, SkipDevices
<1>4. Done \subseteq Done'
  BY DEF Done, SkipDevices
<1>5. Marked'
  BY <1>4 DEF IInv, Marked, SkipDevices
<1>6. Behind'
  <2> SUFFICES ASSUME ~unchecked', NEW j \in 1..(at' - 1), IsChecked(Fstab[j], pass)
               PROVE  Fstab[j].source \in checked'
    BY DEF Behind, NextEntry, IsChecked, SkipDevices
  <2>1. CASE j = at
    BY <2>1 DEF Source
  <2>2. CASE j # at
    BY <2>2, <1>0 DEF IInv, Behind, NextEntry, AtEntry
  <2>3. QED
    BY <2>1, <2>2
<1>7. Passed'
  BY <1>4 DEF IInv, Passed, NextEntry, AtEntry, MustBeChecked, SkipDevices
<1>8. QED
  BY <1>1, <1>2, <1>3, <1>5, <1>6, <1>7 DEF IInv

LEMMA PassStep == IInv /\ Pass => IInv'
<1> SUFFICES ASSUME IInv, Pass PROVE IInv'
  OBVIOUS
<1>1. Fscked' = Fscked /\ SkipDevices \intersect Fscked = {}
  BY DEF Pass, Fscked, IInv, NeverWhileMounted
<1>2. IsChecked(Fstab[at], pass) => Source \in checked
  BY DEF Pass, ToCheck
<1>3. Source \in (checked \ SkipDevices) \intersect Devices => Path[Source] \in Done'
  BY <1>1 DEF IInv, Marked, Done, SkipDevices
<1>4. fscked' \subseteq [device : Devices, status : Nat] /\ unchecked \in BOOLEAN
        /\ failed \in BOOLEAN /\ rebootAsked \in BOOLEAN
  BY DEF IInv, TypeOK, Pass
<1>5. QED
  BY <1>1, <1>2, <1>3, <1>4, LoopStep DEF Pass

LEMMA OfflineStep == IInv /\ Offline => IInv'
<1> SUFFICES ASSUME IInv, Offline PROVE IInv'
  OBVIOUS
<1>1. Fscked' = Fscked /\ SkipDevices \intersect Fscked = {}
  BY DEF Offline, Fscked, IInv, NeverWhileMounted
<1>2. Source \in (checked \ SkipDevices) \intersect Devices => Path[Source] \in Done'
  BY <1>1 DEF IInv, Marked, Done, SkipDevices
<1>3. fscked' \subseteq [device : Devices, status : Nat]
        /\ failed \in BOOLEAN /\ rebootAsked \in BOOLEAN
  BY DEF IInv, TypeOK, Offline
<1>4. QED
  BY <1>1, <1>2, <1>3, LoopStep DEF Offline, ToCheck

\* The other name by which the device is known is marked, or was mounted.
LEMMA SameDeviceStep == IInv /\ SameDevice => IInv'
<1> SUFFICES ASSUME IInv, SameDevice PROVE IInv'
  OBVIOUS
<1>1. Fscked' = Fscked /\ SkipDevices \intersect Fscked = {}
  BY DEF SameDevice, Fscked, IInv, NeverWhileMounted
<1>2. Source \in Devices => Path[Source] \in Done'
  <2> SUFFICES ASSUME Source \in Devices PROVE Path[Source] \in Done
    BY <1>1 DEF Done, SkipDevices
  <2>1. Path[Source] \in Devices /\ Path[Path[Source]] = Path[Source]
    BY FilesystemAssumption
  <2>2. Path[Source] \in checked
    BY DEF SameDevice, IsKnown
  <2>3. QED
    BY <2>1, <2>2 DEF IInv, Marked, Done
<1>3. fscked' \subseteq [device : Devices, status : Nat] /\ unchecked \in BOOLEAN
        /\ failed \in BOOLEAN /\ rebootAsked \in BOOLEAN
  BY DEF IInv, TypeOK, SameDevice
<1>4. QED
  BY <1>1, <1>2, <1>3, LoopStep DEF SameDevice, ToCheck

\* fsck is run on a device that is not in checked_set, so not on one of mtab.
LEMMA CheckStep == IInv /\ Check => IInv'
<1> SUFFICES ASSUME IInv, Check PROVE IInv'
  OBVIOUS
<1>1. Source \in Devices /\ Path[Source] \in Devices
  BY FilesystemAssumption DEF Check, ToCheck, IsChecked, Source
<1>2. PICK status \in Statuses[Path[Source]] :
        /\ fscked' = fscked \union {[device |-> Path[Source], status |-> status]}
        /\ failed' \in BOOLEAN /\ rebootAsked' \in BOOLEAN
  BY DEF Check, IInv, TypeOK
<1>3. status \in Nat
  BY <1>1, <1>2, FilesystemAssumption
<1>4. Fscked' = Fscked \union {Path[Source]}
  <2> DEFINE r == [device |-> Path[Source], status |-> status]
  <2>1. fscked' = fscked \union {r} /\ r.device = Path[Source]
    BY <1>2
  <2> HIDE DEF r
  <2>2. QED
    BY <2>1 DEF Fscked
<1>5. SkipDevices \intersect Fscked' = {}
  BY <1>4 DEF IInv, NeverWhileMounted, Check, IsKnown
<1>6. fscked' \subseteq [device : Devices, status : Nat]
  BY <1>1, <1>2, <1>3 DEF IInv, TypeOK
<1>7. Path[Source] \in Done'
  BY <1>4 DEF Done
<1>8. unchecked' \in BOOLEAN /\ (unchecked => unchecked')
  BY DEF Check, IInv, TypeOK
<1>9. QED
  BY <1>2, <1>4, <1>5, <1>6, <1>7, <1>8, LoopStep DEF Check, ToCheck

LEMMA RoundStep == IInv /\ Round => IInv'
<1> SUFFICES ASSUME IInv, Round PROVE IInv'
  OBVIOUS
<1>1. TypeOK'
  <2>1. 1 \in 1..(Len(Fstab) + 1)
    BY FilesystemAssumption
  <2>2. QED
    BY <2>1 DEF IInv, TypeOK, Round
<1>2. Behind'
  BY DEF Behind, Round
<1>3. QED
  BY <1>1, <1>2 DEF IInv, Round, NeverWhileMounted, Fscked, SkipDevices, Marked, Done,
                    Passed, MustBeChecked

\* checked_set is made anew; what it stood for is kept by Passed.
LEMMA EndOfPassStep == IInv /\ EndOfPass => IInv'
<1> SUFFICES ASSUME IInv, EndOfPass PROVE IInv'
  OBVIOUS
<1>1. Fscked' = Fscked /\ Done' = Done
  BY DEF EndOfPass, Fscked, Done, SkipDevices
<1>2. MustBeChecked(pass) \subseteq Done
  BY PassIsComplete DEF EndOfPass
<1>3. TypeOK'
  <2>1. SkipDevices \subseteq Names /\ Len(Fstab) \in Nat
    BY FilesystemAssumption DEF SkipDevices
  <2>2. QED
    BY <2>1 DEF IInv, TypeOK, EndOfPass
<1>4. NeverWhileMounted'
  BY <1>1 DEF IInv, NeverWhileMounted, EndOfPass, SkipDevices
<1>5. (SkipDevices \subseteq checked)' /\ Marked'
  BY DEF EndOfPass, Marked, SkipDevices
<1>6. Behind'
  BY DEF EndOfPass, Behind
<1>7. Passed'
  <2>1. \A k \in 1..2 : MustBeChecked(k)' = MustBeChecked(k)
    BY DEF MustBeChecked, SkipDevices
  <2>2. CASE pass = 1
    BY <2>1, <2>2, <1>1, <1>2 DEF EndOfPass, Passed, MustBeChecked, SkipDevices
  <2>3. CASE pass = 2
    BY <2>1, <2>3, <1>1, <1>2 DEF EndOfPass, IInv, Passed, MustBeChecked, SkipDevices
  <2>4. QED
    BY <2>2, <2>3 DEF IInv, TypeOK
<1>8. QED
  BY <1>3, <1>4, <1>5, <1>6, <1>7 DEF IInv

-----------------------------------------------------------------------------
(* The mounts, and the environment.                                         *)

\* Out of chkpass, nothing that the invariant is about changes.
LEMMA AfterChecks ==
  ASSUME IInv, TypeOK', pc # "check", pc' # "check", pass' = pass,
         checked' = checked, fscked' = fscked
  PROVE  IInv'
  BY DEF IInv, NeverWhileMounted, Fscked, SkipDevices, Marked, Done, Behind, Passed,
         MustBeChecked

LEMMA MountsStep == IInv /\ (NoAuto \/ Mount \/ EndOfMounts) => IInv'
<1> SUFFICES ASSUME IInv, NoAuto \/ Mount \/ EndOfMounts PROVE IInv'
  OBVIOUS
<1>1. CASE NoAuto
  <2>1. TypeOK'
    BY <1>1, FilesystemAssumption DEF IInv, TypeOK, NoAuto, Mounting, NextMount
  <2>2. QED
    BY <1>1, <2>1, AfterChecks DEF NoAuto, Mounting, NextMount
<1>2. CASE Mount
  <2>1. at \in 1..Len(Fstab) /\ Fstab[at] \in Entry
    BY <1>2, EntryType, FilesystemAssumption DEF IInv, TypeOK, Mount, Mounting
  <2>2. [source |-> Source, target |-> Fstab[at].target, how |-> How(Fstab[at])]
          \in [source : Names, target : Targets, how : {"mount", "remount", "swapon"}]
    BY <2>1 DEF Entry, Source, How
  <2>3. mounted' \in Seq([source : Names, target : Targets,
                          how : {"mount", "remount", "swapon"}])
    <3> DEFINE M == [source : Names, target : Targets, how : {"mount", "remount", "swapon"}]
               m == [source |-> Source, target |-> Fstab[at].target, how |-> How(Fstab[at])]
    <3>1. mounted \in Seq(M) /\ m \in M /\ mounted' \in {mounted, Append(mounted, m)}
      BY <1>2, <2>2 DEF Mount, IInv, TypeOK
    <3> HIDE DEF M, m
    <3>2. mounted' \in Seq(M)
      BY <3>1
    <3>3. QED
      BY <3>2 DEF M
  <2>4. TypeOK'
    <3>1. at' \in 1..(Len(Fstab) + 1)
      BY <1>2, <2>1, FilesystemAssumption DEF Mount, NextMount
    <3>2. QED
      BY <1>2, <2>3, <3>1 DEF IInv, TypeOK, Mount, NextMount
  <2>5. QED
    BY <1>2, <2>4, AfterChecks DEF Mount, Mounting, NextMount
<1>3. CASE EndOfMounts
  <2>1. TypeOK'
    BY <1>3 DEF IInv, TypeOK, EndOfMounts
  <2>2. QED
    BY <1>3, <2>1, AfterChecks DEF EndOfMounts
<1>4. QED
  BY <1>1, <1>2, <1>3

LEMMA SameState ==
  ASSUME IInv, pc' = pc, pass' = pass, at' = at, unchecked' = unchecked,
         checked' = checked, failed' = failed, rebootAsked' = rebootAsked,
         fscked' = fscked, mounted' = mounted, online' \subseteq Devices
  PROVE  IInv'
<1>1. TypeOK'
  BY DEF IInv, TypeOK
<1>2. QED
  BY <1>1 DEF IInv, NeverWhileMounted, Fscked, SkipDevices, Marked, Done, Behind, Passed,
              MustBeChecked, IsChecked

LEMMA AppearStep == IInv /\ Appear => IInv'
<1> SUFFICES ASSUME IInv, Appear PROVE IInv'
  OBVIOUS
<1>1. online' \subseteq Devices
  BY FilesystemAssumption DEF Appear, IInv, TypeOK
<1>2. QED
  BY <1>1, SameState DEF Appear

LEMMA NextIInv == IInv /\ [Next]_vars => IInv'
<1> SUFFICES ASSUME IInv, [Next]_vars PROVE IInv'
  OBVIOUS
<1>1. CASE UNCHANGED vars
  BY <1>1, SameState DEF vars, IInv, TypeOK
<1>2. CASE Next
  BY <1>2, PassStep, OfflineStep, SameDeviceStep, CheckStep, RoundStep, EndOfPassStep,
     MountsStep, AppearStep DEF Next, Main
<1>3. QED
  BY <1>1, <1>2

-----------------------------------------------------------------------------
(* The theorems.                                                            *)

\* The invariant holds of every behaviour.
THEOREM Invariant == Spec => []IInv
  BY InitIInv, NextIInv, PTL DEF Spec

\* PxFilesystem never runs fsck on a device that was mounted when it began,
\* and mounts nothing while it checks.
THEOREM NothingMountedIsChecked == Spec => []NeverWhileMounted
<1>1. IInv => NeverWhileMounted
  BY DEF IInv
<1>2. QED
  BY <1>1, Invariant, PTL

\* When a filesystem is mounted, all that fstab wants checked is checked.
THEOREM AllCheckedFirst == Spec => []CheckedFirst
<1>1. IInv => CheckedFirst
  BY DEF IInv, NeverWhileMounted, Passed, CheckedFirst, Done
<1>2. QED
  BY <1>1, Invariant, PTL

\* Devices of the second pass wait for those of the first.
THEOREM FirstPassFirst == Spec => PassesInOrder
<1> DEFINE InTurn == \A d \in MustBeChecked(2) \ MustBeChecked(1) :
                      d \in Fscked' \ Fscked => MustBeChecked(1) \subseteq Fscked \union SkipDevices
<1>1. ASSUME IInv, [Next]_vars PROVE [InTurn]_vars
  <2> SUFFICES ASSUME Next, NEW d \in MustBeChecked(2) \ MustBeChecked(1),
                      d \in Fscked' \ Fscked
               PROVE  MustBeChecked(1) \subseteq Done
    BY <1>1 DEF Done
  <2>1. Check
    BY DEF Next, Main, Pass, Offline, SameDevice, Round, EndOfPass, NoAuto, Mount,
           EndOfMounts, Appear, Fscked, NextMount
  <2>2. d = Path[Source]
    BY <2>1 DEF Check, Fscked
  <2>3. pass # 1
    <3> SUFFICES ASSUME pass = 1 PROVE FALSE
      OBVIOUS
    <3>1. at \in DOMAIN Fstab
      BY <2>1, <1>1, FilesystemAssumption DEF Check, ToCheck, AtEntry, IInv, TypeOK
    <3>2. d \in MustBeChecked(1)
      BY <2>1, <2>2, <3>1 DEF Check, ToCheck, IsChecked, Source, MustBeChecked
    <3>3. QED
      BY <3>2
  <2>4. QED
    BY <2>3, <1>1 DEF IInv, TypeOK, Passed
<1>2. QED
  BY <1>1, Invariant, PTL DEF Spec, PassesInOrder

-----------------------------------------------------------------------------
(***************************************************************************)
(* For any jobs, durations, clocks and widths of an int: JobServer::tick   *)
(* passes a job over only for one that it erases, so over all ticks no job *)
(* misses more turns than jobs have been erased.                           *)
(*                                                                         *)
(* The argument counts the turns that are already lost in the tick that is *)
(* going on: a job before `place` that is still owed a run will not get    *)
(* it, so what it has missed is less than what has been erased             *)
(* (PassedOver).  For that a job that is owed a run must be there and not  *)
(* finished, and there only once.                                          *)
(***************************************************************************)

Job == [id : Ids, started : BOOLEAN, finished : BOOLEAN, failed : BOOLEAN]

JobTypes ==
  /\ jobs \in Seq(Job) /\ place \in Nat
  /\ erased \in Nat /\ missed \in [Ids -> Nat]

EachOnce == \A m, n \in 1..Len(jobs) : jobs[m].id = jobs[n].id => m = n

Owed ==
  place # 0 =>
    \A id \in todo : \E n \in 1..Len(jobs) : jobs[n].id = id /\ ~jobs[n].finished

PassedOver ==
  \A n \in 1..Len(jobs) :
    n < place /\ jobs[n].id \in todo => missed[jobs[n].id] + 1 <= erased

TurnsInv == JobTypes /\ EachOnce /\ Owed /\ PassedOver /\ TurnsMissed

-----------------------------------------------------------------------------
(* The list.                                                               *)

\* Those behind the one removed move up.
LEMMA MovesUp ==
  ASSUME NEW S, NEW s \in Seq(S), NEW p \in 1..Len(s)
  PROVE  /\ RemoveAt(s, p) \in Seq(S) /\ Len(RemoveAt(s, p)) = Len(s) - 1
         /\ \A i \in 1..Len(s) - 1 :
              RemoveAt(s, p)[i] = IF i < p THEN s[i] ELSE s[i + 1]
<1> DEFINE l == Len(s)
           a == SubSeq(s, 1, p - 1)
           b == SubSeq(s, p + 1, l)
<1>1. /\ l \in Nat /\ p \in 1..l
      /\ \A i \in 1..l : s[i] \in S
  OBVIOUS
<1>2. RemoveAt(s, p) = a \o b
  BY DEF RemoveAt
<1> HIDE DEF l
<1>3. /\ a \in Seq(S) /\ Len(a) = p - 1
      /\ \A i \in 1..p - 1 : a[i] = s[i]
  <2>1. \A i \in 1..p - 1 : s[i] \in S
    BY <1>1
  <2>2. (IF 1 <= p - 1 THEN (p - 1) - 1 + 1 ELSE 0) = p - 1
    BY <1>1
  <2>3. \A i \in 1..p - 1 : i \in 1..(p - 1) - 1 + 1 /\ 1 + i - 1 = i
    BY <1>1
  <2>4. QED
    BY <1>1, <2>1, <2>2, <2>3, SubSeqProperties
<1>4. /\ b \in Seq(S) /\ Len(b) = l - p
      /\ \A i \in 1..l - p : b[i] = s[p + i]
  <2>1. \A i \in (p + 1)..l : s[i] \in S
    BY <1>1
  <2>2. (IF p + 1 <= l THEN l - (p + 1) + 1 ELSE 0) = l - p
    BY <1>1
  <2>3. \A i \in 1..l - p : i \in 1..l - (p + 1) + 1 /\ (p + 1) + i - 1 = p + i
    BY <1>1
  <2>4. QED
    BY <1>1, <2>1, <2>2, <2>3, SubSeqProperties
<1> HIDE DEF a, b
<1>5. /\ a \o b \in Seq(S) /\ Len(a \o b) = Len(a) + Len(b)
      /\ \A i \in 1..Len(a) + Len(b) :
           (a \o b)[i] = IF i <= Len(a) THEN a[i] ELSE b[i - Len(a)]
  BY <1>3, <1>4, ConcatProperties
<1>6. Len(a) + Len(b) = l - 1
  BY <1>1, <1>3, <1>4
<1>7. ASSUME NEW i \in 1..l - 1
      PROVE  (a \o b)[i] = IF i < p THEN s[i] ELSE s[i + 1]
  <2>1. CASE i < p
    <3>1. i \in 1..p - 1 /\ i <= Len(a)
      BY <1>1, <1>3, <2>1
    <3>2. QED
      BY <1>3, <1>5, <1>6, <2>1, <3>1
  <2>2. CASE ~(i < p)
    <3>1. /\ ~(i <= Len(a)) /\ i - Len(a) \in 1..l - p
          /\ p + (i - Len(a)) = i + 1
      BY <1>1, <1>3, <2>2
    <3>2. QED
      BY <1>4, <1>5, <1>6, <2>2, <3>1
  <2>3. QED
    BY <2>1, <2>2
<1>8. QED
  BY <1>2, <1>5, <1>6, <1>7 DEF l

Grown(s, p, e, more) == ReplaceAt(s, p, e) \o more

\* One is replaced, and others are put behind.
LEMMA Ran ==
  ASSUME NEW S, NEW s \in Seq(S), NEW p \in 1..Len(s), NEW e \in S, NEW more \in Seq(S)
  PROVE  /\ Grown(s, p, e, more) \in Seq(S)
         /\ Len(Grown(s, p, e, more)) = Len(s) + Len(more)
         /\ \A i \in 1..Len(s) :
              Grown(s, p, e, more)[i] = IF i = p THEN e ELSE s[i]
         /\ \A i \in Len(s) + 1..Len(s) + Len(more) :
              Grown(s, p, e, more)[i] = more[i - Len(s)]
<1> DEFINE r == ReplaceAt(s, p, e)
           l == Len(s)
           k == Len(more)
<1>1. /\ r \in Seq(S) /\ Len(r) = l
      /\ \A i \in 1..l : r[i] = IF i = p THEN e ELSE s[i]
  BY ExceptSeq DEF ReplaceAt
<1>2. l \in Nat /\ k \in Nat
  OBVIOUS
<1> HIDE DEF r
<1>3. /\ r \o more \in Seq(S) /\ Len(r \o more) = l + k
      /\ \A i \in 1..l + k :
           (r \o more)[i] = IF i <= l THEN r[i] ELSE more[i - l]
  <2>1. /\ r \o more \in Seq(S) /\ Len(r \o more) = Len(r) + Len(more)
        /\ \A i \in 1..Len(r) + Len(more) :
             (r \o more)[i] = IF i <= Len(r) THEN r[i] ELSE more[i - Len(r)]
    BY <1>1, ConcatProperties
  <2>2. QED
    BY <1>1, <2>1
<1> HIDE DEF l, k
<1>4. /\ \A i \in 1..l : i \in 1..l + k /\ i <= l
      /\ \A i \in l + 1..l + k : i \in 1..l + k /\ ~(i <= l)
  BY <1>2
<1>5. QED
  BY <1>1, <1>3, <1>4 DEF Grown, r, l, k

-----------------------------------------------------------------------------
(* The steps.                                                              *)

\* A job that has run is the same job.
LEMMA SameJob ==
  ASSUME NEW j \in Job, NEW o \in {"ok", "last", "error"}
  PROVE  After(j, o) \in Job /\ After(j, o).id = j.id
<1>1. CASE o = "ok"
  BY <1>1 DEF After, Job
<1>2. CASE o = "last"
  BY <1>2 DEF After, Job
<1>3. CASE o = "error"
  BY <1>3 DEF After, Job, Onerror
<1>4. QED
  BY <1>1, <1>2, <1>3

\* A walk begins with every job that is not finished owed a run.
LEMMA BeginTurns ==
  ASSUME TurnsInv, BeginTick, todo' = Unfinished, UNCHANGED <<missed, erased>>
  PROVE  TurnsInv'
<1> USE DEF TurnsInv
<1>1. /\ place = 0 /\ place' = 1 /\ jobs' = jobs /\ missed' = missed /\ erased' = erased
  BY DEF BeginTick
<1>2. JobTypes' /\ EachOnce' /\ TurnsMissed'
  BY <1>1 DEF JobTypes, EachOnce, TurnsMissed
<1>3. Owed'
  <2>1. DOMAIN jobs = 1..Len(jobs)
    BY DEF JobTypes
  <2>2. \A id \in Unfinished : \E n \in 1..Len(jobs) : jobs[n].id = id /\ ~jobs[n].finished
    BY <2>1 DEF Unfinished
  <2>3. QED
    BY <1>1, <2>2 DEF Owed
<1>4. PassedOver'
  BY <1>1 DEF PassedOver
<1>5. QED
  BY <1>2, <1>3, <1>4

\* A finished job is erased, and the next one passed over: the turn it loses is
\* paid for.
LEMMA EraseTurns ==
  ASSUME TurnsInv, EraseFinished, erased' = erased + 1, UNCHANGED <<todo, missed>>
  PROVE  TurnsInv'
<1> USE DEF TurnsInv
<1> DEFINE l == Len(jobs)
           k == Len(jobs')
           p == place
<1>1. /\ p \in 1..l /\ l \in Nat /\ p \in Nat /\ jobs[p].finished /\ jobs' = RemoveAt(jobs, p)
      /\ place' = p + 1 /\ missed' = missed /\ erased' = erased + 1 /\ todo' = todo
  BY DEF EraseFinished, AtJob, Current, JobTypes
<1>2. /\ jobs' \in Seq(Job) /\ k = l - 1
      /\ \A i \in 1..l - 1 : jobs'[i] = IF i < p THEN jobs[i] ELSE jobs[i + 1]
  BY <1>1, MovesUp DEF JobTypes
<1> HIDE DEF l, k, p
<1>3. JobTypes'
  BY <1>1, <1>2 DEF JobTypes
<1>4. EachOnce'
  <2> SUFFICES ASSUME NEW m \in 1..k, NEW n \in 1..k, jobs'[m].id = jobs'[n].id
               PROVE  m = n
    BY DEF EachOnce, k
  <2> DEFINE was(i) == IF i < p THEN i ELSE i + 1
  <2>1. /\ was(m) \in 1..l /\ was(n) \in 1..l
        /\ jobs'[m] = jobs[was(m)] /\ jobs'[n] = jobs[was(n)]
    BY <1>1, <1>2
  <2>2. was(m) = was(n)
    BY <2>1 DEF EachOnce, l
  <2>3. QED
    BY <1>1, <1>2, <2>2
<1>5. Owed'
  <2> SUFFICES ASSUME NEW id \in todo
               PROVE  \E n \in 1..k : jobs'[n].id = id /\ ~jobs'[n].finished
    BY <1>1 DEF Owed, k
  <2>1. PICK n \in 1..l : jobs[n].id = id /\ ~jobs[n].finished
    BY <1>1 DEF Owed, l, p
  <2>2. n # p
    BY <1>1, <2>1
  <2> DEFINE now_at == IF n < p THEN n ELSE n - 1
  <2>3. now_at \in 1..k /\ jobs'[now_at] = jobs[n]
    BY <1>1, <1>2, <2>2
  <2>4. QED
    BY <2>1, <2>3
<1>6. PassedOver'
  <2> SUFFICES ASSUME NEW n \in 1..k, n < p + 1, jobs'[n].id \in todo
               PROVE  missed[jobs'[n].id] + 1 <= erased + 1
    BY <1>1 DEF PassedOver, k
  <2>1. jobs'[n].id \in Ids
    <3>1. jobs'[n] \in Job
      BY <1>2, ElementOfSeq DEF k
    <3>2. QED
      BY <3>1 DEF Job
  <2>2. QED
    BY <2>1 DEF TurnsMissed, JobTypes
<1>7. TurnsMissed'
  <2>1. \A id \in Ids : missed[id] \in Nat /\ missed[id] <= erased
    BY DEF TurnsMissed, JobTypes
  <2>2. QED
    BY <1>1, <2>1 DEF TurnsMissed, JobTypes
<1>8. QED
  BY <1>3, <1>4, <1>5, <1>6, <1>7

\* A job runs, and may add others.
LEMMA RunTurns ==
  ASSUME TurnsInv, NEW o \in {"ok", "last", "error"}, NEW more \in Seq(Job), RunJob(o, more),
         Len(more) <= 1, \A i \in 1..Len(more) : more[i].id \notin Present,
         todo' = todo \ {Current.id}, UNCHANGED <<missed, erased>>
  PROVE  TurnsInv'
<1> USE DEF TurnsInv
<1> DEFINE l == Len(jobs)
           k == Len(more)
           p == place
           e == After(jobs[p], o)
<1>1. /\ p \in 1..l /\ l \in Nat /\ k \in 0..1 /\ jobs[p] \in Job /\ ~jobs[p].finished
      /\ jobs' = ReplaceAt(jobs, p, e) \o more
      /\ place' = p + 1 /\ missed' = missed /\ erased' = erased
      /\ todo' = todo \ {jobs[p].id}
  <2>1. p \in 1..l /\ jobs \in Seq(Job) /\ p \in Nat
    BY DEF RunJob, AtJob, JobTypes
  <2>2. l \in Nat /\ Len(more) \in Nat
    BY <2>1
  <2>3. jobs[p] \in Job
    BY <2>1, ElementOfSeq
  <2>4. /\ ~jobs[p].finished /\ jobs' = ReplaceAt(jobs, p, e) \o more
        /\ place' = p + 1 /\ todo' = todo \ {jobs[p].id}
    BY DEF RunJob, Current
  <2>5. k \in 0..1
    <3>1. \A q \in Nat : q <= 1 => q \in 0..1
      OBVIOUS
    <3>2. QED
      BY <2>2, <3>1
  <2>6. QED
    BY <2>1, <2>2, <2>3, <2>4, <2>5
<1>2. e \in Job /\ e.id = jobs[p].id
  BY <1>1, SameJob
<1> HIDE DEF e
<1>3. /\ jobs' \in Seq(Job) /\ Len(jobs') = l + k
      /\ \A i \in 1..l : jobs'[i] = IF i = p THEN e ELSE jobs[i]
      /\ \A i \in l + 1..l + k : jobs'[i] = more[i - l]
  <2>1. jobs \in Seq(Job)
    BY DEF JobTypes
  <2> DEFINE r == Grown(jobs, p, e, more)
  <2>2. /\ r \in Seq(Job) /\ Len(r) = Len(jobs) + Len(more)
        /\ \A i \in 1..Len(jobs) : r[i] = IF i = p THEN e ELSE jobs[i]
        /\ \A i \in Len(jobs) + 1..Len(jobs) + Len(more) : r[i] = more[i - Len(jobs)]
    <3>1. p \in 1..Len(jobs) /\ e \in Job
      BY <1>1, <1>2
    <3>2. QED
      <4>1. r \in Seq(Job) /\ Len(r) = Len(jobs) + Len(more)
        BY <2>1, <3>1, Ran
      <4>2. \A i \in 1..Len(jobs) : r[i] = IF i = p THEN e ELSE jobs[i]
        BY <2>1, <3>1, Ran
      <4>3. \A i \in Len(jobs) + 1..Len(jobs) + Len(more) : r[i] = more[i - Len(jobs)]
        BY <2>1, <3>1, Ran
      <4>4. QED
        BY <4>1, <4>2, <4>3
  <2>3. jobs' = r
    BY <1>1 DEF Grown
  <2> HIDE DEF r
  <2>4. QED
    BY <2>2, <2>3
<1>4. \A i \in 1..l : jobs[i].id \in Present
  BY DEF JobTypes, Present
<1>5. \A i \in 1..k : more[i].id \notin Present
  OBVIOUS
<1>6. \A i \in 1..l : jobs'[i].id = jobs[i].id
  BY <1>2, <1>3
<1>7. \A m, n \in 1..l : jobs[m].id = jobs[n].id => m = n
  BY DEF EachOnce
<1>8. Owed => \A id \in todo : \E n \in 1..l : jobs[n].id = id /\ ~jobs[n].finished
  BY <1>1 DEF Owed
<1>9. \A n \in 1..l : n < p /\ jobs[n].id \in todo => missed[jobs[n].id] + 1 <= erased
  BY DEF PassedOver
<1> HIDE DEF l, k, p
<1>10. \A i \in l + 1..l + k : i = l + 1 /\ k = 1 /\ jobs'[i].id \notin Present
  <2>1. ASSUME NEW i \in l + 1..l + k PROVE i = l + 1 /\ k = 1 /\ i - l \in 1..k
    BY <1>1
  <2>2. QED
    BY <1>3, <1>5, <2>1
<1>11. EachOnce'
  <2> SUFFICES ASSUME NEW m \in 1..l + k, NEW n \in 1..l + k, jobs'[m].id = jobs'[n].id
               PROVE  m = n
    BY <1>3 DEF EachOnce
  <2>1. /\ m \in 1..l \/ m \in l + 1..l + k
        /\ n \in 1..l \/ n \in l + 1..l + k
    BY <1>1
  <2>2. CASE m \in 1..l /\ n \in 1..l
    BY <1>6, <1>7, <2>2
  <2>3. CASE m \in l + 1..l + k /\ n \in l + 1..l + k
    BY <1>10, <2>3
  <2>4. CASE m \in 1..l /\ n \in l + 1..l + k
    BY <1>4, <1>6, <1>10, <2>4
  <2>5. CASE n \in 1..l /\ m \in l + 1..l + k
    BY <1>4, <1>6, <1>10, <2>5
  <2>6. QED
    BY <2>1, <2>2, <2>3, <2>4, <2>5
<1>12. Owed'
  <2> SUFFICES ASSUME NEW id \in todo, id # jobs[p].id
               PROVE  \E n \in 1..l + k : jobs'[n].id = id /\ ~jobs'[n].finished
    BY <1>1, <1>3 DEF Owed
  <2>1. PICK n \in 1..l : jobs[n].id = id /\ ~jobs[n].finished
    BY <1>8
  <2>2. jobs'[n] = jobs[n]
    BY <1>3, <2>1
  <2>3. n \in 1..l + k
    BY <1>1
  <2>4. QED
    BY <2>1, <2>2, <2>3
<1>13. PassedOver'
  <2> SUFFICES ASSUME NEW n \in 1..l + k, n < p + 1, jobs'[n].id \in todo,
                      jobs'[n].id # jobs[p].id
               PROVE  missed[jobs'[n].id] + 1 <= erased
    BY <1>1, <1>3 DEF PassedOver
  <2>1. n \in 1..l
    BY <1>1
  <2>2. n < p
    <3>1. n # p
      BY <1>6, <2>1
    <3>2. QED
      BY <1>1, <3>1
  <2>3. QED
    BY <1>6, <1>9, <2>1, <2>2
<1>14. JobTypes' /\ TurnsMissed'
  BY <1>1, <1>3 DEF JobTypes, TurnsMissed, p
<1>15. QED
  BY <1>11, <1>12, <1>13, <1>14

\* The walk ends: who is still owed a run has been passed over.
LEMMA EndTurns ==
  ASSUME TurnsInv, EndTick, UNCHANGED <<todo, erased>>,
         missed' = [id \in Ids |-> IF id \in todo THEN missed[id] + 1 ELSE missed[id]]
  PROVE  TurnsInv'
<1> USE DEF TurnsInv
<1>1. /\ jobs' = jobs /\ place' = 0 /\ place > Len(jobs) /\ Len(jobs) \in Nat /\ place \in Nat
  BY DEF EndTick, JobTypes
<1>2. JobTypes'
  BY <1>1 DEF JobTypes
<1>3. EachOnce' /\ Owed'
  BY <1>1 DEF EachOnce, Owed
<1>4. PassedOver'
  BY <1>1 DEF PassedOver
<1>5. ASSUME NEW id \in Ids PROVE missed'[id] <= erased
  <2>1. CASE id \in todo
    <3>1. PICK n \in 1..Len(jobs) : jobs[n].id = id
      BY <1>1, <2>1 DEF Owed
    <3>2. missed[id] + 1 <= erased
      BY <1>1, <2>1, <3>1 DEF PassedOver
    <3>3. QED
      BY <2>1, <3>2
  <2>2. CASE id \notin todo
    BY <2>2 DEF TurnsMissed
  <2>3. QED
    BY <2>1, <2>2
<1>6. TurnsMissed'
  BY <1>5 DEF TurnsMissed
<1>7. QED
  BY <1>2, <1>3, <1>4, <1>6

\* Every step keeps the count.
LEMMA NextTurns == TurnsInv /\ [TimersNext]_allTimerVars => TurnsInv'
<1> SUFFICES ASSUME TurnsInv, [TimersNext]_allTimerVars PROVE TurnsInv'
  OBVIOUS
<1>1. CASE UNCHANGED <<jobVars, todo, missed, erased>>
  BY <1>1 DEF TurnsInv, JobTypes, EachOnce, Owed, PassedOver, TurnsMissed, jobVars
<1>2. CASE BeginTick /\ todo' = Unfinished /\ UNCHANGED <<timerVars, missed, erased>>
  BY <1>2, BeginTurns
<1>3. CASE EraseFinished /\ erased' = erased + 1 /\ UNCHANGED <<timerVars, todo, missed>>
  BY <1>3, EraseTurns
<1>4. CASE /\ NotYet \/ Again \/ Once \/ Serve
           /\ todo' = todo \ {Current.id} /\ UNCHANGED <<missed, erased>>
  <2>1. \/ \E o \in {"ok", "last", "error"} : RunJob(o, <<>>)
        \/ \E id \in Later \ Present : RunJob("ok", <<NewJob(id)>>)
    BY <1>4 DEF NotYet, Again, Once, Serve
  <2>2. CASE \E o \in {"ok", "last", "error"} : RunJob(o, <<>>)
    <3> DEFINE none == <<>>
    <3>1. none \in Seq(Job) /\ Len(none) = 0
      BY EmptySeq
    <3>2. \A o \in {"ok", "last", "error"} : RunJob(o, <<>>) => RunJob(o, none)
      OBVIOUS
    <3> HIDE DEF none
    <3>3. Len(none) <= 1 /\ \A i \in 1..Len(none) : none[i].id \notin Present
      BY <3>1
    <3>4. QED
      BY <1>4, <2>2, <3>1, <3>2, <3>3, RunTurns
  <2>3. ASSUME NEW id \in Later \ Present, RunJob("ok", <<NewJob(id)>>) PROVE TurnsInv'
    <3> DEFINE more == <<NewJob(id)>>
    <3>1. NewJob(id) \in Job /\ NewJob(id).id = id
      BY DEF NewJob, Job, Ids
    <3>2. more \in Seq(Job) /\ Len(more) = 1 /\ more[1] = NewJob(id)
      BY <3>1
    <3> HIDE DEF more
    <3>3. Len(more) <= 1 /\ \A i \in 1..Len(more) : more[i].id \notin Present
      BY <3>1, <3>2
    <3>4. RunJob("ok", more)
      BY <2>3 DEF more
    <3>5. QED
      BY <1>4, <3>2, <3>3, <3>4, RunTurns
  <2>4. QED
    BY <2>1, <2>2, <2>3
<1>5. CASE /\ EndTick
           /\ missed' = [id \in Ids |-> IF id \in todo THEN missed[id] + 1 ELSE missed[id]]
           /\ UNCHANGED <<timerVars, todo, erased>>
  BY <1>5, EndTurns
<1>6. QED
  BY <1>1, <1>2, <1>3, <1>4, <1>5 DEF TimersNext, JobStep, TimePasses, allTimerVars

\* JobServer::tick (PxJob.hpp): erasing a job costs at most one other job its
\* turn, whatever jobs there are, if no two are the same.
THEOREM TurnsAreFew ==
  ASSUME First \in Seq(Ids), \A m, n \in 1..Len(First) : First[m] = First[n] => m = n
  PROVE  TimersSpec => []TurnsMissed
<1>1. TimersInit => TurnsInv
  <2> SUFFICES ASSUME TimersInit PROVE TurnsInv
    OBVIOUS
  <2> DEFINE l == Len(First)
  <2>1. l \in Nat /\ \A n \in 1..l : First[n] \in Ids
    OBVIOUS
  <2>2. /\ jobs = [n \in 1..l |-> NewJob(First[n])] /\ place = 0
        /\ todo = {} /\ missed = [id \in Ids |-> 0] /\ erased = 0
    BY DEF TimersInit, JobInit
  <2> HIDE DEF l
  <2>3. jobs \in Seq(Job) /\ Len(jobs) = l /\ \A n \in 1..l : jobs[n].id = First[n]
    <3>1. \A n \in 1..l : NewJob(First[n]) \in Job /\ NewJob(First[n]).id = First[n]
      BY <2>1 DEF NewJob, Job
    <3>2. QED
      BY <2>1, <2>2, <3>1
  <2>4. JobTypes
    BY <2>2, <2>3 DEF JobTypes
  <2>5. EachOnce
    BY <2>3 DEF EachOnce, l
  <2>6. Owed /\ PassedOver /\ TurnsMissed
    BY <2>2 DEF Owed, PassedOver, TurnsMissed
  <2>7. QED
    BY <2>4, <2>5, <2>6 DEF TurnsInv
<1>2. TurnsInv /\ [TimersNext]_allTimerVars => TurnsInv'
  BY NextTurns
<1>3. TurnsInv => TurnsMissed
  BY DEF TurnsInv
<1>4. QED
  BY <1>1, <1>2, <1>3, PTL DEF TimersSpec

(***************************************************************************)
(* The sessions of a user, however many they are, and their daemons.       *)
(*                                                                         *)
(* While commands are on their way the count is not that of the open       *)
(* sessions: it is that of those whose inc has been read and whose logout  *)
(* has not (CountOf).  That a session enters this count once and leaves it *)
(* once is a matter of what is in the sockets.  A command is there only    *)
(* while its connection is, which is until its client is closed and the    *)
(* socket is empty (ConnsOf), and the logout of a session is never read    *)
(* before its inc, for the walk meets the connection of the inc first      *)
(* (InOrder).  A daemon that stops listening has no connections (Hushed),  *)
(* and one that does not listen yet has no sessions (Homes).               *)
(***************************************************************************)

BeforeEntry   == {"out", "unlink", "ask", "poll"}
Entered       == {"write", "wait", "in", "leaving", "closed"}
SessionPlaces == BeforeEntry \union Entered \union {"failed"}
BeforeListen  == {"none", "init", "bind", "listen"}
Gone          == {"unbound", "closing", "aborting", "dead"}
DaemonPlaces  == BeforeListen \union {"chown", "up"} \union Gone

SessionTypes ==
  /\ spc \in [Session -> SessionPlaces] /\ home \in [Session -> Session \union {None}]
  /\ path \in Session \union {None}
  /\ dpc \in [Session -> DaemonPlaces] /\ refs \in [Session -> Int]
  /\ made \in [Session -> Nat] /\ handle \in [Session -> [Conn -> Nat]]
  /\ accepted \in [Session -> Nat] /\ walk \in [Session -> Nat]
  /\ sent \in [Session -> SUBSET Conn] /\ to_purge \in [Session -> SUBSET Conn]

\* Where the client of a session has been.
Homes ==
  \A s \in Session :
    /\ spc[s] \in BeforeEntry => home[s] = None
    /\ spc[s] \in Entered => home[s] \in Session
    /\ home[s] \in Session => dpc[home[s]] \notin BeforeListen \union {"unbound"}

\* How far the session of a connection has come, when there is one, when its
\* command has been written and when its client is closed.
Spoken(c)  == spc[c.who] \in IF c.cmd = "inc" THEN Entered ELSE {"leaving", "closed"}
Written(c) == spc[c.who] \in IF c.cmd = "inc" THEN Entered \ {"write"} ELSE {"closed"}
HungUp(c)  == spc[c.who] \in IF c.cmd = "inc" THEN {"in", "leaving", "closed"} ELSE {"closed"}

Hushed(d) ==
  /\ ~Listening(d) => sent[d] = {} /\ to_purge[d] = {} /\ \A c \in Conn : handle[d][c] = 0
  /\ dpc[d] \in BeforeListen => refs[d] = 0

\* No two connections have one number.
Numbers(d) ==
  /\ accepted[d] <= made[d]
  /\ \A c \in Conn : handle[d][c] <= made[d]
  /\ \A c, e \in Conn : handle[d][c] # 0 /\ handle[d][c] = handle[d][e] => c = e

ConnsOf(d) ==
  \A c \in Conn :
    /\ handle[d][c] # 0 => home[c.who] = d /\ Spoken(c)
    /\ c \in sent[d] => handle[d][c] # 0 /\ c \notin to_purge[d] /\ Written(c)
    /\ c \in to_purge[d] => handle[d][c] # 0 /\ HungUp(c)

\* A session that has something to write has a connection for it.
TalksTo(d) ==
  \A s \in Session :
    home[s] = d /\ Listening(d) =>
      /\ spc[s] = "write" => handle[d][Con(s, "inc")] # 0
      /\ spc[s] = "leaving" => handle[d][Con(s, "logout")] # 0

\* An inc that is not read yet: its logout comes later, and is behind it in the walk.
InOrder(d) ==
  \A s \in Session :
    Con(s, "inc") \in sent[d] =>
      /\ spc[s] = "closed" => Con(s, "logout") \in sent[d]
      /\ handle[d][Con(s, "logout")] # 0 =>
          /\ handle[d][Con(s, "inc")] < handle[d][Con(s, "logout")]
          /\ handle[d][Con(s, "logout")] <= accepted[d] => walk[d] <= handle[d][Con(s, "inc")]

\* Whose inc d has read, and whose logout it has not.
Counted(d) ==
  {s \in Session :
    /\ home[s] = d /\ Con(s, "inc") \notin sent[d]
    /\ spc[s] \in {"wait", "in", "leaving"} \/ Con(s, "logout") \in sent[d]}

CountOf(d) == Listening(d) => refs[d] = Cardinality(Counted(d))

OfDaemon(d) == ConnsOf(d) /\ TalksTo(d) /\ InOrder(d) /\ CountOf(d)

SessionInv ==
  /\ SessionTypes
  /\ Homes
  /\ \A d \in Session : Hushed(d) /\ Numbers(d)
  /\ \A d \in Session \ misled : OfDaemon(d)

-----------------------------------------------------------------------------
\* The connections of a session.
LEMMA ConnTypes ==
  /\ \A s \in Session, w \in {"inc", "logout"} :
       Con(s, w) \in Conn /\ Con(s, w).who = s /\ Con(s, w).cmd = w
  /\ \A c \in Conn : c.who \in Session /\ c.cmd \in {"inc", "logout"} /\ c = Con(c.who, c.cmd)
  /\ \A s, t \in Session, v, w \in {"inc", "logout"} : Con(s, v) = Con(t, w) => s = t /\ v = w
  BY DEF Conn, Con

\* What nothing is done to, neither to a daemon nor to the sessions that are with it,
\* stays right.
LEMMA Untouched ==
  ASSUME NEW d \in Session, OfDaemon(d), Listening(d)' <=> Listening(d), refs'[d] = refs[d],
         handle'[d] = handle[d], sent'[d] = sent[d], to_purge'[d] = to_purge[d],
         accepted'[d] = accepted[d], walk'[d] = walk[d],
         \A t \in Session : home[t] = d \/ home'[t] = d =>
            spc'[t] = spc[t] /\ home'[t] = home[t]
  PROVE  OfDaemon(d)'
<1>1. ConnsOf(d)'
  <2>1. ASSUME NEW c \in Conn, handle[d][c] # 0
        PROVE  /\ spc'[c.who] = spc[c.who] /\ home'[c.who] = home[c.who]
               /\ Spoken(c)' = Spoken(c) /\ Written(c)' = Written(c) /\ HungUp(c)' = HungUp(c)
    <3>1. c.who \in Session /\ home[c.who] = d
      BY <2>1, ConnTypes DEF OfDaemon, ConnsOf
    <3>2. QED
      BY <3>1 DEF Spoken, Written, HungUp
  <2>2. QED
    BY <2>1 DEF OfDaemon, ConnsOf
<1>2. TalksTo(d)'
  BY DEF OfDaemon, TalksTo
<1>3. InOrder(d)'
  <2>1. \A s \in Session : Con(s, "inc") \in sent[d] => home[s] = d
    BY ConnTypes DEF OfDaemon, ConnsOf
  <2>2. QED
    BY <2>1 DEF OfDaemon, InOrder
<1>4. Counted(d)' = Counted(d)
  BY DEF Counted
<1>5. QED
  BY <1>1, <1>2, <1>3, <1>4 DEF OfDaemon, CountOf

\* A session that has no client yet, or that fails to ask for a daemon.
LEMMA EarlyStep ==
  ASSUME SessionInv, SessionAssumption, NEW s \in Session, NEW x \in BeforeEntry \union {"failed"},
         spc[s] \in BeforeEntry, spc' = [spc EXCEPT ![s] = x], path' \in Session \union {None},
         UNCHANGED <<home, dpc, refs, connVars, misled>>
  PROVE  SessionInv'
<1>1. SessionTypes'
  BY DEF SessionInv, SessionTypes, connVars, SessionPlaces
<1>2. home[s] = None /\ None \notin Session
  BY DEF SessionInv, Homes, SessionAssumption
<1>3. /\ spc'[s] = x /\ x \notin Entered /\ spc[s] \notin Entered
      /\ \A t \in Session : t # s => spc'[t] = spc[t]
  BY DEF SessionInv, SessionTypes, BeforeEntry, Entered
<1>4. Homes'
  BY <1>2, <1>3 DEF SessionInv, Homes
<1>5. \A d \in Session : Hushed(d)' /\ Numbers(d)'
  BY DEF SessionInv, Hushed, Numbers, Listening, connVars
<1>6. ASSUME NEW d \in Session \ misled'
      PROVE  OfDaemon(d)'
  <2>1. OfDaemon(d)
    BY <1>6 DEF SessionInv
  <2>2. \A t \in Session : home[t] = d \/ home'[t] = d => spc'[t] = spc[t] /\ home'[t] = home[t]
    BY <1>2, <1>3
  <2>3. Listening(d)' <=> Listening(d)
    BY DEF Listening
  <2>4. QED
    BY <2>1, <2>2, <2>3, Untouched DEF connVars
<1>7. QED
  BY <1>1, <1>4, <1>5, <1>6 DEF SessionInv

\* A daemon goes on, and listens no less than before.
LEMMA DaemonMoves ==
  ASSUME SessionInv, SessionAssumption, NEW d \in Session, NEW x \in DaemonPlaces,
         dpc' = [dpc EXCEPT ![d] = x],
         \/ dpc[d] \in BeforeListen /\ x \in BeforeListen \union {"chown", "unbound"}
         \/ dpc[d] \in {"none", "unbound", "closing", "aborting"} /\ x = "dead"
         \/ dpc[d] = "chown" /\ x = "up",
         path' \in Session \union {None}, UNCHANGED <<spc, home, refs, connVars, misled>>
  PROVE  SessionInv'
<1>1. SessionTypes'
  BY DEF SessionInv, SessionTypes, connVars
<1>2. dpc'[d] = x /\ \A e \in Session : e # d => dpc'[e] = dpc[e]
  BY DEF SessionInv, SessionTypes
<1>3. \A s \in Session : home[s] = d => dpc[d] \notin BeforeListen \union {"unbound"}
  BY DEF SessionInv, Homes
<1>4. Homes'
  BY <1>2, <1>3 DEF SessionInv, Homes, BeforeListen
<1>5. \A e \in Session : Hushed(e)' /\ Numbers(e)'
  BY <1>2 DEF SessionInv, Hushed, Numbers, Listening, BeforeListen, connVars
<1>6. ASSUME NEW e \in Session \ misled'
      PROVE  OfDaemon(e)'
  <2>1. OfDaemon(e)
    BY <1>6 DEF SessionInv
  <2>2. CASE e # d \/ (Listening(e)' <=> Listening(e))
    <3>1. Listening(e)' <=> Listening(e)
      BY <1>2, <2>2 DEF Listening
    <3>2. QED
      BY <2>1, <3>1, Untouched DEF connVars
  <2>3. CASE e = d /\ dpc[d] \in BeforeListen
    <3>1. /\ sent'[d] = {} /\ to_purge'[d] = {} /\ \A c \in Conn : handle'[d][c] = 0
          /\ refs'[d] = 0 /\ \A s \in Session : home'[s] # d
      BY <1>3, <2>3 DEF SessionInv, Hushed, Listening, BeforeListen, connVars
    <3>2. ConnsOf(d)' /\ TalksTo(d)' /\ InOrder(d)'
      BY <3>1 DEF ConnsOf, TalksTo, InOrder
    <3>3. Counted(d)' = {}
      BY <3>1 DEF Counted
    <3>4. CountOf(d)'
      BY <3>1, <3>3, FS_EmptySet DEF CountOf
    <3>5. QED
      BY <2>3, <3>2, <3>4 DEF OfDaemon
  <2>4. dpc[d] \notin BeforeListen => (Listening(d)' <=> Listening(d))
    BY <1>2 DEF Listening, BeforeListen
  <2>5. QED
    BY <2>2, <2>3, <2>4
<1>7. QED
  BY <1>1, <1>4, <1>5, <1>6 DEF SessionInv

\* A daemon goes, and its connections with it (Exit, Killed).
LEMMA DaemonGoes ==
  ASSUME SessionInv, NEW d \in Session, NEW x \in {"closing", "aborting", "dead"},
         Listening(d), dpc' = [dpc EXCEPT ![d] = x], DropConns(d),
         UNCHANGED <<spc, home, path, refs, misled>>
  PROVE  SessionInv'
<1>1. SessionTypes'
  BY DEF SessionInv, SessionTypes, DaemonPlaces, Gone, DropConns
<1>2. /\ dpc'[d] = x /\ sent'[d] = {} /\ to_purge'[d] = {} /\ made'[d] = 0 /\ accepted'[d] = 0
      /\ \A c \in Conn : handle'[d][c] = 0
      /\ \A e \in Session :
          e # d => /\ dpc'[e] = dpc[e] /\ made'[e] = made[e] /\ handle'[e] = handle[e]
                   /\ accepted'[e] = accepted[e] /\ walk'[e] = walk[e]
                   /\ sent'[e] = sent[e] /\ to_purge'[e] = to_purge[e]
  BY DEF SessionInv, SessionTypes, DropConns
<1>3. dpc'[d] \notin BeforeListen \union {"unbound"} /\ ~Listening(d)'
  BY <1>2 DEF BeforeListen, Listening
<1>4. Homes'
  <2>1. ASSUME NEW s \in Session, home[s] \in Session
        PROVE  dpc'[home[s]] \notin BeforeListen \union {"unbound"}
    BY <1>2, <1>3, <2>1 DEF SessionInv, Homes
  <2>2. QED
    BY <2>1 DEF SessionInv, Homes
<1>5. \A e \in Session : Hushed(e)' /\ Numbers(e)'
  <2>1. Hushed(d)' /\ Numbers(d)'
    <3>1. Hushed(d)'
      BY <1>2, <1>3 DEF Hushed
    <3>2. Numbers(d)'
      BY <1>2 DEF Numbers
    <3>3. QED
      BY <3>1, <3>2
  <2>2. ASSUME NEW e \in Session, e # d
        PROVE  Hushed(e)' /\ Numbers(e)'
    <3>1. Hushed(e) /\ Numbers(e)
      BY DEF SessionInv
    <3>2. /\ dpc'[e] = dpc[e] /\ made'[e] = made[e] /\ handle'[e] = handle[e] /\ refs' = refs
          /\ accepted'[e] = accepted[e] /\ sent'[e] = sent[e] /\ to_purge'[e] = to_purge[e]
      BY <1>2, <2>2
    <3>3. Hushed(e)'
      BY <3>1, <3>2 DEF Hushed, Listening
    <3>4. Numbers(e)'
      BY <3>1, <3>2 DEF Numbers
    <3>5. QED
      BY <3>3, <3>4
  <2>3. QED
    BY <2>1, <2>2
<1>6. ASSUME NEW e \in Session \ misled'
      PROVE  OfDaemon(e)'
  <2>1. OfDaemon(e)
    BY <1>6 DEF SessionInv
  <2>2. CASE e = d
    <3>1. QED
      BY <1>2, <1>3, <2>2 DEF OfDaemon, ConnsOf, TalksTo, InOrder, CountOf
  <2>3. CASE e # d
    <3>1. Listening(e)' <=> Listening(e)
      BY <1>2, <2>3 DEF Listening
    <3>2. QED
      BY <1>2, <2>1, <2>3, <3>1, Untouched
  <2>4. QED
    BY <2>2, <2>3
<1>7. QED
  BY <1>1, <1>4, <1>5, <1>6 DEF SessionInv

\* What the invariant does not look at: requests to fork, targets, whose socket it is.
LEMMA NothingSaid ==
  ASSUME SessionInv, UNCHANGED <<spc, home, path, dpc, connVars, refs, misled>>
  PROVE  SessionInv'
<1>1. SessionTypes' /\ Homes'
  BY DEF SessionInv, SessionTypes, Homes, connVars
<1>2. \A d \in Session : Hushed(d)' /\ Numbers(d)'
  BY DEF SessionInv, Hushed, Numbers, Listening, connVars
<1>3. ASSUME NEW d \in Session \ misled'
      PROVE  OfDaemon(d)'
  <2>1. OfDaemon(d)
    BY <1>3 DEF SessionInv
  <2>2. Listening(d)' <=> Listening(d)
    BY DEF Listening
  <2>3. QED
    BY <2>1, <2>2, Untouched DEF connVars
<1>4. QED
  BY <1>1, <1>2, <1>3 DEF SessionInv

\* A connection gets a number that no other has (Enter, BeginClose).
LEMMA NewNumber ==
  ASSUME SessionInv, NEW p \in Session, NEW c \in Conn, MakeConn(p, c)
  PROVE  /\ made' \in [Session -> Nat] /\ handle' \in [Session -> [Conn -> Nat]]
         /\ made'[p] = made[p] + 1 /\ handle'[p][c] = made[p] + 1
         /\ \A e \in Conn : e # c => handle'[p][e] = handle[p][e]
         /\ \A d \in Session : d # p => made'[d] = made[d] /\ handle'[d] = handle[d]
         /\ UNCHANGED <<accepted, walk, sent, to_purge>>
         /\ \A d \in Session : Numbers(d)'
<1>1. /\ made'[p] = made[p] + 1 /\ handle'[p][c] = made[p] + 1
      /\ \A e \in Conn : e # c => handle'[p][e] = handle[p][e]
      /\ \A d \in Session : d # p => made'[d] = made[d] /\ handle'[d] = handle[d]
      /\ UNCHANGED <<accepted, walk, sent, to_purge>>
  BY DEF SessionInv, SessionTypes, MakeConn
<1>2. made' \in [Session -> Nat] /\ handle' \in [Session -> [Conn -> Nat]]
  BY <1>1 DEF SessionInv, SessionTypes, MakeConn
<1>3. ASSUME NEW d \in Session
      PROVE  Numbers(d)'
  <2>1. Numbers(d) /\ accepted[d] \in Nat /\ made[d] \in Nat /\ handle[d] \in [Conn -> Nat]
    BY DEF SessionInv, SessionTypes
  <2>2. CASE d # p
    BY <1>1, <2>1, <2>2 DEF Numbers
  <2>3. CASE d = p
    <3>1. \A e \in Conn : handle[d][e] <= made[d] /\ handle[d][e] \in Nat
      BY <2>1 DEF Numbers
    <3>2. \A e \in Conn : handle'[d][e] <= made[d] + 1 /\ (handle'[d][e] = made[d] + 1 <=> e = c)
      BY <1>1, <2>1, <2>3, <3>1
    <3>3. \A e, f \in Conn : handle'[d][e] # 0 /\ handle'[d][e] = handle'[d][f] => e = f
      BY <1>1, <2>1, <2>3, <3>2 DEF Numbers
    <3>4. QED
      BY <1>1, <2>1, <2>3, <3>2, <3>3 DEF Numbers
  <2>4. QED
    BY <2>2, <2>3
<1>4. QED
  BY <1>1, <1>2, <1>3

\* A session reaches a daemon (Enter).
LEMMA Enters ==
  ASSUME SessionInv, SessionAssumption, NEW s \in Session, spc[s] \in BeforeEntry, Enter(s)
  PROVE  SessionInv'
<1> DEFINE p == path
           c == Con(s, "inc")
<1>1. /\ p \in Session /\ Listening(p)
      /\ spc' = [spc EXCEPT ![s] = "write"] /\ home' = [home EXCEPT ![s] = p]
      /\ MakeConn(p, c) /\ UNCHANGED <<path, dpc, refs, misled>>
  <2>1. p \in Session /\ Listening(p)
    BY DEF SessionInv, SessionTypes, Enter, Answers
  <2>2. QED
    BY <2>1 DEF Enter, pathVars
<1>2. c \in Conn /\ c.who = s /\ c.cmd = "inc" /\ Con(s, "logout") # c
  BY ConnTypes
<1>3. home[s] = None /\ None \notin Session /\ spc[s] \notin Entered
  BY DEF SessionInv, Homes, BeforeEntry, Entered, SessionAssumption
<1> HIDE DEF c, p
<1>4. /\ spc'[s] = "write" /\ home'[s] = p /\ handle'[p][c] = made[p] + 1
      /\ \A e \in Conn : e # c => handle'[p][e] = handle[p][e]
      /\ \A t \in Session : t # s => spc'[t] = spc[t] /\ home'[t] = home[t]
      /\ \A d \in Session : d # p => handle'[d] = handle[d]
      /\ UNCHANGED <<accepted, walk, sent, to_purge>>
  BY <1>1, <1>2, NewNumber DEF SessionInv, SessionTypes
<1>5. SessionTypes'
  <2>1. spc' \in [Session -> SessionPlaces] /\ home' \in [Session -> Session \union {None}]
    BY <1>1 DEF SessionInv, SessionTypes, SessionPlaces, Entered
  <2>2. QED
    BY <1>1, <1>2, <1>4, <2>1, NewNumber DEF SessionInv, SessionTypes
<1>6. Homes'
  BY <1>1, <1>4 DEF SessionInv, Homes, BeforeEntry, Listening, BeforeListen
<1>7. \A d \in Session : Hushed(d)'
  BY <1>1, <1>4 DEF SessionInv, Hushed, Listening
<1>8. \A d \in Session : Numbers(d)'
  BY <1>1, <1>2, NewNumber
<1>9. ASSUME NEW d \in Session \ misled'
      PROVE  OfDaemon(d)'
  <2>1. OfDaemon(d) /\ home[s] # d /\ (Listening(d)' <=> Listening(d))
    BY <1>1, <1>3, <1>9 DEF SessionInv, Listening
  <2>2. CASE d # p
    BY <1>1, <1>4, <2>1, <2>2, Untouched
  <2>3. CASE d = p
    <3>1. \A e \in Conn : e.who = s => handle[d][e] = 0 /\ e \notin sent[d] /\ e \notin to_purge[d]
      BY <2>1 DEF OfDaemon, ConnsOf
    <3>2. ASSUME NEW e \in Conn, e.who # s
          PROVE  /\ e # c /\ handle'[d][e] = handle[d][e] /\ home'[e.who] = home[e.who]
                 /\ (Spoken(e)' <=> Spoken(e)) /\ (Written(e)' <=> Written(e)) /\ (HungUp(e)' <=> HungUp(e))
      BY <1>2, <1>4, <2>3, <3>2, ConnTypes DEF Spoken, Written, HungUp
    <3>3. ConnsOf(d)'
      <4>1. ASSUME NEW e \in Conn
            PROVE  /\ handle'[d][e] # 0 => home'[e.who] = d /\ Spoken(e)'
                   /\ e \in sent'[d] => handle'[d][e] # 0 /\ e \notin to_purge'[d] /\ Written(e)'
                   /\ e \in to_purge'[d] => handle'[d][e] # 0 /\ HungUp(e)'
        <5>1. CASE e.who # s
          BY <1>4, <2>1, <3>2, <5>1 DEF OfDaemon, ConnsOf
        <5>2. CASE e.who = s
          <6>1. e = c => Spoken(e)'
            BY <1>2, <1>4 DEF Spoken, Entered
          <6>2. QED
            BY <1>2, <1>4, <2>3, <3>1, <5>2, <6>1
        <5>3. QED
          BY <5>1, <5>2
      <4>2. QED
        BY <4>1 DEF ConnsOf
    <3>4. TalksTo(d)'
      <4>1. ASSUME NEW t \in Session, home'[t] = d, Listening(d)'
            PROVE  /\ spc'[t] = "write" => handle'[d][Con(t, "inc")] # 0
                   /\ spc'[t] = "leaving" => handle'[d][Con(t, "logout")] # 0
        <5>1. CASE t = s
          BY <1>4, <2>3, <5>1 DEF c, SessionInv, SessionTypes
        <5>2. CASE t # s
          <6>1. /\ Con(t, "inc") \in Conn /\ Con(t, "inc").who # s
                /\ Con(t, "logout") \in Conn /\ Con(t, "logout").who # s
            BY <5>2, ConnTypes
          <6>2. QED
            BY <1>4, <2>1, <3>2, <4>1, <5>2, <6>1 DEF OfDaemon, TalksTo
        <5>3. QED
          BY <5>1, <5>2
      <4>2. QED
        BY <4>1 DEF TalksTo
    <3>5. InOrder(d)'
      <4>1. ASSUME NEW t \in Session, Con(t, "inc") \in sent'[d]
            PROVE  /\ t # s
                   /\ handle'[d][Con(t, "inc")] = handle[d][Con(t, "inc")]
                   /\ handle'[d][Con(t, "logout")] = handle[d][Con(t, "logout")]
        <5>1. t # s
          BY <1>4, <3>1, <4>1, ConnTypes
        <5>2. QED
          BY <3>2, <5>1, ConnTypes
      <4>2. QED
        BY <1>4, <2>1, <4>1 DEF OfDaemon, InOrder
    <3>6. Counted(d)' = Counted(d)
      <4>1. Con(s, "logout") \notin sent'[d]
        BY <1>4, <3>1, ConnTypes
      <4>2. \A t \in Session : t \in Counted(d)' <=> t \in Counted(d)
        BY <1>4, <2>1, <4>1 DEF Counted
      <4>3. QED
        BY <4>2 DEF Counted
    <3>7. CountOf(d)'
      BY <1>1, <2>1, <3>6 DEF OfDaemon, CountOf
    <3>8. QED
      BY <3>3, <3>4, <3>5, <3>7 DEF OfDaemon
  <2>4. QED
    BY <2>2, <2>3
<1>10. QED
  BY <1>5, <1>6, <1>7, <1>8, <1>9 DEF SessionInv

\* What changes when a command is put into the socket: nothing where the daemon has gone.
LEMMA WritesInc ==
  ASSUME SessionInv, NEW s \in Session, WriteInc(s)
  PROVE  SessionInv'
<1> DEFINE h == home[s]
           c == Con(s, "inc")
<1>1. /\ spc[s] = "write" /\ spc' = [spc EXCEPT ![s] = IF Listening(h) THEN "wait" ELSE "failed"]
      /\ UNCHANGED <<home, path, dpc, made, handle, accepted, walk, to_purge, refs, misled>>
      /\ sent' = IF Listening(h) THEN [sent EXCEPT ![h] = @ \union {c}] ELSE sent
  BY DEF WriteInc, Move, Send, pathVars
<1>2. /\ c \in Conn /\ c.who = s /\ c.cmd = "inc" /\ Con(s, "logout") # c
      /\ h \in Session /\ dpc[h] \notin BeforeListen
  BY <1>1, ConnTypes DEF SessionInv, Homes, Entered
<1> HIDE DEF c, h
<1>3. /\ spc'[s] = IF Listening(h) THEN "wait" ELSE "failed"
      /\ Listening(h) => sent'[h] = sent[h] \union {c}
      /\ \A t \in Session : t # s => spc'[t] = spc[t]
      /\ \A d \in Session : d # h \/ ~Listening(h) => sent'[d] = sent[d]
  BY <1>1, <1>2 DEF SessionInv, SessionTypes
<1>4. SessionTypes'
  <2>1. spc' \in [Session -> SessionPlaces]
    BY <1>1 DEF SessionInv, SessionTypes, SessionPlaces, Entered
  <2>2. sent' \in [Session -> SUBSET Conn]
    BY <1>1, <1>2 DEF SessionInv, SessionTypes
  <2>3. QED
    BY <1>1, <2>1, <2>2 DEF SessionInv, SessionTypes
<1>5. Homes'
  BY <1>1, <1>2, <1>3 DEF SessionInv, Homes, BeforeEntry, h
<1>6. \A d \in Session : Hushed(d)' /\ Numbers(d)'
  BY <1>1, <1>3 DEF SessionInv, Hushed, Numbers, Listening
<1>7. ASSUME NEW d \in Session \ misled'
      PROVE  OfDaemon(d)'
  <2>1. OfDaemon(d) /\ Hushed(d) /\ (Listening(d)' <=> Listening(d))
    BY <1>1, <1>7 DEF SessionInv, Listening
  <2>2. CASE d # h
    <3>1. \A t \in Session : home[t] = d \/ home'[t] = d => spc'[t] = spc[t] /\ home'[t] = home[t]
      BY <1>1, <1>3, <2>2 DEF h
    <3>2. QED
      BY <1>1, <1>3, <2>1, <2>2, <3>1, Untouched
  <2>3. CASE d = h /\ ~Listening(h)
    <3>1. ConnsOf(d)' /\ TalksTo(d)' /\ InOrder(d)'
      BY <1>1, <1>3, <2>1, <2>3 DEF Hushed, ConnsOf, TalksTo, InOrder
    <3>2. QED
      BY <2>1, <2>3, <3>1 DEF OfDaemon, CountOf
  <2>4. CASE d = h /\ Listening(h)
    <3>1. handle[d][c] # 0 /\ c \notin to_purge[d]
      <4>1. handle[d][c] # 0
        BY <1>1, <2>1, <2>4 DEF OfDaemon, TalksTo, c, h
      <4>2. ~HungUp(c)
        BY <1>1, <1>2 DEF HungUp
      <4>3. QED
        BY <1>2, <2>1, <4>1, <4>2 DEF OfDaemon, ConnsOf
    <3>2. handle[d][Con(s, "logout")] = 0 /\ Con(s, "logout") \notin sent[d] /\ c \notin sent[d]
      <4>1. ~Spoken(Con(s, "logout")) /\ ~Written(c) /\ Con(s, "logout") \in Conn
        BY <1>1, <1>2, ConnTypes DEF Spoken, Written
      <4>2. QED
        BY <1>2, <2>1, <4>1 DEF OfDaemon, ConnsOf
    <3>3. \A e \in Conn : /\ Spoken(e) => Spoken(e)'
                          /\ Written(e) \/ e = c => Written(e)'
                          /\ HungUp(e) => HungUp(e)'
      BY <1>1, <1>2, <1>3, <2>4, ConnTypes DEF Spoken, Written, HungUp, Entered
    <3>4. ConnsOf(d)'
      BY <1>1, <1>3, <2>1, <2>4, <3>1, <3>3 DEF OfDaemon, ConnsOf
    <3>5. TalksTo(d)'
      BY <1>1, <1>3, <2>1, <2>4 DEF OfDaemon, TalksTo
    <3>6. InOrder(d)'
      <4>1. ASSUME NEW t \in Session, Con(t, "inc") \in sent'[d]
            PROVE  /\ spc'[t] = "closed" => Con(t, "logout") \in sent'[d]
                   /\ handle'[d][Con(t, "logout")] # 0 =>
                        /\ handle'[d][Con(t, "inc")] < handle'[d][Con(t, "logout")]
                        /\ handle'[d][Con(t, "logout")] <= accepted'[d]
                             => walk'[d] <= handle'[d][Con(t, "inc")]
        <5>1. CASE t = s
          BY <1>1, <1>3, <2>4, <3>2, <5>1
        <5>2. CASE t # s
          <6>1. Con(t, "inc") # c
            BY <5>2, ConnTypes DEF c
          <6>2. QED
            BY <1>1, <1>3, <2>1, <2>4, <4>1, <5>2, <6>1 DEF OfDaemon, InOrder
        <5>3. QED
          BY <5>1, <5>2
      <4>2. QED
        BY <4>1 DEF InOrder
    <3>7. Counted(d)' = Counted(d)
      <4>1. ASSUME NEW t \in Session
            PROVE  t \in Counted(d)' <=> t \in Counted(d)
        <5>1. CASE t = s
          BY <1>1, <1>2, <1>3, <2>4, <3>2, <5>1 DEF Counted, c
        <5>2. CASE t # s
          <6>1. Con(t, "inc") # c /\ Con(t, "logout") # c
            BY <5>2, ConnTypes DEF c
          <6>2. QED
            BY <1>1, <1>3, <2>4, <5>2, <6>1 DEF Counted
        <5>3. QED
          BY <5>1, <5>2
      <4>2. QED
        BY <4>1 DEF Counted
    <3>8. QED
      BY <1>1, <2>1, <3>4, <3>5, <3>6, <3>7 DEF OfDaemon, CountOf
  <2>5. QED
    BY <2>2, <2>3, <2>4
<1>8. QED
  BY <1>4, <1>5, <1>6, <1>7 DEF SessionInv

\* The client of a session that is in is closed (Opened).
LEMMA IsIn ==
  ASSUME SessionInv, NEW s \in Session, Opened(s)
  PROVE  SessionInv'
<1>1. /\ spc[s] = "wait" /\ spc' = [spc EXCEPT ![s] = "in"] /\ UNCHANGED <<home, path, dpc, refs, misled>>
      /\ UNCHANGED <<made, handle, accepted, walk, sent, to_purge>>
  BY DEF Opened, Move, pathVars, connVars
<1>2. spc'[s] = "in" /\ \A t \in Session : t # s => spc'[t] = spc[t]
  BY <1>1 DEF SessionInv, SessionTypes
<1>3. SessionTypes'
  BY <1>1 DEF SessionInv, SessionTypes, SessionPlaces, Entered
<1>4. Homes'
  BY <1>1, <1>2 DEF SessionInv, Homes, BeforeEntry, Entered
<1>5. \A d \in Session : Hushed(d)' /\ Numbers(d)'
  BY <1>1 DEF SessionInv, Hushed, Numbers, Listening
<1>6. ASSUME NEW d \in Session \ misled'
      PROVE  OfDaemon(d)'
  <2>1. OfDaemon(d) /\ (Listening(d)' <=> Listening(d))
    BY <1>1, <1>6 DEF SessionInv, Listening
  <2>2. \A e \in Conn : (Spoken(e) => Spoken(e)') /\ (Written(e) => Written(e)') /\ (HungUp(e) => HungUp(e)')
    BY <1>1, <1>2, ConnTypes DEF Spoken, Written, HungUp, Entered
  <2>3. ConnsOf(d)'
    BY <1>1, <2>1, <2>2 DEF OfDaemon, ConnsOf
  <2>4. TalksTo(d)' /\ InOrder(d)'
    BY <1>1, <1>2, <2>1 DEF OfDaemon, TalksTo, InOrder
  <2>5. Counted(d)' = Counted(d)
    BY <1>1, <1>2 DEF Counted
  <2>6. QED
    BY <1>1, <2>1, <2>3, <2>4, <2>5 DEF OfDaemon, CountOf
<1>7. QED
  BY <1>3, <1>4, <1>5, <1>6 DEF SessionInv

\* The logout is written, which changes no count: who has left was counted, or has an
\* inc that is yet to be read.
LEMMA WritesLogout ==
  ASSUME SessionInv, NEW s \in Session, Closed(s)
  PROVE  SessionInv'
<1> DEFINE h == home[s]
           c == Con(s, "logout")
<1>1. /\ spc[s] = "leaving" /\ spc' = [spc EXCEPT ![s] = "closed"]
      /\ UNCHANGED <<home, path, dpc, made, handle, accepted, walk, to_purge, refs, misled>>
      /\ sent' = IF Listening(h) THEN [sent EXCEPT ![h] = @ \union {c}] ELSE sent
  BY DEF Closed, Move, Send, pathVars
<1>2. /\ c \in Conn /\ c.who = s /\ c.cmd = "logout" /\ Con(s, "inc") # c
      /\ h \in Session /\ dpc[h] \notin BeforeListen
  BY <1>1, ConnTypes DEF SessionInv, Homes, Entered
<1> HIDE DEF c, h
<1>3. /\ spc'[s] = "closed" /\ (Listening(h) => sent'[h] = sent[h] \union {c})
      /\ \A t \in Session : t # s => spc'[t] = spc[t]
      /\ \A d \in Session : d # h \/ ~Listening(h) => sent'[d] = sent[d]
  BY <1>1, <1>2 DEF SessionInv, SessionTypes
<1>4. SessionTypes'
  <2>1. spc' \in [Session -> SessionPlaces]
    BY <1>1 DEF SessionInv, SessionTypes, SessionPlaces, Entered
  <2>2. sent' \in [Session -> SUBSET Conn]
    BY <1>1, <1>2 DEF SessionInv, SessionTypes
  <2>3. QED
    BY <1>1, <2>1, <2>2 DEF SessionInv, SessionTypes
<1>5. Homes'
  BY <1>1, <1>2, <1>3 DEF SessionInv, Homes, BeforeEntry, h
<1>6. \A d \in Session : Hushed(d)' /\ Numbers(d)'
  BY <1>1, <1>3 DEF SessionInv, Hushed, Numbers, Listening
<1>7. ASSUME NEW d \in Session \ misled'
      PROVE  OfDaemon(d)'
  <2>1. OfDaemon(d) /\ Hushed(d) /\ (Listening(d)' <=> Listening(d))
    BY <1>1, <1>7 DEF SessionInv, Listening
  <2>2. CASE d # h
    <3>1. \A t \in Session : home[t] = d \/ home'[t] = d => spc'[t] = spc[t] /\ home'[t] = home[t]
      BY <1>1, <1>3, <2>2 DEF h
    <3>2. QED
      BY <1>1, <1>3, <2>1, <2>2, <3>1, Untouched
  <2>3. CASE d = h /\ ~Listening(h)
    <3>1. ConnsOf(d)' /\ TalksTo(d)' /\ InOrder(d)'
      BY <1>1, <1>3, <2>1, <2>3 DEF Hushed, ConnsOf, TalksTo, InOrder
    <3>2. QED
      BY <2>1, <2>3, <3>1 DEF OfDaemon, CountOf
  <2>4. CASE d = h /\ Listening(h)
    <3>1. handle[d][c] # 0 /\ c \notin to_purge[d]
      <4>1. handle[d][c] # 0
        BY <1>1, <2>1, <2>4 DEF OfDaemon, TalksTo, c, h
      <4>2. ~HungUp(c)
        BY <1>1, <1>2 DEF HungUp
      <4>3. QED
        BY <1>2, <2>1, <4>1, <4>2 DEF OfDaemon, ConnsOf
    <3>2. \A e \in Conn : /\ Spoken(e) => Spoken(e)'
                          /\ Written(e) \/ e = c => Written(e)'
                          /\ HungUp(e) => HungUp(e)'
      BY <1>1, <1>2, <1>3, ConnTypes DEF Spoken, Written, HungUp, Entered
    <3>3. ConnsOf(d)'
      BY <1>1, <1>3, <2>1, <2>4, <3>1, <3>2 DEF OfDaemon, ConnsOf
    <3>4. TalksTo(d)'
      BY <1>1, <1>3, <2>1, <2>4 DEF OfDaemon, TalksTo
    <3>5. \A t \in Session : Con(t, "inc") # c /\ (t # s => Con(t, "logout") # c)
      BY ConnTypes DEF c
    <3>6. InOrder(d)'
      BY <1>1, <1>3, <2>1, <2>4, <3>5 DEF OfDaemon, InOrder, c
    <3>7. Counted(d)' = Counted(d)
      <4>1. ASSUME NEW t \in Session
            PROVE  t \in Counted(d)' <=> t \in Counted(d)
        BY <1>1, <1>3, <2>4, <3>5 DEF Counted, c
      <4>2. QED
        BY <4>1 DEF Counted
    <3>8. QED
      BY <1>1, <2>1, <3>3, <3>4, <3>6, <3>7 DEF OfDaemon, CountOf
  <2>5. QED
    BY <2>2, <2>3, <2>4
<1>8. QED
  BY <1>4, <1>5, <1>6, <1>7 DEF SessionInv

\* A session that is in begins to leave (BeginClose).  A daemon that is not misled
\* is either the one it has been with, or has nothing to do with it.
LEMMA BeginsToClose ==
  ASSUME SessionInv, SessionAssumption, NEW s \in Session, BeginClose(s)
  PROVE  SessionInv'
<1> DEFINE p == path
           c == Con(s, "logout")
<1>1. spc[s] = "in" /\ UNCHANGED <<path, dpc, refs>> /\ home[s] \in Session
  BY DEF BeginClose, pathVars, SessionInv, Homes, Entered
<1>2. CASE ~Answers
  <2>1. /\ spc' = [spc EXCEPT ![s] = "closed"] /\ misled' = misled \union {home[s]}
        /\ UNCHANGED <<home, made, handle, accepted, walk, sent, to_purge>>
    BY <1>2 DEF BeginClose, connVars
  <2>2. spc'[s] = "closed" /\ \A t \in Session : t # s => spc'[t] = spc[t]
    BY <2>1 DEF SessionInv, SessionTypes
  <2>3. SessionTypes'
    BY <1>1, <2>1 DEF SessionInv, SessionTypes, SessionPlaces, Entered
  <2>4. Homes'
    BY <1>1, <2>1, <2>2 DEF SessionInv, Homes, BeforeEntry, Entered
  <2>5. \A d \in Session : Hushed(d)' /\ Numbers(d)'
    BY <1>1, <2>1 DEF SessionInv, Hushed, Numbers, Listening
  <2>6. ASSUME NEW d \in Session \ misled'
        PROVE  OfDaemon(d)'
    <3>1. OfDaemon(d) /\ d # home[s] /\ (Listening(d)' <=> Listening(d))
      BY <1>1, <2>1, <2>6 DEF SessionInv, Listening
    <3>2. \A t \in Session : home[t] = d \/ home'[t] = d => spc'[t] = spc[t] /\ home'[t] = home[t]
      BY <2>1, <2>2, <3>1
    <3>3. QED
      BY <1>1, <2>1, <3>1, <3>2, Untouched
  <2>7. QED
    BY <2>3, <2>4, <2>5, <2>6 DEF SessionInv
<1>3. CASE Answers
  <2>1. /\ p \in Session /\ Listening(p) /\ spc' = [spc EXCEPT ![s] = "leaving"]
        /\ home' = [home EXCEPT ![s] = p] /\ MakeConn(p, c)
        /\ misled' = IF p = home[s] THEN misled ELSE misled \union {home[s], p}
    <3>1. p \in Session /\ Listening(p)
      BY <1>3 DEF Answers, SessionInv, SessionTypes
    <3>2. QED
      BY <1>3, <3>1 DEF BeginClose
  <2>2. c \in Conn /\ c.who = s /\ c.cmd = "logout"
    BY ConnTypes
  <2> HIDE DEF c, p
  <2>3. /\ spc'[s] = "leaving" /\ home'[s] = p /\ handle'[p][c] = made[p] + 1
        /\ \A e \in Conn : e # c => handle'[p][e] = handle[p][e]
        /\ \A t \in Session : t # s => spc'[t] = spc[t] /\ home'[t] = home[t]
        /\ \A d \in Session : d # p => handle'[d] = handle[d]
        /\ UNCHANGED <<accepted, walk, sent, to_purge>>
    BY <2>1, <2>2, NewNumber DEF SessionInv, SessionTypes
  <2>4. SessionTypes'
    <3>1. spc' \in [Session -> SessionPlaces] /\ home' \in [Session -> Session \union {None}]
      BY <2>1 DEF SessionInv, SessionTypes, SessionPlaces, Entered
    <3>2. QED
      BY <1>1, <2>1, <2>2, <2>3, <3>1, NewNumber DEF SessionInv, SessionTypes
  <2>5. Homes'
    BY <1>1, <2>1, <2>3 DEF SessionInv, Homes, BeforeEntry, Listening, BeforeListen
  <2>6. \A d \in Session : Hushed(d)'
    BY <1>1, <2>1, <2>3 DEF SessionInv, Hushed, Listening
  <2>7. \A d \in Session : Numbers(d)'
    BY <2>1, <2>2, NewNumber
  <2>8. ASSUME NEW d \in Session \ misled'
        PROVE  OfDaemon(d)'
    <3>1. OfDaemon(d) /\ (Listening(d)' <=> Listening(d)) /\ (d = p <=> d = home[s])
      BY <1>1, <2>1, <2>8 DEF SessionInv, Listening
    <3>2. CASE d # p
      BY <1>1, <2>1, <2>3, <3>1, <3>2, Untouched
    <3>3. CASE d = p
      <4>1. home' = home
        BY <2>1, <3>1, <3>3 DEF SessionInv, SessionTypes
      <4>2. handle[d][c] = 0 /\ c \notin sent[d] /\ c \notin to_purge[d]
        <5>1. ~Spoken(c)
          BY <1>1, <2>2 DEF Spoken
        <5>2. QED
          BY <2>2, <3>1, <5>1 DEF OfDaemon, ConnsOf
      <4>3. /\ Spoken(c)'
            /\ \A e \in Conn : /\ Spoken(e) => Spoken(e)'
                               /\ Written(e) => Written(e)'
                               /\ HungUp(e) => HungUp(e)'
        BY <1>1, <2>2, <2>3, ConnTypes DEF Spoken, Written, HungUp, Entered
      <4>4. ConnsOf(d)'
        <5>1. ASSUME NEW e \in Conn
              PROVE  /\ handle'[d][e] # 0 => home'[e.who] = d /\ Spoken(e)'
                     /\ e \in sent'[d] => handle'[d][e] # 0 /\ e \notin to_purge'[d] /\ Written(e)'
                     /\ e \in to_purge'[d] => handle'[d][e] # 0 /\ HungUp(e)'
          <6>1. CASE e = c
            BY <2>2, <2>3, <3>1, <3>3, <4>1, <4>2, <4>3, <6>1
          <6>2. CASE e # c
            BY <2>3, <3>1, <3>3, <4>1, <4>3, <6>2 DEF OfDaemon, ConnsOf
          <6>3. QED
            BY <6>1, <6>2
        <5>2. QED
          BY <5>1 DEF ConnsOf
      <4>5. made[d] \in Nat /\ accepted[d] \in Nat /\ handle[d] \in [Conn -> Nat] /\ Numbers(d)
        BY DEF SessionInv, SessionTypes
      <4>6. TalksTo(d)'
        <5>1. ASSUME NEW t \in Session, home'[t] = d, Listening(d)'
              PROVE  /\ spc'[t] = "write" => handle'[d][Con(t, "inc")] # 0
                     /\ spc'[t] = "leaving" => handle'[d][Con(t, "logout")] # 0
          <6>1. CASE t = s
            BY <2>3, <3>3, <4>5, <6>1 DEF c
          <6>2. CASE t # s
            <7>1. /\ Con(t, "inc") \in Conn /\ Con(t, "inc") # c
                  /\ Con(t, "logout") \in Conn /\ Con(t, "logout") # c
              BY <6>2, ConnTypes DEF c
            <7>2. QED
              BY <2>3, <3>1, <3>3, <4>1, <5>1, <6>2, <7>1 DEF OfDaemon, TalksTo
          <6>3. QED
            BY <6>1, <6>2
        <5>2. QED
          BY <5>1 DEF TalksTo
      <4>7. InOrder(d)'
        <5>1. ASSUME NEW t \in Session, Con(t, "inc") \in sent'[d]
              PROVE  /\ spc'[t] = "closed" => Con(t, "logout") \in sent'[d]
                     /\ handle'[d][Con(t, "logout")] # 0 =>
                          /\ handle'[d][Con(t, "inc")] < handle'[d][Con(t, "logout")]
                          /\ handle'[d][Con(t, "logout")] <= accepted'[d]
                               => walk'[d] <= handle'[d][Con(t, "inc")]
          <6>1. Con(t, "inc") \in Conn /\ Con(t, "inc") # c /\ Con(t, "logout") \in Conn
            BY ConnTypes DEF c
          <6>2. CASE t = s
            <7>1. /\ handle'[d][Con(t, "inc")] <= made[d] /\ handle'[d][Con(t, "logout")] = made[d] + 1
                  /\ accepted'[d] <= made[d] /\ handle'[d][Con(t, "inc")] \in Nat
              BY <2>3, <3>3, <4>5, <6>1, <6>2 DEF Numbers, c
            <7>2. QED
              BY <2>3, <4>5, <6>2, <7>1
          <6>3. CASE t # s
            <7>1. Con(t, "logout") # c
              BY <6>3, ConnTypes DEF c
            <7>2. QED
              BY <2>3, <3>1, <3>3, <5>1, <6>1, <6>3, <7>1 DEF OfDaemon, InOrder
          <6>4. QED
            BY <6>2, <6>3
        <5>2. QED
          BY <5>1 DEF InOrder
      <4>8. Counted(d)' = Counted(d)
        <5>1. \A t \in Session : t \in Counted(d)' <=> t \in Counted(d)
          BY <1>1, <2>3, <4>1 DEF Counted
        <5>2. QED
          BY <5>1 DEF Counted
      <4>9. QED
        BY <1>1, <3>1, <4>4, <4>6, <4>7, <4>8 DEF OfDaemon, CountOf
    <3>4. QED
      BY <3>2, <3>3
  <2>9. QED
    BY <2>4, <2>5, <2>6, <2>7, <2>8 DEF SessionInv
<1>4. QED
  BY <1>2, <1>3

-----------------------------------------------------------------------------
\* A tick begins: the walk has everything before it.
LEMMA Accepts ==
  ASSUME SessionInv, NEW d \in Session, Accept(d)
  PROVE  SessionInv'
<1>1. /\ walk' = [walk EXCEPT ![d] = 1]
      /\ accepted' = [accepted EXCEPT ![d] = IF @ < made[d] THEN @ + 1 ELSE @]
      /\ UNCHANGED <<spc, home, path, dpc, made, handle, sent, to_purge, refs, misled>>
  BY DEF Accept, pathVars
<1>2. /\ walk'[d] = 1 /\ accepted'[d] = IF accepted[d] < made[d] THEN accepted[d] + 1 ELSE accepted[d]
      /\ \A e \in Session : e # d => walk'[e] = walk[e] /\ accepted'[e] = accepted[e]
  BY <1>1 DEF SessionInv, SessionTypes
<1>3. SessionTypes'
  BY <1>1 DEF SessionInv, SessionTypes
<1>4. Homes' /\ \A e \in Session : Hushed(e)'
  BY <1>1 DEF SessionInv, Homes, Hushed, Listening
<1>5. ASSUME NEW e \in Session
      PROVE  Numbers(e)'
  <2>1. Numbers(e) /\ accepted[e] \in Nat /\ made[e] \in Nat
    BY DEF SessionInv, SessionTypes
  <2>2. accepted'[e] <= made'[e]
    BY <1>1, <1>2, <2>1 DEF Numbers
  <2>3. QED
    BY <1>1, <2>1, <2>2 DEF Numbers
<1>6. ASSUME NEW e \in Session \ misled'
      PROVE  OfDaemon(e)'
  <2>1. OfDaemon(e) /\ (Listening(e)' <=> Listening(e))
    BY <1>1, <1>6 DEF SessionInv, Listening
  <2>2. CASE e # d
    BY <1>1, <1>2, <2>1, <2>2, Untouched
  <2>3. CASE e = d
    <3>1. ConnsOf(d)' /\ TalksTo(d)'
      BY <1>1, <2>1, <2>3 DEF OfDaemon, ConnsOf, TalksTo, Spoken, Written, HungUp, Listening
    <3>2. \A s \in Session : Con(s, "inc") \in sent[d] => 1 <= handle[d][Con(s, "inc")]
      BY <2>1, <2>3, ConnTypes DEF OfDaemon, ConnsOf, SessionInv, SessionTypes
    <3>3. InOrder(d)'
      BY <1>1, <1>2, <2>1, <2>3, <3>2 DEF OfDaemon, InOrder
    <3>4. CountOf(d)'
      BY <1>1, <2>1, <2>3 DEF OfDaemon, CountOf, Counted, Listening
    <3>5. QED
      BY <2>3, <3>1, <3>3, <3>4 DEF OfDaemon
  <2>4. QED
    BY <2>2, <2>3
<1>7. QED
  BY <1>3, <1>4, <1>5, <1>6 DEF SessionInv

\* The command of a connection is executed, or the connection is found closed.
LEMMA Reads ==
  ASSUME SessionInv, SessionAssumption, NEW d \in Session, Recv(d)
  PROVE  SessionInv'
<1>1. dpc[d] = "up" /\ walk[d] # 0 /\ Listening(d)
  BY DEF Recv, Listening
<1>2. UNCHANGED <<spc, home, path, dpc, made, handle, accepted, misled>>
  BY DEF Recv, pathVars
<1>3. PICK c \in Conn :
        /\ IsNext(d, c) /\ walk' = [walk EXCEPT ![d] = handle[d][c] + 1]
        /\ \/ c \in sent[d] /\ Reference(d, c.cmd) /\ sent' = [sent EXCEPT ![d] = @ \ {c}] /\ UNCHANGED to_purge
           \/ /\ c \notin sent[d] /\ UNCHANGED <<sent, refs>>
              /\ to_purge' = IF ClientClosed(c) THEN [to_purge EXCEPT ![d] = @ \union {c}] ELSE to_purge
  BY DEF Recv
<1>4. /\ handle[d] \in [Conn -> Nat] /\ accepted[d] \in Nat /\ walk[d] \in Nat
      /\ refs[d] \in Int /\ Numbers(d)
  BY DEF SessionInv, SessionTypes
<1>5. /\ handle[d][c] # 0 /\ walk'[d] = handle[d][c] + 1
      /\ \A e \in Conn : e # c /\ walk[d] <= handle[d][e] /\ handle[d][e] <= accepted[d]
                           => handle[d][c] < handle[d][e]
  <2>1. walk[d] <= handle[d][c] /\ handle[d][c] <= accepted[d]
    BY <1>3, <1>4 DEF IsNext, IsAhead
  <2>2. ASSUME NEW e \in Conn, e # c, walk[d] <= handle[d][e], handle[d][e] <= accepted[d]
        PROVE  handle[d][c] < handle[d][e]
    <3>1. handle[d][c] <= handle[d][e]
      BY <1>3, <1>4, <2>2 DEF IsNext, IsAhead
    <3>2. handle[d][c] # 0
      BY <1>1, <1>4, <2>1
    <3>3. handle[d][c] # handle[d][e]
      BY <1>4, <2>2, <3>2 DEF Numbers
    <3>4. QED
      BY <1>4, <3>1, <3>3
  <2>3. walk'[d] = handle[d][c] + 1
    BY <1>3 DEF SessionInv, SessionTypes
  <2>4. QED
    BY <1>1, <1>4, <2>1, <2>2, <2>3
<1>6. /\ sent'[d] = sent[d] \ {c}
      /\ c \in sent[d] => /\ to_purge'[d] = to_purge[d]
                          /\ refs'[d] = IF c.cmd = "inc" THEN refs[d] + 1 ELSE refs[d] - 1
      /\ c \notin sent[d] => /\ to_purge'[d] \subseteq to_purge[d] \union {c}
                             /\ c \notin to_purge[d] /\ c \in to_purge'[d] => ClientClosed(c)
                             /\ refs'[d] = refs[d]
      /\ \A e \in Session : e # d => /\ walk'[e] = walk[e] /\ sent'[e] = sent[e]
                                     /\ to_purge'[e] = to_purge[e] /\ refs'[e] = refs[e]
  BY <1>3 DEF SessionInv, SessionTypes, Reference
<1>7. SessionTypes'
  <2>1. walk' \in [Session -> Nat]
    BY <1>3, <1>4 DEF SessionInv, SessionTypes
  <2>2. refs' \in [Session -> Int]
    BY <1>3 DEF SessionInv, SessionTypes, Reference
  <2>3. sent' \in [Session -> SUBSET Conn]
    <3>1. sent' = sent \/ sent' = [sent EXCEPT ![d] = @ \ {c}]
      BY <1>3
    <3>2. QED
      BY <3>1 DEF SessionInv, SessionTypes
  <2>4. to_purge' \in [Session -> SUBSET Conn]
    <3>1. to_purge' = to_purge \/ to_purge' = [to_purge EXCEPT ![d] = @ \union {c}]
      BY <1>3
    <3>2. QED
      BY <3>1 DEF SessionInv, SessionTypes
  <2>5. QED
    BY <1>2, <2>1, <2>2, <2>3, <2>4 DEF SessionInv, SessionTypes
<1>8. Homes' /\ \A e \in Session : Numbers(e)'
  BY <1>2 DEF SessionInv, Homes, Numbers
<1>9. ASSUME NEW e \in Session
      PROVE  Hushed(e)'
  <2>1. CASE e = d
    BY <1>1, <1>2, <2>1 DEF Hushed, Listening, BeforeListen
  <2>2. CASE e # d
    BY <1>2, <1>6, <2>2 DEF SessionInv, Hushed, Listening
  <2>3. QED
    BY <2>1, <2>2
<1>10. ASSUME NEW e \in Session \ misled'
       PROVE  OfDaemon(e)'
  <2>1. OfDaemon(e) /\ (Listening(e)' <=> Listening(e))
    BY <1>2, <1>10 DEF SessionInv, Listening
  <2>2. CASE e # d
    BY <1>2, <1>6, <2>1, <2>2, Untouched
  <2>3. CASE e = d
    <3>1. home[c.who] = d /\ Spoken(c) /\ (c \in sent[d] => Written(c) /\ c \notin to_purge[d])
      BY <1>5, <2>1, <2>3 DEF OfDaemon, ConnsOf
    <3>2. ClientClosed(c) => HungUp(c)
      BY <3>1, ConnTypes DEF ClientClosed, Spoken, HungUp, Entered
    <3>3. \A f \in Conn : /\ Spoken(f)' <=> Spoken(f)
                          /\ Written(f)' <=> Written(f)
                          /\ HungUp(f)' <=> HungUp(f)
      BY <1>2 DEF Spoken, Written, HungUp
    <3>4. \A f \in Conn : f \in to_purge'[d] => f \in to_purge[d] \/ (f = c /\ c \notin sent[d] /\ ClientClosed(c))
      BY <1>6
    <3>5. ConnsOf(d)'
      BY <1>2, <1>5, <1>6, <2>1, <2>3, <3>2, <3>3, <3>4 DEF OfDaemon, ConnsOf
    <3>6. TalksTo(d)'
      BY <1>2, <2>1, <2>3 DEF OfDaemon, TalksTo
    \* No logout is read before its inc.
    <3>7. c = Con(c.who, "logout") => Con(c.who, "inc") \notin sent[d]
      <4>1. SUFFICES ASSUME c = Con(c.who, "logout"), Con(c.who, "inc") \in sent[d]
                     PROVE  FALSE
        OBVIOUS
      <4>2. c.who \in Session /\ Con(c.who, "inc") \in Conn /\ Con(c.who, "inc") # c
        BY <4>1, ConnTypes
      <4>3. handle[d][c] <= accepted[d]
        BY <1>3, <1>4 DEF IsNext, IsAhead
      <4>4. handle[d][Con(c.who, "inc")] < handle[d][c] /\ walk[d] <= handle[d][Con(c.who, "inc")]
        BY <1>5, <2>1, <2>3, <4>1, <4>2, <4>3 DEF OfDaemon, InOrder
      <4>5. handle[d][c] < handle[d][Con(c.who, "inc")]
        BY <1>4, <1>5, <4>2, <4>3, <4>4
      <4>6. QED
        BY <1>4, <4>2, <4>4, <4>5
    <3>8. InOrder(d)'
      <4>1. ASSUME NEW t \in Session, Con(t, "inc") \in sent'[d]
            PROVE  /\ spc'[t] = "closed" => Con(t, "logout") \in sent'[d]
                   /\ handle'[d][Con(t, "logout")] # 0 =>
                        /\ handle'[d][Con(t, "inc")] < handle'[d][Con(t, "logout")]
                        /\ handle'[d][Con(t, "logout")] <= accepted'[d]
                             => walk'[d] <= handle'[d][Con(t, "inc")]
        <5>1. /\ Con(t, "inc") \in Conn /\ Con(t, "inc") # c /\ Con(t, "inc") \in sent[d]
              /\ Con(t, "logout") \in Conn /\ Con(t, "logout") # c
          BY <1>6, <3>7, <4>1, ConnTypes
        <5>2. spc'[t] = "closed" => Con(t, "logout") \in sent'[d]
          BY <1>2, <1>6, <2>1, <2>3, <5>1 DEF OfDaemon, InOrder
        <5>3. ASSUME handle[d][Con(t, "logout")] # 0
              PROVE  /\ handle[d][Con(t, "inc")] < handle[d][Con(t, "logout")]
                     /\ handle[d][Con(t, "logout")] <= accepted[d] => walk'[d] <= handle[d][Con(t, "inc")]
          <6>1. /\ handle[d][Con(t, "inc")] < handle[d][Con(t, "logout")]
                /\ handle[d][Con(t, "logout")] <= accepted[d] => walk[d] <= handle[d][Con(t, "inc")]
            BY <2>1, <2>3, <5>1, <5>3 DEF OfDaemon, InOrder
          <6>2. QED
            BY <1>4, <1>5, <5>1, <6>1
        <5>4. QED
          BY <1>2, <5>2, <5>3
      <4>2. QED
        BY <4>1 DEF InOrder
    <3>9. refs[d] = Cardinality(Counted(d)) /\ Counted(d) \subseteq Session /\ IsFiniteSet(Counted(d))
      <4>1. Counted(d) \subseteq Session
        BY DEF Counted
      <4>2. IsFiniteSet(Counted(d))
        BY <4>1, FS_Subset DEF SessionAssumption
      <4>3. QED
        BY <1>1, <2>1, <2>3, <4>1, <4>2 DEF OfDaemon, CountOf
    <3>10. c.who \in Session /\ c = Con(c.who, c.cmd) /\ c.cmd \in {"inc", "logout"}
      BY ConnTypes
    <3>11. \A t \in Session : t # c.who => (t \in Counted(d)' <=> t \in Counted(d))
      <4>1. ASSUME NEW t \in Session, t # c.who
            PROVE  t \in Counted(d)' <=> t \in Counted(d)
        <5>1. Con(t, "inc") # c /\ Con(t, "logout") # c
          BY <4>1, ConnTypes
        <5>2. QED
          BY <1>2, <1>6, <5>1 DEF Counted
      <4>2. QED
        BY <4>1
    <3>12. refs'[d] = Cardinality(Counted(d)')
      <4>1. CASE c \notin sent[d]
        <5>1. sent'[d] = sent[d] /\ refs'[d] = refs[d]
          BY <1>6, <4>1
        <5>2. Counted(d)' = Counted(d)
          BY <1>2, <5>1 DEF Counted
        <5>3. QED
          BY <3>9, <5>1, <5>2
      <4>2. CASE c \in sent[d] /\ c.cmd = "inc"
        <5>1. c.who \notin Counted(d)
          BY <3>10, <4>2 DEF Counted
        <5>2. c.who \in Counted(d)'
          <6>1. spc[c.who] \in {"wait", "in", "leaving"} \/ Con(c.who, "logout") \in sent[d]
            BY <2>1, <2>3, <3>1, <3>10, <4>2 DEF OfDaemon, InOrder, Written, Entered
          <6>2. Con(c.who, "logout") # c
            BY <3>10, <4>2, ConnTypes
          <6>3. QED
            BY <1>2, <1>6, <3>1, <3>10, <4>2, <6>1, <6>2 DEF Counted
        <5>3. Counted(d)' = Counted(d) \union {c.who}
          <6>1. Counted(d)' \subseteq Session
            BY DEF Counted
          <6>2. QED
            BY <3>9, <3>11, <5>2, <6>1
        <5>4. Cardinality(Counted(d)') = Cardinality(Counted(d)) + 1
          BY <3>9, <5>1, <5>3, FS_AddElement
        <5>5. QED
          BY <1>6, <3>9, <4>2, <5>4
      <4>3. CASE c \in sent[d] /\ c.cmd # "inc"
        <5>1. c.cmd = "logout" /\ Con(c.who, "inc") \notin sent[d]
          BY <3>7, <3>10, <4>3
        <5>2. c.who \in Counted(d)
          BY <3>1, <3>10, <4>3, <5>1 DEF Counted
        <5>3. c.who \notin Counted(d)'
          <6>1. spc'[c.who] = "closed" /\ Con(c.who, "logout") \notin sent'[d]
            BY <1>2, <1>6, <3>1, <3>10, <4>3, <5>1 DEF Written
          <6>2. QED
            BY <6>1 DEF Counted
        <5>4. Counted(d)' = Counted(d) \ {c.who}
          <6>1. Counted(d)' \subseteq Session
            BY DEF Counted
          <6>2. QED
            BY <3>9, <3>11, <5>3, <6>1
        <5>5. Cardinality(Counted(d)') = Cardinality(Counted(d)) - 1
          BY <3>9, <5>2, <5>4, FS_RemoveElement
        <5>6. QED
          BY <1>6, <3>9, <4>3, <5>5
      <4>4. QED
        BY <4>1, <4>2, <4>3
    <3>13. QED
      BY <2>3, <3>5, <3>6, <3>8, <3>12 DEF OfDaemon, CountOf
  <2>4. QED
    BY <2>2, <2>3
<1>11. QED
  BY <1>7, <1>8, <1>9, <1>10 DEF SessionInv

\* The connections that were found closed are forgotten: nothing is left in their sockets.
LEMMA Forgets ==
  ASSUME SessionInv, NEW d \in Session, HandleDisconnects(d)
  PROVE  SessionInv'
<1>1. /\ dpc[d] = "up" /\ Listening(d) /\ walk' = [walk EXCEPT ![d] = 0]
      /\ handle' = [handle EXCEPT ![d] = [c \in Conn |-> IF c \in to_purge[d] THEN 0 ELSE @[c]]]
      /\ sent' = [sent EXCEPT ![d] = @ \ to_purge[d]] /\ to_purge' = [to_purge EXCEPT ![d] = {}]
      /\ UNCHANGED <<spc, home, path, dpc, made, accepted, refs, misled>>
  BY DEF HandleDisconnects, Listening, pathVars
<1>2. /\ walk'[d] = 0 /\ sent'[d] = sent[d] \ to_purge[d] /\ to_purge'[d] = {}
      /\ \A c \in Conn : handle'[d][c] = IF c \in to_purge[d] THEN 0 ELSE handle[d][c]
      /\ \A e \in Session : e # d => /\ walk'[e] = walk[e] /\ sent'[e] = sent[e]
                                     /\ to_purge'[e] = to_purge[e] /\ handle'[e] = handle[e]
  BY <1>1 DEF SessionInv, SessionTypes
<1>3. SessionTypes'
  BY <1>1 DEF SessionInv, SessionTypes
<1>4. Homes'
  BY <1>1 DEF SessionInv, Homes
<1>5. ASSUME NEW e \in Session
      PROVE  Hushed(e)' /\ Numbers(e)'
  <2>1. Hushed(e) /\ Numbers(e) /\ made[e] \in Nat
    BY DEF SessionInv, SessionTypes
  <2>2. CASE e # d
    BY <1>1, <1>2, <2>1, <2>2 DEF Hushed, Numbers, Listening
  <2>3. CASE e = d
    <3>1. Hushed(e)'
      BY <1>1, <2>3 DEF Hushed, Listening, BeforeListen
    <3>2. Numbers(e)'
      BY <1>1, <1>2, <2>1, <2>3 DEF Numbers
    <3>3. QED
      BY <3>1, <3>2
  <2>4. QED
    BY <2>2, <2>3
<1>6. ASSUME NEW e \in Session \ misled'
      PROVE  OfDaemon(e)'
  <2>1. OfDaemon(e) /\ (Listening(e)' <=> Listening(e))
    BY <1>1, <1>6 DEF SessionInv, Listening
  <2>2. CASE e # d
    BY <1>1, <1>2, <2>1, <2>2, Untouched
  <2>3. CASE e = d
    <3>1. sent'[d] = sent[d]
      <4>1. sent[d] \subseteq Conn
        BY DEF SessionInv, SessionTypes
      <4>2. QED
        BY <1>2, <2>1, <2>3, <4>1 DEF OfDaemon, ConnsOf
    <3>2. \A c \in Conn : /\ Spoken(c)' <=> Spoken(c)
                          /\ Written(c)' <=> Written(c)
                          /\ HungUp(c)' <=> HungUp(c)
      BY <1>1 DEF Spoken, Written, HungUp
    <3>3. ConnsOf(d)'
      BY <1>1, <1>2, <2>1, <2>3, <3>1, <3>2 DEF OfDaemon, ConnsOf
    <3>4. \A s \in Session :
            /\ spc[s] = "write" => Con(s, "inc") \in Conn /\ Con(s, "inc") \notin to_purge[d]
            /\ spc[s] = "leaving" => Con(s, "logout") \in Conn /\ Con(s, "logout") \notin to_purge[d]
      BY <2>1, <2>3, ConnTypes DEF OfDaemon, ConnsOf, HungUp
    <3>5. TalksTo(d)'
      BY <1>1, <1>2, <2>1, <2>3, <3>4 DEF OfDaemon, TalksTo
    <3>6. InOrder(d)'
      <4>1. ASSUME NEW t \in Session, Con(t, "inc") \in sent'[d]
            PROVE  /\ spc'[t] = "closed" => Con(t, "logout") \in sent'[d]
                   /\ handle'[d][Con(t, "logout")] # 0 =>
                        /\ handle'[d][Con(t, "inc")] < handle'[d][Con(t, "logout")]
                        /\ handle'[d][Con(t, "logout")] <= accepted'[d]
                             => walk'[d] <= handle'[d][Con(t, "inc")]
        <5>1. /\ Con(t, "inc") \in sent[d] /\ Con(t, "inc") \in Conn /\ Con(t, "logout") \in Conn
              /\ Con(t, "inc") \notin to_purge[d] /\ handle[d][Con(t, "inc")] \in Nat
          BY <1>2, <4>1, ConnTypes DEF SessionInv, SessionTypes
        <5>2. handle'[d][Con(t, "logout")] # 0 => handle'[d][Con(t, "logout")] = handle[d][Con(t, "logout")]
          BY <1>2, <5>1
        <5>3. handle'[d][Con(t, "inc")] = handle[d][Con(t, "inc")] /\ walk'[d] <= handle[d][Con(t, "inc")]
          BY <1>2, <5>1
        <5>4. QED
          BY <1>1, <2>1, <2>3, <3>1, <5>1, <5>2, <5>3 DEF OfDaemon, InOrder
      <4>2. QED
        BY <4>1 DEF InOrder
    <3>7. CountOf(d)'
      <4>1. Counted(d)' = Counted(d)
        BY <1>1, <3>1 DEF Counted
      <4>2. QED
        BY <1>1, <2>1, <2>3, <4>1 DEF OfDaemon, CountOf
    <3>8. QED
      BY <2>3, <3>3, <3>5, <3>6, <3>7 DEF OfDaemon
  <2>4. QED
    BY <2>2, <2>3
<1>7. QED
  BY <1>3, <1>4, <1>5, <1>6 DEF SessionInv

-----------------------------------------------------------------------------
\* At first nobody is there.
LEMMA NoSessionYet ==
  SessionAssumption /\ SessionInit => SessionInv
<1> SUFFICES ASSUME SessionAssumption, SessionInit
             PROVE  SessionInv
  OBVIOUS
<1>1. SessionTypes /\ Homes
  BY DEF SessionInit, SessionTypes, SessionPlaces, DaemonPlaces, BeforeEntry, BeforeListen, Homes,
         Entered, SessionAssumption
<1>2. ASSUME NEW d \in Session
      PROVE  /\ dpc[d] = "none" /\ ~Listening(d) /\ sent[d] = {} /\ to_purge[d] = {} /\ refs[d] = 0
             /\ accepted[d] = 0 /\ made[d] = 0 /\ \A c \in Conn : handle[d][c] = 0
             /\ \A s \in Session : home[s] # d
  BY DEF SessionInit, Listening, SessionAssumption
<1>3. \A d \in Session : Hushed(d) /\ Numbers(d)
  BY <1>2 DEF Hushed, Numbers
<1>4. \A d \in Session : OfDaemon(d)
  BY <1>2 DEF OfDaemon, ConnsOf, TalksTo, InOrder, CountOf
<1>5. QED
  BY <1>1, <1>3, <1>4 DEF SessionInv

\* Every step keeps the invariant.
LEMMA SessionsGoOn ==
  SessionAssumption /\ SessionInv /\ [SessionNext]_sessionVars => SessionInv'
<1> SUFFICES ASSUME SessionAssumption, SessionInv, [SessionNext]_sessionVars
             PROVE  SessionInv'
  OBVIOUS
<1>1. None \in Session \union {None} /\ path \in Session \union {None}
  BY DEF SessionInv, SessionTypes
<1>2. ASSUME NEW s \in Session, Connect(s)
      PROVE  SessionInv'
  <2>1. spc[s] \in BeforeEntry
    BY <1>2 DEF Connect, BeforeEntry
  <2>2. CASE Enter(s)
    BY <2>1, <2>2, Enters
  <2>3. CASE ~Enter(s)
    BY <1>1, <1>2, <2>1, <2>3, EarlyStep DEF Connect, BeforeEntry, pathVars
  <2>4. QED
    BY <2>2, <2>3
<1>3. ASSUME NEW s \in Session, BeginClose(s)
      PROVE  SessionInv'
  BY <1>3, BeginsToClose
<1>4. ASSUME NEW s \in Session, SessionStep(s)
      PROVE  SessionInv'
  <2>1. CASE RemovePath(s)
    BY <1>1, <2>1, EarlyStep DEF RemovePath, Move, Unlink, BeforeEntry
  <2>2. CASE Ask(s)
    BY <1>1, <2>2, EarlyStep DEF Ask, Move, BeforeEntry, pathVars
  <2>3. CASE Poll(s)
    BY <2>3, Enters DEF Poll, BeforeEntry
  <2>4. CASE WriteInc(s)
    BY <2>4, WritesInc
  <2>5. CASE Opened(s)
    BY <2>5, IsIn
  <2>6. CASE Closed(s)
    BY <2>6, WritesLogout
  <2>7. QED
    BY <1>4, <2>1, <2>2, <2>3, <2>4, <2>5, <2>6 DEF SessionStep
<1>5. ASSUME NEW d \in Session, DaemonStep(d)
      PROVE  SessionInv'
  <2>1. CASE Fork(d)
    <3>1. CASE dpc' = dpc
      BY <2>1, <3>1, NothingSaid DEF Fork, pathVars
    <3>2. CASE dpc' # dpc
      <4>1. PICK x \in {"init", "dead"} : dpc[d] = "none" /\ dpc' = [dpc EXCEPT ![d] = x]
        BY <2>1, <3>2 DEF Fork, Step
      <4>2. x \in DaemonPlaces /\ (x = "init" => x \in BeforeListen) /\ dpc[d] \in BeforeListen
        BY <4>1 DEF DaemonPlaces, BeforeListen, Gone
      <4>3. QED
        BY <1>1, <2>1, <4>1, <4>2, DaemonMoves DEF Fork, pathVars
    <3>3. QED
      BY <3>1, <3>2
  <2>2. CASE RemoveSocket(d)
    BY <1>1, <2>2, DaemonMoves DEF RemoveSocket, Step, Unlink, DaemonPlaces, BeforeListen
  <2>3. CASE Bind(d)
    <3>1. PICK x \in {"listen", "unbound"} : dpc[d] = "bind" /\ dpc' = [dpc EXCEPT ![d] = x]
      BY <2>3 DEF Bind, Step
    <3>2. path' \in Session \union {None}
      BY <1>1, <2>3 DEF Bind, pathVars
    <3>3. /\ x \in DaemonPlaces /\ dpc[d] \in BeforeListen
          /\ x \in BeforeListen \union {"chown", "unbound"}
      BY <3>1 DEF DaemonPlaces, BeforeListen, Gone
    <3>4. QED
      BY <2>3, <3>1, <3>2, <3>3, DaemonMoves DEF Bind
  <2>4. CASE Listen(d)
    BY <1>1, <2>4, DaemonMoves DEF Listen, Step, DaemonPlaces, BeforeListen, pathVars
  <2>5. CASE Chown(d)
    <3>1. CASE path = None /\ Exit(d, "chown", "aborting")
      BY <3>1, DaemonGoes DEF Exit, Step, Listening, pathVars
    <3>2. CASE ~(path = None /\ Exit(d, "chown", "aborting"))
      <4>1. UNCHANGED <<spc, home, path, connVars, refs, misled>>
        BY <2>5, <3>2 DEF Chown
      <4>2. CASE Step(d, "chown", "up")
        BY <1>1, <4>1, <4>2, DaemonMoves DEF Step, DaemonPlaces
      <4>3. CASE Step(d, "unbound", "dead")
        BY <1>1, <4>1, <4>3, DaemonMoves DEF Step, DaemonPlaces, Gone
      <4>4. QED
        BY <2>5, <3>2, <4>2, <4>3 DEF Chown
    <3>3. QED
      BY <3>1, <3>2
  <2>6. CASE Logout(d)
    BY <2>6, DaemonGoes DEF Logout, Exit, Step, Listening, pathVars
  <2>7. CASE DeleteSocket(d)
    <3>1. dpc[d] \in {"aborting", "closing"} /\ dpc' = [dpc EXCEPT ![d] = "dead"]
      BY <2>7 DEF DeleteSocket, Step
    <3>2. "dead" \in DaemonPlaces /\ path' \in Session \union {None}
      BY <1>1, <2>7 DEF DeleteSocket, Unlink, pathVars, DaemonPlaces, Gone
    <3>3. QED
      BY <2>7, <3>1, <3>2, DaemonMoves DEF DeleteSocket
  <2>8. QED
    BY <1>5, <2>1, <2>2, <2>3, <2>4, <2>5, <2>6, <2>7 DEF DaemonStep
<1>6. ASSUME NEW d \in Session, Tick(d)
      PROVE  SessionInv'
  BY <1>6, Accepts, Reads, Forgets DEF Tick
<1>7. ASSUME NEW d \in Session, OnTerm(d)
      PROVE  SessionInv'
  BY <1>7, NothingSaid DEF OnTerm, pathVars
<1>8. ASSUME NEW d \in Session, Killed(d)
      PROVE  SessionInv'
  BY <1>8, DaemonGoes DEF Killed, Step, Listening, pathVars
<1>9. CASE UNCHANGED sessionVars
  BY <1>9, NothingSaid DEF sessionVars, pathVars
<1>10. QED
  BY <1>2, <1>3, <1>4, <1>5, <1>6, <1>7, <1>8, <1>9 DEF SessionNext

\* With nothing on its way a daemon counts those who are in.
LEMMA CountIsOfThoseIn ==
  SessionInv => RefsAgree
<1> SUFFICES ASSUME SessionInv, NEW d \in Session \ misled, dpc[d] = "up", sent[d] = {}
             PROVE  refs[d] = Cardinality(InAt(d))
  BY DEF RefsAgree, SessionInv, SessionTypes
<1>1. CountOf(d) /\ DOMAIN spc = Session
  BY DEF SessionInv, SessionTypes, OfDaemon
<1>2. Counted(d) = InAt(d)
  BY <1>1 DEF Counted, InAt
<1>3. QED
  BY <1>1, <1>2 DEF CountOf, Listening

\* A daemon that has read all that was sent to it has as many references as it has
\* sessions, unless one of them was closed while another answered, or nobody
\* (PxDaemon.cpp, Reference; pxpam.cpp): for any number of sessions and of failures.
THEOREM SessionsAreCounted ==
  ASSUME SessionAssumption
  PROVE  SessionSpec => []RefsAgree
<1>1. SessionInit => SessionInv
  BY NoSessionYet
<1>2. SessionInv /\ [SessionNext]_sessionVars => SessionInv'
  BY SessionsGoOn
<1>3. SessionInv => RefsAgree
  BY CountIsOfThoseIn
<1>4. QED
  BY <1>1, <1>2, <1>3, PTL DEF SessionSpec

(***************************************************************************)
(* pxctl enable and pxctl disable.                                         *)
(*                                                                         *)
(* Which files there are depends on which places could be written.  A      *)
(* service is disabled for a target at the last place only and enabled at  *)
(* the first that can be written only (OnePlace); the loops over the       *)
(* Target lines and over the places leave behind them what they were for   *)
(* (LinesDone, PlacesDone), and what was said stays so (SaidSo).           *)
(***************************************************************************)

\* A place where pxctl looks later is one where the daemon looks.
WritesWhereItSearches == \A i \in DOMAIN WriteLocs : WriteLocs[i] \in SearchLocs

\* Packages disable services, at the last of the places (/usr/lib), and enable none.
PackagesDisable ==
  \A package \in Installed : \A f \in package :
    f[2] = "service-disable" /\ f[1] = WriteLocs[Len(WriteLocs)]

\* Where pxctl is in the loop over the places.
InLoop == {"create", "remove", "undisable"}

\* Types, and that the line and the place in hand exist.
EnableTypes ==
  /\ files \subseteq File
  /\ cmd \in {"enable", "disable"} /\ svc \in Services
  /\ epc \in {"idle", "target"} \union InLoop
  /\ line \in Nat \ {0} /\ loc \in Nat \ {0}
  /\ verdict \in [Services -> {"none", "enabled", "disabled", "failed", "aborted"}]
  /\ epc = "target" => line <= Len(TargetOf[svc]) + 1
  /\ epc \in InLoop => line <= Len(TargetOf[svc])
  /\ epc \in {"create", "undisable"} => cmd = "enable"
  /\ epc = "remove" => cmd = "disable"
  /\ epc \in InLoop => loc <= Len(WriteLocs) + 1

\* The place where pxctl enables.
FirstWritable(p) ==
  \E i \in 1..Len(WriteLocs) :
    /\ WriteLocs[i] = p /\ p \in writable
    /\ \A j \in 1..(i - 1) : WriteLocs[j] \notin writable

\* A service is disabled for a target in one place at most, and enabled in one.
OnePlace ==
  \A p \in Locs, t \in TargetNames, s \in Services :
    /\ <<p, "service-disable", t, s>> \in files => p = WriteLocs[Len(WriteLocs)]
    /\ <<p, "service-enable", t, s>> \in files => FirstWritable(p)

\* The marks of a service for a target, wherever they are.
HasMark(kind, t, s) == \E p \in Locs : <<p, kind, t, s>> \in files
On(t, s)  == HasMark("service-enable", t, s) /\ ~HasMark("service-disable", t, s)
Off(t, s) == ~HasMark("service-enable", t, s)

\* What the Target lines before the one in hand have come to.
LinesDone ==
  epc # "idle" =>
    \A i \in 1..(line - 1) :
      /\ cmd = "enable" => On(TargetOf[svc][i], svc)
      /\ cmd = "disable" => Off(TargetOf[svc][i], svc)

\* And the places before the one in hand.
PlacesDone ==
  /\ epc = "create" => \A j \in 1..(loc - 1) : WriteLocs[j] \notin writable
  /\ epc = "remove" =>
      \A j \in 1..(loc - 1) :
        \/ WriteLocs[j] \notin writable
        \/ <<WriteLocs[j], "service-enable", TargetOf[svc][line], svc>> \notin files
  /\ epc = "undisable" =>
      /\ HasMark("service-enable", TargetOf[svc][line], svc)
      /\ loc > Len(WriteLocs) /\ errno = "ENOENT" =>
          <<WriteLocs[Len(WriteLocs)], "service-disable", TargetOf[svc][line], svc>> \notin files

\* What pxctl says when it ends is so.
TrueOf(x, s) ==
  \A i \in DOMAIN TargetOf[s] :
    /\ x = "enabled" => On(TargetOf[s][i], s)
    /\ x = "disabled" => Off(TargetOf[s][i], s)

\* The same for every service that is not in hand.
SaidSo ==
  \A s \in Services :
    /\ Said(s, "enabled") => \A i \in DOMAIN TargetOf[s] : On(TargetOf[s][i], s)
    /\ Said(s, "disabled") => \A i \in DOMAIN TargetOf[s] : Off(TargetOf[s][i], s)

\* The invariant.
MarksInv == EnableTypes /\ OnePlace /\ LinesDone /\ PlacesDone /\ SaidSo

-----------------------------------------------------------------------------
\* The places and targets that are looked at exist.
LEMMA PlacesExist ==
  ASSUME EnableAssumption
  PROVE  /\ Len(WriteLocs) \in Nat \ {0} /\ DOMAIN WriteLocs = 1..Len(WriteLocs)
         /\ \A i \in 1..Len(WriteLocs) : WriteLocs[i] \in Locs
         /\ \A s \in Services :
              /\ Len(TargetOf[s]) \in Nat /\ DOMAIN TargetOf[s] = 1..Len(TargetOf[s])
              /\ \A i \in 1..Len(TargetOf[s]) : TargetOf[s][i] \in TargetNames
<1>1. WriteLocs \in Seq(Locs) /\ WriteLocs # <<>>
  BY DEF EnableAssumption
<1>2. \A s \in Services : TargetOf[s] \in Seq(TargetNames)
  BY DEF EnableAssumption
<1>3. Len(WriteLocs) # 0
  BY <1>1, EmptySeq
<1>4. QED
  BY <1>1, <1>2, <1>3

\* There is one first place that can be written.
LEMMA OneFirst ==
  ASSUME NEW p, NEW q, FirstWritable(p), FirstWritable(q), EnableAssumption
  PROVE  p = q
<1>1. PICK i \in 1..Len(WriteLocs) :
        WriteLocs[i] = p /\ p \in writable /\ \A j \in 1..(i - 1) : WriteLocs[j] \notin writable
  BY DEF FirstWritable
<1>2. PICK k \in 1..Len(WriteLocs) :
        WriteLocs[k] = q /\ q \in writable /\ \A j \in 1..(k - 1) : WriteLocs[j] \notin writable
  BY DEF FirstWritable
<1>3. i = k
  <2>1. i \in Nat /\ k \in Nat /\ i >= 1 /\ k >= 1
    BY PlacesExist
  <2>2. ~(i < k)
    BY <1>1, <1>2, <2>1
  <2>3. ~(k < i)
    BY <1>1, <1>2, <2>1
  <2>4. QED
    BY <2>1, <2>2, <2>3
<1>4. QED
  BY <1>1, <1>2, <1>3

\* What is said of a service that is not in hand stays so, as do the lines done,
\* when marks of the others and of the line in hand change.
LEMMA StaysSaid ==
  ASSUME SaidSo, NEW x, NEW v, v = svc, epc # "idle", EnableTypes, EnableAssumption,
         \/ UNCHANGED <<svc, verdict>> /\ epc' # "idle"
         \/ UNCHANGED svc /\ epc' = "idle" /\ verdict' = [verdict EXCEPT ![svc] = x],
         \A s \in Services \ {svc}, t \in TargetNames :
            (On(t, s) => On(t, s)') /\ (Off(t, s) => Off(t, s)'),
         epc' = "idle" => TrueOf(x, v)'
  PROVE  SaidSo'
<1>1. SUFFICES
        ASSUME NEW s \in Services
        PROVE  /\ Said(s, "enabled")' => \A i \in DOMAIN TargetOf[s] : On(TargetOf[s][i], s)'
               /\ Said(s, "disabled")' => \A i \in DOMAIN TargetOf[s] : Off(TargetOf[s][i], s)'
  BY DEF SaidSo
<1>2. svc \in Services
  BY DEF EnableTypes
<1>3. CASE s = svc
  <2>1. CASE epc' # "idle"
    BY <1>3, <2>1 DEF Said
  <2>2. CASE epc' = "idle"
    <3>1. verdict'[s] = x
      BY <1>2, <1>3, <2>2 DEF EnableTypes
    <3>2. QED
      BY <1>3, <2>2, <3>1 DEF Said, TrueOf
  <2>3. QED
    BY <2>1, <2>2
<1>4. CASE s # svc
  <2>1. verdict'[s] = verdict[s] /\ svc' = svc
    BY <1>2, <1>4 DEF EnableTypes
  <2>2. /\ Said(s, "enabled")' => Said(s, "enabled")
        /\ Said(s, "disabled")' => Said(s, "disabled")
    BY <1>4, <2>1 DEF Said
  <2>3. \A i \in DOMAIN TargetOf[s] : TargetOf[s][i] \in TargetNames
    BY PlacesExist
  <2>4. QED
    BY <1>4, <2>2, <2>3 DEF SaidSo
<1>5. QED
  BY <1>3, <1>4

\* A file is made or removed: what else there is.
LEMMA OtherMarks ==
  ASSUME NEW p, NEW kind, NEW u, NEW w,
         \/ files' = files \union {<<p, kind, u, w>>}
         \/ files' = files \ {<<p, kind, u, w>>}
  PROVE  \A k, t, s : <<k, t, s>> # <<kind, u, w>> => HasMark(k, t, s)' = HasMark(k, t, s)
<1>1. \A q, k, t, s : <<k, t, s>> # <<kind, u, w>> =>
         (<<q, k, t, s>> \in files' <=> <<q, k, t, s>> \in files)
  OBVIOUS
<1>2. QED
  BY <1>1, Zenon DEF HasMark

\* pxctl begins.
LEMMA BeginMarks ==
  ASSUME EnableAssumption, MarksInv, Begin
  PROVE  MarksInv'
<1>1. /\ epc = "idle" /\ epc' = "target" /\ line' = 1 /\ cmd' \in {"enable", "disable"}
      /\ svc' \in Services /\ UNCHANGED <<files, writable, loc, errno, verdict>>
  BY DEF Begin, fileVars
<1>2. EnableTypes'
  BY <1>1, PlacesExist DEF MarksInv, EnableTypes, InLoop
<1>3. OnePlace'
  BY <1>1 DEF MarksInv, OnePlace, FirstWritable
<1>4. LinesDone' /\ PlacesDone'
  BY <1>1 DEF LinesDone, PlacesDone
<1>5. SaidSo'
  <2>1. \A s : /\ Said(s, "enabled")' => Said(s, "enabled")
               /\ Said(s, "disabled")' => Said(s, "disabled")
    BY <1>1 DEF Said
  <2>2. QED
    BY <1>1, <2>1 DEF MarksInv, SaidSo, On, Off, HasMark
<1>6. QED
  BY <1>2, <1>3, <1>4, <1>5 DEF MarksInv

\* The next Target line, or the end.
LEMMA NextTargetMarks ==
  ASSUME EnableAssumption, MarksInv, NextTarget
  PROVE  MarksInv'
<1>1. /\ epc = "target" /\ UNCHANGED <<files, writable, cmd, svc, line, errno>>
      /\ svc \in Services /\ line \in Nat \ {0} /\ Len(TargetOf[svc]) \in Nat
  BY PlacesExist DEF NextTarget, fileVars, MarksInv, EnableTypes
<1>2. \A t, s : On(t, s)' = On(t, s) /\ Off(t, s)' = Off(t, s)
  BY <1>1 DEF On, Off, HasMark
<1>3. OnePlace'
  BY <1>1 DEF MarksInv, OnePlace, FirstWritable
<1>4. LinesDone'
  BY <1>1, <1>2 DEF MarksInv, LinesDone
<1>5. CASE /\ line <= Len(TargetOf[svc]) /\ loc' = 1 /\ UNCHANGED verdict
           /\ epc' = IF cmd = "enable" THEN "create" ELSE "remove"
  <2>1. EnableTypes'
    BY <1>1, <1>5, PlacesExist DEF MarksInv, EnableTypes, InLoop
  <2>2. PlacesDone'
    BY <1>5 DEF PlacesDone
  <2>3. SaidSo'
    BY <1>1, <1>2, <1>5, StaysSaid DEF MarksInv
  <2>4. QED
    BY <1>3, <1>4, <2>1, <2>2, <2>3 DEF MarksInv
<1>6. CASE /\ line > Len(TargetOf[svc]) /\ UNCHANGED loc
           /\ End(IF cmd = "enable" THEN "enabled" ELSE "disabled")
  <2>1. PICK x, v :
           /\ v = svc /\ x = IF cmd = "enable" THEN "enabled" ELSE "disabled"
           /\ epc' = "idle" /\ verdict' = [verdict EXCEPT ![svc] = x]
    BY <1>6 DEF End
  <2>2. EnableTypes'
    BY <1>1, <1>6, <2>1 DEF MarksInv, EnableTypes, InLoop
  <2>3. PlacesDone'
    BY <2>1 DEF PlacesDone
  <2>4. \A i \in DOMAIN TargetOf[svc] : i \in 1..(line - 1)
    BY <1>1, <1>6, PlacesExist
  <2>5. TrueOf(x, v)'
    BY <1>1, <1>2, <2>1, <2>4 DEF MarksInv, LinesDone, EnableTypes, TrueOf
  <2>6. SaidSo'
    <3>1. \A s \in Services \ {svc}, t \in TargetNames :
            (On(t, s) => On(t, s)') /\ (Off(t, s) => Off(t, s)')
      BY <1>2
    <3>2. svc' = svc /\ epc # "idle"
      BY <1>1
    <3>3. SaidSo /\ EnableTypes
      BY DEF MarksInv
    <3>4. QED
      BY <2>1, <2>5, <3>1, <3>2, <3>3, StaysSaid
  <2>7. QED
    BY <1>3, <1>4, <2>2, <2>3, <2>6 DEF MarksInv
<1>7. QED
  BY <1>5, <1>6 DEF NextTarget

\* A command that ends without success says so.
LEMMA FailureMarks ==
  ASSUME EnableAssumption, MarksInv, NEW x \in {"failed", "aborted"}, epc # "idle", End(x),
         UNCHANGED <<files, writable, cmd, svc, line, loc, errno>>
  PROVE  MarksInv'
<1>1. epc' = "idle" /\ verdict' = [verdict EXCEPT ![svc] = x]
  BY DEF End
<1>2. EnableTypes'
  BY <1>1 DEF MarksInv, EnableTypes, InLoop
<1>3. OnePlace' /\ LinesDone' /\ PlacesDone'
  BY <1>1 DEF MarksInv, OnePlace, FirstWritable, LinesDone, PlacesDone
<1>4. SaidSo'
  <2>1. \A t, s : On(t, s)' = On(t, s) /\ Off(t, s)' = Off(t, s)
    BY DEF On, Off, HasMark
  <2>2. TrueOf(x, svc)'
    BY DEF TrueOf
  <2>3. QED
    BY <1>1, <2>1, <2>2, StaysSaid DEF MarksInv
<1>5. QED
  BY <1>2, <1>3, <1>4 DEF MarksInv

\* The first place that can be written gets the mark.
LEMMA CreateMarks ==
  ASSUME EnableAssumption, MarksInv, Create
  PROVE  MarksInv'
<1>0. PICK u, v, q : u = TargetOf[svc][line] /\ v = svc /\ q = Place
  OBVIOUS
<1>1. /\ epc = "create" /\ cmd = "enable" /\ loc <= Len(WriteLocs)
      /\ UNCHANGED <<writable, cmd, svc, line, verdict>>
      /\ svc \in Services /\ line \in 1..Len(TargetOf[svc]) /\ u \in TargetNames
      /\ loc \in 1..Len(WriteLocs) /\ q \in Locs
  BY <1>0, PlacesExist DEF Create, AtPlace, MarksInv, EnableTypes, InLoop, Place
<1>2. CASE /\ Place \in writable /\ files' = files \union {Here("service-enable")}
           /\ epc' = "undisable" /\ loc' = 1 /\ UNCHANGED errno
  <2>1. files' = files \union {<<q, "service-enable", u, v>>}
    BY <1>0, <1>2 DEF Here
  <2>2. FirstWritable(q)
    BY <1>0, <1>1, <1>2 DEF FirstWritable, Place, MarksInv, PlacesDone
  <2>3. EnableTypes'
    BY <1>0, <1>1, <1>2, <2>1, PlacesExist DEF MarksInv, EnableTypes, InLoop, File, FileKind
  <2>4. OnePlace'
    <3>1. \A p : FirstWritable(p)' = FirstWritable(p)
      BY <1>1 DEF FirstWritable
    <3>2. QED
      BY <2>1, <2>2, <3>1 DEF MarksInv, OnePlace
  <2>5. \A k, t, s : HasMark(k, t, s) => HasMark(k, t, s)'
    BY <2>1 DEF HasMark
  <2>6. \A t, s : HasMark("service-disable", t, s)' = HasMark("service-disable", t, s)
    BY <2>1, OtherMarks
  <2>7. \A t, s : On(t, s) => On(t, s)'
    BY <2>5, <2>6, Zenon DEF On
  <2>8. \A s \in Services \ {svc}, t \in TargetNames : Off(t, s) => Off(t, s)'
    <3>1. \A t, s : s # v => HasMark("service-enable", t, s)' = HasMark("service-enable", t, s)
      BY <2>1, OtherMarks
    <3>2. QED
      BY <1>0, <3>1 DEF Off
  <2>9. HasMark("service-enable", u, v)'
    BY <1>1, <2>1 DEF HasMark
  <2>10. LinesDone'
    BY <1>1, <1>2, <2>7 DEF MarksInv, LinesDone
  <2>11. PlacesDone'
    BY <1>0, <1>1, <1>2, <2>9, PlacesExist DEF PlacesDone
  <2>12. SaidSo'
    BY <1>1, <1>2, <2>7, <2>8, StaysSaid DEF MarksInv
  <2>13. QED
    BY <2>3, <2>4, <2>10, <2>11, <2>12 DEF MarksInv
<1>3. CASE /\ Place \notin writable /\ errno' = "EROFS" /\ loc' = loc + 1
           /\ UNCHANGED <<files, epc>>
  <2>1. EnableTypes'
    BY <1>1, <1>3, PlacesExist DEF MarksInv, EnableTypes, InLoop
  <2>2. OnePlace' /\ LinesDone'
    BY <1>1, <1>3 DEF MarksInv, OnePlace, FirstWritable, LinesDone, On, Off, HasMark
  <2>3. PlacesDone'
    BY <1>1, <1>3, PlacesExist DEF MarksInv, PlacesDone, Place
  <2>4. \A t, s : On(t, s)' = On(t, s) /\ Off(t, s)' = Off(t, s)
    BY <1>3 DEF On, Off, HasMark
  <2>5. SaidSo'
    BY <1>1, <1>3, <2>4, StaysSaid DEF MarksInv
  <2>6. QED
    BY <2>1, <2>2, <2>3, <2>5 DEF MarksInv
<1>4. QED
  BY <1>2, <1>3 DEF Create

\* A line is done: the next one.
LEMMA LineDone ==
  ASSUME EnableAssumption, MarksInv, epc \in {"remove", "undisable"},
         NEW u, u = TargetOf[svc][line], NEW v, v = svc,
         epc' = "target", line' = line + 1, UNCHANGED <<cmd, svc, verdict>>,
         files' \subseteq files, UNCHANGED <<writable, loc>>,
         \A k, t, s : <<t, s>> # <<u, v>> => HasMark(k, t, s)' = HasMark(k, t, s),
         \A t \in TargetNames : Off(t, v) => Off(t, v)',
         \A t \in TargetNames : cmd = "enable" /\ On(t, v) => On(t, v)',
         cmd = "enable" => On(u, v)', cmd = "disable" => Off(u, v)'
  PROVE  MarksInv'
<1>1. /\ svc \in Services /\ line \in Nat \ {0} /\ line <= Len(TargetOf[svc])
      /\ Len(TargetOf[svc]) \in Nat
  BY PlacesExist DEF MarksInv, EnableTypes, InLoop
<1>2. EnableTypes'
  BY <1>1 DEF MarksInv, EnableTypes, InLoop
<1>3. OnePlace'
  <2>1. \A p : FirstWritable(p)' = FirstWritable(p)
    BY DEF FirstWritable
  <2>2. QED
    BY <2>1 DEF MarksInv, OnePlace
<1>4. LinesDone'
  <2>1. SUFFICES ASSUME NEW i \in 1..line
                 PROVE  /\ cmd = "enable" => On(TargetOf[v][i], v)'
                        /\ cmd = "disable" => Off(TargetOf[v][i], v)'
    BY <1>1 DEF LinesDone
  <2>2. TargetOf[v][i] \in TargetNames
    BY <1>1, <2>1, PlacesExist
  <2>3. CASE i = line
    <3>1. u = TargetOf[v][i]
      BY <2>3
    <3>2. QED
      BY <3>1, Zenon
  <2>4. CASE i # line
    <3>1. i \in 1..(line - 1)
      BY <1>1, <2>1, <2>4
    <3>2. QED
      BY <2>2, <3>1 DEF MarksInv, LinesDone
  <2>5. QED
    BY <2>3, <2>4
<1>5. PlacesDone'
  BY DEF PlacesDone
<1>6. \A s \in Services \ {svc}, t \in TargetNames :
        (On(t, s) => On(t, s)') /\ (Off(t, s) => Off(t, s)')
  BY Zenon DEF On, Off
<1>7. SaidSo'
  BY <1>6, StaysSaid DEF MarksInv
<1>8. QED
  BY <1>2, <1>3, <1>4, <1>5, <1>7 DEF MarksInv

\* No mark is at the place in hand that can be removed: the next place.
LEMMA NotHere ==
  ASSUME EnableAssumption, MarksInv, AtPlace, loc' = loc + 1,
         UNCHANGED <<files, writable, cmd, svc, epc, line, verdict>>,
         \/ epc = "remove" /\ (Here("service-enable") \notin files \/ Place \notin writable)
         \/ /\ epc = "undisable"
            /\ errno' = IF Here("service-disable") \in files THEN "EROFS" ELSE "ENOENT"
  PROVE  MarksInv'
<1>1. loc \in Nat \ {0} /\ loc <= Len(WriteLocs) /\ Len(WriteLocs) \in Nat
  BY PlacesExist DEF MarksInv, EnableTypes, AtPlace
<1>2. EnableTypes'
  BY <1>1 DEF MarksInv, EnableTypes, InLoop
<1>3. OnePlace' /\ LinesDone'
  BY DEF MarksInv, OnePlace, FirstWritable, LinesDone, On, Off, HasMark
<1>4. PlacesDone'
  <2>1. CASE epc = "remove"
    <3>1. \A j \in 1..(loc' - 1) : j \in 1..(loc - 1) \/ j = loc
      BY <1>1
    <3>2. QED
      BY <2>1, <3>1 DEF MarksInv, PlacesDone, Here, Place
  <2>2. CASE epc = "undisable"
    <3>1. loc' > Len(WriteLocs) => loc = Len(WriteLocs)
      BY <1>1
    <3>2. HasMark("service-enable", TargetOf[svc][line], svc)'
      BY <2>2 DEF MarksInv, PlacesDone, HasMark
    <3>3. QED
      BY <2>2, <3>1, <3>2 DEF PlacesDone, Here, Place
  <2>3. QED
    BY <2>1, <2>2
<1>5. SaidSo'
  <2>1. \A t, s : On(t, s)' = On(t, s) /\ Off(t, s)' = Off(t, s)
    BY DEF On, Off, HasMark
  <2>2. epc # "idle" /\ epc' # "idle"
    OBVIOUS
  <2>3. QED
    BY <2>1, <2>2, StaysSaid DEF MarksInv
<1>6. QED
  BY <1>2, <1>3, <1>4, <1>5 DEF MarksInv

\* pxctl disable takes the mark away from the one place where it can be.
LEMMA UnenableMarks ==
  ASSUME EnableAssumption, MarksInv, Unenable
  PROVE  MarksInv'
<1>0. PICK u, v, q, h :
        u = TargetOf[svc][line] /\ v = svc /\ q = Place /\ h = <<q, "service-enable", u, v>>
  OBVIOUS
<1>1. /\ epc = "remove" /\ cmd = "disable" /\ UNCHANGED <<writable, cmd, svc>>
      /\ svc \in Services /\ u \in TargetNames /\ Here("service-enable") = h
  BY <1>0, PlacesExist
  DEF Unenable, RemoveMark, Removed, fileVars, MarksInv, EnableTypes, InLoop, Here
<1>2. CASE AtPlace /\ h \in files /\ Place \in writable
  <2>0. /\ files' = files \ {<<q, "service-enable", u, v>>} /\ epc' = "target" /\ line' = line + 1
        /\ UNCHANGED <<errno, loc, verdict>>
    BY <1>0, <1>1, <1>2 DEF Unenable, RemoveMark, Removed
  <2>1. q \in Locs
    BY <1>0, <1>2, PlacesExist DEF AtPlace, Place, MarksInv, EnableTypes
  <2>2. \A k, t, s : <<k, t, s>> # <<"service-enable", u, v>> =>
                       HasMark(k, t, s)' = HasMark(k, t, s)
    BY <2>0, OtherMarks
  <2>3. Off(u, v)'
    <3>1. \A p \in Locs : <<p, "service-enable", u, v>> \in files => p = q
      BY <1>0, <1>1, <1>2, <2>1, OneFirst DEF MarksInv, OnePlace
    <3>2. QED
      BY <1>0, <2>0, <3>1 DEF Off, HasMark
  <2>4. \A t : Off(t, v) => Off(t, v)'
    BY <2>0 DEF Off, HasMark
  <2>5. \A k, t, s : <<t, s>> # <<u, v>> => HasMark(k, t, s)' = HasMark(k, t, s)
    BY <1>0, <2>2
  <2>6. QED
    BY <1>0, <1>1, <2>0, <2>3, <2>4, <2>5, LineDone
<1>3. CASE AtPlace /\ ~(h \in files /\ Place \in writable)
  <2>1. loc' = loc + 1 /\ UNCHANGED <<files, epc, line, verdict>>
    BY <1>0, <1>1, <1>3 DEF Unenable, RemoveMark, Removed
  <2>2. QED
    BY <1>0, <1>1, <1>3, <2>1, NotHere
<1>4. CASE ~AtPlace /\ errno # "ENOENT"
  <2>1. End("failed") /\ UNCHANGED <<files, line, loc, errno>>
    BY <1>0, <1>4 DEF Unenable, RemoveMark, Removed, fileVars
  <2>2. QED
    BY <1>0, <1>1, <2>1, FailureMarks
<1>5. CASE ~AtPlace /\ errno = "ENOENT"
  <2>1. epc' = "target" /\ line' = line + 1 /\ UNCHANGED <<files, loc, verdict>>
    BY <1>0, <1>5 DEF Unenable, RemoveMark, Removed, fileVars
  <2>2. Off(u, v)
    <3>1. SUFFICES ASSUME NEW p \in Locs, <<p, "service-enable", u, v>> \in files
                   PROVE  FALSE
      BY DEF Off, HasMark
    <3>2. PICK i \in 1..Len(WriteLocs) : WriteLocs[i] = p /\ p \in writable
      BY <1>0, <1>1, <3>1 DEF MarksInv, OnePlace, FirstWritable
    <3>3. i \in 1..(loc - 1)
      BY <1>0, <1>5, PlacesExist DEF AtPlace, MarksInv, EnableTypes
    <3>4. QED
      BY <1>0, <1>1, <3>1, <3>2, <3>3 DEF MarksInv, PlacesDone
  <2>3. \A k, t, s : HasMark(k, t, s)' = HasMark(k, t, s) /\ Off(t, s)' = Off(t, s)
    BY <1>0, <2>1 DEF HasMark, Off
  <2>4. QED
    BY <1>0, <1>1, <2>1, <2>2, <2>3, LineDone
<1>6. QED
  BY <1>0, <1>1, <1>2, <1>3, <1>4, <1>5

\* pxctl enable takes away the mark of the package, or fails.
LEMMA UndisableMarks ==
  ASSUME EnableAssumption, MarksInv, Undisable
  PROVE  MarksInv'
<1>0. PICK u, v, q, h :
        u = TargetOf[svc][line] /\ v = svc /\ q = Place /\ h = <<q, "service-disable", u, v>>
  OBVIOUS
<1>1. /\ epc = "undisable" /\ cmd = "enable" /\ UNCHANGED <<writable, cmd, svc>>
      /\ svc \in Services /\ u \in TargetNames /\ Here("service-disable") = h
  BY <1>0, PlacesExist
  DEF Undisable, RemoveMark, Removed, fileVars, MarksInv, EnableTypes, InLoop, Here
<1>2. HasMark("service-enable", u, v)
  BY <1>0, <1>1 DEF MarksInv, PlacesDone
<1>3. CASE AtPlace /\ h \in files /\ Place \in writable
  <2>1. /\ files' = files \ {h} /\ epc' = "target" /\ line' = line + 1
        /\ UNCHANGED <<errno, loc, verdict>>
    BY <1>0, <1>1, <1>3 DEF Undisable, RemoveMark, Removed
  <2>2. q \in Locs
    BY <1>0, <1>3, PlacesExist DEF AtPlace, Place, MarksInv, EnableTypes
  <2>3. \A k, t, s : <<k, t, s>> # <<"service-disable", u, v>> =>
                       HasMark(k, t, s)' = HasMark(k, t, s)
    <3>1. files' = files \ {<<q, "service-disable", u, v>>}
      BY <1>0, <2>1
    <3>2. QED
      BY <3>1, OtherMarks
  <2>4. ~HasMark("service-disable", u, v)'
    <3>1. \A p \in Locs : <<p, "service-disable", u, v>> \in files => p = q
      BY <1>0, <1>1, <1>3, <2>2 DEF MarksInv, OnePlace
    <3>2. QED
      BY <1>0, <2>1, <3>1 DEF HasMark
  <2>5. \A t : HasMark("service-enable", t, v)' = HasMark("service-enable", t, v)
    BY <1>0, <2>3
  <2>6. On(u, v)'
    BY <1>0, <1>2, <2>4, <2>5, Zenon DEF On
  <2>7. \A t : (Off(t, v) => Off(t, v)') /\ (On(t, v) => On(t, v)')
    <3>1. \A t : HasMark("service-disable", t, v)' => HasMark("service-disable", t, v)
      BY <1>0, <2>1 DEF HasMark
    <3>2. QED
      BY <1>0, <2>5, <3>1, Zenon DEF On, Off
  <2>8. \A k, t, s : <<t, s>> # <<u, v>> => HasMark(k, t, s)' = HasMark(k, t, s)
    BY <1>0, <2>3
  <2>9. QED
    BY <1>0, <1>1, <2>1, <2>6, <2>7, <2>8, LineDone
<1>4. CASE AtPlace /\ ~(h \in files /\ Place \in writable)
  <2>1. /\ loc' = loc + 1 /\ UNCHANGED <<files, epc, line, verdict>>
        /\ errno' = IF Here("service-disable") \in files THEN "EROFS" ELSE "ENOENT"
    BY <1>0, <1>1, <1>4 DEF Undisable, RemoveMark, Removed
  <2>2. QED
    BY <1>0, <1>1, <1>4, <2>1, NotHere
<1>5. CASE ~AtPlace /\ errno # "ENOENT"
  <2>1. End("failed") /\ UNCHANGED <<files, line, loc, errno>>
    BY <1>0, <1>5 DEF Undisable, RemoveMark, Removed, fileVars
  <2>2. QED
    BY <1>0, <1>1, <2>1, FailureMarks
<1>6. CASE ~AtPlace /\ errno = "ENOENT"
  <2>1. epc' = "target" /\ line' = line + 1 /\ UNCHANGED <<files, loc, verdict>>
    BY <1>0, <1>6 DEF Undisable, RemoveMark, Removed, fileVars
  <2>2. ~HasMark("service-disable", u, v)
    <3>1. <<WriteLocs[Len(WriteLocs)], "service-disable", u, v>> \notin files
      BY <1>0, <1>1, <1>6, PlacesExist DEF AtPlace, MarksInv, PlacesDone, EnableTypes
    <3>2. QED
      BY <1>0, <1>1, <3>1 DEF HasMark, MarksInv, OnePlace
  <2>3. \A k, t, s : HasMark(k, t, s)' = HasMark(k, t, s)
    BY <1>0, <2>1 DEF HasMark
  <2>4. \A t, s : Off(t, s)' = Off(t, s) /\ On(t, s)' = On(t, s)
    BY <1>0, <2>1 DEF HasMark, Off, On
  <2>5. On(u, v)'
    BY <1>0, <1>2, <2>2, <2>4, Zenon DEF On
  <2>6. QED
    BY <1>0, <1>1, <2>1, <2>3, <2>4, <2>5, LineDone
<1>7. QED
  BY <1>0, <1>1, <1>3, <1>4, <1>5, <1>6

\* At the beginning there are the marks of packages.
LEMMA PackagesMarks ==
  ASSUME EnableAssumption, PackagesDisable, EnableInit
  PROVE  MarksInv
<1>1. EnableTypes
  BY DEF EnableInit, EnableTypes, InLoop, EnableAssumption
<1>2. \A f \in files : f[2] = "service-disable" /\ f[1] = WriteLocs[Len(WriteLocs)]
  BY DEF EnableInit, PackagesDisable
<1>3. OnePlace
  <2>1. SUFFICES ASSUME NEW p \in Locs, NEW t \in TargetNames, NEW s \in Services
                 PROVE  /\ <<p, "service-disable", t, s>> \in files => p = WriteLocs[Len(WriteLocs)]
                        /\ <<p, "service-enable", t, s>> \notin files
    BY DEF OnePlace
  <2>2. /\ <<p, "service-disable", t, s>>[1] = p
        /\ <<p, "service-enable", t, s>>[2] = "service-enable"
    OBVIOUS
  <2>3. <<p, "service-disable", t, s>> \in files => p = WriteLocs[Len(WriteLocs)]
    BY <1>2, <2>2
  <2>4. <<p, "service-enable", t, s>> \notin files
    BY <1>2, <2>2
  <2>5. QED
    BY <2>3, <2>4
<1>4. LinesDone /\ PlacesDone /\ SaidSo
  BY DEF EnableInit, LinesDone, PlacesDone, SaidSo, Said
<1>5. QED
  BY <1>1, <1>3, <1>4 DEF MarksInv

\* Each step of pxctl keeps the invariant.
LEMMA MarksGoOn ==
  ASSUME EnableAssumption, MarksInv, [EnableNext]_enableVars
  PROVE  MarksInv'
<1>1. CASE Begin
  BY <1>1, BeginMarks
<1>2. CASE NextTarget
  BY <1>2, NextTargetMarks
<1>3. CASE Create
  BY <1>3, CreateMarks
<1>4. CASE CreateThrows
  BY <1>4, FailureMarks DEF CreateThrows, fileVars
<1>5. CASE NotCreated
  BY <1>5, FailureMarks DEF NotCreated, fileVars
<1>6. CASE Unenable
  BY <1>6, UnenableMarks
<1>7. CASE Undisable
  BY <1>7, UndisableMarks
<1>8. CASE UNCHANGED enableVars
  <2>1. UNCHANGED <<files, writable, cmd, svc, epc, line, loc, errno, verdict>>
    BY <1>8 DEF enableVars, fileVars
  <2>2. EnableTypes' /\ OnePlace' /\ LinesDone' /\ PlacesDone'
    BY <2>1
    DEF MarksInv, EnableTypes, OnePlace, FirstWritable, LinesDone, PlacesDone, On, Off, HasMark
  <2>3. SaidSo'
    BY <2>1 DEF MarksInv, SaidSo, Said, On, Off, HasMark
  <2>4. QED
    BY <2>2, <2>3 DEF MarksInv
<1>9. QED
  BY <1>1, <1>2, <1>3, <1>4, <1>5, <1>6, <1>7, <1>8 DEF EnableNext

\* What the daemon finds is what there is.
LEMMA TheDaemonAgrees ==
  ASSUME EnableAssumption, WritesWhereItSearches, MarksInv
  PROVE  SuccessMeansDone
<1>1. \A p : FirstWritable(p) => p \in SearchLocs
  BY PlacesExist DEF FirstWritable, WritesWhereItSearches
<1>2. \A k, t, s : Search(k, t, s) => HasMark(k, t, s)
  BY DEF Search, HasMark, EnableAssumption
<1>3. \A t \in TargetNames, s \in Services : HasMark("service-enable", t, s) => Enabled(t, s)
  BY <1>1 DEF HasMark, Enabled, Search, MarksInv, OnePlace
<1>4. DOMAIN verdict = Services
  BY DEF MarksInv, EnableTypes
<1>5. EnabledMeansEnabled
  <2>1. SUFFICES ASSUME NEW s \in Services, Said(s, "enabled"), NEW i \in DOMAIN TargetOf[s]
                 PROVE  Enabled(TargetOf[s][i], s) /\ ~Disabled(TargetOf[s][i], s)
    BY <1>4 DEF EnabledMeansEnabled, TargetsOf
  <2>2. On(TargetOf[s][i], s) /\ TargetOf[s][i] \in TargetNames
    BY <2>1, PlacesExist DEF MarksInv, SaidSo
  <2>3. QED
    BY <1>2, <1>3, <2>2 DEF On, Disabled
<1>6. DisabledMeansDisabled
  <2>1. SUFFICES ASSUME NEW s \in Services, Said(s, "disabled"), NEW i \in DOMAIN TargetOf[s]
                 PROVE  ~Enabled(TargetOf[s][i], s)
    BY <1>4 DEF DisabledMeansDisabled, TargetsOf
  <2>2. Off(TargetOf[s][i], s)
    BY <2>1 DEF MarksInv, SaidSo
  <2>3. QED
    BY <1>2, <2>2 DEF Off, Enabled
<1>7. QED
  BY <1>5, <1>6 DEF SuccessMeansDone

\* For any services, targets and places, whichever of the places can be written
\* and however often pxctl is run: when it says "Enabled service(s)
\* successfully." or "Disabled service(s) successfully." (PxControl.cpp,
\* CmdEnable and CmdDisable), the daemon finds it so for each target, as long as
\* packages only disable services, at the last of the places.
THEOREM PxctlMarks ==
  ASSUME EnableAssumption, WritesWhereItSearches, PackagesDisable
  PROVE  EnableSpec => []SuccessMeansDone
<1>1. EnableInit => MarksInv
  BY PackagesMarks
<1>2. MarksInv /\ [EnableNext]_enableVars => MarksInv'
  BY MarksGoOn
<1>3. MarksInv => SuccessMeansDone
  BY TheDaemonAgrees
<1>4. QED
  BY <1>1, <1>2, <1>3, PTL DEF EnableSpec
=============================================================================
