------------------------------ MODULE PxEnable ------------------------------
(***************************************************************************)
(* pxctl enable and pxctl disable (ensrv, CmdEnable and CmdDisable of      *)
(* src/src/PxControl/PxControl.cpp).  That a target wants a service is a   *)
(* file in one of the directories of the target, which class Target of     *)
(* src/include/PxTarget.hpp searches in order: here a file is a place, a   *)
(* kind, a target and a service.  One pxctl runs at a time, a system call  *)
(* after the other.  That a file stands where mkdirs wants a directory, in *)
(* which case err is read without a value, is left out.                    *)
(***************************************************************************)
EXTENDS Naturals, Sequences

CONSTANTS Services,
          TargetNames,
          TargetOf,    \* TargetOf[s]: the "Target" lines of s, in order
          Locs,        \* the search locations
          WriteLocs,   \* getSearchLocs(false), in order
          SearchLocs,  \* getSearchLocs(true)
          Installed,   \* what there may be at the start: sets of files
          MaxCommands  \* how often pxctl is run

FileKind == {"service-enable", "service-disable"}
File == Locs \X FileKind \X TargetNames \X Services

\* What the constants are.
EnableAssumption ==
  /\ TargetOf \in [Services -> Seq(TargetNames)]
  /\ WriteLocs \in Seq(Locs) /\ WriteLocs # <<>>
  /\ SearchLocs \subseteq Locs
  /\ Installed \subseteq SUBSET File
  /\ MaxCommands \in Nat

VARIABLES
  files,     \* the files of kind File that exist
  dirs,      \* the directories service-enable that exist, as <<place, target>>
  writable,  \* the places where files can be made and removed
  cmd, svc,  \* what pxctl is doing, to which service
  epc,       \* the loop of ensrv it is in
  line, loc, \* the Target line and the search location it is at
  errno,     \* of the last call that failed
  verdict,   \* what pxctl says when it ends, on each service
  commands

fileVars == <<files, dirs, writable>>
enableVars == <<fileVars, cmd, svc, epc, line, loc, errno, verdict, commands>>

Begin ==
  /\ epc = "idle"
  /\ commands < MaxCommands /\ commands' = commands + 1
  /\ cmd' \in {"enable", "disable"}
  /\ svc' \in Services
  /\ epc' = "target" /\ line' = 1
  /\ UNCHANGED <<fileVars, loc, errno, verdict>>

End(what) ==
  /\ epc' = "idle"
  /\ verdict' = [verdict EXCEPT ![svc] = what]

NextTarget ==
  /\ epc = "target"
  /\ \/ /\ line <= Len(TargetOf[svc])
        /\ epc' = IF cmd = "enable" THEN "create" ELSE "remove"
        /\ loc' = 1
        /\ UNCHANGED verdict
     \/ /\ line > Len(TargetOf[svc])
        /\ End(IF cmd = "enable" THEN "enabled" ELSE "disabled")
        /\ UNCHANGED loc
  /\ UNCHANGED <<fileVars, cmd, svc, line, errno, commands>>

Place == WriteLocs[loc]

AtPlace == loc <= Len(WriteLocs)
Here(kind) == <<Place, kind, TargetOf[svc][line], svc>>
Dir == <<Place, TargetOf[svc][line]>>

\* Fault: the loop is not left at the first success.
CreateEverywhere ==
  /\ epc = "create" /\ AtPlace
  /\ Dir \in dirs \/ Place \in writable
  /\ dirs' = dirs \union {Dir}
  /\ files' = IF Place \in writable THEN files \union {Here("service-enable")} ELSE files
  /\ \/ loc < Len(WriteLocs) /\ loc' = loc + 1 /\ UNCHANGED epc
     \/ loc = Len(WriteLocs) /\ loc' = 1 /\ epc' = "undisable"
  /\ UNCHANGED <<writable, cmd, svc, line, errno, verdict, commands>>

\* mkdirs and creat, up to the first place where they work.
Create ==
  /\ epc = "create" /\ AtPlace
  /\ Dir \in dirs \/ Place \in writable
  /\ dirs' = dirs \union {Dir}
  /\ \/ /\ Place \in writable
        /\ files' = files \union {Here("service-enable")}
        /\ epc' = "undisable" /\ loc' = 1
        /\ UNCHANGED errno
     \/ /\ Place \notin writable
        /\ errno' = "EROFS" /\ loc' = loc + 1
        /\ UNCHANGED <<files, epc>>
  /\ UNCHANGED <<writable, cmd, svc, line, verdict, commands>>

\* create_directory throws, and nobody catches it.
CreateThrows ==
  /\ epc = "create" /\ AtPlace
  /\ Dir \notin dirs /\ Place \notin writable
  /\ End("aborted")
  /\ UNCHANGED <<fileVars, cmd, svc, line, loc, errno, commands>>

NotCreated ==
  /\ epc = "create" /\ ~AtPlace
  /\ End("failed")
  /\ UNCHANGED <<fileVars, cmd, svc, line, loc, errno, commands>>

\* The loop that removes a kind of file, up to the first place where it works.
RemoveMark(kind) ==
  /\ AtPlace
  /\ \/ /\ Here(kind) \in files /\ Place \in writable
        /\ files' = files \ {Here(kind)}
        /\ epc' = "target" /\ line' = line + 1
        /\ UNCHANGED <<errno, loc>>
     \/ /\ Here(kind) \notin files \/ Place \notin writable
        /\ errno' = IF Here(kind) \in files THEN "EROFS" ELSE "ENOENT"
        /\ loc' = loc + 1
        /\ UNCHANGED <<files, epc, line>>
  /\ UNCHANGED <<dirs, writable, cmd, svc, verdict, commands>>

\* errno is that of the last place.
Removed ==
  /\ ~AtPlace
  /\ \/ errno # "ENOENT" /\ End("failed") /\ UNCHANGED line
     \/ errno = "ENOENT" /\ epc' = "target" /\ line' = line + 1 /\ UNCHANGED verdict
  /\ UNCHANGED <<fileVars, cmd, svc, loc, errno, commands>>

Unenable    == epc = "remove"    /\ (RemoveMark("service-enable") \/ Removed)
Undisable == epc = "undisable" /\ (RemoveMark("service-disable") \/ Removed)

EnableNext == Begin \/ NextTarget \/ Create \/ CreateThrows \/ NotCreated \/ Unenable \/ Undisable

EnableInit ==
  /\ epc = "idle" /\ line = 1 /\ loc = 1 /\ errno = "ENOENT"
  /\ cmd = "enable" /\ svc \in Services
  /\ files \in Installed
  /\ dirs \in SUBSET (Locs \X TargetNames)
  /\ \A f \in files : f[2] = "service-enable" => <<f[1], f[3]>> \in dirs
  /\ writable \in SUBSET Locs
  /\ verdict = [s \in Services |-> "none"]
  /\ commands = 0

EnableSpec == EnableInit /\ [][EnableNext]_enableVars

-----------------------------------------------------------------------------
\* Target::Enabled and Target::Disabled, as the daemon asks them.
Search(kind, t, s) == \E place \in SearchLocs : <<place, kind, t, s>> \in files
Enabled(t, s)  == Search("service-enable", t, s)
Disabled(t, s) == Search("service-disable", t, s)

TargetsOf(s) == {TargetOf[s][i] : i \in DOMAIN TargetOf[s]}
Said(s, what) == verdict[s] = what /\ ~(epc # "idle" /\ svc = s)

\* What pxctl says it has done is so, after any sequence of commands: a service
\* that it has enabled is enabled for all its targets and disabled for none; one
\* that it has disabled is enabled for none.
EnabledMeansEnabled ==
  \A s \in DOMAIN verdict : Said(s, "enabled") =>
    \A t \in TargetsOf(s) : Enabled(t, s) /\ ~Disabled(t, s)

DisabledMeansDisabled ==
  \A s \in DOMAIN verdict : Said(s, "disabled") => \A t \in TargetsOf(s) : ~Enabled(t, s)

SuccessMeansDone == EnabledMeansEnabled /\ DisabledMeansDisabled
=============================================================================
