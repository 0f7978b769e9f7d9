------------------------------ MODULE PxTarget ------------------------------
(***************************************************************************)
(* Targets say which services should run.  A target is a directory: its    *)
(* attribute/ entries, and the services linked in service-enable/ and      *)
(* service-disable/.  The manager keeps a CollectiveTarget, the sequence   *)
(* of the targets set so far; setting one with the attribute "base" drops  *)
(* the others.                                                             *)
(*                                                                         *)
(* Every operator takes the sequence tgts of the collective target: the    *)
(* state itself belongs to PxService.                                      *)
(***************************************************************************)
EXTENDS PxServiceHelpers, Sequences, Naturals

CONSTANTS Targets,         \* the names of the targets
          Base,            \* those with attribute base
          SystemShutdown,  \* those with attribute system-shutdown
          DaemonShutdown,  \* those with attribute daemon-shutdown
          Enable,          \* Enable[t]: the services t enables
          Disable          \* Disable[t]: the services t disables

ASSUME TargetAssumption ==
  /\ Base \subseteq Targets
  /\ SystemShutdown \subseteq Targets
  /\ DaemonShutdown \subseteq Targets
  /\ Enable \in [Targets -> SUBSET Services]
  /\ Disable \in [Targets -> SUBSET Services]

\* CollectiveTarget::AddTarget.
AddTarget(tgts, t) == IF t \in Base THEN <<t>> ELSE Append(tgts, t)

\* CollectiveTarget::HasAttribute, for an attribute given as the set of the
\* targets that have it.
HasAttribute(tgts, Attr) == \E i \in DOMAIN tgts : tgts[i] \in Attr

IsShutdown(tgts) == HasAttribute(tgts, SystemShutdown \union DaemonShutdown)

\* CollectiveTarget::Enabled and Disabled: the last target that mentions the
\* service has its way; one that both enables and disables it counts for
\* whichever is asked.
LastWord(tgts, s, Yes, No) ==
  \E i \in DOMAIN tgts :
    /\ s \in Yes[tgts[i]]
    /\ \A j \in DOMAIN tgts : j > i => s \notin No[tgts[j]]

Enabled(tgts, s)  == LastWord(tgts, s, Enable, Disable)
Disabled(tgts, s) == LastWord(tgts, s, Disable, Enable)

\* Service::targetIncludes, whose default is false for every caller.
TargetIncludes(tgts, s) == Enabled(tgts, s) /\ ~Disabled(tgts, s)

\* Target::List of one target: what it mentions and every service in memory.
Mentioned(t) == Enable[t] \union Disable[t]
\* (ListWithItself is faulty: the directory itself is taken for an entry.)
ListWithItself(t, loaded) == Mentioned(t) \union {t} \union loaded
List(t, loaded) == Mentioned(t) \union loaded

\* CollectiveTarget::List.
ListAll(tgts, loaded) == UNION {List(tgts[i], loaded) : i \in DOMAIN tgts}
=============================================================================
