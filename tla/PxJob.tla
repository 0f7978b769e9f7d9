------------------------------- MODULE PxJob --------------------------------
(***************************************************************************)
(* JobServer of PxJob.hpp: a list of jobs and tick(), which goes through   *)
(* it once.  place is the index of that walk, 0 between two ticks.  A      *)
(* module that has jobs says what the tick of each does and takes RunJob   *)
(* with the outcome: "ok", it goes on; "last", it has set finishing;       *)
(* "error", it returned one.  start() and finish() of the jobs there are   *)
(* never fail.                                                             *)
(***************************************************************************)
EXTENDS Naturals, SequencesExt

VARIABLES jobs, place

jobVars == <<jobs, place>>

NewJob(id) == [id |-> id, started |-> FALSE, finished |-> FALSE, failed |-> FALSE]

JobInit(ids) ==
    /\ jobs = [n \in 1..Len(ids) |-> NewJob(ids[n])]
    /\ place = 0

Onerror(j) == [j EXCEPT !.failed = TRUE, !.finished = TRUE]

After(j, outcome) ==
    LET ran == [j EXCEPT !.started = TRUE] IN
    CASE outcome = "ok"    -> ran
      [] outcome = "last"  -> [ran EXCEPT !.finished = TRUE]
      [] outcome = "error" -> Onerror(ran)

AtJob == place \in 1..Len(jobs)
Current == jobs[place]

BeginTick == place = 0 /\ place' = 1 /\ UNCHANGED jobs

(* The job that moves up into the place of the erased one is passed over.  *)
EraseFinished ==
    /\ AtJob /\ Current.finished
    /\ jobs' = RemoveAt(jobs, place)
    /\ place' = place + 1

(* Fault: the walk goes on behind as many jobs as were added.              *)
RunJobAndPass(outcome, added) ==
    /\ AtJob /\ ~Current.finished
    /\ jobs' = ReplaceAt(jobs, place, After(Current, outcome)) \o added
    /\ place' = place + 1 + Len(added)

(* The current job has run, with this outcome, and added these jobs        *)
RunJob(outcome, added) ==
    /\ AtJob /\ ~Current.finished
    /\ jobs' = ReplaceAt(jobs, place, After(Current, outcome)) \o added
    /\ place' = place + 1

EndTick == place > Len(jobs) /\ place' = 0 /\ UNCHANGED jobs
=============================================================================
