------------------------------ MODULE PxTimers ------------------------------
(***************************************************************************)
(* The jobs of PxJob.hpp that wait for a time: Interval, Timer, RsInterval,*)
(* RsTimer and OscJob, in one JobServer, with a job that adds others while *)
(* the list is walked (as a ServerJob does from its callback).             *)
(*                                                                         *)
(* PxFunction::now() is an unsigned number of LongBits bits; the time of   *)
(* the last call is kept in an int of IntBits bits (but a time_t in        *)
(* OscJob), and their difference is taken with LongBits bits, unsigned.    *)
(***************************************************************************)
EXTENDS PxJob, Integers, FiniteSets

CONSTANTS
    First,        \* the sequence of jobs there are at the start
    Later,        \* the set of jobs that may be added
    Kind,         \* of each job
    dur,          \* of each job that waits
    Epoch, Span,  \* the time at the start, and how long is looked at
    IntBits, LongBits

Ids == ToSet(First) \cup Later

Kinds == {"Interval", "Timer", "RsInterval", "RsTimer", "OscJob", "ServerJob"}

(* What the constants are.                                                 *)
TimersAssumption ==
    /\ Kind \in [Ids -> Kinds] /\ dur \in [Ids -> Nat]
    /\ Epoch \in Nat /\ Span \in Nat /\ IntBits \in Nat \ {0} /\ LongBits \in Nat \ {0}

VARIABLES
    now,
    lastUpdate,
    since,        \* history: when the job was added or last called back
    fired,        \* history: how often it called back, up to 2
    todo,         \* history: the jobs this tick owes a run
    missed,       \* history: in how many ticks a job has had none
    erased        \* history: how many jobs have been erased

timerVars == <<lastUpdate, since, fired>>
allTimerVars == <<jobVars, now, timerVars, todo, missed, erased>>

Unsigned(n) == n % 2^LongBits
ToInt(n) == ((n + 2^(IntBits - 1)) % 2^IntBits) - 2^(IntBits - 1)

Stored(id, t) == IF Kind[id] = "OscJob" THEN t ELSE ToInt(t)

Elapsed(id) == Unsigned(now - lastUpdate[id])

Due(id) == IF Kind[id] = "OscJob" THEN Elapsed(id) >= dur[id] ELSE Elapsed(id) > dur[id]

TimersInit ==
    /\ JobInit(First)
    /\ now = Epoch
    /\ lastUpdate = [id \in Ids |-> Stored(id, Epoch)]
    /\ since = [id \in Ids |-> Epoch]
    /\ fired = [id \in Ids |-> 0]
    /\ todo = {} /\ missed = [id \in Ids |-> 0] /\ erased = 0

Waits(id) == Kind[id] # "ServerJob"

NotYet == AtJob /\ Waits(Current.id) /\ ~Due(Current.id) /\ RunJob("ok", <<>>) /\ UNCHANGED timerVars

CallBack(id) ==
    /\ fired' = [fired EXCEPT ![id] = IF @ < 2 THEN @ + 1 ELSE @]
    /\ since' = [since EXCEPT ![id] = now]

(* cb() of an Interval or RsInterval, an oscillation of the console        *)
Again ==
    /\ AtJob
    /\ LET id == Current.id IN
        /\ Kind[id] \in {"Interval", "RsInterval", "OscJob"} /\ Due(id)
        /\ lastUpdate' = [lastUpdate EXCEPT ![id] = Stored(id, now)]
        /\ CallBack(id)
        /\ \/ RunJob("ok", <<>>)
           \/ Kind[id] = "RsInterval" /\ RunJob("error", <<>>)

(* cb() of a Timer or RsTimer                                              *)
Once ==
    /\ AtJob
    /\ LET id == Current.id IN
        /\ Kind[id] \in {"Timer", "RsTimer"} /\ Due(id)
        /\ CallBack(id) /\ UNCHANGED lastUpdate
        /\ \/ RunJob("last", <<>>)
           \/ Kind[id] = "RsTimer" /\ RunJob("error", <<>>)

Present == {jobs[n].id : n \in DOMAIN jobs}
Serve ==
    /\ AtJob /\ ~Waits(Current.id)
    /\ \/ RunJob("ok", <<>>) /\ UNCHANGED <<lastUpdate, since>>
       \/ \E id \in Later \ Present :
            /\ fired[id] = 0
            /\ RunJob("ok", <<NewJob(id)>>)
            /\ lastUpdate' = [lastUpdate EXCEPT ![id] = Stored(id, now)]
            /\ since' = [since EXCEPT ![id] = now]
    /\ UNCHANGED fired

Unfinished == {jobs[n].id : n \in {m \in DOMAIN jobs : ~jobs[m].finished}}

JobStep ==
    \/ BeginTick /\ todo' = Unfinished /\ UNCHANGED <<timerVars, missed, erased>>
    \/ EraseFinished /\ erased' = erased + 1 /\ UNCHANGED <<timerVars, todo, missed>>
    \/ /\ NotYet \/ Again \/ Once \/ Serve
       /\ todo' = todo \ {Current.id} /\ UNCHANGED <<missed, erased>>
    \/ /\ EndTick
       /\ missed' = [id \in Ids |-> IF id \in todo THEN missed[id] + 1 ELSE missed[id]]
       /\ UNCHANGED <<timerVars, todo, erased>>

TimePasses == now < Epoch + Span /\ now' = now + 1 /\ UNCHANGED <<jobVars, timerVars, todo, missed, erased>>

TimersNext == (JobStep /\ UNCHANGED now) \/ TimePasses

TimersSpec == TimersInit /\ [][TimersNext]_allTimerVars
-----------------------------------------------------------------------------
(* Erasing a job costs at most one other job its turn, once: over all      *)
(* ticks no job misses more turns than jobs have been erased.              *)
TurnsMissed == \A id \in Ids : missed[id] <= erased
=============================================================================
