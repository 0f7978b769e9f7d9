--------------------------- MODULE PxSupervision ---------------------------
(***************************************************************************)
(* What a service manager promises, without lists of dependents, calls,    *)
(* targets or messages: a service is brought up once at a time, when all   *)
(* it requires is running; it is told to stop only when nothing that       *)
(* requires it is up; and it may go down by itself at any time.            *)
(***************************************************************************)
CONSTANTS Services, Requires

VARIABLES up,       \* services with a process
          running,  \* those that have finished starting and are to stay
          told      \* those that have been told to stop

vars == <<up, running, told>>

Init == up = {} /\ running = {} /\ told = {}

Bring(s) ==
  /\ s \notin up
  /\ Requires[s] \subseteq running
  /\ up' = up \union {s}
  /\ UNCHANGED <<running, told>>

Ready(s) ==
  /\ s \in up \ told
  /\ running' = running \union {s}
  /\ UNCHANGED <<up, told>>

\* From here on nothing new may lean on s.
Retire(s) ==
  /\ s \in running
  /\ running' = running \ {s}
  /\ UNCHANGED <<up, told>>

Tell(s) ==
  /\ s \in up \ (running \union told)
  /\ \A x \in up : s \notin Requires[x]
  /\ told' = told \union {s}
  /\ UNCHANGED <<up, running>>

Gone(s) ==
  /\ s \in up
  /\ up' = up \ {s}
  /\ running' = running \ {s}
  /\ told' = told \ {s}

Next == \E s \in Services :
          Bring(s) \/ Ready(s) \/ Retire(s) \/ Tell(s) \/ Gone(s)

Spec == Init /\ [][Next]_vars
=============================================================================
