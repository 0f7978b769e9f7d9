--------------------------- MODULE PxConfigTable ----------------------------
(***************************************************************************)
(* What an editable configuration promises its user: a table that holds    *)
(* a list of values for every key.  A value can be replaced, and a new one *)
(* put at any place of the list of its key; nothing else changes, neither  *)
(* by an edit nor by writing the file and reading it back.                 *)
(***************************************************************************)
EXTENDS Naturals, Sequences
LOCAL INSTANCE SequencesExt
CONSTANTS Keys, NewValues
VARIABLES
    values, \* the list of every key
    edit    \* what was last asked for

Replace(key, n, v) ==
    /\ n < Len(values[key])
    /\ edit' = <<"replace", key, n, v>>
    /\ values' = [values EXCEPT ![key][n + 1] = v]

Add(key, n, v) ==
    /\ n <= Len(values[key])
    /\ edit' = <<"add", key, n, v>>
    /\ values' = [values EXCEPT ![key] = InsertAt(@, n + 1, v)]

Next ==
    \E key \in Keys, v \in NewValues :
        \E n \in 0..Len(values[key]) : Replace(key, n, v) \/ Add(key, n, v)

\* Any table may be the one the file holds.
Spec == [][Next]_<<values, edit>>
=============================================================================
