------------------------------- MODULE PxArg --------------------------------
(***************************************************************************)
(* The parser of command lines (PxArg.cpp), one argument at a time.  What  *)
(* is left to parse stands for the index n; an option is known by its two  *)
(* names and by whether it takes a value, and a value or a positional      *)
(* argument is what was put last.  No SelectArgument validates.            *)
(***************************************************************************)
EXTENDS Integers, Sequences, FiniteSets
LOCAL INSTANCE SequencesExt
CONSTANTS
    CommandLines,  \* the command lines, as sequences of strings of characters
    Options,       \* the unordered arguments: records [long, short, value]
    Required,      \* those of them that are not optional
    Positionals,   \* how many positional arguments are declared
    Mandatory      \* how many of these, the first ones, are not optional

\* What the constants are.
PositionalAssumption ==
    /\ Required \subseteq Options
    /\ Mandatory \in 0..Positionals /\ Positionals \in Nat

VARIABLE
    st  \* [rest, positionalMode, put, active, positionals, status]

Unparsed(args) == [
    rest |-> args,                        \* the arguments not looked at yet
    positionalMode |-> FALSE,             \* after "--"
    put |-> <<>>,                         \* the values of the positional arguments
    active |-> [o \in {} |-> <<>>],       \* the options seen, with their last value
    positionals |-> <<>>,                 \* what is left over
    status |-> "parsing"]                 \* then "parsed", "bad" or "missing"

Init == \E args \in CommandLines : st = Unparsed(args)

Activate(p, o, v) ==
    [p EXCEPT !.active = [x \in DOMAIN @ \union {o} |-> IF x = o THEN v ELSE @[x]]]
Bad(p) == [p EXCEPT !.status = "bad"]

\* An option whose value is the next argument, whatever that looks like.
TakesNext(p, o) ==
    IF p.rest = <<>> THEN Bad(p)
    ELSE [Activate(p, o, Head(p.rest)) EXCEPT !.rest = Tail(@)]

\* --name
Long(p, arg) ==
    LET named == {o \in Options : arg = <<"-", "-">> \o o.long}
    IN IF named = {} THEN Bad(p)
       ELSE LET o == CHOOSE o \in named : TRUE
            IN IF o.value THEN TakesNext(p, o) ELSE Activate(p, o, <<>>)

Short(c) == {o \in Options : o.short = c}

\* Fault: the rest of a cluster is parsed although it was the value.
ValueAt(p, o, arg, c) ==
    [p |-> IF c = Len(arg) THEN TakesNext(p, o) ELSE Activate(p, o, SubSeq(arg, c, Len(arg))),
     over |-> TRUE]

\* The value of an option of a cluster: what is left of the argument, or the
\* next one.
ValueOf(p, o, arg, c) ==
    [p |-> IF c = Len(arg) THEN TakesNext(p, o)
           ELSE Activate(p, o, SubSeq(arg, c + 1, Len(arg))),
     over |-> TRUE]

\* -abc: the letters in turn, until one takes a value or is unknown.
Cluster(p, arg) ==
    LET Letter(s, c) ==
            IF s.over \/ c = 1 THEN s
            ELSE IF Short(arg[c]) = {} THEN [p |-> Bad(s.p), over |-> TRUE]
            ELSE LET o == CHOOSE o \in Short(arg[c]) : TRUE
                 IN IF o.value THEN ValueOf(s.p, o, arg, c)
                    ELSE [s EXCEPT !.p = Activate(s.p, o, <<>>)]
    IN FoldLeftDomain(Letter, [p |-> p, over |-> FALSE], arg).p

Positional(p, arg) ==
    IF Len(p.put) < Positionals THEN [p EXCEPT !.put = Append(@, arg)]
    ELSE [p EXCEPT !.positionals = Append(@, arg)]

IsOption(p, arg) == Len(arg) >= 1 /\ arg[1] = "-" /\ ~p.positionalMode

IsLong(arg) == Len(arg) >= 2 /\ arg[2] = "-"

\* One turn of the loop.
Parse(p) ==
    LET arg == Head(p.rest)
        after == [p EXCEPT !.rest = Tail(@)]
    IN CASE IsOption(p, arg) /\ arg = <<"-", "-">> -> [after EXCEPT !.positionalMode = TRUE]
         [] IsOption(p, arg) /\ arg # <<"-", "-">> /\ IsLong(arg) -> Long(after, arg)
         [] IsOption(p, arg) /\ ~IsLong(arg) -> Cluster(after, arg)
         [] OTHER -> Positional(after, arg)

Argument == st.status = "parsing" /\ st.rest # <<>> /\ st' = Parse(st)

\* Whether everything that must be there is.
End ==
    /\ st.status = "parsing" /\ st.rest = <<>>
    /\ st' = [st EXCEPT !.status =
                 IF Len(st.put) >= Mandatory /\ Required \subseteq DOMAIN st.active
                 THEN "parsed" ELSE "missing"]

Next == Argument \/ End
Spec == Init /\ [][Next]_st

(***************************************************************************)
(* Properties.                                                             *)
(***************************************************************************)
\* A cluster, letter by letter, as arguments of their own: its last may be an
\* option with the value that followed it.
RECURSIVE Spelled(_, _)
Spelled(arg, c) ==
    IF c > Len(arg) THEN <<>>
    ELSE <<<<"-", arg[c]>>>> \o
         IF \E o \in Short(arg[c]) : o.value
         THEN IF c = Len(arg) THEN <<>> ELSE <<SubSeq(arg, c + 1, Len(arg))>>
         ELSE Spelled(arg, c + 1)

RECURSIVE ParseAll(_, _)
ParseAll(p, left) ==
    IF Len(p.rest) <= left \/ p.status = "bad" THEN p ELSE ParseAll(Parse(p), left)

\* "-abc" says what "-a -b -c" says, "-xvalue" what "-x value" says, and in any
\* mixture: the same options with the same values, or an error for both.
ClusterIsShorthand ==
    [][ Argument =>
        LET arg == Head(st.rest)
            left == Len(st.rest) - 1
            apart == ParseAll([st EXCEPT !.rest = Spelled(arg, 2) \o Tail(@)], left)
        IN IsOption(st, arg) /\ (\A c \in 2..Len(arg) : arg[c] # "-")
           => st' = [apart EXCEPT !.rest = IF st'.status = "bad" THEN st'.rest ELSE @] ]_st
=============================================================================
