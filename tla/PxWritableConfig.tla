-------------------------- MODULE PxWritableConfig --------------------------
(***************************************************************************)
(* The configuration files that can be edited (PxWritableConfig.hpp): a    *)
(* text becomes a tree of tokens that keeps every blank and comment, in    *)
(* which values are found, replaced and added, and which is written back.  *)
(*                                                                         *)
(* A pointer to a StringToken is the path to it, the indices to take in    *)
(* the arrays on the way: every other token holds one token that can be    *)
(* looked into.  The header is a library; the program around it is an      *)
(* editor that makes up to MaxEdits edits and may save and load between    *)
(* them, as test/writableconf.cpp does.                                    *)
(***************************************************************************)
EXTENDS PxFunction, FiniteSets
LOCAL INSTANCE SequencesExt
CONSTANTS
    Files,      \* the texts an editor may open
    Keys,       \* the keys it asks for
    NewValues,  \* the values it writes: no separators, no blanks around them
    MaxEdits

\* What the constants are.
EditorAssumption == MaxEdits \in Nat

(***************************************************************************)
(* Tokens and the parser.                                                  *)
(***************************************************************************)
String(s) == [kind |-> "string", me |-> s]
KeyValue(key, value) == [kind |-> "keyvalue", key |-> key, value |-> value]
\* A LinesToken is an ArrayToken that is written with another separator.
Array(tokens, sep) == [kind |-> "array", tokens |-> tokens, sep |-> sep]
Comment(tkn, comment) == [kind |-> "comment", tkn |-> tkn, comment |-> comment]

\* A WhitespacedToken: the text, and the blanks on both sides of it.
XTrim(input) ==
    LET whitespace == {" ", "\n", "\t"}
        ltrimmed == LTrim(input, whitespace)
        rtrimmed == RTrim(ltrimmed, whitespace)
    IN [kind |-> "space",
        ltrim |-> SubSeq(input, 1, Len(input) - Len(ltrimmed)),
        content |-> String(rtrimmed),
        rtrim |-> SubSeq(ltrimmed, Len(rtrimmed) + 1, Len(ltrimmed))]

RECURSIVE Parse(_)
Parse(input) ==
    LET lines == Split(input, <<"\n">>, -1)
        commented == Split(input, <<"#">>, 1)
        equated == Split(input, <<"=">>, 1)
        listed == Split(input, <<";">>, -1)
        Parsed(parts) == FoldLeft(LAMBDA tokens, part : Append(tokens, Parse(part)), <<>>, parts)
    IN CASE Len(lines) > 1 -> Array(Parsed(lines), <<"\n">>)
         [] Len(lines) = 1 /\ Len(commented) > 1 ->
                Comment(Parse(commented[1]), XTrim(commented[2]))
         [] Len(lines) = 1 /\ Len(commented) = 1 /\ Len(equated) > 1 ->
                KeyValue(XTrim(equated[1]), Parse(equated[2]))
         [] Len(lines) = 1 /\ Len(commented) = 1 /\ Len(equated) = 1 /\ Len(listed) > 1 ->
                Array(Parsed(listed), <<";">>)
         [] OTHER -> XTrim(input)

RECURSIVE Get(_)
Get(t) ==
    CASE t.kind = "string"   -> t.me
      [] t.kind = "space"    -> t.ltrim \o Get(t.content) \o t.rtrim
      [] t.kind = "keyvalue" -> Get(t.key) \o <<"=">> \o Get(t.value)
      [] t.kind = "comment"  -> Get(t.tkn) \o <<"#">> \o Get(t.comment)
      [] t.kind = "array"    -> Join(FoldLeft(LAMBDA strings, token : Append(strings, Get(token)), <<>>, t.tokens), t.sep)

(***************************************************************************)
(* Looking up and writing.                                                 *)
(***************************************************************************)
\* What a walk finds in an array: found[i] is what it has found in its i-th token.
Below(found) ==
    LET In(i) == [j \in DOMAIN found[i] |-> [found[i][j] EXCEPT !.path = <<i>> \o @]]
    IN FlattenSeq([i \in DOMAIN found |-> In(i)])

\* The strings that rawfind counts, and rawcount with it, each with the path to
\* it: a key of its own inside a value hides what it holds.
RECURSIVE Strings(_)
Strings(t) ==
    CASE t.kind = "array"    -> Below([i \in DOMAIN t.tokens |-> Strings(t.tokens[i])])
      [] t.kind = "string"   -> <<[path |-> <<>>, me |-> t.me]>>
      [] t.kind = "space"    -> Strings(t.content)
      [] t.kind = "keyvalue" -> <<>>
      [] t.kind = "comment"  -> Strings(t.tkn)

Named(t, key) == Trim(Get(t.key)) = key

\* The places of the values of a key: find(key, n) is the n-th, and countkey
\* their number.
RECURSIVE Places(_, _)
Places(t, key) ==
    CASE t.kind = "array"    -> Below([i \in DOMAIN t.tokens |-> Places(t.tokens[i], key)])
      [] t.kind = "string"   -> <<>>
      [] t.kind = "space"    -> Places(t.content, key)
      [] t.kind = "keyvalue" -> IF Named(t, key) THEN Strings(t.value) ELSE <<>>
      [] t.kind = "comment"  -> Places(t.tkn, key)

\* find(...)->me is assigned to.
RECURSIVE SetMe(_, _, _)
SetMe(t, path, v) ==
    CASE t.kind = "string"   -> String(v)
      [] t.kind = "space"    -> [t EXCEPT !.content = SetMe(@, path, v)]
      [] t.kind = "keyvalue" -> [t EXCEPT !.value = SetMe(@, path, v)]
      [] t.kind = "comment"  -> [t EXCEPT !.tkn = SetMe(@, path, v)]
      [] t.kind = "array"    -> [t EXCEPT !.tokens[Head(path)] = SetMe(@, Tail(path), v)]

(***************************************************************************)
(* Adding a value.  `what` says what is to be inserted and where: at the   *)
(* level of a value (rawinsto) a string, at the level of lines             *)
(* (rawinstokey) a key with a string.  An attempt returns the token, how   *)
(* many values are still to be passed, and whether it has inserted; the    *)
(* value is put in at once, where the code hands out the empty token.      *)
(***************************************************************************)
Attempt(t, n, done) == [t |-> t, n |-> n, done |-> done]

Added(what) ==
    IF what.level = "value" THEN String(what.v)
    ELSE KeyValue(String(what.key), String(what.v))

\* A string counts as one value passed; where keys are looked for, it is none.
Passed(n, what) == IF what.level = "value" THEN n - 1 ELSE n

\* Fault: a new element goes in before the one that ends the count.
InsertBefore(t, idx, what) ==
    [t EXCEPT !.tokens = InsertAt(@, IF idx = 0 THEN 1 ELSE idx, Added(what))]

\* vecSplice, push_back and the copy of the rest.
InsertAfter(t, idx, what) == [t EXCEPT !.tokens = InsertAt(@, idx + 1, Added(what))]

RECURSIVE Insto(_, _, _)
Insto(t, n, what) ==
    LET Inside(field, level) ==
            LET r == Insto(t[field], n, [what EXCEPT !.level = level])
            IN Attempt([t EXCEPT ![field] = r.t], r.n, r.done)
        \* One turn of the loop over the elements of an array.
        Turn(a, idx) ==
            IF a.done THEN a
            ELSE LET r == Insto(t.tokens[idx], a.n, what)
                 IN CASE r.done -> Attempt([t EXCEPT !.tokens[idx] = r.t], r.n, TRUE)
                      [] ~r.done /\ r.n = 0 -> Attempt(InsertAfter(t, idx, what), 0, TRUE)
                      [] OTHER -> Attempt(t, r.n, FALSE)
    IN CASE t.kind = "string" -> Attempt(t, Passed(n, what), FALSE)
         [] t.kind = "space" -> Inside("content", what.level)
         [] t.kind = "comment" -> Inside("tkn", what.level)
         [] t.kind = "keyvalue" ->
                IF what.level = "key" /\ Named(t, what.key)
                THEN Inside("value", "value") ELSE Attempt(t, n, FALSE)
         [] t.kind = "array" ->
                IF n = 0 THEN Attempt(InsertAfter(t, 0, what), 0, TRUE)
                ELSE FoldLeftDomain(Turn, Attempt(t, n, FALSE), t.tokens)

(***************************************************************************)
(* The editor.                                                             *)
(***************************************************************************)
VARIABLES
    saved,  \* the text last read or written
    doc,    \* the tree
    values, \* what find() gives for every key, its countkey() strings
    edits,  \* how many edits were made
    edit    \* the last of them

vars == <<saved, doc, values, edits, edit>>

Found(t) ==
    [key \in Keys |-> FoldLeft(LAMBDA me, p : Append(me, p.me), <<>>, Places(t, key))]

Init ==
    /\ saved \in Files
    /\ doc = Parse(saved) /\ values = Found(Parse(saved))
    /\ edits = 0 /\ edit = <<>>

Becomes(t) == doc' = t /\ values' = Found(t)

\* find(key, n)->me = v
Change(key, n, v) ==
    /\ edits < MaxEdits
    /\ n < Len(Places(doc, key))
    /\ Becomes(SetMe(doc, Places(doc, key)[n + 1].path, v))
    /\ edits' = edits + 1 /\ edit' = <<"replace", key, n, v>>
    /\ UNCHANGED saved

\* insto(key, n)->me = v
Insert(key, n, v) ==
    LET r == Insto(doc, n, [level |-> "key", key |-> key, v |-> v])
    IN /\ edits < MaxEdits
       /\ r.done
       /\ Becomes(r.t)
       /\ edits' = edits + 1 /\ edit' = <<"add", key, n, v>>
       /\ UNCHANGED saved

\* The text is written and read again.
Reload ==
    /\ saved' = Get(doc)
    /\ Becomes(Parse(Get(doc)))
    /\ UNCHANGED <<edits, edit>>

Next ==
    \/ \E key \in Keys, v \in NewValues :
          \E n \in 0..Len(Places(doc, key)) : Change(key, n, v) \/ Insert(key, n, v)
    \/ Reload

Spec == Init /\ [][Next]_vars

(***************************************************************************)
(* Properties.                                                             *)
(***************************************************************************)
\* The tree implements the table: an edit changes the one value it is about and
\* saving and loading changes none.
Table == INSTANCE PxConfigTable
TableSpec == Table!Spec
=============================================================================
