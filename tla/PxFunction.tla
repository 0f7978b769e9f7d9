----------------------------- MODULE PxFunction -----------------------------
(***************************************************************************)
(* The helpers on strings of PxFunction.cpp, which every parser of         *)
(* parallax-init is built from.  A string is the sequence of its           *)
(* characters, a character a string of length one.                         *)
(***************************************************************************)
EXTENDS Integers, Sequences
LOCAL INSTANCE SequencesExt
LOCAL INSTANCE FiniteSetsExt

Blank == {" ", "\n", "\t", "\r"}

\* Where sep begins in s.
Occurrences(s, sep) ==
    {i \in 1..(Len(s) - Len(sep) + 1) : SubSeq(s, i, i + Len(sep) - 1) = sep}

\* The parts of s between at most `splits` separators; a negative number sets
\* no limit.
RECURSIVE Split(_, _, _)
Split(s, sep, splits) ==
    IF splits = 0 \/ Occurrences(s, sep) = {} THEN <<s>>
    ELSE LET point == Min(Occurrences(s, sep))
         IN <<SubSeq(s, 1, point - 1)>>
            \o Split(SubSeq(s, point + Len(sep), Len(s)), sep, splits - 1)

Join(parts, sep) ==
    IF parts = <<>> THEN <<>>
    ELSE FoldLeft(LAMBDA text, part : text \o sep \o part, Head(parts), Tail(parts))

LTrim(s, whitespace) ==
    LET kept == {i \in DOMAIN s : s[i] \notin whitespace}
    IN IF kept = {} THEN <<>> ELSE SubSeq(s, Min(kept), Len(s))

RTrim(s, whitespace) ==
    LET kept == {i \in DOMAIN s : s[i] \notin whitespace}
    IN IF kept = {} THEN <<>> ELSE SubSeq(s, 1, Max(kept))

Trim(s) == RTrim(LTrim(s, Blank), Blank)

StartsWith(s, prefix) == IsPrefix(prefix, s)
EndsWith(s, suffix) == IsSuffix(suffix, s)

\* Each occurrence, from the left, gives way to what replaces it; what was put
\* in is not looked at again.
Substitute(s, found, replaced) == Join(Split(s, found, -1), replaced)
=============================================================================
