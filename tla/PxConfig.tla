------------------------------ MODULE PxConfig ------------------------------
(***************************************************************************)
(* The reader of service files (PxConfig.cpp): ReadConfig goes through the *)
(* lines of a file, keeps `key = value` lines and [[key]] blocks of lines  *)
(* as they stand, and ReadValue expands escapes, arguments and lists when  *)
(* a value is asked for.                                                   *)
(***************************************************************************)
EXTENDS PxFunction, FiniteSets, TLC
LOCAL INSTANCE SequencesExt
CONSTANTS
    Files,  \* the files that may be read, as sequences of lines; in them the
            \* keys MaxArgs and RequiredArg are M and R for short
    Args    \* the arguments a service may be given, after the colon in its name

Separator == <<":">>

(***************************************************************************)
(* The expansion of one value into the strings it stands for.              *)
(***************************************************************************)
Digit == [c \in {"1", "2", "3", "4", "5", "6", "7", "8", "9"} |->
    CHOOSE d \in 1..9 : c = ToString(d)]

\* What follows a backslash: a newline, the character itself, or both as they
\* were.
Escaped(c) ==
    CASE c = "n" -> <<"\n">>
      [] c \in {"$", ";", "\\"} -> <<c>>
      [] OTHER -> <<"\\", c>>

\* What follows a dollar: one argument, all, or nothing.
Expanded(c, argument, arguments) ==
    CASE c \in DOMAIN Digit /\ Digit[c] <= Len(arguments) -> arguments[Digit[c]]
      [] c \in DOMAIN Digit /\ Digit[c] > Len(arguments) -> <<"$", c>>
      [] c = "@" -> argument
      [] OTHER -> <<>>

\* The loop over the characters: the strings ended so far, the one under way,
\* and whether the last character was a backslash or a dollar.
EscapeStep(st, c, argument, arguments) ==
    CASE st.mode = "escaping" ->
            [st EXCEPT !.mode = "plain", !.text = @ \o Escaped(c)]
      [] st.mode = "varEscaping" ->
            [st EXCEPT !.mode = "plain", !.text = @ \o Expanded(c, argument, arguments)]
      [] st.mode = "plain" /\ c = "\\" -> [st EXCEPT !.mode = "escaping"]
      [] st.mode = "plain" /\ c = "$" -> [st EXCEPT !.mode = "varEscaping"]
      [] st.mode = "plain" /\ c = ";" -> [st EXCEPT !.text = <<>>, !.out = Append(@, st.text)]
      [] OTHER -> [st EXCEPT !.text = Append(@, c)]

Escape(baseString, argument, msplit) ==
    LET arguments == Split(argument, Separator, msplit)
        last == FoldLeft(LAMBDA st, c : EscapeStep(st, c, argument, arguments),
                         [mode |-> "plain", text |-> <<>>, out |-> <<>>], baseString)
    IN Append(last.out, last.text)

(***************************************************************************)
(* The file.                                                               *)
(***************************************************************************)
VARIABLES
    file,            \* its lines
    def_arg,         \* the argument
    lineno,          \* how many of them have been read
    mode,            \* "Normal" or "Multiline"
    multiline_path,  \* the key of the block being read
    vec_properties,  \* the values of every key
    maxargs,
    result,          \* "reading", "read", or what ReadConfig returns instead
    start            \* the line that opened the last block: not in the code

vars == <<file, def_arg, lineno, mode, multiline_path, vec_properties, maxargs,
          result, start>>

Init ==
    /\ file \in Files /\ def_arg \in Args
    /\ lineno = 0 /\ start = 0
    /\ mode = "Normal" /\ multiline_path = <<>>
    /\ vec_properties = [key \in {} |-> <<>>]
    /\ maxargs = 9
    /\ result = "reading"

Line == file[lineno + 1]

\* Neither comment nor blanks around.
Bare(line) == Trim(Split(line, <<"#">>, 1)[1])

\* [[name]]: a header, or the end of a block.
Bracketed(line) == StartsWith(line, <<"[", "[">>) /\ EndsWith(line, <<"]", "]">>)
Inner(line) == Trim(SubSeq(line, 3, Len(line) - 2))

ValuesOf(key) == IF key \in DOMAIN vec_properties THEN vec_properties[key] ELSE <<>>
SetValues(key, values) ==
    vec_properties' = [k \in DOMAIN vec_properties \union {key} |->
                          IF k = key THEN values ELSE vec_properties[k]]

\* std::atoi, of the numbers in the files.
Atoi(value) ==
    IF Len(value) = 1 /\ value[1] \in DOMAIN Digit THEN Digit[value[1]] ELSE 0

Refused(key, value) ==
    \/ key = <<"M">> /\ Atoi(value) <= 0
    \/ key = <<"R">> /\ value = <<>>

\* RawAdd, unless the value is refused; MaxArgs is stored before it is judged.
\* ReadConfig looks at neither answer.
ConfSetValue(key, value) ==
    /\ maxargs' = IF key = <<"M">> THEN Atoi(value) ELSE maxargs
    /\ IF Refused(key, value)
       THEN UNCHANGED vec_properties
       ELSE SetValues(key, Append(ValuesOf(key), value))

Reading == result = "reading" /\ lineno < Len(file)
Read == lineno' = lineno + 1 /\ UNCHANGED <<file, def_arg>>

BlankLine ==
    /\ Reading /\ mode = "Normal" /\ Bare(Line) = <<>> /\ Read
    /\ UNCHANGED <<mode, multiline_path, vec_properties, maxargs, result, start>>

Header ==
    /\ Reading /\ mode = "Normal" /\ Bracketed(Bare(Line)) /\ Read
    /\ mode' = "Multiline"
    /\ multiline_path' = Inner(Bare(Line))
    /\ SetValues(Inner(Bare(Line)), Append(ValuesOf(Inner(Bare(Line))), <<>>))
    /\ start' = lineno + 1
    /\ UNCHANGED <<maxargs, result>>

Property ==
    LET expression == Split(Bare(Line), <<"=">>, 1)
    IN /\ Reading /\ mode = "Normal" /\ Bare(Line) # <<>> /\ ~Bracketed(Bare(Line)) /\ Read
       /\ IF Len(expression) = 2
          THEN ConfSetValue(Trim(expression[1]), Trim(expression[2])) /\ UNCHANGED result
          ELSE result' = "EINVAL" /\ UNCHANGED <<vec_properties, maxargs>>
       /\ UNCHANGED <<mode, multiline_path, start>>

Ends(line) ==
    /\ Bracketed(line)
    /\ \/ Inner(line) = <<"E", "n", "d">>
       \/ StartsWith(Inner(line), <<"/">>) /\ Trim(Tail(Inner(line))) = multiline_path

Block == Last(ValuesOf(multiline_path))
SetBlock(text) ==
    SetValues(multiline_path, ReplaceAt(ValuesOf(multiline_path),
                                        Len(ValuesOf(multiline_path)), text))

\* The newline after the last line goes.  Of a block without lines pop_back
\* takes a character that is not there: what follows is undefined.
EndOfBlock ==
    /\ Reading /\ mode = "Multiline" /\ Ends(Bare(Line)) /\ Read
    /\ mode' = "Normal"
    /\ IF Block = <<>> THEN result' = "undefined" /\ UNCHANGED vec_properties
       ELSE SetBlock(Front(Block)) /\ UNCHANGED result
    /\ UNCHANGED <<multiline_path, maxargs, start>>

\* Fault: backslashes are doubled after the others have brought in their own.
SanitizeLate(line) ==
    Substitute(Substitute(Substitute(line, <<"$">>, <<"\\", "$">>),
                          <<";">>, <<"\\", ";">>), <<"\\">>, <<"\\", "\\">>)

\* What Escape will undo.
Sanitize(line) ==
    Substitute(Substitute(Substitute(line, <<"\\">>, <<"\\", "\\">>),
                          <<"$">>, <<"\\", "$">>), <<";">>, <<"\\", ";">>)

BlockLine ==
    /\ Reading /\ mode = "Multiline" /\ ~Ends(Bare(Line)) /\ Read
    /\ SetBlock(Block \o Sanitize(Line) \o <<"\n">>)
    /\ UNCHANGED <<mode, multiline_path, maxargs, result, start>>

Done ==
    /\ result = "reading" /\ lineno = Len(file)
    /\ result' = "read"
    /\ UNCHANGED <<file, def_arg, lineno, mode, multiline_path, vec_properties, maxargs,
                   start>>

Next == BlankLine \/ Header \/ Property \/ EndOfBlock \/ BlockLine \/ Done
Spec == Init /\ [][Next]_vars

\* What a caller gets for one of the values of a key.
ReadValue(value) == Escape(value, def_arg, maxargs - 1)

(***************************************************************************)
(* Properties.                                                             *)
(***************************************************************************)
\* A block is read as it stands: the lines between its header and its end come
\* out as one string, whatever backslashes, dollars and semicolons they hold.
BlockIsVerbatim ==
    [][ EndOfBlock /\ result' = "reading" =>
        ReadValue(Last(vec_properties'[multiline_path]))
            = <<Join(SubSeq(file, start + 1, lineno), <<"\n">>)>> ]_vars

\* A list whose elements are quoted is read as those elements: no element is
\* split, joined to the next or taken for an argument.
ListsSurvive ==
    lineno = Len(file) /\ file # <<>> =>
        ReadValue(Join([i \in DOMAIN file |-> Sanitize(file[i])], <<";">>)) = file

\* The numbered arguments, put together again, are the argument: the last of
\* MaxArgs takes what is left of it.
ArgumentsRejoin ==
    LET parts == Cardinality(Occurrences(def_arg, Separator)) + 1
        k == IF parts < maxargs THEN parts ELSE maxargs
        Dollar(i) == <<"$", CHOOSE c \in DOMAIN Digit : Digit[c] = i>>
    IN maxargs > 0 =>
        ReadValue(Join([i \in 1..k |-> Dollar(i)], Separator)) = <<def_arg>>
=============================================================================
