------------------------------- MODULE Quoting -------------------------------
(***************************************************************************)
(* Two ways of quoting: the flags of a browser as one line of a file       *)
(* (flag_changer), and a command for the shell of a device (cmd_helper). A *)
(* character is a string of length one, a word a sequence of them. The     *)
(* behaviour spells out every list of words, one character at a time, and  *)
(* what the quoting makes of it is read again by the parser of the flags   *)
(* and as the shell reads it.                                              *)
(***************************************************************************)
EXTENDS Naturals, Sequences, SequencesExt

CONSTANTS
  Characters, MaxWords, MaxLength,   \* of the words; MaxLength bounds all of a list
  Value      \* of the variable that shrinks a command

VARIABLE words

-----------------------------------------------------------------------------
Quotes == {"\"", "'"}
Plain == {"a", "-"}

NeedsQuoting(text) == \E i \in DOMAIN text : text[i] \notin Plain

(* Mutant: a quote within quotes is left as it is.                         *)
QuotedAsIs(text) == <<"\"">> \o text \o <<"\"">>

Quoted(text) ==
  <<"\"">> \o FlattenSeq([i \in DOMAIN text |-> IF text[i] = "\"" THEN <<"\\", "\"">> ELSE <<text[i]>>])
           \o <<"\"">>

QuoteFlag(flag) ==
  LET at == SelectInSeq(flag, LAMBDA c : c = "=")
      key == IF at = 0 THEN flag ELSE SubSeq(flag, 1, at - 1)
      value == SubSeq(flag, at + 1, Len(flag))
  IN IF flag = <<>> \/ NeedsQuoting(key) THEN Quoted(flag)
     ELSE IF at = 0 THEN key
     ELSE key \o <<"=">> \o (IF NeedsQuoting(value) THEN Quoted(value) ELSE value)

SerializeFlags(list) ==
  <<"_">> \o FlattenSeq([i \in DOMAIN list |-> <<" ">> \o QuoteFlag(list[i])])

(* What the parser holds: the flags read, the open quote, and the current  *)
(* flag, which has at least one character once it is begun.                *)
Parser == [flags |-> <<>>, quote |-> "none", current |-> <<>>]

ParseCharacter(p, c) ==
  IF c = p.quote \/ (p.quote = "none" /\ c \in Quotes)
  THEN IF p.current # <<>> /\ Last(p.current) = "\\"
       THEN [p EXCEPT !.current = Append(Front(@), c)]
       ELSE [p EXCEPT !.quote = IF @ = "none" THEN c ELSE "none"]
  ELSE IF p.quote = "none" /\ c = " "
  THEN IF p.current = <<>> THEN p ELSE [p EXCEPT !.flags = Append(@, p.current), !.current = <<>>]
  ELSE [p EXCEPT !.current = Append(@, c)]

ParseFlags(line) ==
  LET end == FoldLeft(ParseCharacter, Parser, line)
  IN Tail(end.flags \o (IF end.current = <<>> THEN <<>> ELSE <<end.current>>))

-----------------------------------------------------------------------------
SafeShellChars == {"a"}
IsSafe(s) == s # <<>> /\ \A i \in DOMAIN s : s[i] \in SafeShellChars

(* A single quote ends the quotes, is quoted itself, and begins new ones.  *)
SingleQuote(s) ==
  IF IsSafe(s) THEN s
  ELSE <<"'">> \o FlattenSeq([i \in DOMAIN s |->
                    IF s[i] = "'" THEN <<"'", "\"", "'", "\"", "'">> ELSE <<s[i]>>]) \o <<"'">>

DoubleQuote(s) ==
  IF s = <<>> THEN <<"\"", "\"">>
  ELSE IF IsSafe(s) THEN s
  ELSE <<"\"">> \o FlattenSeq([i \in DOMAIN s |-> IF s[i] = "\"" THEN <<"\\", "\"">> ELSE <<s[i]>>])
                \o <<"\"">>

(* str.split: the occurrences of the value from the left, not overlapping. *)
Occurs(s, i) == i + Len(Value) - 1 <= Len(s) /\ SubSeq(s, i, i + Len(Value) - 1) = Value

SplitAt(p, i, s) ==
  IF i < p.next THEN p
  ELSE IF Occurs(s, i) THEN [pieces |-> Append(p.pieces, p.piece), piece |-> <<>>, next |-> i + Len(Value)]
  ELSE [p EXCEPT !.piece = Append(@, s[i])]

Split(s) ==
  LET end == FoldLeft(LAMBDA p, i : SplitAt(p, i, s), [pieces |-> <<>>, piece |-> <<>>, next |-> 1],
                      [i \in DOMAIN s |-> i])
  IN Append(end.pieces, end.piece)

Variable == <<"\"", "$", "\"">>

Piece(p) == IF p = <<>> THEN <<>> ELSE SingleQuote(p)

Shrink(s) ==
  LET pieces == Split(s)
      joined == FlattenSeq([i \in DOMAIN pieces |-> (IF i = 1 THEN <<>> ELSE Variable) \o Piece(pieces[i])])
  IN IF joined = <<>> THEN <<"'", "'">> ELSE joined

Joined(list) == FlattenSeq([i \in DOMAIN list |-> (IF i = 1 THEN <<>> ELSE <<" ">>) \o list[i]])
ShrinkToSnippet == Joined([i \in DOMAIN words |-> Shrink(words[i])])

-----------------------------------------------------------------------------
(* The shell reads words: quoted text is literal, but for the variable and *)
(* a backslash before a special character in double quotes. Variables      *)
(* outside of quotes and unfinished quotes are errors here.                *)
Shell == [read |-> <<>>, word |-> <<>>, begun |-> FALSE, state |-> "plain", error |-> FALSE]
Add(sh, text) == [sh EXCEPT !.word = @ \o text, !.begun = TRUE]

InPlain(sh, c) ==
  CASE c = " " -> IF sh.begun THEN [sh EXCEPT !.read = Append(@, sh.word), !.word = <<>>, !.begun = FALSE] ELSE sh
    [] c = "'" -> [sh EXCEPT !.state = "single", !.begun = TRUE]
    [] c = "\"" -> [sh EXCEPT !.state = "double", !.begun = TRUE]
    [] c \in {"$", "\\"} -> [sh EXCEPT !.error = TRUE]
    [] OTHER -> Add(sh, <<c>>)

InDouble(sh, c) ==
  CASE c = "\"" -> [sh EXCEPT !.state = "plain"]
    [] c = "\\" -> [sh EXCEPT !.state = "escaped"]
    [] c = "$" -> Add(sh, Value)
    [] OTHER -> Add(sh, <<c>>)

ReadCharacter(sh, c) ==
  CASE sh.state = "plain" -> InPlain(sh, c)
    [] sh.state = "double" -> InDouble(sh, c)
    [] sh.state = "single" -> IF c = "'" THEN [sh EXCEPT !.state = "plain"] ELSE Add(sh, <<c>>)
    [] sh.state = "escaped" ->
         [Add(sh, IF c \in {"\"", "\\", "$"} THEN <<c>> ELSE <<"\\", c>>) EXCEPT !.state = "double"]

Words(line) ==
  LET end == FoldLeft(ReadCharacter, Shell, line)
  IN IF end.error \/ end.state # "plain" THEN <<<<"error">>>>
     ELSE end.read \o (IF end.begun THEN <<end.word>> ELSE <<>>)

-----------------------------------------------------------------------------
Init == words = <<>>

NextWord == Len(words) < MaxWords /\ words' = Append(words, <<>>)

NextCharacter ==
  /\ words # <<>> /\ Len(FlattenSeq(words)) < MaxLength
  /\ \E c \in Characters : words' = Append(Front(words), Append(Last(words), c))

Next == NextWord \/ NextCharacter
Spec == Init /\ [][Next]_words

-----------------------------------------------------------------------------
Backslashed(flag) == flag # <<>> /\ Last(flag) = "\\"

(* Flags that are neither empty nor end in a backslash come back from the  *)
(* line as they were, whatever quotes, spaces and signs they have.         *)
CommonFlagsSurvive ==
  (\A i \in DOMAIN words : words[i] # <<>> /\ ~Backslashed(words[i]))
    => ParseFlags(SerializeFlags(words)) = words

(* A command of which each argument is quoted is read as it was.           *)
QuotedIsCommand == Words(Joined([i \in DOMAIN words |-> SingleQuote(words[i])])) = words

(* "can be used in a shell command line as one token": so it can if it has *)
(* no backslash, whatever the shell makes of a variable in it.             *)
DoubleIsOneToken ==
  \A i \in DOMAIN words : (\A j \in DOMAIN words[i] : words[i][j] # "\\") =>
    LET tokens == Words(DoubleQuote(words[i])) IN Len(tokens) = 1 /\ tokens[1] # <<"error">>

(* A snippet, with the variable set, is the command it was made from.      *)
SnippetIsCommand == Words(ShrinkToSnippet) = words
=============================================================================
