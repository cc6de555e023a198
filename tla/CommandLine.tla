------------------------------ MODULE CommandLine ------------------------------
(****************************************************************************)
(* How the shell reads a line: the tokenizer (tokenizer.c), the test for    *)
(* redirection, the choice of a built-in or a program, and what it passes   *)
(* to p_spawn and f_dup (shell.c).                                          *)
(*                                                                          *)
(* A line is a sequence of characters.  The name of a command counts as one *)
(* letter: what matters is where a word begins and ends.                    *)
(****************************************************************************)
EXTENDS Integers, Sequences, FiniteSets, SequencesExt

CONSTANTS
  Letter,    \* letters, names of commands among them
  Names,     \* names of the commands meant
  Free,      \* the characters of the lines that mean nothing in particular
  MaxLine    \* bound: their length

Delimiter == {"|", "&", "<", ">"}
Blank == " "

ASSUME LineAssumption ==
  /\ Letter \cap (Delimiter \cup {Blank}) = {}
  /\ Names \subseteq Letter
  /\ Free \subseteq Letter \cup Delimiter \cup {Blank}
  /\ MaxLine \in Nat

VARIABLES
  at,     \* where the shell is: "prompt", "typed", "handled" or "exited"
  line,   \* what f_read has returned
  meant,  \* the command the user means by it
  func,   \* the local variable func, which keeps its value from line to line
  done    \* what the shell has done about the line

lineVars == <<at, line, meant, func, done>>

\* The file, argument or priority a line does not give; no token is empty.
NULL == <<>>
Nothing == [kind |-> "nothing"]

-------------------------------------------------------------------------------
(* The tokenizer.  Its position is what is left of the line.                 *)

SkipBlanks(s) ==
  LET k == SelectInSeq(s, LAMBDA c : c # Blank)
  IN  IF k = 0 THEN <<>> ELSE SubSeq(s, k, Len(s))

\* How many characters the word at the start of s has, its first one included
\* even if that is a delimiter, which it is after a delimiter and a blank.
WordLength(s) ==
  LET k == SelectInSeq(Tail(s), LAMBDA c : c \in Delimiter \cup {Blank})
  IN  IF k = 0 THEN Len(s) ELSE k

\* Mutant: the last character of a word is not copied.
GetNextTokenShort(s) ==
  LET t == SkipBlanks(s)
  IN  IF t = <<>> THEN [token |-> NULL, rest |-> s]
      ELSE IF Head(s) \in Delimiter THEN [token |-> <<Head(s)>>, rest |-> Tail(s)]
      ELSE LET n == WordLength(t)
           IN  [token |-> SubSeq(t, 1, IF n > 1 THEN n - 1 ELSE n),
                rest |-> SkipBlanks(SubSeq(t, n + 1, Len(t)))]

\* Mutant: the blanks behind a word are left.
GetNextTokenBlanks(s) ==
  LET t == SkipBlanks(s)
  IN  IF t = <<>> THEN [token |-> NULL, rest |-> s]
      ELSE IF Head(s) \in Delimiter THEN [token |-> <<Head(s)>>, rest |-> Tail(s)]
      ELSE LET n == WordLength(t)
           IN  [token |-> SubSeq(t, 1, n), rest |-> SubSeq(t, n + 1, Len(t))]

GetNextToken(s) ==
  LET t == SkipBlanks(s)
  IN  IF t = <<>> THEN [token |-> NULL, rest |-> s]
      ELSE IF Head(s) \in Delimiter THEN [token |-> <<Head(s)>>, rest |-> Tail(s)]
      ELSE LET n == WordLength(t)
           IN  [token |-> SubSeq(t, 1, n), rest |-> SkipBlanks(SubSeq(t, n + 1, Len(t)))]

\* One call more, if there is a token left.
ReadToken(w) ==
  LET next == GetNextToken(w.rest)
  IN  IF next.token = NULL THEN w
      ELSE [tokens |-> Append(w.tokens, next.token), rest |-> next.rest]

\* All tokens of a line: each call takes a character at least.
Tokens(s) ==
  LET read[k \in 0 .. Len(s)] ==
        IF k = 0 THEN [tokens |-> <<>>, rest |-> s] ELSE ReadToken(read[k - 1])
  IN  read[Len(s)].tokens

-------------------------------------------------------------------------------
(* The shell.  toks: the tokens of the line; k: which one a call returns.    *)

Token(toks, k) == IF k <= Len(toks) THEN toks[k] ELSE NULL
Number(toks, c) == Cardinality({k \in DOMAIN toks : toks[k] = <<c>>})

IsRedirectInstruction(toks) ==
  CASE Number(toks, "<") > 1 \/ Number(toks, ">") > 1 -> "invalid"
    [] Number(toks, "<") = 1 /\ Number(toks, ">") = 1 -> "BOTH"
    [] Number(toks, "<") = 1 /\ Number(toks, ">") = 0 -> "IN"
    [] Number(toks, "<") = 0 /\ Number(toks, ">") = 1 -> "OUT"
    [] OTHER -> "NONE"

WithArgument == {"cat", "sleep", "touch", "rm"}
WithNone == {"busy", "ls", "ps", "zombify", "orphanify"}
\* How many words the built-ins take.  defragment is one, and so is never
\* spawned.
BuiltIn == [c \in {"man", "jobs", "logout", "defragment", "cp", "bg", "fg",
                   "nice_pid", "mv"} |->
              CASE c \in {"cp", "bg", "fg"} -> 1 [] c \in {"nice_pid", "mv"} -> 2
                [] OTHER -> 0]

\* The program at token k: func, its argument, and the next token.  Without the
\* argument, and by nice for a name it does not know, func stays as it is.
Choice(toks, k, none) ==
  LET c == Token(toks, k)
  IN  CASE \E p \in WithArgument : c = <<p>> /\ Token(toks, k + 1) # NULL ->
             [func |-> c[1], args |-> <<toks[k + 1]>>, next |-> k + 2]
        [] \E p \in none : c = <<p>> -> [func |-> c[1], args |-> <<>>, next |-> k + 1]
        [] OTHER -> [func |-> func, args |-> <<>>, next |-> k + 1]
SelectFunction(toks) == Choice(toks, 3, WithNone \ {"zombify", "orphanify"})
Selected(toks) ==
  IF toks[1] = <<"nice">> THEN SelectFunction(toks) ELSE Choice(toks, 1, WithNone)

\* The files after the program, the input first if there are two, and the
\* token after them.
Files(toks, k) ==
  CASE IsRedirectInstruction(toks) = "OUT" ->
         [in |-> NULL, out |-> Token(toks, k + 1), next |-> k + 2]
    [] IsRedirectInstruction(toks) = "IN" ->
         [in |-> Token(toks, k + 1), out |-> NULL, next |-> k + 2]
    [] IsRedirectInstruction(toks) = "BOTH" ->
         IF Token(toks, k + 3) = NULL
           THEN [in |-> NULL, out |-> NULL, next |-> k + 4]
           ELSE [in |-> toks[k + 1], out |-> toks[k + 3], next |-> k + 4]
    [] OTHER -> [in |-> NULL, out |-> NULL, next |-> k]

Spawned(toks) ==
  LET s == Selected(toks)
      f == Files(toks, s.next)
  IN  [kind |-> "spawn", func |-> s.func, args |-> s.args, in |-> f.in, out |-> f.out,
       priority |-> IF toks[1] = <<"nice">> THEN Token(toks, 2) ELSE NULL,
       mode |-> IF Token(toks, f.next) = <<"&">> THEN "BACKGROUND" ELSE "FOREGROUND"]

\* A program that lacks its argument, or is none: a message.  cat is spawned.
Refused(toks) ==
  LET c == toks[1]
  IN  \/ c \notin {<<p>> : p \in WithArgument \cup WithNone \cup {"nice"}}
      \/ Len(toks) = 1 /\ c \in {<<p>> : p \in WithArgument \ {"cat"}}

\* A word that is missing is the one an earlier line has left in args, for cp
\* and mv; for bg and fg the last stopped job; and nice_pid does nothing.
Shown(toks) ==
  [kind |-> "built_in", func |-> toks[1][1],
   args |-> [k \in 1 .. BuiltIn[toks[1][1]] |-> Token(toks, k + 1)]]

IsBuiltIn(toks) == \E c \in DOMAIN BuiltIn : toks[1] = <<c>>

-------------------------------------------------------------------------------
(* Lines.                                                                    *)

\* What a user may mean by a line: a command with some of its parts.
Command ==
  [nice : BOOLEAN, name : Names, arg : {NULL, <<"x">>}, in : {NULL, <<"y">>},
   out : {NULL, <<"z">>}, background : BOOLEAN, outFirst : BOOLEAN]

\* The words and marks of a command, and the lines that write it: with blanks
\* between two words, and anywhere else too.
Parts(c) ==
  LET in  == IF c.in = NULL THEN <<>> ELSE << <<"<">>, c.in >>
      out == IF c.out = NULL THEN <<>> ELSE << <<">">>, c.out >>
  IN  (IF c.nice THEN << <<"nice">>, <<"1">> >> ELSE <<>>) \o << <<c.name>> >>
        \o (IF c.arg = NULL THEN <<>> ELSE << c.arg >>)
        \o (IF c.outFirst THEN out \o in ELSE in \o out)
        \o (IF c.background THEN << <<"&">> >> ELSE <<>>)
IsMark(part) == part[1] \in Delimiter
Gaps(parts) ==
  {g \in [DOMAIN parts -> BOOLEAN] :
     \A k \in DOMAIN parts \ {1} : g[k] \/ IsMark(parts[k]) \/ IsMark(parts[k - 1])}
Written(parts, gaps) ==
  FlattenSeq([k \in DOMAIN parts |-> (IF gaps[k] THEN <<Blank>> ELSE <<>>) \o parts[k]])
    \o <<Blank>>

TypeCommand ==
  /\ at = "prompt"
  /\ \E c \in Command : \E g \in Gaps(Parts(c)) :
       meant' = c /\ line' = Written(Parts(c), g)
  /\ at' = "typed"
  /\ UNCHANGED <<func, done>>

TypeAnything ==
  /\ at = "prompt"
  /\ \E n \in 0 .. MaxLine : line' \in [1 .. n -> Free]
  /\ at' = "typed"
  /\ UNCHANGED <<meant, func, done>>

Handle ==
  LET toks == Tokens(line)
  IN  /\ at = "typed"
      /\ \/ /\ line = <<>>   \* end of file
            /\ at' = "exited"
            /\ UNCHANGED <<func, done>>
         \/ /\ line # <<>> /\ (toks = <<>> \/ IsRedirectInstruction(toks) = "invalid")
            /\ at' = "handled"
            /\ UNCHANGED <<func, done>>
         \/ /\ toks # <<>> /\ IsRedirectInstruction(toks) # "invalid"
            /\ IsBuiltIn(toks)
            /\ done' = Shown(toks)
            /\ at' = (IF toks[1] = <<"logout">> THEN "exited" ELSE "handled")
            /\ UNCHANGED func
         \/ /\ toks # <<>> /\ IsRedirectInstruction(toks) # "invalid"
            /\ ~IsBuiltIn(toks) /\ Refused(toks)
            /\ at' = "handled"
            /\ UNCHANGED <<func, done>>
         \/ /\ toks # <<>> /\ IsRedirectInstruction(toks) # "invalid"
            /\ ~IsBuiltIn(toks) /\ ~Refused(toks)
            /\ done' = Spawned(toks)
            /\ func' = Spawned(toks).func
            /\ at' = "handled"
      /\ UNCHANGED <<line, meant>>

PromptAgain ==
  /\ at = "handled"
  /\ at' = "prompt"
  /\ line' = <<>> /\ meant' = Nothing /\ done' = Nothing
  /\ UNCHANGED func

InitLine ==
  /\ at = "prompt" /\ line = <<>> /\ meant = Nothing /\ done = Nothing
  /\ func = "wild"

NextLine == TypeCommand \/ TypeAnything \/ Handle \/ PromptAgain

LineSpec == InitLine /\ [][NextLine]_lineVars

-------------------------------------------------------------------------------
(* Properties.                                                               *)

\* Whatever is typed, the tokens are the line without its blanks: no character
\* is lost, doubled or moved, none of the tokens is empty or holds a blank, and
\* a delimiter stands alone, or else begins a word and follows a blank
\* (get_next_token's three ways through the line).
TokensFaithful ==
  LET toks == Tokens(line)
  IN  /\ FlattenSeq(toks) =
           FlattenSeq([k \in DOMAIN line |-> IF line[k] = Blank THEN <<>> ELSE <<line[k]>>])
      /\ \A k \in DOMAIN toks :
           /\ toks[k] # <<>>
           /\ \A i \in 2 .. Len(toks[k]) : toks[k][i] \notin Delimiter \cup {Blank}
           /\ Len(toks[k]) > 1 /\ IsMark(toks[k]) =>
                \E i \in 2 .. Len(line) : line[i] = toks[k][1] /\ line[i - 1] = Blank

\* A command the shell has: with its argument if it takes one and without if
\* not, under nice only if nice has it, and with the input file first.
Complete(c) ==
  /\ c.name \in WithArgument \cup WithNone
  /\ c.arg # NULL <=> c.name \in WithArgument
  /\ c.nice => c.name \notin {"zombify", "orphanify"}
  /\ c.outFirst => c.in = NULL \/ c.out = NULL

\* However such a command is spaced, the program, its argument, the two files
\* and the mode passed on are those that were meant; and whatever the line, a
\* program it does not name, the one spawned last, runs again only for a bare
\* cat or under nice, which leave func as it was.
LineObeyed ==
  /\ at = "handled" /\ meant # Nothing /\ Complete(meant) =>
       done = [kind |-> "spawn", func |-> meant.name,
               args |-> IF meant.arg = NULL THEN <<>> ELSE <<meant.arg>>,
               in |-> meant.in, out |-> meant.out,
               priority |-> IF meant.nice THEN <<"1">> ELSE NULL,
               mode |-> IF meant.background THEN "BACKGROUND" ELSE "FOREGROUND"]
  /\ done.kind = "spawn" =>
       \/ <<done.func>> \in ToSet(Tokens(line))
       \/ Tokens(line) = << <<"cat">> >>
       \/ Tokens(line)[1] = <<"nice">>

===============================================================================
