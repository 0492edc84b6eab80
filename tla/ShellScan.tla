----------------------------- MODULE ShellScan ------------------------------
(***************************************************************************)
(* The two scanners of hooks.py that look at a command line before the     *)
(* shell does: _split_top_level_segments cuts it at the separators a shell *)
(* would cut at, _contains_shell_substitution says whether the shell would *)
(* run something inside it.  A line is a sequence of characters, of which  *)
(* only those the scanners tell apart are kept, by name: the single and    *)
(* the double quote, the backslash, "$", "(", one separator ";" (for ";",  *)
(* "&&", "||", "|" and the newline) and "word" for every other character.  *)
(***************************************************************************)
EXTENDS Naturals, Sequences

Chars == {"word", "single", "double", "backslash", "dollar", "paren", "semicolon"}

At(line, i) == IF i \in 1..Len(line) THEN line[i] ELSE "end"

-----------------------------------------------------------------------------
(* The scanners *)

\* What both loops remember while they read: the three kinds of quotes, a
\* pending backslash, and a second character taken together with the first.
Fresh == [single |-> FALSE, ansi |-> FALSE, double |-> FALSE,
          escaped |-> FALSE, taken |-> FALSE]

Bare(q) == ~q.single /\ ~q.ansi /\ ~q.double

\* A mutant of QuoteStep: a backslash escapes in single quotes, too.
QuoteStepEscaping(line, i, q) ==
  LET ch == line[i] IN
  CASE q.taken -> [q EXCEPT !.taken = FALSE]
    [] ~q.taken /\ q.escaped -> [q EXCEPT !.escaped = FALSE]
    [] ~q.taken /\ ~q.escaped /\ ch = "backslash" -> [q EXCEPT !.escaped = TRUE]
    [] ~q.taken /\ ~q.escaped /\ ch = "single" /\ ~q.double -> [q EXCEPT !.single = ~@]
    [] ~q.taken /\ ~q.escaped /\ ch = "double" /\ ~q.single -> [q EXCEPT !.double = ~@]
    [] OTHER -> q

\* The quoting part of one turn of the loop at character i.
QuoteStep(line, i, q) ==
  LET ch == line[i] IN
  CASE q.taken -> [q EXCEPT !.taken = FALSE]
    [] ~q.taken /\ q.escaped -> [q EXCEPT !.escaped = FALSE]
    [] ~q.taken /\ ~q.escaped /\ ch = "backslash" /\ ~q.single ->
         [q EXCEPT !.escaped = TRUE]
    [] ~q.taken /\ ~q.escaped /\ Bare(q) /\ ch = "dollar" /\ At(line, i + 1) = "single" ->
         [q EXCEPT !.ansi = TRUE, !.taken = TRUE]
    [] ~q.taken /\ ~q.escaped /\ ch = "single" /\ ~q.double ->
         IF q.ansi THEN [q EXCEPT !.ansi = FALSE] ELSE [q EXCEPT !.single = ~@]
    [] ~q.taken /\ ~q.escaped /\ ch = "double" /\ ~q.single /\ ~q.ansi ->
         [q EXCEPT !.double = ~@]
    [] OTHER -> q

\* Quotes(line)[i]: what is remembered when character i is looked at.
Quotes(line) ==
  LET quotes[i \in 1..(Len(line) + 1)] ==
        IF i = 1 THEN Fresh ELSE QuoteStep(line, i - 1, quotes[i - 1])
  IN quotes

\* The character reaches the tests after the quoting part of the loop.
Plain(q) == ~q.taken /\ ~q.escaped

\* The separators at which the line is cut.
Cuts(line) ==
  {i \in 1..Len(line) :
     LET q == Quotes(line)[i] IN Plain(q) /\ Bare(q) /\ line[i] = "semicolon"}

\* $( outside single and ANSI-C quotes.
ContainsShellSubstitution(line) ==
  \E i \in 1..Len(line) :
     LET q == Quotes(line)[i] IN
     /\ Plain(q)
     /\ ~q.single /\ ~q.ansi
     /\ line[i] = "dollar" /\ At(line, i + 1) = "paren"

-----------------------------------------------------------------------------
(* What a shell does with the line: it reads whole words and quoted spans  *)
(* from left to right, so the definition jumps from one to the next.       *)

\* The first closing quote at or after i; a backslash hides the next
\* character when the span knows backslashes.
CloseOf(line, i, quote, backslashes) ==
  LET close[j \in i..(Len(line) + 2)] ==
        IF j > Len(line) THEN j
        ELSE IF line[j] = quote THEN j
        ELSE IF backslashes /\ line[j] = "backslash" THEN close[j + 2]
        ELSE close[j + 1]
  IN IF i > Len(line) THEN i ELSE close[i]

\* The position after the lexeme that begins at i.
AfterLexeme(line, i) ==
  CASE line[i] = "backslash" -> i + 2
    [] line[i] = "single" -> CloseOf(line, i + 1, "single", FALSE) + 1
    [] line[i] = "double" -> CloseOf(line, i + 1, "double", TRUE) + 1
    [] line[i] = "dollar" /\ At(line, i + 1) = "single" ->
         CloseOf(line, i + 2, "single", TRUE) + 1
    [] OTHER -> i + 1

\* The positions at which a lexeme begins, from i on.
LexemesOf(line) ==
  LET from[i \in 1..(Len(line) + 3)] ==
        IF i > Len(line) THEN {} ELSE {i} \cup from[AfterLexeme(line, i)]
  IN from[1]

ShellCuts(line) == {i \in LexemesOf(line) : line[i] = "semicolon"}

\* The positions a double-quoted span reads as more than literal text.
LiveInDouble(line, i) ==
  LET last == CloseOf(line, i + 1, "double", TRUE)
      live[j \in (i + 1)..(Len(line) + 2)] ==
        IF j > Len(line) \/ j >= last THEN {}
        ELSE IF line[j] = "backslash" THEN live[j + 2]
        ELSE {j} \cup live[j + 1]
  IN live[i + 1]

ShellExpands(line) ==
  LET lexemes == LexemesOf(line)
      live == lexemes \cup
              UNION {LiveInDouble(line, i) : i \in {j \in lexemes : line[j] = "double"}}
  IN \E i \in live : line[i] = "dollar" /\ At(line, i + 1) = "paren"

\* Lines the scanners are meant for: no "$$" (the shell reads it as the
\* process number, and a quote after it is a quote of its own).
Readable(line) ==
  \A i \in 1..(Len(line) - 1) : ~(line[i] = "dollar" /\ line[i + 1] = "dollar")

=============================================================================
