-------------------------- MODULE ShellScanProofs ---------------------------
(***************************************************************************)
(* For every line, however long: it is cut where a shell would cut it and  *)
(* a substitution is found where a shell would expand one.                 *)
(*                                                                         *)
(* The scanners remember what they need from one character to the next,    *)
(* the shell's reader jumps from lexeme to lexeme.  The two are brought    *)
(* together by an induction from the end of the line to its beginning:     *)
(* where a lexeme begins the scanner is outside all quotes, inside it it   *)
(* is not (LexemeStep), so the lexemes begin exactly where the scanner is  *)
(* outside all quotes (Lexemes).  Three of the functions are recursive;    *)
(* that each exists is an induction as well (Recursion).                   *)
(***************************************************************************)
EXTENDS ShellScan, Integers, WellFoundedInduction, TLAPS

-----------------------------------------------------------------------------
(* Recursion over the positions of a line                                  *)

\* A set of numbers that is not empty has a least one.
LEMMA Least ==
  ASSUME NEW T \in SUBSET Nat, T # {}
  PROVE  \E x \in T : \A y \in T : x <= y
<1> DEFINE R == OpToRel(<, Nat)
<1>1. IsWellFoundedOn(R, Nat)
  BY NatLessThanWellFounded, Zenon
<1>2. \A x, y \in Nat : y < x => <<y, x>> \in R
  BY DEF OpToRel
<1> HIDE DEF R
<1>3. PICK x \in T : \A y \in T : ~(<<y, x>> \in R)
  BY <1>1, WFMin
<1>4. ASSUME NEW y \in T PROVE x <= y
  <2>1. x \in Nat /\ y \in Nat /\ ~(<<y, x>> \in R)
    BY <1>3
  <2>2. ~(y < x)
    BY <1>2, <2>1
  <2>3. QED
    BY <2>1, <2>2
<1>5. QED
  BY <1>4

\* Induction, for a set of numbers.
LEMMA Induction ==
  ASSUME NEW S, 0 \in S, \A n \in Nat : n \in S => n + 1 \in S
  PROVE  Nat \subseteq S
<1> DEFINE T == Nat \ S
<1>1. SUFFICES ASSUME T # {} PROVE FALSE
  OBVIOUS
<1>2. PICK x \in T : \A y \in T : x <= y
  BY <1>1, Least
<1>3. x \in Nat /\ x # 0 /\ x \notin S
  BY <1>2
<1>4. x - 1 \in Nat /\ (x - 1) + 1 = x /\ ~(x <= x - 1)
  BY <1>3
<1>5. x - 1 \in S
  BY <1>2, <1>4
<1>6. QED
  BY <1>3, <1>4, <1>5

\* The function f has the value at i that was given for i, or the one step makes
\* of its value at next[i].
Solves(f, D, base, first, next, step) ==
  f = [i \in D |-> IF i \in base THEN first[i] ELSE step[<<i, f[next[i]]>>]]

\* A recursive function exists when its calls go to smaller places.
LEMMA Recursion ==
  ASSUME NEW D, NEW V, NEW base, NEW first \in [D -> V], NEW next \in [D -> D],
         NEW step \in [D \X V -> V], NEW rank \in [D -> Nat], NEW bound \in Nat,
         \A i \in D : rank[i] < bound /\ (i \notin base => rank[next[i]] < rank[i])
  PROVE  \E f \in [D -> V] : Solves(f, D, base, first, next, step)
<1> DEFINE Below(n) == {i \in D : rank[i] < n}
           value(f, i) == IF i \in base THEN first[i] ELSE step[<<i, f[next[i]]>>]
           Good(n) == \E f \in [Below(n) -> V] : \A i \in Below(n) : f[i] = value(f, i)
           S == {n \in Nat : Good(n)}
<1>1. 0 \in S
  <2>1. Below(0) = {}
    OBVIOUS
  <2>2. [i \in Below(0) |-> first[i]] \in [Below(0) -> V]
    BY <2>1
  <2>3. Good(0)
    BY <2>1, <2>2
  <2>4. QED
    BY <2>3
<1>2. ASSUME NEW n \in Nat, n \in S
      PROVE  n + 1 \in S
  <2>1. PICK f \in [Below(n) -> V] : \A i \in Below(n) : f[i] = value(f, i)
    BY <1>2
  <2> DEFINE g == [i \in Below(n + 1) |-> IF i \in Below(n) THEN f[i] ELSE value(f, i)]
  <2>2. \A i \in Below(n + 1) : i \in D /\ (i \notin base => next[i] \in Below(n))
    OBVIOUS
  <2>3. \A i \in Below(n + 1) : value(f, i) \in V
    BY <2>2
  <2>4. g \in [Below(n + 1) -> V]
    BY <2>3
  <2>5. \A i \in Below(n) : i \in Below(n + 1) /\ g[i] = f[i]
    OBVIOUS
  <2>6. ASSUME NEW i \in Below(n + 1)
        PROVE  g[i] = value(g, i)
    <3>1. value(g, i) = value(f, i)
      BY <2>2, <2>5
    <3>2. g[i] = value(f, i)
      BY <2>1
    <3>3. QED
      BY <3>1, <3>2
  <2> HIDE DEF g, value
  <2>7. Good(n + 1)
    BY <2>4, <2>6
  <2>8. n + 1 \in Nat
    OBVIOUS
  <2> HIDE DEF Good
  <2>9. QED
    BY <2>7, <2>8
<1>3. bound \in S
  <2> HIDE DEF S
  <2>1. QED
    BY <1>1, <1>2, Induction
<1>4. Below(bound) = D
  OBVIOUS
<1>5. PICK f \in [D -> V] : \A i \in D : f[i] = value(f, i)
  BY <1>3, <1>4
<1>6. f = [i \in D |-> value(f, i)]
  BY <1>5
<1>7. QED
  BY <1>6 DEF Solves

\* Induction from the end of a line to its beginning.
LEMMA FromTheEnd ==
  ASSUME NEW lo \in Nat, NEW hi \in Nat, NEW S,
         \A j \in lo..hi : (\A k \in (j + 1)..hi : k \in S) => j \in S
  PROVE  \A j \in lo..hi : j \in S
<1> DEFINE T == {n \in 0..hi : hi - n \in (lo..hi) \ S}
<1>1. SUFFICES ASSUME NEW j \in lo..hi, j \notin S PROVE FALSE
  OBVIOUS
<1>2. hi - j \in T /\ T \in SUBSET Nat
  BY <1>1
<1>3. PICK n \in T : \A m \in T : n <= m
  <2> HIDE DEF T
  <2>1. QED
    BY <1>2, Least
<1>4. hi - n \in lo..hi /\ hi - n \notin S
  BY <1>3
<1>5. ASSUME NEW k \in (hi - n + 1)..hi
      PROVE  k \in S
  <2>1. k \in lo..hi /\ hi - k \in 0..hi /\ ~(n <= hi - k) /\ hi - (hi - k) = k
    BY <1>4, <1>5
  <2>2. hi - k \notin T
    BY <1>3, <2>1
  <2>3. QED
    BY <2>1, <2>2
<1>6. QED
  BY <1>4, <1>5

-----------------------------------------------------------------------------
(* What the loops remember                                                 *)

\* The values of what the loops remember.
State(single, ansi, double, escaped, taken) ==
  [single |-> single, ansi |-> ansi, double |-> double, escaped |-> escaped, taken |-> taken]
States ==
  [single : BOOLEAN, ansi : BOOLEAN, double : BOOLEAN, escaped : BOOLEAN, taken : BOOLEAN]

InSingle == State(TRUE, FALSE, FALSE, FALSE, FALSE)
InAnsi == State(FALSE, TRUE, FALSE, FALSE, FALSE)
InDouble == State(FALSE, FALSE, TRUE, FALSE, FALSE)

\* Only the fresh state is both plain and bare.
LEMMA FreshIsPlain ==
  ASSUME NEW q \in States
  PROVE  q = Fresh <=> Plain(q) /\ Bare(q)
  BY DEF States, Fresh, Plain, Bare

\* One turn of the loop in each of the states.
LEMMA StepTyped ==
  ASSUME NEW line, NEW i, NEW q \in States
  PROVE  QuoteStep(line, i, q) \in States
<1>1. CASE q.taken
  BY <1>1 DEF QuoteStep, States
<1>2. CASE ~q.taken /\ q.escaped
  BY <1>2 DEF QuoteStep, States
<1>3. CASE ~q.taken /\ ~q.escaped
  BY <1>3 DEF QuoteStep, States, Bare
<1>4. QED
  BY <1>1, <1>2, <1>3

\* A state is given by its values.
LEMMA Values ==
  ASSUME NEW p \in States
  PROVE  p = State(p.single, p.ansi, p.double, p.escaped, p.taken)
  BY DEF States, State

\* The four changes a turn makes.
LEMMA Escapes ==
  ASSUME NEW p \in States
  PROVE  [p EXCEPT !.escaped = TRUE] = State(p.single, p.ansi, p.double, TRUE, p.taken)
<1> DEFINE r == [p EXCEPT !.escaped = TRUE]
<1>1. /\ r \in States
      /\ r.single = p.single /\ r.ansi = p.ansi /\ r.double = p.double /\ r.taken = p.taken
      /\ r.escaped = TRUE
  BY DEF States
<1> HIDE DEF r
<1>2. r = State(r.single, r.ansi, r.double, r.escaped, r.taken)
  BY <1>1, Values, Zenon
<1>3. r = State(p.single, p.ansi, p.double, TRUE, p.taken)
  BY <1>1, <1>2, Zenon
<1>4. QED
  BY <1>3 DEF r

LEMMA OpensAnsi ==
  ASSUME NEW p \in States
  PROVE  [p EXCEPT !.ansi = TRUE, !.taken = TRUE] =
           State(p.single, TRUE, p.double, p.escaped, TRUE)
<1> DEFINE r == [p EXCEPT !.ansi = TRUE, !.taken = TRUE]
<1>1. /\ r \in States
      /\ r.single = p.single /\ r.double = p.double /\ r.escaped = p.escaped
      /\ r.ansi = TRUE /\ r.taken = TRUE
  BY DEF States
<1> HIDE DEF r
<1>2. r = State(r.single, r.ansi, r.double, r.escaped, r.taken)
  BY <1>1, Values, Zenon
<1>3. r = State(p.single, TRUE, p.double, p.escaped, TRUE)
  BY <1>1, <1>2, Zenon
<1>4. QED
  BY <1>3 DEF r

LEMMA Toggles ==
  ASSUME NEW p \in States
  PROVE  /\ [p EXCEPT !.single = ~@] = State(~p.single, p.ansi, p.double, p.escaped, p.taken)
         /\ [p EXCEPT !.double = ~@] = State(p.single, p.ansi, ~p.double, p.escaped, p.taken)
  BY DEF States, State

LEMMA ClosesAnsi ==
  ASSUME NEW p \in States
  PROVE  [p EXCEPT !.ansi = FALSE] = State(p.single, FALSE, p.double, p.escaped, p.taken)
<1> DEFINE r == [p EXCEPT !.ansi = FALSE]
<1>1. /\ r \in States
      /\ r.single = p.single /\ r.double = p.double /\ r.escaped = p.escaped
      /\ r.taken = p.taken /\ r.ansi = FALSE
  BY DEF States
<1> HIDE DEF r
<1>2. r = State(r.single, r.ansi, r.double, r.escaped, r.taken)
  BY <1>1, Values, Zenon
<1>3. r = State(p.single, FALSE, p.double, p.escaped, p.taken)
  BY <1>1, <1>2, Zenon
<1>4. QED
  BY <1>3 DEF r

\* The states the loops are in most of the time.
LEMMA KnownStates ==
  /\ Fresh \in States /\ InSingle \in States /\ InDouble \in States /\ InAnsi \in States
  /\ Fresh = State(FALSE, FALSE, FALSE, FALSE, FALSE)
  /\ Fresh.single = FALSE /\ Fresh.ansi = FALSE /\ Fresh.double = FALSE
  /\ Fresh.escaped = FALSE /\ Fresh.taken = FALSE
  /\ InSingle.single = TRUE /\ InSingle.ansi = FALSE /\ InSingle.double = FALSE
  /\ InSingle.escaped = FALSE /\ InSingle.taken = FALSE
  /\ InDouble.single = FALSE /\ InDouble.ansi = FALSE /\ InDouble.double = TRUE
  /\ InDouble.escaped = FALSE /\ InDouble.taken = FALSE
  /\ InAnsi.single = FALSE /\ InAnsi.ansi = TRUE /\ InAnsi.double = FALSE
  /\ InAnsi.escaped = FALSE /\ InAnsi.taken = FALSE
  BY DEF Fresh, InSingle, InDouble, InAnsi, State, States

\* Outside all quotes.
LEMMA FreshSteps ==
  ASSUME NEW line, NEW i
  PROVE  QuoteStep(line, i, Fresh) =
           IF line[i] = "backslash" THEN State(FALSE, FALSE, FALSE, TRUE, FALSE)
           ELSE IF line[i] = "dollar" /\ At(line, i + 1) = "single"
             THEN State(FALSE, TRUE, FALSE, FALSE, TRUE)
           ELSE IF line[i] = "single" THEN InSingle
           ELSE IF line[i] = "double" THEN InDouble
           ELSE Fresh
<1>1. [Fresh EXCEPT !.escaped = TRUE] = State(FALSE, FALSE, FALSE, TRUE, FALSE)
  BY KnownStates, Escapes, Zenon
<1>2. [Fresh EXCEPT !.ansi = TRUE, !.taken = TRUE] = State(FALSE, TRUE, FALSE, FALSE, TRUE)
  BY KnownStates, OpensAnsi, Zenon
<1>3. (~Fresh.single) = TRUE /\ (~Fresh.double) = TRUE
  BY KnownStates
<1>4. [Fresh EXCEPT !.single = ~@] = InSingle
  BY <1>3, KnownStates, Toggles, Zenon DEF InSingle
<1>5. [Fresh EXCEPT !.double = ~@] = InDouble
  BY <1>3, KnownStates, Toggles, Zenon DEF InDouble
<1>6. ~Fresh.taken /\ ~Fresh.escaped /\ ~Fresh.single /\ ~Fresh.ansi /\ ~Fresh.double
  BY KnownStates
<1>7. QED
  BY <1>1, <1>2, <1>4, <1>5, <1>6 DEF QuoteStep, Bare

\* Inside them.
LEMMA SingleSteps ==
  ASSUME NEW line, NEW i
  PROVE  QuoteStep(line, i, InSingle) = IF line[i] = "single" THEN Fresh ELSE InSingle
<1>1. (~InSingle.single) = FALSE
  BY KnownStates
<1>2. [InSingle EXCEPT !.single = ~@] = Fresh
  BY <1>1, KnownStates, Toggles, Zenon
<1>3. /\ ~InSingle.taken /\ ~InSingle.escaped /\ ~InSingle.ansi /\ ~InSingle.double
      /\ InSingle.single
  BY KnownStates
<1>4. QED
  BY <1>2, <1>3 DEF QuoteStep, Bare

LEMMA DoubleSteps ==
  ASSUME NEW line, NEW i
  PROVE  QuoteStep(line, i, InDouble) =
           IF line[i] = "backslash" THEN State(FALSE, FALSE, TRUE, TRUE, FALSE)
           ELSE IF line[i] = "double" THEN Fresh ELSE InDouble
<1>1. (~InDouble.double) = FALSE
  BY KnownStates
<1>2. [InDouble EXCEPT !.double = ~@] = Fresh
  BY <1>1, KnownStates, Toggles, Zenon
<1>3. [InDouble EXCEPT !.escaped = TRUE] = State(FALSE, FALSE, TRUE, TRUE, FALSE)
  BY KnownStates, Escapes, Zenon
<1>4. /\ ~InDouble.taken /\ ~InDouble.escaped /\ ~InDouble.ansi /\ ~InDouble.single
      /\ InDouble.double
  BY KnownStates
<1>5. QED
  BY <1>2, <1>3, <1>4 DEF QuoteStep, Bare

LEMMA AnsiSteps ==
  ASSUME NEW line, NEW i
  PROVE  QuoteStep(line, i, InAnsi) =
           IF line[i] = "backslash" THEN State(FALSE, TRUE, FALSE, TRUE, FALSE)
           ELSE IF line[i] = "single" THEN Fresh ELSE InAnsi
<1>1. [InAnsi EXCEPT !.ansi = FALSE] = Fresh
  BY KnownStates, ClosesAnsi, Zenon
<1>2. [InAnsi EXCEPT !.escaped = TRUE] = State(FALSE, TRUE, FALSE, TRUE, FALSE)
  BY KnownStates, Escapes, Zenon
<1>3. /\ ~InAnsi.taken /\ ~InAnsi.escaped /\ ~InAnsi.single /\ ~InAnsi.double
      /\ InAnsi.ansi
  BY KnownStates
<1>4. QED
  BY <1>1, <1>2, <1>3 DEF QuoteStep, Bare

\* After a backslash, and after the first of two characters.
LEMMA HiddenSteps ==
  ASSUME NEW line, NEW i
  PROVE  /\ QuoteStep(line, i, State(FALSE, FALSE, FALSE, TRUE, FALSE)) = Fresh
         /\ QuoteStep(line, i, State(FALSE, FALSE, TRUE, TRUE, FALSE)) = InDouble
         /\ QuoteStep(line, i, State(FALSE, TRUE, FALSE, TRUE, FALSE)) = InAnsi
         /\ QuoteStep(line, i, State(FALSE, TRUE, FALSE, FALSE, TRUE)) = InAnsi
  BY DEF QuoteStep, Fresh, State, InAnsi, InDouble

\* The loop's memory, character by character.
LEMMA QuotesStep ==
  ASSUME NEW line \in Seq(Chars)
  PROVE  /\ Quotes(line) \in [1..(Len(line) + 1) -> States]
         /\ Quotes(line)[1] = Fresh
         /\ \A i \in 1..Len(line) : Quotes(line)[i + 1] = QuoteStep(line, i, Quotes(line)[i])
<1> DEFINE D == 1..(Len(line) + 1)
           base == {1}
           first == [i \in D |-> Fresh]
           next == [i \in D |-> IF i = 1 THEN 1 ELSE i - 1]
           step == [p \in D \X States |-> QuoteStep(line, p[1] - 1, p[2])]
           rank == [i \in D |-> i]
           turn(f) == [i \in D |-> IF i = 1 THEN Fresh ELSE QuoteStep(line, i - 1, f[i - 1])]
<1>1. Len(line) \in Nat
  OBVIOUS
<1>2. Fresh \in States
  BY DEF Fresh, States
<1>3. /\ first \in [D -> States] /\ next \in [D -> D] /\ step \in [D \X States -> States]
      /\ rank \in [D -> Nat] /\ Len(line) + 2 \in Nat
  BY <1>1, <1>2, StepTyped
<1>4. \A i \in D : rank[i] < Len(line) + 2 /\ (i \notin base => rank[next[i]] < rank[i])
  BY <1>1
<1>5. PICK f \in [D -> States] : Solves(f, D, base, first, next, step)
  <2> HIDE DEF D, base, first, next, step, rank
  <2>1. QED
    BY <1>3, <1>4, Recursion
<1>6. f = turn(f)
  <2>1. \A i \in D : (IF i \in base THEN first[i] ELSE step[<<i, f[next[i]]>>])
                       = IF i = 1 THEN Fresh ELSE QuoteStep(line, i - 1, f[i - 1])
    <3>1. SUFFICES ASSUME NEW i \in D
                   PROVE  (IF i \in base THEN first[i] ELSE step[<<i, f[next[i]]>>])
                            = IF i = 1 THEN Fresh ELSE QuoteStep(line, i - 1, f[i - 1])
      OBVIOUS
    <3>2. CASE i = 1
      BY <3>2
    <3>3. CASE i # 1
      <4>1. i \notin base /\ next[i] = i - 1 /\ i - 1 \in D
        BY <1>1, <3>3
      <4>2. <<i, f[i - 1]>> \in D \X States
        BY <4>1
      <4>3. step[<<i, f[i - 1]>>] = QuoteStep(line, i - 1, f[i - 1])
        BY <4>2
      <4>4. QED
        BY <3>3, <4>1, <4>3
    <3>4. QED
      BY <3>2, <3>3
  <2> HIDE DEF D, base, first, next, step
  <2>2. QED
    BY <1>5, <2>1 DEF Solves
<1>7. Quotes(line) = CHOOSE g : g = turn(g)
  BY DEF Quotes
<1>8. Quotes(line) = turn(Quotes(line))
  <2> HIDE DEF D, turn
  <2>1. QED
    BY <1>6, <1>7
<1>9. \A i \in D : Quotes(line)[i] \in States
  <2> DEFINE T == {i \in D : Quotes(line)[i] \notin States}
  <2>1. SUFFICES ASSUME T # {} PROVE FALSE
    OBVIOUS
  <2>2. PICK i \in T : \A j \in T : i <= j
    <3>1. T \in SUBSET Nat
      OBVIOUS
    <3> HIDE DEF T
    <3>2. QED
      BY <2>1, <3>1, Least
  <2>3. CASE i = 1
    BY <1>2, <1>8, <2>2, <2>3
  <2>4. CASE i # 1
    <3>1. i - 1 \in D /\ ~(i <= i - 1)
      BY <1>1, <2>2, <2>4
    <3>2. Quotes(line)[i - 1] \in States
      BY <2>2, <3>1
    <3>3. Quotes(line)[i] = QuoteStep(line, i - 1, Quotes(line)[i - 1])
      BY <1>8, <2>2, <2>4
    <3>4. QED
      BY <2>2, <3>2, <3>3, StepTyped
  <2>5. QED
    BY <2>3, <2>4
<1>10. QED
  <2>1. \A i \in 1..Len(line) : i + 1 \in D /\ i + 1 # 1 /\ (i + 1) - 1 = i
    BY <1>1
  <2>2. 1 \in D
    BY <1>1
  <2>3. Quotes(line)[1] = Fresh
    BY <1>8, <2>2
  <2>4. \A i \in 1..Len(line) : Quotes(line)[i + 1] = QuoteStep(line, i, Quotes(line)[i])
    BY <1>8, <2>1
  <2>5. Quotes(line) \in [D -> States]
    <3> HIDE DEF D
    <3>1. QED
      BY <1>8, <1>9
  <2>6. QED
    BY <2>3, <2>4, <2>5

-----------------------------------------------------------------------------
(* What a shell reads                                                      *)

\* The closing quote, found character by character.
CloseBody(line, f, j, quote, backslashes) ==
  IF j > Len(line) THEN j
  ELSE IF line[j] = quote THEN j
  ELSE IF backslashes /\ line[j] = "backslash" THEN f[j + 2]
  ELSE f[j + 1]

\* CloseOf's function from i on.
CloseFrom(line, i, quote, backslashes) ==
  CHOOSE f : f = [j \in i..(Len(line) + 2) |-> CloseBody(line, f, j, quote, backslashes)]

\* The function exists.
LEMMA CloseExists ==
  ASSUME NEW line \in Seq(Chars), NEW i \in 1..(Len(line) + 2), NEW quote,
         NEW backslashes \in BOOLEAN
  PROVE  CloseFrom(line, i, quote, backslashes) =
           [j \in i..(Len(line) + 2) |->
              CloseBody(line, CloseFrom(line, i, quote, backslashes), j, quote, backslashes)]
<1> DEFINE D == i..(Len(line) + 2)
           base == {j \in D : j > Len(line) \/ line[j] = quote}
           first == [j \in D |-> j]
           next == [j \in D |-> IF j \in base THEN j
                                ELSE IF backslashes /\ line[j] = "backslash" THEN j + 2
                                ELSE j + 1]
           step == [p \in D \X Nat |-> p[2]]
           rank == [j \in D |-> (Len(line) + 2) - j]
           turn(f) == [j \in D |-> CloseBody(line, f, j, quote, backslashes)]
<1>1. Len(line) \in Nat
  OBVIOUS
<1>2. \A j \in D : j \in Nat /\ j <= Len(line) + 2
  BY <1>1
<1>3. /\ first \in [D -> Nat] /\ step \in [D \X Nat -> Nat] /\ rank \in [D -> Nat]
      /\ Len(line) + 3 \in Nat
  BY <1>1, <1>2
<1>4. next \in [D -> D]
  BY <1>1, <1>2
<1>5. \A j \in D : rank[j] < Len(line) + 3 /\ (j \notin base => rank[next[j]] < rank[j])
  BY <1>1, <1>2, <1>4
<1>6. PICK f \in [D -> Nat] : Solves(f, D, base, first, next, step)
  <2> HIDE DEF D, base, first, next, step, rank
  <2>1. QED
    BY <1>3, <1>4, <1>5, Recursion
<1>7. f = turn(f)
  <2>1. ASSUME NEW j \in D
        PROVE  (IF j \in base THEN first[j] ELSE step[<<j, f[next[j]]>>])
                 = CloseBody(line, f, j, quote, backslashes)
    <3>1. CASE j \in base
      BY <3>1 DEF CloseBody
    <3>2. CASE j \notin base
      <4>1. ~(j > Len(line)) /\ line[j] # quote
        BY <3>2
      <4>2. f[next[j]] \in Nat
        BY <1>4
      <4>3. step[<<j, f[next[j]]>>] = f[next[j]]
        BY <4>2
      <4>4. f[next[j]] = CloseBody(line, f, j, quote, backslashes)
        BY <3>2, <4>1 DEF CloseBody
      <4>5. QED
        BY <3>2, <4>3, <4>4
    <3>3. QED
      BY <3>1, <3>2
  <2> HIDE DEF D, base, first, next, step
  <2>2. QED
    BY <1>6, <2>1 DEF Solves
<1>8. CloseFrom(line, i, quote, backslashes) = CHOOSE g : g = turn(g)
  BY DEF CloseFrom
<1> HIDE DEF turn
<1>9. CloseFrom(line, i, quote, backslashes) = turn(CloseFrom(line, i, quote, backslashes))
  BY <1>7, <1>8
<1>10. QED
  BY <1>9 DEF turn

\* CloseOf goes from character to character, wherever it began.
LEMMA CloseSteps ==
  ASSUME NEW line \in Seq(Chars), NEW quote, NEW backslashes \in BOOLEAN,
         NEW i \in 1..(Len(line) + 2)
  PROVE  CloseOf(line, i, quote, backslashes) =
           IF i > Len(line) THEN i
           ELSE IF line[i] = quote THEN i
           ELSE IF backslashes /\ line[i] = "backslash"
             THEN CloseOf(line, i + 2, quote, backslashes)
           ELSE CloseOf(line, i + 1, quote, backslashes)
<1> DEFINE hi == Len(line) + 2
           C(j) == CloseOf(line, j, quote, backslashes)
           F(j) == CloseFrom(line, j, quote, backslashes)
           S == {j \in 1..hi : \A k \in 1..j : F(k)[j] = F(j)[j]}
<1>1. Len(line) \in Nat /\ hi \in Nat
  OBVIOUS
<1>2. \A k \in 1..hi : \A j \in k..hi : F(k)[j] = CloseBody(line, F(k), j, quote, backslashes)
  BY CloseExists
<1>3. \A j \in 1..hi : C(j) = IF j > Len(line) THEN j ELSE F(j)[j]
  BY DEF CloseOf, CloseFrom, CloseBody
<1> HIDE DEF C, F
<1>4. ASSUME NEW j \in 1..hi, \A k \in (j + 1)..hi : k \in S
      PROVE  j \in S
  <2>1. ASSUME NEW k \in 1..j
        PROVE  F(k)[j] = F(j)[j]
    <3>1. k \in 1..hi /\ j \in k..hi /\ j \in j..hi
      BY <1>1, <1>4, <2>1
    <3>2. /\ F(k)[j] = CloseBody(line, F(k), j, quote, backslashes)
          /\ F(j)[j] = CloseBody(line, F(j), j, quote, backslashes)
      BY <1>2, <3>1
    <3>3. ASSUME NEW m \in {j + 1, j + 2}, j <= Len(line)
          PROVE  F(k)[m] = F(j)[m]
      <4>1. m \in (j + 1)..hi /\ k \in 1..m /\ j \in 1..m
        BY <1>1, <1>4, <2>1, <3>3
      <4>2. m \in S
        BY <1>4, <4>1
      <4>3. QED
        BY <4>1, <4>2
    <3>4. QED
      BY <1>1, <3>2, <3>3 DEF CloseBody
  <2>2. QED
    BY <2>1
<1>5. \A j \in 1..hi : j \in S
  <2>1. 1 \in Nat
    OBVIOUS
  <2> HIDE DEF S, hi
  <2>2. QED
    BY <1>1, <1>4, <2>1, FromTheEnd
<1>6. ASSUME i <= Len(line), NEW m \in {i + 1, i + 2}
      PROVE  F(i)[m] = C(m)
  <2>1. m \in 1..hi /\ i \in 1..m
    BY <1>1, <1>6
  <2>2. F(i)[m] = F(m)[m]
    BY <1>5, <2>1
  <2>3. CASE m > Len(line)
    <3>1. F(m)[m] = m
      BY <1>1, <1>2, <2>1, <2>3 DEF CloseBody
    <3>2. QED
      BY <1>3, <2>1, <2>2, <2>3, <3>1
  <2>4. CASE ~(m > Len(line))
    BY <1>3, <2>1, <2>2, <2>4
  <2>5. QED
    BY <2>3, <2>4
<1>7. CASE i > Len(line)
  BY <1>3, <1>7 DEF C
<1>8. CASE ~(i > Len(line))
  <2>1. i <= Len(line) /\ i \in i..hi
    BY <1>1, <1>8
  <2>2. C(i) = CloseBody(line, F(i), i, quote, backslashes)
    BY <1>2, <1>3, <1>8, <2>1
  <2>3. C(i) = IF line[i] = quote THEN i
               ELSE IF backslashes /\ line[i] = "backslash" THEN C(i + 2) ELSE C(i + 1)
    BY <1>6, <1>8, <2>1, <2>2 DEF CloseBody
  <2>4. QED
    BY <1>8, <2>3 DEF C
<1>9. QED
  BY <1>7, <1>8

\* It ends at a closing quote or after the line.
LEMMA CloseTyped ==
  ASSUME NEW line \in Seq(Chars), NEW quote, NEW backslashes \in BOOLEAN
  PROVE  \A i \in 1..(Len(line) + 2) :
           CloseOf(line, i, quote, backslashes) \in i..(Len(line) + 2)
<1> DEFINE hi == Len(line) + 2
           C(j) == CloseOf(line, j, quote, backslashes)
           S == {j \in 1..hi : C(j) \in j..hi}
<1>1. Len(line) \in Nat /\ hi \in Nat /\ 1 \in Nat
  OBVIOUS
<1>2. \A j \in 1..hi : C(j) = IF j > Len(line) THEN j
                              ELSE IF line[j] = quote THEN j
                              ELSE IF backslashes /\ line[j] = "backslash" THEN C(j + 2)
                              ELSE C(j + 1)
  BY CloseSteps
<1> HIDE DEF C
<1>3. ASSUME NEW j \in 1..hi, \A k \in (j + 1)..hi : k \in S
      PROVE  j \in S
  <2>1. ASSUME j <= Len(line), NEW m \in {j + 1, j + 2}
        PROVE  C(m) \in j..hi
    <3>1. m \in (j + 1)..hi
      BY <1>1, <1>3, <2>1
    <3>2. C(m) \in m..hi
      BY <1>3, <3>1
    <3>3. QED
      BY <1>1, <2>1, <3>2
  <2>2. QED
    BY <1>1, <1>2, <2>1
<1>4. \A j \in 1..hi : j \in S
  <2> HIDE DEF S, hi
  <2>1. QED
    BY <1>1, <1>3, FromTheEnd
<1>5. QED
  BY <1>4 DEF C

\* Between a quote and the closing one, the loop stays in state q, or in hidden
\* where a backslash hides the next character.
Spans(line, q, hidden, quote, backslashes) ==
  /\ q # Fresh /\ hidden # Fresh /\ hidden # q /\ quote # "backslash"
  /\ \A k \in 1..Len(line) : Quotes(line)[k] = q =>
       Quotes(line)[k + 1] = IF backslashes /\ line[k] = "backslash" THEN hidden
                             ELSE IF line[k] = quote THEN Fresh ELSE q
  /\ \A k \in 1..Len(line) : backslashes /\ Quotes(line)[k] = hidden =>
       Quotes(line)[k + 1] = q

\* The span begins at i, and closes at c.
Opened(line, i, q) == i <= Len(line) + 1 => Quotes(line)[i] = q
Closed(line, i, c, q, hidden, quote) ==
  /\ \A k \in i..(c - 1) : k <= Len(line) => Quotes(line)[k] \in {q, hidden}
  /\ c <= Len(line) => line[c] = quote /\ Quotes(line)[c] = q /\ Quotes(line)[c + 1] = Fresh

\* The loop is outside quotes again after the closing quote, not before.
LEMMA Span ==
  ASSUME NEW line \in Seq(Chars), NEW q, NEW hidden, NEW quote, NEW backslashes \in BOOLEAN,
         Spans(line, q, hidden, quote, backslashes),
         NEW i \in 1..(Len(line) + 2), Opened(line, i, q)
  PROVE  Closed(line, i, CloseOf(line, i, quote, backslashes), q, hidden, quote)
<1> DEFINE hi == Len(line) + 2
           Q == Quotes(line)
           C(j) == CloseOf(line, j, quote, backslashes)
           Inside(j) ==
             /\ \A k \in j..(C(j) - 1) : k <= Len(line) => Q[k] \in {q, hidden}
             /\ C(j) <= Len(line) => /\ line[C(j)] = quote /\ Q[C(j)] = q
                                     /\ Q[C(j) + 1] = Fresh
           S == {j \in 1..hi : (j <= Len(line) + 1 => Q[j] = q) => Inside(j)}
<1>1. Len(line) \in Nat /\ hi \in Nat /\ 1 \in Nat
  OBVIOUS
<1>2. \A j \in 1..hi : C(j) = IF j > Len(line) THEN j
                              ELSE IF line[j] = quote THEN j
                              ELSE IF backslashes /\ line[j] = "backslash" THEN C(j + 2)
                              ELSE C(j + 1)
  BY CloseSteps
<1>3. \A j \in 1..hi : C(j) \in j..hi
  BY CloseTyped
<1>4. /\ quote # "backslash"
      /\ \A k \in 1..Len(line) : Q[k] = q =>
           Q[k + 1] = IF backslashes /\ line[k] = "backslash" THEN hidden
                      ELSE IF line[k] = quote THEN Fresh ELSE q
      /\ \A k \in 1..Len(line) : backslashes /\ Q[k] = hidden => Q[k + 1] = q
  BY DEF Spans
<1>5. i <= Len(line) + 1 => Q[i] = q
  BY DEF Opened
<1>6. Inside(i) => Closed(line, i, C(i), q, hidden, quote)
  BY DEF Closed
<1> HIDE DEF C, Q
<1>7. ASSUME NEW j \in 1..hi, \A k \in (j + 1)..hi : k \in S
      PROVE  j \in S
  <2>1. SUFFICES ASSUME j <= Len(line) + 1 => Q[j] = q
                 PROVE  Inside(j)
    OBVIOUS
  <2>2. CASE j > Len(line)
    BY <1>1, <1>2, <2>2
  <2>3. CASE j <= Len(line) /\ line[j] = quote
    <3>1. C(j) = j /\ Q[j] = q /\ j \in 1..Len(line)
      BY <1>1, <1>2, <2>1, <2>3
    <3>2. Q[j + 1] = Fresh
      BY <1>4, <2>3, <3>1
    <3>3. QED
      BY <1>1, <2>3, <3>1, <3>2
  <2>4. CASE j <= Len(line) /\ line[j] # quote /\ backslashes /\ line[j] = "backslash"
    <3>1. C(j) = C(j + 2) /\ Q[j] = q /\ j \in 1..Len(line)
      BY <1>1, <1>2, <2>1, <2>4
    <3>2. Q[j + 1] = hidden
      BY <1>4, <2>4, <3>1
    <3>3. j + 2 <= Len(line) + 1 => Q[j + 2] = q
      <4>1. SUFFICES ASSUME j + 2 <= Len(line) + 1 PROVE Q[j + 2] = q
        OBVIOUS
      <4>2. j + 1 \in 1..Len(line) /\ (j + 1) + 1 = j + 2
        BY <1>1, <4>1
      <4>3. Q[(j + 1) + 1] = q
        BY <1>4, <2>4, <3>2, <4>2
      <4>4. QED
        BY <4>2, <4>3
    <3>4. j + 2 \in (j + 1)..hi /\ j + 2 \in 1..hi
      BY <1>1, <2>4
    <3>5. Inside(j + 2)
      BY <1>7, <3>3, <3>4
    <3>6. C(j) \in Nat
      BY <1>1, <1>3
    <3>7. \A k \in j..(C(j) - 1) : k = j \/ k = j + 1 \/ k \in (j + 2)..(C(j) - 1)
      BY <1>1, <3>1, <3>6
    <3>8. QED
      BY <3>1, <3>2, <3>5, <3>7
  <2>5. CASE j <= Len(line) /\ line[j] # quote /\ ~(backslashes /\ line[j] = "backslash")
    <3>1. C(j) = C(j + 1) /\ Q[j] = q /\ j \in 1..Len(line)
      BY <1>1, <1>2, <2>1, <2>5
    <3>2. Q[j + 1] = q
      BY <1>4, <2>5, <3>1
    <3>3. j + 1 \in (j + 1)..hi /\ j + 1 \in 1..hi
      BY <1>1, <2>5
    <3>4. Inside(j + 1)
      BY <1>7, <3>2, <3>3
    <3>5. C(j) \in Nat
      BY <1>1, <1>3
    <3>6. \A k \in j..(C(j) - 1) : k = j \/ k \in (j + 1)..(C(j) - 1)
      BY <3>1, <3>5
    <3>7. QED
      BY <3>1, <3>4, <3>6
  <2>6. QED
    BY <1>1, <2>2, <2>3, <2>4, <2>5
<1>8. \A j \in 1..hi : j \in S
  <2> HIDE DEF S, hi
  <2>1. QED
    BY <1>1, <1>7, FromTheEnd
<1>9. Inside(i)
  BY <1>5, <1>8
<1>10. QED
  BY <1>6, <1>9 DEF C

\* LiveInDouble's function, for a span that ends at last.
LiveBody(line, last, f, j) ==
  IF j > Len(line) \/ j >= last THEN {}
  ELSE IF line[j] = "backslash" THEN f[j + 2]
  ELSE {j} \cup f[j + 1]

LiveFrom(line, last, i) ==
  CHOOSE f : f = [j \in i..(Len(line) + 2) |-> LiveBody(line, last, f, j)]

\* The function exists.
LEMMA LiveExists ==
  ASSUME NEW line \in Seq(Chars), NEW i \in 1..(Len(line) + 2), NEW last \in 1..(Len(line) + 2)
  PROVE  LiveFrom(line, last, i) =
           [j \in i..(Len(line) + 2) |-> LiveBody(line, last, LiveFrom(line, last, i), j)]
<1> DEFINE D == i..(Len(line) + 2)
           V == SUBSET Nat
           base == {j \in D : j > Len(line) \/ j >= last}
           first == [j \in D |-> {}]
           next == [j \in D |-> IF j \in base THEN j
                                ELSE IF line[j] = "backslash" THEN j + 2 ELSE j + 1]
           step == [p \in D \X V |-> IF line[p[1]] = "backslash" THEN p[2] ELSE {p[1]} \cup p[2]]
           rank == [j \in D |-> (Len(line) + 2) - j]
           turn(f) == [j \in D |-> LiveBody(line, last, f, j)]
<1>1. Len(line) \in Nat
  OBVIOUS
<1>2. \A j \in D : j \in Nat /\ j <= Len(line) + 2
  BY <1>1
<1>3. /\ first \in [D -> V] /\ rank \in [D -> Nat] /\ Len(line) + 3 \in Nat
  BY <1>1, <1>2
<1>4. step \in [D \X V -> V]
  <2>1. ASSUME NEW p \in D \X V
        PROVE  (IF line[p[1]] = "backslash" THEN p[2] ELSE {p[1]} \cup p[2]) \in V
    <3>1. p[1] \in Nat /\ p[2] \in SUBSET Nat
      BY <1>2
    <3>2. QED
      BY <3>1
  <2> HIDE DEF D, V
  <2>2. QED
    BY <2>1
<1>5. next \in [D -> D]
  BY <1>1, <1>2
<1>6. \A j \in D : rank[j] < Len(line) + 3 /\ (j \notin base => rank[next[j]] < rank[j])
  BY <1>1, <1>2, <1>5
<1>7. PICK f \in [D -> V] : Solves(f, D, base, first, next, step)
  <2> HIDE DEF D, V, base, first, next, step, rank
  <2>1. QED
    BY <1>3, <1>4, <1>5, <1>6, Recursion
<1>8. f = turn(f)
  <2>1. ASSUME NEW j \in D
        PROVE  (IF j \in base THEN first[j] ELSE step[<<j, f[next[j]]>>])
                 = LiveBody(line, last, f, j)
    <3>1. CASE j \in base
      BY <3>1 DEF LiveBody
    <3>2. CASE j \notin base
      <4>1. ~(j > Len(line) \/ j >= last)
        BY <3>2
      <4>2. next[j] = IF line[j] = "backslash" THEN j + 2 ELSE j + 1
        BY <3>2
      <4>3. f[next[j]] \in V
        BY <1>5
      <4>4. step[<<j, f[next[j]]>>] =
              IF line[j] = "backslash" THEN f[next[j]] ELSE {j} \cup f[next[j]]
        <5> HIDE DEF V, next
        <5>1. <<j, f[next[j]]>> \in D \X V
          BY <4>3
        <5>2. QED
          BY <5>1
      <4> HIDE DEF base, first, next, step, V
      <4>5. QED
        BY <3>2, <4>1, <4>2, <4>4 DEF LiveBody
    <3>3. QED
      BY <3>1, <3>2
  <2> HIDE DEF D, V, base, first, next, step
  <2>2. QED
    BY <1>7, <2>1 DEF Solves
<1>9. LiveFrom(line, last, i) = CHOOSE g : g = turn(g)
  BY DEF LiveFrom
<1> HIDE DEF turn
<1>10. LiveFrom(line, last, i) = turn(LiveFrom(line, last, i))
  BY <1>8, <1>9
<1>11. QED
  BY <1>10 DEF turn

\* Where the three kinds of spans are closed, and the loop's memory when a
\* backslash hides a character in them.
SingleClose(line, i) == CloseOf(line, i, "single", FALSE)
DoubleClose(line, i) == CloseOf(line, i, "double", TRUE)
AnsiClose(line, i) == CloseOf(line, i, "single", TRUE)

HiddenInDouble == State(FALSE, FALSE, TRUE, TRUE, FALSE)
HiddenInAnsi == State(FALSE, TRUE, FALSE, TRUE, FALSE)

\* A double-quoted span, character by character.
LEMMA DoubleCloseSteps ==
  ASSUME NEW line \in Seq(Chars)
  PROVE  \A j \in 1..(Len(line) + 2) :
           /\ DoubleClose(line, j) = IF j > Len(line) THEN j
                                     ELSE IF line[j] = "double" THEN j
                                     ELSE IF line[j] = "backslash" THEN DoubleClose(line, j + 2)
                                     ELSE DoubleClose(line, j + 1)
           /\ DoubleClose(line, j) \in j..(Len(line) + 2)
<1>1. TRUE \in BOOLEAN
  OBVIOUS
<1>2. \A j \in 1..(Len(line) + 2) :
        CloseOf(line, j, "double", TRUE) =
          IF j > Len(line) THEN j
          ELSE IF line[j] = "double" THEN j
          ELSE IF TRUE /\ line[j] = "backslash" THEN CloseOf(line, j + 2, "double", TRUE)
          ELSE CloseOf(line, j + 1, "double", TRUE)
  BY <1>1, CloseSteps, Zenon
<1>3. \A j \in 1..(Len(line) + 2) : CloseOf(line, j, "double", TRUE) \in j..(Len(line) + 2)
  BY <1>1, CloseTyped, Zenon
<1>4. QED
  BY <1>2, <1>3, Zenon DEF DoubleClose

\* What the loop does inside the spans.
LEMMA InsideSteps ==
  ASSUME NEW line \in Seq(Chars), NEW k \in 1..Len(line)
  PROVE  /\ Quotes(line)[k] = InSingle => Quotes(line)[k + 1] =
              IF line[k] = "single" THEN Fresh ELSE InSingle
         /\ Quotes(line)[k] = InDouble => Quotes(line)[k + 1] =
              IF line[k] = "backslash" THEN HiddenInDouble
              ELSE IF line[k] = "double" THEN Fresh ELSE InDouble
         /\ Quotes(line)[k] = InAnsi => Quotes(line)[k + 1] =
              IF line[k] = "backslash" THEN HiddenInAnsi
              ELSE IF line[k] = "single" THEN Fresh ELSE InAnsi
         /\ Quotes(line)[k] = HiddenInDouble => Quotes(line)[k + 1] = InDouble
         /\ Quotes(line)[k] = HiddenInAnsi => Quotes(line)[k + 1] = InAnsi
<1>1. Quotes(line)[k + 1] = QuoteStep(line, k, Quotes(line)[k])
  BY QuotesStep
<1>2. /\ QuoteStep(line, k, InSingle) = IF line[k] = "single" THEN Fresh ELSE InSingle
      /\ QuoteStep(line, k, InDouble) = IF line[k] = "backslash" THEN HiddenInDouble
                                        ELSE IF line[k] = "double" THEN Fresh ELSE InDouble
      /\ QuoteStep(line, k, InAnsi) = IF line[k] = "backslash" THEN HiddenInAnsi
                                      ELSE IF line[k] = "single" THEN Fresh ELSE InAnsi
  BY SingleSteps, DoubleSteps, AnsiSteps, Zenon DEF HiddenInDouble, HiddenInAnsi
<1>3. /\ QuoteStep(line, k, HiddenInDouble) = InDouble
      /\ QuoteStep(line, k, HiddenInAnsi) = InAnsi
  BY HiddenSteps, Zenon DEF HiddenInDouble, HiddenInAnsi
<1>4. QED
  BY <1>1, <1>2, <1>3

\* The states differ.
LEMMA StatesDiffer ==
  /\ InSingle # Fresh /\ InDouble # Fresh /\ InAnsi # Fresh
  /\ InSingle # InDouble /\ InAnsi # InDouble
  /\ \A p \in {HiddenInDouble, HiddenInAnsi} :
       p # Fresh /\ p # InSingle /\ p # InDouble /\ p # InAnsi
<1>1. HiddenInDouble.escaped = TRUE /\ HiddenInAnsi.escaped = TRUE
  BY DEF State, HiddenInDouble, HiddenInAnsi
<1>2. QED
  BY <1>1, KnownStates

\* A double-quoted span is live exactly where the loop says it is inside it and
\* looks at something other than a backslash.
LEMMA LivePlaces ==
  ASSUME NEW line \in Seq(Chars),
         NEW i \in 1..Len(line), Quotes(line)[i + 1] = InDouble,
         NEW last, last = DoubleClose(line, i + 1)
  PROVE  LiveFrom(line, last, i + 1)[i + 1] =
           {k \in (i + 1)..(last - 1) :
              k <= Len(line) /\ Quotes(line)[k] = InDouble /\ line[k] # "backslash"}
<1> DEFINE hi == Len(line) + 2
           Q == Quotes(line)
           q == InDouble
           hidden == HiddenInDouble
           C(j) == DoubleClose(line, j)
           F == LiveFrom(line, last, i + 1)
           Places(j) ==
             {k \in j..(last - 1) : k <= Len(line) /\ Q[k] = q /\ line[k] # "backslash"}
           S == {j \in (i + 1)..hi :
                   (C(j) = last /\ (j <= Len(line) + 1 => Q[j] = q)) => F[j] = Places(j)}
<1>1. Len(line) \in Nat /\ hi \in Nat /\ i + 1 \in Nat /\ i + 1 \in 1..hi
  OBVIOUS
<1>2. \A j \in 1..hi : C(j) = IF j > Len(line) THEN j
                              ELSE IF line[j] = "double" THEN j
                              ELSE IF line[j] = "backslash" THEN C(j + 2)
                              ELSE C(j + 1)
  BY DoubleCloseSteps
<1>3. \A j \in 1..hi : C(j) \in j..hi
  BY DoubleCloseSteps
<1>4. last = C(i + 1) /\ last \in (i + 1)..hi
  BY <1>1, <1>3
<1>5. \A j \in (i + 1)..hi : F[j] = LiveBody(line, last, F, j)
  <2>1. last \in 1..hi
    BY <1>1, <1>4
  <2>2. F = [j \in (i + 1)..hi |-> LiveBody(line, last, F, j)]
    BY <1>1, <2>1, LiveExists
  <2> HIDE DEF F
  <2>3. QED
    BY <2>2
<1>7. /\ hidden # q
      /\ \A k \in 1..Len(line) : Q[k] = q =>
           Q[k + 1] = IF line[k] = "backslash" THEN hidden
                      ELSE IF line[k] = "double" THEN Fresh ELSE q
      /\ \A k \in 1..Len(line) : Q[k] = hidden => Q[k + 1] = q
  BY StatesDiffer, InsideSteps
<1>8. Q[i + 1] = q
  OBVIOUS
<1> HIDE DEF C, Q, F, q, hidden
<1>9. ASSUME NEW j \in (i + 1)..hi, \A k \in (j + 1)..hi : k \in S
      PROVE  j \in S
  <2>1. SUFFICES ASSUME C(j) = last, j <= Len(line) + 1 => Q[j] = q
                 PROVE  F[j] = Places(j)
    OBVIOUS
  <2>2. j \in 1..hi /\ j \in Nat /\ last \in Nat
    BY <1>1, <1>4
  <2>3. CASE j > Len(line)
    <3>1. F[j] = {}
      BY <1>5, <2>3 DEF LiveBody
    <3>2. QED
      BY <1>1, <2>2, <2>3, <3>1
  <2>4. CASE j <= Len(line) /\ line[j] = "double"
    <3>1. last = j
      BY <1>1, <1>2, <2>1, <2>2, <2>4
    <3>2. j >= last
      BY <2>2, <3>1
    <3>3. F[j] = {}
      BY <1>5, <3>2, Zenon DEF LiveBody
    <3>4. QED
      BY <2>2, <3>1, <3>3
  <2>5. CASE j <= Len(line) /\ line[j] = "backslash"
    <3>1. C(j + 2) = last /\ Q[j] = q /\ j \in 1..Len(line)
      BY <1>1, <1>2, <2>1, <2>2, <2>5
    <3>2. Q[j + 1] = hidden
      BY <1>7, <2>5, <3>1
    <3>3. j + 2 <= Len(line) + 1 => Q[j + 2] = q
      <4>1. SUFFICES ASSUME j + 2 <= Len(line) + 1 PROVE Q[j + 2] = q
        OBVIOUS
      <4>2. j + 1 \in 1..Len(line) /\ (j + 1) + 1 = j + 2
        BY <1>1, <2>2, <4>1
      <4>3. Q[(j + 1) + 1] = q
        BY <1>7, <3>2, <4>2
      <4>4. QED
        BY <4>2, <4>3
    <3>4. j + 2 \in (j + 1)..hi /\ j + 2 \in (i + 1)..hi /\ j + 2 \in 1..hi
      BY <1>1, <2>2, <2>5
    <3>5. F[j + 2] = Places(j + 2)
      <4>1. j + 2 \in S
        BY <1>9, <3>4
      <4>2. QED
        BY <3>1, <3>3, <4>1
    <3>6. j + 2 <= last
      BY <1>3, <2>2, <3>1, <3>4
    <3>7. F[j] = F[j + 2]
      <4>1. ~(j > Len(line) \/ j >= last)
        BY <1>1, <2>2, <2>5, <3>6
      <4>2. QED
        BY <1>5, <2>5, <4>1, Zenon DEF LiveBody
    <3>8. Places(j) = Places(j + 2)
      <4>1. \A k \in j..(last - 1) : k = j \/ k = j + 1 \/ k \in (j + 2)..(last - 1)
        BY <1>1, <2>2
      <4>2. \A k \in (j + 2)..(last - 1) : k \in j..(last - 1)
        BY <1>1, <2>2
      <4>3. QED
        BY <1>7, <2>5, <3>2, <4>1, <4>2
    <3>9. QED
      BY <3>5, <3>7, <3>8
  <2>6. CASE j <= Len(line) /\ line[j] # "double" /\ line[j] # "backslash"
    <3>1. C(j + 1) = last /\ Q[j] = q /\ j \in 1..Len(line)
      BY <1>1, <1>2, <2>1, <2>2, <2>6
    <3>2. Q[j + 1] = q
      BY <1>7, <2>6, <3>1
    <3>3. j + 1 \in (j + 1)..hi /\ j + 1 \in (i + 1)..hi /\ j + 1 \in 1..hi
      BY <1>1, <2>2, <2>6
    <3>4. F[j + 1] = Places(j + 1)
      <4>1. j + 1 \in S
        BY <1>9, <3>3
      <4>2. QED
        BY <3>1, <3>2, <4>1
    <3>5. j + 1 <= last
      BY <1>3, <2>2, <3>1, <3>3
    <3>6. F[j] = {j} \cup F[j + 1]
      <4>1. ~(j > Len(line) \/ j >= last)
        BY <1>1, <2>2, <2>6, <3>5
      <4>2. QED
        BY <1>5, <2>6, <4>1, Zenon DEF LiveBody
    <3>7. Places(j) = {j} \cup Places(j + 1)
      <4>1. \A k \in j..(last - 1) : k = j \/ k \in (j + 1)..(last - 1)
        BY <1>1, <2>2
      <4>2. \A k \in (j + 1)..(last - 1) : k \in j..(last - 1)
        BY <1>1, <2>2
      <4>3. j \in j..(last - 1)
        BY <1>1, <2>2, <3>5
      <4>4. QED
        BY <2>6, <3>1, <4>1, <4>2, <4>3
    <3>8. QED
      BY <3>4, <3>6, <3>7
  <2>7. QED
    BY <1>1, <2>2, <2>3, <2>4, <2>5, <2>6
<1>10. \A j \in (i + 1)..hi : j \in S
  <2> HIDE DEF S, hi
  <2>1. QED
    BY <1>1, <1>9, FromTheEnd
<1>11. F[i + 1] = Places(i + 1)
  <2>1. i + 1 \in (i + 1)..hi
    BY <1>1
  <2>2. i + 1 \in S
    BY <1>10, <2>1
  <2>3. QED
    BY <1>4, <1>8, <2>2
<1>12. QED
  BY <1>11 DEF Q, F, q


\* The loop's memory from a span's opening quote to its closing one.
LEMMA SpansClose ==
  ASSUME NEW line \in Seq(Chars), NEW i \in 1..(Len(line) + 2)
  PROVE  /\ (i <= Len(line) + 1 => Quotes(line)[i] = InSingle) =>
              LET c == SingleClose(line, i) IN
              /\ \A k \in i..(c - 1) : k <= Len(line) => Quotes(line)[k] \notin {Fresh, InDouble}
              /\ c <= Len(line) => Quotes(line)[c] = InSingle /\ Quotes(line)[c + 1] = Fresh
         /\ (i <= Len(line) + 1 => Quotes(line)[i] = InAnsi) =>
              LET c == AnsiClose(line, i) IN
              /\ \A k \in i..(c - 1) : k <= Len(line) => Quotes(line)[k] \notin {Fresh, InDouble}
              /\ c <= Len(line) => Quotes(line)[c] = InAnsi /\ Quotes(line)[c + 1] = Fresh
         /\ (i <= Len(line) + 1 => Quotes(line)[i] = InDouble) =>
              LET c == DoubleClose(line, i) IN
              /\ \A k \in i..(c - 1) : k <= Len(line) => Quotes(line)[k] # Fresh
              /\ c <= Len(line) => /\ line[c] = "double"
                                   /\ Quotes(line)[c] = InDouble /\ Quotes(line)[c + 1] = Fresh
<1> DEFINE Q == Quotes(line)
<1>1. TRUE \in BOOLEAN /\ FALSE \in BOOLEAN
  OBVIOUS
<1>2. /\ Spans(line, InSingle, HiddenInDouble, "single", FALSE)
      /\ Spans(line, InDouble, HiddenInDouble, "double", TRUE)
      /\ Spans(line, InAnsi, HiddenInAnsi, "single", TRUE)
  BY StatesDiffer, InsideSteps DEF Spans
<1>3. /\ InSingle \notin {Fresh, InDouble} /\ InAnsi \notin {Fresh, InDouble}
      /\ HiddenInDouble \notin {Fresh, InDouble} /\ HiddenInAnsi \notin {Fresh, InDouble}
      /\ InDouble # Fresh
  BY StatesDiffer
<1>4. ASSUME i <= Len(line) + 1 => Q[i] = InSingle,
             NEW c, c = CloseOf(line, i, "single", FALSE)
      PROVE  /\ \A k \in i..(c - 1) : k <= Len(line) => Q[k] \notin {Fresh, InDouble}
             /\ c <= Len(line) => Q[c] = InSingle /\ Q[c + 1] = Fresh
  <2>1. /\ \A k \in i..(c - 1) : k <= Len(line) => Q[k] \in {InSingle, HiddenInDouble}
        /\ c <= Len(line) => /\ line[c] = "single" /\ Q[c] = InSingle /\ Q[c + 1] = Fresh
    <3>1. Opened(line, i, InSingle)
      BY <1>4, Zenon DEF Opened
    <3>2. Closed(line, i, c, InSingle, HiddenInDouble, "single")
      BY <1>1, <1>2, <1>4, <3>1, Span, Zenon
    <3>3. QED
      BY <3>2, Zenon DEF Closed
  <2>2. QED
    BY <1>3, <2>1, Zenon
<1>5. ASSUME i <= Len(line) + 1 => Q[i] = InAnsi,
             NEW c, c = CloseOf(line, i, "single", TRUE)
      PROVE  /\ \A k \in i..(c - 1) : k <= Len(line) => Q[k] \notin {Fresh, InDouble}
             /\ c <= Len(line) => Q[c] = InAnsi /\ Q[c + 1] = Fresh
  <2>1. /\ \A k \in i..(c - 1) : k <= Len(line) => Q[k] \in {InAnsi, HiddenInAnsi}
        /\ c <= Len(line) => /\ line[c] = "single" /\ Q[c] = InAnsi /\ Q[c + 1] = Fresh
    <3>1. Opened(line, i, InAnsi)
      BY <1>5, Zenon DEF Opened
    <3>2. Closed(line, i, c, InAnsi, HiddenInAnsi, "single")
      BY <1>1, <1>2, <1>5, <3>1, Span, Zenon
    <3>3. QED
      BY <3>2, Zenon DEF Closed
  <2>2. QED
    BY <1>3, <2>1, Zenon
<1>6. ASSUME i <= Len(line) + 1 => Q[i] = InDouble,
             NEW c, c = CloseOf(line, i, "double", TRUE)
      PROVE  /\ \A k \in i..(c - 1) : k <= Len(line) => Q[k] # Fresh
             /\ c <= Len(line) => /\ line[c] = "double" /\ Q[c] = InDouble /\ Q[c + 1] = Fresh
  <2>1. /\ \A k \in i..(c - 1) : k <= Len(line) => Q[k] \in {InDouble, HiddenInDouble}
        /\ c <= Len(line) => /\ line[c] = "double" /\ Q[c] = InDouble /\ Q[c + 1] = Fresh
    <3>1. Opened(line, i, InDouble)
      BY <1>6, Zenon DEF Opened
    <3>2. Closed(line, i, c, InDouble, HiddenInDouble, "double")
      BY <1>1, <1>2, <1>6, <3>1, Span, Zenon
    <3>3. QED
      BY <3>2, Zenon DEF Closed
  <2>2. QED
    BY <1>3, <2>1, Zenon
<1>7. QED
  BY <1>4, <1>5, <1>6, Zenon DEF SingleClose, AnsiClose, DoubleClose

\* A double-quoted span is live where the loop is inside it and looks at
\* something other than a backslash.
LEMMA LiveIsInside ==
  ASSUME NEW line \in Seq(Chars), NEW i \in 1..Len(line), Quotes(line)[i + 1] = InDouble
  PROVE  LiveInDouble(line, i) =
           {k \in (i + 1)..(DoubleClose(line, i + 1) - 1) :
              k <= Len(line) /\ Quotes(line)[k] = InDouble /\ line[k] # "backslash"}
<1>1. LiveInDouble(line, i) = LiveFrom(line, DoubleClose(line, i + 1), i + 1)[i + 1]
  BY Zenon DEF LiveInDouble, LiveFrom, LiveBody, DoubleClose
<1>2. QED
  BY <1>1, LivePlaces, Zenon

\* The position after a lexeme, by the kind of lexeme.
AfterKind(line, i) ==
  CASE line[i] = "backslash" -> i + 2
    [] line[i] = "single" -> SingleClose(line, i + 1) + 1
    [] line[i] = "double" -> DoubleClose(line, i + 1) + 1
    [] line[i] = "dollar" /\ At(line, i + 1) = "single" -> AnsiClose(line, i + 2) + 1
    [] OTHER -> i + 1

\* Lexemes are not empty and do not go beyond the line by more than two.
LEMMA AfterTyped ==
  ASSUME NEW line \in Seq(Chars), NEW i \in 1..Len(line)
  PROVE  /\ AfterLexeme(line, i) = AfterKind(line, i)
         /\ AfterLexeme(line, i) \in (i + 1)..(Len(line) + 3)
         /\ At(line, i + 1) = "single" => i + 1 \in 1..Len(line)
<1>1. AfterLexeme(line, i) = AfterKind(line, i)
  BY Zenon DEF AfterLexeme, AfterKind, SingleClose, DoubleClose, AnsiClose
<1>2. Len(line) \in Nat /\ i + 1 \in 1..(Len(line) + 2) /\ i \in Nat
  OBVIOUS
<1>3. At(line, i + 1) = "single" => i + 1 \in 1..Len(line)
  BY DEF At
<1>4. At(line, i + 1) = "single" => i + 2 \in 1..(Len(line) + 2)
  BY <1>2, <1>3
<1>5. TRUE \in BOOLEAN /\ FALSE \in BOOLEAN
  OBVIOUS
<1>6. SingleClose(line, i + 1) \in (i + 1)..(Len(line) + 2)
  BY <1>2, <1>5, CloseTyped, Zenon DEF SingleClose
<1>7. DoubleClose(line, i + 1) \in (i + 1)..(Len(line) + 2)
  BY <1>2, <1>5, CloseTyped, Zenon DEF DoubleClose
<1>8. At(line, i + 1) = "single" => AnsiClose(line, i + 2) \in (i + 2)..(Len(line) + 2)
  BY <1>4, <1>5, CloseTyped, Zenon DEF AnsiClose
<1>9. AfterKind(line, i) \in (i + 1)..(Len(line) + 3)
  <2>1. \A c \in (i + 1)..(Len(line) + 2) : c + 1 \in (i + 1)..(Len(line) + 3)
    BY <1>2
  <2>2. \A c \in (i + 2)..(Len(line) + 2) : c + 1 \in (i + 1)..(Len(line) + 3)
    BY <1>2
  <2>3. i + 1 \in (i + 1)..(Len(line) + 3) /\ i + 2 \in (i + 1)..(Len(line) + 3)
    BY <1>2
  <2>4. QED
    BY <1>6, <1>7, <1>8, <2>1, <2>2, <2>3, Zenon DEF AfterKind
<1>10. QED
  BY <1>1, <1>3, <1>9

\* What the loop sees between the beginnings of two lexemes.
Between(line, i, k) ==
  /\ Quotes(line)[k] # Fresh
  /\ Quotes(line)[k] = InDouble =>
       line[i] = "double" /\ (k \in LiveInDouble(line, i) \/ line[k] # "dollar")

\* The loop is outside all quotes at the beginning of a lexeme, and not again
\* before the beginning of the next.
LEMMA LexemeStep ==
  ASSUME NEW line \in Seq(Chars), NEW i \in 1..Len(line), Quotes(line)[i] = Fresh,
         NEW a, a = AfterLexeme(line, i)
  PROVE  /\ a <= Len(line) + 1 => Quotes(line)[a] = Fresh
         /\ \A k \in (i + 1)..(a - 1) : k <= Len(line) => Between(line, i, k)
<1> DEFINE Q == Quotes(line)
           escaped == State(FALSE, FALSE, FALSE, TRUE, FALSE)
           taken == State(FALSE, TRUE, FALSE, FALSE, TRUE)
<1>1. Len(line) \in Nat /\ i \in Nat /\ i + 1 \in 1..(Len(line) + 2)
  OBVIOUS
<1>2. Q[i + 1] = IF line[i] = "backslash" THEN escaped
                 ELSE IF line[i] = "dollar" /\ At(line, i + 1) = "single" THEN taken
                 ELSE IF line[i] = "single" THEN InSingle
                 ELSE IF line[i] = "double" THEN InDouble
                 ELSE Fresh
  BY QuotesStep, FreshSteps
<1>3. escaped \notin {Fresh, InDouble} /\ taken \notin {Fresh, InDouble}
  <2>1. escaped.escaped = TRUE /\ taken.taken = TRUE
    BY DEF State
  <2>2. QED
    BY <2>1, KnownStates
<1>4. \A k \in 1..Len(line) : /\ Q[k] = escaped => Q[k + 1] = Fresh
                              /\ Q[k] = taken => Q[k + 1] = InAnsi
  BY QuotesStep, HiddenSteps
<1>5. \A k : Q[k] \notin {Fresh, InDouble} => Between(line, i, k)
  BY Zenon DEF Between
<1> HIDE DEF Q, escaped, taken
<1>6. CASE line[i] = "backslash"
  <2>1. a = i + 2 /\ Q[i + 1] = escaped
    BY <1>2, <1>6, AfterTyped DEF AfterKind
  <2>2. i + 1 <= Len(line) => Q[(i + 1) + 1] = Fresh
    BY <1>1, <1>4, <2>1
  <2>3. \A k \in (i + 1)..(a - 1) : k = i + 1
    BY <1>1, <2>1
  <2>4. QED
    BY <1>1, <1>3, <1>5, <2>1, <2>2, <2>3 DEF Q
<1>7. CASE line[i] = "single"
  <2> DEFINE c == SingleClose(line, i + 1)
  <2>1. a = c + 1 /\ Q[i + 1] = InSingle
    BY <1>2, <1>7, AfterTyped DEF AfterKind
  <2>2. c \in Nat
    <3>1. FALSE \in BOOLEAN
      OBVIOUS
    <3>2. c \in (i + 1)..(Len(line) + 2)
      BY <1>1, <3>1, CloseTyped, Zenon DEF SingleClose
    <3> HIDE DEF c
    <3>3. QED
      BY <1>1, <3>2
  <2>3. /\ \A k \in (i + 1)..(c - 1) : k <= Len(line) => Q[k] \notin {Fresh, InDouble}
        /\ c <= Len(line) => Q[c] = InSingle /\ Q[c + 1] = Fresh
    BY <1>1, <2>1, SpansClose, Zenon DEF Q
  <2>4. \A k \in (i + 1)..(a - 1) : k = c \/ k \in (i + 1)..(c - 1)
    BY <1>1, <2>1, <2>2
  <2>5. InSingle \notin {Fresh, InDouble}
    BY StatesDiffer
  <2> HIDE DEF c
  <2>6. QED
    BY <1>1, <1>5, <2>1, <2>2, <2>3, <2>4, <2>5 DEF Q
<1>8. CASE line[i] = "double"
  <2> DEFINE c == DoubleClose(line, i + 1)
  <2>1. a = c + 1 /\ Q[i + 1] = InDouble
    BY <1>2, <1>8, AfterTyped DEF AfterKind
  <2>2. c \in Nat
    BY <1>1, DoubleCloseSteps
  <2>3. /\ \A k \in (i + 1)..(c - 1) : k <= Len(line) => Q[k] # Fresh
        /\ c <= Len(line) => line[c] = "double" /\ Q[c] = InDouble /\ Q[c + 1] = Fresh
    BY <1>1, <2>1, SpansClose, Zenon DEF Q
  <2>4. LiveInDouble(line, i) = {k \in (i + 1)..(c - 1) :
                                   k <= Len(line) /\ Q[k] = InDouble /\ line[k] # "backslash"}
    BY <2>1, LiveIsInside, Zenon DEF Q
  <2>5. \A k \in (i + 1)..(a - 1) : k = c \/ k \in (i + 1)..(c - 1)
    BY <1>1, <2>1, <2>2
  <2>6. InDouble # Fresh
    BY StatesDiffer
  <2> HIDE DEF c
  <2>7. ASSUME NEW k \in (i + 1)..(a - 1), k <= Len(line)
        PROVE  Between(line, i, k)
    <3>1. CASE k = c
      BY <1>8, <2>3, <2>6, <2>7, <3>1 DEF Between, Q
    <3>2. CASE k \in (i + 1)..(c - 1)
      <4>1. Q[k] # Fresh
        BY <2>3, <2>7, <3>2
      <4>2. Q[k] = InDouble /\ line[k] = "dollar" => k \in LiveInDouble(line, i)
        BY <2>4, <2>7, <3>2
      <4>3. QED
        BY <1>8, <4>1, <4>2 DEF Between, Q
    <3>3. QED
      BY <2>5, <2>7, <3>1, <3>2
  <2>8. a <= Len(line) + 1 => Q[a] = Fresh
    BY <1>1, <2>1, <2>2, <2>3
  <2>9. QED
    BY <2>7, <2>8 DEF Q
<1>9. CASE line[i] = "dollar" /\ At(line, i + 1) = "single"
  <2> DEFINE c == AnsiClose(line, i + 2)
  <2>1. a = c + 1 /\ Q[i + 1] = taken /\ i + 1 \in 1..Len(line)
    BY <1>2, <1>9, AfterTyped DEF AfterKind
  <2>2. i + 2 \in 1..(Len(line) + 2) /\ (i + 1) + 1 = i + 2
    BY <1>1, <2>1
  <2>3. Q[i + 2] = InAnsi
    <3>1. Q[(i + 1) + 1] = InAnsi
      BY <1>4, <2>1
    <3>2. QED
      BY <2>2, <3>1
  <2>4. c \in Nat /\ c >= i + 2
    <3>1. TRUE \in BOOLEAN
      OBVIOUS
    <3>2. c \in (i + 2)..(Len(line) + 2)
      BY <2>2, <3>1, CloseTyped, Zenon DEF AnsiClose
    <3> HIDE DEF c
    <3>3. QED
      BY <1>1, <3>2
  <2>5. /\ \A k \in (i + 2)..(c - 1) : k <= Len(line) => Q[k] \notin {Fresh, InDouble}
        /\ c <= Len(line) => Q[c] = InAnsi /\ Q[c + 1] = Fresh
    BY <2>2, <2>3, SpansClose, Zenon DEF Q
  <2> HIDE DEF c
  <2>6. \A k \in (i + 1)..(a - 1) : k = i + 1 \/ k = c \/ k \in (i + 2)..(c - 1)
    BY <1>1, <2>1, <2>4
  <2>7. InAnsi \notin {Fresh, InDouble}
    BY StatesDiffer
  <2>8. QED
    BY <1>1, <1>3, <1>5, <2>1, <2>4, <2>5, <2>6, <2>7 DEF Q
<1>10. CASE /\ line[i] \notin {"backslash", "single", "double"}
            /\ ~(line[i] = "dollar" /\ At(line, i + 1) = "single")
  <2>1. a = i + 1 /\ Q[i + 1] = Fresh
    BY <1>2, <1>10, AfterTyped DEF AfterKind
  <2>2. QED
    BY <1>1, <2>1 DEF Q
<1>11. QED
  BY <1>6, <1>7, <1>8, <1>9, <1>10

\* LexemesOf's function.
LexemesBody(line, f, i) == IF i > Len(line) THEN {} ELSE {i} \cup f[AfterLexeme(line, i)]
LexemesFrom(line) == CHOOSE f : f = [i \in 1..(Len(line) + 3) |-> LexemesBody(line, f, i)]

\* The function exists.
LEMMA LexemesExist ==
  ASSUME NEW line \in Seq(Chars)
  PROVE  LexemesFrom(line) =
           [i \in 1..(Len(line) + 3) |-> LexemesBody(line, LexemesFrom(line), i)]
<1> DEFINE D == 1..(Len(line) + 3)
           V == SUBSET Nat
           base == {i \in D : i > Len(line)}
           first == [i \in D |-> {}]
           next == [i \in D |-> IF i \in base THEN i ELSE AfterLexeme(line, i)]
           step == [p \in D \X V |-> {p[1]} \cup p[2]]
           rank == [i \in D |-> (Len(line) + 3) - i]
           turn(f) == [i \in D |-> LexemesBody(line, f, i)]
<1>1. Len(line) \in Nat
  OBVIOUS
<1>2. \A i \in D : i \in Nat /\ i <= Len(line) + 3
  BY <1>1
<1>3. \A i \in D : i \notin base => AfterLexeme(line, i) \in (i + 1)..(Len(line) + 3)
  BY <1>1, AfterTyped
<1>4. /\ first \in [D -> V] /\ rank \in [D -> Nat] /\ Len(line) + 4 \in Nat
  BY <1>1, <1>2
<1>5. step \in [D \X V -> V]
  <2>1. ASSUME NEW p \in D \X V
        PROVE  {p[1]} \cup p[2] \in V
    <3>1. p[1] \in Nat /\ p[2] \in SUBSET Nat
      BY <1>2
    <3>2. QED
      BY <3>1
  <2> HIDE DEF D, V
  <2>2. QED
    BY <2>1
<1>6. \A i \in D : i \notin base => AfterLexeme(line, i) \in D /\ AfterLexeme(line, i) > i
  BY <1>1, <1>2, <1>3
<1>7. next \in [D -> D]
  <2> HIDE DEF D, base
  <2>1. QED
    BY <1>6
<1>8. \A i \in D : rank[i] < Len(line) + 4 /\ (i \notin base => rank[next[i]] < rank[i])
  BY <1>1, <1>2, <1>6, <1>7
<1>9. PICK f \in [D -> V] : Solves(f, D, base, first, next, step)
  <2> HIDE DEF D, V, base, first, next, step, rank
  <2>1. QED
    BY <1>4, <1>5, <1>7, <1>8, Recursion
<1>10. f = turn(f)
  <2>1. ASSUME NEW i \in D
        PROVE  (IF i \in base THEN first[i] ELSE step[<<i, f[next[i]]>>]) = LexemesBody(line, f, i)
    <3>1. CASE i \in base
      BY <3>1 DEF LexemesBody
    <3>2. CASE i \notin base
      <4>1. ~(i > Len(line))
        BY <3>2
      <4>2. next[i] = AfterLexeme(line, i)
        BY <3>2
      <4>3. f[next[i]] \in V
        BY <1>7
      <4>4. step[<<i, f[next[i]]>>] = {i} \cup f[next[i]]
        <5> HIDE DEF V, next
        <5>1. <<i, f[next[i]]>> \in D \X V
          BY <4>3
        <5>2. QED
          BY <5>1
      <4> HIDE DEF base, first, next, step, V
      <4>5. QED
        BY <3>2, <4>1, <4>2, <4>4 DEF LexemesBody
    <3>3. QED
      BY <3>1, <3>2
  <2> HIDE DEF D, V, base, first, next, step
  <2>2. QED
    BY <1>9, <2>1 DEF Solves
<1>11. LexemesFrom(line) = CHOOSE g : g = turn(g)
  BY DEF LexemesFrom
<1> HIDE DEF turn
<1>12. LexemesFrom(line) = turn(LexemesFrom(line))
  BY <1>10, <1>11
<1>13. QED
  BY <1>12 DEF turn

\* The lexemes begin where the loop is outside all quotes, and what is between
\* two of them is in the first one.
LEMMA Lexemes ==
  ASSUME NEW line \in Seq(Chars)
  PROVE  /\ LexemesOf(line) = {k \in 1..Len(line) : Quotes(line)[k] = Fresh}
         /\ \A k \in 1..Len(line) :
              Quotes(line)[k] = Fresh \/ \E i \in LexemesOf(line) : Between(line, i, k)
<1> DEFINE hi == Len(line) + 3
           Q == Quotes(line)
           F == LexemesFrom(line)
           Read(j) ==
             /\ F[j] = {k \in j..Len(line) : Q[k] = Fresh}
             /\ \A k \in j..Len(line) : Q[k] = Fresh \/ \E i \in F[j] : Between(line, i, k)
           S == {j \in 1..hi : (j <= Len(line) + 1 => Q[j] = Fresh) => Read(j)}
<1>1. Len(line) \in Nat /\ hi \in Nat /\ 1 \in Nat /\ 1 \in 1..hi
  OBVIOUS
<1>2. \A j \in 1..hi : F[j] = IF j > Len(line) THEN {} ELSE {j} \cup F[AfterLexeme(line, j)]
  <2>1. F = [i \in 1..hi |-> LexemesBody(line, F, i)]
    BY LexemesExist
  <2> HIDE DEF F, hi
  <2>2. QED
    BY <2>1, Zenon DEF LexemesBody
<1>3. LexemesOf(line) = F[1]
  BY Zenon DEF LexemesOf, LexemesFrom, LexemesBody
<1>4. Q[1] = Fresh
  BY QuotesStep
<1>5. ASSUME NEW j \in 1..Len(line), Q[j] = Fresh, NEW a, a = AfterLexeme(line, j)
      PROVE  /\ a \in (j + 1)..hi
             /\ a <= Len(line) + 1 => Q[a] = Fresh
             /\ \A k \in (j + 1)..(a - 1) : k <= Len(line) => Between(line, j, k)
  BY <1>5, AfterTyped, LexemeStep, Zenon
<1>6. \A i, k : Between(line, i, k) => Q[k] # Fresh
  BY Zenon DEF Between
<1> HIDE DEF Q, F
<1>7. ASSUME NEW j \in 1..hi, \A k \in (j + 1)..hi : k \in S
      PROVE  j \in S
  <2>1. SUFFICES ASSUME j <= Len(line) + 1 => Q[j] = Fresh
                 PROVE  Read(j)
    OBVIOUS
  <2>2. CASE j > Len(line)
    <3>1. F[j] = {}
      BY <1>2, <2>2, Zenon
    <3>2. \A k \in j..Len(line) : FALSE
      BY <1>1, <2>2
    <3>3. QED
      BY <3>1, <3>2
  <2>3. CASE j <= Len(line)
    <3> DEFINE a == AfterLexeme(line, j)
    <3>1. j \in 1..Len(line) /\ Q[j] = Fresh /\ ~(j > Len(line))
      BY <1>1, <2>1, <2>3
    <3>2. /\ a \in (j + 1)..hi
          /\ a <= Len(line) + 1 => Q[a] = Fresh
          /\ \A k \in (j + 1)..(a - 1) : k <= Len(line) => Between(line, j, k)
      BY <1>5, <3>1, Zenon
    <3>3. F[j] = {j} \cup F[a]
      BY <1>2, <3>1, Zenon
    <3> HIDE DEF a
    <3>4. a \in 1..hi /\ a \in Nat
      BY <1>1, <3>1, <3>2
    <3>5. a \in S
      BY <1>7, <3>2
    <3>6. Read(a)
      BY <3>2, <3>5
    <3>7. \A k \in j..Len(line) : k = j \/ k \in (j + 1)..(a - 1) \/ k \in a..Len(line)
      BY <1>1, <3>1, <3>4
    <3>8. \A k \in a..Len(line) : k \in j..Len(line)
      BY <1>1, <3>1, <3>2, <3>4
    <3>9. \A k \in j..Len(line) : Q[k] = Fresh <=> k = j \/ (k \in a..Len(line) /\ Q[k] = Fresh)
      BY <1>6, <3>1, <3>2, <3>7
    <3>10. F[j] = {k \in j..Len(line) : Q[k] = Fresh}
      BY <3>1, <3>3, <3>6, <3>8, <3>9
    <3>11. ASSUME NEW k \in j..Len(line)
           PROVE  Q[k] = Fresh \/ \E i \in F[j] : Between(line, i, k)
      <4>1. CASE k = j
        BY <3>1, <4>1
      <4>2. CASE k \in (j + 1)..(a - 1)
        BY <3>2, <3>3, <4>2
      <4>3. CASE k \in a..Len(line)
        BY <3>3, <3>6, <4>3
      <4>4. QED
        BY <3>7, <4>1, <4>2, <4>3
    <3>12. QED
      BY <3>10, <3>11
  <2>4. QED
    BY <1>1, <2>2, <2>3
<1>8. \A j \in 1..hi : j \in S
  <2> HIDE DEF S, hi
  <2>1. QED
    BY <1>1, <1>7, FromTheEnd
<1>9. Read(1)
  BY <1>1, <1>4, <1>8
<1>10. QED
  BY <1>3, <1>9 DEF Q

-----------------------------------------------------------------------------
(* The scanners                                                            *)

\* A line is cut exactly where a shell would cut it.
\* (_split_top_level_segments)
THEOREM CutsAgree ==
  ASSUME NEW line \in Seq(Chars)
  PROVE  Cuts(line) = ShellCuts(line)
<1>1. \A i \in 1..Len(line) : Quotes(line)[i] \in States
  BY QuotesStep
<1>2. \A i \in 1..Len(line) :
        Plain(Quotes(line)[i]) /\ Bare(Quotes(line)[i]) <=> Quotes(line)[i] = Fresh
  BY <1>1, FreshIsPlain
<1>3. LexemesOf(line) = {k \in 1..Len(line) : Quotes(line)[k] = Fresh}
  BY Lexemes
<1>4. Cuts(line) = {i \in 1..Len(line) : Quotes(line)[i] = Fresh /\ line[i] = "semicolon"}
  BY <1>2 DEF Cuts
<1>5. QED
  BY <1>3, <1>4 DEF ShellCuts

\* A substitution is found exactly where a shell would expand one.
\* (_contains_shell_substitution)
THEOREM SubstitutionsAgree ==
  ASSUME NEW line \in Seq(Chars)
  PROVE  ContainsShellSubstitution(line) <=> ShellExpands(line)
<1> DEFINE Q == Quotes(line)
           Begins(i) == line[i] = "dollar" /\ At(line, i + 1) = "paren"
<1>1. \A i \in 1..Len(line) : Q[i] \in States
  BY QuotesStep
<1>2. ASSUME NEW q \in States
      PROVE  Plain(q) /\ ~q.single /\ ~q.ansi <=> q \in {Fresh, InDouble}
  <2>1. ASSUME Plain(q), ~q.single, ~q.ansi
        PROVE  q \in {Fresh, InDouble}
    <3>1. /\ q.single = FALSE /\ q.ansi = FALSE /\ q.escaped = FALSE /\ q.taken = FALSE
          /\ q.double \in BOOLEAN
      BY <2>1 DEF Plain, States
    <3>2. q = State(FALSE, FALSE, q.double, FALSE, FALSE)
      BY <3>1, Values, Zenon
    <3>3. q.double = TRUE \/ q.double = FALSE
      BY <3>1
    <3>4. QED
      BY <3>2, <3>3, KnownStates, Zenon DEF InDouble
  <2>2. ASSUME q \in {Fresh, InDouble}
        PROVE  Plain(q) /\ ~q.single /\ ~q.ansi
    BY <2>2, KnownStates DEF Plain
  <2>3. QED
    BY <2>1, <2>2
<1>3. ContainsShellSubstitution(line) <=>
        \E i \in 1..Len(line) : Q[i] \in {Fresh, InDouble} /\ Begins(i)
  BY <1>1, <1>2, Zenon DEF ContainsShellSubstitution
<1>4. /\ LexemesOf(line) = {k \in 1..Len(line) : Q[k] = Fresh}
      /\ \A k \in 1..Len(line) : Q[k] = Fresh \/ \E i \in LexemesOf(line) : Between(line, i, k)
  BY Lexemes
<1>5. ShellExpands(line) <=>
        \E i : /\ \/ i \in LexemesOf(line)
                  \/ \E j \in LexemesOf(line) : line[j] = "double" /\ i \in LiveInDouble(line, j)
               /\ Begins(i)
  BY DEF ShellExpands
<1>6. ASSUME NEW j \in LexemesOf(line), line[j] = "double", NEW i \in LiveInDouble(line, j)
      PROVE  i \in 1..Len(line) /\ Q[i] = InDouble
  <2>1. j \in 1..Len(line) /\ Q[j] = Fresh
    BY <1>4
  <2>2. Q[j + 1] = InDouble
    BY <1>6, <2>1, QuotesStep, FreshSteps
  <2>3. LiveInDouble(line, j) =
          {k \in (j + 1)..(DoubleClose(line, j + 1) - 1) :
             k <= Len(line) /\ Q[k] = InDouble /\ line[k] # "backslash"}
    BY <2>1, <2>2, LiveIsInside, Zenon
  <2>4. DoubleClose(line, j + 1) \in Nat
    BY <2>1, DoubleCloseSteps
  <2> HIDE DEF Q
  <2>5. i \in (j + 1)..(DoubleClose(line, j + 1) - 1) /\ i <= Len(line) /\ Q[i] = InDouble
    BY <2>3
  <2>6. QED
    BY <2>1, <2>4, <2>5
<1>7. ASSUME NEW i \in 1..Len(line), Q[i] = InDouble, Begins(i)
      PROVE  \E j \in LexemesOf(line) : line[j] = "double" /\ i \in LiveInDouble(line, j)
  <2>1. Q[i] # Fresh
    BY <1>7, StatesDiffer
  <2>2. PICK j \in LexemesOf(line) : Between(line, j, i)
    BY <1>4, <2>1
  <2>3. line[j] = "double" /\ (i \in LiveInDouble(line, j) \/ line[i] # "dollar")
    BY <1>7, <2>2 DEF Between
  <2>4. QED
    BY <1>7, <2>3
<1> HIDE DEF Q, Begins
<1>8. QED
  BY <1>3, <1>4, <1>5, <1>6, <1>7
=============================================================================
