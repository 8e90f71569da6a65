-------------------------- MODULE CodeExtractionProofs -------------------------
(***************************************************************************)
(* Theorems about CodeExtraction, for texts of any length: its operators   *)
(* find what the reference definitions at its end say they find.           *)
(*                                                                         *)
(* The operators are loops over the lines of a text, written as recursive  *)
(* functions on 0 .. n.  What is needed of induction comes first, from the *)
(* well-foundedness of < on the naturals, as facts about sets.             *)
(***************************************************************************)
EXTENDS CodeExtraction, FiniteSetTheorems, SequenceTheorems, WellFoundedInduction,
        TLAPS

\* The order of the naturals, as a relation.
Below == { p \in Nat \X Nat : p[1] < p[2] }

\* A set of naturals that is not empty has a least element.
LEMMA LeastIsLeast ==
  ASSUME NEW S \in SUBSET Nat, S # {}
  PROVE  \E x \in S : \A y \in S : x <= y
<1>1. IsWellFoundedOn(Below, Nat)
  BY NatLessThanWellFounded DEF OpToRel, Below
<1>2. PICK x \in S : \A y \in S : <<y, x>> \notin Below
  BY <1>1, WFMin
<1>3. ASSUME NEW y \in S
      PROVE  x <= y
  <2>1. x \in Nat /\ y \in Nat /\ <<y, x>> \notin Below
    BY <1>2
  <2>2. <<y, x>> \in Nat \X Nat
    BY <2>1
  <2>3. ~ (y < x)
    BY <2>1, <2>2 DEF Below
  <2> QED BY <2>1, <2>3
<1> QED BY <1>3

\* Min finds it.
LEMMA LeastExists ==
  ASSUME NEW S \in SUBSET Nat, S # {}
  PROVE  Min(S) \in S /\ \A y \in S : Min(S) <= y
BY LeastIsLeast DEF Min

\* A set of naturals with an upper bound, not empty, has a greatest element,
\* and Max finds it.
LEMMA GreatestExists ==
  ASSUME NEW n \in Nat, NEW S \in SUBSET (0 .. n), S # {}
  PROVE  Max(S) \in S /\ \A y \in S : y <= Max(S)
<1> DEFINE below == { n - i : i \in S }
<1>1. below \in SUBSET Nat /\ below # {}
  <2>1. \A i \in S : i \in Int /\ i <= n
    OBVIOUS
  <2>2. \A i \in S : n - i \in Nat
    BY <2>1
  <2>3. \E i : i \in S
    OBVIOUS
  <2> QED BY <2>2, <2>3
<1>2. PICK j \in below : \A k \in below : j <= k
  BY <1>1, LeastIsLeast
<1>3. PICK x \in S : j = n - x
  OBVIOUS
<1>4. \A y \in S : x >= y
  BY <1>2, <1>3
<1> QED BY <1>4 DEF Max

\* Induction up to n: a set that holds 0, and with i - 1 also i, holds 0 .. n.
LEMMA Induction ==
  ASSUME NEW n \in Nat, NEW S, 0 \in S,
         \A i \in 1 .. n : i - 1 \in S => i \in S
  PROVE  0 .. n \subseteq S
<1> DEFINE bad == { i \in 0 .. n : i \notin S }
<1>1. SUFFICES ASSUME bad # {} PROVE FALSE
  OBVIOUS
<1>a. bad \in SUBSET Nat
  OBVIOUS
<1> HIDE DEF bad
<1>2. PICK x \in bad : \A y \in bad : x <= y
  BY <1>1, <1>a, LeastIsLeast
<1> USE DEF bad
<1>3. x \in 1 .. n /\ x - 1 \in 0 .. n
  BY <1>2
<1>4. x - 1 \in S
  BY <1>2, <1>3
<1> QED BY <1>3, <1>4

\* The values of a variable over n turns of a loop: the one before them, and
\* what each turn makes of the one before it.
IsLoop(g, n, value, turn) ==
    g = [i \in 0 .. n |-> IF i = 0 THEN value ELSE turn[<<i, g[i - 1]>>]]

\* There are such values.
LEMMA LoopExists ==
  ASSUME NEW n \in Nat, NEW V, NEW value \in V,
         NEW turn \in [(1 .. n) \X V -> V]
  PROVE  \E g \in [0 .. n -> V] : IsLoop(g, n, value, turn)
<1> DEFINE Is(g, k) ==
              /\ g \in [0 .. k -> V]
              /\ g[0] = value
              /\ \A i \in 1 .. k : g[i] = turn[<<i, g[i - 1]>>]
           S == { k \in 0 .. n : \E g : Is(g, k) }
<1>1. 0 \in S
  <2> DEFINE g == [i \in 0 .. 0 |-> value]
  <2>1. Is(g, 0)
    OBVIOUS
  <2> HIDE DEF Is, g
  <2> QED BY <2>1
<1>2. ASSUME NEW k \in 1 .. n, k - 1 \in S
      PROVE  k \in S
  <2>1. PICK g : Is(g, k - 1)
    BY <1>2
  <2> DEFINE h == [i \in 0 .. k |-> IF i = k THEN turn[<<k, g[k - 1]>>] ELSE g[i]]
  <2>2. g[k - 1] \in V /\ turn[<<k, g[k - 1]>>] \in V
    <3>1. k - 1 \in 0 .. k - 1
      OBVIOUS
    <3>2. g[k - 1] \in V
      BY <2>1, <3>1
    <3> QED BY <3>2
  <2>3. h \in [0 .. k -> V]
    <3>1. ASSUME NEW i \in 0 .. k PROVE h[i] \in V
      <4>1. CASE i = k
        BY <2>2, <4>1
      <4>2. CASE i # k
        <5>1. i \in 0 .. k - 1
          BY <4>2
        <5> QED BY <2>1, <4>2, <5>1
      <4> QED BY <4>1, <4>2
    <3> QED BY <3>1
  <2>4. h[0] = value
    BY <2>1
  <2>5. ASSUME NEW i \in 1 .. k
        PROVE  h[i] = turn[<<i, h[i - 1]>>]
    <3>1. h[i - 1] = g[i - 1]
      OBVIOUS
    <3>2. CASE i = k
      <4>1. h[i] = turn[<<k, g[k - 1]>>] /\ i - 1 = k - 1
        BY <3>2
      <4> QED BY <3>1, <3>2, <4>1
    <3>3. CASE i # k
      <4>1. i \in 1 .. k - 1 /\ h[i] = g[i]
        BY <3>3
      <4> QED BY <2>1, <3>1, <4>1
    <3> QED BY <3>2, <3>3
  <2>6. Is(h, k)
    BY <2>3, <2>4, <2>5
  <2> HIDE DEF Is, h
  <2> QED BY <2>6
<1>3. n \in S
  <2> HIDE DEF S
  <2> QED BY <1>1, <1>2, Induction
<1>4. PICK g : Is(g, n)
  BY <1>3
<1>5. IsLoop(g, n, value, turn)
  BY <1>4 DEF IsLoop
<1> QED BY <1>4, <1>5

-----------------------------------------------------------------------------
\* The turns of the loop in Chars.
CharsUpTo(text) ==
    LET upTo[i \in 0 .. Len(text)] ==
            IF i = 0 THEN -1 ELSE upTo[i - 1] + Width[text[i]] + 1
    IN upTo

\* Chars counts line by line: each turn adds a line and its line feed.
LEMMA CharsByTurns ==
  ASSUME NEW text \in Seq(LineKinds)
  PROVE  /\ CharsUpTo(text) \in [0 .. Len(text) -> Int]
         /\ CharsUpTo(text) = [i \in 0 .. Len(text) |->
              IF i = 0 THEN -1
              ELSE CharsUpTo(text)[i - 1] + Width[text[i]] + 1]
         /\ Chars(text) = CharsUpTo(text)[Len(text)]
<1> DEFINE n == Len(text)
           before == -1
           turn == [p \in (1 .. n) \X Int |-> p[2] + Width[text[p[1]]] + 1]
<1>1. n \in Nat /\ \A i \in 1 .. n : Width[text[i]] \in Nat
  BY WidthAssumption, LenProperties, ElementOfSeq
<1>2. turn \in [(1 .. n) \X Int -> Int]
  BY <1>1
<1>3. before \in Int
  OBVIOUS
<1> HIDE DEF turn, n, before
<1>4. PICK g \in [0 .. n -> Int] : IsLoop(g, n, before, turn)
  BY <1>1, <1>2, <1>3, LoopExists
<1> USE DEF turn, n, before
<1>5. g = [i \in 0 .. n |-> IF i = 0 THEN -1 ELSE g[i - 1] + Width[text[i]] + 1]
  <2>1. ASSUME NEW i \in 0 .. n, i # 0
        PROVE  turn[<<i, g[i - 1]>>] = g[i - 1] + Width[text[i]] + 1
    <3>1. i \in 1 .. n /\ i - 1 \in 0 .. n
      BY <1>1, <2>1
    <3>2. g[i - 1] \in Int
      BY <3>1
    <3> QED BY <3>1, <3>2
  <2> QED BY <1>4, <2>1 DEF IsLoop
<1> DEFINE Loop(u) ==
             u = [i \in 0 .. n |-> IF i = 0 THEN -1 ELSE u[i - 1] + Width[text[i]] + 1]
<1>6. CharsUpTo(text) = CHOOSE u : Loop(u)
  BY DEF CharsUpTo
<1>7. Loop(CharsUpTo(text))
  <2>1. \E u : Loop(u)
    BY <1>5
  <2> HIDE DEF Loop
  <2> QED BY <1>6, <2>1
<1>8. CharsUpTo(text) \in [0 .. n -> Int]
  <2> DEFINE c == CharsUpTo(text)
             S == { i \in 0 .. n : c[i] \in Int }
  <2> HIDE DEF c
  <2>1. c = [i \in 0 .. n |-> IF i = 0 THEN -1 ELSE c[i - 1] + Width[text[i]] + 1]
    BY <1>7 DEF c
  <2>2. 0 \in S
    BY <1>1, <2>1
  <2>3. ASSUME NEW i \in 1 .. n, i - 1 \in S
        PROVE  i \in S
    <3>1. c[i] = c[i - 1] + Width[text[i]] + 1
      BY <1>1, <2>1
    <3> QED BY <1>1, <2>3, <3>1
  <2>4. 0 .. n \subseteq S
    <3> HIDE DEF S
    <3> QED BY <1>1, <2>2, <2>3, Induction
  <2>5. \A i \in 0 .. n : c[i] \in Int
    BY <2>4
  <2>6. c \in [0 .. n -> Int]
    BY <2>1, <2>5
  <2> QED BY <2>6 DEF c
<1>9. Chars(text) = CharsUpTo(text)[n]
  BY DEF Chars, CharsUpTo
<1> QED BY <1>7, <1>8, <1>9

\* A text that is not empty has a length, the empty one less than any.
LEMMA CharsBounds ==
  ASSUME NEW text \in Seq(LineKinds)
  PROVE  IF text = <<>> THEN Chars(text) = -1 ELSE Chars(text) \in Nat
<1> DEFINE n == Len(text)
           c == CharsUpTo(text)
           S == { i \in 0 .. n : i # 0 => c[i] >= 0 }
<1>1. n \in Nat /\ \A i \in 1 .. n : Width[text[i]] \in Nat
  BY WidthAssumption, LenProperties, ElementOfSeq
<1>2. /\ c \in [0 .. n -> Int]
      /\ c = [i \in 0 .. n |-> IF i = 0 THEN -1 ELSE c[i - 1] + Width[text[i]] + 1]
      /\ Chars(text) = c[n]
  BY CharsByTurns
<1> HIDE DEF c
<1>3. c[0] = -1 /\ \A i \in 1 .. n : c[i] = c[i - 1] + Width[text[i]] + 1
  BY <1>1, <1>2
<1>4. ASSUME NEW i \in 1 .. n, i - 1 \in S
      PROVE  i \in S
  <2>1. c[i - 1] \in Int /\ c[i - 1] >= -1
    BY <1>2, <1>3, <1>4
  <2> QED BY <1>1, <1>3, <2>1
<1>5. 0 .. n \subseteq S
  <2>1. 0 \in S
    BY <1>1
  <2> HIDE DEF S
  <2> QED BY <1>1, <1>4, <2>1, Induction
<1>6. n = 0 <=> text = <<>>
  BY EmptySeq
<1>7. CASE n = 0
  BY <1>2, <1>3, <1>6, <1>7
<1>8. CASE n # 0
  <2>1. n \in S /\ n \in 0 .. n
    BY <1>1, <1>5
  <2>2. c[n] \in Int /\ c[n] >= 0
    BY <1>2, <1>8, <2>1
  <2> QED BY <1>2, <1>6, <1>8, <2>2
<1> QED BY <1>7, <1>8

-----------------------------------------------------------------------------
\* The turns of _extract_mixed_code_block, as MixedBlock names them.
RunStart(text) ==
    LET start[i \in 0 .. Len(text)] ==
            IF i = 0 THEN Len(text) + 1
            ELSE IF CodeLike(text[i]) THEN Min({i, start[i - 1]})
            ELSE IF text[i] = "blank" THEN start[i - 1]
            ELSE Len(text) + 1
    IN start

\* Turn i stores a candidate,
Stores(text, i) ==
    /\ RunStart(text)[i - 1] < Len(text) + 1
    /\ i = Len(text) + 1 \/ RunStart(text)[i] = Len(text) + 1

\* this one.
Stored(text, i) == Trim(SubSeq(text, RunStart(text)[i - 1], i - 1))

\* The values of `best`.
BestRun(text) ==
    LET best[i \in 0 .. Len(text) + 1] ==
            IF i = 0 THEN <<>>
            ELSE IF Stores(text, i) /\ Longer(Stored(text, i), best[i - 1])
            THEN Stored(text, i)
            ELSE best[i - 1]
    IN best

\* MixedBlock is what the last of its turns leaves in `best`.
LEMMA MixedBlockByTurns ==
  ASSUME NEW text
  PROVE  MixedBlock(text) = BestRun(text)[Len(text) + 1]
BY DEF MixedBlock, BestRun, Stores, Stored, RunStart

\* A line that ends a run.
Ends(text, i) == ~ CodeLike(text[i]) /\ text[i] # "blank"

\* At line i a run is open that began at line a.
IsOpen(text, i, a) ==
    /\ a \in 1 .. i
    /\ CodeLike(text[a])
    /\ \A k \in a .. i : ~ Ends(text, k)
    /\ \A j \in 1 .. a - 1 : CodeLike(text[j]) => \E k \in j .. a : Ends(text, k)

\* At line i no run is open.
NoneOpen(text, i) ==
    \A j \in 1 .. i : CodeLike(text[j]) => \E k \in j .. i : Ends(text, k)

\* The less of two numbers.
LEMMA MinOfTwo ==
  ASSUME NEW a \in Nat, NEW b \in Nat
  PROVE  Min({a, b}) = IF a <= b THEN a ELSE b
<1>1. Min({a, b}) \in {a, b} /\ \A y \in {a, b} : Min({a, b}) <= y
  BY LeastExists
<1> QED BY <1>1

\* The loop's `start` after each turn.
LEMMA StartByTurns ==
  ASSUME NEW text \in Seq(LineKinds)
  PROVE  LET s == RunStart(text) IN
         /\ s \in [0 .. Len(text) -> 1 .. Len(text) + 1]
         /\ s[0] = Len(text) + 1
         /\ \A i \in 1 .. Len(text) :
              s[i] = IF CodeLike(text[i]) THEN Min({i, s[i - 1]})
                     ELSE IF text[i] = "blank" THEN s[i - 1]
                     ELSE Len(text) + 1
<1> DEFINE n == Len(text)
           V == 1 .. n + 1
           before == n + 1
           turn == [p \in (1 .. n) \X V |->
                      IF CodeLike(text[p[1]]) THEN Min({p[1], p[2]})
                      ELSE IF text[p[1]] = "blank" THEN p[2]
                      ELSE n + 1]
           Loop(u) == u = [i \in 0 .. n |->
                             IF i = 0 THEN n + 1
                             ELSE IF CodeLike(text[i]) THEN Min({i, u[i - 1]})
                             ELSE IF text[i] = "blank" THEN u[i - 1]
                             ELSE n + 1]
<1>1. n \in Nat
  BY LenProperties
<1>2. \A i \in 1 .. n, v \in V : Min({i, v}) \in V
  BY <1>1, MinOfTwo
<1>3. turn \in [(1 .. n) \X V -> V] /\ before \in V
  BY <1>1, <1>2
<1> HIDE DEF turn, n, before, V
<1>4. PICK g \in [0 .. n -> V] : IsLoop(g, n, before, turn)
  BY <1>1, <1>3, LoopExists
<1> USE DEF turn, n, before
<1>5. Loop(g)
  <2>1. ASSUME NEW i \in 0 .. n, i # 0
        PROVE  turn[<<i, g[i - 1]>>] =
                 IF CodeLike(text[i]) THEN Min({i, g[i - 1]})
                 ELSE IF text[i] = "blank" THEN g[i - 1]
                 ELSE n + 1
    <3>1. i \in 1 .. n /\ i - 1 \in 0 .. n
      BY <1>1, <2>1
    <3>2. g[i - 1] \in V
      BY <3>1
    <3> QED BY <3>1, <3>2
  <2> QED BY <1>4, <2>1 DEF IsLoop
<1>6. RunStart(text) = CHOOSE u : Loop(u)
  BY DEF RunStart
<1>7. Loop(RunStart(text))
  <2>1. \E u : Loop(u)
    BY <1>5
  <2> HIDE DEF Loop
  <2> QED BY <1>6, <2>1
<1> DEFINE s == RunStart(text)
<1> HIDE DEF s, turn, n, before
<1>8. s = [i \in 0 .. n |->
             IF i = 0 THEN n + 1
             ELSE IF CodeLike(text[i]) THEN Min({i, s[i - 1]})
             ELSE IF text[i] = "blank" THEN s[i - 1]
             ELSE n + 1]
  BY <1>7 DEF s
<1>9. /\ s[0] = n + 1
      /\ \A i \in 1 .. n :
            s[i] = IF CodeLike(text[i]) THEN Min({i, s[i - 1]})
                   ELSE IF text[i] = "blank" THEN s[i - 1]
                   ELSE n + 1
  <2> DEFINE r == [i \in 0 .. n |->
                     IF i = 0 THEN n + 1
                     ELSE IF CodeLike(text[i]) THEN Min({i, s[i - 1]})
                     ELSE IF text[i] = "blank" THEN s[i - 1]
                     ELSE n + 1]
  <2>1. /\ r[0] = n + 1
        /\ \A i \in 1 .. n :
              r[i] = IF CodeLike(text[i]) THEN Min({i, s[i - 1]})
                     ELSE IF text[i] = "blank" THEN s[i - 1]
                     ELSE n + 1
    BY <1>1
  <2>2. s = r
    BY <1>8
  <2> HIDE DEF r
  <2> QED BY <2>1, <2>2
<1>10. s \in [0 .. n -> V]
  <2> DEFINE S == { i \in 0 .. n : s[i] \in V }
  <2>1. 0 \in S
    BY <1>1, <1>9 DEF V
  <2>2. ASSUME NEW i \in 1 .. n, i - 1 \in S
        PROVE  i \in S
    <3>1. s[i - 1] \in V
      BY <2>2
    <3>2. Min({i, s[i - 1]}) \in V
      BY <1>2, <3>1
    <3>3. n + 1 \in V
      BY <1>1 DEF V
    <3> QED BY <1>9, <3>1, <3>2, <3>3
  <2> HIDE DEF S
  <2>3. 0 .. n \subseteq S
    BY <1>1, <2>1, <2>2, Induction
  <2> USE DEF S
  <2>4. \A i \in 0 .. n : s[i] \in V
    BY <2>3
  <2> QED BY <1>8, <2>4
<1> QED BY <1>9, <1>10 DEF s, n, V

\* While the loop's `start` is set, it is where the open run began.
LEMMA StartMeaning ==
  ASSUME NEW text \in Seq(LineKinds), NEW i \in 0 .. Len(text)
  PROVE  IF RunStart(text)[i] = Len(text) + 1 THEN NoneOpen(text, i)
         ELSE IsOpen(text, i, RunStart(text)[i])
<1> DEFINE n == Len(text)
           s == RunStart(text)
           S == { j \in 0 .. n : IF s[j] = n + 1 THEN NoneOpen(text, j)
                                 ELSE IsOpen(text, j, s[j]) }
<1>1. n \in Nat
  BY LenProperties
<1>2. /\ s \in [0 .. n -> 1 .. n + 1] /\ s[0] = n + 1
      /\ \A j \in 1 .. n :
            s[j] = IF CodeLike(text[j]) THEN Min({j, s[j - 1]})
                   ELSE IF text[j] = "blank" THEN s[j - 1]
                   ELSE n + 1
  BY StartByTurns
<1> HIDE DEF s
<1>3. 0 \in S
  BY <1>1, <1>2 DEF NoneOpen
<1>4. ASSUME NEW j \in 1 .. n, j - 1 \in S
      PROVE  j \in S
  <2>1. s[j - 1] \in 1 .. n + 1
    BY <1>1, <1>2
  <2>2. CASE CodeLike(text[j])
    <3>1. ~ Ends(text, j)
      BY <2>2 DEF Ends
    <3>2. s[j] = IF j <= s[j - 1] THEN j ELSE s[j - 1]
      <4>1. j \in Nat /\ s[j - 1] \in Nat
        BY <1>1, <2>1
      <4>2. Min({j, s[j - 1]}) = IF j <= s[j - 1] THEN j ELSE s[j - 1]
        BY <4>1, MinOfTwo
      <4> QED BY <1>2, <2>2, <4>2
    <3>3. CASE s[j - 1] = n + 1
      <4>1. s[j] = j /\ NoneOpen(text, j - 1)
        BY <1>1, <1>4, <3>2, <3>3
      <4>2. IsOpen(text, j, j)
        BY <2>2, <3>1, <4>1 DEF IsOpen, NoneOpen
      <4> QED BY <1>1, <4>1, <4>2
    <3>4. CASE s[j - 1] # n + 1
      <4>1. IsOpen(text, j - 1, s[j - 1])
        BY <1>4, <3>4
      <4>2. s[j] = s[j - 1]
        BY <2>1, <3>2, <4>1 DEF IsOpen
      <4>3. IsOpen(text, j, s[j - 1])
        BY <3>1, <4>1 DEF IsOpen
      <4> QED BY <3>4, <4>2, <4>3
    <3> QED BY <3>3, <3>4
  <2>3. CASE ~ CodeLike(text[j]) /\ text[j] = "blank"
    <3>1. s[j] = s[j - 1] /\ ~ Ends(text, j)
      BY <1>2, <2>3 DEF Ends
    <3>2. NoneOpen(text, j - 1) => NoneOpen(text, j)
      BY <2>3 DEF NoneOpen
    <3>3. IsOpen(text, j - 1, s[j]) => IsOpen(text, j, s[j])
      BY <3>1 DEF IsOpen
    <3> QED BY <1>4, <3>1, <3>2, <3>3
  <2>4. CASE Ends(text, j)
    <3>1. s[j] = n + 1
      BY <1>2, <2>4 DEF Ends
    <3>2. NoneOpen(text, j)
      BY <2>4 DEF NoneOpen
    <3> QED BY <3>1, <3>2
  <2> QED BY <2>2, <2>3, <2>4 DEF Ends
<1>5. 0 .. n \subseteq S
  <2> HIDE DEF S
  <2> QED BY <1>1, <1>3, <1>4, Induction
<1> QED BY <1>5 DEF s

\* What is left of lines a to e of a text when they are stripped.
LEMMA TrimOfLines ==
  ASSUME NEW text \in Seq(LineKinds),
         NEW a \in 1 .. Len(text), NEW e \in 0 .. Len(text)
  PROVE  \/ /\ Trim(SubSeq(text, a, e)) = <<>>
            /\ \A k \in a .. e : text[k] = "blank"
         \/ \E c \in a .. e, d \in a .. e :
               /\ c <= d /\ text[c] # "blank" /\ text[d] # "blank"
               /\ \A k \in a .. c - 1 : text[k] = "blank"
               /\ \A k \in d + 1 .. e : text[k] = "blank"
               /\ Trim(SubSeq(text, a, e)) = SubSeq(text, c, d)
<1> DEFINE sub == SubSeq(text, a, e)
           solid == { i \in DOMAIN sub : sub[i] # "blank" }
<1>1. Len(text) \in Nat /\ a \in Int /\ e \in Int
  BY LenProperties
<1>2. \A k \in a .. e : text[k] \in LineKinds
  BY <1>1, ElementOfSeq
<1>3. /\ sub \in Seq(LineKinds)
      /\ Len(sub) = IF a <= e THEN e - a + 1 ELSE 0
      /\ \A i \in 1 .. e - a + 1 : sub[i] = text[a + i - 1]
  BY <1>1, <1>2, SubSeqProperties
<1>4. DOMAIN sub = 1 .. Len(sub) /\ Len(sub) \in Nat
  BY <1>3, LenProperties
<1>5. CASE solid = {}
  <2>1. Trim(sub) = <<>>
    BY <1>5 DEF Trim
  <2>2. ASSUME NEW k \in a .. e PROVE text[k] = "blank"
    <3>1. k - a + 1 \in 1 .. Len(sub) /\ sub[k - a + 1] = text[k]
      BY <1>1, <1>3
    <3> QED BY <1>4, <1>5, <3>1
  <2> QED BY <2>1, <2>2
<1>6. CASE solid # {}
  <2> DEFINE p == Min(solid)
             q == Max(solid)
  <2>1. solid \in SUBSET Nat /\ solid \in SUBSET (0 .. Len(sub))
    BY <1>4
  <2> HIDE DEF solid
  <2>2. /\ p \in solid /\ \A y \in solid : p <= y
        /\ q \in solid /\ \A y \in solid : y <= q
    BY <1>4, <1>6, <2>1, LeastExists, GreatestExists
  <2> USE DEF solid
  <2>3. Trim(sub) = SubSeq(sub, p, q)
    BY <1>6 DEF Trim
  <2> HIDE DEF p, q
  <2>4. p \in 1 .. Len(sub) /\ q \in 1 .. Len(sub) /\ p <= q
    BY <1>4, <2>2
  <2>5. a <= e /\ Len(sub) = e - a + 1
    BY <1>3, <1>4, <2>4
  <2> DEFINE c == a + p - 1
             d == a + q - 1
  <2>6. c \in a .. e /\ d \in a .. e /\ c <= d
    BY <1>1, <2>4, <2>5
  <2>7. text[c] # "blank" /\ text[d] # "blank"
    <3>1. sub[p] = text[c] /\ sub[q] = text[d]
      BY <1>3, <2>4, <2>5
    <3> QED BY <2>2, <3>1
  <2>8. ASSUME NEW k \in a .. e, text[k] # "blank"
        PROVE  c <= k /\ k <= d
    <3>1. k - a + 1 \in 1 .. Len(sub) /\ sub[k - a + 1] = text[k]
      BY <1>1, <1>3, <2>5
    <3>2. k - a + 1 \in solid
      BY <1>4, <2>8, <3>1
    <3>3. p <= k - a + 1 /\ k - a + 1 <= q
      BY <2>2, <3>2
    <3> QED BY <1>1, <2>4, <3>3
  <2>9. \A k \in a .. c - 1 : text[k] = "blank"
    BY <1>1, <2>6, <2>8
  <2>10. \A k \in d + 1 .. e : text[k] = "blank"
    BY <1>1, <2>6, <2>8
  <2>11. SubSeq(sub, p, q) = SubSeq(text, c, d)
    <3>1. /\ a \in 1 .. Len(text) /\ e \in 1 .. Len(text)
          /\ p \in 1 .. e - a + 1 /\ q \in 1 .. e - a + 1
      BY <1>1, <2>4, <2>5
    <3> QED BY <3>1, SubSeqOfSubSeq
  <2> QED BY <2>3, <2>6, <2>7, <2>9, <2>10, <2>11
<1> QED BY <1>5, <1>6

\* A stripped part of a text is a text.
LEMMA TrimIsAText ==
  ASSUME NEW text \in Seq(LineKinds),
         NEW a \in 1 .. Len(text), NEW e \in 0 .. Len(text)
  PROVE  Trim(SubSeq(text, a, e)) \in Seq(LineKinds)
<1>1. <<>> \in Seq(LineKinds)
  BY EmptySeq
<1>2. ASSUME NEW c \in a .. e, NEW d \in a .. e
      PROVE  SubSeq(text, c, d) \in Seq(LineKinds)
  <2>1. \A k \in c .. d : text[k] \in LineKinds
    BY LenProperties, ElementOfSeq
  <2> QED BY LenProperties, <2>1, SubSeqProperties
<1>3. CASE Trim(SubSeq(text, a, e)) = <<>>
  BY <1>1, <1>3
<1>4. CASE Trim(SubSeq(text, a, e)) # <<>>
  <2>1. PICK c \in a .. e, d \in a .. e :
          /\ c <= d /\ text[c] # "blank" /\ text[d] # "blank"
          /\ \A k \in a .. c - 1 : text[k] = "blank"
          /\ \A k \in d + 1 .. e : text[k] = "blank"
          /\ Trim(SubSeq(text, a, e)) = SubSeq(text, c, d)
    BY <1>4, TrimOfLines
  <2> QED BY <1>2, <2>1
<1> QED BY <1>3, <1>4

\* So is a stripped text.
LEMMA StrippedIsAText ==
  ASSUME NEW text \in Seq(LineKinds)
  PROVE  Trim(text) \in Seq(LineKinds)
<1>1. CASE text = <<>>
  <2>1. DOMAIN text = {}
    BY <1>1
  <2>2. Trim(text) = <<>>
    BY <2>1 DEF Trim
  <2> QED BY <2>2, EmptySeq
<1>2. CASE text # <<>>
  <2>1. 1 \in 1 .. Len(text) /\ Len(text) \in 0 .. Len(text)
    BY <1>2, EmptySeq
  <2>2. Trim(SubSeq(text, 1, Len(text))) \in Seq(LineKinds)
    BY <2>1, TrimIsAText
  <2> QED BY <2>2, SubSeqFull
<1> QED BY <1>1, <1>2

-----------------------------------------------------------------------------
\* What the loop stores is a run of code.
LEMMA StoredIsARun ==
  ASSUME NEW text \in Seq(LineKinds),
         NEW i \in 1 .. Len(text) + 1, Stores(text, i)
  PROVE  \E b \in DOMAIN text :
            /\ b < i
            /\ <<RunStart(text)[i - 1], b>> \in CodeRuns(text)
            /\ Stored(text, i) = SubSeq(text, RunStart(text)[i - 1], b)
<1> DEFINE n == Len(text)
           s == RunStart(text)
           a == s[i - 1]
<1>1. n \in Nat /\ DOMAIN text = 1 .. n
  BY LenProperties
<1>2. s \in [0 .. n -> 1 .. n + 1]
  BY StartByTurns
<1>3. i - 1 \in 0 .. n /\ a # n + 1
  BY <1>1 DEF Stores
<1>4. IsOpen(text, i - 1, a)
  BY <1>3, StartMeaning
<1>5. i # n + 1 => i \in 1 .. n /\ NoneOpen(text, i)
  BY <1>1, StartMeaning DEF Stores
<1> HIDE DEF a
<1>6. a \in 1 .. i - 1 /\ CodeLike(text[a])
  BY <1>4 DEF IsOpen
<1>7. text[a] # "blank"
  BY <1>6 DEF CodeLike
<1>8. PICK c \in a .. i - 1, b \in a .. i - 1 :
        /\ c <= b /\ text[c] # "blank" /\ text[b] # "blank"
        /\ \A k \in a .. c - 1 : text[k] = "blank"
        /\ \A k \in b + 1 .. i - 1 : text[k] = "blank"
        /\ Trim(SubSeq(text, a, i - 1)) = SubSeq(text, c, b)
  <2>1. a \in 1 .. Len(text) /\ i - 1 \in 0 .. Len(text) /\ a \in a .. i - 1
    BY <1>1, <1>6
  <2>2. ~ \A k \in a .. i - 1 : text[k] = "blank"
    BY <1>7, <2>1
  <2> DEFINE e == i - 1
  <2> HIDE DEF e
  <2>3. \E c \in a .. e, b \in a .. e :
          /\ c <= b /\ text[c] # "blank" /\ text[b] # "blank"
          /\ \A k \in a .. c - 1 : text[k] = "blank"
          /\ \A k \in b + 1 .. e : text[k] = "blank"
          /\ Trim(SubSeq(text, a, e)) = SubSeq(text, c, b)
    <3>1. e \in 0 .. Len(text) /\ ~ \A k \in a .. e : text[k] = "blank"
      BY <2>1, <2>2 DEF e
    <3> QED BY <2>1, <3>1, TrimOfLines
  <2> QED BY <2>3 DEF e
<1>9. c = a
  <2>1. a <= c /\ a \in Int /\ c \in Int
    BY <1>6, <1>8
  <2>2. ~ (a < c)
    BY <1>6, <1>7, <1>8
  <2> QED BY <2>1, <2>2
<1>10. \A k \in a .. i - 1 : ~ Ends(text, k)
  BY <1>4 DEF IsOpen
<1>11. CodeLike(text[b])
  BY <1>8, <1>10 DEF Ends
<1>12. b \in 1 .. n /\ b < i
  BY <1>1, <1>6, <1>8
<1>13. ASSUME NEW k \in DOMAIN text \ (a .. b), CodeLike(text[k])
       PROVE  \E j \in (k .. a) \cup (b .. k) : Ends(text, j)
  <2>1. k \in 1 .. n
    BY <1>1
  <2>2. CASE k < a
    <3>1. k \in 1 .. a - 1
      BY <1>6, <2>1, <2>2
    <3> QED BY <1>4, <1>13, <3>1 DEF IsOpen
  <2>3. CASE b < k
    <3>1. text[k] # "blank"
      BY <1>13 DEF CodeLike
    <3>2. ~ (k \in b + 1 .. i - 1)
      BY <1>8, <3>1
    <3>3. i <= k /\ i # n + 1
      BY <1>1, <1>12, <2>1, <2>3, <3>2
    <3>4. b \in 1 .. i
      BY <1>12
    <3>5. PICK j \in b .. i : Ends(text, j)
      BY <1>5, <1>11, <3>3, <3>4 DEF NoneOpen
    <3>6. j \in b .. k
      BY <1>12, <2>1, <3>3
    <3> QED BY <3>5, <3>6
  <2> QED BY <1>6, <1>12, <2>1, <2>2, <2>3
<1>14. IsCodeRun(text, a, b)
  <2>1. a <= b
    BY <1>8, <1>9
  <2>2. \A k \in a .. b : CodeLike(text[k]) \/ text[k] = "blank"
    BY <1>10, <1>12, <1>6 DEF Ends
  <2> QED BY <1>6, <1>11, <1>13, <2>1, <2>2 DEF IsCodeRun, Ends
<1>15. <<a, b>> \in CodeRuns(text)
  BY <1>1, <1>6, <1>12, <1>14 DEF CodeRuns
<1>16. Stored(text, i) = SubSeq(text, a, b)
  BY <1>8, <1>9 DEF Stored, a
<1> QED BY <1>1, <1>12, <1>15, <1>16 DEF a

\* Every run of code is stored.
LEMMA RunIsStored ==
  ASSUME NEW text \in Seq(LineKinds), NEW r \in CodeRuns(text)
  PROVE  \E i \in 1 .. Len(text) + 1 :
            Stores(text, i) /\ RunStart(text)[i - 1] = r[1]
<1> DEFINE n == Len(text)
           s == RunStart(text)
           a == r[1]
           b == r[2]
           after == { k \in b .. n : Ends(text, k) } \cup {n + 1}
           i == Min(after)
<1>1. n \in Nat /\ DOMAIN text = 1 .. n
  BY LenProperties
<1>2. a \in 1 .. n /\ b \in 1 .. n /\ IsCodeRun(text, a, b)
  BY <1>1 DEF CodeRuns
<1>3. after \in SUBSET Nat /\ after # {}
  BY <1>1, <1>2
<1> HIDE DEF a, b, after
<1>4. i \in after /\ \A k \in after : i <= k
  BY <1>3, LeastExists
<1> HIDE DEF i
<1>5. i \in b .. n + 1 /\ i # b
  <2>1. ~ Ends(text, b)
    BY <1>2 DEF IsCodeRun, Ends
  <2> QED BY <1>1, <1>2, <1>4, <2>1 DEF after
<1>6. i - 1 \in 0 .. n /\ b \in 1 .. i - 1 /\ i \in 1 .. n + 1
  BY <1>1, <1>2, <1>5
<1>7. \A k \in a .. i - 1 : ~ Ends(text, k)
  <2>1. \A k \in a .. b : ~ Ends(text, k)
    BY <1>2 DEF IsCodeRun, Ends
  <2>2. \A k \in b .. i - 1 : k \notin after
    BY <1>2, <1>4, <1>6
  <2>3. \A k \in b .. i - 1 : ~ Ends(text, k)
    BY <1>1, <1>2, <1>6, <2>2 DEF after
  <2> QED BY <1>2, <1>6, <2>1, <2>3
<1>8. s \in [0 .. n -> 1 .. n + 1]
  BY StartByTurns
<1>9. s[i - 1] # n + 1
  <2>1. a \in 1 .. i - 1 /\ CodeLike(text[a])
    BY <1>2, <1>6 DEF IsCodeRun
  <2>2. ~ NoneOpen(text, i - 1)
    BY <1>7, <2>1 DEF NoneOpen
  <2> QED BY <1>6, <2>2, StartMeaning
<1>10. IsOpen(text, i - 1, s[i - 1])
  BY <1>6, <1>9, StartMeaning
<1>11. s[i - 1] = a
  <2> DEFINE c == s[i - 1]
  <2> HIDE DEF c
  <2>1. /\ c \in 1 .. i - 1 /\ CodeLike(text[c])
        /\ \A k \in c .. i - 1 : ~ Ends(text, k)
        /\ \A j \in 1 .. c - 1 : CodeLike(text[j]) => \E k \in j .. c : Ends(text, k)
    BY <1>10 DEF IsOpen, c
  <2>2. ~ (a < c)
    <3>1. SUFFICES ASSUME a < c PROVE FALSE
      OBVIOUS
    <3>2. a \in 1 .. c - 1 /\ CodeLike(text[a])
      BY <1>2, <2>1, <3>1 DEF IsCodeRun
    <3>3. PICK k \in a .. c : Ends(text, k)
      BY <2>1, <3>2
    <3> QED BY <1>2, <1>6, <1>7, <2>1, <3>3
  <2>3. ~ (c < a)
    <3>1. SUFFICES ASSUME c < a PROVE FALSE
      OBVIOUS
    <3>2. c \in DOMAIN text \ (a .. b)
      BY <1>1, <1>2, <2>1, <3>1
    <3>3. PICK k \in (c .. a) \cup (b .. c) : Ends(text, k)
      BY <1>2, <2>1, <3>2 DEF IsCodeRun, Ends
    <3>4. a <= b
      BY <1>2 DEF IsCodeRun
    <3>5. k \in c .. i - 1
      BY <1>2, <1>6, <2>1, <3>1, <3>3, <3>4
    <3> QED BY <2>1, <3>3, <3>5
  <2> QED BY <1>2, <2>1, <2>2, <2>3 DEF c
<1>12. i # n + 1 => s[i] = n + 1
  <2>1. SUFFICES ASSUME i # n + 1 PROVE s[i] = n + 1
    OBVIOUS
  <2>2. i \in 1 .. n /\ Ends(text, i)
    BY <1>4, <1>6, <2>1 DEF after
  <2>3. ~ IsOpen(text, i, s[i])
    BY <2>2 DEF IsOpen
  <2> QED BY <2>2, <2>3, StartMeaning
<1>13. Stores(text, i)
  BY <1>1, <1>2, <1>11, <1>12 DEF Stores
<1> QED BY <1>6, <1>11, <1>13 DEF a

\* A run is known by where it begins.
LEMMA RunsAreDistinct ==
  ASSUME NEW text \in Seq(LineKinds),
         NEW r \in CodeRuns(text), NEW q \in CodeRuns(text), r[1] = q[1]
  PROVE  r = q
<1> DEFINE n == Len(text)
<1>1. n \in Nat /\ DOMAIN text = 1 .. n
  BY LenProperties
<1>2. /\ r \in (1 .. n) \X (1 .. n) /\ IsCodeRun(text, r[1], r[2])
      /\ q \in (1 .. n) \X (1 .. n) /\ IsCodeRun(text, q[1], q[2])
  BY <1>1 DEF CodeRuns
<1>3. ASSUME NEW a \in 1 .. n, NEW b \in 1 .. n, NEW c \in 1 .. n,
             IsCodeRun(text, a, b), IsCodeRun(text, a, c)
      PROVE  ~ (b < c)
  <2>1. SUFFICES ASSUME b < c PROVE FALSE
    OBVIOUS
  <2>2. a <= b /\ CodeLike(text[c]) /\ c \in DOMAIN text \ (a .. b)
    BY <1>1, <1>3, <2>1 DEF IsCodeRun
  <2>3. PICK k \in (c .. a) \cup (b .. c) : Ends(text, k)
    BY <1>3, <2>2 DEF IsCodeRun, Ends
  <2>4. k \in a .. c
    BY <2>1, <2>2, <2>3
  <2> QED BY <1>3, <2>3, <2>4 DEF IsCodeRun, Ends
<1>4. r[2] = q[2]
  <2>1. r[1] \in 1 .. n /\ r[2] \in 1 .. n /\ q[2] \in 1 .. n
    BY <1>2
  <2>2. ~ (r[2] < q[2]) /\ ~ (q[2] < r[2])
    BY <1>2, <1>3, <2>1
  <2> QED BY <2>1, <2>2
<1> QED BY <1>2, <1>4

\* What is stored later begins later.
LEMMA StoredInOrder ==
  ASSUME NEW text \in Seq(LineKinds),
         NEW i \in 1 .. Len(text) + 1, NEW j \in 1 .. Len(text) + 1,
         Stores(text, j), Stores(text, i), j < i
  PROVE  RunStart(text)[j - 1] < RunStart(text)[i - 1]
<1> DEFINE n == Len(text)
           s == RunStart(text)
<1>1. n \in Nat
  BY LenProperties
<1>2. s \in [0 .. n -> 1 .. n + 1]
  BY StartByTurns
<1>3. /\ j \in 1 .. n /\ j \in 1 .. i - 1
      /\ j - 1 \in 0 .. n /\ i - 1 \in 0 .. n
  BY <1>1
<1>4. s[j] = n + 1 /\ s[j - 1] # n + 1 /\ s[i - 1] # n + 1
  BY <1>1, <1>3 DEF Stores
<1>5. /\ IsOpen(text, j - 1, s[j - 1]) /\ NoneOpen(text, j)
      /\ IsOpen(text, i - 1, s[i - 1])
  <2>1. j \in 0 .. n
    BY <1>3
  <2> QED BY <1>3, <1>4, <2>1, StartMeaning
<1> DEFINE a == s[j - 1]
           c == s[i - 1]
<1> HIDE DEF a, c
<1>6. /\ a \in 1 .. j - 1 /\ CodeLike(text[a])
      /\ \A k \in a .. j - 1 : ~ Ends(text, k)
      /\ c \in 1 .. i - 1 /\ \A k \in c .. i - 1 : ~ Ends(text, k)
  BY <1>5 DEF IsOpen, a, c
<1>7. PICK k \in a .. j : Ends(text, k)
  <2>1. a \in 1 .. j
    BY <1>3, <1>6
  <2> QED BY <1>5, <1>6, <2>1 DEF NoneOpen
<1>8. k = j
  BY <1>3, <1>6, <1>7
<1>9. j \notin c .. i - 1
  BY <1>6, <1>7, <1>8
<1>10. a < c
  BY <1>3, <1>6, <1>9
<1> QED BY <1>10 DEF a, c

\* The text of a run.
RunText(text, r) == SubSeq(text, r[1], r[2])

\* Run r is longer than run q, or as long and not after it.
Beats(text, r, q) ==
    \/ Chars(RunText(text, r)) > Chars(RunText(text, q))
    \/ Chars(RunText(text, r)) = Chars(RunText(text, q)) /\ r[1] <= q[1]

\* A run has lines, so its length is a natural number.
LEMMA RunHasLength ==
  ASSUME NEW text \in Seq(LineKinds), NEW r \in CodeRuns(text)
  PROVE  /\ r[1] \in Nat /\ r = <<r[1], r[2]>>
         /\ RunText(text, r) \in Seq(LineKinds) \ { <<>> }
         /\ Chars(RunText(text, r)) \in Nat
<1> DEFINE n == Len(text)
<1>1. n \in Nat /\ DOMAIN text = 1 .. n
  BY LenProperties
<1>2. r \in (1 .. n) \X (1 .. n) /\ r[1] <= r[2]
  BY <1>1 DEF CodeRuns, IsCodeRun
<1>3. r[1] \in 1 .. n /\ r[2] \in 1 .. n
  BY <1>2
<1>4. \A k \in r[1] .. r[2] : text[k] \in LineKinds
  BY <1>1, <1>3, ElementOfSeq
<1>5. /\ RunText(text, r) \in Seq(LineKinds)
      /\ Len(RunText(text, r)) = r[2] - r[1] + 1
  <2>1. r[1] \in Int /\ r[2] \in Int
    BY <1>3
  <2> QED BY <1>2, <1>4, <2>1, SubSeqProperties DEF RunText
<1>6. RunText(text, r) # <<>>
  <2>1. Len(RunText(text, r)) # 0
    BY <1>2, <1>3, <1>5
  <2> QED BY <2>1, EmptySeq
<1>7. Chars(RunText(text, r)) \in Nat
  BY <1>5, <1>6, CharsBounds
<1> QED BY <1>2, <1>3, <1>5, <1>6, <1>7

\* The loop's `best` after each turn.
LEMMA BestByTurns ==
  ASSUME NEW text \in Seq(LineKinds)
  PROVE  LET best == BestRun(text) IN
         /\ best[0] = <<>>
         /\ \A i \in 1 .. Len(text) + 1 :
              best[i] = IF Stores(text, i) /\ Longer(Stored(text, i), best[i - 1])
                        THEN Stored(text, i)
                        ELSE best[i - 1]
<1> DEFINE end == Len(text) + 1
           V == Seq(LineKinds)
           before == <<>>
           turn == [p \in (1 .. end) \X V |->
                      IF Stores(text, p[1]) /\ Longer(Stored(text, p[1]), p[2])
                      THEN Stored(text, p[1])
                      ELSE p[2]]
           Loop(u) == u = [i \in 0 .. end |->
                             IF i = 0 THEN <<>>
                             ELSE IF Stores(text, i) /\ Longer(Stored(text, i), u[i - 1])
                             THEN Stored(text, i)
                             ELSE u[i - 1]]
<1>1. end \in Nat
  BY LenProperties
<1>2. ASSUME NEW i \in 1 .. end, Stores(text, i)
      PROVE  Stored(text, i) \in V
  <2>1. PICK b \in DOMAIN text :
          /\ <<RunStart(text)[i - 1], b>> \in CodeRuns(text)
          /\ Stored(text, i) = SubSeq(text, RunStart(text)[i - 1], b)
    BY <1>2, StoredIsARun
  <2> QED BY <2>1, RunHasLength DEF RunText
<1>3. before \in V
  BY EmptySeq
<1> HIDE DEF V
<1>4. turn \in [(1 .. end) \X V -> V]
  BY <1>2
<1> HIDE DEF turn, end, before
<1>5. PICK g \in [0 .. end -> V] : IsLoop(g, end, before, turn)
  BY <1>1, <1>3, <1>4, LoopExists
<1> USE DEF turn, before
<1>6. Loop(g)
  <2>1. ASSUME NEW i \in 0 .. end, i # 0
        PROVE  turn[<<i, g[i - 1]>>] =
                 IF Stores(text, i) /\ Longer(Stored(text, i), g[i - 1])
                 THEN Stored(text, i)
                 ELSE g[i - 1]
    <3>1. i \in 1 .. end /\ i - 1 \in 0 .. end
      BY <1>1, <2>1
    <3>2. g[i - 1] \in V
      BY <3>1
    <3> QED BY <3>1, <3>2
  <2> HIDE DEF turn
  <2> QED BY <1>5, <2>1 DEF IsLoop
<1>7. BestRun(text) = CHOOSE u : Loop(u)
  BY DEF BestRun, end
<1>8. Loop(BestRun(text))
  <2>1. \E u : Loop(u)
    BY <1>6
  <2> HIDE DEF Loop
  <2> QED BY <1>7, <2>1
<1> DEFINE s == BestRun(text)
           r == [i \in 0 .. end |->
                   IF i = 0 THEN <<>>
                   ELSE IF Stores(text, i) /\ Longer(Stored(text, i), s[i - 1])
                   THEN Stored(text, i)
                   ELSE s[i - 1]]
<1> HIDE DEF s
<1>9. /\ r[0] = <<>>
      /\ \A i \in 1 .. end :
            r[i] = IF Stores(text, i) /\ Longer(Stored(text, i), s[i - 1])
                   THEN Stored(text, i)
                   ELSE s[i - 1]
  BY <1>1
<1>10. s = r
  BY <1>8 DEF s
<1> HIDE DEF r
<1> QED BY <1>9, <1>10 DEF s, end

\* The runs stored in the first i turns.
StoredUpTo(text, i) ==
    { r \in CodeRuns(text) :
        \E j \in 1 .. i : Stores(text, j) /\ RunStart(text)[j - 1] = r[1] }

\* After i turns `best` is the first of the longest runs stored so far.
IsBest(text, i) ==
    LET best == BestRun(text)[i] IN
    \/ best = <<>> /\ StoredUpTo(text, i) = {}
    \/ \E r \in StoredUpTo(text, i) :
          /\ best = RunText(text, r)
          /\ \A q \in StoredUpTo(text, i) : Beats(text, r, q)

\* A turn that stores nothing leaves what was stored.
LEMMA TurnWithoutStore ==
  ASSUME NEW text \in Seq(LineKinds), NEW i \in 1 .. Len(text) + 1,
         ~ Stores(text, i)
  PROVE  StoredUpTo(text, i) = StoredUpTo(text, i - 1)
<1>1. \A j \in 1 .. i : Stores(text, j) => j \in 1 .. i - 1
  BY LenProperties
<1>2. 1 .. i - 1 \subseteq 1 .. i
  BY LenProperties
<1> QED BY <1>1, <1>2 DEF StoredUpTo

\* A turn that stores adds one run, which begins after those before it.
LEMMA TurnWithStore ==
  ASSUME NEW text \in Seq(LineKinds), NEW i \in 1 .. Len(text) + 1,
         Stores(text, i)
  PROVE  \E r \in CodeRuns(text) :
            /\ Stored(text, i) = RunText(text, r)
            /\ StoredUpTo(text, i) = StoredUpTo(text, i - 1) \cup {r}
            /\ \A q \in StoredUpTo(text, i - 1) : q[1] < r[1]
<1> DEFINE s == RunStart(text)
<1>1. PICK b : /\ <<s[i - 1], b>> \in CodeRuns(text)
               /\ Stored(text, i) = SubSeq(text, s[i - 1], b)
  BY StoredIsARun
<1> DEFINE r == <<s[i - 1], b>>
<1>2. r \in CodeRuns(text) /\ r[1] = s[i - 1] /\ Stored(text, i) = RunText(text, r)
  BY <1>1 DEF RunText
<1> HIDE DEF r
<1>3. Len(text) \in Nat
  BY LenProperties
<1>4. ASSUME NEW q \in StoredUpTo(text, i)
      PROVE  q \in StoredUpTo(text, i - 1) \cup {r}
  <2>1. PICK j \in 1 .. i : Stores(text, j) /\ s[j - 1] = q[1]
    BY <1>4 DEF StoredUpTo
  <2>2. CASE j = i
    <3>1. q \in CodeRuns(text) /\ q[1] = r[1]
      BY <1>2, <2>1, <2>2 DEF StoredUpTo
    <3> QED BY <1>2, <3>1, RunsAreDistinct
  <2>3. CASE j # i
    <3>1. j \in 1 .. i - 1
      BY <1>3, <2>3
    <3> QED BY <2>1, <3>1 DEF StoredUpTo
  <2> QED BY <2>2, <2>3
<1>5. r \in StoredUpTo(text, i)
  <2>1. i \in 1 .. i
    BY <1>3
  <2> QED BY <1>2, <2>1 DEF StoredUpTo
<1>6. StoredUpTo(text, i - 1) \subseteq StoredUpTo(text, i)
  <2>1. 1 .. i - 1 \subseteq 1 .. i
    BY <1>3
  <2> QED BY <2>1 DEF StoredUpTo
<1>7. ASSUME NEW q \in StoredUpTo(text, i - 1)
      PROVE  q[1] < r[1]
  <2>1. PICK j \in 1 .. i - 1 : Stores(text, j) /\ s[j - 1] = q[1]
    BY DEF StoredUpTo
  <2>2. j \in 1 .. Len(text) + 1 /\ j < i
    BY <1>3
  <2> QED BY <1>2, <2>1, <2>2, StoredInOrder
<1> QED BY <1>2, <1>4, <1>5, <1>6, <1>7

\* So it is after every turn.
LEMMA BestMeaning ==
  ASSUME NEW text \in Seq(LineKinds)
  PROVE  IsBest(text, Len(text) + 1)
<1> DEFINE end == Len(text) + 1
           best == BestRun(text)
           S == { i \in 0 .. end : IsBest(text, i) }
<1>1. end \in Nat
  BY LenProperties
<1>2. /\ best[0] = <<>>
      /\ \A i \in 1 .. end :
           best[i] = IF Stores(text, i) /\ Longer(Stored(text, i), best[i - 1])
                     THEN Stored(text, i)
                     ELSE best[i - 1]
  BY BestByTurns
<1> HIDE DEF best
<1>3. 0 \in S
  BY <1>1, <1>2 DEF IsBest, StoredUpTo, best
<1>4. ASSUME NEW i \in 1 .. end, i - 1 \in S
      PROVE  i \in S
  <2>1. IsBest(text, i - 1)
    BY <1>4
  <2>2. CASE ~ Stores(text, i)
    <3>1. best[i] = best[i - 1] /\ StoredUpTo(text, i) = StoredUpTo(text, i - 1)
      BY <1>2, <2>2, TurnWithoutStore
    <3>2. IsBest(text, i)
      BY <2>1, <3>1 DEF IsBest, best
    <3> QED BY <1>1, <3>2
  <2>3. CASE Stores(text, i)
    <3>1. PICK r \in CodeRuns(text) :
            /\ Stored(text, i) = RunText(text, r)
            /\ StoredUpTo(text, i) = StoredUpTo(text, i - 1) \cup {r}
            /\ \A q \in StoredUpTo(text, i - 1) : q[1] < r[1]
      BY <2>3, TurnWithStore
    <3>2. /\ r[1] \in Nat /\ Chars(RunText(text, r)) \in Nat
          /\ RunText(text, r) # <<>>
      BY RunHasLength
    <3>3. CASE best[i - 1] = <<>> /\ StoredUpTo(text, i - 1) = {}
      <4>1. Chars(best[i - 1]) = -1
        BY <3>3, EmptySeq, CharsBounds
      <4>2. best[i] = RunText(text, r)
        BY <1>2, <2>3, <3>1, <3>2, <4>1 DEF Longer
      <4>3. Beats(text, r, r)
        BY <3>2 DEF Beats
      <4>4. IsBest(text, i)
        BY <3>1, <3>3, <4>2, <4>3 DEF IsBest, best
      <4> QED BY <1>1, <4>4
    <3>4. ASSUME NEW p \in StoredUpTo(text, i - 1),
                 best[i - 1] = RunText(text, p),
                 \A q \in StoredUpTo(text, i - 1) : Beats(text, p, q)
          PROVE  i \in S
      <4>1. /\ p \in CodeRuns(text) /\ p[1] \in Nat
            /\ Chars(RunText(text, p)) \in Nat /\ p[1] < r[1]
        BY <3>1, RunHasLength DEF StoredUpTo
      <4>2. ASSUME NEW q \in StoredUpTo(text, i - 1)
            PROVE  q[1] \in Nat /\ Chars(RunText(text, q)) \in Nat
        BY RunHasLength DEF StoredUpTo
      <4>3. CASE Chars(RunText(text, r)) > Chars(RunText(text, p))
        <5>1. best[i] = RunText(text, r)
          BY <1>2, <2>3, <3>1, <3>4, <4>3 DEF Longer
        <5>2. ASSUME NEW q \in StoredUpTo(text, i)
              PROVE  Beats(text, r, q)
          <6>1. CASE q = r
            BY <3>2, <6>1 DEF Beats
          <6>2. CASE q \in StoredUpTo(text, i - 1)
            BY <3>2, <3>4, <4>1, <4>2, <4>3, <6>2 DEF Beats
          <6> QED BY <3>1, <6>1, <6>2
        <5>3. r \in StoredUpTo(text, i)
          BY <3>1
        <5>4. IsBest(text, i)
          BY <5>1, <5>2, <5>3 DEF IsBest, best
        <5> QED BY <1>1, <5>4
      <4>4. CASE ~ (Chars(RunText(text, r)) > Chars(RunText(text, p)))
        <5>1. best[i] = RunText(text, p)
          BY <1>2, <2>3, <3>1, <3>4, <4>4 DEF Longer
        <5>2. ASSUME NEW q \in StoredUpTo(text, i)
              PROVE  Beats(text, p, q)
          <6>1. CASE q = r
            BY <3>2, <4>1, <4>4, <6>1 DEF Beats
          <6>2. CASE q \in StoredUpTo(text, i - 1)
            BY <3>4, <6>2
          <6> QED BY <3>1, <6>1, <6>2
        <5>3. p \in StoredUpTo(text, i)
          BY <3>1
        <5>4. IsBest(text, i)
          BY <5>1, <5>2, <5>3 DEF IsBest, best
        <5> QED BY <1>1, <5>4
      <4> QED BY <4>3, <4>4
    <3> QED BY <2>1, <3>3, <3>4 DEF IsBest, best
  <2> QED BY <2>2, <2>3
<1>5. 0 .. end \subseteq S
  <2> HIDE DEF S, end
  <2> QED BY <1>1, <1>3, <1>4, Induction
<1> QED BY <1>1, <1>5

\* _extract_mixed_code_block finds the longest run of code of a text, the first
\* of them when there are several, and nothing when there is none.
THEOREM MixedBlockIsLongestRun ==
  ASSUME NEW text \in Seq(LineKinds)
  PROVE  { MixedBlock(text) } \ { <<>> } = LongestRun(text)
<1> DEFINE end == Len(text) + 1
           mixed == MixedBlock(text)
<1>1. StoredUpTo(text, end) = CodeRuns(text)
  BY RunIsStored DEF StoredUpTo
<1>2. mixed = BestRun(text)[end]
  BY MixedBlockByTurns
<1> HIDE DEF mixed
<1>3. \/ mixed = <<>> /\ CodeRuns(text) = {}
      \/ \E r \in CodeRuns(text) :
            mixed = RunText(text, r) /\ \A q \in CodeRuns(text) : Beats(text, r, q)
  BY <1>1, <1>2, BestMeaning DEF IsBest
<1>4. LongestRun(text) =
        { RunText(text, r) : r \in { q \in CodeRuns(text) :
                        \A other \in CodeRuns(text) : Beats(text, q, other) } }
  BY DEF LongestRun, RunText, Beats
<1>5. CASE mixed = <<>> /\ CodeRuns(text) = {}
  BY <1>4, <1>5 DEF mixed
<1>6. ASSUME NEW r \in CodeRuns(text), mixed = RunText(text, r),
             \A q \in CodeRuns(text) : Beats(text, r, q)
      PROVE  { mixed } \ { <<>> } = LongestRun(text)
  <2>1. mixed # <<>> /\ r[1] \in Nat /\ Chars(RunText(text, r)) \in Nat
    BY <1>6, RunHasLength
  <2>2. ASSUME NEW p \in CodeRuns(text), \A q \in CodeRuns(text) : Beats(text, p, q)
        PROVE  p = r
    <3>1. p[1] \in Nat /\ Chars(RunText(text, p)) \in Nat
      BY RunHasLength
    <3>2. Beats(text, p, r) /\ Beats(text, r, p)
      BY <1>6, <2>2
    <3>3. p[1] = r[1]
      BY <2>1, <3>1, <3>2 DEF Beats
    <3> QED BY <3>3, RunsAreDistinct
  <2> QED BY <1>4, <1>6, <2>1, <2>2
<1> QED BY <1>3, <1>5, <1>6 DEF mixed

-----------------------------------------------------------------------------
\* A part of a text that holds no fence parses when each of its lines does.
LEMMA ParsesWithoutFences ==
  ASSUME NEW text \in Seq(LineKinds), \A i \in DOMAIN text : text[i] \notin Fences
  PROVE  Parses(text) <=>
           \A i \in DOMAIN text : text[i] \in {"code", "call", "comment", "blank"}
<1>1. DOMAIN text = 1 .. Len(text) /\ Len(text) \in Nat
  BY LenProperties
<1>2. ASSUME NEW i \in 0 .. Len(text)
      PROVE  ~ IsOdd(FencesUpTo(text, i))
  <2>1. { j \in 1 .. i : text[j] \in Fences } = {}
    BY <1>1
  <2>2. FencesUpTo(text, i) = 0
    BY <2>1, FS_EmptySet DEF FencesUpTo
  <2> QED BY <2>2 DEF IsOdd
<1>3. Len(text) \in 0 .. Len(text) /\ \A i \in DOMAIN text : i \in 0 .. Len(text)
  BY <1>1
<1>4. Parses(text) <=>
        \A i \in DOMAIN text : text[i] \in {"code", "call", "comment", "blank", "fence"}
  BY <1>2, <1>3 DEF Parses
<1> QED BY <1>4 DEF Fences

\* The fence that closes the one at line i.
Close(text, i) == Min({ j \in i + 1 .. Len(text) : text[j] \in Fences })

\* An opening fence has a closing one: it is the next.
LEMMA OpensCloses ==
  ASSUME NEW text \in Seq(LineKinds), NEW i \in DOMAIN text
  PROVE  (FencesUpTo(text, i) < FencesUpTo(text, Len(text))) <=>
           \E j \in i + 1 .. Len(text) : text[j] \in Fences
<1> DEFINE upTo(k) == { j \in 1 .. k : text[j] \in Fences }
           n == Len(text)
<1>1. n \in Nat /\ i \in 1 .. n
  BY LenProperties
<1>2. IsFiniteSet(upTo(n)) /\ upTo(i) \in SUBSET upTo(n)
  <2>1. IsFiniteSet(1 .. n)
    BY <1>1, FS_Interval
  <2>2. IsFiniteSet(upTo(n))
    BY <2>1, FS_Subset
  <2> QED BY <1>1, <2>2
<1>3. /\ IsFiniteSet(upTo(i))
      /\ Cardinality(upTo(i)) <= Cardinality(upTo(n))
      /\ Cardinality(upTo(n)) = Cardinality(upTo(i)) => upTo(n) = upTo(i)
  <2> HIDE DEF upTo
  <2> QED BY <1>2, FS_Subset
<1>4. Cardinality(upTo(i)) \in Nat /\ Cardinality(upTo(n)) \in Nat
  BY <1>2, <1>3, FS_CardinalityType
<1>5. upTo(n) = upTo(i) <=> ~ \E j \in i + 1 .. n : text[j] \in Fences
  <2>1. \A j \in i + 1 .. n : j \in 1 .. n /\ j \notin 1 .. i
    BY <1>1
  <2>2. \A j \in 1 .. n : j \in 1 .. i \/ j \in i + 1 .. n
    BY <1>1
  <2>3. \A j \in 1 .. i : j \in 1 .. n
    BY <1>1
  <2> QED BY <2>1, <2>2, <2>3
<1>6. FencesUpTo(text, i) = Cardinality(upTo(i)) /\ FencesUpTo(text, n) = Cardinality(upTo(n))
  BY DEF FencesUpTo
<1> HIDE DEF upTo, n
<1>7. FencesUpTo(text, i) < FencesUpTo(text, n) <=> upTo(n) # upTo(i)
  BY <1>3, <1>4, <1>6
<1> QED BY <1>5, <1>7 DEF n

\* The next fence, and no fence before it.
LEMMA CloseIsNext ==
  ASSUME NEW text \in Seq(LineKinds), NEW i \in DOMAIN text,
         \E j \in i + 1 .. Len(text) : text[j] \in Fences
  PROVE  /\ Close(text, i) \in i + 1 .. Len(text)
         /\ text[Close(text, i)] \in Fences
         /\ \A j \in i + 1 .. Close(text, i) - 1 : text[j] \notin Fences
         /\ Inner(text, i) = Trim(SubSeq(text, i + 1, Close(text, i) - 1))
<1> DEFINE S == { j \in i + 1 .. Len(text) : text[j] \in Fences }
           close == Close(text, i)
<1>1. Len(text) \in Nat /\ i \in 1 .. Len(text)
  BY LenProperties
<1>2. S \in SUBSET Nat /\ S # {}
  BY <1>1
<1>3. close = Min(S) /\ Inner(text, i) = Trim(SubSeq(text, i + 1, close - 1))
  BY DEF Close, Inner
<1> HIDE DEF S, close
<1>4. close \in S /\ \A j \in S : close <= j
  BY <1>2, <1>3, LeastExists
<1> USE DEF S
<1>5. close \in i + 1 .. Len(text) /\ text[close] \in Fences
  BY <1>4
<1>6. ASSUME NEW j \in i + 1 .. close - 1
      PROVE  text[j] \notin Fences
  <2>1. j \in i + 1 .. Len(text) /\ ~ (close <= j)
    BY <1>1, <1>5
  <2> QED BY <1>4, <2>1
<1> QED BY <1>3, <1>5, <1>6 DEF close

\* A usable fence is the beginning of a fenced block that parses.
LEMMA UsableIsBlock ==
  ASSUME NEW text \in Seq(LineKinds), NEW f \in UsableFences(text)
  PROVE  /\ f[1] \in FencedBlocks(text)
         /\ Inner(text, f[1]) = Trim(SubSeq(text, f[1] + 1, f[2] - 1))
         /\ Parses(Inner(text, f[1]))
<1> DEFINE n == Len(text)
           a == f[1]
           b == f[2]
           allowed == {"code", "call", "comment", "blank"}
<1>1. n \in Nat /\ DOMAIN text = 1 .. n
  BY LenProperties
<1>2. a \in 1 .. n /\ b \in 1 .. n /\ IsUsableFence(text, a, b)
  BY <1>1 DEF UsableFences
<1> HIDE DEF a, b
<1>3. /\ a < b /\ text[a] \in Fences /\ text[b] \in Fences
      /\ IsOdd(FencesUpTo(text, a))
      /\ \A i \in a + 1 .. b - 1 : text[i] \in allowed
      /\ \E i \in a + 1 .. b - 1 : text[i] # "blank"
  BY <1>2 DEF IsUsableFence, IsOdd, FencesUpTo
<1>4. b \in a + 1 .. n /\ \A i \in a + 1 .. b - 1 : text[i] \notin Fences
  BY <1>2, <1>3 DEF Fences
<1>5. Opens(text, a)
  BY <1>1, <1>2, <1>3, <1>4, OpensCloses DEF Opens
<1>6. Close(text, a) = b /\ Inner(text, a) = Trim(SubSeq(text, a + 1, b - 1))
  <2>1. /\ Close(text, a) \in a + 1 .. n /\ text[Close(text, a)] \in Fences
        /\ \A j \in a + 1 .. Close(text, a) - 1 : text[j] \notin Fences
        /\ Inner(text, a) = Trim(SubSeq(text, a + 1, Close(text, a) - 1))
    BY <1>1, <1>2, <1>3, <1>4, CloseIsNext
  <2>2. Close(text, a) = b
    BY <1>2, <1>3, <1>4, <2>1
  <2> QED BY <2>1, <2>2
<1>7. a + 1 \in 1 .. n /\ b - 1 \in 0 .. n
  BY <1>2, <1>3
<1> DEFINE p == a + 1
           q == b - 1
<1> HIDE DEF p, q
<1>8. PICK c \in p .. q, d \in p .. q :
        /\ c <= d /\ text[c] # "blank" /\ text[d] # "blank"
        /\ \A k \in p .. c - 1 : text[k] = "blank"
        /\ \A k \in d + 1 .. q : text[k] = "blank"
        /\ Trim(SubSeq(text, p, q)) = SubSeq(text, c, d)
  <2>1. p \in 1 .. Len(text) /\ q \in 0 .. Len(text)
        /\ ~ \A k \in p .. q : text[k] = "blank"
    BY <1>3, <1>7 DEF p, q
  <2> QED BY <2>1, TrimOfLines
<1> DEFINE inner == SubSeq(text, c, d)
<1>9. p \in 1 .. n /\ q \in 0 .. n /\ c \in 1 .. n /\ d \in 1 .. n
  BY <1>7, <1>8 DEF p, q
<1>10. \A k \in c .. d : text[k] \in LineKinds /\ text[k] \in allowed
  <2>1. ASSUME NEW k \in c .. d PROVE k \in 1 .. n /\ k \in p .. q
    BY <1>1, <1>8, <1>9
  <2> QED BY <1>3, <2>1, ElementOfSeq DEF p, q
<1>11. /\ inner \in Seq(LineKinds) /\ Len(inner) = d - c + 1
       /\ \A i \in 1 .. d - c + 1 : inner[i] = text[c + i - 1]
  <2>1. c \in Int /\ d \in Int
    BY <1>9
  <2> QED BY <1>8, <1>10, <2>1, SubSeqProperties
<1>12. \A i \in DOMAIN inner : inner[i] \in allowed
  <2>1. DOMAIN inner = 1 .. d - c + 1
    BY <1>11, LenProperties
  <2>2. \A i \in 1 .. d - c + 1 : c + i - 1 \in c .. d
    BY <1>9
  <2> QED BY <1>10, <1>11, <2>1, <2>2
<1>13. Inner(text, a) = inner /\ inner # <<>>
  <2>1. Len(inner) # 0
    BY <1>8, <1>9, <1>11
  <2>2. inner # <<>>
    BY <1>11, <2>1, EmptySeq
  <2> QED BY <1>6, <1>8, <2>2 DEF p, q
<1>14. Parses(inner)
  <2>1. \A i \in DOMAIN inner : inner[i] \notin Fences
    BY <1>12 DEF Fences
  <2> HIDE DEF inner
  <2> QED BY <1>11, <1>12, <2>1, ParsesWithoutFences
<1>15. a \in FencedBlocks(text)
  BY <1>1, <1>2, <1>5, <1>13 DEF FencedBlocks
<1> QED BY <1>6, <1>13, <1>14, <1>15 DEF a, b

\* Lines c to d of a text, as a text.
LEMMA PartOfText ==
  ASSUME NEW text \in Seq(LineKinds),
         NEW c \in 1 .. Len(text), NEW d \in 1 .. Len(text), c <= d
  PROVE  LET part == SubSeq(text, c, d) IN
         /\ part \in Seq(LineKinds) \ { <<>> }
         /\ DOMAIN part = 1 .. d - c + 1
         /\ \A i \in 1 .. d - c + 1 : part[i] = text[c + i - 1] /\ c + i - 1 \in c .. d
         /\ \A k \in c .. d : k - c + 1 \in 1 .. d - c + 1 /\ part[k - c + 1] = text[k]
<1> DEFINE part == SubSeq(text, c, d)
<1>1. Len(text) \in Nat /\ c \in Int /\ d \in Int
  BY LenProperties
<1>2. \A k \in c .. d : text[k] \in LineKinds
  BY <1>1, ElementOfSeq
<1>3. /\ part \in Seq(LineKinds) /\ Len(part) = d - c + 1
      /\ \A i \in 1 .. d - c + 1 : part[i] = text[c + i - 1]
  BY <1>1, <1>2, SubSeqProperties
<1>4. part # <<>>
  <2>1. Len(part) # 0
    BY <1>1, <1>3
  <2> QED BY <2>1, EmptySeq
<1>5. DOMAIN part = 1 .. d - c + 1
  BY <1>3, LenProperties
<1>6. \A i \in 1 .. d - c + 1 : c + i - 1 \in c .. d
  BY <1>1
<1>7. ASSUME NEW k \in c .. d
      PROVE  k - c + 1 \in 1 .. d - c + 1 /\ part[k - c + 1] = text[k]
  <2>1. k - c + 1 \in 1 .. d - c + 1 /\ c + (k - c + 1) - 1 = k
    BY <1>1
  <2> QED BY <1>3, <2>1
<1> HIDE DEF part
<1>8. /\ part \in Seq(LineKinds) \ { <<>> }
      /\ DOMAIN part = 1 .. d - c + 1
      /\ \A i \in 1 .. d - c + 1 : part[i] = text[c + i - 1] /\ c + i - 1 \in c .. d
      /\ \A k \in c .. d : k - c + 1 \in 1 .. d - c + 1 /\ part[k - c + 1] = text[k]
  BY <1>3, <1>4, <1>5, <1>6, <1>7
<1> QED BY <1>8 DEF part

\* What stands in a fenced block is a part of the text between two fences.
LEMMA BlockIsPart ==
  ASSUME NEW text \in Seq(LineKinds), NEW i \in FencedBlocks(text)
  PROVE  \E b, c, d \in 1 .. Len(text) :
           /\ i \in 1 .. Len(text) /\ i < c /\ c <= d /\ d < b
           /\ text[i] \in Fences /\ text[b] \in Fences
           /\ IsOdd(FencesUpTo(text, i))
           /\ \A k \in i + 1 .. b - 1 : text[k] \notin Fences
           /\ \A k \in (i + 1 .. b - 1) \ (c .. d) : text[k] = "blank"
           /\ text[c] # "blank"
           /\ Inner(text, i) = SubSeq(text, c, d)
<1> DEFINE n == Len(text)
           b == Close(text, i)
           p == i + 1
           q == b - 1
<1>1. n \in Nat /\ DOMAIN text = 1 .. n
  BY LenProperties
<1>2. i \in 1 .. n /\ Opens(text, i) /\ Inner(text, i) # <<>>
  BY <1>1 DEF FencedBlocks
<1>3. /\ b \in i + 1 .. n /\ text[b] \in Fences
      /\ \A j \in i + 1 .. b - 1 : text[j] \notin Fences
      /\ Inner(text, i) = Trim(SubSeq(text, i + 1, b - 1))
  BY <1>1, <1>2, OpensCloses, CloseIsNext DEF Opens
<1> HIDE DEF b
<1>4. p \in 1 .. Len(text) /\ q \in 0 .. Len(text)
  BY <1>1, <1>2, <1>3
<1>5. Inner(text, i) = Trim(SubSeq(text, p, q))
  BY <1>3
<1> HIDE DEF p, q
<1>6. PICK c \in p .. q, d \in p .. q :
        /\ c <= d /\ text[c] # "blank" /\ text[d] # "blank"
        /\ \A k \in p .. c - 1 : text[k] = "blank"
        /\ \A k \in d + 1 .. q : text[k] = "blank"
        /\ Trim(SubSeq(text, p, q)) = SubSeq(text, c, d)
  BY <1>2, <1>4, <1>5, TrimOfLines
<1>7. b \in 1 .. n /\ c \in 1 .. n /\ d \in 1 .. n /\ i < c /\ d < b
  BY <1>1, <1>2, <1>3, <1>6 DEF p, q
<1>8. \A k \in (i + 1 .. b - 1) \ (c .. d) : text[k] = "blank"
  BY <1>2, <1>3, <1>6, <1>7 DEF p, q
<1>9. text[i] \in Fences /\ IsOdd(FencesUpTo(text, i))
  BY <1>2 DEF Opens
<1> QED BY <1>2, <1>3, <1>5, <1>6, <1>7, <1>8, <1>9

\* A fenced block that parses is a usable fence with the one that closes it.
LEMMA BlockIsUsable ==
  ASSUME NEW text \in Seq(LineKinds), NEW i \in FencedBlocks(text),
         Parses(Inner(text, i))
  PROVE  \E b : <<i, b>> \in UsableFences(text)
<1> DEFINE n == Len(text)
           allowed == {"code", "call", "comment", "blank"}
<1>1. n \in Nat /\ DOMAIN text = 1 .. n
  BY LenProperties
<1>2. PICK b, c, d \in 1 .. n :
           /\ i \in 1 .. n /\ i < c /\ c <= d /\ d < b
           /\ text[i] \in Fences /\ text[b] \in Fences
           /\ IsOdd(FencesUpTo(text, i))
           /\ \A k \in i + 1 .. b - 1 : text[k] \notin Fences
           /\ \A k \in (i + 1 .. b - 1) \ (c .. d) : text[k] = "blank"
           /\ text[c] # "blank"
           /\ Inner(text, i) = SubSeq(text, c, d)
  BY BlockIsPart
<1> DEFINE inner == SubSeq(text, c, d)
<1>3. /\ inner \in Seq(LineKinds)
      /\ DOMAIN inner = 1 .. d - c + 1
      /\ \A j \in 1 .. d - c + 1 : inner[j] = text[c + j - 1] /\ c + j - 1 \in c .. d
      /\ \A k \in c .. d : k - c + 1 \in 1 .. d - c + 1 /\ inner[k - c + 1] = text[k]
  BY <1>2, PartOfText
<1> HIDE DEF inner
<1>4. \A k \in c .. d : k \in i + 1 .. b - 1
  BY <1>2
<1>5. \A j \in DOMAIN inner : inner[j] \notin Fences
  BY <1>2, <1>3, <1>4
<1>6. \A j \in DOMAIN inner : inner[j] \in allowed
  <2>1. Parses(inner)
    BY <1>2 DEF inner
  <2> QED BY <1>3, <1>5, <2>1, ParsesWithoutFences
<1>7. \A k \in i + 1 .. b - 1 : text[k] \in allowed
  BY <1>2, <1>3, <1>6
<1>8. \E k \in i + 1 .. b - 1 : text[k] # "blank"
  <2>1. c \in i + 1 .. b - 1
    BY <1>2
  <2> QED BY <1>2, <2>1
<1>9. IsUsableFence(text, i, b)
  <2>1. i < b
    BY <1>2
  <2> QED BY <1>2, <1>7, <1>8, <2>1 DEF IsUsableFence, IsOdd, FencesUpTo
<1>10. <<i, b>> \in UsableFences(text)
  BY <1>1, <1>2, <1>9 DEF UsableFences
<1> QED BY <1>10

-----------------------------------------------------------------------------
\* The list of the preferred languages, place by place.
LEMMA ListOfLanguages ==
  /\ Len(PreferredFences) = 6
  /\ DOMAIN PreferredFences = 1 .. 6
  /\ PreferredFences[1] = "javascript_fence"
  /\ PreferredFences[2] = "js_fence"
  /\ PreferredFences[3] = "jsx_fence"
  /\ PreferredFences[4] = "node_fence"
  /\ PreferredFences[5] = "ecmascript_fence"
  /\ PreferredFences[6] = "fence"
BY DEF PreferredFences

\* The rank of a listed language is its place, that of any other comes after.
LEMMA RankIsPlace ==
  /\ \A k \in 1 .. 6 : Rank(PreferredFences[k]) = k
  /\ Rank("py_fence") = 7
<1> DEFINE places(a) == { k \in DOMAIN PreferredFences : PreferredFences[k] = a }
                           \cup {Len(PreferredFences) + 1}
<1>1. \A a : Rank(a) = Min(places(a))
  BY DEF Rank
<1>2. places("py_fence") = {7}
  BY ListOfLanguages
<1>3. ASSUME NEW k \in 1 .. 6
      PROVE  places(PreferredFences[k]) = {k, 7}
  <2>1. \A j \in 1 .. 6 : PreferredFences[j] = PreferredFences[k] => j = k
    BY ListOfLanguages
  <2> QED BY <2>1, ListOfLanguages
<1> HIDE DEF places
<1>4. \A k \in 1 .. 6 : Min({k, 7}) = k
  BY DEF Min
<1>5. Min({7}) = 7
  BY DEF Min
<1> QED BY <1>1, <1>2, <1>3, <1>4, <1>5

\* A fence is one of the listed languages, or the one that is not listed.
LEMMA FenceHasPlace ==
  \A a \in Fences :
      (\E k \in 1 .. 6 : a = PreferredFences[k]) \/ a = "py_fence"
BY ListOfLanguages DEF Fences

\* Ranks order the languages as the list does.
LEMMA RankIsPreference ==
  /\ \A a \in Fences : Rank(a) \in 1 .. 7
  /\ \A a, b \in Fences : Rank(a) = Rank(b) => a = b
  /\ \A a, b \in Fences : IsPreferred(a, b) <=> Rank(a) < Rank(b)
<1>1. \A a \in Fences : Rank(a) \in 1 .. 7
  BY RankIsPlace, FenceHasPlace
<1>2. \A a \in Fences :
        \A k \in 1 .. 6 : PreferredFences[k] = a <=> Rank(a) = k
  <2>1. \A k \in 1 .. 6 : PreferredFences[k] # "py_fence"
    BY ListOfLanguages
  <2> QED BY <2>1, RankIsPlace, FenceHasPlace
<1>3. \A a, b \in Fences : Rank(a) = Rank(b) => a = b
  BY <1>2, RankIsPlace, FenceHasPlace
<1>4. ASSUME NEW a \in Fences, NEW b \in Fences
      PROVE  IsPreferred(a, b) <=> Rank(a) < Rank(b)
  <2>1. IsPreferred(a, b) <=>
          \E k \in 1 .. 6 : Rank(a) = k /\ \A j \in 1 .. k : Rank(b) # j
    BY <1>2, ListOfLanguages DEF IsPreferred
  <2> QED BY <1>1, <2>1
<1> QED BY <1>1, <1>3, <1>4

\* The blocks are tried in a strict total order.
LEMMA PrecedesIsOrder ==
  ASSUME NEW text \in Seq(LineKinds)
  PROVE  LET blocks == FencedBlocks(text) IN
         /\ IsFiniteSet(blocks) /\ blocks \subseteq Nat
         /\ \A i \in blocks : ~ Precedes(text, i, i)
         /\ \A i, j \in blocks :
              i = j \/ Precedes(text, i, j) \/ Precedes(text, j, i)
         /\ \A i, j, k \in blocks :
              Precedes(text, i, j) /\ Precedes(text, j, k) => Precedes(text, i, k)
<1> DEFINE blocks == FencedBlocks(text)
<1>1. Len(text) \in Nat /\ DOMAIN text = 1 .. Len(text)
  BY LenProperties
<1>2. IsFiniteSet(DOMAIN text)
  BY <1>1, FS_Interval
<1>3. IsFiniteSet(blocks) /\ blocks \subseteq DOMAIN text
  BY <1>2, FS_Subset DEF FencedBlocks
<1>4. \A i \in blocks : i \in Nat /\ Rank(text[i]) \in 1 .. 7
  <2>1. \A i \in blocks : text[i] \in Fences
    BY DEF FencedBlocks, Opens
  <2> QED BY <1>1, <1>3, <2>1, RankIsPreference
<1> HIDE DEF blocks
<1>5. /\ \A i \in blocks : ~ Precedes(text, i, i)
      /\ \A i, j \in blocks :
           i = j \/ Precedes(text, i, j) \/ Precedes(text, j, i)
      /\ \A i, j, k \in blocks :
           Precedes(text, i, j) /\ Precedes(text, j, k) => Precedes(text, i, k)
  BY <1>4 DEF Precedes
<1> QED BY <1>1, <1>3, <1>4, <1>5 DEF blocks

\* The place of a block among the blocks.
Place(text, i) ==
    Cardinality({ j \in FencedBlocks(text) : Precedes(text, j, i) }) + 1

\* Places are numbers up to that of the blocks, in the order they are tried.
LEMMA PlacesAreOrdered ==
  ASSUME NEW text \in Seq(LineKinds)
  PROVE  LET blocks == FencedBlocks(text) IN
         /\ Cardinality(blocks) \in Nat
         /\ \A i \in blocks : Place(text, i) \in 1 .. Cardinality(blocks)
         /\ \A i, j \in blocks :
              Precedes(text, i, j) => Place(text, i) < Place(text, j)
<1> DEFINE blocks == FencedBlocks(text)
           before(i) == { j \in blocks : Precedes(text, j, i) }
<1>1. /\ IsFiniteSet(blocks)
      /\ \A i \in blocks : ~ Precedes(text, i, i)
      /\ \A i, j, k \in blocks :
           Precedes(text, i, j) /\ Precedes(text, j, k) => Precedes(text, i, k)
  BY PrecedesIsOrder
<1>2. \A i : Place(text, i) = Cardinality(before(i)) + 1
  BY DEF Place
<1> HIDE DEF blocks
<1>3. Cardinality(blocks) \in Nat
  BY <1>1, FS_CardinalityType
<1>4. ASSUME NEW i
      PROVE  IsFiniteSet(before(i)) /\ Cardinality(before(i)) \in Nat
  <2>1. before(i) \in SUBSET blocks
    OBVIOUS
  <2> HIDE DEF before
  <2> QED BY <1>1, <2>1, FS_Subset, FS_CardinalityType
<1>5. ASSUME NEW i \in blocks
      PROVE  Cardinality(before(i)) < Cardinality(blocks)
  <2>1. before(i) \in SUBSET blocks /\ before(i) # blocks
    BY <1>1
  <2> HIDE DEF before
  <2> QED BY <1>1, <1>3, <1>4, <2>1, FS_Subset
<1>6. ASSUME NEW i \in blocks, NEW j \in blocks, Precedes(text, i, j)
      PROVE  Cardinality(before(i)) < Cardinality(before(j))
  <2>1. before(i) \in SUBSET before(j) /\ i \in before(j) /\ i \notin before(i)
    BY <1>1, <1>6
  <2>2. before(i) # before(j)
    BY <2>1
  <2> HIDE DEF before
  <2> QED BY <1>4, <2>1, <2>2, FS_Subset
<1> HIDE DEF before
<1>7. \A i \in blocks : Place(text, i) \in 1 .. Cardinality(blocks)
  BY <1>2, <1>3, <1>4, <1>5
<1>8. \A i, j \in blocks : Precedes(text, i, j) => Place(text, i) < Place(text, j)
  BY <1>2, <1>4, <1>6
<1> QED BY <1>3, <1>7, <1>8 DEF blocks

\* Each block has a place, each place up to their number a block.
LEMMA PlacesAreTaken ==
  ASSUME NEW text \in Seq(LineKinds)
  PROVE  LET blocks == FencedBlocks(text) IN
         /\ \A i, j \in blocks : Place(text, i) = Place(text, j) => i = j
         /\ \A k \in 1 .. Cardinality(blocks) :
              \E i \in blocks : Place(text, i) = k
<1> DEFINE blocks == FencedBlocks(text)
           N == Cardinality(blocks)
           place == [i \in blocks |-> Place(text, i)]
<1>1. /\ N \in Nat
      /\ \A i \in blocks : Place(text, i) \in 1 .. N
      /\ \A i, j \in blocks :
           Precedes(text, i, j) => Place(text, i) < Place(text, j)
  BY PlacesAreOrdered
<1>2. /\ IsFiniteSet(blocks)
      /\ \A i, j \in blocks :
           i = j \/ Precedes(text, i, j) \/ Precedes(text, j, i)
  BY PrecedesIsOrder
<1> HIDE DEF blocks, N
<1>3. ASSUME NEW i \in blocks, NEW j \in blocks, Place(text, i) = Place(text, j)
      PROVE  i = j
  <2>1. Place(text, i) \in Int /\ Place(text, j) \in Int
    BY <1>1
  <2>2. ~ (Place(text, i) < Place(text, j)) /\ ~ (Place(text, j) < Place(text, i))
    BY <1>3, <2>1
  <2> QED BY <1>1, <1>2, <2>2
<1>4. place \in Injection(blocks, 1 .. N)
  <2>1. place \in [blocks -> 1 .. N]
    BY <1>1
  <2>2. \A i, j \in blocks : place[i] = place[j] => i = j
    BY <1>3
  <2> QED BY <2>1, <2>2 DEF Injection, IsInjective
<1>5. IsFiniteSet(1 .. N) /\ Cardinality(1 .. N) = N
  BY <1>1, FS_Interval
<1>6. place \in Surjection(blocks, 1 .. N)
  <2>1. Cardinality(blocks) = Cardinality(1 .. N)
    BY <1>5 DEF N
  <2> HIDE DEF place
  <2> QED BY <1>4, <1>5, <2>1, FS_Injection
<1>7. \A k \in 1 .. N : \E i \in blocks : Place(text, i) = k
  BY <1>6 DEF Surjection
<1> QED BY <1>3, <1>7 DEF blocks, N

-----------------------------------------------------------------------------
\* The block in place k.
LEMMA CandidateInPlace ==
  ASSUME NEW text \in Seq(LineKinds)
  PROVE  LET fenced == FencedCandidates(text)
             blocks == FencedBlocks(text)
         IN /\ DOMAIN fenced = 1 .. Cardinality(blocks)
            /\ fenced = [k \in 1 .. Cardinality(blocks) |-> fenced[k]]
            /\ \A i \in blocks :
                 fenced[Place(text, i)] = [code |-> Inner(text, i), applied |-> TRUE]
<1> DEFINE fenced == FencedCandidates(text)
           blocks == FencedBlocks(text)
           N == Cardinality(blocks)
           nth(k) == CHOOSE i \in blocks :
                       Cardinality({ j \in blocks : Precedes(text, j, i) }) = k - 1
<1>1. fenced = [k \in 1 .. N |-> [code |-> Inner(text, nth(k)), applied |-> TRUE]]
  BY DEF FencedCandidates
<1>2. \A i \in blocks : Place(text, i) \in 1 .. N
  BY PlacesAreOrdered
<1>3. \A i, j \in blocks : Place(text, i) = Place(text, j) => i = j
  BY PlacesAreTaken
<1>4. ASSUME NEW i \in blocks
      PROVE  nth(Place(text, i)) = i
  <2> DEFINE before(j) == Cardinality({ k \in blocks : Precedes(text, k, j) })
             at == Place(text, i)
  <2>1. ASSUME NEW j \in blocks
        PROVE  before(j) = at - 1 <=> Place(text, j) = at
    <3>1. Place(text, j) \in Int /\ at \in Int
      BY <1>2
    <3>2. Place(text, j) = before(j) + 1
      BY DEF Place
    <3>3. before(j) \in Int
      <4>1. IsFiniteSet(blocks)
        BY PrecedesIsOrder
      <4>2. { k \in blocks : Precedes(text, k, j) } \in SUBSET blocks
        OBVIOUS
      <4> QED BY <4>1, <4>2, FS_Subset, FS_CardinalityType
    <3> HIDE DEF before, at
    <3> QED BY <3>1, <3>2, <3>3
  <2>2. nth(at) = CHOOSE j \in blocks : before(j) = at - 1
    OBVIOUS
  <2> HIDE DEF before, at, nth, blocks
  <2>3. \E j \in blocks : before(j) = at - 1
    BY <2>1 DEF at
  <2>4. nth(at) \in blocks /\ before(nth(at)) = at - 1
    BY <2>2, <2>3
  <2>5. Place(text, nth(at)) = Place(text, i)
    BY <2>1, <2>4 DEF at
  <2> QED BY <1>3, <2>4, <2>5 DEF at, blocks
<1> HIDE DEF nth, fenced, blocks, N
<1>5. DOMAIN fenced = 1 .. N /\ fenced = [k \in 1 .. N |-> fenced[k]]
  BY <1>1
<1>6. \A i \in blocks :
        fenced[Place(text, i)] = [code |-> Inner(text, i), applied |-> TRUE]
  BY <1>1, <1>2, <1>4
<1> QED BY <1>5, <1>6 DEF fenced, blocks, N

\* The candidates of a text that is not empty: its blocks in their places, the
\* whole of it, and the mixed block when that is something else.
LEMMA CandidatesByPlace ==
  ASSUME NEW text \in Seq(LineKinds), text # <<>>
  PROVE  LET all == Candidates(text)
             N == Cardinality(FencedBlocks(text))
         IN /\ N \in Nat
            /\ DOMAIN all = IF MixedBlock(text) \in { <<>>, text } THEN 1 .. N + 1
                            ELSE 1 .. N + 2
            /\ \A i \in FencedBlocks(text) : /\ all[Place(text, i)].code = Inner(text, i)
                                            /\ all[Place(text, i)].applied
            /\ all[N + 1].code = text /\ ~ all[N + 1].applied
            /\ MixedBlock(text) \notin { <<>>, text } =>
                 all[N + 2].code = MixedBlock(text) /\ all[N + 2].applied
<1> DEFINE fenced == FencedCandidates(text)
           N == Cardinality(FencedBlocks(text))
           whole == [code |-> text, applied |-> FALSE]
           mixed == [code |-> MixedBlock(text), applied |-> TRUE]
           S == { fenced[k] : k \in DOMAIN fenced } \cup {whole, mixed}
           all == Candidates(text)
<1>1. N \in Nat /\ \A i \in FencedBlocks(text) : Place(text, i) \in 1 .. N
  BY PlacesAreOrdered
<1>2. /\ DOMAIN fenced = 1 .. N /\ fenced = [k \in 1 .. N |-> fenced[k]]
      /\ \A i \in FencedBlocks(text) :
           fenced[Place(text, i)] = [code |-> Inner(text, i), applied |-> TRUE]
  BY CandidateInPlace
<1>3. /\ whole.code = text /\ ~ whole.applied
      /\ mixed.code = MixedBlock(text) /\ mixed.applied
  OBVIOUS
<1>a. ASSUME NEW i \in FencedBlocks(text)
      PROVE  /\ Place(text, i) \in 1 .. N
             /\ fenced[Place(text, i)].code = Inner(text, i)
             /\ fenced[Place(text, i)].applied
  <2>1. fenced[Place(text, i)] = [code |-> Inner(text, i), applied |-> TRUE]
    BY <1>2
  <2>2. fenced[Place(text, i)].code = Inner(text, i) /\ fenced[Place(text, i)].applied
    BY ONLY <2>1
  <2> QED BY <1>1, <2>2
<1>4. all = Append(fenced, whole) \o
              IF MixedBlock(text) \in { <<>>, text } THEN <<>> ELSE <<mixed>>
  BY DEF Candidates
<1> HIDE DEF fenced, N, whole, mixed, all
<1>5. fenced \in Seq(S) /\ whole \in S /\ mixed \in S
  BY <1>1, <1>2, IsASeq
<1> HIDE DEF S
<1>6. Len(fenced) = N
  <2>1. DOMAIN fenced = 1 .. Len(fenced) /\ Len(fenced) \in Nat
    BY <1>5, LenProperties
  <2> QED BY <1>1, <1>2, <2>1
<1> DEFINE some == Append(fenced, whole)
<1>7. /\ some \in Seq(S) /\ Len(some) = N + 1
      /\ \A k \in 1 .. N : some[k] = fenced[k]
      /\ some[N + 1] = whole
  BY <1>5, <1>6, AppendProperties
<1> HIDE DEF some
<1>8. CASE MixedBlock(text) \in { <<>>, text }
  <2>1. all = some
    BY <1>4, <1>7, <1>8, ConcatEmptySeq DEF some
  <2>2. DOMAIN all = 1 .. N + 1
    BY <1>7, <2>1, LenProperties
  <2>3. \A i \in FencedBlocks(text) : /\ all[Place(text, i)].code = Inner(text, i)
                                      /\ all[Place(text, i)].applied
    BY <1>a, <1>7, <2>1
  <2>4. all[N + 1].code = text /\ ~ all[N + 1].applied
    BY <1>3, <1>7, <2>1
  <2> QED BY <1>1, <1>8, <2>2, <2>3, <2>4 DEF all, N
<1>9. CASE MixedBlock(text) \notin { <<>>, text }
  <2>1. all = some \o <<mixed>>
    BY <1>4, <1>9 DEF some
  <2>2. <<mixed>> \in Seq(S) /\ Len(<<mixed>>) = 1 /\ <<mixed>>[1] = mixed
    BY <1>5
  <2>3. /\ all \in Seq(S) /\ Len(all) = N + 2
        /\ \A k \in 1 .. N + 2 : all[k] = IF k <= N + 1 THEN some[k] ELSE <<mixed>>[k - (N + 1)]
    <3>1. /\ some \o <<mixed>> \in Seq(S)
          /\ Len(some \o <<mixed>>) = Len(some) + Len(<<mixed>>)
          /\ \A k \in 1 .. Len(some) + Len(<<mixed>>) : (some \o <<mixed>>)[k] =
                IF k <= Len(some) THEN some[k] ELSE <<mixed>>[k - Len(some)]
      BY <1>7, <2>2, ConcatProperties
    <3> QED BY <1>1, <1>7, <2>1, <2>2, <3>1
  <2>4. DOMAIN all = 1 .. N + 2
    BY <2>3, LenProperties
  <2>5. all[N + 1] = whole /\ all[N + 2] = mixed /\ \A k \in 1 .. N : all[k] = fenced[k]
    BY <1>1, <1>7, <2>2, <2>3
  <2>6. \A i \in FencedBlocks(text) : /\ all[Place(text, i)].code = Inner(text, i)
                                      /\ all[Place(text, i)].applied
    BY <1>a, <2>5
  <2> QED BY <1>1, <1>3, <1>9, <2>4, <2>5, <2>6 DEF all, N
<1> QED BY <1>8, <1>9

\* The candidates that parse, by their numbers.
Good(text) == { i \in DOMAIN Candidates(text) : Parses(Candidates(text)[i].code) }

\* Candidates are numbered from 1.
LEMMA CandidatesAreNumbered ==
  ASSUME NEW text \in Seq(LineKinds)
  PROVE  DOMAIN Candidates(text) \subseteq Nat
<1>1. CASE text = <<>>
  <2>1. Candidates(text) = <<>>
    BY <1>1 DEF Candidates
  <2> QED BY <2>1
<1>2. CASE text # <<>>
  BY <1>2, CandidatesByPlace
<1> QED BY <1>1, <1>2

\* When there are usable fences, one of them is to be answered.
LEMMA SomeFenceWins ==
  ASSUME NEW text \in Seq(LineKinds), UsableFences(text) # {}
  PROVE  \E f \in UsableFences(text) : \A g \in UsableFences(text) : Wins(text, f, g)
<1> DEFINE all == UsableFences(text)
           ranks == { Rank(text[f[1]]) : f \in all }
<1>1. \A f \in all : /\ f[1] \in Nat
                      /\ text[f[1]] \in Fences
  BY LenProperties DEF UsableFences, IsUsableFence
<1>2. \A kind \in Fences : Rank(kind) \in Nat
  BY RankIsPreference
<1>3. ranks \in SUBSET Nat /\ ranks # {}
  BY <1>1, <1>2
<1>4. PICK r \in ranks : \A s \in ranks : r <= s
  BY <1>3, LeastIsLeast
<1> DEFINE best == { f \in all : Rank(text[f[1]]) = r }
           firsts == { f[1] : f \in best }
<1>5. firsts \in SUBSET Nat /\ firsts # {}
  BY <1>1
<1>6. PICK i \in firsts : \A j \in firsts : i <= j
  BY <1>5, LeastIsLeast
<1>7. PICK f \in best : f[1] = i
  OBVIOUS
<1>8. ASSUME NEW g \in all
      PROVE  Wins(text, f, g)
  <2>1. Rank(text[f[1]]) = r /\ r <= Rank(text[g[1]])
    BY <1>4, <1>7
  <2>2. CASE Rank(text[g[1]]) = r
    <3>1. f[1] <= g[1]
      BY <1>6, <1>7, <2>2
    <3>2. text[f[1]] = text[g[1]]
      BY <1>1, <2>1, <2>2, RankIsPreference
    <3> QED BY <3>1, <3>2 DEF Wins
  <2>3. CASE Rank(text[g[1]]) # r
    <3>1. Rank(text[f[1]]) < Rank(text[g[1]])
      BY <1>1, <1>2, <2>1, <2>3
    <3> QED BY <1>1, <3>1, RankIsPreference DEF Wins
  <2> QED BY <2>2, <2>3
<1> QED BY <1>8

\* A usable fence that wins over all others is the first candidate that parses:
\* extract_code_candidates puts the blocks in that order, and before all else.
LEMMA WinnerIsFirstGood ==
  ASSUME NEW text \in Seq(LineKinds), NEW f \in UsableFences(text),
         \A g \in UsableFences(text) : Wins(text, f, g)
  PROVE  /\ Good(text) # {}
         /\ Candidates(text)[Min(Good(text))].code =
              Trim(SubSeq(text, f[1] + 1, f[2] - 1))
<1> DEFINE blocks == FencedBlocks(text)
           N == Cardinality(blocks)
           all == Candidates(text)
           a == f[1]
           m == Min(Good(text))
<1>1. /\ a \in blocks
      /\ Inner(text, a) = Trim(SubSeq(text, f[1] + 1, f[2] - 1))
      /\ Parses(Inner(text, a))
  BY UsableIsBlock
<1>2. text # <<>>
  BY <1>1 DEF FencedBlocks
<1>3. /\ N \in Nat
      /\ DOMAIN all = 1 .. N + 1 \/ DOMAIN all = 1 .. N + 2
      /\ \A i \in blocks : all[Place(text, i)].code = Inner(text, i)
  BY <1>2, CandidatesByPlace
<1>4. /\ \A i \in blocks : Place(text, i) \in 1 .. N
      /\ \A i, j \in blocks :
           Precedes(text, i, j) => Place(text, i) < Place(text, j)
  BY PlacesAreOrdered
<1>5. \A k \in 1 .. N : \E i \in blocks : Place(text, i) = k
  BY PlacesAreTaken
<1>6. \A i, j \in blocks : i = j \/ Precedes(text, i, j) \/ Precedes(text, j, i)
  BY PrecedesIsOrder
<1> HIDE DEF blocks, N, a, all
<1>7. Place(text, a) \in Good(text)
  <2>1. Place(text, a) \in DOMAIN all
    BY <1>1, <1>3, <1>4
  <2> QED BY <1>1, <1>3, <2>1 DEF Good, all
<1>8. m \in Good(text) /\ m <= Place(text, a)
  <2>1. Good(text) \in SUBSET Nat
    BY CandidatesAreNumbered DEF Good
  <2> QED BY <1>7, <2>1, LeastExists
<1> HIDE DEF m
<1>9. m \in 1 .. N
  <2>1. m \in 1 .. N + 2
    BY <1>3, <1>8 DEF Good, all
  <2> QED BY <1>1, <1>3, <1>4, <1>8, <2>1
<1>10. PICK i \in blocks : Place(text, i) = m
  BY <1>5, <1>9
<1>11. Parses(Inner(text, i))
  BY <1>3, <1>8, <1>10 DEF Good, all
<1>12. PICK b : <<i, b>> \in UsableFences(text)
  BY <1>11, BlockIsUsable DEF blocks
<1>13. Wins(text, f, <<i, b>>)
  BY <1>12
<1>14. ~ Precedes(text, i, a)
  <2>1. a \in Nat /\ i \in Nat /\ text[a] \in Fences /\ text[i] \in Fences
    BY <1>1, <1>10, PrecedesIsOrder DEF blocks, FencedBlocks, Opens
  <2>2. \/ text[a] = text[i] /\ a <= i
        \/ Rank(text[a]) < Rank(text[i])
    BY <1>13, <2>1, RankIsPreference DEF Wins, a
  <2>3. Rank(text[a]) \in Int /\ Rank(text[i]) \in Int
    BY <2>1, RankIsPreference
  <2> QED BY <2>1, <2>2, <2>3 DEF Precedes
<1>15. ~ Precedes(text, a, i)
  <2>1. Place(text, a) \in Int /\ m \in Int
    BY <1>1, <1>4, <1>9
  <2>2. ~ (Place(text, a) < m)
    BY <1>8, <2>1
  <2> QED BY <1>1, <1>4, <1>10, <2>2
<1>16. i = a
  BY <1>1, <1>6, <1>14, <1>15
<1>17. all[m].code = Inner(text, a)
  BY <1>3, <1>10, <1>16
<1> QED BY <1>1, <1>7, <1>17 DEF all, m

\* When a text has usable fences, the first candidate of it that parses is one of
\* them: the first in the language that PREFERRED_FENCE_LANGS lists before the
\* others, all six places of the list told apart.
THEOREM FirstGoodIsFirstFence ==
  ASSUME NEW text \in Seq(LineKinds), UsableFences(text) # {}
  PROVE  \E f \in UsableFences(text) :
           /\ \A g \in UsableFences(text) : Wins(text, f, g)
           /\ Good(text) # {}
           /\ Candidates(text)[Min(Good(text))].code =
                Trim(SubSeq(text, f[1] + 1, f[2] - 1))
BY SomeFenceWins, WinnerIsFirstGood

\* When no candidate of a text parses, nothing in it does that could have been
\* offered: no fenced block, no longest run of code, not the whole of it.
THEOREM NothingGoodIsNothingUsable ==
  ASSUME NEW text \in Seq(LineKinds), Good(text) = {}
  PROVE  /\ UsableFences(text) = {}
         /\ \A run \in LongestRun(text) : ~ Parses(run)
         /\ text = <<>> \/ ~ Parses(text)
<1> DEFINE all == Candidates(text)
           N == Cardinality(FencedBlocks(text))
<1>1. \A k \in DOMAIN all : ~ Parses(all[k].code)
  BY DEF Good
<1>2. /\ \A i \in FencedBlocks(text) : Place(text, i) \in 1 .. N
      /\ N \in Nat
  BY PlacesAreOrdered
<1>3. text # <<>> =>
        /\ DOMAIN all = IF MixedBlock(text) \in { <<>>, text } THEN 1 .. N + 1
                        ELSE 1 .. N + 2
        /\ \A i \in FencedBlocks(text) : all[Place(text, i)].code = Inner(text, i)
        /\ all[N + 1].code = text
        /\ MixedBlock(text) \notin { <<>>, text } => all[N + 2].code = MixedBlock(text)
  BY CandidatesByPlace
<1> HIDE DEF all, N
<1>4. text # <<>> => ~ Parses(text)
  <2>1. text # <<>> => N + 1 \in DOMAIN all
    BY <1>2, <1>3
  <2> QED BY <1>1, <1>3, <2>1
<1>5. ASSUME NEW f \in UsableFences(text)
      PROVE  FALSE
  <2>1. f[1] \in FencedBlocks(text) /\ Parses(Inner(text, f[1]))
    BY UsableIsBlock
  <2>2. text # <<>>
    BY <2>1 DEF FencedBlocks
  <2>3. Place(text, f[1]) \in DOMAIN all
    BY <1>2, <1>3, <2>1, <2>2
  <2> QED BY <1>1, <1>3, <2>1, <2>2, <2>3
<1>6. ASSUME NEW run \in LongestRun(text)
      PROVE  ~ Parses(run)
  <2>1. run = MixedBlock(text) /\ run # <<>>
    BY MixedBlockIsLongestRun
  <2>2. text # <<>>
    <3>1. PICK r : r \in CodeRuns(text)
      BY DEF LongestRun
    <3> QED BY <3>1 DEF CodeRuns
  <2>3. CASE run = text
    BY <1>4, <2>2, <2>3
  <2>4. CASE run # text
    <3>1. N + 2 \in DOMAIN all /\ all[N + 2].code = run
      BY <1>2, <1>3, <2>1, <2>2, <2>4
    <3> QED BY <1>1, <3>1
  <2> QED BY <2>3, <2>4
<1> QED BY <1>4, <1>5, <1>6

-----------------------------------------------------------------------------
\* Every candidate is the text or some lines of it.
LEMMA CandidateIsPart ==
  ASSUME NEW text \in Seq(LineKinds), NEW k \in DOMAIN Candidates(text)
  PROVE  \/ Candidates(text)[k].code = text
         \/ \E c, d \in 1 .. Len(text) :
              c <= d /\ Candidates(text)[k].code = SubSeq(text, c, d)
<1> DEFINE all == Candidates(text)
           N == Cardinality(FencedBlocks(text))
<1>1. text # <<>>
  <2>1. Candidates(<<>>) = <<>>
    BY DEF Candidates
  <2> QED BY <2>1
<1>2. /\ N \in Nat
      /\ DOMAIN all = IF MixedBlock(text) \in { <<>>, text } THEN 1 .. N + 1
                      ELSE 1 .. N + 2
      /\ \A i \in FencedBlocks(text) : all[Place(text, i)].code = Inner(text, i)
      /\ all[N + 1].code = text
      /\ MixedBlock(text) \notin { <<>>, text } => all[N + 2].code = MixedBlock(text)
  BY <1>1, CandidatesByPlace
<1>3. \A j \in 1 .. N : \E i \in FencedBlocks(text) : Place(text, i) = j
  BY PlacesAreTaken
<1>4. CASE k \in 1 .. N
  <2>1. PICK i \in FencedBlocks(text) : Place(text, i) = k
    BY <1>3, <1>4
  <2>2. all[k].code = Inner(text, i)
    BY <1>2, <2>1
  <2>3. PICK b, c, d \in 1 .. Len(text) : c <= d /\ Inner(text, i) = SubSeq(text, c, d)
    BY BlockIsPart
  <2> QED BY <2>2, <2>3
<1>5. CASE k = N + 1
  BY <1>2, <1>5
<1>6. CASE k = N + 2
  <2>1. MixedBlock(text) \notin { <<>>, text }
    BY <1>2, <1>6
  <2>2. MixedBlock(text) \in LongestRun(text)
    BY <2>1, MixedBlockIsLongestRun
  <2>3. PICK r \in CodeRuns(text) : MixedBlock(text) = SubSeq(text, r[1], r[2])
    BY <2>2 DEF LongestRun
  <2>4. r[1] \in 1 .. Len(text) /\ r[2] \in 1 .. Len(text) /\ r[1] <= r[2]
    <3>1. DOMAIN text = 1 .. Len(text)
      BY LenProperties
    <3> QED BY <3>1 DEF CodeRuns, IsCodeRun
  <2> QED BY <1>2, <1>6, <2>1, <2>3, <2>4
<1> QED BY <1>2, <1>4, <1>5, <1>6

\* What looks like code in some lines of a text looks like code in the text.
LEMMA LooksInPart ==
  ASSUME NEW text \in Seq(LineKinds),
         NEW c \in 1 .. Len(text), NEW d \in 1 .. Len(text), c <= d,
         LooksLikeCode(SubSeq(text, c, d))
  PROVE  LooksLikeCode(text)
<1> DEFINE part == SubSeq(text, c, d)
           jargon == { i \in DOMAIN text : text[i] = "jargon" }
           inPart == { i \in DOMAIN part : part[i] = "jargon" }
<1>1. /\ DOMAIN part = 1 .. d - c + 1
      /\ \A i \in 1 .. d - c + 1 : part[i] = text[c + i - 1] /\ c + i - 1 \in c .. d
  BY PartOfText
<1>2. Len(text) \in Nat /\ DOMAIN text = 1 .. Len(text) /\ c \in Int /\ d \in Int
  BY LenProperties
<1>3. \A k \in c .. d : k \in DOMAIN text
  BY <1>2
<1>4. CASE \E i \in DOMAIN part : CodeLike(part[i])
  BY <1>1, <1>3, <1>4 DEF LooksLikeCode
<1>5. CASE Cardinality(inPart) >= 2
  <2> DEFINE move == [i \in inPart |-> c + i - 1]
  <2>1. move \in Injection(inPart, jargon)
    <3>1. \A i \in inPart : move[i] \in jargon /\ i \in Int
      BY <1>1, <1>3
    <3>2. \A i, j \in inPart : move[i] = move[j] => i = j
      BY <1>2, <3>1
    <3> QED BY <3>1, <3>2 DEF Injection, IsInjective
  <2>2. IsFiniteSet(jargon)
    <3>1. IsFiniteSet(DOMAIN text) /\ jargon \in SUBSET DOMAIN text
      BY <1>2, FS_Interval
    <3> HIDE DEF jargon
    <3> QED BY <3>1, FS_Subset
  <2> HIDE DEF move, inPart, jargon
  <2>3. Cardinality(inPart) <= Cardinality(jargon) /\ IsFiniteSet(inPart)
    BY <2>1, <2>2, FS_Injection
  <2>4. Cardinality(inPart) \in Nat /\ Cardinality(jargon) \in Nat
    BY <2>2, <2>3, FS_CardinalityType
  <2>5. Cardinality(jargon) >= 2
    BY <1>5, <2>3, <2>4
  <2> QED BY <2>5 DEF LooksLikeCode, jargon
<1>6. (\E i \in DOMAIN part : CodeLike(part[i])) \/ Cardinality(inPart) >= 2
  BY DEF LooksLikeCode
<1> QED BY <1>4, <1>5, <1>6

\* Some candidate of a text looks like code if and only if the text does.
THEOREM LooksAreKept ==
  ASSUME NEW text \in Seq(LineKinds)
  PROVE  (\E k \in DOMAIN Candidates(text) : LooksLikeCode(Candidates(text)[k].code))
           <=> LooksLikeCode(text)
<1>1. ASSUME NEW k \in DOMAIN Candidates(text), LooksLikeCode(Candidates(text)[k].code)
      PROVE  LooksLikeCode(text)
  <2> DEFINE code == Candidates(text)[k].code
  <2>1. \/ code = text
        \/ \E c, d \in 1 .. Len(text) : c <= d /\ code = SubSeq(text, c, d)
    BY CandidateIsPart
  <2>2. LooksLikeCode(code)
    BY <1>1
  <2> HIDE DEF code
  <2>3. CASE code = text
    BY <2>2, <2>3
  <2>4. ASSUME NEW c \in 1 .. Len(text), NEW d \in 1 .. Len(text),
               c <= d, code = SubSeq(text, c, d)
        PROVE  LooksLikeCode(text)
    <3>1. LooksLikeCode(SubSeq(text, c, d))
      BY <2>2, <2>4
    <3> QED BY <2>4, <3>1, LooksInPart
  <2> QED BY <2>1, <2>3, <2>4
<1>2. ASSUME LooksLikeCode(text)
      PROVE  \E k \in DOMAIN Candidates(text) : LooksLikeCode(Candidates(text)[k].code)
  <2>1. text # <<>>
    <3>1. ASSUME text = <<>> PROVE FALSE
      <4>1. DOMAIN text = {}
        BY <3>1
      <4>2. { i \in DOMAIN text : text[i] = "jargon" } = {}
        BY <4>1
      <4>3. Cardinality({ i \in DOMAIN text : text[i] = "jargon" }) = 0
        BY <4>2, FS_EmptySet
      <4> QED BY <1>2, <4>1, <4>3 DEF LooksLikeCode
    <3> QED BY <3>1
  <2> DEFINE N == Cardinality(FencedBlocks(text))
  <2>2. N + 1 \in DOMAIN Candidates(text) /\ Candidates(text)[N + 1].code = text
    BY <2>1, CandidatesByPlace
  <2> QED BY <1>2, <2>2
<1> QED BY <1>1, <1>2

-----------------------------------------------------------------------------
\* A run of code is plain.
LEMMA RunIsPlain ==
  ASSUME NEW text \in Seq(LineKinds), NEW r \in CodeRuns(text)
  PROVE  IsPlain(RunText(text, r))
<1>1. /\ r[1] \in 1 .. Len(text) /\ r[2] \in 1 .. Len(text) /\ r[1] <= r[2]
      /\ \A i \in r[1] .. r[2] : CodeLike(text[i]) \/ text[i] = "blank"
  BY LenProperties DEF CodeRuns, IsCodeRun
<1> DEFINE a == r[1]
           b == r[2]
<1> HIDE DEF a, b
<1>2. /\ DOMAIN SubSeq(text, a, b) = 1 .. b - a + 1
      /\ \A i \in 1 .. b - a + 1 :
           SubSeq(text, a, b)[i] = text[a + i - 1] /\ a + i - 1 \in a .. b
  BY <1>1, PartOfText DEF a, b
<1>3. \A i \in a .. b : text[i] \notin Fences \cup {"prose", "jargon"}
  BY <1>1 DEF a, b, CodeLike, Fences
<1>4. IsPlain(SubSeq(text, a, b))
  BY <1>2, <1>3 DEF IsPlain
<1> QED BY <1>4 DEF RunText, a, b

\* What stands in a fenced block is shorter than the text, and plain when it
\* parses.
LEMMA BlockIsPlain ==
  ASSUME NEW text \in Seq(LineKinds), NEW i \in FencedBlocks(text)
  PROVE  /\ Inner(text, i) # text
         /\ Parses(Inner(text, i)) => IsPlain(Inner(text, i))
<1>1. PICK b, c, d \in 1 .. Len(text) :
        /\ i \in 1 .. Len(text) /\ i < c /\ c <= d /\ d < b
        /\ \A k \in i + 1 .. b - 1 : text[k] \notin Fences
        /\ Inner(text, i) = SubSeq(text, c, d)
  BY BlockIsPart
<1> DEFINE part == SubSeq(text, c, d)
<1>2. /\ part \in Seq(LineKinds)
      /\ DOMAIN part = 1 .. d - c + 1
      /\ \A k \in 1 .. d - c + 1 : part[k] = text[c + k - 1] /\ c + k - 1 \in c .. d
  BY <1>1, PartOfText
<1>3. Len(part) # Len(text)
  BY <1>1, <1>2, LenProperties
<1>4. \A k \in c .. d : k \in i + 1 .. b - 1
  BY <1>1
<1>5. \A k \in DOMAIN part : part[k] \notin Fences
  BY <1>1, <1>2, <1>4
<1> HIDE DEF part
<1>6. Parses(part) => \A k \in DOMAIN part : part[k] \in {"code", "call", "comment", "blank"}
  BY <1>2, <1>5, ParsesWithoutFences
<1>7. Parses(part) => IsPlain(part)
  BY <1>6 DEF IsPlain, Fences
<1> QED BY <1>1, <1>3, <1>7 DEF part

\* A candidate that parses is the whole text, and says that nothing was
\* extracted, or it is less than that, says so and is plain: neither the fences
\* of extract_code_candidates' blocks nor the prose around a run get into it.
THEOREM ExtractedIsPlain ==
  ASSUME NEW text \in Seq(LineKinds), NEW k \in Good(text)
  PROVE  LET candidate == Candidates(text)[k] IN
         /\ candidate.applied <=> candidate.code # text
         /\ candidate.applied => IsPlain(candidate.code)
<1> DEFINE all == Candidates(text)
           N == Cardinality(FencedBlocks(text))
<1>1. k \in DOMAIN all /\ Parses(all[k].code)
  BY DEF Good
<1>2. text # <<>>
  <2>1. Candidates(<<>>) = <<>>
    BY DEF Candidates
  <2> QED BY <1>1, <2>1
<1>3. /\ N \in Nat
      /\ DOMAIN all = IF MixedBlock(text) \in { <<>>, text } THEN 1 .. N + 1
                      ELSE 1 .. N + 2
      /\ \A i \in FencedBlocks(text) : all[Place(text, i)].code = Inner(text, i)
                                      /\ all[Place(text, i)].applied
      /\ all[N + 1].code = text /\ ~ all[N + 1].applied
      /\ MixedBlock(text) \notin { <<>>, text } =>
           all[N + 2].code = MixedBlock(text) /\ all[N + 2].applied
  BY <1>2, CandidatesByPlace
<1>4. \A j \in 1 .. N : \E i \in FencedBlocks(text) : Place(text, i) = j
  BY PlacesAreTaken
<1> HIDE DEF all, N
<1>5. CASE k \in 1 .. N
  <2>1. PICK i \in FencedBlocks(text) : Place(text, i) = k
    BY <1>4, <1>5
  <2>2. all[k].code = Inner(text, i) /\ all[k].applied
    BY <1>3, <2>1
  <2> QED BY <1>1, <2>2, BlockIsPlain DEF all
<1>6. CASE k = N + 1
  BY <1>3, <1>6 DEF all
<1>7. CASE k = N + 2
  <2>1. MixedBlock(text) \notin { <<>>, text }
    BY <1>1, <1>3, <1>7
  <2>2. MixedBlock(text) \in LongestRun(text)
    BY <2>1, MixedBlockIsLongestRun
  <2>3. PICK r \in CodeRuns(text) : MixedBlock(text) = RunText(text, r)
    BY <2>2 DEF LongestRun, RunText
  <2> QED BY <1>3, <1>7, <2>1, <2>3, RunIsPlain DEF all
<1> QED BY <1>1, <1>3, <1>5, <1>6, <1>7

=============================================================================
