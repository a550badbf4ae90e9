----------------------------- MODULE Codec_proofs -----------------------------
(***************************************************************************)
(* What is left of an event that is written into a SEND, cut out of it,    *)
(* written into a MESSAGE, cut out of that and read line by line.          *)
(***************************************************************************)
EXTENDS EventProperties, SequenceTheorems, FiniteSetTheorems, WellFoundedInduction, TLAPS

(* The least of some numbers.                                              *)
LEMMA MinIs ==
  ASSUME NEW S \in SUBSET Nat, NEW m \in S, \A n \in S : m <= n
  PROVE  Min(S) = m
<1>1. \A x \in S : (\A y \in S : x <= y) => x = m
  OBVIOUS
<1>2. \E x \in S : \A y \in S : x <= y
  OBVIOUS
<1>3. (CHOOSE x \in S : \A y \in S : x <= y) = m
  BY <1>1, <1>2
<1> QED BY <1>3 DEF Min

(* The greatest of some numbers.                                           *)
LEMMA MaxIs ==
  ASSUME NEW S \in SUBSET Nat, NEW m \in S, \A n \in S : n <= m
  PROVE  Max(S) = m
<1>1. \A x \in S : (\A y \in S : x >= y) => x = m
  OBVIOUS
<1>2. \E x \in S : \A y \in S : x >= y
  OBVIOUS
<1>3. (CHOOSE x \in S : \A y \in S : x >= y) = m
  BY <1>1, <1>2
<1> QED BY <1>3 DEF Max

(* Any numbers have a least one.                                           *)
LEMMA LeastNumber ==
  ASSUME NEW S \in SUBSET Nat, S # {}
  PROVE  \E m \in S : \A n \in S : m <= n
<1> DEFINE R == OpToRel(<, Nat)
<1>1. IsWellFoundedOn(R, Nat)
  BY NatLessThanWellFounded
<1>2. \A x, y \in Nat : <<x, y>> \in R <=> x < y
  BY DEF OpToRel
<1> HIDE DEF R
<1>3. PICK m \in S : \A n \in S : ~(<<n, m>> \in R)
  BY <1>1, WFMin
<1>4. \A n \in S : ~(n < m)
  BY <1>2, <1>3
<1> QED BY <1>4

(* Induction over the numbers, for a set of them.                          *)
LEMMA SetInduction ==
  ASSUME NEW S \in SUBSET Nat, 0 \in S, \A n \in S : n + 1 \in S
  PROVE  S = Nat
<1> SUFFICES ASSUME Nat \ S # {} PROVE FALSE
  OBVIOUS
<1>1. PICK m \in Nat \ S : \A n \in Nat \ S : m <= n
  BY LeastNumber
<1>2. m # 0 /\ m - 1 \in Nat
  BY <1>1
<1>3. m - 1 \in S
  BY <1>1, <1>2
<1> QED BY <1>1, <1>2, <1>3

(* Induction over sequences, for a set of them.                            *)
LEMMA SequenceInduction ==
  ASSUME NEW T, NEW S \in SUBSET Seq(T), <<>> \in S,
         \A s \in S, x \in T : Append(s, x) \in S
  PROVE  S = Seq(T)
<1> DEFINE N == {n \in Nat : \A s \in Seq(T) : Len(s) = n => s \in S}
<1>1. 0 \in N
  OBVIOUS
<1>2. ASSUME NEW n \in N PROVE n + 1 \in N
  <2> SUFFICES ASSUME NEW s \in Seq(T), Len(s) = n + 1 PROVE s \in S
    OBVIOUS
  <2> DEFINE front == SubSeq(s, 1, n)
  <2>1. front \in Seq(T) /\ Len(front) = n /\ s[n + 1] \in T
    OBVIOUS
  <2>2. Append(front, s[n + 1]) = s
    <3>1. n \in Nat /\ \A i \in 1..n : front[i] = s[i]
      OBVIOUS
    <3> HIDE DEF front, N
    <3>2. PICK t : t = Append(front, s[n + 1])
      OBVIOUS
    <3>3. /\ t \in Seq(T) /\ Len(t) = Len(front) + 1
          /\ \A i \in 1..Len(front) : t[i] = front[i]
          /\ t[Len(front) + 1] = s[n + 1]
      BY <2>1, <3>2, AppendProperties
    <3>4. Len(t) = n + 1
      BY <2>1, <3>3
    <3>5. (\A i \in 1..n : t[i] = s[i]) /\ t[n + 1] = s[n + 1]
      BY <2>1, <3>1, <3>3
    <3>6. ASSUME NEW i \in 1..(n + 1) PROVE t[i] = s[i]
      <4>1. i \in 1..n \/ i = n + 1
        BY <3>1
      <4> QED BY <3>5, <4>1
    <3> QED BY <3>2, <3>3, <3>4, <3>6, SeqEqual
  <2>3. front \in S
    BY <2>1
  <2> QED BY <2>1, <2>2, <2>3
<1>3. N = Nat
  <2> HIDE DEF N
  <2>1. N \in SUBSET Nat
    BY DEF N
  <2> QED BY <1>1, <1>2, <2>1, SetInduction
<1>4. ASSUME NEW s \in Seq(T) PROVE s \in S
  <2>1. Len(s) \in N
    BY <1>3
  <2> QED BY <2>1
<1> QED BY <1>4

(* Two functions of a number that go on in the same way agree.             *)
GoOnAlike(f, g, K, M) == \A n \in (K + 1)..M : f[n - 1] = g[n - 1] => f[n] = g[n]

Agree(f, g, K, M) == \A n \in K..M : f[n] = g[n]

(* They agree everywhere if they do at the first number.                   *)
LEMMA Agreement ==
  ASSUME NEW f, NEW g, NEW M \in Nat, NEW K \in 0..M, f[K] = g[K], GoOnAlike(f, g, K, M)
  PROVE  Agree(f, g, K, M)
<1> DEFINE A == {n \in Nat : K + n <= M => f[K + n] = g[K + n]}
<1>1. 0 \in A
  OBVIOUS
<1>2. ASSUME NEW n \in A PROVE n + 1 \in A
  <2> SUFFICES ASSUME K + (n + 1) <= M PROVE f[K + (n + 1)] = g[K + (n + 1)]
    OBVIOUS
  <2>1. K + (n + 1) \in (K + 1)..M /\ K + (n + 1) - 1 = K + n /\ K + n <= M
    OBVIOUS
  <2> QED BY <2>1 DEF GoOnAlike
<1>3. A = Nat
  <2> HIDE DEF A
  <2>1. A \in SUBSET Nat
    BY DEF A
  <2> QED BY <1>1, <1>2, <2>1, SetInduction
<1>4. ASSUME NEW n \in K..M PROVE f[n] = g[n]
  <2>1. n - K \in Nat /\ K + (n - K) = n
    OBVIOUS
  <2>2. n - K \in A
    BY <1>3, <2>1
  <2> QED BY <2>1, <2>2
<1> QED BY <1>4 DEF Agree

(* A function that is defined step by step exists.                         *)
Steps(N, S) == [1..N -> [S -> S]]

IsRun(f, base, step, N, S) ==
  f \in [0..N -> S] /\ f[0] = base /\ \A n \in 1..N : f[n] = step[n][f[n - 1]]

(* Induction over the number of steps.                                     *)
LEMMA Recursion ==
  ASSUME NEW N \in Nat, NEW S, NEW base \in S, NEW step \in Steps(N, S)
  PROVE  \E f : IsRun(f, base, step, N, S)
<1> DEFINE A == {m \in Nat : m <= N => \E f : IsRun(f, base, step, m, S)}
<1> USE DEF Steps
<1>1. 0 \in A
  <2>1. IsRun([i \in 0..0 |-> base], base, step, 0, S)
    BY DEF IsRun
  <2> QED BY <2>1
<1>2. ASSUME NEW m \in A PROVE m + 1 \in A
  <2> SUFFICES ASSUME m + 1 <= N PROVE \E f : IsRun(f, base, step, m + 1, S)
    OBVIOUS
  <2>1. m <= N
    OBVIOUS
  <2>2. PICK f : IsRun(f, base, step, m, S)
    BY <2>1
  <2> DEFINE g == [i \in 0..(m + 1) |-> IF i = m + 1 THEN step[m + 1][f[m]] ELSE f[i]]
  <2>3. step[m + 1][f[m]] \in S
    BY <2>2 DEF IsRun
  <2>4. g \in [0..(m + 1) -> S]
    BY <2>2, <2>3 DEF IsRun
  <2>5. g[0] = base
    BY <2>2 DEF IsRun
  <2>6. ASSUME NEW n \in 1..(m + 1) PROVE g[n] = step[n][g[n - 1]]
    <3>1. CASE n = m + 1
      BY <3>1
    <3>2. CASE n # m + 1
      BY <2>2, <3>2 DEF IsRun
    <3> QED BY <3>1, <3>2
  <2> HIDE DEF g
  <2>7. IsRun(g, base, step, m + 1, S)
    BY <2>4, <2>5, <2>6 DEF IsRun
  <2> QED BY <2>7
<1>3. A = Nat
  <2> HIDE DEF A
  <2>1. A \in SUBSET Nat
    BY DEF A
  <2> QED BY <1>1, <1>2, <2>1, SetInduction
<1>4. N \in A
  BY <1>3
<1> QED BY <1>4
-----------------------------------------------------------------------------
PartsOf == [complete : Seq(Text), rest : Text]

(* What one more token does to the parts before it.                        *)
Extended(before, token, delimiter) ==
  IF token = delimiter
    THEN [complete |-> Append(before.complete, before.rest), rest |-> <<>>]
    ELSE [complete |-> before.complete, rest |-> Append(before.rest, token)]

(* Parts is the last of the results of such steps.                         *)
LEMMA PartsRun ==
  ASSUME NEW text \in Text, NEW delimiter
  PROVE  \E f \in [0..Len(text) -> PartsOf] :
           /\ f[0] = [complete |-> <<>>, rest |-> <<>>]
           /\ \A n \in 1..Len(text) : f[n] = Extended(f[n - 1], text[n], delimiter)
           /\ Parts(text, delimiter) = f[Len(text)]
<1> DEFINE base == [complete |-> <<>>, rest |-> <<>>]
           step == [n \in 1..Len(text) |-> [p \in PartsOf |-> Extended(p, text[n], delimiter)]]
           Step(f) == [n \in 0..Len(text) |->
                         IF n = 0 THEN [complete |-> <<>>, rest |-> <<>>]
                         ELSE IF text[n] = delimiter
                           THEN [complete |-> Append(f[n - 1].complete, f[n - 1].rest), rest |-> <<>>]
                           ELSE [complete |-> f[n - 1].complete, rest |-> Append(f[n - 1].rest, text[n])]]
<1>1. base \in PartsOf
  BY DEF PartsOf, Text
<1>2. step \in [1..Len(text) -> [PartsOf -> PartsOf]]
  <2>1. ASSUME NEW n \in 1..Len(text), NEW p \in PartsOf
        PROVE  Extended(p, text[n], delimiter) \in PartsOf
    BY DEF PartsOf, Text, Extended
  <2>2. \A n \in 1..Len(text) : [p \in PartsOf |-> Extended(p, text[n], delimiter)] \in [PartsOf -> PartsOf]
    BY <2>1
  <2> QED BY <2>2
<1>3. Len(text) \in Nat
  BY DEF Text
<1>4. PICK g \in [0..Len(text) -> PartsOf] :
        g[0] = base /\ \A n \in 1..Len(text) : g[n] = step[n][g[n - 1]]
  <2> HIDE DEF base, step
  <2>1. step \in Steps(Len(text), PartsOf)
    BY <1>2 DEF Steps
  <2>2. PICK g : IsRun(g, base, step, Len(text), PartsOf)
    BY <1>1, <1>3, <2>1, Recursion
  <2> QED BY <2>2 DEF IsRun
<1>5. ASSUME NEW n \in 1..Len(text) PROVE g[n] = Extended(g[n - 1], text[n], delimiter)
  <2>1. n - 1 \in 0..Len(text)
    BY <1>3
  <2>2. g[n - 1] \in PartsOf
    BY <2>1
  <2>3. step[n][g[n - 1]] = Extended(g[n - 1], text[n], delimiter)
    BY <2>2
  <2> QED BY <1>4, <2>3
<1>6. g = Step(g)
  <2>1. ASSUME NEW n \in 0..Len(text) PROVE g[n] = Step(g)[n]
    <3>1. CASE n = 0
      BY <1>4, <3>1
    <3>2. CASE n # 0
      <4>1. n \in 1..Len(text)
        BY <1>3, <3>2
      <4>2. g[n] = Extended(g[n - 1], text[n], delimiter)
        BY <1>5, <4>1
      <4> QED BY <3>2, <4>2 DEF Extended
    <3> QED BY <3>1, <3>2
  <2>2. DOMAIN Step(g) = 0..Len(text) /\ Step(g) = [n \in 0..Len(text) |-> Step(g)[n]]
    OBVIOUS
  <2> HIDE DEF Step
  <2> QED BY <2>1, <2>2
<1> DEFINE f == CHOOSE x : x = Step(x)
<1>7. f = Step(f)
  <2> HIDE DEF Step
  <2> QED BY <1>6
<1>8. Parts(text, delimiter) = f[Len(text)]
  BY DEF Parts
<1> HIDE DEF f
<1>9. /\ f[0] = base
      /\ \A n \in 1..Len(text) : f[n] = Extended(f[n - 1], text[n], delimiter)
  <2>1. f[0] = base
    BY <1>3, <1>7
  <2>2. ASSUME NEW n \in 1..Len(text) PROVE f[n] = Extended(f[n - 1], text[n], delimiter)
    <3>1. n \in 0..Len(text) /\ n # 0
      BY <1>3
    <3> HIDE DEF Step
    <3>2. f[n] = Step(f)[n]
      BY <1>7
    <3> QED BY <3>1, <3>2 DEF Step, Extended
  <2> QED BY <2>1, <2>2
<1>10. \A n \in 0..Len(text) : f[n] = g[n]
  <2>1. f[0] = g[0] /\ 0 \in 0..Len(text)
    BY <1>3, <1>4, <1>9
  <2>2. GoOnAlike(f, g, 0, Len(text))
    BY <1>5, <1>9 DEF GoOnAlike
  <2>3. Agree(f, g, 0, Len(text))
    BY <1>3, <2>1, <2>2, Agreement
  <2> QED BY <2>3 DEF Agree
<1>11. g[Len(text)] = f[Len(text)]
  BY <1>3, <1>10
<1> QED BY <1>4, <1>5, <1>8, <1>11

(* Parts of the empty text.                                                *)
LEMMA PartsEmpty ==
  ASSUME NEW delimiter
  PROVE  Parts(<<>>, delimiter) = [complete |-> <<>>, rest |-> <<>>]
<1>1. <<>> \in Text /\ Len(<<>>) = 0
  BY DEF Text
<1> QED BY <1>1, PartsRun

(* The parts of a text are texts.                                          *)
LEMMA PartsType ==
  ASSUME NEW text \in Text, NEW delimiter
  PROVE  Parts(text, delimiter) \in PartsOf
<1>1. Len(text) \in 0..Len(text)
  BY DEF Text
<1> QED BY <1>1, PartsRun

(* One token more is one step more of getline.                             *)
LEMMA PartsAppend ==
  ASSUME NEW text \in Text, NEW token \in Word, NEW delimiter
  PROVE  Parts(Append(text, token), delimiter)
           = Extended(Parts(text, delimiter), token, delimiter)
<1> DEFINE longer == Append(text, token)
<1>1. /\ longer \in Text /\ Len(text) \in Nat /\ Len(longer) = Len(text) + 1
      /\ longer[Len(text) + 1] = token
      /\ \A n \in 1..Len(text) : longer[n] = text[n]
  BY DEF Text
<1> HIDE DEF longer
<1>2. PICK f \in [0..Len(text) -> PartsOf] :
           /\ f[0] = [complete |-> <<>>, rest |-> <<>>]
           /\ \A n \in 1..Len(text) : f[n] = Extended(f[n - 1], text[n], delimiter)
           /\ Parts(text, delimiter) = f[Len(text)]
  BY PartsRun
<1>3. PICK g \in [0..Len(longer) -> PartsOf] :
           /\ g[0] = [complete |-> <<>>, rest |-> <<>>]
           /\ \A n \in 1..Len(longer) : g[n] = Extended(g[n - 1], longer[n], delimiter)
           /\ Parts(longer, delimiter) = g[Len(longer)]
  BY <1>1, PartsRun
<1>4. \A n \in 0..Len(text) : f[n] = g[n]
  <2>1. f[0] = g[0] /\ 0 \in 0..Len(text)
    BY <1>1, <1>2, <1>3
  <2>2. GoOnAlike(f, g, 0, Len(text))
    BY <1>1, <1>2, <1>3 DEF GoOnAlike
  <2>3. Agree(f, g, 0, Len(text))
    BY <1>1, <2>1, <2>2, Agreement
  <2> QED BY <2>3 DEF Agree
<1>5. f[Len(text)] = g[Len(text)]
  BY <1>1, <1>4
<1>6. g[Len(longer)] = Extended(g[Len(longer) - 1], longer[Len(longer)], delimiter)
  BY <1>1, <1>3
<1>7. Len(longer) - 1 = Len(text)
  BY <1>1
<1>8. Parts(longer, delimiter) = Extended(Parts(text, delimiter), token, delimiter)
  BY <1>1, <1>2, <1>3, <1>5, <1>6, <1>7
<1> QED BY <1>8 DEF longer
-----------------------------------------------------------------------------
(* The lines with a colon, one line at a time.                             *)
LEMMA WithColonRun ==
  ASSUME NEW lines \in Seq(Text)
  PROVE  \E f \in [0..Len(lines) -> Seq(Text)] :
           /\ f[0] = <<>>
           /\ \A n \in 1..Len(lines) :
                f[n] = IF Contains(lines[n], Colon) THEN Append(f[n - 1], lines[n]) ELSE f[n - 1]
           /\ WithColon(lines) = f[Len(lines)]
<1> DEFINE next(s, n) == IF Contains(lines[n], Colon) THEN Append(s, lines[n]) ELSE s
           step == [n \in 1..Len(lines) |-> [s \in Seq(Text) |-> next(s, n)]]
           Step(f) == [n \in 0..Len(lines) |->
                         IF n = 0 THEN <<>>
                         ELSE IF Contains(lines[n], Colon) THEN Append(f[n - 1], lines[n])
                                                           ELSE f[n - 1]]
<1>1. <<>> \in Seq(Text) /\ Len(lines) \in Nat
  OBVIOUS
<1>2. step \in Steps(Len(lines), Seq(Text))
  <2>1. ASSUME NEW n \in 1..Len(lines), NEW s \in Seq(Text) PROVE next(s, n) \in Seq(Text)
    OBVIOUS
  <2> HIDE DEF next
  <2>2. \A n \in 1..Len(lines) : [s \in Seq(Text) |-> next(s, n)] \in [Seq(Text) -> Seq(Text)]
    BY <2>1
  <2> QED BY <2>2 DEF Steps
<1>3. PICK g : IsRun(g, <<>>, step, Len(lines), Seq(Text))
  <2> HIDE DEF step
  <2> QED BY <1>1, <1>2, Recursion
<1>4. ASSUME NEW n \in 1..Len(lines) PROVE g[n] = next(g[n - 1], n)
  <2>1. n - 1 \in 0..Len(lines)
    BY <1>1
  <2>2. g[n - 1] \in Seq(Text)
    BY <1>3, <2>1 DEF IsRun
  <2>3. step[n][g[n - 1]] = next(g[n - 1], n)
    BY <2>2
  <2> QED BY <1>3, <2>3 DEF IsRun
<1>5. g = Step(g)
  <2>1. ASSUME NEW n \in 0..Len(lines) PROVE g[n] = Step(g)[n]
    <3>1. CASE n = 0
      BY <1>3, <3>1 DEF IsRun
    <3>2. CASE n # 0
      <4>1. n \in 1..Len(lines)
        BY <1>1, <3>2
      <4>2. g[n] = next(g[n - 1], n)
        BY <1>4, <4>1
      <4> QED BY <3>2, <4>2
    <3> QED BY <3>1, <3>2
  <2>2. DOMAIN Step(g) = 0..Len(lines) /\ Step(g) = [n \in 0..Len(lines) |-> Step(g)[n]]
    OBVIOUS
  <2>3. g = [n \in 0..Len(lines) |-> g[n]]
    BY <1>3 DEF IsRun
  <2> HIDE DEF Step
  <2> QED BY <2>1, <2>2, <2>3
<1> DEFINE f == CHOOSE x : x = Step(x)
<1>6. f = Step(f)
  <2> HIDE DEF Step
  <2> QED BY <1>5
<1>7. WithColon(lines) = f[Len(lines)]
  BY DEF WithColon
<1> HIDE DEF f
<1>8. f[0] = <<>>
  BY <1>1, <1>6
<1>9. ASSUME NEW n \in 1..Len(lines) PROVE f[n] = next(f[n - 1], n)
  <2>1. n \in 0..Len(lines) /\ n # 0
    BY <1>1
  <2> HIDE DEF Step
  <2>2. f[n] = Step(f)[n]
    BY <1>6
  <2> QED BY <2>1, <2>2 DEF Step
<1>10. Agree(f, g, 0, Len(lines))
  <2>1. f[0] = g[0] /\ 0 \in 0..Len(lines)
    BY <1>1, <1>3, <1>8 DEF IsRun
  <2>2. GoOnAlike(f, g, 0, Len(lines))
    <3> HIDE DEF next
    <3> QED BY <1>4, <1>9 DEF GoOnAlike
  <2> QED BY <1>1, <2>1, <2>2, Agreement
<1>11. g[Len(lines)] = f[Len(lines)]
  BY <1>1, <1>10 DEF Agree
<1>12. g \in [0..Len(lines) -> Seq(Text)] /\ g[0] = <<>>
  BY <1>3 DEF IsRun
<1> QED BY <1>4, <1>7, <1>11, <1>12

(* The lines with a colon are lines.                                       *)
LEMMA WithColonType ==
  ASSUME NEW lines \in Seq(Text)
  PROVE  WithColon(lines) \in Seq(Text)
<1>1. Len(lines) \in 0..Len(lines)
  OBVIOUS
<1> QED BY <1>1, WithColonRun

(* No line, none with a colon.                                             *)
LEMMA WithColonEmpty == WithColon(<<>>) = <<>>
<1>1. <<>> \in Seq(Text) /\ Len(<<>>) = 0
  OBVIOUS
<1> QED BY <1>1, WithColonRun

(* One line more counts if it has a colon.                                 *)
LEMMA WithColonAppend ==
  ASSUME NEW lines \in Seq(Text), NEW line \in Text
  PROVE  WithColon(Append(lines, line)) =
           IF Contains(line, Colon) THEN Append(WithColon(lines), line) ELSE WithColon(lines)
<1> DEFINE longer == Append(lines, line)
<1>1. /\ longer \in Seq(Text) /\ Len(lines) \in Nat /\ Len(longer) = Len(lines) + 1
      /\ longer[Len(lines) + 1] = line
      /\ \A n \in 1..Len(lines) : longer[n] = lines[n]
  OBVIOUS
<1> HIDE DEF longer
<1>2. PICK f \in [0..Len(lines) -> Seq(Text)] :
           /\ f[0] = <<>>
           /\ \A n \in 1..Len(lines) :
                f[n] = IF Contains(lines[n], Colon) THEN Append(f[n - 1], lines[n]) ELSE f[n - 1]
           /\ WithColon(lines) = f[Len(lines)]
  BY WithColonRun
<1>3. PICK g \in [0..Len(longer) -> Seq(Text)] :
           /\ g[0] = <<>>
           /\ \A n \in 1..Len(longer) :
                g[n] = IF Contains(longer[n], Colon) THEN Append(g[n - 1], longer[n]) ELSE g[n - 1]
           /\ WithColon(longer) = g[Len(longer)]
  BY <1>1, WithColonRun
<1>4. Agree(f, g, 0, Len(lines))
  <2>1. f[0] = g[0] /\ 0 \in 0..Len(lines)
    BY <1>1, <1>2, <1>3
  <2>2. GoOnAlike(f, g, 0, Len(lines))
    <3> SUFFICES ASSUME NEW n \in 1..Len(lines), f[n - 1] = g[n - 1] PROVE f[n] = g[n]
      BY DEF GoOnAlike
    <3>1. n \in 1..Len(longer) /\ longer[n] = lines[n]
      BY <1>1
    <3> QED BY <1>2, <1>3, <3>1
  <2> QED BY <1>1, <2>1, <2>2, Agreement
<1>5. f[Len(lines)] = g[Len(lines)]
  BY <1>1, <1>4 DEF Agree
<1>6. /\ Len(longer) \in 1..Len(longer) /\ Len(longer) - 1 = Len(lines)
      /\ longer[Len(longer)] = line
  BY <1>1
<1>7. g[Len(longer)] = IF Contains(line, Colon) THEN Append(g[Len(lines)], line) ELSE g[Len(lines)]
  BY <1>3, <1>6
<1>8. WithColon(longer) =
        IF Contains(line, Colon) THEN Append(WithColon(lines), line) ELSE WithColon(lines)
  BY <1>2, <1>3, <1>5, <1>7
<1> QED BY <1>8 DEF longer
-----------------------------------------------------------------------------
(* The delimiters are tokens.                                              *)
LEMMA Delimiters == {Colon, Space, NewLine} \subseteq Word
BY EventAssumption

(* A token that is appended to the second text is appended to both.        *)
LEMMA ConcatAppend ==
  ASSUME NEW T, NEW t \in Seq(T), NEW s \in Seq(T), NEW x \in T
  PROVE  t \o Append(s, x) = Append(t \o s, x)
<1>1. /\ t \o Append(s, x) \in Seq(T) /\ Append(t \o s, x) \in Seq(T)
      /\ Len(t \o Append(s, x)) = Len(t) + Len(s) + 1
      /\ Len(Append(t \o s, x)) = Len(t) + Len(s) + 1
  OBVIOUS
<1>2. ASSUME NEW i \in 1..(Len(t) + Len(s) + 1)
      PROVE  (t \o Append(s, x))[i] = Append(t \o s, x)[i]
  OBVIOUS
<1> QED BY <1>1, <1>2, SeqEqual

(* Two texts are a text.                                                   *)
LEMMA TextConcat == \A s, t \in Text : s \o t \in Text
BY DEF Text

Associative(r, s, t) == (r \o s) \o t = r \o (s \o t)

(* How three texts are grouped does not matter.                            *)
LEMMA TextAssociative ==
  ASSUME NEW r \in Text, NEW s \in Text, NEW t \in Text
  PROVE  Associative(r, s, t)
BY ConcatAssociative DEF Text, Associative

(* A token is a text of its own.                                           *)
LEMMA TextAppend ==
  \A s \in Text, x \in Word : Append(s, x) = s \o <<x>> /\ Append(s, x) \in Text /\ <<x>> \in Text
BY AppendIsConcat DEF Text

(* Nothing is a text.                                                      *)
LEMMA EmptyText == <<>> \in Text
BY EmptySeq DEF Text

(* A text with one token more is a text that is not empty.                 *)
LEMMA AppendText ==
  ASSUME NEW s \in Text, NEW x \in Word
  PROVE  Append(s, x) \in Text /\ Append(s, x) # <<>>
BY AppendProperties DEF Text

(* Two texts are a text, as a rule to cite for given ones.                 *)
LEMMA ConcatText ==
  ASSUME NEW s \in Text, NEW t \in Text
  PROVE  s \o t \in Text
BY ConcatProperties DEF Text

(* Where the tokens of two texts are.                                      *)
LEMMA ConcatAt ==
  ASSUME NEW T, NEW s \in Seq(T), NEW t \in Seq(T)
  PROVE  /\ s \o t \in Seq(T) /\ Len(s \o t) = Len(s) + Len(t)
         /\ \A i \in 1..Len(s) : (s \o t)[i] = s[i]
         /\ \A i \in 1..Len(t) : (s \o t)[Len(s) + i] = t[i]
OBVIOUS

(* A token that is not a delimiter belongs to the part that is not yet     *)
(* complete.                                                               *)
LEMMA PartsOfMore ==
  ASSUME NEW delimiter, NEW text \in Text, NEW more \in Text, Lacks(more, delimiter)
  PROVE  Parts(text \o more, delimiter) =
           [complete |-> Parts(text, delimiter).complete,
            rest     |-> Parts(text, delimiter).rest \o more]
<1> DEFINE before == Parts(text, delimiter)
           Holds(s) == Parts(text \o s, delimiter) = [complete |-> before.complete, rest |-> before.rest \o s]
           S == {s \in Seq(Word) : Lacks(s, delimiter) => Holds(s)}
<1>1. before.complete \in Seq(Text) /\ before.rest \in Seq(Word)
      /\ before = [complete |-> before.complete, rest |-> before.rest]
  BY PartsType DEF PartsOf, Text
<1> HIDE DEF before
<1>2. <<>> \in S
  <2>1. <<>> \in Seq(Word) /\ text \o <<>> = text /\ before.rest \o <<>> = before.rest
    BY <1>1 DEF Text
  <2> QED BY <1>1, <2>1 DEF before
<1>3. ASSUME NEW s \in S, NEW x \in Word PROVE Append(s, x) \in S
  <2> DEFINE longer == Append(s, x)
  <2> HIDE DEF Holds
  <2> SUFFICES ASSUME Lacks(longer, delimiter) PROVE Holds(longer)
    OBVIOUS
  <2> USE DEF Holds
  <2>1. /\ s \in Seq(Word) /\ text \o s \in Text
        /\ DOMAIN longer = 1..(Len(s) + 1) /\ DOMAIN s = 1..Len(s) /\ Len(s) \in Nat
        /\ \A i \in 1..Len(s) : longer[i] = s[i]
        /\ longer[Len(s) + 1] = x
    BY DEF Text
  <2>2. Lacks(s, delimiter) /\ x # delimiter
    BY <2>1 DEF Lacks
  <2>3. Holds(s)
    BY <2>2
  <2>4. text \o longer = Append(text \o s, x) /\ before.rest \o longer = Append(before.rest \o s, x)
    <3>1. text \in Seq(Word) /\ before.rest \in Seq(Word)
      BY <1>1 DEF Text
    <3>2. \A t \in Seq(Word) : t \o Append(s, x) = Append(t \o s, x)
      BY <2>1, ConcatAppend
    <3> QED BY <3>1, <3>2
  <2>5. Parts(Append(text \o s, x), delimiter) = Extended(Parts(text \o s, delimiter), x, delimiter)
    BY <2>1, PartsAppend
  <2> QED BY <2>2, <2>3, <2>4, <2>5 DEF Extended
<1>4. S = Seq(Word)
  <2> HIDE DEF S
  <2>1. S \in SUBSET Seq(Word)
    BY DEF S
  <2> QED BY <1>2, <1>3, <2>1, SequenceInduction
<1>5. Holds(more)
  BY <1>4 DEF Text
<1> QED BY <1>5 DEF before

(* The lines of a text that are complete and have a colon.                 *)
Lines(text) == WithColon(Parts(text, NewLine).complete)

(* Lines without a colon say nothing.                                      *)
LEMMA LinesWithoutColon ==
  ASSUME NEW text \in Text, NEW more \in Text, Lacks(more, Colon),
         Lacks(Parts(text, NewLine).rest, Colon)
  PROVE  /\ Lines(text \o more) = Lines(text)
         /\ Lacks(Parts(text \o more, NewLine).rest, Colon)
<1> DEFINE Holds(s) == /\ Lines(text \o s) = Lines(text)
                       /\ Lacks(Parts(text \o s, NewLine).rest, Colon)
           S == {s \in Seq(Word) : Lacks(s, Colon) => Holds(s)}
<1>1. <<>> \in S
  <2>1. <<>> \in Seq(Word) /\ text \o <<>> = text
    BY DEF Text
  <2> QED BY <2>1
<1>2. ASSUME NEW s \in S, NEW x \in Word PROVE Append(s, x) \in S
  <2> DEFINE longer == Append(s, x)
             before == Parts(text \o s, NewLine)
  <2> SUFFICES ASSUME Lacks(longer, Colon) PROVE Holds(longer)
    OBVIOUS
  <2>1. /\ s \in Seq(Word) /\ text \o s \in Text
        /\ DOMAIN longer = 1..(Len(s) + 1) /\ DOMAIN s = 1..Len(s) /\ Len(s) \in Nat
        /\ \A i \in 1..Len(s) : longer[i] = s[i]
        /\ longer[Len(s) + 1] = x
    BY DEF Text
  <2>2. Lacks(s, Colon) /\ x # Colon
    BY <2>1 DEF Lacks
  <2>3. Holds(s)
    BY <2>2
  <2>4. text \o longer = Append(text \o s, x)
    BY <2>1, ConcatAppend DEF Text
  <2>5. Parts(Append(text \o s, x), NewLine) = Extended(before, x, NewLine)
    BY <2>1, PartsAppend
  <2>6. before.complete \in Seq(Text) /\ before.rest \in Seq(Word)
    BY <2>1, PartsType DEF PartsOf, Text
  <2> HIDE DEF before, longer
  <2>7. CASE x = NewLine
    <3>1. Parts(text \o longer, NewLine) = [complete |-> Append(before.complete, before.rest), rest |-> <<>>]
      BY <2>4, <2>5, <2>7 DEF Extended
    <3>2. ~Contains(before.rest, Colon)
      BY <2>3, <2>6 DEF Contains, Lacks, before
    <3>3. WithColon(Append(before.complete, before.rest)) = WithColon(before.complete)
      BY <2>6, <3>2, WithColonAppend DEF Text
    <3>4. Lines(text \o longer) = Lines(text \o s)
      BY <3>1, <3>3 DEF Lines, before
    <3>5. Lacks(<<>>, Colon)
      BY DEF Lacks
    <3> QED BY <2>3, <3>1, <3>4, <3>5
  <2>8. CASE x # NewLine
    <3>1. Parts(text \o longer, NewLine) = [complete |-> before.complete, rest |-> Append(before.rest, x)]
      BY <2>4, <2>5, <2>8 DEF Extended
    <3>2. Lines(text \o longer) = Lines(text \o s)
      BY <3>1 DEF Lines, before
    <3>3. Lacks(Append(before.rest, x), Colon)
      <4>1. Lacks(before.rest, Colon)
        BY <2>3 DEF before
      <4> QED BY <2>2, <2>6, <4>1 DEF Lacks
    <3> QED BY <2>3, <3>1, <3>2, <3>3
  <2> QED BY <2>7, <2>8
<1>3. S = Seq(Word)
  <2> HIDE DEF S
  <2>1. S \in SUBSET Seq(Word)
    BY DEF S
  <2> QED BY <1>1, <1>2, <2>1, SequenceInduction
<1>4. Holds(more)
  BY <1>3 DEF Text
<1> QED BY <1>4

(* The place where a text has its first delimiter, or its end.             *)
LEMMA FirstPlace ==
  ASSUME NEW text \in Text, NEW P \in SUBSET (1..Len(text))
  PROVE  /\ Min(P \cup {Len(text) + 1}) \in 1..(Len(text) + 1)
         /\ Min(P \cup {Len(text) + 1}) \in P \cup {Len(text) + 1}
         /\ \A i \in P : Min(P \cup {Len(text) + 1}) <= i
<1> DEFINE S == P \cup {Len(text) + 1}
<1>1. Len(text) \in Nat
  BY DEF Text
<1>2. S \subseteq 1..(Len(text) + 1) /\ S # {} /\ S \subseteq Nat
  <2>1. ASSUME NEW n \in S PROVE n \in 1..(Len(text) + 1) /\ n \in Nat
    BY <1>1
  <2>2. Len(text) + 1 \in S
    OBVIOUS
  <2> QED BY <2>1, <2>2
<1>3. PICK m \in S : \A n \in S : m <= n
  <2> HIDE DEF S
  <2> QED BY <1>2, LeastNumber
<1>4. Min(S) = m
  <2> HIDE DEF S
  <2> QED BY <1>2, <1>3, MinIs
<1> QED BY <1>2, <1>3, <1>4
-----------------------------------------------------------------------------
(* A value is its first line, and maybe a line break and more.             *)
LEMMA FirstLineOf ==
  ASSUME NEW value \in Text
  PROVE  /\ FirstLine(value) \in Text /\ Lacks(FirstLine(value), NewLine)
         /\ \/ value = FirstLine(value)
            \/ \E tail \in Text :
                 /\ value = FirstLine(value) \o <<NewLine>> \o tail
                 /\ KeepsToItself(value) => Lacks(tail, Colon)
<1> DEFINE P == {i \in DOMAIN value : value[i] = NewLine}
           end == Min(P \cup {Len(value) + 1})
           line == SubSeq(value, 1, end - 1)
           tail == SubSeq(value, end + 1, Len(value))
<1>1. DOMAIN value = 1..Len(value) /\ Len(value) \in Nat /\ value \in Seq(Word)
  BY DEF Text
<1>2. /\ end \in 1..(Len(value) + 1) /\ end \in P \cup {Len(value) + 1}
      /\ \A i \in P : end <= i
  <2>1. P \in SUBSET (1..Len(value))
    BY <1>1
  <2> HIDE DEF P
  <2> QED BY <2>1, FirstPlace
<1>3. FirstLine(value) = line
  BY DEF FirstLine
<1> HIDE DEF end
<1>4. line \in Seq(Word) /\ Len(line) = end - 1 /\ \A i \in 1..(end - 1) : line[i] = value[i]
  BY <1>1, <1>2
<1>5. Lacks(line, NewLine)
  <2> SUFFICES ASSUME NEW i \in 1..(end - 1), value[i] = NewLine PROVE FALSE
    BY <1>2, <1>4 DEF Lacks
  <2>1. i \in P
    BY <1>1, <1>2
  <2> QED BY <1>2, <2>1
<1>6. CASE end = Len(value) + 1
  <2>1. line = value
    BY <1>1, <1>4, <1>6, SeqEqual
  <2> QED BY <1>3, <1>4, <1>5, <2>1 DEF Text
<1>7. CASE end # Len(value) + 1
  <2>1. end \in 1..Len(value) /\ value[end] = NewLine
    BY <1>1, <1>2, <1>7
  <2>2. /\ tail \in Seq(Word) /\ Len(tail) = Len(value) - end
        /\ \A i \in 1..(Len(value) - end) : tail[i] = value[end + i]
    BY <1>1, <2>1
  <2> HIDE DEF line, tail
  <2> DEFINE head == line \o <<NewLine>>
             whole == head \o tail
  <2>3. <<NewLine>> \in Seq(Word) /\ Len(<<NewLine>>) = 1 /\ <<NewLine>>[1] = NewLine
    BY Delimiters
  <2>4. /\ head \in Seq(Word) /\ Len(head) = end
        /\ \A i \in 1..end : head[i] = value[i]
    BY <1>4, <2>1, <2>3
  <2> HIDE DEF head
  <2>5. whole \in Seq(Word) /\ Len(whole) = Len(value)
    <3>1. Len(whole) = Len(head) + Len(tail) /\ whole \in Seq(Word)
      BY <2>2, <2>4, ConcatAt
    <3> HIDE DEF whole
    <3> QED BY <1>1, <2>1, <2>2, <2>4, <3>1
  <2>6. ASSUME NEW i \in 1..Len(value) PROVE whole[i] = value[i]
    <3>1. CASE i <= end
      <4>1. i \in 1..Len(head)
        BY <1>1, <2>1, <2>4, <3>1
      <4>2. whole[i] = head[i]
        BY <2>2, <2>4, <4>1, ConcatAt
      <4> QED BY <2>4, <4>1, <4>2
    <3>2. CASE i > end
      <4>1. i - end \in 1..(Len(value) - end) /\ end + (i - end) = i
        BY <1>1, <2>1, <3>2
      <4>2. whole[i] = tail[i - end]
        <5>1. i - end \in 1..Len(tail) /\ Len(head) + (i - end) = i
          BY <1>1, <2>1, <2>2, <2>4, <4>1
        <5>2. (head \o tail)[Len(head) + (i - end)] = tail[i - end]
          BY <2>2, <2>4, <5>1, ConcatAt
        <5> QED BY <5>1, <5>2
      <4>3. tail[i - end] = value[end + (i - end)]
        BY <2>2, <4>1
      <4> HIDE DEF whole
      <4> QED BY <4>1, <4>2, <4>3
    <3> HIDE DEF whole
    <3> QED BY <1>1, <2>1, <3>1, <3>2
  <2>7. value = line \o <<NewLine>> \o tail
    <3>1. value = whole
      <4> HIDE DEF whole
      <4> QED BY <1>1, <2>5, <2>6, SeqEqual
    <3> QED BY <3>1 DEF head
  <2>8. ASSUME KeepsToItself(value) PROVE Lacks(tail, Colon)
    <3> SUFFICES ASSUME NEW i \in 1..(Len(value) - end), tail[i] = Colon PROVE FALSE
      BY <2>2 DEF Lacks
    <3>1. end + i \in 1..Len(value) /\ end < end + i /\ value[end + i] = Colon
      BY <1>1, <2>1, <2>2
    <3> QED BY <1>1, <2>1, <2>8, <3>1 DEF KeepsToItself
  <2> QED BY <1>3, <1>4, <1>5, <2>2, <2>7, <2>8 DEF Text
<1> QED BY <1>6, <1>7

(* A field adds one line to those before it, whatever its value: the rest  *)
(* of a value of several lines is passed over.                             *)
LineOf(key, value) == key \o <<Colon, Space>> \o FirstLine(value)

Regrouped(text, front, first, nl, tail) ==
         text \o ((front \o ((first \o nl) \o tail)) \o nl)
           = (((text \o (front \o first)) \o nl) \o tail) \o nl

(* The line break that ends a first line may be taken with what is before  *)
(* it.                                                                     *)
LEMMA ValueRegrouped ==
  ASSUME NEW text \in Text, NEW front \in Text, NEW first \in Text, NEW nl \in Text, NEW tail \in Text
  PROVE  Regrouped(text, front, first, nl, tail)
<1> DEFINE line == front \o first
<1>1. first \o nl \in Text /\ line \in Text
  BY DEF Text
<1>2. Associative(front, first \o nl, tail) /\ Associative(front, first, nl)
  BY <1>1, TextAssociative
<1> HIDE DEF line
<1>3. line \o nl \in Text
  BY <1>1 DEF Text
<1>4. (line \o nl) \o tail \in Text
  BY <1>3 DEF Text
<1>5. Associative(text, (line \o nl) \o tail, nl)
  BY <1>4, TextAssociative
<1>6. Associative(text, line \o nl, tail)
  BY <1>3, TextAssociative
<1>7. Associative(text, line, nl)
  BY <1>1, TextAssociative
<1> QED BY <1>2, <1>5, <1>6, <1>7 DEF Associative, Regrouped, line

(* The field of a value that keeps to itself adds one line with a colon.   *)
LEMMA FieldLine ==
  ASSUME NEW text \in Text, Parts(text, NewLine).rest = <<>>,
         NEW key \in Text, Lacks(key, NewLine),
         NEW value \in Text, KeepsToItself(value)
  PROVE  /\ text \o Field(key, value) \in Text
         /\ Parts(text \o Field(key, value), NewLine).rest = <<>>
         /\ Lines(text \o Field(key, value)) = Append(Lines(text), LineOf(key, value))
<1> DEFINE line == LineOf(key, value)
           first == FirstLine(value)
           before == Parts(text, NewLine)
           open == text \o line
<1>1. first \in Seq(Word) /\ Lacks(first, NewLine)
  BY FirstLineOf DEF Text
<1>2. <<Colon, Space>> \in Seq(Word) /\ <<NewLine>> \in Seq(Word) /\ <<Colon, Space>> \in Text
  BY Delimiters DEF Text
<1>3. text \in Seq(Word) /\ key \in Seq(Word) /\ value \in Seq(Word)
  BY DEF Text
<1> HIDE DEF first
<1>4. /\ line \in Seq(Word) /\ line = key \o <<Colon, Space>> \o first
      /\ Len(line) = Len(key) + 2 + Len(first)
      /\ \A i \in 1..Len(key) : line[i] = key[i]
      /\ line[Len(key) + 1] = Colon /\ line[Len(key) + 2] = Space
      /\ \A i \in 1..Len(first) : line[Len(key) + 2 + i] = first[i]
  BY <1>1, <1>2, <1>3 DEF LineOf, first
<1> HIDE DEF line
<1>5. Lacks(line, NewLine)
  <2> SUFFICES ASSUME NEW i \in 1..Len(line) PROVE line[i] # NewLine
    BY <1>4 DEF Lacks
  <2>1. CASE i \in 1..Len(key)
    BY <1>3, <1>4, <2>1 DEF Lacks
  <2>2. CASE i \in {Len(key) + 1, Len(key) + 2}
    BY <1>4, <2>2 DEF Colon, Space, NewLine
  <2>3. CASE i \in (Len(key) + 3)..Len(line)
    <3>1. /\ i - Len(key) - 2 \in 1..Len(first)
          /\ Len(key) + 2 + (i - Len(key) - 2) = i
      BY <1>1, <1>3, <1>4, <2>3
    <3>2. line[i] = first[i - Len(key) - 2]
      BY <1>4, <3>1
    <3> QED BY <1>1, <3>1, <3>2 DEF Lacks
  <2> QED BY <1>1, <1>3, <1>4, <2>1, <2>2, <2>3
<1>6. Contains(line, Colon)
  <2>1. Len(key) + 1 \in 1..Len(line)
    BY <1>1, <1>3, <1>4
  <2> QED BY <1>4, <2>1 DEF Contains
<1>7. open \in Text /\ Append(open, NewLine) \in Text
  BY <1>3, <1>4, Delimiters DEF Text
<1>8. before.complete \in Seq(Text) /\ before.rest = <<>>
  BY PartsType DEF PartsOf
<1>9. Parts(open, NewLine) = [complete |-> before.complete, rest |-> line]
  <2>1. Parts(open, NewLine) = [complete |-> before.complete, rest |-> before.rest \o line]
    BY <1>4, <1>5, PartsOfMore DEF Text
  <2>2. <<>> \o line = line
    BY <1>4
  <2> QED BY <1>8, <2>1, <2>2
<1> HIDE DEF open, before
<1>10. Parts(Append(open, NewLine), NewLine) = [complete |-> Append(before.complete, line), rest |-> <<>>]
  BY <1>7, <1>9, PartsAppend, Delimiters DEF Extended
<1>11. Lines(Append(open, NewLine)) = Append(Lines(text), line)
  <2>1. WithColon(Append(before.complete, line)) = Append(WithColon(before.complete), line)
    BY <1>4, <1>6, <1>8, WithColonAppend DEF Text
  <2> QED BY <1>10, <2>1 DEF Lines, before
<1>12. CASE value = first
  <2>1. text \o Field(key, value) = Append(open, NewLine)
    BY <1>2, <1>3, <1>4, <1>12 DEF Field, open
  <2> QED BY <1>7, <1>10, <1>11, <2>1 DEF line
<1>13. ASSUME NEW tail, tail \in Text, value = first \o <<NewLine>> \o tail, Lacks(tail, Colon)
       PROVE  /\ text \o Field(key, value) \in Text
              /\ Parts(text \o Field(key, value), NewLine).rest = <<>>
              /\ Lines(text \o Field(key, value)) = Append(Lines(text), line)
  <2> DEFINE last == Append(open, NewLine) \o tail
  <2>1. Lacks(Parts(Append(open, NewLine), NewLine).rest, Colon)
    BY <1>10 DEF Lacks
  <2>2. Lines(last) = Append(Lines(text), line) /\ Lacks(Parts(last, NewLine).rest, Colon)
    BY <1>7, <1>11, <1>13, <2>1, LinesWithoutColon
  <2>3. text \o Field(key, value) = Append(last, NewLine)
    <3> DEFINE nl == <<NewLine>>
               front == key \o <<Colon, Space>>
    <3>1. first \in Text /\ line \in Text /\ open \in Text /\ nl \in Text /\ front \in Text
      BY <1>1, <1>2, <1>3, <1>4, <1>7 DEF Text
    <3>2. line = front \o first /\ Field(key, value) = (front \o value) \o nl
      BY <1>4 DEF Field
    <3>3. value = (first \o nl) \o tail
      BY <1>13
    <3> HIDE DEF front
    <3>4. Append(open, NewLine) = open \o nl /\ last = (open \o nl) \o tail
      BY <3>1, TextAppend, Delimiters
    <3>5. Append(last, NewLine) = last \o nl
      BY <3>1, <3>4, TextAppend, TextConcat, Delimiters
    <3> HIDE DEF nl, last
    <3>6. Regrouped(text, front, first, nl, tail)
      BY <1>13, <3>1, ValueRegrouped
    <3> QED BY <3>2, <3>3, <3>4, <3>5, <3>6 DEF open, Regrouped
  <2>4. last \in Text /\ Append(last, NewLine) \in Text
    BY <1>7, <1>13, Delimiters DEF Text
  <2> HIDE DEF last
  <2> DEFINE after == Parts(last, NewLine)
  <2>5. after.complete \in Seq(Text) /\ after.rest \in Text
    BY <2>4, PartsType DEF PartsOf
  <2>6. Parts(Append(last, NewLine), NewLine) =
         [complete |-> Append(after.complete, after.rest), rest |-> <<>>]
    BY <2>4, PartsAppend, Delimiters DEF Extended
  <2>7. ~Contains(after.rest, Colon)
    BY <2>2, <2>5 DEF Contains, Lacks, Text
  <2> HIDE DEF after
  <2>8. WithColon(Append(after.complete, after.rest)) = WithColon(after.complete)
    BY <2>5, <2>7, WithColonAppend
  <2>9. Lines(Append(last, NewLine)) = Lines(last)
    BY <2>6, <2>8 DEF Lines, after
  <2> QED BY <2>2, <2>3, <2>4, <2>6, <2>9
<1> QED BY <1>12, <1>13, FirstLineOf DEF line, first
-----------------------------------------------------------------------------
(* The key of a line is what is before its first colon.                    *)
LEMMA KeyOfLine ==
  ASSUME NEW key \in Text, Lacks(key, Colon), NEW line \in Text,
         Len(key) < Len(line), line[Len(key) + 1] = Colon,
         \A i \in 1..Len(key) : line[i] = key[i]
  PROVE  KeyOf(line) = key
<1> DEFINE P == {i \in DOMAIN line : line[i] = Colon}
<1>1. /\ Len(key) \in Nat /\ DOMAIN line = 1..Len(line) /\ Len(line) \in Nat
      /\ DOMAIN key = 1..Len(key) /\ key \in Seq(Word) /\ line \in Seq(Word)
  BY DEF Text
<1>2. P \in SUBSET Nat /\ Len(key) + 1 \in P
  BY <1>1
<1>3. ASSUME NEW i \in P PROVE Len(key) + 1 <= i
  <2> SUFFICES ASSUME i <= Len(key) PROVE FALSE
    BY <1>1
  <2>1. i \in 1..Len(key) /\ line[i] = Colon
    BY <1>1
  <2> QED BY <1>1, <2>1 DEF Lacks
<1>4. Min(P) = Len(key) + 1
  <2> HIDE DEF P
  <2> QED BY <1>2, <1>3, MinIs
<1>5. KeyOf(line) = SubSeq(line, 1, Len(key))
  <2>1. KeyOf(line) = SubSeq(line, 1, Min(P) - 1)
    BY DEF KeyOf
  <2> HIDE DEF P
  <2>2. Min(P) - 1 = Len(key)
    BY <1>1, <1>4
  <2> QED BY <2>1, <2>2
<1>6. SubSeq(line, 1, Len(key)) \in Seq(Word) /\ Len(SubSeq(line, 1, Len(key))) = Len(key)
      /\ \A i \in 1..Len(key) : SubSeq(line, 1, Len(key))[i] = key[i]
  BY <1>1
<1> QED BY <1>1, <1>5, <1>6, SeqEqual

(* Leading spaces.                                                         *)
LEMMA WithoutSpacesIs ==
  ASSUME NEW text \in Text, NEW m \in 1..(Len(text) + 1),
         m = Len(text) + 1 \/ text[m] # Space,
         \A i \in 1..(m - 1) : text[i] = Space
  PROVE  WithoutSpaces(text) = SubSeq(text, m, Len(text))
<1> DEFINE S == {i \in DOMAIN text : text[i] # Space} \cup {Len(text) + 1}
<1>1. Len(text) \in Nat /\ DOMAIN text = 1..Len(text)
  BY DEF Text
<1>2. S \in SUBSET Nat /\ m \in S
  BY <1>1
<1>3. \A n \in S : m <= n
  BY <1>1
<1>4. Min(S) = m
  <2> HIDE DEF S
  <2> QED BY <1>2, <1>3, MinIs
<1> QED BY <1>4 DEF WithoutSpaces

(* Up to there are spaces only.                                            *)
LEMMA FirstNotSpace ==
  ASSUME NEW text \in Text
  PROVE  \E m \in 1..(Len(text) + 1) :
           /\ m = Len(text) + 1 \/ text[m] # Space
           /\ \A i \in 1..(m - 1) : text[i] = Space
<1> DEFINE P == {i \in DOMAIN text : text[i] # Space}
           m == Min(P \cup {Len(text) + 1})
<1>1. Len(text) \in Nat /\ DOMAIN text = 1..Len(text)
  BY DEF Text
<1>2. m \in 1..(Len(text) + 1) /\ m \in P \cup {Len(text) + 1} /\ \A i \in P : m <= i
  <2>1. P \in SUBSET (1..Len(text))
    BY <1>1
  <2> HIDE DEF P
  <2> QED BY <2>1, FirstPlace
<1> HIDE DEF m
<1>3. ASSUME NEW i \in 1..(m - 1) PROVE text[i] = Space
  <2>1. i \in DOMAIN text /\ ~(m <= i)
    BY <1>1, <1>2
  <2> QED BY <1>2, <2>1
<1> QED BY <1>2, <1>3

(* What is left without leading spaces is a text.                          *)
LEMMA WithoutSpacesType ==
  ASSUME NEW text \in Text
  PROVE  WithoutSpaces(text) \in Text
<1>1. PICK m \in 1..(Len(text) + 1) : WithoutSpaces(text) = SubSeq(text, m, Len(text))
  BY FirstNotSpace, WithoutSpacesIs
<1> QED BY <1>1 DEF Text

(* One leading space more is one more that is dropped.                     *)
LEMMA OneSpaceMore ==
  ASSUME NEW text \in Text
  PROVE  WithoutSpaces(<<Space>> \o text) = WithoutSpaces(text)
<1> DEFINE longer == <<Space>> \o text
<1>1. Len(text) \in Nat /\ text \in Seq(Word) /\ <<Space>> \in Seq(Word)
  BY Delimiters DEF Text
<1>2. /\ longer \in Text /\ Len(longer) = Len(text) + 1 /\ longer[1] = Space
      /\ \A i \in 1..Len(text) : longer[i + 1] = text[i]
  BY <1>1 DEF Text
<1> HIDE DEF longer
<1>3. PICK m \in 1..(Len(text) + 1) :
           /\ m = Len(text) + 1 \/ text[m] # Space
           /\ \A i \in 1..(m - 1) : text[i] = Space
  BY FirstNotSpace
<1>4. m + 1 \in 1..(Len(longer) + 1) /\ (m + 1 = Len(longer) + 1 \/ longer[m + 1] # Space)
  BY <1>1, <1>2, <1>3
<1>5. ASSUME NEW i \in 1..((m + 1) - 1) PROVE longer[i] = Space
  <2>1. CASE i = 1
    BY <1>2, <2>1
  <2>2. CASE i # 1
    <3>1. i - 1 \in 1..(m - 1) /\ i - 1 \in 1..Len(text) /\ (i - 1) + 1 = i
      BY <1>1, <2>2
    <3>2. longer[(i - 1) + 1] = text[i - 1]
      BY <1>2, <3>1
    <3> QED BY <1>3, <3>1, <3>2
  <2> QED BY <2>1, <2>2
<1>6. WithoutSpaces(longer) = SubSeq(longer, m + 1, Len(longer))
  BY <1>2, <1>4, <1>5, WithoutSpacesIs
<1>7. WithoutSpaces(text) = SubSeq(text, m, Len(text))
  BY <1>3, WithoutSpacesIs
<1>8. SubSeq(longer, m + 1, Len(longer)) = SubSeq(text, m, Len(text))
  <2> DEFINE s == SubSeq(longer, m + 1, Len(longer))
             t == SubSeq(text, m, Len(text))
  <2>1. s \in Seq(Word) /\ Len(s) = Len(text) + 1 - m
        /\ \A i \in 1..(Len(text) + 1 - m) : s[i] = longer[m + i]
    BY <1>1, <1>2 DEF Text
  <2>2. t \in Seq(Word) /\ Len(t) = Len(text) + 1 - m
        /\ \A i \in 1..(Len(text) + 1 - m) : t[i] = text[m + i - 1]
    BY <1>1
  <2> HIDE DEF s, t
  <2>3. ASSUME NEW i \in 1..(Len(text) + 1 - m) PROVE s[i] = t[i]
    <3>1. m + i - 1 \in 1..Len(text) /\ (m + i - 1) + 1 = m + i
      BY <1>1
    <3> QED BY <1>2, <2>1, <2>2, <3>1
  <2>4. s = t
    BY <2>1, <2>2, <2>3, SeqEqual
  <2> QED BY <2>4 DEF s, t
<1> QED BY <1>6, <1>7, <1>8 DEF longer

(* A text without leading spaces stays as it is.                           *)
LEMMA NoSpaceBefore ==
  ASSUME NEW text \in Text, text # <<>> => text[1] # Space
  PROVE  WithoutSpaces(text) = text
<1>1. Len(text) \in Nat /\ text \in Seq(Word) /\ (text = <<>> <=> Len(text) = 0)
  BY DEF Text
<1>2. WithoutSpaces(text) = SubSeq(text, 1, Len(text))
  BY <1>1, WithoutSpacesIs
<1> QED BY <1>1, <1>2, SubSeqFull
-----------------------------------------------------------------------------
(* More text never takes parts away, and each delimiter completes one.     *)
LEMMA PartsGrow ==
  ASSUME NEW text \in Text, NEW more \in Text, NEW delimiter
  PROVE  /\ Len(Parts(text \o more, delimiter).complete) >= Len(Parts(text, delimiter).complete)
         /\ ~Lacks(more, delimiter) =>
              Len(Parts(text \o more, delimiter).complete) > Len(Parts(text, delimiter).complete)
<1> DEFINE count(t) == Len(Parts(t, delimiter).complete)
           Holds(s) == /\ count(text \o s) >= count(text)
                       /\ ~Lacks(s, delimiter) => count(text \o s) > count(text)
           S == {s \in Seq(Word) : Holds(s)}
<1>1. \A t \in Text : count(t) \in Nat
  BY PartsType DEF PartsOf
<1>2. <<>> \in S
  <2>1. <<>> \in Seq(Word) /\ text \o <<>> = text /\ DOMAIN <<>> = {}
    BY DEF Text
  <2>2. Lacks(<<>>, delimiter)
    BY <2>1 DEF Lacks
  <2>3. Holds(<<>>)
    BY <1>1, <2>1, <2>2
  <2> QED BY <2>1, <2>3
<1>3. ASSUME NEW s \in S, NEW x \in Word PROVE Append(s, x) \in S
  <2>1. /\ s \in Seq(Word) /\ text \o s \in Text /\ text \o Append(s, x) \in Text
        /\ text \o Append(s, x) = Append(text \o s, x)
    BY ConcatAppend DEF Text
  <2>2. Parts(Append(text \o s, x), delimiter) = Extended(Parts(text \o s, delimiter), x, delimiter)
    BY <2>1, PartsAppend
  <2> DEFINE before == Parts(text \o s, delimiter)
  <2>3. before.complete \in Seq(Text) /\ before.rest \in Text
    BY <2>1, PartsType DEF PartsOf
  <2>4. CASE x = delimiter
    <3>1. Parts(text \o Append(s, x), delimiter).complete = Append(before.complete, before.rest)
      BY <2>1, <2>2, <2>4 DEF Extended
    <3>2. count(text \o Append(s, x)) = count(text \o s) + 1
      <4> HIDE DEF before
      <4>1. Len(Append(before.complete, before.rest)) = Len(before.complete) + 1
        BY <2>3
      <4> QED BY <3>1, <4>1 DEF before
    <3>3. Holds(s) /\ count(text \o s) \in Nat /\ count(text) \in Nat
      BY <1>1, <2>1
    <3>4. Append(s, x) \in Seq(Word)
      BY <2>1
    <3> HIDE DEF count
    <3> QED BY <3>2, <3>3, <3>4
  <2>5. CASE x # delimiter
    <3>1. count(text \o Append(s, x)) = count(text \o s)
      BY <2>1, <2>2, <2>5 DEF Extended
    <3>2. Lacks(s, delimiter) => Lacks(Append(s, x), delimiter)
      BY <2>1, <2>5 DEF Lacks
    <3>3. Holds(s)
      OBVIOUS
    <3>4. Append(s, x) \in Seq(Word)
      BY <2>1
    <3> HIDE DEF count
    <3> QED BY <3>1, <3>2, <3>3, <3>4
  <2> QED BY <2>4, <2>5
<1>4. S = Seq(Word)
  <2> HIDE DEF S
  <2>1. S \in SUBSET Seq(Word)
    BY DEF S
  <2> QED BY <1>2, <1>3, <2>1, SequenceInduction
<1>5. Holds(more)
  BY <1>4 DEF Text
<1> QED BY <1>5

(* The parts before a place of a text, and what the next token makes of    *)
(* them.                                                                   *)
Pieces(complete, rest) == [complete |-> complete, rest |-> rest]

(* Every text has such parts.                                              *)
LEMMA CutOf ==
  ASSUME NEW text \in Text, NEW delimiter
  PROVE  \E c \in Seq(Text), r \in Text : Parts(text, delimiter) = Pieces(c, r)
BY PartsType DEF PartsOf, Pieces

(* Nothing has no parts.                                                   *)
LEMMA CutEmpty == \A delimiter : Parts(<<>>, delimiter) = Pieces(<<>>, <<>>)
BY PartsEmpty DEF Pieces

(* What has no delimiter in it adds to the last part.                      *)
LEMMA CutMore ==
  ASSUME NEW delimiter, NEW text \in Text, NEW more \in Text, Lacks(more, delimiter),
         NEW c, NEW r, Parts(text, delimiter) = Pieces(c, r)
  PROVE  Parts(text \o more, delimiter) = Pieces(c, r \o more)
<1>1. Parts(text \o more, delimiter) =
        Pieces(Parts(text, delimiter).complete, Parts(text, delimiter).rest \o more)
  BY PartsOfMore DEF Pieces
<1>2. Parts(text, delimiter).complete = c /\ Parts(text, delimiter).rest = r
  BY DEF Pieces
<1> QED BY <1>1, <1>2

(* A token that is no delimiter adds to the last part.                     *)
LEMMA CutNext ==
  ASSUME NEW delimiter, NEW text \in Text, NEW token \in Word, token # delimiter,
         NEW c, NEW r, Parts(text, delimiter) = Pieces(c, r)
  PROVE  Parts(Append(text, token), delimiter) = Pieces(c, Append(r, token))
BY PartsAppend DEF Pieces, Extended

(* A delimiter completes it.                                               *)
LEMMA CutDone ==
  ASSUME NEW delimiter \in Word, NEW text \in Text,
         NEW c, NEW r, Parts(text, delimiter) = Pieces(c, r)
  PROVE  Parts(Append(text, delimiter), delimiter) = Pieces(Append(c, r), <<>>)
BY PartsAppend DEF Pieces, Extended

(* After a delimiter the complete parts are all.                           *)
LEMMA SplitClosed ==
  ASSUME NEW text, NEW delimiter, NEW c, Parts(text, delimiter) = Pieces(c, <<>>)
  PROVE  split_str(text, delimiter) = c
BY DEF split_str, Pieces

(* Otherwise the last part counts too.                                     *)
LEMMA SplitOpen ==
  ASSUME NEW text, NEW delimiter, NEW c, NEW r, r # <<>>, Parts(text, delimiter) = Pieces(c, r)
  PROVE  split_str(text, delimiter) = Append(c, r)
BY DEF split_str, Pieces

(* The parts up to the first delimiter.                                    *)
LEMMA CutFirst ==
  ASSUME NEW delimiter, NEW text \in Text, Lacks(text, delimiter)
  PROVE  Parts(text, delimiter) = Pieces(<<>>, text)
<1>1. PICK none \in Text : none = <<>>
  BY EmptyText
<1>2. Parts(none, delimiter) = Pieces(<<>>, none)
  BY <1>1, CutEmpty
<1>3. Parts(none \o text, delimiter) = Pieces(<<>>, none \o text)
  BY <1>2, CutMore
<1>4. none \o text = text
  BY <1>1 DEF Text
<1> QED BY <1>3, <1>4

(* A text is the tokens before its last and the last.                      *)
LEMMA FrontAndLast ==
  ASSUME NEW text \in Text, text # <<>>
  PROVE  /\ SubSeq(text, 1, Len(text) - 1) \in Text
         /\ text[Len(text)] \in Word
         /\ text = Append(SubSeq(text, 1, Len(text) - 1), text[Len(text)])
         /\ Len(text) \in Nat \ {0}
         /\ Len(SubSeq(text, 1, Len(text) - 1)) = Len(text) - 1
         /\ \A i \in 1..(Len(text) - 1) : SubSeq(text, 1, Len(text) - 1)[i] = text[i]
<1> DEFINE front == SubSeq(text, 1, Len(text) - 1)
           last == text[Len(text)]
<1>1. text \in Seq(Word) /\ Len(text) \in Nat \ {0}
  BY DEF Text
<1>2. /\ front \in Seq(Word) /\ Len(front) = Len(text) - 1 /\ last \in Word
      /\ \A i \in 1..(Len(text) - 1) : front[i] = text[i]
  <2>1. last \in Word
    BY <1>1
  <2>2. Len(text) - 1 \in Nat /\ Len(text) - 1 <= Len(text)
    BY <1>1
  <2>3. front \in Seq(Word) /\ Len(front) = Len(text) - 1
    <3>1. \A i \in 1..(Len(text) - 1) : text[i] \in Word
      BY <1>1
    <3>2. PICK n \in Nat : n = Len(text) - 1
      BY <2>2
    <3>3. /\ SubSeq(text, 1, n) \in Seq(Word)
          /\ Len(SubSeq(text, 1, n)) = IF 1 <= n THEN n - 1 + 1 ELSE 0
      BY <3>1, <3>2, SubSeqProperties
    <3>4. (IF 1 <= n THEN n - 1 + 1 ELSE 0) = n
      OBVIOUS
    <3> QED BY <3>2, <3>3, <3>4
  <2>4. \A i \in 1..(Len(text) - 1) : front[i] = text[i]
    BY <1>1, <2>2
  <2> QED BY <2>1, <2>3, <2>4
<1>3. text = Append(front, last)
  <2> HIDE DEF front
  <2>1. Append(front, last) \in Seq(Word) /\ Len(Append(front, last)) = Len(text)
    BY <1>1, <1>2
  <2>2. ASSUME NEW i \in 1..Len(text) PROVE text[i] = Append(front, last)[i]
    BY <1>1, <1>2
  <2> HIDE DEF last
  <2> QED BY <1>1, <2>1, <2>2, SeqEqual
<1> QED BY <1>1, <1>2, <1>3 DEF Text

(* split_str returns texts.                                                *)
LEMMA SplitType ==
  ASSUME NEW text \in Text, NEW delimiter
  PROVE  split_str(text, delimiter) \in Seq(Text)
BY PartsType DEF split_str, PartsOf

(* What is left of a first line.                                           *)
KeptOf(line) ==
  LET colons == {i \in DOMAIN line : line[i] = Colon}
  IN  CASE colons = {}          -> WithoutSpaces(line)
        [] colons = {Len(line)} -> WithoutSpaces(SubSeq(line, 1, Len(line) - 1))
        [] OTHER                -> <<>>

(* The value of a line that report writes is what is kept of it.           *)
LEMMA ValueOfLine ==
  ASSUME NEW key \in Text, Lacks(key, Colon), NEW first \in Text
  PROVE  ValueOf(key \o <<Colon, Space>> \o first) = KeptOf(first)
<1> DEFINE t == Append(Append(key, Colon), Space)
           line == t \o first
           colons == {i \in DOMAIN first : first[i] = Colon}
           front == SubSeq(first, 1, Len(first) - 1)
           last == first[Len(first)]
<1>1. DOMAIN first = 1..Len(first) /\ Len(first) \in Nat
  BY DEF Text
<1>2. key \o <<Colon, Space>> \o first = line
  <2>1. key \o <<Colon, Space>> = t
    BY Delimiters DEF Text
  <2> QED BY <2>1
<1>3. Append(key, Colon) \in Text /\ t \in Text /\ Colon \in Word /\ Space \in Word /\ Space # Colon
  <2>1. Colon \in Word /\ Space \in Word /\ Space # Colon
    BY Delimiters DEF Space, Colon
  <2>2. Append(key, Colon) \in Text
    BY <2>1, AppendText
  <2> QED BY <2>1, <2>2, AppendText
<1>4. Parts(t, Colon) = Pieces(<<key>>, <<Space>>)
  <2>1. PICK none : none = <<>>
    OBVIOUS
  <2>2. Parts(key, Colon) = Pieces(none, key)
    BY <2>1, CutFirst
  <2>3. Parts(Append(key, Colon), Colon) = Pieces(Append(none, key), none)
    <3>1. Parts(Append(key, Colon), Colon) = Pieces(Append(none, key), <<>>)
      BY <1>3, <2>2, CutDone
    <3> QED BY <2>1, <3>1
  <2>4. Parts(t, Colon) = Pieces(Append(none, key), Append(none, Space))
    BY <1>3, <2>3, CutNext
  <2>5. Append(none, key) = <<key>> /\ Append(none, Space) = <<Space>>
    BY <2>1
  <2> QED BY <2>4, <2>5
<1> HIDE DEF t
<1>5. ASSUME NEW s \in Text, Parts(line, Colon) = Pieces(<<key>>, <<Space>> \o s)
      PROVE  ValueOf(line) = WithoutSpaces(<<Space>> \o s)
  <2>1. PICK m : m = <<Space>> \o s
    OBVIOUS
  <2>2. m # <<>>
    BY <1>3, <2>1 DEF Text
  <2>3. PICK k : k = <<key>>
    OBVIOUS
  <2> HIDE DEF line
  <2>4. split_str(line, Colon) = Append(k, m)
    <3>1. Parts(line, Colon) = Pieces(k, m)
      BY <1>5, <2>1, <2>3
    <3> QED BY <2>2, <3>1, SplitOpen
  <2>5. k \in Seq(Text) /\ Len(k) = 1 /\ m \in Text
    BY <1>3, <2>1, <2>3 DEF Text
  <2>6. Len(Append(k, m)) = Len(k) + 1 /\ Append(k, m)[Len(k) + 1] = m
    <3>1. PICK T : T = Text
      OBVIOUS
    <3>2. k \in Seq(T) /\ m \in T
      BY <2>5, <3>1
    <3> QED BY <3>2, AppendProperties
  <2>7. Len(Append(k, m)) = 2 /\ Append(k, m)[2] = m
    BY <2>5, <2>6
  <2> QED BY <2>1, <2>4, <2>7 DEF ValueOf
<1>6. CASE colons = {}
  <2>1. Lacks(first, Colon)
    BY <1>6 DEF Lacks
  <2>2. Parts(line, Colon) = Pieces(<<key>>, <<Space>> \o first)
    BY <1>3, <1>4, <2>1, CutMore
  <2>3. ValueOf(line) = WithoutSpaces(<<Space>> \o first)
    BY <1>5, <2>2
  <2> HIDE DEF line
  <2> QED BY <1>2, <1>6, <2>3, OneSpaceMore DEF KeptOf
<1>7. ASSUME colons # {}
      PROVE  /\ front \in Text /\ last \in Word /\ first = Append(front, last)
             /\ Len(first) \in Nat \ {0} /\ Len(front) = Len(first) - 1
             /\ \A i \in 1..(Len(first) - 1) : front[i] = first[i]
             /\ line = Append(t \o front, last) /\ t \o front \in Text
  <2>1. first # <<>>
    BY <1>7
  <2> HIDE DEF front, last
  <2>2. /\ front \in Text /\ last \in Word /\ first = Append(front, last)
        /\ Len(first) \in Nat \ {0} /\ Len(front) = Len(first) - 1
        /\ \A i \in 1..(Len(first) - 1) : front[i] = first[i]
    BY <2>1, FrontAndLast DEF front, last
  <2>3. t \o Append(front, last) = Append(t \o front, last)
    BY <1>3, <2>2, ConcatAppend DEF Text
  <2>4. t \o front \in Text
    BY <1>3, <2>2 DEF Text
  <2> QED BY <2>2, <2>3, <2>4
<1> HIDE DEF line
<1>8. CASE colons # {} /\ colons = {Len(first)}
  <2> HIDE DEF front, last
  <2>1. front \in Text /\ line = Append(t \o front, last) /\ t \o front \in Text
    BY <1>7, <1>8
  <2>2. last = Colon
    <3>1. Len(first) \in colons
      BY <1>8
    <3> QED BY <3>1 DEF last
  <2>3. ASSUME NEW i \in DOMAIN front, front[i] = Colon PROVE FALSE
    <3>1. i \in 1..(Len(first) - 1) /\ first[i] = Colon
      BY <1>7, <1>8, <2>3 DEF Text
    <3>2. i \in colons /\ i # Len(first)
      BY <1>1, <3>1
    <3> QED BY <1>8, <3>2
  <2>4. Lacks(front, Colon)
    BY <2>3 DEF Lacks
  <2>5. Parts(t \o front, Colon) = Pieces(<<key>>, <<Space>> \o front)
    BY <1>3, <1>4, <2>1, <2>4, CutMore
  <2>6. Parts(line, Colon) = Pieces(Append(<<key>>, <<Space>> \o front), <<>>)
    BY <1>3, <2>1, <2>2, <2>5, CutDone
  <2>7. split_str(line, Colon) = Append(<<key>>, <<Space>> \o front)
    BY <2>6, SplitClosed
  <2>8. ValueOf(line) = WithoutSpaces(<<Space>> \o front)
    BY <2>7 DEF ValueOf
  <2>9. WithoutSpaces(<<Space>> \o front) = WithoutSpaces(front)
    BY <2>1, OneSpaceMore
  <2>10. KeptOf(first) = WithoutSpaces(front)
    BY <1>8 DEF KeptOf, front
  <2> QED BY <1>2, <2>8, <2>9, <2>10
<1>9. CASE colons # {} /\ colons # {Len(first)}
  <2>1. PICK j \in 1..(Len(first) - 1) : first[j] = Colon
    BY <1>1, <1>9
  <2> HIDE DEF front, last
  <2>2. /\ front \in Text /\ last \in Word /\ Len(front) = Len(first) - 1
        /\ front[j] = first[j] /\ line = Append(t \o front, last) /\ t \o front \in Text
    BY <1>7, <1>9, <2>1
  <2>3. ~Lacks(front, Colon)
    <3>1. j \in DOMAIN front
      BY <2>1, <2>2 DEF Text
    <3> QED BY <2>1, <2>2, <3>1 DEF Lacks
  <2>4. PICK c \in Seq(Text), r \in Text : Parts(t \o front, Colon) = Pieces(c, r)
    BY <2>2, CutOf
  <2>5. Len(c) \in Nat /\ Len(c) >= 2
    <3>1. Len(Parts(t, Colon).complete) = 1
      BY <1>4 DEF Pieces
    <3>2. Len(Parts(t \o front, Colon).complete) > Len(Parts(t, Colon).complete)
      BY <1>3, <2>2, <2>3, PartsGrow
    <3>3. Parts(t \o front, Colon).complete = c
      BY <2>4 DEF Pieces
    <3> QED BY <3>1, <3>2, <3>3
  <2>6. Len(split_str(line, Colon)) # 2
    <3>1. CASE last = Colon
      <4>1. Parts(line, Colon) = Pieces(Append(c, r), <<>>)
        BY <1>3, <2>2, <2>4, <3>1, CutDone
      <4>2. split_str(line, Colon) = Append(c, r)
        BY <4>1, SplitClosed
      <4> QED BY <2>5, <4>2
    <3>2. CASE last # Colon
      <4>1. Parts(line, Colon) = Pieces(c, Append(r, last))
        BY <2>2, <2>4, <3>2, CutNext
      <4>2. PICK m : m = Append(r, last) /\ m # <<>>
        BY <2>2, <2>4, AppendText
      <4>3. split_str(line, Colon) = Append(c, m)
        <5>1. Parts(line, Colon) = Pieces(c, m)
          BY <4>1, <4>2
        <5>2. m # <<>>
          BY <4>2
        <5> QED BY <5>1, <5>2, SplitOpen
      <4> QED BY <2>5, <4>3
    <3> QED BY <3>1, <3>2
  <2>7. ValueOf(line) = <<>>
    BY <2>6 DEF ValueOf
  <2>8. KeptOf(first) = <<>>
    BY <1>9 DEF KeptOf
  <2> QED BY <1>2, <2>7, <2>8
<1> QED BY <1>6, <1>8, <1>9

(* What is kept of a text is a text.                                       *)
LEMMA KeptType ==
  ASSUME NEW text \in Text
  PROVE  Kept(text) \in Text
<1> DEFINE line == FirstLine(text)
           front == SubSeq(line, 1, Len(line) - 1)
<1>1. line \in Text
  BY FirstLineOf
<1> HIDE DEF line
<1>2. front \in Text
  <2>1. CASE line = <<>>
    <3>1. front = <<>>
      BY <2>1
    <3>2. <<>> \in Text
      BY DEF Text
    <3> QED BY <3>1, <3>2
  <2>2. CASE line # <<>>
    BY <1>1, <2>2, FrontAndLast
  <2> QED BY <2>1, <2>2
<1> HIDE DEF front
<1>3. WithoutSpaces(line) \in Text /\ WithoutSpaces(front) \in Text
  BY <1>1, <1>2, WithoutSpacesType
<1>4. <<>> \in Text
  BY DEF Text
<1>5. Kept(text) \in {WithoutSpaces(line), WithoutSpaces(front), <<>>}
  BY DEF Kept, line, front
<1> QED BY <1>3, <1>4, <1>5
-----------------------------------------------------------------------------
(* FlattenSeq puts one text after the other.                               *)
LEMMA FlattenRun ==
  ASSUME NEW seqs \in Seq(Text)
  PROVE  \E f \in [0..Len(seqs) -> Text] :
           /\ f[0] = <<>>
           /\ \A n \in 1..Len(seqs) : f[n] = f[n - 1] \o seqs[n]
           /\ FlattenSeq(seqs) = f[Len(seqs)]
<1> DEFINE step == [n \in 1..Len(seqs) |-> [s \in Text |-> s \o seqs[n]]]
           Step(f) == [n \in 1..Len(seqs) |-> IF n = 1 THEN seqs[n] ELSE f[n - 1] \o seqs[n]]
<1>1. Len(seqs) \in Nat /\ \A n \in 1..Len(seqs) : seqs[n] \in Text
  OBVIOUS
<1>2. step \in Steps(Len(seqs), Text)
  <2>1. ASSUME NEW n \in 1..Len(seqs) PROVE [s \in Text |-> s \o seqs[n]] \in [Text -> Text]
    BY <1>1, ConcatText
  <2> QED BY <2>1 DEF Steps
<1>3. PICK g : IsRun(g, <<>>, step, Len(seqs), Text)
  <2> HIDE DEF step
  <2> QED BY <1>1, <1>2, EmptyText, Recursion
<1>4. g \in [0..Len(seqs) -> Text] /\ g[0] = <<>>
  BY <1>3 DEF IsRun
<1>5. ASSUME NEW n \in 1..Len(seqs) PROVE g[n] = g[n - 1] \o seqs[n] /\ g[n - 1] \in Text
  <2>1. n - 1 \in 0..Len(seqs)
    BY <1>1
  <2>2. g[n - 1] \in Text
    BY <1>4, <2>1
  <2>3. step[n][g[n - 1]] = g[n - 1] \o seqs[n]
    BY <2>2
  <2> QED BY <1>3, <2>2, <2>3 DEF IsRun
<1>6. ASSUME NEW n \in 1..Len(seqs), n = 1 PROVE g[n] = seqs[n]
  <2>1. n - 1 = 0
    BY <1>6
  <2>2. g[n - 1] = <<>> /\ seqs[n] \in Text
    BY <1>1, <1>4, <2>1
  <2>3. <<>> \o seqs[n] = seqs[n]
    BY <2>2, ConcatEmptySeq DEF Text
  <2> QED BY <1>5, <2>2, <2>3
<1>7. CASE Len(seqs) = 0
  <2>1. seqs = <<>>
    BY <1>7
  <2>2. FlattenSeq(seqs) = seqs
    BY <1>7 DEF FlattenSeq
  <2> QED BY <1>4, <1>5, <1>7, <2>1, <2>2
<1>8. CASE Len(seqs) # 0
  <2> DEFINE h == [n \in 1..Len(seqs) |-> g[n]]
             f == CHOOSE x : x = Step(x)
  <2>1. h = Step(h)
    <3>1. ASSUME NEW n \in 1..Len(seqs) PROVE h[n] = Step(h)[n]
      <4>1. CASE n = 1
        BY <1>6, <4>1
      <4>2. CASE n # 1
        <5>1. n - 1 \in 1..Len(seqs)
          BY <1>1, <4>2
        <5>2. h[n - 1] = g[n - 1]
          BY <5>1
        <5> QED BY <1>5, <4>2, <5>2
      <4> QED BY <4>1, <4>2
    <3>2. Step(h) = [n \in 1..Len(seqs) |-> Step(h)[n]]
      OBVIOUS
    <3>3. h = [n \in 1..Len(seqs) |-> h[n]]
      OBVIOUS
    <3> HIDE DEF Step, h
    <3> QED BY <3>1, <3>2, <3>3
  <2>2. f = Step(f)
    <3> HIDE DEF Step, h
    <3> QED BY <2>1
  <2>3. FlattenSeq(seqs) = f[Len(seqs)]
    BY <1>8 DEF FlattenSeq
  <2> HIDE DEF f
  <2>4. ASSUME NEW n \in 1..Len(seqs) PROVE f[n] = IF n = 1 THEN seqs[n] ELSE f[n - 1] \o seqs[n]
    <3> HIDE DEF Step
    <3>1. f[n] = Step(f)[n]
      BY <2>2
    <3> QED BY <3>1 DEF Step
  <2>5. 1 \in 1..Len(seqs) /\ Len(seqs) \in 1..Len(seqs)
    BY <1>1, <1>8
  <2>6. GoOnAlike(f, g, 1, Len(seqs))
    <3>1. ASSUME NEW n \in (1 + 1)..Len(seqs), f[n - 1] = g[n - 1] PROVE f[n] = g[n]
      <4>1. n \in 1..Len(seqs) /\ n # 1
        BY <1>1
      <4> QED BY <1>5, <2>4, <3>1, <4>1
    <3> QED BY <3>1 DEF GoOnAlike
  <2>7. f[1] = g[1]
    BY <1>6, <2>4, <2>5
  <2>8. Agree(f, g, 1, Len(seqs))
    <3>1. 1 \in 0..Len(seqs)
      BY <2>5
    <3> QED BY <1>1, <2>6, <2>7, <3>1, Agreement
  <2>9. f[Len(seqs)] = g[Len(seqs)]
    BY <2>5, <2>8 DEF Agree
  <2> QED BY <1>4, <1>5, <2>3, <2>9
<1> QED BY <1>7, <1>8

(* Texts one after the other are a text.                                   *)
LEMMA FlattenText ==
  ASSUME NEW seqs \in Seq(Text)
  PROVE  FlattenSeq(seqs) \in Text
<1>1. Len(seqs) \in 0..Len(seqs)
  OBVIOUS
<1>2. PICK f \in [0..Len(seqs) -> Text] : FlattenSeq(seqs) = f[Len(seqs)]
  BY FlattenRun
<1> QED BY <1>1, <1>2

(* A sequence of fields adds as many lines.                                *)
AreFields(texts, keys, values) ==
  /\ texts \in Seq(Text) /\ keys \in Seq(Text) /\ values \in Seq(Text)
  /\ Len(keys) = Len(texts) /\ Len(values) = Len(texts)
  /\ \A i \in 1..Len(texts) :
       /\ texts[i] = Field(keys[i], values[i])
       /\ Lacks(keys[i], NewLine) /\ KeepsToItself(values[i])

FieldsAdded(text, texts, keys, values) ==
  /\ text \o FlattenSeq(texts) \in Text
  /\ Parts(text \o FlattenSeq(texts), NewLine).rest = <<>>
  /\ Lines(text \o FlattenSeq(texts))
       = Lines(text) \o [i \in 1..Len(texts) |-> LineOf(keys[i], values[i])]

(* Fields add one line each, by induction over their number.               *)
LEMMA FieldLines ==
  ASSUME NEW text \in Text, Parts(text, NewLine).rest = <<>>,
         NEW texts, NEW keys, NEW values, AreFields(texts, keys, values)
  PROVE  FieldsAdded(text, texts, keys, values)
<1> DEFINE N == Len(texts)
           added(n) == [i \in 1..n |-> LineOf(keys[i], values[i])]
           Holds(t, n) == /\ t \in Text
                          /\ Parts(t, NewLine).rest = <<>>
                          /\ Lines(t) = Lines(text) \o added(n)
<1>1. N \in Nat /\ texts \in Seq(Text)
  BY DEF AreFields
<1>2. PICK f \in [0..N -> Text] :
           /\ f[0] = <<>>
           /\ \A n \in 1..N : f[n] = f[n - 1] \o texts[n]
           /\ FlattenSeq(texts) = f[N]
  BY <1>1, FlattenRun
<1>3. ASSUME NEW i \in 1..N
      PROVE  /\ keys[i] \in Text /\ values[i] \in Text /\ texts[i] = Field(keys[i], values[i])
             /\ texts[i] \in Text
             /\ Lacks(keys[i], NewLine) /\ KeepsToItself(values[i])
             /\ LineOf(keys[i], values[i]) \in Text
  <2>1. /\ keys[i] \in Text /\ values[i] \in Text /\ texts[i] = Field(keys[i], values[i])
        /\ texts[i] \in Text
        /\ Lacks(keys[i], NewLine) /\ KeepsToItself(values[i])
    BY <1>1 DEF AreFields
  <2>2. <<Colon, Space>> \in Text
    BY Delimiters DEF Text
  <2>3. FirstLine(values[i]) \in Text
    BY <2>1, FirstLineOf
  <2>4. keys[i] \o <<Colon, Space>> \in Text
    BY <2>1, <2>2, ConcatText
  <2>5. LineOf(keys[i], values[i]) \in Text
    BY <2>3, <2>4, ConcatText DEF LineOf
  <2> QED BY <2>1, <2>5
<1>4. Lines(text) \in Seq(Text)
  BY PartsType, WithColonType DEF Lines, PartsOf
<1> DEFINE A == {n \in Nat : n <= N => Holds(text \o f[n], n)}
<1>5. 0 \in A
  <2>1. text \o f[0] = text
    BY <1>2, ConcatEmptySeq DEF Text
  <2>2. added(0) = <<>>
    OBVIOUS
  <2>3. Lines(text) \o <<>> = Lines(text)
    BY <1>4, ConcatEmptySeq
  <2> QED BY <2>1, <2>2, <2>3
<1>6. ASSUME NEW n \in A PROVE n + 1 \in A
  <2> HIDE DEF Holds
  <2> SUFFICES ASSUME n + 1 <= N PROVE Holds(text \o f[n + 1], n + 1)
    OBVIOUS
  <2> USE DEF Holds
  <2>1. n + 1 \in 1..N /\ (n + 1) - 1 = n /\ n \in Nat /\ n <= N /\ n \in 0..N
    BY <1>1
  <2>2. Holds(text \o f[n], n) /\ f[n] \in Text
    BY <1>2, <2>1
  <2> DEFINE key == keys[n + 1]
             value == values[n + 1]
  <2>3. /\ key \in Text /\ value \in Text /\ texts[n + 1] = Field(key, value)
        /\ texts[n + 1] \in Text
        /\ Lacks(key, NewLine) /\ KeepsToItself(value) /\ LineOf(key, value) \in Text
    BY <1>3, <2>1
  <2>4. f[n + 1] = f[n] \o texts[n + 1]
    BY <1>2, <2>1
  <2>5. Associative(text, f[n], texts[n + 1])
    BY <2>2, <2>3, TextAssociative
  <2>6. text \o f[n + 1] = (text \o f[n]) \o Field(key, value)
    BY <2>3, <2>4, <2>5 DEF Associative
  <2> DEFINE t == text \o f[n]
  <2>7. t \in Text /\ Parts(t, NewLine).rest = <<>> /\ Lines(t) = Lines(text) \o added(n)
    BY <2>2
  <2> HIDE DEF key, value, t
  <2>8. /\ t \o Field(key, value) \in Text
        /\ Parts(t \o Field(key, value), NewLine).rest = <<>>
        /\ Lines(t \o Field(key, value)) = Append(Lines(t), LineOf(key, value))
    BY <2>3, <2>7, FieldLine
  <2>9. Append(Lines(text) \o added(n), LineOf(key, value)) = Lines(text) \o added(n + 1)
    <3>1. added(n) \in Seq(Text)
      BY <1>3, <2>1
    <3>2. added(n + 1) = Append(added(n), LineOf(key, value))
      <4> DEFINE a == added(n)
                 b == added(n + 1)
      <4>1. b \in Seq(Text) /\ Len(b) = n + 1 /\ Len(a) = n
        BY <1>3, <2>1
      <4>2. Append(a, LineOf(key, value)) \in Seq(Text) /\ Len(Append(a, LineOf(key, value))) = n + 1
        <5> HIDE DEF a
        <5> QED BY <2>3, <3>1, <4>1 DEF a
      <4>3. ASSUME NEW i \in 1..(n + 1) PROVE b[i] = Append(a, LineOf(key, value))[i]
        <5>1. CASE i = n + 1
          <6>1. b[i] = LineOf(key, value)
            BY <5>1 DEF key, value
          <6>2. a \in Seq(Text)
            BY <3>1
          <6> HIDE DEF a, b
          <6> QED BY <2>3, <4>1, <5>1, <6>1, <6>2
        <5>2. CASE i # n + 1
          <6>1. i \in 1..n /\ b[i] = a[i]
            BY <2>1, <5>2
          <6>2. a \in Seq(Text)
            BY <3>1
          <6> HIDE DEF a, b
          <6> QED BY <2>3, <4>1, <6>1, <6>2
        <5> QED BY <5>1, <5>2
      <4> HIDE DEF a, b
      <4>4. b = Append(a, LineOf(key, value))
        BY <4>1, <4>2, <4>3, SeqEqual
      <4> QED BY <4>4 DEF a, b
    <3>3. PICK L, a, b, x : L = Lines(text) /\ a = added(n) /\ b = added(n + 1) /\ x = LineOf(key, value)
      OBVIOUS
    <3>4. L \in Seq(Text) /\ a \in Seq(Text) /\ x \in Text /\ b = Append(a, x)
      BY <1>4, <2>3, <3>1, <3>2, <3>3
    <3>5. L \o Append(a, x) = Append(L \o a, x)
      BY <3>4, ConcatAppend
    <3>6. L \o b = Append(L \o a, x)
      BY <3>4, <3>5
    <3> HIDE DEF added
    <3> QED BY <3>3, <3>6
  <2> QED BY <2>6, <2>7, <2>8, <2>9 DEF t
<1>7. A = Nat
  <2> HIDE DEF A
  <2>1. A \in SUBSET Nat
    BY DEF A
  <2> QED BY <1>5, <1>6, <2>1, SetInduction
<1>8. Holds(text \o f[N], N)
  <2>1. N \in A
    BY <1>1, <1>7
  <2> QED BY <1>1, <2>1
<1> QED BY <1>2, <1>8 DEF FieldsAdded
-----------------------------------------------------------------------------
(* A text that begins with t and goes on with fields and the last of them. *)
TextsRegrouped(t, c, d, e, f, g, h, i) ==
  t \o ((((((c \o d) \o e) \o f) \o g) \o h) \o i)
    = ((((((t \o c) \o d) \o e) \o f) \o g) \o h) \o i

(* How they are grouped does not matter.                                   *)
LEMMA TextRegrouped ==
  ASSUME NEW t \in Text, NEW c \in Text, NEW d \in Text, NEW e \in Text, NEW f \in Text,
         NEW g \in Text, NEW h \in Text, NEW i \in Text
  PROVE  TextsRegrouped(t, c, d, e, f, g, h, i)
<1>1. PICK s2 : s2 = c \o d
  OBVIOUS
<1>2. PICK s3 : s3 = s2 \o e
  OBVIOUS
<1>3. PICK s4 : s4 = s3 \o f
  OBVIOUS
<1>4. PICK s5 : s5 = s4 \o g
  OBVIOUS
<1>5. PICK s6 : s6 = s5 \o h
  OBVIOUS
<1>6. s2 \in Text
  BY <1>1, ConcatText
<1>7. s3 \in Text
  BY <1>2, <1>6, ConcatText
<1>8. s4 \in Text
  BY <1>3, <1>7, ConcatText
<1>9. s5 \in Text
  BY <1>4, <1>8, ConcatText
<1>10. s6 \in Text
  BY <1>5, <1>9, ConcatText
<1>11. Associative(t, s6, i) /\ Associative(t, s5, h) /\ Associative(t, s4, g)
  BY <1>8, <1>9, <1>10, TextAssociative
<1>12. Associative(t, s3, f) /\ Associative(t, s2, e) /\ Associative(t, c, d)
  BY <1>6, <1>7, TextAssociative
<1>13. t \o s2 = (t \o c) \o d
  BY <1>1, <1>12 DEF Associative
<1>14. t \o s3 = (t \o s2) \o e
  BY <1>2, <1>12 DEF Associative
<1>15. t \o s4 = (t \o s3) \o f
  BY <1>3, <1>12 DEF Associative
<1>16. t \o s5 = (t \o s4) \o g
  BY <1>4, <1>11 DEF Associative
<1>17. t \o s6 = (t \o s5) \o h
  BY <1>5, <1>11 DEF Associative
<1>18. t \o (s6 \o i) = (t \o s6) \o i
  BY <1>11 DEF Associative
<1> QED BY <1>1, <1>2, <1>3, <1>4, <1>5, <1>13, <1>14, <1>15, <1>16, <1>17, <1>18
       DEF TextsRegrouped

(* A line with a colon is kept.                                            *)
LEMMA OneLineMore ==
  ASSUME NEW text \in Text, Parts(text, NewLine).rest = <<>>,
         NEW line \in Text, Lacks(line, NewLine), Contains(line, Colon)
  PROVE  /\ text \o (line \o <<NewLine>>) \in Text
         /\ Parts(text \o (line \o <<NewLine>>), NewLine).rest = <<>>
         /\ Lines(text \o (line \o <<NewLine>>)) = Append(Lines(text), line)
<1>1. NewLine \in Word
  BY Delimiters
<1>2. <<NewLine>> \in Text
  BY <1>1, EmptyText, TextAppend
<1>3. PICK none : none = <<>>
  OBVIOUS
<1>4. PICK c \in Seq(Text) : Parts(text, NewLine) = Pieces(c, none)
  <2>1. PICK c \in Seq(Text), r \in Text : Parts(text, NewLine) = Pieces(c, r)
    BY CutOf
  <2> QED BY <1>3, <2>1 DEF Pieces
<1>5. none \o line = line
  BY <1>3, ConcatEmptySeq DEF Text
<1>6. Parts(text \o line, NewLine) = Pieces(c, line)
  <2>1. Parts(text \o line, NewLine) = Pieces(c, none \o line)
    BY <1>4, CutMore
  <2> QED BY <1>5, <2>1
<1>7. text \o line \in Text
  BY ConcatText
<1>8. Parts(Append(text \o line, NewLine), NewLine) = Pieces(Append(c, line), none)
  <2>1. PICK t : t = text \o line
    OBVIOUS
  <2>2. t \in Text /\ Parts(t, NewLine) = Pieces(c, line)
    BY <1>6, <1>7, <2>1
  <2>3. Parts(Append(t, NewLine), NewLine) = Pieces(Append(c, line), <<>>)
    BY <1>1, <2>2, CutDone
  <2> QED BY <1>3, <2>1, <2>3
<1>9. Append(text \o line, NewLine) = text \o (line \o <<NewLine>>)
  <2>1. Append(text \o line, NewLine) = (text \o line) \o <<NewLine>>
    BY <1>1, <1>7, TextAppend
  <2>2. Associative(text, line, <<NewLine>>)
    BY <1>2, TextAssociative
  <2> QED BY <2>1, <2>2 DEF Associative
<1>10. Append(text \o line, NewLine) \in Text
  BY <1>1, <1>7, AppendText
<1>11. WithColon(Append(c, line)) = Append(WithColon(c), line)
  BY WithColonAppend
<1>12. Lines(text) = WithColon(c)
  BY <1>4 DEF Lines, Pieces
<1>13. Lines(Append(text \o line, NewLine)) = WithColon(Append(c, line))
  BY <1>8 DEF Lines, Pieces
<1>14. Parts(Append(text \o line, NewLine), NewLine).rest = <<>>
  BY <1>3, <1>8 DEF Pieces
<1> QED BY <1>9, <1>10, <1>11, <1>12, <1>13, <1>14

(* A key is a word of its own.                                             *)
IsKey(key) ==
  /\ key \in Text /\ key # <<>> /\ Len(key) = 1
  /\ Lacks(key, Colon) /\ Lacks(key, NewLine) /\ Lacks(key, Space)

(* A word that is no delimiter is a key.                                   *)
LEMMA WordIsKey ==
  ASSUME NEW w, <<w>> \in Text, w \notin {Colon, NewLine, Space}
  PROVE  IsKey(<<w>>)
<1>1. PICK key : key = <<w>>
  OBVIOUS
<1>2. key \in Text /\ Len(key) = 1 /\ DOMAIN key = 1..1 /\ key[1] = w /\ key # <<>>
  BY <1>1
<1>3. \A i \in DOMAIN key : key[i] = w
  BY <1>2
<1>4. Lacks(key, Colon) /\ Lacks(key, NewLine) /\ Lacks(key, Space)
  BY <1>3 DEF Lacks
<1>5. IsKey(key)
  BY <1>2, <1>4 DEF IsKey
<1> QED BY <1>1, <1>5

(* The keys of a report are.                                               *)
LEMMA KeysAreKeys ==
  /\ IsKey(UserKey) /\ IsKey(ChannelKey) /\ IsKey(NameKey) /\ IsKey(DescriptionKey)
  /\ IsKey(CityKey) /\ IsKey(DateTimeKey) /\ IsKey(InformationKey)
<1>1. /\ UserKey \in Text /\ ChannelKey \in Text /\ NameKey \in Text /\ DescriptionKey \in Text
      /\ CityKey \in Text /\ DateTimeKey \in Text /\ InformationKey \in Text
  BY EventAssumption
<1>2. IsKey(UserKey)
  <2>1. "user" \notin {Colon, NewLine, Space}
    BY Zenon DEF Colon, NewLine, Space
  <2> QED BY <1>1, <2>1, WordIsKey, Zenon DEF UserKey
<1>3. IsKey(ChannelKey)
  <2>1. "channel name" \notin {Colon, NewLine, Space}
    BY Zenon DEF Colon, NewLine, Space
  <2> QED BY <1>1, <2>1, WordIsKey, Zenon DEF ChannelKey
<1>4. IsKey(NameKey)
  <2>1. "event name" \notin {Colon, NewLine, Space}
    BY Zenon DEF Colon, NewLine, Space
  <2> QED BY <1>1, <2>1, WordIsKey, Zenon DEF NameKey
<1>5. IsKey(DescriptionKey)
  <2>1. "description" \notin {Colon, NewLine, Space}
    BY Zenon DEF Colon, NewLine, Space
  <2> QED BY <1>1, <2>1, WordIsKey, Zenon DEF DescriptionKey
<1>6. IsKey(CityKey)
  <2>1. "city" \notin {Colon, NewLine, Space}
    BY Zenon DEF Colon, NewLine, Space
  <2> QED BY <1>1, <2>1, WordIsKey, Zenon DEF CityKey
<1>7. IsKey(DateTimeKey)
  <2>1. "date time" \notin {Colon, NewLine, Space}
    BY Zenon DEF Colon, NewLine, Space
  <2> QED BY <1>1, <2>1, WordIsKey, Zenon DEF DateTimeKey
<1>8. IsKey(InformationKey)
  <2>1. "general information" \notin {Colon, NewLine, Space}
    BY Zenon DEF Colon, NewLine, Space
  <2> QED BY <1>1, <2>1, WordIsKey, Zenon DEF InformationKey
<1> QED BY <1>2, <1>3, <1>4, <1>5, <1>6, <1>7, <1>8

(* Words of their own differ as keys.                                      *)
LEMMA OtherKey == \A v, w : v # w => <<v>> # <<w>>
<1> SUFFICES ASSUME NEW v, NEW w, v # w, <<v>> = <<w>> PROVE FALSE
  OBVIOUS
<1>1. <<v>>[1] = v /\ <<w>>[1] = w
  OBVIOUS
<1> QED BY <1>1

(* The keys are not each other: user ...                                   *)
LEMMA UserKeyDiffers ==
  /\ UserKey # ChannelKey /\ UserKey # NameKey /\ UserKey # DescriptionKey
  /\ UserKey # CityKey /\ UserKey # DateTimeKey /\ UserKey # InformationKey
BY OtherKey, Zenon DEF UserKey, ChannelKey, NameKey, DescriptionKey, CityKey, DateTimeKey, InformationKey

(* ... channel name ...                                                    *)
LEMMA ChannelKeyDiffers ==
  /\ ChannelKey # NameKey /\ ChannelKey # DescriptionKey
  /\ ChannelKey # CityKey /\ ChannelKey # DateTimeKey /\ ChannelKey # InformationKey
BY OtherKey, Zenon DEF ChannelKey, NameKey, DescriptionKey, CityKey, DateTimeKey, InformationKey

(* ... event name ...                                                      *)
LEMMA NameKeyDiffers ==
  /\ NameKey # DescriptionKey
  /\ NameKey # CityKey /\ NameKey # DateTimeKey /\ NameKey # InformationKey
BY OtherKey, Zenon DEF NameKey, DescriptionKey, CityKey, DateTimeKey, InformationKey

(* ... and the rest.                                                       *)
LEMMA OtherKeysDiffer ==
  /\ DescriptionKey # CityKey /\ DescriptionKey # DateTimeKey /\ DescriptionKey # InformationKey
  /\ CityKey # DateTimeKey /\ CityKey # InformationKey /\ DateTimeKey # InformationKey
BY OtherKey, Zenon DEF DescriptionKey, CityKey, DateTimeKey, InformationKey

(* One token more.                                                         *)
IsAppended(T, s, x, t) ==
  /\ t \in Seq(T) /\ Len(t) = Len(s) + 1
  /\ \A i \in 1..Len(s) : t[i] = s[i]
  /\ t[Len(s) + 1] = x

(* Append adds one token.                                                  *)
LEMMA AppendAt ==
  ASSUME NEW T, NEW s \in Seq(T), NEW x \in T
  PROVE  IsAppended(T, s, x, Append(s, x))
BY AppendProperties DEF IsAppended

(* Two texts of one token are a text of two.                               *)
LEMMA TwoTokens ==
  ASSUME NEW T, NEW a \in T, NEW b \in T
  PROVE  <<a>> \o <<b>> = <<a, b>>
<1>1. PICK s, t, u : s = <<a>> /\ t = <<b>> /\ u = <<a, b>>
  OBVIOUS
<1>2. s \in Seq(T) /\ t \in Seq(T) /\ u \in Seq(T) /\ Len(s) = 1 /\ Len(t) = 1 /\ Len(u) = 2
      /\ s[1] = a /\ t[1] = b /\ u[1] = a /\ u[2] = b
  BY <1>1
<1>3. s \o t \in Seq(T) /\ Len(s \o t) = 2 /\ (s \o t)[1] = a /\ (s \o t)[2] = b
  BY <1>2, ConcatProperties
<1>4. s \o t = u
  BY <1>2, <1>3, SeqEqual
<1> QED BY <1>1, <1>4

(* The heading of the details.                                             *)
Heading == InformationKey \o <<Colon>>

(* The heading has no value and its key is general information.            *)
LEMMA HeadingIs ==
  /\ Heading \in Text /\ Lacks(Heading, NewLine) /\ Contains(Heading, Colon)
  /\ KeyOf(Heading) = InformationKey
  /\ Heading \o <<NewLine>> = InformationKey \o <<Colon, NewLine>>
<1>1. /\ Colon \in Word /\ NewLine \in Word /\ IsKey(InformationKey)
      /\ Colon # NewLine
  BY Delimiters, KeysAreKeys DEF Colon, NewLine
<1>2. PICK key : key = InformationKey
  OBVIOUS
<1>3. /\ key \in Text /\ key \in Seq(Word) /\ Len(key) = 1 /\ Lacks(key, Colon) /\ Lacks(key, NewLine)
  BY <1>1, <1>2 DEF IsKey, Text
<1>4. PICK line : line = key \o <<Colon>>
  OBVIOUS
<1>5. /\ line \in Seq(Word) /\ Len(line) = 2 /\ line[1] = key[1] /\ line[2] = Colon
      /\ line \o <<NewLine>> = key \o <<Colon, NewLine>>
  <2>1. <<Colon>> \in Seq(Word) /\ <<NewLine>> \in Seq(Word)
    BY <1>1
  <2>2. line \in Seq(Word) /\ Len(line) = 2 /\ line[1] = key[1] /\ line[2] = Colon
    <3>1. line = Append(key, Colon)
      BY <1>1, <1>3, <1>4, TextAppend
    <3>2. IsAppended(Word, key, Colon, line)
      BY <1>1, <1>3, <3>1, AppendAt
    <3>3. 1 \in 1..Len(key) /\ Len(key) + 1 = 2
      BY <1>3
    <3>4. line[1] = key[1]
      BY <3>2, <3>3 DEF IsAppended
    <3>5. line[2] = Colon
      BY <3>2, <3>3 DEF IsAppended
    <3>6. line \in Seq(Word) /\ Len(line) = 2
      BY <3>2, <3>3 DEF IsAppended
    <3> QED BY <3>4, <3>5, <3>6
  <2>3. Associative(key, <<Colon>>, <<NewLine>>)
    BY <1>3, <2>1, TextAssociative DEF Text
  <2>4. <<Colon>> \o <<NewLine>> = <<Colon, NewLine>>
    BY <1>1, TwoTokens
  <2>5. line \o <<NewLine>> = key \o <<Colon, NewLine>>
    BY <1>4, <2>3, <2>4 DEF Associative
  <2> QED BY <2>2, <2>5
<1>6. DOMAIN line = 1..2 /\ key[1] # NewLine
  BY <1>3, <1>5 DEF Lacks
<1>7. Lacks(line, NewLine)
  <2>1. ASSUME NEW i \in 1..2 PROVE line[i] # NewLine
    <3>1. i = 1 \/ i = 2
      OBVIOUS
    <3> QED BY <1>1, <1>5, <1>6, <3>1
  <2> QED BY <1>6, <2>1 DEF Lacks
<1>8. Contains(line, Colon)
  <2>1. 2 \in 1..Len(line)
    BY <1>5
  <2> QED BY <1>5, <2>1 DEF Contains
<1>9. KeyOf(line) = key
  <2>1. line \in Text /\ line[Len(key) + 1] = Colon /\ Len(key) < Len(line)
    BY <1>3, <1>5 DEF Text
  <2>2. \A i \in 1..Len(key) : line[i] = key[i]
    BY <1>3, <1>5
  <2> QED BY <1>3, <2>1, <2>2, KeyOfLine
<1>10. line = Heading
  BY <1>2, <1>4 DEF Heading
<1> QED BY <1>2, <1>5, <1>7, <1>8, <1>9, <1>10 DEF Text

(* It adds one line.                                                       *)
LEMMA HeadingLine ==
  ASSUME NEW text \in Text, Parts(text, NewLine).rest = <<>>
  PROVE  /\ text \o (InformationKey \o <<Colon, NewLine>>) \in Text
         /\ Parts(text \o (InformationKey \o <<Colon, NewLine>>), NewLine).rest = <<>>
         /\ Lines(text \o (InformationKey \o <<Colon, NewLine>>)) = Append(Lines(text), Heading)
<1>1. /\ text \o (Heading \o <<NewLine>>) \in Text
      /\ Parts(text \o (Heading \o <<NewLine>>), NewLine).rest = <<>>
      /\ Lines(text \o (Heading \o <<NewLine>>)) = Append(Lines(text), Heading)
  BY HeadingIs, OneLineMore
<1> QED BY <1>1, HeadingIs

(* A line break at the end adds nothing.                                   *)
LEMMA LastLineBreak ==
  ASSUME NEW text \in Text, Parts(text, NewLine).rest = <<>>
  PROVE  /\ text \o <<NewLine>> \in Text
         /\ WithColon(split_str(text \o <<NewLine>>, NewLine)) = Lines(text)
<1>1. NewLine \in Word /\ <<>> \in Text
  BY Delimiters, EmptyText
<1>2. PICK none : none = <<>>
  OBVIOUS
<1>3. PICK c \in Seq(Text) : Parts(text, NewLine) = Pieces(c, none)
  <2>1. PICK c \in Seq(Text), r \in Text : Parts(text, NewLine) = Pieces(c, r)
    BY CutOf
  <2> QED BY <1>2, <2>1 DEF Pieces
<1>4. Parts(Append(text, NewLine), NewLine) = Pieces(Append(c, none), <<>>)
  BY <1>1, <1>3, CutDone
<1>5. split_str(Append(text, NewLine), NewLine) = Append(c, none)
  BY <1>4, SplitClosed
<1>6. ~Contains(none, Colon)
  BY <1>2 DEF Contains
<1>7. WithColon(Append(c, none)) = WithColon(c)
  BY <1>1, <1>2, <1>6, WithColonAppend
<1>8. Append(text, NewLine) = text \o <<NewLine>> /\ Append(text, NewLine) \in Text
  BY <1>1, TextAppend
<1>9. Lines(text) = WithColon(c)
  BY <1>3 DEF Lines, Pieces
<1> QED BY <1>5, <1>7, <1>8, <1>9
-----------------------------------------------------------------------------
(* SetToSeq lists a finite set.                                            *)
IsListing(keys, S) ==
  /\ Cardinality(S) \in Nat
  /\ keys \in [1..Cardinality(S) -> S]
  /\ \A i, j \in 1..Cardinality(S) : keys[i] = keys[j] => i = j
  /\ \A k \in S : \E i \in 1..Cardinality(S) : keys[i] = k

(* Each element once.                                                      *)
LEMMA SetIsListed ==
  ASSUME NEW S, IsFiniteSet(S)
  PROVE  IsListing(SetToSeq(S), S)
<1> DEFINE keys == SetToSeq(S)
           n == Cardinality(S)
<1>1. n \in Nat /\ ExistsBijection(1..n, S)
  BY FS_CardinalityType
<1>2. PICK f \in [1..n -> S] : IsInjective(f)
  BY <1>1 DEF ExistsBijection, Bijection, Injection, IsInjective
<1>3. keys \in [1..n -> S] /\ IsInjective(keys)
  <2> DEFINE P(g) == IsInjective(g)
  <2>1. \E g \in [1..n -> S] : P(g)
    BY <1>2
  <2>2. (CHOOSE g \in [1..n -> S] : P(g)) \in [1..n -> S] /\ P(CHOOSE g \in [1..n -> S] : P(g))
    <3> HIDE DEF P
    <3> QED BY <2>1
  <2> QED BY <2>2 DEF SetToSeq
<1>4. keys \in Injection(1..n, S)
  BY <1>3 DEF Injection, IsInjective
<1>5. IsFiniteSet(1..n) /\ Cardinality(1..n) = n
  <2>1. IF 1 > n THEN n = 0 ELSE n - 1 + 1 = n
    BY <1>1
  <2> QED BY <1>1, <2>1, FS_Interval
<1>6. keys \in Surjection(1..n, S)
  <2> HIDE DEF keys, n
  <2> QED BY <1>4, <1>5, FS_Injection DEF n
<1>7. \A k \in S : \E i \in 1..n : keys[i] = k
  BY <1>6 DEF Surjection
<1>8. \A i, j \in 1..n : keys[i] = keys[j] => i = j
  BY <1>3 DEF IsInjective
<1> QED BY <1>1, <1>3, <1>7, <1>8 DEF IsListing

(* What report writes for a user and an event, field by field.             *)
Writable(e) ==
  /\ e.eventOwnerUser \in Text /\ KeepsToItself(e.eventOwnerUser)
  /\ e.channel_name \in Text /\ KeepsToItself(e.channel_name)
  /\ e.name \in Text /\ KeepsToItself(e.name)
  /\ e.description \in Text /\ KeepsToItself(e.description)
  /\ e.city \in Text /\ KeepsToItself(e.city)
  /\ to_string(e.date_time) \in Text /\ KeepsToItself(to_string(e.date_time))
  /\ IsFiniteSet(DOMAIN e.general_information)
  /\ \A key \in DOMAIN e.general_information :
       /\ key \in Text /\ Lacks(key, NewLine)
       /\ e.general_information[key] \in Text /\ KeepsToItself(e.general_information[key])

Keys(e) == SetToSeq(DOMAIN e.general_information)

KeyNumber(e) == Cardinality(DOMAIN e.general_information)

DetailLine(e, i) == LineOf(<<Space, Space>> \o Keys(e)[i], e.general_information[Keys(e)[i]])

HeadLines(e) ==
  <<LineOf(UserKey, e.eventOwnerUser), LineOf(ChannelKey, e.channel_name),
    LineOf(NameKey, e.name), LineOf(DescriptionKey, e.description), LineOf(CityKey, e.city),
    LineOf(DateTimeKey, to_string(e.date_time)), Heading>>

(* Seven lines, appended one by one.                                       *)
LEMMA SevenLines ==
  ASSUME NEW a, NEW b, NEW c, NEW d, NEW e, NEW f, NEW g
  PROVE  Append(Append(Append(Append(Append(Append(<<a>>, b), c), d), e), f), g)
           = <<a, b, c, d, e, f, g>>
<1> DEFINE T == {a, b, c, d, e, f, g}
<1>1. PICK s1 : s1 = <<a>>
  OBVIOUS
<1>2. PICK s2 : s2 = Append(s1, b)
  OBVIOUS
<1>3. PICK s3 : s3 = Append(s2, c)
  OBVIOUS
<1>4. PICK s4 : s4 = Append(s3, d)
  OBVIOUS
<1>5. PICK s5 : s5 = Append(s4, e)
  OBVIOUS
<1>6. PICK s6 : s6 = Append(s5, f)
  OBVIOUS
<1>7. PICK s7 : s7 = Append(s6, g)
  OBVIOUS
<1>8. s1 \in Seq(T) /\ Len(s1) = 1 /\ s1[1] = a
  BY <1>1
<1>9. s2 \in Seq(T) /\ Len(s2) = 2 /\ s2[1] = a /\ s2[2] = b
  <2>1. IsAppended(T, s1, b, s2)
    BY <1>2, <1>8, AppendAt
  <2> HIDE DEF T
  <2>2. s2 \in Seq(T) /\ Len(s2) = 2 /\ s2[2] = b /\ \A j \in 1..1 : s2[j] = s1[j]
    BY <1>8, <2>1 DEF IsAppended
  <2> QED BY <1>8, <2>2
<1>10. s3 \in Seq(T) /\ Len(s3) = 3 /\ s3[1] = a /\ s3[2] = b /\ s3[3] = c
  <2>1. IsAppended(T, s2, c, s3)
    BY <1>3, <1>9, AppendAt
  <2> HIDE DEF T
  <2>2. s3 \in Seq(T) /\ Len(s3) = 3 /\ s3[3] = c /\ \A j \in 1..2 : s3[j] = s2[j]
    BY <1>9, <2>1 DEF IsAppended
  <2> QED BY <1>9, <2>2
<1>11. s4 \in Seq(T) /\ Len(s4) = 4 /\ s4[1] = a /\ s4[2] = b /\ s4[3] = c /\ s4[4] = d
  <2>1. IsAppended(T, s3, d, s4)
    BY <1>4, <1>10, AppendAt
  <2> HIDE DEF T
  <2>2. s4 \in Seq(T) /\ Len(s4) = 4 /\ s4[4] = d /\ \A j \in 1..3 : s4[j] = s3[j]
    BY <1>10, <2>1 DEF IsAppended
  <2> QED BY <1>10, <2>2
<1>12. s5 \in Seq(T) /\ Len(s5) = 5 /\ s5[1] = a /\ s5[2] = b /\ s5[3] = c /\ s5[4] = d /\ s5[5] = e
  <2>1. IsAppended(T, s4, e, s5)
    BY <1>5, <1>11, AppendAt
  <2> HIDE DEF T
  <2>2. s5 \in Seq(T) /\ Len(s5) = 5 /\ s5[5] = e /\ \A j \in 1..4 : s5[j] = s4[j]
    BY <1>11, <2>1 DEF IsAppended
  <2> QED BY <1>11, <2>2
<1>13. /\ s6 \in Seq(T) /\ Len(s6) = 6
       /\ s6[1] = a /\ s6[2] = b /\ s6[3] = c /\ s6[4] = d /\ s6[5] = e /\ s6[6] = f
  <2>1. IsAppended(T, s5, f, s6)
    BY <1>6, <1>12, AppendAt
  <2> HIDE DEF T
  <2>2. s6 \in Seq(T) /\ Len(s6) = 6 /\ s6[6] = f /\ \A j \in 1..5 : s6[j] = s5[j]
    BY <1>12, <2>1 DEF IsAppended
  <2> QED BY <1>12, <2>2
<1>14. /\ s7 \in Seq(T) /\ Len(s7) = 7
       /\ s7[1] = a /\ s7[2] = b /\ s7[3] = c /\ s7[4] = d /\ s7[5] = e /\ s7[6] = f /\ s7[7] = g
  <2>1. IsAppended(T, s6, g, s7)
    BY <1>7, <1>13, AppendAt
  <2> HIDE DEF T
  <2>2. s7 \in Seq(T) /\ Len(s7) = 7 /\ s7[7] = g /\ \A j \in 1..6 : s7[j] = s6[j]
    BY <1>13, <2>1 DEF IsAppended
  <2> QED BY <1>13, <2>2
<1>15. PICK t : t = <<a, b, c, d, e, f, g>>
  OBVIOUS
<1>16. t \in Seq(T) /\ Len(t) = 7
  BY <1>15
<1>17. t[1] = a /\ t[2] = b /\ t[3] = c /\ t[4] = d /\ t[5] = e /\ t[6] = f /\ t[7] = g
  BY <1>15
<1>18. \A i \in 1..7 : s7[i] = t[i]
  <2> SUFFICES ASSUME NEW i \in 1..7 PROVE s7[i] = t[i]
    OBVIOUS
  <2>1. i = 1 \/ i = 2 \/ i = 3 \/ i = 4 \/ i = 5 \/ i = 6 \/ i = 7
    OBVIOUS
  <2> QED BY <1>14, <1>17, <2>1
<1> HIDE DEF T
<1>19. s7 = t
  BY <1>14, <1>16, <1>18, SeqEqual
<1> QED BY <1>1, <1>2, <1>3, <1>4, <1>5, <1>6, <1>7, <1>15, <1>19

(* The lines with a colon of the body that the report of e becomes.        *)
LEMMA BodyLines ==
  ASSUME NEW e, Writable(e)
  PROVE  WithColon(split_str(BodyOf(e), NewLine))
           = HeadLines(e) \o [i \in 1..KeyNumber(e) |-> DetailLine(e, i)]
<1> DEFINE u == e.eventOwnerUser
           general == e.general_information
           keys == Keys(e)
           n == KeyNumber(e)
           texts == [i \in DOMAIN keys |-> Detail(keys[i], general[keys[i]])]
           names == [i \in 1..n |-> <<Space, Space>> \o keys[i]]
           values == [i \in 1..n |-> general[keys[i]]]
<1>1. IsListing(keys, DOMAIN general)
  BY SetIsListed DEF Writable, Keys
<1>2. n \in Nat /\ DOMAIN keys = 1..n /\ \A i \in 1..n : keys[i] \in DOMAIN general
  BY <1>1 DEF IsListing, KeyNumber
<1> HIDE DEF keys, n
<1>3. ASSUME NEW i \in 1..n
      PROVE  /\ keys[i] \in Text /\ Lacks(keys[i], NewLine)
             /\ general[keys[i]] \in Text /\ KeepsToItself(general[keys[i]])
  BY <1>2 DEF Writable
<1>4. <<Space, Space>> \in Text
  BY Delimiters DEF Text
<1>5. ASSUME NEW key \in Text, Lacks(key, NewLine)
      PROVE  <<Space, Space>> \o key \in Text /\ Lacks(<<Space, Space>> \o key, NewLine)
  <2>1. PICK s : s = <<Space, Space>>
    OBVIOUS
  <2>2. s \in Text /\ Len(s) = 2 /\ s[1] = Space /\ s[2] = Space
    BY <1>4, <2>1
  <2>3. /\ s \o key \in Text /\ Len(s \o key) = 2 + Len(key)
        /\ \A i \in 1..2 : (s \o key)[i] = s[i]
        /\ \A i \in 1..Len(key) : (s \o key)[2 + i] = key[i]
    BY <2>2, ConcatAt DEF Text
  <2>4. ASSUME NEW i \in 1..(2 + Len(key)) PROVE (s \o key)[i] # NewLine
    <3>1. CASE i \in 1..2
      <4>1. i = 1 \/ i = 2
        BY <3>1
      <4>2. Space # NewLine
        BY DEF Space, NewLine
      <4> QED BY <2>2, <2>3, <3>1, <4>1, <4>2
    <3>2. CASE i \notin 1..2
      <4>1. i - 2 \in 1..Len(key) /\ 2 + (i - 2) = i
        BY <3>2 DEF Text
      <4>2. (s \o key)[i] = key[i - 2]
        BY <2>3, <4>1
      <4> QED BY <1>5, <4>1, <4>2 DEF Lacks, Text
    <3> QED BY <3>1, <3>2
  <2>5. DOMAIN (s \o key) = 1..(2 + Len(key))
    BY <2>3 DEF Text
  <2>6. Lacks(s \o key, NewLine)
    BY <2>4, <2>5 DEF Lacks
  <2> QED BY <2>1, <2>3, <2>6
<1>6. AreFields(texts, names, values)
  <2>1. ASSUME NEW i \in 1..n
        PROVE  /\ names[i] \in Text /\ Lacks(names[i], NewLine)
               /\ values[i] \in Text /\ KeepsToItself(values[i])
               /\ texts[i] = Field(names[i], values[i])
               /\ texts[i] \in Text
    <3>1. /\ names[i] = <<Space, Space>> \o keys[i] /\ values[i] = general[keys[i]]
          /\ texts[i] = Field(names[i], values[i])
      BY <1>2 DEF Detail
    <3>2. /\ names[i] \in Text /\ Lacks(names[i], NewLine)
          /\ values[i] \in Text /\ KeepsToItself(values[i])
      BY <1>3, <1>5, <3>1
    <3>3. texts[i] \in Text
      <4> HIDE DEF names, values, texts
      <4>1. <<Colon, Space>> \in Text /\ <<NewLine>> \in Text
        BY Delimiters DEF Text
      <4>2. names[i] \o <<Colon, Space>> \in Text
        BY <3>2, <4>1, ConcatText
      <4>3. names[i] \o <<Colon, Space>> \o values[i] \in Text
        BY <3>2, <4>2, ConcatText
      <4>4. names[i] \o <<Colon, Space>> \o values[i] \o <<NewLine>> \in Text
        BY <4>1, <4>3, ConcatText
      <4> QED BY <3>1, <4>4 DEF Field
    <3> QED BY <3>1, <3>2, <3>3
  <2>2. texts \in Seq(Text) /\ Len(texts) = n
    <3>1. texts \in [1..n -> Text]
      BY <1>2, <2>1
    <3> HIDE DEF texts
    <3> QED BY <1>2, <3>1
  <2>3. names \in Seq(Text) /\ Len(names) = n
    <3>1. names \in [1..n -> Text]
      BY <2>1
    <3> HIDE DEF names
    <3> QED BY <1>2, <3>1
  <2>4. values \in Seq(Text) /\ Len(values) = n
    <3>1. values \in [1..n -> Text]
      BY <2>1
    <3> HIDE DEF values
    <3> QED BY <1>2, <3>1
  <2> HIDE DEF texts, names, values
  <2> QED BY <2>1, <2>2, <2>3, <2>4 DEF AreFields
<1>7. /\ Len(texts) = n
      /\ \A i \in 1..n : LineOf(names[i], values[i]) = DetailLine(e, i)
  <2>1. Len(texts) = n
    BY <1>2
  <2> QED BY <2>1 DEF DetailLine, keys
<1> HIDE DEF texts, names, values
<1> DEFINE F1 == Field(UserKey, u)
           F2 == Field(ChannelKey, e.channel_name)
           F3 == Field(NameKey, e.name)
           F4 == Field(DescriptionKey, e.description)
           F5 == Field(CityKey, e.city)
           F6 == Field(DateTimeKey, to_string(e.date_time))
           I == InformationKey \o <<Colon, NewLine>>
           D == FlattenSeq(texts)
           L1 == LineOf(UserKey, u)
           L2 == LineOf(ChannelKey, e.channel_name)
           L3 == LineOf(NameKey, e.name)
           L4 == LineOf(DescriptionKey, e.description)
           L5 == LineOf(CityKey, e.city)
           L6 == LineOf(DateTimeKey, to_string(e.date_time))
           Holds(t, lines) == t \in Text /\ Parts(t, NewLine).rest = <<>> /\ Lines(t) = lines
<1>8. /\ UserKey \in Text /\ Lacks(UserKey, NewLine) /\ ChannelKey \in Text /\ Lacks(ChannelKey, NewLine)
      /\ NameKey \in Text /\ Lacks(NameKey, NewLine)
      /\ DescriptionKey \in Text /\ Lacks(DescriptionKey, NewLine)
      /\ CityKey \in Text /\ Lacks(CityKey, NewLine)
      /\ DateTimeKey \in Text /\ Lacks(DateTimeKey, NewLine)
  BY KeysAreKeys DEF IsKey
<1>9. Holds(<<>>, <<>>)
  BY PartsEmpty, WithColonEmpty, EmptyText DEF Lines
<1>10. ASSUME NEW t, NEW lines, Holds(t, lines), NEW key \in Text, Lacks(key, NewLine),
              NEW value \in Text, KeepsToItself(value)
       PROVE  Holds(t \o Field(key, value), Append(lines, LineOf(key, value)))
  BY <1>10, FieldLine
<1>11. ASSUME NEW key \in Text, Lacks(key, NewLine), NEW value \in Text, KeepsToItself(value)
       PROVE  Field(key, value) \in Text /\ <<>> \o Field(key, value) = Field(key, value)
  <2>1. <<Colon, Space>> \in Text /\ <<NewLine>> \in Text
    BY Delimiters DEF Text
  <2>2. key \o <<Colon, Space>> \in Text
    BY <2>1, ConcatText
  <2>3. key \o <<Colon, Space>> \o value \in Text
    BY <2>2, ConcatText
  <2>4. Field(key, value) \in Text
    BY <2>1, <2>3, ConcatText DEF Field
  <2> QED BY <2>4, ConcatEmptySeq DEF Text
<1>12. /\ u \in Text /\ KeepsToItself(u) /\ e.channel_name \in Text /\ KeepsToItself(e.channel_name)
       /\ e.name \in Text /\ KeepsToItself(e.name)
       /\ e.description \in Text /\ KeepsToItself(e.description)
       /\ e.city \in Text /\ KeepsToItself(e.city)
       /\ to_string(e.date_time) \in Text /\ KeepsToItself(to_string(e.date_time))
  BY DEF Writable
<1>13. /\ F1 \in Text /\ F2 \in Text /\ F3 \in Text /\ F4 \in Text /\ F5 \in Text /\ F6 \in Text
       /\ <<>> \o F1 = F1
  BY <1>8, <1>11, <1>12
<1> HIDE DEF Holds
<1>14. Holds(F1, <<L1>>)
  <2>1. Holds(<<>> \o F1, Append(<<>>, L1))
    BY <1>8, <1>9, <1>10, <1>12
  <2>2. Append(<<>>, L1) = <<L1>>
    OBVIOUS
  <2> QED BY <1>13, <2>1, <2>2
<1>15. PICK l1 : l1 = <<L1>>
  OBVIOUS
<1>16. PICK l2 : l2 = Append(l1, L2)
  OBVIOUS
<1>17. PICK l3 : l3 = Append(l2, L3)
  OBVIOUS
<1>18. PICK l4 : l4 = Append(l3, L4)
  OBVIOUS
<1>19. PICK l5 : l5 = Append(l4, L5)
  OBVIOUS
<1>20. PICK l6 : l6 = Append(l5, L6)
  OBVIOUS
<1>21. Holds(F1 \o F2, l2)
  BY <1>8, <1>10, <1>12, <1>14, <1>15, <1>16
<1>22. PICK t2 : t2 = F1 \o F2
  OBVIOUS
<1>23. PICK t3 : t3 = t2 \o F3
  OBVIOUS
<1>24. PICK t4 : t4 = t3 \o F4
  OBVIOUS
<1>25. PICK t5 : t5 = t4 \o F5
  OBVIOUS
<1>26. PICK t6 : t6 = t5 \o F6
  OBVIOUS
<1>27. Holds(t3, l3)
  BY <1>8, <1>10, <1>12, <1>17, <1>21, <1>22, <1>23
<1>28. Holds(t4, l4)
  BY <1>8, <1>10, <1>12, <1>18, <1>24, <1>27
<1>29. Holds(t5, l5)
  BY <1>8, <1>10, <1>12, <1>19, <1>25, <1>28
<1>30. Holds(t6, l6)
  BY <1>8, <1>10, <1>12, <1>20, <1>26, <1>29
<1>31. Holds(t6 \o I, Append(l6, Heading))
  BY <1>30, HeadingLine DEF Holds
<1>32. Append(l6, Heading) = HeadLines(e)
  BY <1>15, <1>16, <1>17, <1>18, <1>19, <1>20, SevenLines DEF HeadLines
<1>33. PICK t7 : t7 = t6 \o I
  OBVIOUS
<1>34. /\ t7 \o D \in Text /\ Parts(t7 \o D, NewLine).rest = <<>>
       /\ Lines(t7 \o D) = HeadLines(e) \o [i \in 1..Len(texts) |-> LineOf(names[i], values[i])]
  <2>1. t7 \in Text /\ Parts(t7, NewLine).rest = <<>> /\ Lines(t7) = HeadLines(e)
    BY <1>31, <1>32, <1>33 DEF Holds
  <2>2. FieldsAdded(t7, texts, names, values)
    BY <1>6, <2>1, FieldLines
  <2> QED BY <2>1, <2>2 DEF FieldsAdded
<1>35. [i \in 1..Len(texts) |-> LineOf(names[i], values[i])] = [i \in 1..n |-> DetailLine(e, i)]
  BY <1>7
<1>36. PICK t8 : t8 = t7 \o D
  OBVIOUS
<1>37. WithColon(split_str(t8 \o <<NewLine>>, NewLine))
         = HeadLines(e) \o [i \in 1..n |-> DetailLine(e, i)]
  BY <1>34, <1>35, <1>36, LastLineBreak
<1>38. BodyOf(e) = t8 \o <<NewLine>>
  <2>1. serializedEvent(e) = ((((F3 \o F4) \o F5) \o F6) \o I) \o D
    BY DEF serializedEvent, texts, keys, Keys
  <2>2. BodyOf(e) = (F1 \o F2) \o ((((((F3 \o F4) \o F5) \o F6) \o I) \o D) \o <<NewLine>>)
    BY <2>1 DEF BodyOf, MessageBody
  <2>3. I \in Text /\ D \in Text /\ <<NewLine>> \in Text /\ t2 \in Text
    <3>1. D \in Text
      BY <1>6, FlattenText DEF AreFields
    <3>2. <<Colon, NewLine>> \in Text /\ <<NewLine>> \in Text
      BY Delimiters DEF Text
    <3>3. I \in Text
      BY <3>2, KeysAreKeys, ConcatText DEF IsKey
    <3>4. t2 \in Text
      BY <1>13, <1>22, ConcatText
    <3> QED BY <3>1, <3>2, <3>3, <3>4
  <2> HIDE DEF F1, F2, F3, F4, F5, F6, I, D
  <2>4. TextsRegrouped(t2, F3, F4, F5, F6, I, D, <<NewLine>>)
    BY <1>13, <2>3, TextRegrouped
  <2> QED BY <1>22, <1>23, <1>24, <1>25, <1>26, <1>33, <1>36, <2>2, <2>4 DEF TextsRegrouped
<1> QED BY <1>37, <1>38 DEF n
-----------------------------------------------------------------------------
(* One text after the other, and a part of one.                            *)
IsJoined(T, s, t, r) ==
  /\ r \in Seq(T) /\ Len(r) = Len(s) + Len(t)
  /\ \A i \in 1..Len(s) : r[i] = s[i]
  /\ \A i \in 1..Len(t) : r[Len(s) + i] = t[i]

(* Concatenation joins.                                                    *)
LEMMA JoinAt ==
  ASSUME NEW T, NEW s \in Seq(T), NEW t \in Seq(T)
  PROVE  IsJoined(T, s, t, s \o t)
BY ConcatAt DEF IsJoined

IsPart(T, s, m, n, r) ==
  /\ r \in Seq(T) /\ Len(r) = n - m + 1
  /\ \A i \in 1..(n - m + 1) : r[i] = s[m + i - 1]

(* SubSeq is a part.                                                       *)
LEMMA PartAt ==
  ASSUME NEW T, NEW s \in Seq(T), NEW m \in 1..(Len(s) + 1), NEW n \in (m - 1)..Len(s)
  PROVE  IsPart(T, s, m, n, SubSeq(s, m, n))
<1>1. n - m + 1 \in Nat
  OBVIOUS
<1>2. SubSeq(s, m, n) = [i \in 1..(n - m + 1) |-> s[m + i - 1]]
  OBVIOUS
<1>3. \A i \in 1..(n - m + 1) : m + i - 1 \in 1..Len(s) /\ s[m + i - 1] \in T
  OBVIOUS
<1> QED BY <1>1, <1>2, <1>3 DEF IsPart

(* The constructor finds in a line the key and what Kept says.             *)
LEMMA LineRead ==
  ASSUME NEW key \in Text, Lacks(key, Colon), NEW value \in Text
  PROVE  /\ LineOf(key, value) \in Text
         /\ KeyOf(LineOf(key, value)) = key
         /\ ValueOf(LineOf(key, value)) = Kept(value)
<1> DEFINE first == FirstLine(value)
           line == key \o <<Colon, Space>> \o first
<1>1. first \in Text
  BY FirstLineOf
<1>2. PICK s : s = <<Colon, Space>>
  OBVIOUS
<1>3. s \in Text /\ Len(s) = 2 /\ s[1] = Colon
  BY <1>2, Delimiters DEF Text
<1>4. /\ key \o s \in Text /\ Len(key \o s) = Len(key) + 2
      /\ \A i \in 1..Len(key) : (key \o s)[i] = key[i]
      /\ (key \o s)[Len(key) + 1] = Colon
  <2>1. /\ key \o s \in Seq(Word) /\ Len(key \o s) = Len(key) + Len(s)
        /\ \A i \in 1..Len(key) : (key \o s)[i] = key[i]
        /\ \A i \in 1..Len(s) : (key \o s)[Len(key) + i] = s[i]
    <3>1. IsJoined(Word, key, s, key \o s)
      BY <1>3, JoinAt DEF Text
    <3> QED BY <3>1 DEF IsJoined
  <2>2. 1 \in 1..Len(s)
    BY <1>3
  <2> QED BY <1>3, <2>1, <2>2 DEF Text
<1>5. PICK t : t = key \o s
  OBVIOUS
<1> HIDE DEF first
<1>6. /\ t \o first \in Text /\ Len(t \o first) = Len(t) + Len(first)
      /\ \A i \in 1..Len(t) : (t \o first)[i] = t[i]
  BY <1>1, <1>4, <1>5, ConcatAt DEF Text
<1>7. /\ Len(key) \in Nat /\ Len(first) \in Nat
  BY <1>1 DEF Text
<1>8. PICK w : w = t \o first
  OBVIOUS
<1>9. /\ w \in Text /\ Len(key) < Len(w) /\ w[Len(key) + 1] = Colon
      /\ \A i \in 1..Len(key) : w[i] = key[i]
  <2>1. w \in Text /\ Len(w) = Len(key) + 2 + Len(first)
    BY <1>4, <1>5, <1>6, <1>8
  <2>2. ASSUME NEW i \in 1..(Len(key) + 1) PROVE w[i] = (key \o s)[i]
    <3>1. i \in 1..Len(t)
      BY <1>4, <1>5, <1>7
    <3> QED BY <1>5, <1>6, <1>8, <3>1
  <2>3. w[Len(key) + 1] = Colon
    BY <1>4, <1>7, <2>2
  <2>4. \A i \in 1..Len(key) : w[i] = key[i]
    BY <1>4, <1>7, <2>2
  <2> QED BY <1>7, <2>1, <2>3, <2>4
<1>10. KeyOf(w) = key
  BY <1>9, KeyOfLine
<1>11. w = LineOf(key, value) /\ w = line
  BY <1>2, <1>5, <1>8 DEF LineOf, first
<1>12. ValueOf(line) = KeptOf(first)
  BY <1>1, ValueOfLine
<1>13. KeptOf(first) = Kept(value)
  BY DEF KeptOf, Kept, first
<1> QED BY <1>9, <1>10, <1>11, <1>12, <1>13

(* A plain name is kept as it is.                                          *)
LEMMA PlainNameKept ==
  ASSUME NEW name \in Text, PlainName(name)
  PROVE  Kept(name) = name /\ KeepsToItself(name)
<1>1. FirstLine(name) = name
  <2>1. CASE name = FirstLine(name)
    BY <2>1
  <2>2. ASSUME NEW tail \in Text, name = FirstLine(name) \o <<NewLine>> \o tail PROVE FALSE
    <3>1. FirstLine(name) \in Text /\ NewLine \in Word
      BY FirstLineOf, Delimiters
    <3>2. PICK first : first = FirstLine(name)
      OBVIOUS
    <3>3. PICK open : open = Append(first, NewLine)
      OBVIOUS
    <3>4. IsAppended(Word, first, NewLine, open)
      BY <3>1, <3>2, <3>3, AppendAt DEF Text
    <3>5. open = first \o <<NewLine>> /\ open \in Text
      BY <3>1, <3>2, <3>3, TextAppend
    <3>6. name = open \o tail
      BY <2>2, <3>2, <3>5
    <3>7. Len(first) \in Nat /\ Len(tail) \in Nat /\ Len(open) = Len(first) + 1
      BY <3>1, <3>2, <3>4 DEF IsAppended, Text
    <3>8. Len(name) = Len(open) + Len(tail) /\ \A i \in 1..Len(open) : name[i] = open[i]
      BY <3>5, <3>6, ConcatAt DEF Text
    <3>9. Len(first) + 1 \in 1..Len(open) /\ Len(first) + 1 \in DOMAIN name
      BY <3>7, <3>8 DEF Text
    <3>10. name[Len(first) + 1] = NewLine
      BY <3>4, <3>8, <3>9 DEF IsAppended
    <3> QED BY <3>9, <3>10 DEF PlainName, Lacks
  <2> QED BY <2>1, <2>2, FirstLineOf
<1>2. KeptOf(name) = WithoutSpaces(name)
  BY DEF KeptOf, PlainName, Lacks
<1>3. WithoutSpaces(name) = name
  BY NoSpaceBefore DEF PlainName
<1>4. Kept(name) = KeptOf(FirstLine(name))
  BY DEF Kept, KeptOf
<1>5. KeepsToItself(name)
  BY DEF KeepsToItself, PlainName, Lacks
<1> QED BY <1>1, <1>2, <1>3, <1>4, <1>5

(* Two spaces before the key of a detail.                                  *)
LEMMA DetailKeyOf ==
  ASSUME NEW key \in Text, Lacks(key, Colon)
  PROVE  /\ <<Space, Space>> \o key \in Text
         /\ Lacks(<<Space, Space>> \o key, Colon)
         /\ <<Space, Space>> \o key \notin {<<>>, <<Space>>}
         /\ \A line : KeyOf(line) = <<Space, Space>> \o key => DetailKey(line) = key
         /\ \A other : IsKey(other) => other # <<Space, Space>> \o key
<1>1. PICK s : s = <<Space, Space>>
  OBVIOUS
<1>2. s \in Text /\ Len(s) = 2 /\ s[1] = Space /\ s[2] = Space
  BY <1>1, Delimiters DEF Text
<1>3. PICK t : t = s \o key
  OBVIOUS
<1>4. /\ t \in Text /\ Len(t) = 2 + Len(key)
      /\ \A i \in 1..2 : t[i] = s[i]
      /\ \A i \in 1..Len(key) : t[2 + i] = key[i]
  <2>1. IsJoined(Word, s, key, t)
    BY <1>2, <1>3, JoinAt DEF Text
  <2> QED BY <1>2, <2>1 DEF IsJoined, Text
<1>5. Len(key) \in Nat /\ DOMAIN key = 1..Len(key) /\ DOMAIN t = 1..Len(t) /\ t[1] = Space /\ t[2] = Space
  BY <1>2, <1>4 DEF Text
<1>6. Lacks(t, Colon)
  <2>1. Space # Colon
    BY DEF Space, Colon
  <2>2. ASSUME NEW i \in 1..Len(t) PROVE t[i] # Colon
    <3>1. CASE i \in 1..2
      <4>1. i = 1 \/ i = 2
        BY <3>1
      <4> QED BY <1>5, <2>1, <4>1
    <3>2. CASE i \notin 1..2
      <4>1. i - 2 \in 1..Len(key) /\ 2 + (i - 2) = i
        BY <1>4, <1>5, <3>2
      <4>2. t[i] = key[i - 2]
        BY <1>4, <4>1
      <4> QED BY <1>5, <4>1, <4>2 DEF Lacks
    <3> QED BY <3>1, <3>2
  <2> QED BY <1>5, <2>2 DEF Lacks
<1>7. t \notin {<<>>, <<Space>>}
  <2>1. PICK one : one = <<Space>>
    OBVIOUS
  <2>2. Len(one) = 1
    BY <2>1
  <2>3. Len(<<>>) = 0
    OBVIOUS
  <2> QED BY <1>4, <1>5, <2>1, <2>2, <2>3
<1>8. IsPrefix(s, t)
  <2>1. SubSeq(s, 1, 2) = SubSeq(t, 1, 2)
    <3>1. PICK a, b : a = SubSeq(s, 1, 2) /\ b = SubSeq(t, 1, 2)
      OBVIOUS
    <3>2. IsPart(Word, s, 1, 2, a)
      <4>1. 1 \in 1..(Len(s) + 1) /\ 2 \in (1 - 1)..Len(s) /\ s \in Seq(Word)
        BY <1>2 DEF Text
      <4> QED BY <3>1, <4>1, PartAt
    <3>3. IsPart(Word, t, 1, 2, b)
      <4>1. 1 \in 1..(Len(t) + 1) /\ 2 \in (1 - 1)..Len(t) /\ t \in Seq(Word)
        BY <1>4, <1>5 DEF Text
      <4> QED BY <3>1, <4>1, PartAt
    <3>4. 2 - 1 + 1 = 2 /\ \A i \in 1..2 : 1 + i - 1 = i
      OBVIOUS
    <3>5. a \in Seq(Word) /\ Len(a) = 2 /\ \A i \in 1..2 : a[i] = s[i]
      BY <3>2, <3>4 DEF IsPart
    <3>6. b \in Seq(Word) /\ Len(b) = 2 /\ \A i \in 1..2 : b[i] = t[i]
      BY <3>3, <3>4 DEF IsPart
    <3>7. \A i \in 1..2 : a[i] = b[i]
      BY <1>4, <3>5, <3>6
    <3>8. a = b
      BY <3>5, <3>6, <3>7, SeqEqual
    <3> QED BY <3>1, <3>8
  <2> QED BY <1>2, <1>4, <1>5, <2>1 DEF IsPrefix
<1>9. SubSeq(t, 3, Len(t)) = key
  <2>1. PICK a : a = SubSeq(t, 3, Len(t))
    OBVIOUS
  <2>2. a \in Seq(Word) /\ Len(a) = Len(key) /\ \A i \in 1..Len(key) : a[i] = t[2 + i]
    BY <1>4, <1>5, <2>1 DEF Text
  <2>3. key \in Seq(Word)
    BY DEF Text
  <2>4. a = key
    BY <1>4, <2>2, <2>3, SeqEqual
  <2> QED BY <2>1, <2>4
<1>10. ASSUME NEW line, KeyOf(line) = t PROVE DetailKey(line) = key
  BY <1>1, <1>8, <1>9, <1>10 DEF DetailKey
<1>11. ASSUME NEW other, IsKey(other), other = t PROVE FALSE
  <2>1. Len(t) = 1
    BY <1>11 DEF IsKey
  <2>2. Len(t) = 2 + Len(key) /\ Len(key) \in Nat
    BY <1>4, <1>5
  <2>3. 1 = 2 + Len(key)
    BY <2>1, <2>2
  <2> QED BY <2>2, <2>3
<1> QED BY <1>1, <1>3, <1>4, <1>6, <1>7, <1>10, <1>11
-----------------------------------------------------------------------------
(* What the constructor finds in the lines of a body.                      *)
LinesRead(lines, e) ==
  /\ lines \in Seq(Text) /\ Len(lines) = 7 + KeyNumber(e)
  /\ KeyOf(lines[1]) = UserKey /\ ValueOf(lines[1]) = Kept(e.eventOwnerUser)
  /\ KeyOf(lines[2]) = ChannelKey /\ ValueOf(lines[2]) = Kept(e.channel_name)
  /\ KeyOf(lines[3]) = NameKey /\ ValueOf(lines[3]) = Kept(e.name)
  /\ KeyOf(lines[4]) = DescriptionKey /\ ValueOf(lines[4]) = Kept(e.description)
  /\ KeyOf(lines[5]) = CityKey /\ ValueOf(lines[5]) = Kept(e.city)
  /\ KeyOf(lines[6]) = DateTimeKey /\ ValueOf(lines[6]) = Kept(to_string(e.date_time))
  /\ KeyOf(lines[7]) = InformationKey
  /\ \A i \in 1..KeyNumber(e) :
       /\ KeyOf(lines[7 + i]) \notin {<<>>, <<Space>>}
       /\ \A other : IsKey(other) => other # KeyOf(lines[7 + i])
       /\ DetailKey(lines[7 + i]) = Keys(e)[i]
       /\ ValueOf(lines[7 + i]) = Kept(e.general_information[Keys(e)[i]])

(* Each line of the body has the key and the value that its place says.    *)
LEMMA BodyRead ==
  ASSUME NEW e, Writable(e), \A key \in DOMAIN e.general_information : Lacks(key, Colon)
  PROVE  LinesRead(WithColon(split_str(BodyOf(e), NewLine)), e)
<1> DEFINE general == e.general_information
           keys == Keys(e)
           n == KeyNumber(e)
           details == [i \in 1..n |-> DetailLine(e, i)]
<1>1. PICK head : head = HeadLines(e)
  OBVIOUS
<1>2. PICK lines : lines = head \o details
  OBVIOUS
<1>3. WithColon(split_str(BodyOf(e), NewLine)) = lines
  BY <1>1, <1>2, BodyLines
<1>4. n \in Nat /\ \A i \in 1..n : keys[i] \in DOMAIN general
  BY SetIsListed DEF IsListing, Writable, Keys, KeyNumber
<1>5. ASSUME NEW key, IsKey(key), NEW value \in Text
      PROVE  /\ LineOf(key, value) \in Text /\ KeyOf(LineOf(key, value)) = key
             /\ ValueOf(LineOf(key, value)) = Kept(value)
  BY <1>5, LineRead DEF IsKey
<1>6. head \in Seq(Text) /\ Len(head) = 7
  <2>1. /\ LineOf(UserKey, e.eventOwnerUser) \in Text /\ LineOf(ChannelKey, e.channel_name) \in Text
        /\ LineOf(NameKey, e.name) \in Text /\ LineOf(DescriptionKey, e.description) \in Text
        /\ LineOf(CityKey, e.city) \in Text /\ LineOf(DateTimeKey, to_string(e.date_time)) \in Text
        /\ Heading \in Text
    BY <1>5, KeysAreKeys, HeadingIs DEF Writable
  <2>2. \A a, b, c, d, f, g, h \in Text : <<a, b, c, d, f, g, h>> \in Seq(Text)
    OBVIOUS
  <2>3. \A a, b, c, d, f, g, h \in Text : Len(<<a, b, c, d, f, g, h>>) = 7
    OBVIOUS
  <2> QED BY <1>1, <2>1, <2>2, <2>3 DEF HeadLines
<1>7. /\ head[1] = LineOf(UserKey, e.eventOwnerUser) /\ head[2] = LineOf(ChannelKey, e.channel_name)
      /\ head[3] = LineOf(NameKey, e.name) /\ head[4] = LineOf(DescriptionKey, e.description)
      /\ head[5] = LineOf(CityKey, e.city) /\ head[6] = LineOf(DateTimeKey, to_string(e.date_time))
      /\ head[7] = Heading
  BY <1>1 DEF HeadLines
<1>8. ASSUME NEW i \in 1..n
      PROVE  /\ DetailLine(e, i) \in Text
             /\ KeyOf(DetailLine(e, i)) = <<Space, Space>> \o keys[i]
             /\ ValueOf(DetailLine(e, i)) = Kept(general[keys[i]])
  <2>1. keys[i] \in Text /\ Lacks(keys[i], Colon) /\ general[keys[i]] \in Text
    BY <1>4 DEF Writable
  <2>2. <<Space, Space>> \o keys[i] \in Text /\ Lacks(<<Space, Space>> \o keys[i], Colon)
    BY <2>1, DetailKeyOf
  <2>3. PICK key : key = <<Space, Space>> \o keys[i]
    OBVIOUS
  <2>4. /\ LineOf(key, general[keys[i]]) \in Text /\ KeyOf(LineOf(key, general[keys[i]])) = key
        /\ ValueOf(LineOf(key, general[keys[i]])) = Kept(general[keys[i]])
    BY <2>1, <2>2, <2>3, LineRead
  <2> QED BY <2>3, <2>4 DEF DetailLine
<1>9. details \in Seq(Text) /\ Len(details) = n /\ \A i \in 1..n : details[i] = DetailLine(e, i)
  <2>1. details \in [1..n -> Text] /\ \A i \in 1..n : details[i] = DetailLine(e, i)
    BY <1>8
  <2> HIDE DEF details
  <2> QED BY <1>4, <2>1
<1> HIDE DEF details
<1>10. IsJoined(Text, head, details, lines)
  BY <1>2, <1>6, <1>9, JoinAt
<1>11. lines \in Seq(Text) /\ Len(lines) = 7 + n
  BY <1>6, <1>9, <1>10 DEF IsJoined
<1>12. /\ \A i \in 1..7 : lines[i] = head[i]
       /\ \A i \in 1..n : lines[7 + i] = DetailLine(e, i)
  <2>1. \A i \in 1..Len(head) : lines[i] = head[i]
    BY <1>10 DEF IsJoined
  <2>2. \A i \in 1..Len(details) : lines[Len(head) + i] = details[i]
    BY <1>10 DEF IsJoined
  <2> QED BY <1>6, <1>9, <2>1, <2>2
<1>13. 1 \in 1..7 /\ 2 \in 1..7 /\ 3 \in 1..7 /\ 4 \in 1..7 /\ 5 \in 1..7 /\ 6 \in 1..7 /\ 7 \in 1..7
  OBVIOUS
<1>14. /\ KeyOf(lines[1]) = UserKey /\ ValueOf(lines[1]) = Kept(e.eventOwnerUser)
       /\ KeyOf(lines[2]) = ChannelKey /\ ValueOf(lines[2]) = Kept(e.channel_name)
  BY <1>5, <1>7, <1>12, <1>13, KeysAreKeys DEF Writable
<1>15. /\ KeyOf(lines[3]) = NameKey /\ ValueOf(lines[3]) = Kept(e.name)
       /\ KeyOf(lines[4]) = DescriptionKey /\ ValueOf(lines[4]) = Kept(e.description)
  BY <1>5, <1>7, <1>12, <1>13, KeysAreKeys DEF Writable
<1>16. /\ KeyOf(lines[5]) = CityKey /\ ValueOf(lines[5]) = Kept(e.city)
       /\ KeyOf(lines[6]) = DateTimeKey /\ ValueOf(lines[6]) = Kept(to_string(e.date_time))
  BY <1>5, <1>7, <1>12, <1>13, KeysAreKeys DEF Writable
<1>17. KeyOf(lines[7]) = InformationKey
  BY <1>7, <1>12, <1>13, HeadingIs
<1>18. ASSUME NEW i \in 1..n
       PROVE  /\ KeyOf(lines[7 + i]) \notin {<<>>, <<Space>>}
              /\ \A other : IsKey(other) => other # KeyOf(lines[7 + i])
              /\ DetailKey(lines[7 + i]) = keys[i]
              /\ ValueOf(lines[7 + i]) = Kept(general[keys[i]])
  <2>1. /\ KeyOf(lines[7 + i]) = <<Space, Space>> \o keys[i]
        /\ ValueOf(lines[7 + i]) = Kept(general[keys[i]])
    BY <1>8, <1>12
  <2>2. keys[i] \in Text /\ Lacks(keys[i], Colon)
    BY <1>4 DEF Writable
  <2>3. /\ <<Space, Space>> \o keys[i] \notin {<<>>, <<Space>>}
        /\ \A line : KeyOf(line) = <<Space, Space>> \o keys[i] => DetailKey(line) = keys[i]
        /\ \A other : IsKey(other) => other # <<Space, Space>> \o keys[i]
    BY <2>2, DetailKeyOf
  <2>4. DetailKey(lines[7 + i]) = keys[i]
    BY <2>1, <2>3
  <2>5. KeyOf(lines[7 + i]) \notin {<<>>, <<Space>>}
    BY <2>1, <2>3
  <2>6. \A other : IsKey(other) => other # KeyOf(lines[7 + i])
    BY <2>1, <2>3
  <2> QED BY <2>1, <2>4, <2>5, <2>6
<1> QED BY <1>3, <1>11, <1>14, <1>15, <1>16, <1>17, <1>18 DEF LinesRead
-----------------------------------------------------------------------------
(* Each key is on one line.                                                *)
LEMMA KeyIsOnce ==
  ASSUME NEW e, KeyNumber(e) \in Nat, NEW lines, LinesRead(lines, e)
  PROVE  /\ With(lines, UserKey) = {1} /\ With(lines, ChannelKey) = {2}
         /\ With(lines, NameKey) = {3} /\ With(lines, DescriptionKey) = {4}
         /\ With(lines, CityKey) = {5} /\ With(lines, DateTimeKey) = {6}
         /\ With(lines, InformationKey) = {7}
         /\ DOMAIN lines = 1..(7 + KeyNumber(e))
<1> DEFINE n == KeyNumber(e)
<1>1. DOMAIN lines = 1..(7 + n)
  BY DEF LinesRead
<1>2. /\ KeyOf(lines[1]) = UserKey /\ KeyOf(lines[2]) = ChannelKey /\ KeyOf(lines[3]) = NameKey
      /\ KeyOf(lines[4]) = DescriptionKey /\ KeyOf(lines[5]) = CityKey
      /\ KeyOf(lines[6]) = DateTimeKey /\ KeyOf(lines[7]) = InformationKey
  BY DEF LinesRead
<1>3. ASSUME NEW i \in 1..(7 + n), i > 7, NEW other, IsKey(other) PROVE KeyOf(lines[i]) # other
  <2>1. i - 7 \in 1..n /\ 7 + (i - 7) = i
    BY <1>3
  <2> QED BY <1>3, <2>1 DEF LinesRead
<1>4. ASSUME NEW k \in 1..7, NEW other, IsKey(other), KeyOf(lines[k]) = other,
             \A i \in 1..7 : i # k => KeyOf(lines[i]) # other
      PROVE  With(lines, other) = {k}
  <2>1. ASSUME NEW i \in 1..(7 + n), KeyOf(lines[i]) = other PROVE i = k
    <3>1. i \in 1..7
      BY <1>3, <1>4, <2>1
    <3> QED BY <1>4, <2>1, <3>1
  <2>2. k \in 1..(7 + n)
    OBVIOUS
  <2> QED BY <1>1, <1>4, <2>1, <2>2 DEF With
<1>5. \A i \in 1..7 : i = 1 \/ i = 2 \/ i = 3 \/ i = 4 \/ i = 5 \/ i = 6 \/ i = 7
  OBVIOUS
<1>6. With(lines, UserKey) = {1}
  <2>1. \A i \in 1..7 : i # 1 => KeyOf(lines[i]) # UserKey
    BY <1>2, <1>5, UserKeyDiffers
  <2> QED BY <1>2, <1>4, <2>1, KeysAreKeys
<1>7. With(lines, ChannelKey) = {2}
  <2>1. \A i \in 1..7 : i # 2 => KeyOf(lines[i]) # ChannelKey
    BY <1>2, <1>5, UserKeyDiffers, ChannelKeyDiffers
  <2> QED BY <1>2, <1>4, <2>1, KeysAreKeys
<1>8. With(lines, NameKey) = {3}
  <2>1. \A i \in 1..7 : i # 3 => KeyOf(lines[i]) # NameKey
    BY <1>2, <1>5, UserKeyDiffers, ChannelKeyDiffers, NameKeyDiffers
  <2> QED BY <1>2, <1>4, <2>1, KeysAreKeys
<1>9. With(lines, DescriptionKey) = {4}
  <2>1. \A i \in 1..7 : i # 4 => KeyOf(lines[i]) # DescriptionKey
    BY <1>2, <1>5, UserKeyDiffers, ChannelKeyDiffers, NameKeyDiffers, OtherKeysDiffer
  <2> QED BY <1>2, <1>4, <2>1, KeysAreKeys
<1>10. With(lines, CityKey) = {5}
  <2>1. \A i \in 1..7 : i # 5 => KeyOf(lines[i]) # CityKey
    BY <1>2, <1>5, UserKeyDiffers, ChannelKeyDiffers, NameKeyDiffers, OtherKeysDiffer
  <2> QED BY <1>2, <1>4, <2>1, KeysAreKeys
<1>11. With(lines, DateTimeKey) = {6}
  <2>1. \A i \in 1..7 : i # 6 => KeyOf(lines[i]) # DateTimeKey
    BY <1>2, <1>5, UserKeyDiffers, ChannelKeyDiffers, NameKeyDiffers, OtherKeysDiffer
  <2> QED BY <1>2, <1>4, <2>1, KeysAreKeys
<1>12. With(lines, InformationKey) = {7}
  <2>1. \A i \in 1..7 : i # 7 => KeyOf(lines[i]) # InformationKey
    BY <1>2, <1>5, UserKeyDiffers, ChannelKeyDiffers, NameKeyDiffers, OtherKeysDiffer
  <2> QED BY <1>2, <1>4, <2>1, KeysAreKeys
<1> QED BY <1>1, <1>6, <1>7, <1>8, <1>9, <1>10, <1>11, <1>12

(* The last of one line is that line.                                      *)
LEMMA OnlyValue ==
  ASSUME NEW lines, NEW k \in Nat
  PROVE  LastValue(lines, {k}) = ValueOf(lines[k])
<1>1. Max({k}) = k
  BY MaxIs
<1> QED BY <1>1 DEF LastValue

(* The details.                                                            *)
LEMMA DetailsRead ==
  ASSUME NEW e, IsListing(Keys(e), DOMAIN e.general_information),
         NEW lines, LinesRead(lines, e)
  PROVE  /\ {DetailKey(lines[i]) : i \in Details(lines)} = DOMAIN e.general_information
         /\ \A key \in DOMAIN e.general_information :
              LastValue(lines, {i \in Details(lines) : DetailKey(lines[i]) = key})
                = Kept(e.general_information[key])
         /\ \A i \in Details(lines) : KeyOf(lines[i]) \notin {<<>>, <<Space>>}
<1> DEFINE n == KeyNumber(e)
           general == e.general_information
           keys == Keys(e)
<1>1. n \in Nat
  BY DEF IsListing, KeyNumber
<1>2. With(lines, InformationKey) = {7} /\ DOMAIN lines = 1..(7 + n)
  BY <1>1, KeyIsOnce
<1>3. Details(lines) = 8..(7 + n)
  <2>1. Details(lines) = {i \in 1..(7 + n) \ {7} : \E j \in {7} : j < i}
    BY <1>2 DEF Details
  <2>2. \A i : i \in 8..(7 + n) <=> i \in 1..(7 + n) \ {7} /\ 7 < i
    BY <1>1
  <2> QED BY <2>1, <2>2
<1>4. /\ \A i \in 1..n : keys[i] \in DOMAIN general
      /\ \A i, j \in 1..n : keys[i] = keys[j] => i = j
      /\ \A k \in DOMAIN general : \E i \in 1..n : keys[i] = k
  BY DEF IsListing, KeyNumber
<1>5. \A i \in 8..(7 + n) : i - 7 \in 1..n /\ 7 + (i - 7) = i
  BY <1>1
<1>6. \A i \in 1..n : 7 + i \in 8..(7 + n)
  BY <1>1
<1>7. ASSUME NEW i \in 1..n
      PROVE  /\ KeyOf(lines[7 + i]) \notin {<<>>, <<Space>>}
             /\ DetailKey(lines[7 + i]) = keys[i]
             /\ ValueOf(lines[7 + i]) = Kept(general[keys[i]])
  BY DEF LinesRead
<1> HIDE DEF keys, n, general
<1>8. {DetailKey(lines[i]) : i \in Details(lines)} = DOMAIN general
  <2>1. ASSUME NEW i \in Details(lines) PROVE DetailKey(lines[i]) \in DOMAIN general
    BY <1>3, <1>4, <1>5, <1>7
  <2>2. ASSUME NEW k \in DOMAIN general PROVE \E i \in Details(lines) : DetailKey(lines[i]) = k
    <3>1. PICK i \in 1..n : keys[i] = k
      BY <1>4
    <3> QED BY <1>3, <1>6, <1>7, <3>1
  <2> QED BY <2>1, <2>2
<1>9. ASSUME NEW key \in DOMAIN general
      PROVE  LastValue(lines, {i \in Details(lines) : DetailKey(lines[i]) = key}) = Kept(general[key])
  <2>1. PICK j \in 1..n : keys[j] = key
    BY <1>4
  <2>2. {i \in Details(lines) : DetailKey(lines[i]) = key} = {7 + j}
    <3>1. ASSUME NEW i \in Details(lines), DetailKey(lines[i]) = key PROVE i = 7 + j
      <4>1. i - 7 \in 1..n /\ 7 + (i - 7) = i
        BY <1>3, <1>5
      <4>2. keys[i - 7] = key
        BY <1>7, <3>1, <4>1
      <4>3. i - 7 = j
        BY <1>4, <2>1, <4>1, <4>2
      <4> QED BY <4>1, <4>3
    <3>2. 7 + j \in Details(lines) /\ DetailKey(lines[7 + j]) = key
      BY <1>3, <1>6, <1>7, <2>1
    <3> QED BY <3>1, <3>2
  <2>3. 7 + j \in Nat
    BY <1>1
  <2>4. LastValue(lines, {7 + j}) = ValueOf(lines[7 + j])
    BY <2>3, OnlyValue
  <2> QED BY <1>7, <2>1, <2>2, <2>4
<1>10. ASSUME NEW i \in Details(lines) PROVE KeyOf(lines[i]) \notin {<<>>, <<Space>>}
  <2>1. i - 7 \in 1..n /\ 7 + (i - 7) = i
    BY <1>3, <1>5
  <2> QED BY <1>7, <2>1
<1> QED BY <1>8, <1>9, <1>10 DEF general

(* What stoi makes of a number that was written.                           *)
LEMMA NumberRead ==
  ASSUME AreWords(DateTime), NEW n \in DateTime
  PROVE  /\ to_string(n) \in Text /\ PlainName(to_string(n))
         /\ IsNumber(to_string(n)) /\ stoi(to_string(n)) = n
<1>1. PICK text : text = to_string(n)
  OBVIOUS
<1>2. ToString(n) \in Word \ {Colon, Space, NewLine}
  BY DEF AreWords
<1>3. PICK w : w = ToString(n)
  OBVIOUS
<1>4. /\ text \in Text /\ Len(text) = 1 /\ DOMAIN text = 1..1 /\ text[1] = w
  BY <1>1, <1>2, <1>3 DEF to_string, Text
<1>5. \A i \in DOMAIN text : text[i] = w
  BY <1>4
<1>6. w # Colon /\ w # Space /\ w # NewLine
  BY <1>2, <1>3
<1>7. PlainName(text)
  BY <1>4, <1>5, <1>6 DEF PlainName, Lacks
<1>8. IsNumber(text)
  BY <1>1 DEF IsNumber
<1>9. ASSUME NEW m \in DateTime, text = to_string(m) PROVE m = n
  <2>1. <<ToString(m)>> = <<ToString(n)>>
    BY <1>1, <1>9 DEF to_string
  <2>2. ToString(m) = ToString(n)
    BY <2>1, OtherKey
  <2> QED BY <2>2 DEF AreWords
<1>10. stoi(text) = n
  <2>1. \E m \in DateTime : text = to_string(m)
    BY <1>1
  <2>2. (CHOOSE m \in DateTime : text = to_string(m)) = n
    BY <1>9, <2>1
  <2> QED BY <2>2 DEF stoi
<1> QED BY <1>1, <1>4, <1>7, <1>8, <1>10

(* An event whose values keep to themselves arrives as AsReceived says: no *)
(* value is taken for another field, none is lost but what Kept drops, and *)
(* the receiver does not stop at it.                                       *)
THEOREM PlainEventArrives ==
  ASSUME AreWords(DateTime), NEW e, IsEvent(e), PlainEvent(e)
  PROVE  ~Throws(BodyOf(e)) /\ EventOf(BodyOf(e)) = AsReceived(e)
<1> DEFINE body == BodyOf(e)
           lines == WithColon(split_str(body, NewLine))
           general == e.general_information
<1>1. to_string(e.date_time) \in Text /\ PlainName(to_string(e.date_time))
      /\ IsNumber(to_string(e.date_time)) /\ stoi(to_string(e.date_time)) = e.date_time
  BY NumberRead DEF IsEvent
<1>2. Kept(to_string(e.date_time)) = to_string(e.date_time) /\ KeepsToItself(to_string(e.date_time))
  BY <1>1, PlainNameKept
<1>3. Kept(e.eventOwnerUser) = e.eventOwnerUser /\ KeepsToItself(e.eventOwnerUser)
  BY PlainNameKept DEF IsEvent, PlainEvent
<1>4. KeepsToItself(e.channel_name)
  BY DEF PlainEvent, KeepsToItself, Lacks
<1>5. Writable(e)
  BY <1>1, <1>2, <1>3, <1>4 DEF Writable, IsEvent, PlainEvent
<1>6. LinesRead(lines, e)
  BY <1>5, BodyRead DEF PlainEvent
<1>7. IsListing(Keys(e), DOMAIN e.general_information)
  BY <1>5, SetIsListed DEF Keys, Writable
<1>8. KeyNumber(e) \in Nat
  BY <1>7 DEF IsListing, KeyNumber
<1>9. PICK L : L = lines
  OBVIOUS
<1>10. LinesRead(L, e)
  BY <1>6, <1>9
<1>11. /\ With(L, UserKey) = {1} /\ With(L, ChannelKey) = {2}
       /\ With(L, NameKey) = {3} /\ With(L, DescriptionKey) = {4}
       /\ With(L, CityKey) = {5} /\ With(L, DateTimeKey) = {6}
  BY <1>8, <1>10, KeyIsOnce
<1>12. /\ {DetailKey(L[i]) : i \in Details(L)} = DOMAIN general
       /\ \A key \in DOMAIN general :
            LastValue(L, {i \in Details(L) : DetailKey(L[i]) = key}) = Kept(general[key])
       /\ \A i \in Details(L) : KeyOf(L[i]) \notin {<<>>, <<Space>>}
  BY <1>7, <1>10, DetailsRead
<1>13. /\ LastValue(L, With(L, UserKey)) = e.eventOwnerUser
       /\ LastValue(L, With(L, ChannelKey)) = Kept(e.channel_name)
       /\ LastValue(L, With(L, NameKey)) = Kept(e.name)
       /\ LastValue(L, With(L, DescriptionKey)) = Kept(e.description)
       /\ LastValue(L, With(L, CityKey)) = Kept(e.city)
       /\ LastValue(L, With(L, DateTimeKey)) = to_string(e.date_time)
  <2>1. /\ ValueOf(L[1]) = e.eventOwnerUser /\ ValueOf(L[2]) = Kept(e.channel_name)
        /\ ValueOf(L[3]) = Kept(e.name) /\ ValueOf(L[4]) = Kept(e.description)
        /\ ValueOf(L[5]) = Kept(e.city) /\ ValueOf(L[6]) = to_string(e.date_time)
    BY <1>2, <1>3, <1>10 DEF LinesRead
  <2>2. \A k \in Nat : LastValue(L, {k}) = ValueOf(L[k])
    BY OnlyValue
  <2>3. /\ LastValue(L, {1}) = ValueOf(L[1]) /\ LastValue(L, {2}) = ValueOf(L[2])
        /\ LastValue(L, {3}) = ValueOf(L[3]) /\ LastValue(L, {4}) = ValueOf(L[4])
        /\ LastValue(L, {5}) = ValueOf(L[5]) /\ LastValue(L, {6}) = ValueOf(L[6])
    BY <2>2
  <2> QED BY <1>11, <2>1, <2>3
<1>14. ~Throws(body)
  <2>1. \A i \in With(L, DateTimeKey) : IsNumber(ValueOf(L[i]))
    BY <1>1, <1>2, <1>10, <1>11 DEF LinesRead
  <2> HIDE DEF body
  <2> QED BY <1>9, <1>12, <2>1 DEF Throws
<1>15. [key \in {DetailKey(L[i]) : i \in Details(L)} |->
            LastValue(L, {i \in Details(L) : DetailKey(L[i]) = key})]
         = [key \in DOMAIN general |-> Kept(general[key])]
  BY <1>12
<1>16. With(L, DateTimeKey) # {}
  BY <1>11
<1>17. EventOf(body) =
         [eventOwnerUser |-> LastValue(L, With(L, UserKey)),
          channel_name |-> LastValue(L, With(L, ChannelKey)),
          city |-> LastValue(L, With(L, CityKey)),
          name |-> LastValue(L, With(L, NameKey)),
          date_time |-> IF With(L, DateTimeKey) = {} THEN 0
                        ELSE stoi(LastValue(L, With(L, DateTimeKey))),
          description |-> LastValue(L, With(L, DescriptionKey)),
          general_information |->
            [key \in {DetailKey(L[i]) : i \in Details(L)} |->
              LastValue(L, {i \in Details(L) : DetailKey(L[i]) = key})]]
  <2> HIDE DEF body
  <2> QED BY <1>9, Zenon DEF EventOf
<1>18. stoi(LastValue(L, With(L, DateTimeKey))) = e.date_time
  BY <1>1, <1>13
<1>19. EventOf(body) = AsReceived(e)
  <2> HIDE DEF body
  <2>1. EventOf(body) =
         [eventOwnerUser |-> e.eventOwnerUser, channel_name |-> Kept(e.channel_name),
          city |-> Kept(e.city), name |-> Kept(e.name), date_time |-> e.date_time,
          description |-> Kept(e.description),
          general_information |-> [key \in DOMAIN general |-> Kept(general[key])]]
    BY <1>13, <1>15, <1>16, <1>17, <1>18
  <2> QED BY <2>1 DEF AsReceived
<1> QED BY <1>14, <1>19
-----------------------------------------------------------------------------
(* Headers without a blank line are followed by the first one.             *)
LEMMA FirstBlankLine ==
  ASSUME NEW Token, NewLine \in Token,
         NEW header \in Seq(Token), NEW body \in Seq(Token), header # <<>>,
         BlankLines(header) = {}, header[Len(header)] # NewLine
  PROVE  /\ BlankLines(header \o <<NewLine, NewLine>> \o body) # {}
         /\ Min(BlankLines(header \o <<NewLine, NewLine>> \o body)) = Len(header) + 1
<1> DEFINE text == header \o <<NewLine, NewLine>> \o body
<1>1. /\ Len(header) \in Nat /\ Len(body) \in Nat
      /\ Len(text) = Len(header) + 2 + Len(body)
      /\ \A i \in 1..Len(header) : text[i] = header[i]
      /\ text[Len(header) + 1] = NewLine
      /\ text[Len(header) + 2] = NewLine
  <2>1. <<NewLine, NewLine>> \in Seq(Token)
    OBVIOUS
  <2> QED BY <2>1
<1>2. Len(header) + 1 \in BlankLines(text)
  BY <1>1 DEF BlankLines
<1>3. \A i \in BlankLines(text) : Len(header) + 1 <= i
  <2> SUFFICES ASSUME NEW i \in BlankLines(text), i <= Len(header) PROVE FALSE
    BY <1>1 DEF BlankLines
  <2>1. i \in 1..Len(header) /\ header[i] = NewLine /\ text[i + 1] = NewLine
    BY <1>1 DEF BlankLines
  <2>2. i + 1 \in 1..Len(header) /\ header[i + 1] = NewLine
    BY <1>1, <2>1
  <2>3. i \in BlankLines(header)
    BY <1>1, <2>1, <2>2 DEF BlankLines
  <2> QED BY <2>3
<1>4. BlankLines(text) \in SUBSET Nat
  BY <1>1 DEF BlankLines
<1> QED BY <1>2, <1>3, <1>4, MinIs

(* A frame is cut between its headers and its body, for any body.          *)
THEOREM FrameIsCut ==
  ASSUME NEW Token, NewLine \in Token,
         NEW header \in Seq(Token), NEW body \in Seq(Token), header # <<>>,
         BlankLines(header) = {}, header[Len(header)] # NewLine
  PROVE  /\ HeaderPart(header \o <<NewLine, NewLine>> \o body) = header
         /\ BodyPart(header \o <<NewLine, NewLine>> \o body) = body
<1> DEFINE text == header \o <<NewLine, NewLine>> \o body
<1>1. BlankLines(text) # {} /\ Min(BlankLines(text)) = Len(header) + 1
  BY FirstBlankLine
<1>2. /\ text \in Seq(Token)
      /\ Len(header) \in Nat /\ Len(body) \in Nat
      /\ Len(text) = Len(header) + 2 + Len(body)
      /\ \A i \in 1..Len(header) : text[i] = header[i]
      /\ \A i \in 1..Len(body) : text[Len(header) + 2 + i] = body[i]
  <2>1. <<NewLine, NewLine>> \in Seq(Token)
    OBVIOUS
  <2> QED BY <2>1
<1> HIDE DEF text
<1>3. SubSeq(text, 1, Len(header)) = header
  BY <1>2
<1>4. SubSeq(text, Len(header) + 3, Len(text)) = body
  BY <1>2
<1>5. HeaderPart(text) = header /\ BodyPart(text) = body
  BY <1>1, <1>2, <1>3, <1>4 DEF HeaderPart, BodyPart
<1> QED BY <1>5 DEF text

(* A sequence of two.                                                      *)
LEMMA AppendTwo ==
  ASSUME NEW a, NEW b
  PROVE  Append(<<a>>, b) = <<a, b>>
<1> DEFINE T == {a, b}
<1>1. PICK s : s = <<a>>
  OBVIOUS
<1>2. PICK t : t = Append(s, b)
  OBVIOUS
<1>3. PICK r : r = <<a, b>>
  OBVIOUS
<1>4. s \in Seq(T) /\ Len(s) = 1 /\ s[1] = a
  BY <1>1
<1>5. r \in Seq(T) /\ Len(r) = 2 /\ r[1] = a /\ r[2] = b
  BY <1>3
<1>6. b \in T
  OBVIOUS
<1> HIDE DEF T
<1>7. IsAppended(T, s, b, t)
  BY <1>2, <1>4, <1>6, AppendAt
<1>8. t \in Seq(T) /\ Len(t) = 2 /\ t[1] = a /\ t[2] = b
  <2>1. 1 \in 1..Len(s) /\ Len(s) + 1 = 2
    BY <1>4
  <2>2. t[1] = s[1]
    BY <1>7, <2>1 DEF IsAppended
  <2>3. t \in Seq(T) /\ Len(t) = 2 /\ t[2] = b
    BY <1>7, <2>1 DEF IsAppended
  <2> QED BY <1>4, <2>2, <2>3
<1>9. ASSUME NEW i \in 1..2 PROVE t[i] = r[i]
  <2>1. i = 1 \/ i = 2
    OBVIOUS
  <2> QED BY <1>5, <1>8, <2>1
<1>10. t = r
  BY <1>5, <1>8, <1>9, SeqEqual
<1> QED BY <1>1, <1>2, <1>3, <1>10

(* The header of a SEND.                                                   *)
SendHeader(destination) == <<"SEND", NewLine, "destination", Colon>> \o destination

(* It is what comes before the blank line, and the body what comes after   *)
(* it.                                                                     *)
LEMMA SendIsCut ==
  ASSUME NEW destination \in Text, Lacks(destination, NewLine), NEW message \in Text
  PROVE  /\ SendHeader(destination) \in Text
         /\ HeaderPart(SendFrameText(destination, message)) = SendHeader(destination)
         /\ BodyPart(SendFrameText(destination, message)) = message \o <<NewLine>>
<1>1. /\ NewLine \in Word /\ Colon \in Word /\ "SEND" \in Word /\ "destination" \in Word
  BY Delimiters, HeaderAssumption
<1>2. "SEND" # NewLine /\ "destination" # NewLine /\ Colon # NewLine
  BY DEF NewLine, Colon
<1>3. PICK front : front = <<"SEND", NewLine, "destination", Colon>>
  OBVIOUS
<1>4. /\ front \in Seq(Word) /\ Len(front) = 4
      /\ front[1] = "SEND" /\ front[2] = NewLine /\ front[3] = "destination" /\ front[4] = Colon
  BY <1>1, <1>3
<1>5. PICK header : header = front \o destination
  OBVIOUS
<1>6. IsJoined(Word, front, destination, header)
  BY <1>4, <1>5, JoinAt DEF Text
<1>7. /\ header \in Seq(Word) /\ Len(header) = 4 + Len(destination) /\ Len(destination) \in Nat
      /\ \A i \in 1..4 : header[i] = front[i]
      /\ \A i \in 1..Len(destination) : header[4 + i] = destination[i]
  BY <1>4, <1>6 DEF IsJoined, Text
<1>8. header[1] # NewLine /\ header[3] # NewLine /\ header[4] # NewLine
  BY <1>2, <1>4, <1>7
<1>9. ASSUME NEW i \in 3..Len(header) PROVE header[i] # NewLine
  <2>1. CASE i \in 5..Len(header)
    <3>1. i - 4 \in 1..Len(destination) /\ 4 + (i - 4) = i
      BY <1>7, <2>1
    <3>2. header[i] = destination[i - 4]
      BY <1>7, <3>1
    <3>3. i - 4 \in DOMAIN destination
      BY <3>1 DEF Text
    <3> QED BY <3>2, <3>3 DEF Lacks
  <2>2. CASE i = 3 \/ i = 4
    BY <1>8, <2>2
  <2> QED BY <1>7, <2>1, <2>2
<1>10. header # <<>> /\ header[Len(header)] # NewLine
  <2>1. Len(header) \in 3..Len(header)
    BY <1>7
  <2> QED BY <1>7, <1>9, <2>1
<1>11. BlankLines(header) = {}
  <2> SUFFICES ASSUME NEW i \in 1..(Len(header) - 1), header[i] = NewLine, header[i + 1] = NewLine
               PROVE  FALSE
    BY DEF BlankLines
  <2>1. i # 1
    BY <1>8
  <2>2. i + 1 \in 3..Len(header)
    BY <1>7, <2>1
  <2> QED BY <1>9, <2>2
<1>12. PICK body : body = message \o <<NewLine>>
  OBVIOUS
<1>13. <<NewLine>> \in Text /\ body \in Seq(Word)
  <2>1. <<NewLine>> \in Text
    BY <1>1, EmptyText, TextAppend
  <2> QED BY <1>12, <2>1, ConcatText DEF Text
<1>14. /\ HeaderPart(header \o <<NewLine, NewLine>> \o body) = header
       /\ BodyPart(header \o <<NewLine, NewLine>> \o body) = body
  BY <1>1, <1>7, <1>10, <1>11, <1>13, FrameIsCut
<1>15. SendFrameText(destination, message) = header \o <<NewLine, NewLine>> \o body
  <2>1. SendFrameText(destination, message)
          = (((front \o destination) \o <<NewLine, NewLine>>) \o message) \o <<NewLine>>
    BY <1>3 DEF SendFrameText
  <2>2. PICK t : t = header \o <<NewLine, NewLine>>
    OBVIOUS
  <2>3. <<NewLine, NewLine>> \in Text
    BY <1>1 DEF Text
  <2>4. t \in Text
    BY <1>7, <2>2, <2>3, ConcatText DEF Text
  <2>5. Associative(t, message, <<NewLine>>)
    BY <1>13, <2>4, TextAssociative
  <2> QED BY <1>5, <1>12, <2>1, <2>2, <2>5 DEF Associative
<1> QED BY <1>3, <1>5, <1>7, <1>12, <1>14, <1>15 DEF SendHeader, Text

(* What the server takes for the body of a SEND is what report has written *)
(* into it, whatever the values of the event hold, and for its topic the   *)
(* channel of the file, as long as that has no line break.                 *)
THEOREM ReportArrivesWhole ==
  ASSUME NEW destination \in Text, Lacks(destination, NewLine), NEW message \in Text
  PROVE  /\ decode(SendFrameText(destination, message)).headers[<<"destination">>] = destination
         /\ decode(SendFrameText(destination, message)).body = message \o <<NewLine>>
<1>1. /\ NewLine \in Word /\ Colon \in Word /\ "SEND" \in Word /\ "destination" \in Word
  BY Delimiters, HeaderAssumption
<1>2. PICK raw : raw = SendFrameText(destination, message)
  OBVIOUS
<1>3. HeaderPart(raw) = SendHeader(destination) /\ BodyPart(raw) = message \o <<NewLine>>
  BY <1>2, SendIsCut
<1>4. PICK send : send = <<"SEND">>
  OBVIOUS
<1>5. PICK key : key = <<"destination">>
  OBVIOUS
<1>6. /\ send \in Text /\ Len(send) = 1 /\ DOMAIN send = 1..1 /\ send[1] = "SEND"
      /\ key \in Text /\ Len(key) = 1 /\ DOMAIN key = 1..1 /\ key[1] = "destination"
  BY <1>1, <1>4, <1>5 DEF Text
<1>7. Lacks(send, NewLine) /\ Lacks(key, NewLine) /\ Lacks(key, Colon)
  <2>1. "SEND" # NewLine /\ "destination" # NewLine /\ "destination" # Colon
    BY DEF NewLine, Colon
  <2>2. \A i \in DOMAIN send : send[i] = "SEND"
    BY <1>6
  <2>3. \A i \in DOMAIN key : key[i] = "destination"
    BY <1>6
  <2> QED BY <2>1, <2>2, <2>3 DEF Lacks
<1>8. PICK open : open = Append(key, Colon)
  OBVIOUS
<1>9. /\ open \in Text /\ Len(open) = 2 /\ open[1] = "destination" /\ open[2] = Colon
  <2>1. IsAppended(Word, key, Colon, open)
    BY <1>1, <1>6, <1>8, AppendAt DEF Text
  <2>2. 1 \in 1..Len(key) /\ Len(key) + 1 = 2
    BY <1>6
  <2>3. open[1] = key[1]
    BY <2>1, <2>2 DEF IsAppended
  <2>4. open[2] = Colon /\ Len(open) = 2 /\ open \in Text
    BY <2>1, <2>2 DEF IsAppended, Text
  <2> QED BY <1>6, <2>3, <2>4
<1>10. PICK line : line = open \o destination
  OBVIOUS
<1>11. /\ line \in Text /\ Len(line) = 2 + Len(destination) /\ Len(destination) \in Nat
       /\ line[1] = "destination" /\ line[2] = Colon
       /\ \A i \in 1..Len(destination) : line[2 + i] = destination[i]
  <2>1. IsJoined(Word, open, destination, line)
    BY <1>9, <1>10, JoinAt DEF Text
  <2>2. 1 \in 1..Len(open) /\ 2 \in 1..Len(open)
    BY <1>9
  <2>3. line[1] = "destination" /\ line[2] = Colon
    BY <1>9, <2>1, <2>2 DEF IsJoined
  <2> QED BY <1>9, <2>1, <2>3 DEF IsJoined, Text
<1>12. Lacks(line, NewLine) /\ line # <<>> /\ Contains(line, Colon)
  <2>1. "destination" # NewLine /\ Colon # NewLine
    BY DEF NewLine, Colon
  <2>2. ASSUME NEW i \in 1..Len(line) PROVE line[i] # NewLine
    <3>1. CASE i = 1 \/ i = 2
      BY <1>11, <2>1, <3>1
    <3>2. CASE i > 2
      <4>1. i - 2 \in 1..Len(destination) /\ 2 + (i - 2) = i
        BY <1>11, <3>2
      <4>2. line[i] = destination[i - 2]
        BY <1>11, <4>1
      <4>3. i - 2 \in DOMAIN destination
        BY <4>1 DEF Text
      <4> QED BY <4>2, <4>3 DEF Lacks
    <3> QED BY <1>11, <3>1, <3>2
  <2>3. DOMAIN line = 1..Len(line) /\ 2 \in 1..Len(line)
    BY <1>11 DEF Text
  <2>4. Lacks(line, NewLine)
    BY <2>2, <2>3 DEF Lacks
  <2>5. Contains(line, Colon)
    BY <1>11, <2>3 DEF Contains
  <2>6. line # <<>>
    BY <1>11
  <2> QED BY <2>4, <2>5, <2>6
<1>13. PICK none : none = <<>>
  OBVIOUS
<1>14. PICK first : first = Append(send, NewLine)
  OBVIOUS
<1>15. PICK one : one = Append(none, send)
  OBVIOUS
<1>16. first \in Text /\ Parts(first, NewLine) = Pieces(one, none)
  <2>1. Parts(send, NewLine) = Pieces(none, send)
    BY <1>6, <1>7, <1>13, CutFirst
  <2>2. Parts(first, NewLine) = Pieces(one, <<>>)
    BY <1>1, <1>6, <1>14, <1>15, <2>1, CutDone
  <2>3. first \in Text
    BY <1>1, <1>6, <1>14, AppendText
  <2> QED BY <1>13, <2>2, <2>3
<1>17. SendHeader(destination) = first \o line
  <2>1. PICK front : front = <<"SEND", NewLine, "destination", Colon>>
    OBVIOUS
  <2>2. front = first \o open
    <3>1. /\ front \in Seq(Word) /\ Len(front) = 4
          /\ front[1] = "SEND" /\ front[2] = NewLine /\ front[3] = "destination" /\ front[4] = Colon
      BY <1>1, <2>1
    <3>2. IsAppended(Word, send, NewLine, first)
      BY <1>1, <1>6, <1>14, AppendAt DEF Text
    <3>3. 1 \in 1..Len(send) /\ Len(send) + 1 = 2
      BY <1>6
    <3>4. first[1] = "SEND" /\ first[2] = NewLine /\ Len(first) = 2
      BY <1>6, <3>2, <3>3 DEF IsAppended
    <3>5. PICK r : r = first \o open
      OBVIOUS
    <3>6. IsJoined(Word, first, open, r)
      BY <1>9, <1>16, <3>5, JoinAt DEF Text
    <3>7. /\ r \in Seq(Word) /\ Len(r) = 4
          /\ \A i \in 1..2 : r[i] = first[i]
          /\ \A i \in 1..2 : r[2 + i] = open[i]
      BY <1>9, <3>4, <3>6 DEF IsJoined
    <3>8. r[1] = first[1] /\ r[2] = first[2] /\ r[3] = open[1] /\ r[4] = open[2]
      <4>1. 1 \in 1..2 /\ 2 \in 1..2 /\ 2 + 1 = 3 /\ 2 + 2 = 4
        OBVIOUS
      <4>2. r[1] = first[1] /\ r[2] = first[2]
        BY <3>7, <4>1
      <4>3. r[2 + 1] = open[1] /\ r[2 + 2] = open[2]
        BY <3>7, <4>1
      <4> QED BY <4>1, <4>2, <4>3
    <3>9. ASSUME NEW i \in 1..4 PROVE front[i] = r[i]
      <4>1. i = 1 \/ i = 2 \/ i = 3 \/ i = 4
        OBVIOUS
      <4> QED BY <1>9, <3>1, <3>4, <3>8, <4>1
    <3>10. front = r
      BY <3>1, <3>7, <3>9, SeqEqual
    <3> QED BY <3>5, <3>10
  <2>3. Associative(first, open, destination)
    BY <1>9, <1>16, TextAssociative
  <2> QED BY <1>10, <2>1, <2>2, <2>3 DEF Associative, SendHeader
<1>18. split_str(first \o line, NewLine) = Append(one, line)
  <2>1. Parts(first \o line, NewLine) = Pieces(one, none \o line)
    BY <1>11, <1>12, <1>16, CutMore
  <2>2. none \o line = line
    BY <1>11, <1>13, ConcatEmptySeq DEF Text
  <2> QED BY <1>12, <2>1, <2>2, SplitOpen
<1>19. PICK lines : lines = Append(one, line)
  OBVIOUS
<1>20. Tail(lines) = <<line>>
  <2>1. one = <<send>>
    BY <1>13, <1>15
  <2>2. lines = <<send, line>>
    BY <1>19, <2>1, AppendTwo
  <2> QED BY <2>2
<1>21. PICK headers : headers = <<line>>
  OBVIOUS
<1>22. WithColon(Tail(lines)) = headers
  <2>1. <<>> \in Seq(Text)
    OBVIOUS
  <2>2. WithColon(Append(none, line)) = Append(WithColon(none), line)
    BY <1>11, <1>12, <1>13, <2>1, WithColonAppend
  <2>3. WithColon(none) = none
    BY <1>13, WithColonEmpty
  <2>4. Append(none, line) = headers
    BY <1>13, <1>21
  <2> QED BY <1>20, <1>21, <2>2, <2>3, <2>4
<1>23. DOMAIN headers = {1} /\ headers[1] = line
  BY <1>21
<1>24. KeyOf(line) = key
  <2>1. Len(key) < Len(line) /\ line[Len(key) + 1] = Colon
    BY <1>6, <1>11
  <2>2. \A i \in 1..Len(key) : line[i] = key[i]
    BY <1>6, <1>11
  <2> QED BY <1>6, <1>7, <1>11, <2>1, <2>2, KeyOfLine
<1>25. With(headers, key) = {1} /\ Max(With(headers, key)) = 1
  <2>1. With(headers, key) = {1}
    BY <1>23, <1>24 DEF With
  <2>2. 1 \in {1} /\ {1} \in SUBSET Nat /\ \A n \in {1} : n <= 1
    OBVIOUS
  <2>3. Max({1}) = 1
    BY <2>2, MaxIs
  <2> QED BY <2>1, <2>3
<1>26. HeaderValue(line) = destination
  <2>1. Len(KeyOf(line)) + 2 = 3
    <3>1. Len(KeyOf(line)) = 1
      BY <1>6, <1>24
    <3> QED BY <3>1
  <2>2. PICK r : r = SubSeq(line, 3, Len(line))
    OBVIOUS
  <2>3. IsPart(Word, line, 3, Len(line), r)
    <3>1. 3 \in 1..(Len(line) + 1) /\ Len(line) \in (3 - 1)..Len(line) /\ line \in Seq(Word)
      BY <1>11 DEF Text
    <3> QED BY <2>2, <3>1, PartAt
  <2>4. Len(line) - 3 + 1 = Len(destination)
    BY <1>11
  <2>5. r \in Seq(Word) /\ Len(r) = Len(destination) /\ \A i \in 1..Len(destination) : r[i] = line[3 + i - 1]
    BY <2>3, <2>4 DEF IsPart
  <2>6. ASSUME NEW i \in 1..Len(destination) PROVE r[i] = destination[i]
    <3>1. 3 + i - 1 = 2 + i
      OBVIOUS
    <3> QED BY <1>11, <2>5, <3>1
  <2>7. r = destination
    BY <2>5, <2>6, SeqEqual DEF Text
  <2> QED BY <2>1, <2>2, <2>7 DEF HeaderValue
<1>27. decode(raw).headers =
         [k \in {KeyOf(headers[i]) : i \in DOMAIN headers} |->
            HeaderValue(headers[Max(With(headers, k))])]
  BY <1>3, <1>17, <1>18, <1>19, <1>22 DEF decode
<1>28. {KeyOf(headers[i]) : i \in DOMAIN headers} = {key}
  BY <1>23, <1>24
<1>29. decode(raw).headers[key] = HeaderValue(headers[Max(With(headers, key))])
  BY <1>27, <1>28
<1>30. decode(raw).headers[key] = destination
  BY <1>23, <1>25, <1>26, <1>29
<1>31. decode(raw).body = message \o <<NewLine>>
  BY <1>3 DEF decode
<1> QED BY <1>2, <1>5, <1>30, <1>31
-----------------------------------------------------------------------------
(* Lines without a line break in them are headers.                         *)
IsHeader(s) == s \in Text /\ s # <<>> /\ BlankLines(s) = {} /\ s[Len(s)] # NewLine

(* One such line is a header.                                              *)
LEMMA LineIsHeader ==
  ASSUME NEW line \in Text, line # <<>>, Lacks(line, NewLine)
  PROVE  IsHeader(line)
<1>1. Len(line) \in 1..Len(line) /\ DOMAIN line = 1..Len(line) /\ Len(line) \in Nat
  BY DEF Text
<1>2. \A i \in 1..Len(line) : line[i] # NewLine
  BY <1>1 DEF Lacks
<1>3. BlankLines(line) = {}
  BY <1>1, <1>2 DEF BlankLines
<1> QED BY <1>1, <1>2, <1>3 DEF IsHeader

(* And one line more of it.                                                *)
LEMMA HeaderLine ==
  ASSUME NEW s, IsHeader(s), NEW line \in Text, line # <<>>, Lacks(line, NewLine)
  PROVE  IsHeader((s \o <<NewLine>>) \o line)
<1>1. s \in Text /\ NewLine \in Word
  BY Delimiters DEF IsHeader
<1>2. PICK open : open = Append(s, NewLine)
  OBVIOUS
<1>3. open = s \o <<NewLine>> /\ open \in Text
  BY <1>1, <1>2, TextAppend
<1>4. IsAppended(Word, s, NewLine, open)
  BY <1>1, <1>2, AppendAt DEF Text
<1>5. PICK t : t = open \o line
  OBVIOUS
<1>6. IsJoined(Word, open, line, t)
  BY <1>3, <1>5, JoinAt DEF Text
<1>7. Len(s) \in Nat /\ Len(line) \in Nat /\ Len(line) # 0 /\ DOMAIN line = 1..Len(line) /\ Len(s) # 0
  BY <1>1 DEF Text, IsHeader
<1>8. t \in Text /\ Len(t) = Len(s) + 1 + Len(line)
  BY <1>4, <1>6 DEF IsAppended, IsJoined, Text
<1>9. ASSUME NEW i \in 1..Len(s) PROVE t[i] = s[i]
  <2>1. i \in 1..Len(open)
    BY <1>4, <1>7 DEF IsAppended
  <2>2. t[i] = open[i]
    BY <1>6, <2>1 DEF IsJoined
  <2> QED BY <1>4, <2>2 DEF IsAppended
<1>10. ASSUME NEW i \in (Len(s) + 2)..Len(t) PROVE t[i] # NewLine
  <2>1. i - Len(s) - 1 \in 1..Len(line) /\ Len(s) + 1 + (i - Len(s) - 1) = i
    BY <1>7, <1>8
  <2>2. Len(open) = Len(s) + 1
    BY <1>4 DEF IsAppended
  <2>3. t[Len(s) + 1 + (i - Len(s) - 1)] = line[i - Len(s) - 1]
    BY <1>6, <2>1, <2>2 DEF IsJoined
  <2> QED BY <1>7, <2>1, <2>3 DEF Lacks
<1>11. BlankLines(t) = {}
  <2> SUFFICES ASSUME NEW i \in 1..(Len(t) - 1), t[i] = NewLine, t[i + 1] = NewLine PROVE FALSE
    BY DEF BlankLines
  <2>1. i + 1 \in 1..Len(s)
    <3>1. i + 1 <= Len(s) + 1
      BY <1>7, <1>8, <1>10
    <3>2. i # Len(s)
      <4>1. Len(s) \in 1..Len(s)
        BY <1>7
      <4> QED BY <1>9, <4>1 DEF IsHeader
    <3> QED BY <1>7, <3>1, <3>2
  <2>2. i \in 1..(Len(s) - 1) /\ i \in 1..Len(s)
    BY <1>7, <2>1
  <2>3. s[i] = NewLine /\ s[i + 1] = NewLine
    BY <1>9, <2>1, <2>2
  <2> QED BY <2>2, <2>3 DEF IsHeader, BlankLines
<1>12. Len(t) \in (Len(s) + 2)..Len(t)
  BY <1>7, <1>8
<1>13. t # <<>> /\ t[Len(t)] # NewLine
  <2>1. t[Len(t)] # NewLine
    BY <1>10, <1>12
  <2>2. Len(t) # 0
    BY <1>7, <1>8
  <2> QED BY <2>1, <2>2
<1>14. IsHeader(t)
  BY <1>8, <1>11, <1>13 DEF IsHeader
<1> QED BY <1>3, <1>5, <1>14

(* A frame with two headers is cut after the second.                       *)
FrameOfTwo(first, a, b, body) ==
  (((first \o <<NewLine>>) \o ((a \o <<NewLine>>) \o (b \o <<NewLine>>))) \o <<NewLine>>) \o body

(* The first blank line is the one after them.                             *)
LEMMA TwoHeaders ==
  ASSUME NEW first \in Text, first # <<>>, Lacks(first, NewLine),
         NEW a \in Text, a # <<>>, Lacks(a, NewLine),
         NEW b \in Text, b # <<>>, Lacks(b, NewLine), NEW body \in Text
  PROVE  BodyPart(FrameOfTwo(first, a, b, body)) = body
<1>1. PICK nl : nl = <<NewLine>>
  OBVIOUS
<1>2. NewLine \in Word /\ nl \in Text
  BY <1>1, Delimiters, EmptyText, TextAppend
<1>3. PICK t1 : t1 = first \o nl
  OBVIOUS
<1>4. PICK t2 : t2 = t1 \o a
  OBVIOUS
<1>5. PICK t3 : t3 = t2 \o nl
  OBVIOUS
<1>6. PICK t4 : t4 = t3 \o b
  OBVIOUS
<1>7. t1 \in Text
  BY <1>2, <1>3, ConcatText
<1>8. t2 \in Text
  BY <1>4, <1>7, ConcatText
<1>9. t3 \in Text
  BY <1>2, <1>5, <1>8, ConcatText
<1>10. t4 \in Text
  BY <1>6, <1>9, ConcatText
<1>11. IsHeader(t4)
  <2>1. IsHeader(first)
    BY LineIsHeader
  <2>2. IsHeader(t2)
    BY <1>1, <1>3, <1>4, <2>1, HeaderLine
  <2> QED BY <1>1, <1>5, <1>6, <2>2, HeaderLine
<1>12. BodyPart((t4 \o <<NewLine, NewLine>>) \o body) = body
  <2>1. t4 \in Seq(Word) /\ body \in Seq(Word)
    BY <1>10 DEF Text
  <2> QED BY <1>2, <1>11, <2>1, FrameIsCut DEF IsHeader
<1>13. (t4 \o nl) \o nl = t4 \o <<NewLine, NewLine>>
  <2>1. Associative(t4, nl, nl)
    BY <1>2, <1>10, TextAssociative
  <2>2. nl \o nl = <<NewLine, NewLine>>
    BY <1>1, <1>2, TwoTokens
  <2> QED BY <2>1, <2>2 DEF Associative
<1>14. t1 \o ((a \o nl) \o (b \o nl)) = t4 \o nl
  <2>1. PICK an : an = a \o nl
    OBVIOUS
  <2>2. an \in Text
    BY <1>2, <2>1, ConcatText
  <2>3. Associative(an, b, nl)
    BY <1>2, <2>2, TextAssociative
  <2>4. an \o b \in Text
    BY <2>2, ConcatText
  <2>5. Associative(t1, an \o b, nl)
    BY <1>2, <1>7, <2>4, TextAssociative
  <2>6. Associative(t1, an, b)
    BY <1>7, <2>2, TextAssociative
  <2>7. Associative(t1, a, nl)
    BY <1>2, <1>7, TextAssociative
  <2>8. an \o (b \o nl) = (an \o b) \o nl
    BY <2>3 DEF Associative
  <2>9. t1 \o ((an \o b) \o nl) = (t1 \o (an \o b)) \o nl
    BY <2>5 DEF Associative
  <2>10. t1 \o (an \o b) = (t1 \o an) \o b
    BY <2>6 DEF Associative
  <2>11. t1 \o an = t3
    BY <1>4, <1>5, <2>1, <2>7 DEF Associative
  <2> QED BY <1>6, <2>1, <2>8, <2>9, <2>10, <2>11
<1>15. FrameOfTwo(first, a, b, body) = ((t1 \o ((a \o nl) \o (b \o nl))) \o nl) \o body
  BY <1>1, <1>3 DEF FrameOfTwo
<1> QED BY <1>12, <1>13, <1>14, <1>15
-----------------------------------------------------------------------------
(* Two texts one after the other.                                          *)
LEMMA FlattenTwo ==
  ASSUME NEW a \in Text, NEW b \in Text, NEW seqs \in Seq(Text), Len(seqs) = 2,
         seqs[1] = a, seqs[2] = b
  PROVE  FlattenSeq(seqs) = a \o b
<1>1. PICK f \in [0..Len(seqs) -> Text] :
           /\ f[0] = <<>>
           /\ \A n \in 1..Len(seqs) : f[n] = f[n - 1] \o seqs[n]
           /\ FlattenSeq(seqs) = f[Len(seqs)]
  BY FlattenRun
<1>2. f[1] = f[0] \o a
  <2>1. 1 \in 1..Len(seqs) /\ 1 - 1 = 0
    OBVIOUS
  <2> QED BY <1>1, <2>1
<1>3. f[2] = f[1] \o b
  <2>1. 2 \in 1..Len(seqs) /\ 2 - 1 = 1
    OBVIOUS
  <2> QED BY <1>1, <2>1
<1>4. f[0] \o a = a
  BY <1>1, ConcatEmptySeq DEF Text
<1> QED BY <1>1, <1>2, <1>3, <1>4

(* What a client takes for the body of a MESSAGE is what the server has    *)
(* put into it, whatever that holds and in whatever order toString writes  *)
(* the headers, as long as they have no line break.                        *)
THEOREM MessageArrivesWhole ==
  ASSUME NEW username \in Text, NEW topic \in Text, Lacks(topic, NewLine),
         NEW id, to_string(id) \in Text, Lacks(to_string(id), NewLine), NEW message \in Text
  PROVE  BodyPart(toString(MessageFrame(username, topic, id, message)))
           = MessageBody(username, topic, message)
<1> DEFINE D == <<"destination">>
           M == <<"message-id">>
           S == {D, M}
           headers == [key \in S |-> IF key = D THEN topic ELSE to_string(id)]
           keys == SetToSeq(S)
           line(i) == keys[i] \o <<Colon>> \o headers[keys[i]]
           seqs == [i \in DOMAIN keys |-> keys[i] \o <<Colon>> \o headers[keys[i]] \o <<NewLine>>]
           first == <<"MESSAGE">>
<1>1. /\ NewLine \in Word /\ Colon \in Word /\ "MESSAGE" \in Word /\ "destination" \in Word
      /\ "message-id" \in Word
  BY Delimiters, HeaderAssumption
<1>2. /\ "MESSAGE" # NewLine /\ "destination" # NewLine /\ "message-id" # NewLine /\ Colon # NewLine
      /\ "destination" # "message-id"
  BY DEF NewLine, Colon
<1>3. D \in Text /\ M \in Text /\ first \in Text /\ D # M
  BY <1>1, <1>2 DEF Text
<1>4. Lacks(D, NewLine) /\ Lacks(M, NewLine) /\ Lacks(first, NewLine) /\ first # <<>>
  BY <1>2 DEF Lacks
<1>5. MessageBody(username, topic, message) \in Text
  <2>1. UserKey \in Text /\ ChannelKey \in Text
    BY KeysAreKeys DEF IsKey
  <2>2. <<Colon, Space>> \in Text /\ <<NewLine>> \in Text
    BY Delimiters DEF Text
  <2>3. ASSUME NEW key \in Text, NEW value \in Text PROVE Field(key, value) \in Text
    <3>1. key \o <<Colon, Space>> \in Text
      BY <2>2, ConcatText
    <3>2. key \o <<Colon, Space>> \o value \in Text
      BY <3>1, ConcatText
    <3> QED BY <2>2, <3>2, ConcatText DEF Field
  <2>4. Field(UserKey, username) \in Text /\ Field(ChannelKey, topic) \in Text
    BY <2>1, <2>3
  <2>5. Field(UserKey, username) \o Field(ChannelKey, topic) \in Text
    BY <2>4, ConcatText
  <2> QED BY <2>5, ConcatText DEF MessageBody
<1> HIDE DEF D, M, first
<1>6. IsFiniteSet(S) /\ Cardinality(S) = 2
  <2>1. IsFiniteSet({D}) /\ Cardinality({D}) = 1
    BY FS_Singleton
  <2>2. M \notin {D}
    BY <1>3
  <2>3. IsFiniteSet({D} \cup {M}) /\ Cardinality({D} \cup {M}) = 2
    BY <2>1, <2>2, FS_AddElement
  <2>4. {D} \cup {M} = S
    OBVIOUS
  <2> QED BY <2>3, <2>4
<1>7. /\ DOMAIN keys = 1..2
      /\ \A i \in 1..2 : keys[i] \in S
  <2>1. IsListing(keys, S)
    BY <1>6, SetIsListed
  <2> HIDE DEF keys, S
  <2> QED BY <1>6, <2>1 DEF IsListing
<1>8. ASSUME NEW key \in S
      PROVE  /\ key \in Text /\ Lacks(key, NewLine)
             /\ headers[key] \in Text /\ Lacks(headers[key], NewLine)
  BY <1>3, <1>4
<1>9. headers = MessageFrame(username, topic, id, message).headers
  BY DEF MessageFrame, D, M
<1> HIDE DEF headers
<1>10. ASSUME NEW key \in S
       PROVE  /\ (key \o <<Colon>>) \o headers[key] \in Text
              /\ (key \o <<Colon>>) \o headers[key] # <<>>
              /\ Lacks((key \o <<Colon>>) \o headers[key], NewLine)
  <2>1. PICK a : a = Append(key, Colon)
    OBVIOUS
  <2>2. PICK value : value = headers[key]
    OBVIOUS
  <2>3. a = key \o <<Colon>> /\ a \in Text /\ value \in Text /\ key \in Text
    BY <1>1, <1>8, <2>1, <2>2, TextAppend
  <2>4. IsAppended(Word, key, Colon, a)
    BY <1>1, <2>1, <2>3, AppendAt DEF Text
  <2>5. PICK t : t = a \o value
    OBVIOUS
  <2>6. IsJoined(Word, a, value, t)
    BY <2>3, <2>5, JoinAt DEF Text
  <2>7. /\ Len(key) \in Nat /\ Len(value) \in Nat /\ DOMAIN key = 1..Len(key)
        /\ DOMAIN value = 1..Len(value) /\ Len(a) = Len(key) + 1
    BY <2>3, <2>4 DEF Text, IsAppended
  <2>8. t \in Text /\ Len(t) = Len(key) + 1 + Len(value) /\ DOMAIN t = 1..Len(t)
    BY <2>6, <2>7 DEF IsJoined, Text
  <2>9. ASSUME NEW i \in 1..Len(t) PROVE t[i] # NewLine
    <3>1. CASE i <= Len(key)
      <4>1. i \in 1..Len(key) /\ i \in 1..Len(a)
        BY <2>7, <3>1
      <4>2. t[i] = a[i]
        BY <2>6, <4>1 DEF IsJoined
      <4>3. a[i] = key[i]
        BY <2>4, <4>1 DEF IsAppended
      <4> QED BY <1>8, <2>7, <4>1, <4>2, <4>3 DEF Lacks
    <3>2. CASE i = Len(key) + 1
      <4>1. i \in 1..Len(a)
        BY <2>7, <3>2
      <4>2. t[i] = a[i]
        BY <2>6, <4>1 DEF IsJoined
      <4>3. a[Len(key) + 1] = Colon
        BY <2>4 DEF IsAppended
      <4> QED BY <1>2, <3>2, <4>2, <4>3
    <3>3. CASE i > Len(key) + 1
      <4>1. i - Len(a) \in 1..Len(value) /\ Len(a) + (i - Len(a)) = i
        BY <2>7, <2>8, <3>3
      <4>2. t[Len(a) + (i - Len(a))] = value[i - Len(a)]
        BY <2>6, <4>1 DEF IsJoined
      <4> QED BY <1>8, <2>2, <2>7, <4>1, <4>2 DEF Lacks
    <3> QED BY <2>7, <3>1, <3>2, <3>3
  <2>10. Lacks(t, NewLine)
    BY <2>8, <2>9 DEF Lacks
  <2>11. t # <<>>
    <3>1. Len(t) # 0
      BY <2>7, <2>8
    <3> QED BY <3>1
  <2> QED BY <2>2, <2>3, <2>5, <2>8, <2>10, <2>11
<1>11. PICK a : a = line(1)
  OBVIOUS
<1>12. PICK b : b = line(2)
  OBVIOUS
<1>13. /\ a \in Text /\ a # <<>> /\ Lacks(a, NewLine)
       /\ b \in Text /\ b # <<>> /\ Lacks(b, NewLine)
  <2>1. keys[1] \in S /\ keys[2] \in S
    BY <1>7
  <2> HIDE DEF keys, S
  <2> QED BY <1>10, <1>11, <1>12, <2>1
<1>14. FlattenSeq(seqs) = (a \o <<NewLine>>) \o (b \o <<NewLine>>)
  <2>1. DOMAIN seqs = 1..2 /\ seqs[1] = a \o <<NewLine>> /\ seqs[2] = b \o <<NewLine>>
    <3>1. DOMAIN seqs = DOMAIN keys /\ \A i \in DOMAIN keys : seqs[i] = line(i) \o <<NewLine>>
      OBVIOUS
    <3>2. 1 \in 1..2 /\ 2 \in 1..2
      OBVIOUS
    <3> HIDE DEF keys, S, seqs, line
    <3> QED BY <1>7, <1>11, <1>12, <3>1, <3>2
  <2>2. <<NewLine>> \in Text
    BY <1>1, EmptyText, TextAppend
  <2>3. a \o <<NewLine>> \in Text /\ b \o <<NewLine>> \in Text
    BY <1>13, <2>2, ConcatText
  <2>4. seqs \in [1..2 -> Text]
    <3>1. \A i \in 1..2 : seqs[i] \in Text
      <4>1. \A i \in 1..2 : i = 1 \/ i = 2
        OBVIOUS
      <4> HIDE DEF seqs
      <4> QED BY <2>1, <2>3, <4>1
    <3>2. seqs = [i \in DOMAIN seqs |-> seqs[i]]
      OBVIOUS
    <3> HIDE DEF seqs
    <3> QED BY <2>1, <3>1, <3>2
  <2> HIDE DEF seqs
  <2>5. seqs \in Seq(Text) /\ Len(seqs) = 2
    <3>1. \A n \in Nat : \A s \in [1..n -> Text] : s \in Seq(Text) /\ Len(s) = n
      OBVIOUS
    <3> QED BY <2>4, <3>1
  <2> QED BY <2>1, <2>3, <2>5, FlattenTwo
<1>15. toString(MessageFrame(username, topic, id, message))
         = FrameOfTwo(first, a, b, MessageBody(username, topic, message))
  <2>1. DOMAIN MessageFrame(username, topic, id, message).headers = S
    BY DEF MessageFrame, D, M
  <2>2. MessageFrame(username, topic, id, message).command = first
    BY DEF MessageFrame, first
  <2>3. MessageFrame(username, topic, id, message).body = MessageBody(username, topic, message)
    BY DEF MessageFrame
  <2>4. PICK frame : frame = MessageFrame(username, topic, id, message)
    OBVIOUS
  <2>5. toString(frame) = (((first \o <<NewLine>>) \o FlattenSeq(seqs)) \o <<NewLine>>)
                            \o MessageBody(username, topic, message)
    BY <1>9, <2>1, <2>2, <2>3, <2>4 DEF toString
  <2> QED BY <1>14, <2>4, <2>5 DEF FrameOfTwo
<1> QED BY <1>3, <1>4, <1>5, <1>13, <1>15, TwoHeaders
=============================================================================
