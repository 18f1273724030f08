--------------------------- MODULE DecimalProofs ---------------------------
(***************************************************************************)
(* Proofs about Decimal, and about the folds and recursive functions that  *)
(* it and other modules compute with.                                      *)
(***************************************************************************)
EXTENDS Decimal, SequenceTheorems, WellFoundedInduction, TLAPS

----------------------------------------------------------------------------
(* Induction, with a set of numbers in place of a predicate.               *)

LEMMA SetInduction ==
  ASSUME NEW n \in Nat, NEW K, 0 \in K, \A k \in 1 .. n : k - 1 \in K => k \in K
  PROVE  \A k \in 0 .. n : k \in K
<1> DEFINE J == {k \in 0 .. n : k \notin K}
<1>1. SUFFICES ASSUME J # {} PROVE FALSE
  OBVIOUS
<1>2. \E j \in J : \A i \in J : ~(<<i, j>> \in OpToRel(<, Nat))
  <2>1. J \subseteq Nat
    OBVIOUS
  <2> HIDE DEF J
  <2> QED BY <1>1, <2>1, NatLessThanWellFounded, WFMin, Zenon
<1>3. PICK j \in J : \A i \in J : ~(<<i, j>> \in OpToRel(<, Nat))
  BY <1>2
<1>4. j \in 1 .. n /\ j - 1 \in 0 .. n /\ j - 1 \in Nat /\ j \in Nat /\ j - 1 < j
  <2>1. j \in 0 .. n /\ j # 0
    BY <1>3
  <2> HIDE DEF J
  <2> QED BY <2>1
<1>5. j - 1 \notin J
  <2>1. j - 1 \in J => <<j - 1, j>> \in OpToRel(<, Nat)
    BY <1>4 DEF OpToRel
  <2> QED BY <1>3, <2>1
<1>6. j - 1 \in K
  BY <1>4, <1>5
<1> QED BY <1>3, <1>4, <1>6

\* A non-empty set of numbers up to n has a largest element.
LEMMA MaxIs ==
  ASSUME NEW n \in Nat, NEW s, s \subseteq 1 .. n, s # {}
  PROVE  Max(s) \in s /\ \A i \in s : i <= Max(s)
<1> DEFINE K == {k \in 0 .. n : (\E i \in s : i <= k) =>
                                 \E i \in s : \A j \in s : j <= k => j <= i}
<1>1. 0 \in K
  OBVIOUS
<1>2. ASSUME NEW k \in 1 .. n, k - 1 \in K PROVE k \in K
  <2>1. CASE k \in s
    <3>1. \A j \in s : j <= k => j <= k
      OBVIOUS
    <3> QED BY <2>1, <3>1
  <2>2. CASE k \notin s
    <3>1. \A j \in s : j <= k <=> j <= k - 1
      BY <2>2
    <3> QED BY <1>2, <3>1
  <2> QED BY <2>1, <2>2
<1>3. n \in K
  <2> HIDE DEF K
  <2> QED BY <1>1, <1>2, SetInduction
<1>4. PICK i \in s : \A j \in s : j <= n => j <= i
  BY <1>3
<1>5. \A j \in s : i >= j
  BY <1>4
<1>6. Max(s) = CHOOSE x \in s : \A y \in s : x >= y
  BY DEF Max
<1>7. Max(s) \in s /\ \A y \in s : Max(s) >= y
  BY <1>5, <1>6
<1> QED BY <1>7

----------------------------------------------------------------------------
(* Folds.  FoldLeft asks for a function on the sets of places, which takes *)
(* the largest place last.  F is the step as a function on pairs.          *)

Folds(it, D, F, base, seq) ==
  \A s \in SUBSET D :
    it[s] = IF s = {} THEN base ELSE F[<<it[s \ {Max(s)}], seq[Max(s)]>>]

Foldable(n, X, V, F, base, seq) ==
  n \in Nat /\ F \in [X \X V -> X] /\ base \in X /\ \A i \in 1 .. n : seq[i] \in V

HasFold(D, X, F, base, seq) == \E it \in [SUBSET D -> X] : Folds(it, D, F, base, seq)

\* There is such a function.
LEMMA FoldExists ==
  ASSUME NEW n, NEW X, NEW V, NEW F, NEW base, NEW seq, Foldable(n, X, V, F, base, seq)
  PROVE  HasFold(1 .. n, X, F, base, seq)
<1>f. /\ n \in Nat /\ F \in [X \X V -> X] /\ base \in X
      /\ \A i \in 1 .. n : seq[i] \in V
  BY DEF Foldable
<1> USE <1>f
<1> DEFINE K == {k \in 0 .. n : \E it \in [SUBSET (1 .. k) -> X] : Folds(it, 1 .. k, F, base, seq)}
<1>1. 0 \in K
  <2> DEFINE it == [s \in SUBSET (1 .. 0) |-> base]
  <2>1. \A s \in SUBSET (1 .. 0) : s = {}
    OBVIOUS
  <2>2. it \in [SUBSET (1 .. 0) -> X] /\ Folds(it, 1 .. 0, F, base, seq)
    BY <2>1 DEF Folds
  <2> QED BY <2>2
<1>2. ASSUME NEW k \in 1 .. n, k - 1 \in K PROVE k \in K
  <2>1. PICK old \in [SUBSET (1 .. k - 1) -> X] : Folds(old, 1 .. k - 1, F, base, seq)
    BY <1>2
  <2> DEFINE it == [s \in SUBSET (1 .. k) |->
                      IF k \in s THEN F[<<old[s \ {k}], seq[k]>>] ELSE old[s]]
  <2>2. ASSUME NEW s \in SUBSET (1 .. k), k \in s
        PROVE  s \ {k} \in SUBSET (1 .. k - 1) /\ Max(s) = k
    <3>1. k \in Nat /\ s \subseteq 1 .. k /\ s # {}
      BY <2>2
    <3> HIDE DEF it, K
    <3>2. Max(s) \in s /\ k <= Max(s)
      BY <2>2, <3>1, MaxIs
    <3>3. Max(s) = k
      <4> DEFINE m == Max(s)
      <4>1. m \in 1 .. k /\ k <= m
        BY <3>1, <3>2
      <4> HIDE DEF m
      <4>2. m = k
        BY <4>1
      <4> QED BY <4>2 DEF m
    <3>4. \A i \in 1 .. k : i # k => i \in 1 .. k - 1
      OBVIOUS
    <3> QED BY <3>1, <3>3, <3>4
  <2>3. ASSUME NEW s \in SUBSET (1 .. k), k \notin s
        PROVE  s \in SUBSET (1 .. k - 1) /\ (s # {} => Max(s) \in s)
    <3>1. k \in Nat /\ s \subseteq 1 .. k
      OBVIOUS
    <3> HIDE DEF it, K
    <3>2. s # {} => Max(s) \in s
      BY <3>1, MaxIs
    <3>3. \A i \in 1 .. k : i # k => i \in 1 .. k - 1
      OBVIOUS
    <3> QED BY <2>3, <3>1, <3>2, <3>3
  <2>4. it \in [SUBSET (1 .. k) -> X]
    <3>1. seq[k] \in V
      OBVIOUS
    <3> QED BY <2>1, <2>2, <2>3, <3>1
  <2>5. ASSUME NEW s \in SUBSET (1 .. k)
        PROVE  it[s] = IF s = {} THEN base ELSE F[<<it[s \ {Max(s)}], seq[Max(s)]>>]
    <3>1. CASE k \in s
      <4>1. it[s] = F[<<old[s \ {k}], seq[k]>>]
        BY <3>1
      <4>2. s \ {k} \in SUBSET (1 .. k) /\ k \notin s \ {k}
        BY <3>1
      <4>3. it[s \ {k}] = old[s \ {k}]
        BY <4>2
      <4> HIDE DEF it
      <4> QED BY <2>2, <3>1, <4>1, <4>3
    <3>2. CASE k \notin s
      <4>1. it[s] = old[s]
        BY <3>2
      <4>2. s \in SUBSET (1 .. k - 1)
        BY <2>3, <3>2
      <4>3. old[s] = IF s = {} THEN base ELSE F[<<old[s \ {Max(s)}], seq[Max(s)]>>]
        BY <2>1, <4>2 DEF Folds
      <4>4. s \ {Max(s)} \in SUBSET (1 .. k) /\ k \notin s \ {Max(s)}
        BY <3>2
      <4> DEFINE u == s \ {Max(s)}
      <4>5. it[u] = old[u]
        <5> HIDE DEF u
        <5>1. u \in SUBSET (1 .. k) /\ k \notin u
          BY <4>4 DEF u
        <5> QED BY <5>1
      <4> HIDE DEF it
      <4> QED BY <4>1, <4>3, <4>5
    <3> QED BY <3>1, <3>2
  <2>6. Folds(it, 1 .. k, F, base, seq)
    <3> HIDE DEF it
    <3> QED BY <2>5 DEF Folds
  <2> HIDE DEF it
  <2> QED BY <2>4, <2>6
<1>3. n \in K
  <2> HIDE DEF K
  <2> QED BY <1>1, <1>2, SetInduction
<1> QED BY <1>3 DEF HasFold

\* r holds the results of the first steps.
Runs(r, n, X, F, base, seq) ==
  /\ r \in [0 .. n -> X] /\ r[0] = base
  /\ \A k \in 1 .. n : r[k] = F[<<r[k - 1], seq[k]>>]

\* A function that takes such steps wherever it is in X.
Steps(c, n, X, F, base, seq) ==
  /\ c[{}] = base
  /\ \A s \in SUBSET (1 .. n) :
       s # {} /\ c[s \ {Max(s)}] \in X => c[s] = F[<<c[s \ {Max(s)}], seq[Max(s)]>>]

LEMMA FoldRuns ==
  ASSUME NEW n, NEW X, NEW V, NEW F, NEW base, NEW seq, Foldable(n, X, V, F, base, seq),
         NEW c, Steps(c, n, X, F, base, seq)
  PROVE  \E r : Runs(r, n, X, F, base, seq) /\ r[n] = c[1 .. n]
<1>f. /\ n \in Nat /\ F \in [X \X V -> X] /\ base \in X
      /\ \A i \in 1 .. n : seq[i] \in V
  BY DEF Foldable
<1> USE <1>f
<1> DEFINE K == {k \in 0 .. n : c[1 .. k] \in X}
           r == [k \in 0 .. n |-> c[1 .. k]]
<1>0. 1 .. 0 = {}
  OBVIOUS
<1>1. 0 \in K
  BY <1>0 DEF Steps
<1>2. ASSUME NEW k \in 1 .. n, c[1 .. k - 1] \in X
      PROVE  c[1 .. k] = F[<<c[1 .. k - 1], seq[k]>>]
  <2>1. 1 .. k \in SUBSET (1 .. n) /\ 1 .. k # {} /\ k \in 1 .. k /\ (1 .. k) \ {k} = 1 .. k - 1
    <3> HIDE DEF K, r
    <3>1. k \in Nat /\ 1 <= k /\ k <= n
      OBVIOUS
    <3>2. \A i \in 1 .. k : i \in 1 .. n /\ (i # k <=> i \in 1 .. k - 1)
      BY <3>1
    <3>3. \A i \in 1 .. k - 1 : i \in 1 .. k /\ i # k
      BY <3>1
    <3> QED BY <3>1, <3>2, <3>3
  <2>2. Max(1 .. k) = k
    <3>1. Max(1 .. k) \in 1 .. k /\ k <= Max(1 .. k)
      BY <2>1, MaxIs
    <3> QED BY <3>1
  <2>3. c[(1 .. k) \ {k}] \in X
    BY <1>2, <2>1
  <2>4. c[1 .. k] = F[<<c[(1 .. k) \ {k}], seq[k]>>]
    BY <2>1, <2>2, <2>3 DEF Steps
  <2> QED BY <2>1, <2>4
<1>3. ASSUME NEW k \in 1 .. n, k - 1 \in K PROVE k \in K
  <2>1. c[1 .. k - 1] \in X
    BY <1>3
  <2>2. seq[k] \in V
    OBVIOUS
  <2>3. F[<<c[1 .. k - 1], seq[k]>>] \in X
    BY <2>1, <2>2
  <2>4. c[1 .. k] \in X
    BY <1>2, <2>1, <2>3
  <2> QED BY <2>4
<1>4. \A k \in 0 .. n : k \in K
  <2> HIDE DEF K
  <2> QED BY <1>1, <1>3, SetInduction
<1>5. r \in [0 .. n -> X]
  BY <1>4
<1>6. r[0] = base
  BY <1>0 DEF Steps
<1>7. ASSUME NEW k \in 1 .. n PROVE r[k] = F[<<r[k - 1], seq[k]>>]
  BY <1>2, <1>4
<1>8. r[n] = c[1 .. n]
  OBVIOUS
<1> HIDE DEF r
<1> QED BY <1>5, <1>6, <1>7, <1>8 DEF Runs

LEMMA RunExists ==
  ASSUME NEW n, NEW X, NEW V, NEW F, NEW base, NEW seq, Foldable(n, X, V, F, base, seq)
  PROVE  \E r : Runs(r, n, X, F, base, seq)
<1>1. HasFold(1 .. n, X, F, base, seq)
  BY FoldExists
<1>2. PICK it \in [SUBSET (1 .. n) -> X] : Folds(it, 1 .. n, F, base, seq)
  BY <1>1 DEF HasFold
<1>3. Steps(it, n, X, F, base, seq)
  BY <1>2 DEF Folds, Steps
<1> QED BY <1>3, FoldRuns

----------------------------------------------------------------------------
(* Numbers *)

\* The test for overflow before a digit is added is exact: the next value is the
\* mathematical one if that fits, and is refused if and only if it does not.
THEOREM OverflowTestExact ==
  ASSUME NEW parsed \in 0 .. MaxUnsigned, NEW digit \in 0 .. (Base - 1)
  PROVE  AddDigit(parsed, digit) =
           IF parsed * Base + digit <= MaxUnsigned THEN parsed * Base + digit ELSE Invalid
<1> USE DecimalAssumption
<1> DEFINE room == MaxUnsigned - digit
           q == room \div Base
           r == room % Base
<1>1. room \in Nat /\ Base \in Nat \ {0} /\ parsed \in Nat /\ digit \in Nat
  OBVIOUS
<1>2. q \in Int /\ r \in 0 .. (Base - 1) /\ room = Base * q + r
  BY <1>1
<1>3. parsed <= q => parsed * Base <= room
  <2> SUFFICES ASSUME parsed <= q PROVE parsed * Base <= room
    OBVIOUS
  <2>1. parsed * Base <= q * Base
    BY <1>1, <1>2
  <2> QED
    BY <1>1, <1>2, <2>1
<1>4. parsed > q => parsed * Base > room
  <2> SUFFICES ASSUME parsed > q PROVE parsed * Base > room
    OBVIOUS
  <2>1. parsed * Base >= (q + 1) * Base
    BY <1>1, <1>2
  <2>2. (q + 1) * Base = Base * q + Base
    BY <1>1, <1>2
  <2> QED
    BY <1>1, <1>2, <2>1, <2>2
<1>5. parsed * Base \in Nat
  BY <1>1
<1>6. CASE parsed <= q
  <2> DEFINE value == parsed * Base + digit
  <2>1. value \in 0 .. MaxUnsigned
    BY <1>1, <1>3, <1>5, <1>6
  <2>2. value % (MaxUnsigned + 1) = value
    BY <2>1
  <2>3. AddDigit(parsed, digit) = value
    BY <1>1, <1>2, <1>6, <2>2 DEF AddDigit, Invalid
  <2> QED
    BY <2>1, <2>3
<1>7. CASE parsed > q
  <2>1. parsed * Base + digit > MaxUnsigned
    BY <1>1, <1>4, <1>5, <1>7
  <2>2. AddDigit(parsed, digit) = Invalid
    BY <1>1, <1>2, <1>7 DEF AddDigit, Invalid
  <2> QED
    BY <1>1, <1>5, <2>1, <2>2
<1> QED
  BY <1>1, <1>2, <1>6, <1>7

ParsedNumber == (0 .. MaxUnsigned) \cup {Invalid}
DigitStep == [p \in ParsedNumber \X Character |-> AddDigit(p[1], p[2])]

LEMMA AddDigitParsed ==
  ASSUME NEW parsed \in ParsedNumber, NEW digit \in Character
  PROVE  AddDigit(parsed, digit) \in ParsedNumber
<1>1. CASE parsed = Invalid \/ digit = Base
  BY <1>1 DEF AddDigit, ParsedNumber
<1>2. CASE ~(parsed = Invalid \/ digit = Base)
  <2>1. parsed \in 0 .. MaxUnsigned
    BY <1>2 DEF ParsedNumber
  <2>2. digit \in 0 .. (Base - 1)
    BY <1>2, DecimalAssumption DEF Character
  <2>3. parsed * Base + digit \in Nat
    BY <2>1, <2>2, DecimalAssumption
  <2> QED BY <2>1, <2>2, <2>3, OverflowTestExact, DecimalAssumption DEF ParsedNumber
<1> QED BY <1>1, <1>2

\* The digits of a number are added one after the other.
LEMMA ParseRuns ==
  ASSUME NEW text \in Seq(Character)
  PROVE  \E r : /\ Runs(r, Len(text), ParsedNumber, DigitStep, 0, text)
                /\ r[Len(text)] = FoldLeft(AddDigit, 0, text)
<1> DEFINE D == DOMAIN text
           G(it) == [s \in SUBSET D |->
                       IF s = {} THEN 0 ELSE AddDigit(it[s \ {Max(s)}], text[Max(s)])]
           c == CHOOSE it : it = G(it)
<1>1. FoldLeft(AddDigit, 0, text) = c[D]
  BY DEF FoldLeft, MapThenFoldSet
<1>2. D = 1 .. Len(text) /\ Len(text) \in Nat
  OBVIOUS
<1>2a. \A i \in 1 .. Len(text) : text[i] \in Character
  OBVIOUS
<1>3. 0 \in ParsedNumber
  BY DecimalAssumption DEF ParsedNumber
<1>3a. DigitStep \in [ParsedNumber \X Character -> ParsedNumber]
  <2>1. \A p \in ParsedNumber \X Character : p[1] \in ParsedNumber /\ p[2] \in Character
    OBVIOUS
  <2>2. \A p \in ParsedNumber \X Character : AddDigit(p[1], p[2]) \in ParsedNumber
    BY <2>1, AddDigitParsed
  <2> QED BY <2>2 DEF DigitStep
<1>4. PICK it \in [SUBSET D -> ParsedNumber] : Folds(it, D, DigitStep, 0, text)
  <2> HIDE DEF D, c
  <2>1. HasFold(1 .. Len(text), ParsedNumber, DigitStep, 0, text)
    <3> DEFINE n == Len(text)
    <3>1. Foldable(n, ParsedNumber, Character, DigitStep, 0, text)
      BY <1>2, <1>2a, <1>3, <1>3a DEF Foldable
    <3> HIDE DEF n
    <3>2. HasFold(1 .. n, ParsedNumber, DigitStep, 0, text)
      BY <3>1, FoldExists
    <3> QED BY <3>2 DEF n
  <2> QED BY <1>2, <2>1 DEF HasFold
<1>5. it = G(it)
  <2>1. ASSUME NEW s \in SUBSET D, s # {}
        PROVE  it[s] = AddDigit(it[s \ {Max(s)}], text[Max(s)])
    <3>1. Max(s) \in D
      BY <1>2, <2>1, MaxIs
    <3>2. it[s \ {Max(s)}] \in ParsedNumber /\ text[Max(s)] \in Character
      BY <1>2, <1>2a, <1>4, <3>1
    <3> QED BY <1>4, <2>1, <3>2 DEF Folds, DigitStep
  <2>2. it[{}] = 0
    BY <1>4 DEF Folds
  <2> QED BY <2>1, <2>2
<1>6. c = G(c)
  BY <1>5
<1>7. Steps(c, Len(text), ParsedNumber, DigitStep, 0, text)
  <2> HIDE DEF c
  <2>1. c[{}] = 0
    BY <1>6
  <2>2. ASSUME NEW s \in SUBSET D, s # {}, c[s \ {Max(s)}] \in ParsedNumber
        PROVE  c[s] = DigitStep[<<c[s \ {Max(s)}], text[Max(s)]>>]
    <3>1. Max(s) \in D
      BY <1>2, <2>2, MaxIs
    <3>2. text[Max(s)] \in Character
      BY <1>2, <1>2a, <3>1
    <3>3. c[s] = AddDigit(c[s \ {Max(s)}], text[Max(s)])
      BY <1>6, <2>2
    <3> QED BY <2>2, <3>2, <3>3 DEF DigitStep
  <2> QED BY <1>2, <2>1, <2>2 DEF Steps
<1> HIDE DEF c, D
<1>8. \E r : Runs(r, Len(text), ParsedNumber, DigitStep, 0, text) /\ r[Len(text)] = c[1 .. Len(text)]
  <2> DEFINE n == Len(text)
  <2>1. Foldable(n, ParsedNumber, Character, DigitStep, 0, text)
    BY <1>2, <1>2a, <1>3, <1>3a DEF Foldable
  <2>2. Steps(c, n, ParsedNumber, DigitStep, 0, text)
    BY <1>7
  <2> HIDE DEF n
  <2>3. \E r : Runs(r, n, ParsedNumber, DigitStep, 0, text) /\ r[n] = c[1 .. n]
    BY <2>1, <2>2, FoldRuns
  <2> QED BY <2>3 DEF n
<1> QED BY <1>1, <1>2, <1>8

ValueStep == [p \in Nat \X Character |-> p[1] * Base + p[2]]

\* The value of a text is that of its digits, one after the other.
LEMMA ValueRuns ==
  ASSUME NEW text \in Seq(Character)
  PROVE  \E r : Runs(r, Len(text), Nat, ValueStep, 0, text) /\ r[Len(text)] = Value(text)
<1> DEFINE n == Len(text)
           G(v) == [i \in 0 .. n |-> IF i = 0 THEN 0 ELSE v[i - 1] * Base + text[i]]
           v == CHOOSE f : f = G(f)
<1>1. Value(text) = v[n]
  BY DEF Value
<1>2. n \in Nat /\ \A i \in 1 .. n : text[i] \in Character
  OBVIOUS
<1>3. \A p \in Nat \X Character : p[1] * Base + p[2] \in Nat
  <2>1. \A p \in Nat \X Character : p[1] \in Nat /\ p[2] \in Nat
    BY DecimalAssumption DEF Character
  <2>2. \A a, b \in Nat : a * Base + b \in Nat
    BY DecimalAssumption
  <2> QED BY <2>1, <2>2
<1>4. Foldable(n, Nat, Character, ValueStep, 0, text)
  BY <1>2, <1>3 DEF Foldable, ValueStep
<1>5. PICK r : Runs(r, n, Nat, ValueStep, 0, text)
  <2> HIDE DEF n
  <2> QED BY <1>4, RunExists
<1>6. r = G(r)
  <2>1. r \in [0 .. n -> Nat] /\ r[0] = 0
    BY <1>5 DEF Runs
  <2>2. ASSUME NEW i \in 1 .. n PROVE r[i] = r[i - 1] * Base + text[i]
    <3>1. i - 1 \in 0 .. n
      BY <1>2
    <3>2. r[i - 1] \in Nat /\ text[i] \in Character
      BY <1>2, <2>1, <3>1
    <3>3. r[i] = ValueStep[<<r[i - 1], text[i]>>]
      BY <1>5 DEF Runs
    <3> QED BY <3>2, <3>3 DEF ValueStep
  <2>3. \A i \in 0 .. n : i = 0 \/ i \in 1 .. n
    BY <1>2
  <2> HIDE DEF n
  <2> QED BY <2>1, <2>2, <2>3
<1>7. v = G(v)
  BY <1>6
<1>8. v = r
  <2> DEFINE K == {k \in 0 .. n : v[k] = r[k]}
  <2> HIDE DEF v
  <2>1. 0 \in K
    BY <1>2, <1>6, <1>7
  <2>2. ASSUME NEW k \in 1 .. n, k - 1 \in K PROVE k \in K
    <3>1. k \in 0 .. n /\ k # 0
      BY <1>2
    <3>2. v[k] = v[k - 1] * Base + text[k] /\ r[k] = r[k - 1] * Base + text[k]
      BY <1>6, <1>7, <3>1
    <3> QED BY <2>2, <3>1, <3>2
  <2>3. \A k \in 0 .. n : k \in K
    <3> HIDE DEF K, n
    <3> QED BY <1>2, <2>1, <2>2, SetInduction
  <2>4. DOMAIN v = 0 .. n /\ DOMAIN r = 0 .. n
    BY <1>6, <1>7
  <2>5. \A k \in 0 .. n : v[k] = r[k]
    BY <2>3
  <2> HIDE DEF n, K
  <2>6. v = [k \in 0 .. n |-> v[k]] /\ r = [k \in 0 .. n |-> r[k]]
    BY <1>6, <1>7
  <2> QED BY <2>5, <2>6
<1> HIDE DEF v
<1> QED BY <1>1, <1>5, <1>8

LEMMA ValueIsNat ==
  ASSUME NEW text \in Seq(Character)
  PROVE  Value(text) \in Nat
<1>1. PICK r : Runs(r, Len(text), Nat, ValueStep, 0, text) /\ r[Len(text)] = Value(text)
  BY ValueRuns
<1>2. Len(text) \in 0 .. Len(text)
  OBVIOUS
<1> QED BY <1>1, <1>2 DEF Runs

\* A number is parsed to its value, or refused if it has no digits, has other
\* characters, or does not fit.
THEOREM ParsedExactly ==
  ASSUME NEW text \in Seq(Character)
  PROVE  ParseUnsigned(text) =
           IF text # <<>> /\ Numeric(text) /\ Value(text) <= MaxUnsigned
             THEN Value(text) ELSE Invalid
<1> DEFINE n == Len(text)
           Digits(k) == \A i \in 1 .. k : text[i] < Base
<1>1. PICK p : Runs(p, n, ParsedNumber, DigitStep, 0, text) /\ p[n] = FoldLeft(AddDigit, 0, text)
  BY ParseRuns
<1>2. PICK v : Runs(v, n, Nat, ValueStep, 0, text) /\ v[n] = Value(text)
  BY ValueRuns
<1>3. n \in Nat /\ \A i \in 1 .. n : text[i] \in Character
  OBVIOUS
<1> DEFINE K == {k \in 0 .. n : p[k] = IF Digits(k) /\ v[k] <= MaxUnsigned THEN v[k] ELSE Invalid}
<1>4. 0 \in K
  <2>1. p[0] = 0 /\ v[0] = 0
    BY <1>1, <1>2 DEF Runs
  <2> QED BY <1>3, <2>1, DecimalAssumption
<1>5. ASSUME NEW k \in 1 .. n, k - 1 \in K PROVE k \in K
  <2> DEFINE a == p[k - 1]
             b == v[k - 1]
             d == text[k]
  <2>1. k - 1 \in 0 .. n /\ k \in 0 .. n /\ k \in Nat
    BY <1>3
  <2>2. a \in ParsedNumber /\ b \in Nat /\ d \in Character
    BY <1>1, <1>2, <1>3, <2>1 DEF Runs
  <2>3. p[k] = AddDigit(a, d)
    <3>1. p[k] = DigitStep[<<a, d>>]
      BY <1>1 DEF Runs
    <3> QED BY <2>2, <3>1 DEF DigitStep
  <2>4. v[k] = b * Base + d
    <3>1. v[k] = ValueStep[<<b, d>>]
      BY <1>2 DEF Runs
    <3> QED BY <2>2, <3>1 DEF ValueStep
  <2>5. a = IF Digits(k - 1) /\ b <= MaxUnsigned THEN b ELSE Invalid
    BY <1>5
  <2>6. Digits(k) <=> Digits(k - 1) /\ d < Base
    <3>1. \A i \in 1 .. k : i = k \/ i \in 1 .. k - 1
      BY <2>1
    <3>2. \A i \in 1 .. k - 1 : i \in 1 .. k
      BY <2>1
    <3> QED BY <2>1, <3>1, <3>2
  <2> HIDE DEF a, b, d, Digits
  <2>7. CASE Digits(k - 1) /\ b <= MaxUnsigned /\ d < Base
    <3>1. a = b /\ a \in 0 .. MaxUnsigned /\ d \in 0 .. (Base - 1)
      BY <2>2, <2>5, <2>7, DecimalAssumption DEF Character
    <3>2. p[k] = IF a * Base + d <= MaxUnsigned THEN a * Base + d ELSE Invalid
      BY <2>3, <3>1, OverflowTestExact
    <3> QED BY <2>1, <2>4, <2>6, <2>7, <3>1, <3>2
  <2>8. CASE d = Base \/ ~Digits(k - 1)
    <3>1. p[k] = Invalid
      BY <2>3, <2>5, <2>8 DEF AddDigit
    <3>2. ~Digits(k)
      BY <2>6, <2>8, DecimalAssumption
    <3> QED BY <2>1, <3>1, <3>2
  <2>9. CASE b > MaxUnsigned
    <3>1. p[k] = Invalid
      BY <2>2, <2>3, <2>5, <2>9, DecimalAssumption DEF AddDigit
    <3>2. b * Base + d >= b
      <4>1. d \in Nat /\ b \in Nat /\ Base \in Nat /\ Base >= 1
        BY <2>2, DecimalAssumption DEF Character
      <4>2. b * Base >= b
        BY <4>1
      <4>3. b * Base \in Nat
        BY <4>1
      <4> QED BY <4>1, <4>2, <4>3
    <3>3. ~(v[k] <= MaxUnsigned)
      <4>1. b * Base + d \in Nat
        <5>1. d \in Nat /\ Base \in Nat
          BY <2>2, DecimalAssumption DEF Character
        <5> QED BY <2>2, <5>1
      <4> QED BY <2>2, <2>4, <2>9, <3>2, <4>1, DecimalAssumption
    <3> QED BY <2>1, <3>1, <3>3
  <2> QED BY <2>2, <2>7, <2>8, <2>9, DecimalAssumption DEF Character
<1>6. n \in K
  <2> HIDE DEF K, n
  <2>1. \A k \in 0 .. n : k \in K
    BY <1>3, <1>4, <1>5, SetInduction
  <2> QED BY <1>3, <2>1
<1>7. Digits(n) <=> Numeric(text)
  BY DEF Numeric
<1>8. ParseUnsigned(text) = IF text = <<>> THEN Invalid ELSE p[n]
  BY <1>1 DEF ParseUnsigned
<1> HIDE DEF Digits
<1> QED BY <1>2, <1>6, <1>7, <1>8
============================================================================
