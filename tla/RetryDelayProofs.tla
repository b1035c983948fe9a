-------------------------- MODULE RetryDelayProofs --------------------------
(***************************************************************************)
(* Proofs about the retry delay for any integer widths, any validated      *)
(* policies and any number of attempts.                                    *)
(*                                                                         *)
(* What Factor computes follows by induction, as the least counterexample  *)
(* of a set of numbers; the powers of two are counted as sets of subsets.  *)
(***************************************************************************)
EXTENDS RetryDelay, FiniteSetTheorems, TLAPS

-----------------------------------------------------------------------------
(* Induction.                                                              *)

\* A set of subsets of a finite set has a minimal element.
LEMMA LeastSet ==
  ASSUME NEW S, IsFiniteSet(S), NEW F \in SUBSET (SUBSET S), F # {}
  PROVE  \E A \in F : \A B \in F : B \subseteq A => B = A
<1>1. F \subseteq FiniteSubsetsOf(S)
  BY FS_FiniteSubsetsOfFinite
<1>2. PICK A \in F : \A B \in F : ~(<<B, A>> \in StrictSubsetOrdering(S))
  BY <1>1, FS_StrictSubsetOrderingWellFounded, WFMin
<1> QED BY <1>2 DEF StrictSubsetOrdering

\* A set of natural numbers has a least element.
LEMMA LeastNat ==
  ASSUME NEW N \in SUBSET Nat, N # {}
  PROVE  \E n \in N : \A m \in N : n <= m
<1>1. PICK k \in N : TRUE
  OBVIOUS
<1> DEFINE F == {0 .. m : m \in {m \in N : m <= k}}
<1>2. IsFiniteSet(0 .. k)
  BY FS_Interval
<1>3. F \in SUBSET (SUBSET (0 .. k)) /\ F # {}
  <2>1. \A m \in N : m <= k => 0 .. m \subseteq 0 .. k
    OBVIOUS
  <2>2. 0 .. k \in F
    OBVIOUS
  <2> QED BY <2>1, <2>2
<1>4. PICK A \in F : \A B \in F : B \subseteq A => B = A
  <2>1. PICK K : K = 0 .. k
    OBVIOUS
  <2>2. IsFiniteSet(K) /\ F \in SUBSET (SUBSET K) /\ F # {}
    BY <1>2, <1>3, <2>1
  <2> HIDE DEF F
  <2> QED BY <2>2, LeastSet
<1>5. PICK n \in N : n <= k /\ A = 0 .. n
  OBVIOUS
<1>6. ASSUME NEW m \in N, m < n PROVE FALSE
  <2>1. 0 .. m \in F /\ 0 .. m \subseteq A
    BY <1>5, <1>6
  <2>2. 0 .. m = 0 .. n
    BY <1>4, <1>5, <2>1
  <2>3. n \in 0 .. n /\ n \notin 0 .. m
    BY <1>6
  <2> QED BY <2>2, <2>3
<1> QED BY <1>5, <1>6


-----------------------------------------------------------------------------
(* Powers of two.                                                          *)

\* An interval has as many subsets as its length doubles.
LEMMA PowerCounts == ASSUME NEW n \in Nat PROVE Cardinality(SUBSET (1 .. n)) = 2^n
<1>1. IsFiniteSet(1 .. n) /\ Cardinality(1 .. n) = n
  BY FS_Interval
<1>2. PICK S : S = 1 .. n
  OBVIOUS
<1>3. IsFiniteSet(S) /\ Cardinality(S) = n
  BY <1>1, <1>2
<1>4. Cardinality(SUBSET S) = 2^Cardinality(S)
  BY <1>3, FS_SUBSET
<1> QED BY <1>2, <1>3, <1>4

LEMMA PowerType == ASSUME NEW n \in Nat PROVE 2^n \in Nat
<1>1. IsFiniteSet(1 .. n)
  BY FS_Interval
<1>2. PICK S : S = 1 .. n
  OBVIOUS
<1>3. IsFiniteSet(SUBSET S)
  BY <1>1, <1>2, FS_SUBSET
<1>4. Cardinality(SUBSET S) \in Nat
  BY <1>3, FS_CardinalityType
<1> QED BY <1>2, <1>4, PowerCounts

LEMMA PowerZero == 2^0 = 1
<1>1. 1 .. 0 = {}
  OBVIOUS
<1>2. SUBSET (1 .. 0) = {{}}
  BY <1>1
<1>3. Cardinality({{}}) = 1
  BY FS_Singleton
<1> QED BY <1>2, <1>3, PowerCounts

\* The subsets of 1 .. n + 1 are those of 1 .. n, with and without n + 1.
LEMMA PowerStep == ASSUME NEW n \in Nat PROVE 2^(n + 1) = 2 * 2^n
<1> DEFINE A == SUBSET (1 .. n)
           B == {T \cup {n + 1} : T \in A}
           f == [T \in A |-> T \cup {n + 1}]
<1>1. SUBSET (1 .. n + 1) = A \cup B
  <2>1. ASSUME NEW U \in SUBSET (1 .. n + 1) PROVE U \in A \cup B
    <3>1. CASE n + 1 \in U
      <4>1. U \ {n + 1} \in A /\ U = (U \ {n + 1}) \cup {n + 1}
        BY <3>1
      <4> QED BY <4>1
    <3>2. CASE n + 1 \notin U
      BY <3>2
    <3> QED BY <3>1, <3>2
  <2>2. ASSUME NEW T \in A PROVE T \in SUBSET (1 .. n + 1) /\ T \cup {n + 1} \in SUBSET (1 .. n + 1)
    OBVIOUS
  <2>3. A \subseteq SUBSET (1 .. n + 1) /\ B \subseteq SUBSET (1 .. n + 1)
    <3>1. PICK All : All = SUBSET (1 .. n + 1)
      OBVIOUS
    <3>2. \A T \in A : T \in All /\ T \cup {n + 1} \in All
      BY <2>2, <3>1
    <3>3. A \subseteq All
      BY <3>2
    <3>4. \A U \in B : \E T \in A : U = T \cup {n + 1}
      OBVIOUS
    <3>5. B \subseteq All
      BY <3>2, <3>4
    <3> QED BY <3>1, <3>3, <3>5
  <2> HIDE DEF A, B
  <2> QED BY <2>1, <2>3
<1>2. A \cap B = {}
  BY n + 1 \notin 1 .. n
<1>3. IsFiniteSet(A)
  <2>1. PICK S : S = 1 .. n
    OBVIOUS
  <2>2. IsFiniteSet(S)
    BY <2>1, FS_Interval
  <2>3. IsFiniteSet(SUBSET S)
    BY <2>2, FS_SUBSET
  <2> QED BY <2>1, <2>3
<1>4. f \in Bijection(A, B)
  <2>1. f \in [A -> B] /\ \A b \in B : \E a \in A : f[a] = b
    OBVIOUS
  <2>2. \A T \in A : n + 1 \notin T
    OBVIOUS
  <2>3. \A T, U \in A : T \cup {n + 1} = U \cup {n + 1} => T = U
    BY <2>2
  <2>4. \A T, U \in A : f[T] = f[U] => T = U
    BY <2>3
  <2>5. f \in Injection(A, B)
    <3>1. \A T, U \in DOMAIN f : f[T] = f[U] => T = U
      BY <2>4
    <3> QED BY <2>1, <3>1 DEF Injection, IsInjective
  <2>6. f \in Surjection(A, B)
    BY <2>1 DEF Surjection
  <2> QED BY <2>5, <2>6 DEF Bijection
<1> HIDE DEF A, B, f
<1>5. IsFiniteSet(B) /\ Cardinality(B) = Cardinality(A)
  <2>1. ExistsBijection(A, B)
    BY <1>4 DEF ExistsBijection
  <2> QED BY <1>3, <2>1, FS_Bijection
<1>6. Cardinality(A \cup B) = Cardinality(A) + Cardinality(B) - Cardinality(A \cap B)
  BY <1>3, <1>5, FS_Union
<1>7. Cardinality(A \cap B) = 0 /\ Cardinality(A) \in Nat
  BY <1>2, <1>3, FS_EmptySet, FS_CardinalityType
<1>8. Cardinality(A \cup B) = 2 * Cardinality(A)
  BY <1>5, <1>6, <1>7
<1>9. Cardinality(A) = 2^n /\ Cardinality(A \cup B) = 2^(n + 1)
  BY <1>1, PowerCounts DEF A
<1> QED BY <1>8, <1>9

-----------------------------------------------------------------------------
(* What the computation of the source computes.                            *)

Doubling(g) == g = [n \in Nat |-> IF n = 0 THEN 1
                                  ELSE IF 2 * g[n - 1] > U64Max THEN U64Max ELSE 2 * g[n - 1]]

\* checked_pow with its fallback is the power of two, cut off at u64::MAX.
Capped(n) == IF 2^n > U64Max THEN U64Max ELSE 2^n

LEMMA FactorDoubles == ASSUME I64Max >= 1 PROVE Doubling(Factor)
<1> DEFINE g == [n \in Nat |-> Capped(n)]
<1>0. U64Max \in Nat /\ U64Max >= 3
  BY DelayAssumption
<1>1. Capped(0) = 1
  BY <1>0, PowerZero DEF Capped
<1>2. ASSUME NEW n \in Nat, n # 0
      PROVE  Capped(n) = IF 2 * Capped(n - 1) > U64Max THEN U64Max ELSE 2 * Capped(n - 1)
  <2>1. PICK m \in Nat : m = n - 1
    BY <1>2
  <2>2. 2^n = 2 * 2^m
    <3>1. n = m + 1
      BY <2>1
    <3> QED BY <3>1, PowerStep
  <2>3. PICK x \in Nat : x = 2^m
    BY PowerType
  <2>4. Capped(n) = (IF 2 * x > U64Max THEN U64Max ELSE 2 * x)
        /\ Capped(m) = (IF x > U64Max THEN U64Max ELSE x)
    BY <2>2, <2>3 DEF Capped
  <2>5. Capped(n) = IF 2 * Capped(m) > U64Max THEN U64Max ELSE 2 * Capped(m)
    BY <1>0, <2>4
  <2> QED BY <2>1, <2>5
<1>3. ASSUME NEW n \in Nat
      PROVE  g[n] = IF n = 0 THEN 1
                    ELSE IF 2 * g[n - 1] > U64Max THEN U64Max ELSE 2 * g[n - 1]
  <2>1. CASE n = 0
    BY <1>1, <2>1
  <2>2. CASE n # 0
    <3>1. n - 1 \in Nat
      BY <2>2
    <3>2. g[n - 1] = Capped(n - 1) /\ g[n] = Capped(n)
      BY <3>1
    <3> QED BY <1>2, <2>2, <3>2
  <2> QED BY <2>1, <2>2
<1>4. Doubling(g)
  <2> DEFINE h == [n \in Nat |-> IF n = 0 THEN 1
                                 ELSE IF 2 * g[n - 1] > U64Max THEN U64Max ELSE 2 * g[n - 1]]
  <2>1. \A n \in Nat : g[n] = h[n]
    BY <1>3
  <2>2. g = h
    BY <2>1
  <2> QED BY <2>2 DEF Doubling
<1>5. Factor = CHOOSE f : Doubling(f)
  BY DEF Factor, Doubling
<1> QED BY <1>4, <1>5

LEMMA FactorIsPower ==
  ASSUME I64Max >= 1, NEW n \in Nat
  PROVE  Factor[n] = Capped(n)
<1> DEFINE N == {k \in Nat : Factor[k] # Capped(k)}
<1> SUFFICES ASSUME N # {} PROVE FALSE
  OBVIOUS
<1>0. U64Max \in Nat /\ U64Max >= 3
  BY DelayAssumption
<1>1. PICK k \in N : \A m \in N : k <= m
  BY LeastNat
<1>2. \A m \in Nat : Factor[m] = IF m = 0 THEN 1
                                 ELSE IF 2 * Factor[m - 1] > U64Max THEN U64Max
                                                                    ELSE 2 * Factor[m - 1]
  <2>1. PICK f : f = Factor
    OBVIOUS
  <2>2. f = [m \in Nat |-> IF m = 0 THEN 1
                           ELSE IF 2 * f[m - 1] > U64Max THEN U64Max ELSE 2 * f[m - 1]]
    BY <2>1, FactorDoubles DEF Doubling
  <2>3. \A m \in Nat : f[m] = IF m = 0 THEN 1
                              ELSE IF 2 * f[m - 1] > U64Max THEN U64Max ELSE 2 * f[m - 1]
    BY <2>2
  <2> QED BY <2>1, <2>3
<1>3. k # 0
  <2>1. Factor[0] = 1 /\ Capped(0) = 1
    BY <1>0, <1>2, PowerZero DEF Capped
  <2> QED BY <1>1, <2>1
<1>4. PICK m \in Nat : k = m + 1
  BY <1>1, <1>3
<1>5. m \notin N /\ k - 1 = m
  BY <1>1, <1>4
<1>6. PICK x \in Nat : x = 2^m
  BY PowerType
<1>7. 2^k = 2 * x
  BY <1>4, <1>6, PowerStep
<1>8. Factor[m] = IF x > U64Max THEN U64Max ELSE x
  BY <1>5, <1>6 DEF Capped
<1>9. Factor[k] = IF 2 * Factor[m] > U64Max THEN U64Max ELSE 2 * Factor[m]
  BY <1>1, <1>2, <1>3, <1>5
<1>10. Factor[k] = IF 2 * x > U64Max THEN U64Max ELSE 2 * x
  BY <1>0, <1>8, <1>9
<1> QED BY <1>1, <1>7, <1>10 DEF Capped

-----------------------------------------------------------------------------
(* Arithmetic.                                                             *)

LEMMA TimesAtLeast == ASSUME NEW a \in Nat, NEW b \in Nat, a >= 1 PROVE a * b \in Nat /\ a * b >= b
BY SMT

LEMMA TimesMonotone ==
  ASSUME NEW a \in Nat, NEW b \in Nat, NEW c \in Nat, b <= c
  PROVE  a * b <= a * c
BY SMT

LEMMA TimesCancel ==
  ASSUME NEW a \in Nat, NEW b \in Nat, NEW c \in Nat, c >= 1, a * c <= b * c
  PROVE  a <= b
BY SMT

LEMMA DivBelow ==
  ASSUME NEW a \in Nat, NEW b \in Nat, b >= 1
  PROVE  a \div b \in Nat /\ (a \div b) * b <= a
BY SMT

LEMMA ModBelow == ASSUME NEW a \in Nat, NEW b \in Nat, a < b PROVE a % b = a
BY SMT

-----------------------------------------------------------------------------
(* The delay.                                                              *)

LEMMA PolicyFacts ==
  ASSUME NEW p \in Policies
  PROVE  /\ p.initial \in Nat /\ p.initial >= 1 /\ p.initial <= p.ceiling
         /\ p.ceiling \in Nat /\ p.ceiling <= U64Max
         /\ p.jitter \in Nat /\ 2 * p.jitter <= Percent
         /\ I64Max \in Nat /\ I64Max >= 1 /\ U64Max = 2 * I64Max + 1
         /\ Percent \in Nat /\ Percent >= 1
<1>1. p \in [initial : 1 .. U64Max, ceiling : 1 .. U64Max, jitter : 0 .. Percent \div 2]
  BY DelayAssumption
<1>2. /\ p.initial \in 1 .. U64Max /\ p.ceiling \in 1 .. U64Max
      /\ p.jitter \in 0 .. Percent \div 2 /\ p.initial <= p.ceiling
  BY <1>1, DelayAssumption
<1>3. I64Max \in Nat /\ I64Max >= 1 /\ Percent \in Nat /\ Percent >= 1 /\ U64Max = 2 * I64Max + 1
  BY DelayAssumption
<1>4. Percent \div 2 \in Nat /\ (Percent \div 2) * 2 <= Percent
  BY <1>3, DivBelow
<1> QED BY <1>2, <1>3, <1>4

\* Before jitter, the delay is the exponential one capped by the ceiling: the
\* saturations of the source never show.
LEMMA BaseIsExponential ==
  ASSUME NEW p \in Policies, NEW n \in Nat, n >= 1
  PROVE  /\ Base(p, n) = Exponential(p, n)
         /\ Base(p, n) \in 1 .. p.ceiling
<1>1. PICK m \in Nat : m = n - 1
  OBVIOUS
<1>2. PICK x \in Nat : x = 2^m
  BY PowerType
<1>3. PICK f \in Nat : f = Factor[m] /\ f = IF x > U64Max THEN U64Max ELSE x
  <2>1. I64Max >= 1 /\ U64Max \in Nat
    BY PolicyFacts
  <2>2. Factor[m] = Capped(m)
    BY <2>1, FactorIsPower
  <2>3. Capped(m) = IF x > U64Max THEN U64Max ELSE x
    BY <1>2 DEF Capped
  <2>4. Capped(m) \in Nat
    BY <2>1, <2>3
  <2> QED BY <2>2, <2>3, <2>4
<1>4. PICK init \in Nat : init = p.initial /\ init >= 1
  BY PolicyFacts
<1>5. PICK top \in Nat : top = p.ceiling /\ init <= top /\ top <= U64Max /\ U64Max \in Nat
  <2>1. /\ p.initial <= p.ceiling /\ p.ceiling \in Nat /\ p.ceiling <= U64Max
        /\ I64Max \in Nat /\ U64Max = 2 * I64Max + 1
    BY PolicyFacts
  <2>2. p.ceiling <= U64Max /\ U64Max \in Nat
    BY <2>1
  <2> QED BY <1>4, <2>1, <2>2
<1>6. x >= 1
  <2>1. Cardinality(SUBSET (1 .. m)) = x
    BY <1>2, PowerCounts
  <2>2. PICK S : S = SUBSET (1 .. m)
    OBVIOUS
  <2>3. IsFiniteSet(S) /\ S # {}
    <3>1. PICK R : R = 1 .. m
      OBVIOUS
    <3>2. IsFiniteSet(R)
      BY <3>1, FS_Interval
    <3>3. IsFiniteSet(SUBSET R)
      BY <3>2, FS_SUBSET
    <3>4. {} \in SUBSET R
      OBVIOUS
    <3> QED BY <2>2, <3>1, <3>3, <3>4
  <2>4. Cardinality(S) # 0
    BY <2>3, FS_EmptySet
  <2> QED BY <2>1, <2>2, <2>4
<1>7. Base(p, n) = AtMost(Saturate(init * f), top)
  BY <1>1, <1>3, <1>4, <1>5 DEF Base
<1>8. CASE x > U64Max
  <2>1. f = U64Max /\ init * f >= f /\ init * f \in Nat
    BY <1>3, <1>4, <1>8, TimesAtLeast
  <2>2. init * x >= x /\ init * x \in Nat
    BY <1>4, TimesAtLeast
  <2>3. PICK y \in Nat : y = init * f
    BY <2>1
  <2>4. PICK z \in Nat : z = init * x
    BY <2>2
  <2>5. AtMost(Saturate(y), top) = top
    BY <1>5, <2>1, <2>3 DEF AtMost, Saturate
  <2>6. AtMost(z, top) = top
    BY <1>5, <1>8, <2>2, <2>4 DEF AtMost
  <2>7. Base(p, n) = top /\ AtMost(init * x, top) = top
    BY <1>7, <2>3, <2>4, <2>5, <2>6
  <2>8. top >= 1
    BY <1>4, <1>5
  <2> QED BY <1>1, <1>2, <1>4, <1>5, <2>7, <2>8 DEF Exponential
<1>9. CASE ~(x > U64Max)
  <2>1. f = x
    BY <1>3, <1>9
  <2>2. init * x >= x /\ init * x \in Nat
    BY <1>4, TimesAtLeast
  <2>3. PICK z \in Nat : z = init * x /\ z >= 1
    BY <1>6, <2>2
  <2>4. AtMost(Saturate(z), top) = AtMost(z, top) /\ AtMost(z, top) \in 1 .. top
    BY <1>4, <1>5, <2>3 DEF AtMost, Saturate
  <2>5. Base(p, n) = AtMost(z, top)
    BY <1>7, <2>1, <2>3, <2>4
  <2> QED BY <1>1, <1>2, <1>4, <1>5, <2>3, <2>4, <2>5 DEF Exponential
<1> QED BY <1>8, <1>9

\* The jitter is at most half of the delay, to either side.
LEMMA SpanAtMostHalf ==
  ASSUME NEW p \in Policies, NEW n \in Nat, n >= 1
  PROVE  /\ Span(p, n) \in Nat /\ 2 * Span(p, n) <= Base(p, n)
         /\ Offsets(p, n) = 0 - Span(p, n) .. Span(p, n)
<1>1. PICK b \in Nat : b = Base(p, n) /\ b >= 1 /\ b <= p.ceiling
  BY BaseIsExponential, PolicyFacts
<1>2. PICK j \in Nat : j = p.jitter /\ 2 * j <= Percent
  BY PolicyFacts
<1>3. PICK y \in Nat : y = b * j
  OBVIOUS
<1>4. PICK w \in Nat : w = Saturate(y) /\ w <= y
  BY PolicyFacts DEF Saturate
<1>5. PICK s \in Nat : s = w \div Percent /\ s * Percent <= w
  BY PolicyFacts, DivBelow
<1>6. Span(p, n) = s
  BY <1>1, <1>2, <1>3, <1>4, <1>5 DEF Span
<1>7. 2 * s <= b
  <2>1. b * (2 * j) <= b * Percent
    BY <1>2, PolicyFacts, TimesMonotone
  <2>2. s * Percent \in Nat /\ s * Percent <= b * j
    BY <1>3, <1>4, <1>5, PolicyFacts
  <2>3. (2 * s) * Percent = 2 * (s * Percent) /\ b * (2 * j) = 2 * (b * j)
    BY PolicyFacts
  <2>4. (2 * s) * Percent <= b * Percent
    BY <1>3, <2>1, <2>2, <2>3, PolicyFacts
  <2>5. 2 * s \in Nat
    OBVIOUS
  <2> QED BY <2>4, <2>5, PolicyFacts, TimesCancel
<1>8. (Saturate(Saturate(2 * s) + 1) - 1) - s = s
  BY <1>1, <1>7, PolicyFacts DEF Saturate
<1> QED BY <1>1, <1>6, <1>7, <1>8 DEF Offsets

\* Within the signed range the cast and the second cap lose nothing.
LEMMA JitteredBounds ==
  ASSUME NEW p \in Policies, NEW n \in Nat, n >= 1, NEW offset \in Offsets(p, n),
         Base(p, n) <= I64Max
  PROVE  /\ Jittered(p, n, offset) \in 1 .. p.ceiling
         /\ 2 * Jittered(p, n, offset) >= Base(p, n)
         /\ Jittered(p, n, offset) <= AtMost((3 * Base(p, n)) \div 2, p.ceiling)
<1>1. PICK b \in Nat : b = Base(p, n) /\ b >= 1 /\ b <= p.ceiling /\ b <= I64Max
  BY BaseIsExponential, PolicyFacts
<1>2. PICK s \in Nat : s = Span(p, n) /\ 2 * s <= b
  BY <1>1, SpanAtMostHalf
<1>3. offset \in Int /\ 0 - s <= offset /\ offset <= s
  BY <1>2, SpanAtMostHalf
<1>4. PICK sum \in Nat : sum = b + offset /\ sum >= 1 /\ 2 * sum >= b /\ 2 * sum <= 3 * b
  BY <1>1, <1>2, <1>3, PolicyFacts
<1>5. sum % (U64Max + 1) = sum
  <2>1. sum < U64Max + 1 /\ U64Max + 1 \in Nat
    BY <1>1, <1>4, PolicyFacts
  <2> QED BY <2>1, ModBelow
<1>6. Jittered(p, n, offset) = AtMost(sum, p.ceiling)
  BY <1>1, <1>4, <1>5 DEF Jittered
<1>7. PICK half \in Nat : half = (3 * b) \div 2 /\ sum <= half
  BY <1>4
<1> QED BY <1>1, <1>4, <1>6, <1>7, PolicyFacts DEF AtMost

\* A time with room for the delay, half as much again and at most the ceiling, has
\* room for the delay.
LEMMA RoomForBase ==
  ASSUME NEW p \in Policies, NEW n \in Nat, n >= 1, NEW t \in Nat, Room(p, n, t)
  PROVE  t + Base(p, n) <= I64Max
<1>1. PICK b \in Nat : b = Base(p, n) /\ b = Exponential(p, n) /\ b <= p.ceiling
  BY BaseIsExponential, PolicyFacts
<1>2. PICK half \in Nat : half = (3 * b) \div 2 /\ b <= half
  OBVIOUS
<1>3. t + AtMost(half, p.ceiling) <= I64Max
  BY <1>1, <1>2 DEF Room
<1> QED BY <1>1, <1>2, <1>3, PolicyFacts DEF AtMost

\* The delay of a failed attempt is what delay_after_attempt and the jitter make
\* of it, and the outcome is what finish_failure_with_delay answers to it.
DelayInv ==
    /\ policy \in Policies /\ attempt \in Nat /\ now \in Nat
    /\ outcome \in {"none", "retry", "failed", "rejected"}
    /\ outcome # "none" =>
          /\ attempt >= 1
          /\ \E offset \in Offsets(policy, attempt) : delay = Jittered(policy, attempt, offset)
          /\ outcome = Recorded(policy, attempt, now, delay)

LEMMA DelayAlways == Spec => []DelayInv
<1>1. Init => DelayInv
  BY DelayAssumption DEF Init, DelayInv
<1>2. DelayInv /\ [Next]_vars => DelayInv'
  <2> SUFFICES ASSUME DelayInv, [Next]_vars PROVE DelayInv'
    OBVIOUS
  <2>1. CASE FailAgain
    <3>1. policy' = policy /\ attempt' = attempt + 1 /\ now' \in Nat
      BY <2>1, DelayAssumption DEF FailAgain
    <3>2. outcome' \in {"none", "retry", "failed", "rejected"}
      BY <2>1 DEF FailAgain, Recorded
    <3> QED BY <2>1, <3>1, <3>2 DEF DelayInv, FailAgain
  <2>2. CASE RecoverAttempt
    BY <2>2 DEF DelayInv, RecoverAttempt
  <2>3. CASE UNCHANGED vars
    BY <2>3 DEF DelayInv, vars
  <2> QED BY <2>1, <2>2, <2>3 DEF Next
<1> QED BY <1>1, <1>2, PTL DEF Spec

\* finish_failure_with_delay accepts every delay that the policy and the jitter
\* compute, whenever the time leaves room for it: none is zero, above the ceiling,
\* or too large for a timestamp.  For any integer width, any ceiling up to u64::MAX,
\* any time and any number of attempts, saturation and the cast included.
THEOREM DelaysAccepted == Spec => []DelayAccepted
<1>1. DelayInv => DelayAccepted
  <2> SUFFICES ASSUME DelayInv, outcome = "rejected", Room(policy, attempt, now) PROVE FALSE
    BY DEF DelayAccepted
  <2>1. policy \in Policies /\ attempt \in Nat /\ attempt >= 1 /\ now \in Nat
    BY DEF DelayInv
  <2>2. PICK offset \in Offsets(policy, attempt) : delay = Jittered(policy, attempt, offset)
    BY DEF DelayInv
  <2>3. PICK b \in Nat : b = Base(policy, attempt) /\ b = Exponential(policy, attempt)
    BY <2>1, BaseIsExponential, PolicyFacts
  <2>4. now + b <= I64Max /\ b <= I64Max
    <3>1. now + Base(policy, attempt) <= I64Max
      BY <2>1, RoomForBase
    <3>2. I64Max \in Nat
      BY <2>1, PolicyFacts
    <3> QED BY <2>1, <2>3, <3>1, <3>2
  <2>5. /\ delay \in 1 .. policy.ceiling
        /\ delay <= AtMost((3 * b) \div 2, policy.ceiling)
    BY <2>1, <2>2, <2>3, <2>4, JitteredBounds
  <2>6. now + AtMost((3 * b) \div 2, policy.ceiling) <= I64Max
    BY <2>3 DEF Room
  <2>7. AtMost((3 * b) \div 2, policy.ceiling) \in Nat
    BY <2>1, PolicyFacts DEF AtMost
  <2>8. delay \in Nat /\ delay # 0 /\ ~(delay > policy.ceiling) /\ now + delay <= I64Max
    BY <2>1, <2>5, <2>6, <2>7, PolicyFacts
  <2>9. Fits(now, b) /\ Fits(now, delay)
    <3>1. I64Max \in Nat
      BY <2>1, PolicyFacts
    <3>2. delay <= I64Max
      BY <2>1, <2>8, <3>1
    <3> QED BY <2>4, <2>8, <3>2 DEF Fits
  <2>10. Recorded(policy, attempt, now, delay) # "rejected"
    BY <2>3, <2>8, <2>9 DEF Recorded
  <2> QED BY <2>10 DEF DelayInv
<1> QED BY <1>1, DelayAlways, PTL

\* Backoff never collapses, at any attempt count and under any ceiling: the
\* saturating doubling and the jitter keep at least half of the exponential delay,
\* capped by the ceiling, in every delay that is recorded.
THEOREM BackoffNeverCollapses == Spec => []BackoffHolds
<1>1. DelayInv => BackoffHolds
  <2> SUFFICES ASSUME DelayInv, outcome = "retry"
               PROVE  2 * delay >= Exponential(policy, attempt)
    BY DEF BackoffHolds
  <2>1. policy \in Policies /\ attempt \in Nat /\ attempt >= 1 /\ now \in Nat
    BY DEF DelayInv
  <2>2. PICK offset \in Offsets(policy, attempt) : delay = Jittered(policy, attempt, offset)
    BY DEF DelayInv
  <2>3. Base(policy, attempt) <= I64Max
    BY DEF DelayInv, Recorded, Fits
  <2>4. 2 * delay >= Base(policy, attempt)
    BY <2>1, <2>2, <2>3, JitteredBounds
  <2>5. Base(policy, attempt) = Exponential(policy, attempt)
    BY <2>1, BaseIsExponential
  <2> QED BY <2>4, <2>5
<1> QED BY <1>1, DelayAlways, PTL

=============================================================================
