------------------------------ MODULE RelaySums ------------------------------
(***************************************************************************)
(* The sums of Relay's ledger: bytes and storage added up over the sessions *)
(* and the catalogue, and what its operators do to one user's counters.     *)
(*                                                                         *)
(* Relay adds up with MapThenSumSet, a fold over a set.  Induction is by a  *)
(* least counterexample: among the subsets of a finite set that violate a   *)
(* claim one is minimal under inclusion (LeastSet).  That is a fact about a *)
(* set, not about an operator, so that every prover can use it.             *)
(***************************************************************************)
EXTENDS Relay, FiniteSetTheorems, TLAPS

\* A set of subsets of a finite set has a minimal element.
LEMMA LeastSet ==
    ASSUME NEW S, IsFiniteSet(S), NEW F \in SUBSET (SUBSET S), F # {}
    PROVE  \E A \in F : \A B \in F : B \subseteq A => B = A
<1>1. F \subseteq FiniteSubsetsOf(S)
  BY FS_FiniteSubsetsOfFinite
<1>2. PICK A \in F : \A B \in F : ~(<<B, A>> \in StrictSubsetOrdering(S))
  BY <1>1, FS_StrictSubsetOrderingWellFounded, WFMin
<1> QED BY Zenon, <1>2 DEF StrictSubsetOrdering

-----------------------------------------------------------------------------
(* The recursion of MapThenSumSet *)

\* The sum of the weights w[x] of the elements of S.
Total(w, S) == MapThenSumSet(LAMBDA x : w[x], S)

Some(s) == CHOOSE x \in s : TRUE

\* g is the function MapThenSumSet defines by recursion over the subsets of S.
Sums(g, w, S) == g = [s \in SUBSET S |-> IF s = {} THEN 0 ELSE w[Some(s)] + g[s \ {Some(s)}]]

LEMMA SomeIsElement == ASSUME NEW s, s # {} PROVE Some(s) \in s
BY DEF Some

LEMMA TotalIsChosen == ASSUME NEW w, NEW S PROVE Total(w, S) = (CHOOSE g : Sums(g, w, S))[S]
BY DEF Total, MapThenSumSet, MapThenFoldSet, Sums, Some

\* What a recursion over the subsets of S and one over those of T, with weights
\* that agree, both define is the same.
LEMMA SumsAgree ==
    ASSUME NEW S, IsFiniteSet(S), NEW T, NEW g, NEW h, NEW w, NEW v, Sums(g, w, S), Sums(h, v, T),
           NEW A \in SUBSET (S \cap T), \A x \in A : w[x] = v[x]
    PROVE  g[A] = h[A]
<1> DEFINE F == {s \in SUBSET A : g[s] # h[s]}
<1>1. F \in SUBSET (SUBSET S)
  OBVIOUS
<1>2. ASSUME F # {} PROVE FALSE
  <2>1. PICK s \in F : \A t \in F : t \subseteq s => t = s
    <3> HIDE DEF F
    <3> QED BY <1>1, <1>2, LeastSet
  <2>2. s \in SUBSET S /\ s \in SUBSET T /\ s \subseteq A
    OBVIOUS
  <2>3. s # {}
    BY <2>2 DEF Sums
  <2> DEFINE x == Some(s)
             t == s \ {x}
  <2>4. x \in s
    BY <2>3, SomeIsElement
  <2> HIDE DEF x
  <2>5. t \in SUBSET A /\ t \subseteq s /\ t # s
    BY <2>2, <2>4
  <2>6. g[t] = h[t]
    BY <2>1, <2>5
  <2>7. g[s] = w[x] + g[t] /\ h[s] = v[x] + h[t]
    BY Zenon, <2>2, <2>3 DEF Sums, x
  <2>8. w[x] = v[x]
    BY <2>2, <2>4
  <2> QED BY <2>1, <2>6, <2>7, <2>8
<1> QED BY <1>2

\* The recursion defines a function.
LEMMA SumsExist ==
    ASSUME NEW S, IsFiniteSet(S), NEW w
    PROVE  \E g : Sums(g, w, S)
<1> DEFINE F == {A \in SUBSET S : ~\E g : Sums(g, w, A)}
<1>1. SUFFICES ASSUME F # {} PROVE FALSE
  OBVIOUS
<1>2. PICK A \in F : \A B \in F : B \subseteq A => B = A
  <2>1. F \in SUBSET (SUBSET S)
    OBVIOUS
  <2> HIDE DEF F
  <2> QED BY <1>1, <2>1, LeastSet
<1> DEFINE H(B) == CHOOSE h : Sums(h, w, B)
           Rest(s) == s \ {Some(s)}
           g == [s \in SUBSET A |-> IF s = {} THEN 0 ELSE w[Some(s)] + H(Rest(s))[Rest(s)]]
<1>3. ASSUME NEW B \in SUBSET A, B # A PROVE Sums(H(B), w, B)
  <2>1. \E h : Sums(h, w, B)
    BY <1>2, <1>3
  <2> QED BY <2>1
<1>4. \A B \in SUBSET A : IsFiniteSet(B)
  BY <1>2, FS_Subset
<1>5. ASSUME NEW s \in SUBSET A, s # {} PROVE Rest(s) \in SUBSET A /\ Rest(s) # A /\ Rest(s) \subseteq s
  BY <1>5, SomeIsElement
<1>6. ASSUME NEW t \in SUBSET A, t # A PROVE g[t] = H(t)[t]
  <2>1. Sums(H(t), w, t)
    BY <1>3, <1>6
  <2>2. CASE t = {}
    <3>1. t \in SUBSET t
      OBVIOUS
    <3>2. H(t)[t] = 0
      <4> HIDE DEF H
      <4> QED BY <2>1, <2>2, <3>1 DEF Sums
    <3> QED BY <2>2, <3>2
  <2>3. CASE t # {}
    <3> DEFINE u == Rest(t)
    <3>1. u \in SUBSET A /\ u # A /\ u \subseteq t
      BY <1>5, <2>3
    <3>2. Sums(H(u), w, u)
      BY Zenon, <1>3, <3>1
    <3>3. g[t] = w[Some(t)] + H(u)[u]
      BY <2>3
    <3> HIDE DEF H, g
    <3>4. H(t)[t] = w[Some(t)] + H(t)[u]
      BY Zenon, <2>1, <2>3 DEF Sums
    <3>5. H(t)[u] = H(u)[u]
      <4>1. IsFiniteSet(t) /\ u \in SUBSET (t \cap u) /\ \A x \in u : w[x] = w[x]
        BY <1>4, <3>1
      <4> HIDE DEF u
      <4> QED BY <2>1, <3>2, <4>1, SumsAgree
    <3> QED BY <3>3, <3>4, <3>5
  <2> QED BY <2>2, <2>3
<1>7. Sums(g, w, A)
  <2>1. ASSUME NEW s \in SUBSET A
        PROVE  g[s] = IF s = {} THEN 0 ELSE w[Some(s)] + g[s \ {Some(s)}]
    <3>1. CASE s = {}
      BY <3>1
    <3>2. CASE s # {}
      <4>1. g[Rest(s)] = H(Rest(s))[Rest(s)]
        <5>1. Rest(s) \in SUBSET A /\ Rest(s) # A
          BY <1>5, <3>2
        <5> HIDE DEF H, g, Rest
        <5> QED BY <1>6, <5>1
      <4>2. g[s] = w[Some(s)] + H(Rest(s))[Rest(s)]
        BY <3>2
      <4> QED BY <3>2, <4>1, <4>2
    <3> QED BY <3>1, <3>2
  <2>2. g = [s \in SUBSET A |-> g[s]]
    OBVIOUS
  <2> HIDE DEF g
  <2> QED BY Zenon, <2>1, <2>2 DEF Sums
<1> QED BY <1>2, <1>7

\* The sum over a subset of S is what the recursion over S assigns to it.
LEMMA TotalIsValue ==
    ASSUME NEW S, IsFiniteSet(S), NEW g, NEW w, NEW v, Sums(g, w, S),
           NEW A \in SUBSET S, \A x \in A : v[x] = w[x]
    PROVE  Total(v, A) = g[A]
<1>1. IsFiniteSet(A)
  BY FS_Subset
<1> DEFINE h == CHOOSE f : Sums(f, v, A)
<1>2. Sums(h, v, A)
  BY <1>1, SumsExist
<1>3. Total(v, A) = h[A]
  BY TotalIsChosen
<1>4. A \in SUBSET (A \cap S)
  OBVIOUS
<1> HIDE DEF h
<1> QED BY <1>1, <1>2, <1>3, <1>4, SumsAgree

-----------------------------------------------------------------------------
(* What a sum is *)

LEMMA TotalEmpty == ASSUME NEW w PROVE Total(w, {}) = 0
<1>1. IsFiniteSet({})
  BY FS_EmptySet
<1>2. PICK g : Sums(g, w, {})
  BY <1>1, SumsExist
<1>3. Total(w, {}) = g[{}]
  BY <1>1, <1>2, TotalIsValue
<1> QED BY <1>2, <1>3 DEF Sums

\* Weights that agree on a set have the same sum over it.
LEMMA TotalSame ==
    ASSUME NEW S, IsFiniteSet(S), NEW v, NEW w, \A x \in S : v[x] = w[x]
    PROVE  Total(v, S) = Total(w, S)
<1>1. PICK g : Sums(g, w, S)
  BY SumsExist
<1>2. S \in SUBSET S
  OBVIOUS
<1>3. Total(v, S) = g[S]
  BY <1>1, <1>2, TotalIsValue
<1>4. Total(w, S) = g[S]
  BY <1>1, <1>2, TotalIsValue
<1> QED BY <1>3, <1>4

LEMMA TotalStep ==
    ASSUME NEW S, IsFiniteSet(S), S # {}, NEW w
    PROVE  Some(S) \in S /\ Total(w, S) = w[Some(S)] + Total(w, S \ {Some(S)})
<1>1. PICK g : Sums(g, w, S)
  BY SumsExist
<1>2. Some(S) \in S
  BY SomeIsElement
<1>3. Total(w, S) = g[S] /\ Total(w, S \ {Some(S)}) = g[S \ {Some(S)}]
  <2>1. S \in SUBSET S /\ S \ {Some(S)} \in SUBSET S
    OBVIOUS
  <2>2. Total(w, S) = g[S]
    BY <1>1, <2>1, TotalIsValue
  <2>3. PICK R : R = S \ {Some(S)}
    BY Zenon
  <2>4. Total(w, R) = g[R]
    BY <1>1, <2>1, <2>3, TotalIsValue
  <2> QED BY <2>2, <2>3, <2>4
<1>4. g[S] = w[Some(S)] + g[S \ {Some(S)}]
  BY Zenon, <1>1 DEF Sums
<1> QED BY <1>2, <1>3, <1>4

\* A sum of naturals is a natural.
LEMMA TotalNat ==
    ASSUME NEW S, IsFiniteSet(S), NEW w, \A x \in S : w[x] \in Nat
    PROVE  Total(w, S) \in Nat
<1> DEFINE F == {A \in SUBSET S : Total(w, A) \notin Nat}
<1>1. SUFFICES ASSUME F # {} PROVE FALSE
  OBVIOUS
<1>2. PICK A \in F : \A B \in F : B \subseteq A => B = A
  <2>1. F \in SUBSET (SUBSET S)
    OBVIOUS
  <2> HIDE DEF F
  <2> QED BY <1>1, <2>1, LeastSet
<1>3. A # {}
  <2>1. Total(w, {}) \in Nat
    BY TotalEmpty
  <2> QED BY Zenon, <1>2, <2>1
<1>4. PICK x \in A : Total(w, A) = w[x] + Total(w, A \ {x})
  BY Zenon, <1>2, <1>3, FS_Subset, TotalStep
<1>5. Total(w, A \ {x}) \in Nat
  BY <1>2, <1>4
<1> QED BY <1>2, <1>4, <1>5

\* Any element may be taken out first.
LEMMA TotalRemove ==
    ASSUME NEW S, IsFiniteSet(S), NEW w, \A y \in S : w[y] \in Nat, NEW x \in S
    PROVE  Total(w, S) = w[x] + Total(w, S \ {x})
<1> DEFINE Bad(A, y) == Total(w, A) # w[y] + Total(w, A \ {y})
           F == {A \in SUBSET S : \E y \in A : Bad(A, y)}
<1>1. SUFFICES ASSUME F # {} PROVE FALSE
  BY Zenon
<1>2. PICK A \in F : \A B \in F : B \subseteq A => B = A
  <2>1. F \in SUBSET (SUBSET S)
    OBVIOUS
  <2> HIDE DEF F
  <2> QED BY <1>1, <2>1, LeastSet
<1>3. PICK z \in A : Bad(A, z)
  OBVIOUS
<1>4. IsFiniteSet(A) /\ A # {} /\ A \in SUBSET S
  BY <1>2, <1>3, FS_Subset
<1>5. PICK y \in A : Total(w, A) = w[y] + Total(w, A \ {y})
  BY Zenon, <1>4, TotalStep
<1>6. y # z
  BY <1>3, <1>5
<1>7. ASSUME NEW a \in A, NEW b \in A, a # b
      PROVE  Total(w, A \ {a}) = w[b] + Total(w, (A \ {a}) \ {b})
  <2>1. A \ {a} \in SUBSET S /\ A \ {a} \subseteq A /\ A \ {a} # A /\ b \in A \ {a}
    BY <1>4, <1>7
  <2>2. A \ {a} \notin F
    BY <1>2, <2>1
  <2> QED BY Zenon, <2>1, <2>2
<1>8. Total(w, A \ {y}) = w[z] + Total(w, (A \ {y}) \ {z})
  BY <1>6, <1>7
<1>9. Total(w, A \ {z}) = w[y] + Total(w, (A \ {z}) \ {y})
  BY <1>6, <1>7
<1>10. (A \ {y}) \ {z} = (A \ {z}) \ {y}
  OBVIOUS
<1>11. w[y] \in Nat /\ w[z] \in Nat
  BY <1>4
<1>12. Total(w, (A \ {z}) \ {y}) \in Nat
  BY Zenon, <1>4, FS_Subset, TotalNat
<1> DEFINE t == Total(w, (A \ {z}) \ {y})
<1>13. Total(w, A) = w[y] + (w[z] + t)
  BY <1>5, <1>8, <1>10
<1>14. Total(w, A) # w[z] + (w[y] + t)
  BY <1>3, <1>9
<1>15. t \in Nat
  BY <1>12
<1> HIDE DEF t
<1> QED BY <1>11, <1>13, <1>14, <1>15

\* A sum splits along a subset.
LEMMA TotalSplit ==
    ASSUME NEW S, IsFiniteSet(S), NEW w, \A y \in S : w[y] \in Nat, NEW T \in SUBSET S
    PROVE  Total(w, S) = Total(w, T) + Total(w, S \ T)
<1> DEFINE F == {A \in SUBSET S : Total(w, S) # Total(w, A) + Total(w, S \ A)}
<1>1. SUFFICES ASSUME F # {} PROVE FALSE
  BY SMTT(30)
<1>2. PICK A \in F : \A B \in F : B \subseteq A => B = A
  <2>1. F \in SUBSET (SUBSET S)
    OBVIOUS
  <2> HIDE DEF F
  <2> QED BY <1>1, <2>1, LeastSet
<1>3. A \in SUBSET S /\ Total(w, S) # Total(w, A) + Total(w, S \ A)
  OBVIOUS
<1>4. \A B \in SUBSET S : IsFiniteSet(B) /\ Total(w, B) \in Nat
  <2> TAKE B \in SUBSET S
  <2>1. IsFiniteSet(B)
    BY FS_Subset
  <2> QED BY <2>1, TotalNat
<1>5. A # {}
  <2>1. Total(w, {}) = 0 /\ S \ {} = S
    BY TotalEmpty
  <2>2. Total(w, S) = 0 + Total(w, S)
    BY <1>4
  <2> QED BY Zenon, <1>3, <2>1, <2>2
<1>6. PICK x \in A : TRUE
  BY <1>5
<1> DEFINE B == A \ {x}
<1>7. B \in SUBSET S /\ B \subseteq A /\ B # A /\ S \ B \in SUBSET S
      /\ x \in S \ B /\ (S \ B) \ {x} = S \ A /\ S \ A \in SUBSET S /\ w[x] \in Nat
  BY <1>3, <1>6
<1>8. Total(w, S) = Total(w, B) + Total(w, S \ B)
  BY <1>2, <1>7
<1>9. Total(w, A) = w[x] + Total(w, B)
  BY <1>3, <1>4, TotalRemove
<1>10. Total(w, S \ B) = w[x] + Total(w, S \ A)
  <2>1. PICK R : R = S \ B
    BY Zenon
  <2>2. IsFiniteSet(R) /\ (\A y \in R : w[y] \in Nat) /\ x \in R
    BY <1>4, <1>7, <2>1
  <2>3. Total(w, R) = w[x] + Total(w, R \ {x})
    BY <2>2, TotalRemove
  <2> QED BY <1>7, <2>1, <2>3
<1>11. Total(w, B) \in Nat /\ Total(w, S \ A) \in Nat /\ w[x] \in Nat
  BY <1>4, <1>7
<1> HIDE DEF B
<1> QED BY <1>3, <1>8, <1>9, <1>10, <1>11

\* A sum over a subset is at most the sum over the set.
LEMMA TotalSubset ==
    ASSUME NEW S, IsFiniteSet(S), NEW w, \A y \in S : w[y] \in Nat, NEW T \in SUBSET S
    PROVE  Total(w, T) \in Nat /\ Total(w, S) \in Nat /\ Total(w, T) <= Total(w, S)
<1>1. IsFiniteSet(T) /\ IsFiniteSet(S \ T)
  BY FS_Subset
<1>2. Total(w, T) \in Nat /\ Total(w, S) \in Nat /\ Total(w, S \ T) \in Nat
  <2>1. Total(w, T) \in Nat
    BY <1>1, TotalNat
  <2>2. Total(w, S \ T) \in Nat
    BY <1>1, TotalNat
  <2> QED BY <2>1, <2>2, TotalNat
<1> QED BY <1>2, TotalSplit

\* Adding an element adds its weight.
LEMMA TotalAdd ==
    ASSUME NEW S, IsFiniteSet(S), NEW w, NEW x, x \notin S, \A y \in S \cup {x} : w[y] \in Nat
    PROVE  Total(w, S \cup {x}) = w[x] + Total(w, S)
<1>1. PICK T : T = S \cup {x}
  BY Zenon
<1>2. IsFiniteSet(T) /\ x \in T /\ T \ {x} = S
  BY <1>1, FS_AddElement
<1> QED BY <1>1, <1>2, TotalRemove

-----------------------------------------------------------------------------
(* The coordinator's state *)

Fields == {"kill", "period", "usage", "relayed", "reserved", "seeds", "pending",
           "recoveries", "emitted"}
Shape(st) == DOMAIN st = Fields

\* The parts of the coordinator that no bookkeeping of bytes touches.
Follows(new, st) == Shape(new) /\ new.kill = st.kill /\ new.emitted = st.emitted

-----------------------------------------------------------------------------
(* What an operator of the ledger leaves alone *)

LEMMA ReleasedFields ==
    ASSUME NEW st, NEW set, Shape(st)
    PROVE  Follows(Released(st, set), st) /\ Released(st, set).pending = st.pending
BY DEF Follows, Shape, Fields, Released

LEMMA ClosedFields ==
    ASSUME NEW st, NEW set, Shape(st)
    PROVE  Follows(Closed(st, set), st) /\ Closed(st, set).pending = st.pending \ set
<1>1. CASE set = {}
  BY <1>1 DEF Follows, Closed
<1>2. CASE set # {}
  BY <1>2, ReleasedFields DEF Follows, Shape, Fields, Closed
<1> QED BY <1>1, <1>2

LEMMA ClosedRecoveries ==
    ASSUME NEW st, NEW set, Shape(st)
    PROVE  Closed(st, set).recoveries = st.recoveries
<1>1. Shape(Released(st, set)) /\ Released(st, set).recoveries = st.recoveries
  BY DEF Shape, Fields, Released
<1> QED BY <1>1 DEF Shape, Fields, Closed

LEMMA TrimmedFields ==
    ASSUME NEW st, NEW now, Shape(st)
    PROVE  Follows(Trimmed(st, now), st) /\ Trimmed(st, now).pending = st.pending
BY DEF Follows, Shape, Fields, Trimmed

LEMMA RolledFields ==
    ASSUME NEW st, NEW p, Shape(st)
    PROVE  Follows(Rolled(st, p), st) /\ Rolled(st, p).pending = st.pending
BY DEF Follows, Shape, Fields, Rolled

LEMMA ReservedFields ==
    ASSUME NEW st, NEW up, NEW down, NEW b, Shape(st)
    PROVE  Follows(Reserved(st, up, down, b), st) /\ Reserved(st, up, down, b).pending = st.pending
BY DEF Follows, Shape, Fields, Reserved

LEMMA UnissuedFields ==
    ASSUME NEW st, NEW up, NEW down, NEW o, Shape(st)
    PROVE  Follows(Unissued(st, up, down, o), st) /\ Unissued(st, up, down, o).pending = st.pending
BY ReservedFields, ReleasedFields DEF Follows, Unissued

LEMMA KilledFields ==
    ASSUME NEW st, Shape(st)
    PROVE  /\ Shape(Killed(st)) /\ Killed(st).emitted = st.emitted
           /\ Killed(st).kill = TRUE /\ Killed(st).pending = {}
BY ClosedFields DEF Follows, Shape, Fields, Killed

\* What a call finds after it reaped the sessions and rolled the period.
LEMMA ReadyFields ==
    ASSUME NEW st, NEW now, NEW p, Shape(st)
    PROVE  /\ Follows(Rolled(Reaped(st, now), p), st)
           /\ Rolled(Reaped(st, now), p).pending = {s \in st.pending : ~(s.expires <= now)}
<1> DEFINE old == {s \in st.pending : s.expires <= now}
<1>1. Follows(Reaped(st, now), st) /\ Reaped(st, now).pending = st.pending \ old
  BY ClosedFields DEF Reaped
<1>2. Shape(Reaped(st, now))
  BY <1>1 DEF Follows
<1>3. /\ Follows(Rolled(Reaped(st, now), p), Reaped(st, now))
      /\ Rolled(Reaped(st, now), p).pending = Reaped(st, now).pending
  BY <1>2, RolledFields
<1> QED BY <1>1, <1>3 DEF Follows

LEMMA RestoredFields ==
    ASSUME NEW st, NEW now, Shape(st)
    PROVE  Follows(Restored(st, now), st) /\ Restored(st, now).pending = {}
<1> DEFINE a == Rolled(st, Period(now))
           b == Closed(a, st.pending)
<1>1. Follows(a, st) /\ a.pending = st.pending
  BY RolledFields
<1>2. Follows(b, a) /\ b.pending = {}
  <2>1. Shape(a)
    BY <1>1 DEF Follows
  <2> HIDE DEF a
  <2> QED BY <2>1, <1>1, ClosedFields
<1>3. Follows(Trimmed(b, now), b) /\ Trimmed(b, now).pending = b.pending
  <2>1. Shape(b)
    BY <1>2 DEF Follows
  <2> HIDE DEF b
  <2> QED BY <2>1, TrimmedFields
<1> QED BY <1>1, <1>2, <1>3 DEF Follows, Restored

-----------------------------------------------------------------------------
(* The sums *)

\* Sessions that may be charged for.
Charged(P) == IsFiniteSet(P) /\ \A s \in P : s.object \in Objects

LEMMA SizeNat == ASSUME NEW o \in Objects PROVE Size[o] \in Nat
BY RelayAssumption

LEMMA BytesIsTotal ==
    ASSUME NEW P, IsFiniteSet(P)
    PROVE  Bytes(P) = Total([s \in P |-> Size[s.object]], P)
<1> DEFINE w == [s \in P |-> Size[s.object]]
           IsBytes(g) == g = [s \in SUBSET P |-> IF s = {} THEN 0
                                                 ELSE Size[Some(s).object] + g[s \ {Some(s)}]]
           b == CHOOSE g : IsBytes(g)
<1>1. Bytes(P) = b[P]
  BY DEF Bytes, MapThenSumSet, MapThenFoldSet, Some
<1>2. \A g : IsBytes(g) <=> Sums(g, w, P)
  <2> TAKE g
  <2>1. ASSUME NEW s \in SUBSET P, s # {} PROVE w[Some(s)] = Size[Some(s).object]
    BY <2>1, SomeIsElement
  <2>2. [s \in SUBSET P |-> IF s = {} THEN 0 ELSE w[Some(s)] + g[s \ {Some(s)}]]
        = [s \in SUBSET P |-> IF s = {} THEN 0 ELSE Size[Some(s).object] + g[s \ {Some(s)}]]
    <3> HIDE DEF w
    <3> QED BY <2>1
  <2> HIDE DEF w
  <2> QED BY <2>2 DEF Sums
<1>3. PICK g : Sums(g, w, P)
  BY SumsExist
<1>4. Sums(b, w, P)
  <2> HIDE DEF IsBytes, w
  <2> QED BY <1>2, <1>3
<1>5. P \in SUBSET P /\ \A x \in P : w[x] = w[x]
  OBVIOUS
<1> HIDE DEF b, w
<1>6. Total(w, P) = b[P]
  BY <1>4, <1>5, TotalIsValue
<1> QED BY <1>1, <1>6 DEF w

\* Bytes of a set and of a part of it, in the weights of the whole.
LEMMA BytesOfPart ==
    ASSUME NEW P, Charged(P), NEW Q \in SUBSET P
    PROVE  Bytes(Q) = Total([s \in P |-> Size[s.object]], Q)
<1> DEFINE w == [s \in P |-> Size[s.object]]
           v == [s \in Q |-> Size[s.object]]
<1>1. IsFiniteSet(Q)
  BY FS_Subset DEF Charged
<1>2. Bytes(Q) = Total(v, Q)
  BY <1>1, BytesIsTotal
<1>3. \A x \in Q : v[x] = w[x]
  OBVIOUS
<1> HIDE DEF v, w
<1>4. Total(v, Q) = Total(w, Q)
  BY <1>1, <1>3, TotalSame
<1> QED BY <1>2, <1>4 DEF w

\* A set of sessions and a part of it: their bytes and their number.
LEMMA BytesSplit ==
    ASSUME NEW P, Charged(P), NEW Q \in SUBSET P
    PROVE  /\ Charged(Q) /\ Charged(P \ Q)
           /\ Bytes(P) \in Nat /\ Bytes(Q) \in Nat /\ Bytes(P \ Q) \in Nat
           /\ Bytes(P) = Bytes(Q) + Bytes(P \ Q)
           /\ Cardinality(P) \in Nat /\ Cardinality(Q) \in Nat /\ Cardinality(P \ Q) \in Nat
           /\ Cardinality(P) = Cardinality(Q) + Cardinality(P \ Q)
<1> DEFINE w == [s \in P |-> Size[s.object]]
<1>1. Charged(Q) /\ Charged(P \ Q)
  BY FS_Subset DEF Charged
<1>2. \A s \in P : w[s] \in Nat
  BY SizeNat DEF Charged
<1>3. Bytes(P) = Total(w, P) /\ Bytes(Q) = Total(w, Q) /\ Bytes(P \ Q) = Total(w, P \ Q)
  <2>1. Bytes(P) = Total(w, P)
    BY BytesOfPart
  <2>2. Bytes(P \ Q) = Total(w, P \ Q)
    BY BytesOfPart
  <2> QED BY <2>1, <2>2, BytesOfPart
<1> HIDE DEF w
<1>4. Total(w, P) = Total(w, Q) + Total(w, P \ Q)
  BY <1>2, TotalSplit DEF Charged
<1>5. Total(w, P) \in Nat /\ Total(w, Q) \in Nat /\ Total(w, P \ Q) \in Nat
  <2>1. Total(w, Q) \in Nat /\ Total(w, P) \in Nat
    BY <1>2, TotalSubset DEF Charged
  <2>2. Total(w, P \ Q) \in Nat
    BY <1>1, <1>2, TotalNat DEF Charged
  <2> QED BY <2>1, <2>2
<1>6. Cardinality(P) \in Nat /\ Cardinality(Q) \in Nat /\ Cardinality(P \ Q) \in Nat
  BY <1>1, FS_CardinalityType DEF Charged
<1>7. Cardinality(P) = Cardinality(Q) + Cardinality(P \ Q)
  <2>1. Cardinality(P \ Q) = Cardinality(P) - Cardinality(P \cap Q)
    BY Zenon, FS_Difference DEF Charged
  <2>2. P \cap Q = Q
    OBVIOUS
  <2> QED BY <1>6, <2>1, <2>2
<1> QED BY <1>1, <1>3, <1>4, <1>5, <1>6, <1>7

LEMMA BytesAdd ==
    ASSUME NEW P, Charged(P), NEW s, s \notin P, s.object \in Objects
    PROVE  /\ Charged(P \cup {s})
           /\ Bytes(P) \in Nat /\ Bytes(P \cup {s}) = Bytes(P) + Size[s.object]
           /\ Cardinality(P) \in Nat /\ Cardinality(P \cup {s}) = Cardinality(P) + 1
<1> DEFINE Q == P \cup {s}
           w == [r \in Q |-> Size[r.object]]
<1>1. Charged(Q) /\ P \in SUBSET Q
  BY FS_AddElement DEF Charged
<1>2. /\ Bytes(P) \in Nat /\ Bytes(Q) = Total(w, Q) /\ Bytes(P) = Total(w, P)
      /\ Cardinality(P) \in Nat
  <2>1. Q \in SUBSET Q
    OBVIOUS
  <2>2. Bytes(Q) = Total(w, Q) /\ Bytes(P) = Total(w, P)
    <3> HIDE DEF Q
    <3> QED BY <1>1, <2>1, BytesOfPart
  <2> QED BY Zenon, <1>1, <2>2, BytesSplit
<1>3. \A r \in P \cup {s} : w[r] \in Nat
  BY <1>1, SizeNat DEF Charged
<1>4. w[s] = Size[s.object]
  OBVIOUS
<1>5. Total(w, P \cup {s}) = w[s] + Total(w, P)
  <2> HIDE DEF w, Q
  <2> QED BY Zenon, <1>3, TotalAdd DEF Charged
<1>6. Cardinality(P \cup {s}) = Cardinality(P) + 1
  BY Zenon, FS_AddElement DEF Charged
<1>7. Size[s.object] \in Nat
  BY SizeNat
<1> QED BY <1>1, <1>2, <1>4, <1>5, <1>6, <1>7

SeedSize == [e \in Users \X Objects |-> Size[e[2]]]
SeedsOf(seeds, u) == {e \in seeds : e[1] = u}

LEMMA SeedsFinite ==
    ASSUME NEW seeds \in SUBSET (Users \X Objects), NEW u
    PROVE  /\ IsFiniteSet(SeedsOf(seeds, u)) /\ SeedsOf(seeds, u) \subseteq Users \X Objects
           /\ \A e \in SeedsOf(seeds, u) : SeedSize[e] \in Nat
<1>1. IsFiniteSet(Users \X Objects)
  BY FS_Product, RelayAssumption
<1>2. SeedsOf(seeds, u) \subseteq Users \X Objects
  BY DEF SeedsOf
<1>3. IsFiniteSet(SeedsOf(seeds, u))
  BY <1>1, <1>2, FS_Subset
<1>4. ASSUME NEW e \in Users \X Objects PROVE SeedSize[e] \in Nat
  BY SizeNat DEF SeedSize
<1> QED BY <1>2, <1>3, <1>4

LEMMA StorageIsTotal ==
    ASSUME NEW seeds \in SUBSET (Users \X Objects), NEW u
    PROVE  StorageOf(seeds, u) = Total(SeedSize, SeedsOf(seeds, u))
<1> DEFINE P == SeedsOf(seeds, u)
           IsBytes(g) == g = [s \in SUBSET P |-> IF s = {} THEN 0
                                                 ELSE Size[Some(s)[2]] + g[s \ {Some(s)}]]
           b == CHOOSE g : IsBytes(g)
<1>0. IsFiniteSet(P) /\ P \subseteq Users \X Objects
  BY SeedsFinite
<1>1. StorageOf(seeds, u) = b[P]
  BY DEF StorageOf, MapThenSumSet, MapThenFoldSet, Some, SeedsOf
<1> HIDE DEF P
<1>2. \A g : IsBytes(g) <=> Sums(g, SeedSize, P)
  <2> TAKE g
  <2>1. ASSUME NEW s \in SUBSET P, s # {} PROVE SeedSize[Some(s)] = Size[Some(s)[2]]
    BY <1>0, <2>1, SomeIsElement DEF SeedSize
  <2>2. [s \in SUBSET P |-> IF s = {} THEN 0 ELSE SeedSize[Some(s)] + g[s \ {Some(s)}]]
        = [s \in SUBSET P |-> IF s = {} THEN 0 ELSE Size[Some(s)[2]] + g[s \ {Some(s)}]]
    BY <2>1
  <2> QED BY <2>2 DEF Sums
<1>3. PICK g : Sums(g, SeedSize, P)
  BY <1>0, SumsExist
<1>4. Sums(b, SeedSize, P)
  <2> HIDE DEF IsBytes
  <2> QED BY <1>2, <1>3
<1>5. P \in SUBSET P /\ \A x \in P : SeedSize[x] = SeedSize[x]
  OBVIOUS
<1> HIDE DEF b
<1>6. Total(SeedSize, P) = b[P]
  BY <1>0, <1>4, <1>5, TotalIsValue
<1> QED BY <1>1, <1>6 DEF P

LEMMA StorageSplit ==
    ASSUME NEW seeds \in SUBSET (Users \X Objects), NEW old \in SUBSET seeds, NEW u
    PROVE  /\ StorageOf(seeds, u) \in Nat /\ StorageOf(old, u) \in Nat
           /\ StorageOf(seeds \ old, u) \in Nat
           /\ StorageOf(seeds, u) = StorageOf(old, u) + StorageOf(seeds \ old, u)
<1> DEFINE S == SeedsOf(seeds, u)
           T == SeedsOf(old, u)
<1>1. T \in SUBSET S /\ SeedsOf(seeds \ old, u) = S \ T
  BY DEF SeedsOf
<1>2. IsFiniteSet(S) /\ \A e \in S : SeedSize[e] \in Nat
  BY SeedsFinite
<1>3. StorageOf(seeds, u) = Total(SeedSize, S)
  BY StorageIsTotal
<1>4. StorageOf(old, u) = Total(SeedSize, T)
  BY StorageIsTotal
<1>5. StorageOf(seeds \ old, u) = Total(SeedSize, S \ T)
  <2>1. seeds \ old \in SUBSET (Users \X Objects)
    OBVIOUS
  <2>2. StorageOf(seeds \ old, u) = Total(SeedSize, SeedsOf(seeds \ old, u))
    BY <2>1, StorageIsTotal
  <2> QED BY Zenon, <1>1, <2>2
<1> HIDE DEF S, T
<1>6. Total(SeedSize, S) = Total(SeedSize, T) + Total(SeedSize, S \ T)
  BY <1>1, <1>2, TotalSplit
<1>7. Total(SeedSize, S) \in Nat /\ Total(SeedSize, T) \in Nat
  BY <1>1, <1>2, TotalSubset
<1>8. Total(SeedSize, S \ T) \in Nat
  <2>1. S \ T \in SUBSET S
    OBVIOUS
  <2> QED BY <1>2, <2>1, TotalSubset
<1> QED BY <1>3, <1>4, <1>5, <1>6, <1>7, <1>8

\* more has one seed that seeds has not, that of object o by user u.
AddsSeed(seeds, more, u, o) == <<u, o>> \notin seeds /\ more = seeds \cup {<<u, o>>}

\* The storage of user v grows by the object's size when v is u, and stays otherwise.
AddsStorage(seeds, more, u, o, v) ==
    /\ StorageOf(seeds, v) \in Nat /\ Size[o] \in Nat
    /\ v = u => StorageOf(more, v) = StorageOf(seeds, v) + Size[o]
    /\ v # u => StorageOf(more, v) = StorageOf(seeds, v)

LEMMA StorageAdd ==
    ASSUME NEW seeds \in SUBSET (Users \X Objects), NEW u \in Users, NEW o \in Objects,
           NEW more, AddsSeed(seeds, more, u, o), NEW v
    PROVE  AddsStorage(seeds, more, u, o, v)
<1>0. PICK e : e = <<u, o>> /\ e \notin seeds /\ more = seeds \cup {e}
  BY Zenon DEF AddsSeed
<1>1. more \in SUBSET (Users \X Objects)
  BY <1>0
<1>2. /\ IsFiniteSet(SeedsOf(seeds, v))
      /\ \A x \in SeedsOf(more, v) : SeedSize[x] \in Nat
  BY <1>1, SeedsFinite
<1>3. StorageOf(more, v) = Total(SeedSize, SeedsOf(more, v))
  BY <1>1, StorageIsTotal
<1>4. StorageOf(seeds, v) = Total(SeedSize, SeedsOf(seeds, v))
  BY StorageIsTotal
<1>5. StorageOf(seeds, v) \in Nat
  BY Zenon, StorageSplit
<1>6. SeedSize[e] = Size[o] /\ Size[o] \in Nat
  BY <1>0, SizeNat DEF SeedSize
<1>7. CASE v = u
  <2>1. SeedsOf(more, v) = SeedsOf(seeds, v) \cup {e} /\ e \notin SeedsOf(seeds, v)
    BY <1>0, <1>7 DEF SeedsOf
  <2>2. Total(SeedSize, SeedsOf(seeds, v) \cup {e}) = SeedSize[e] + Total(SeedSize, SeedsOf(seeds, v))
    BY Zenon, <1>2, <2>1, TotalAdd
  <2>3. StorageOf(more, v) = Size[o] + StorageOf(seeds, v)
    BY <1>3, <1>4, <1>6, <2>1, <2>2
  <2>4. StorageOf(more, v) = StorageOf(seeds, v) + Size[o]
    BY <1>5, <1>6, <2>3
  <2> QED BY <1>5, <1>6, <1>7, <2>4 DEF AddsStorage
<1>8. CASE v # u
  <2>1. SeedsOf(more, v) = SeedsOf(seeds, v)
    BY <1>0, <1>8 DEF SeedsOf
  <2> QED BY <1>3, <1>4, <1>5, <1>6, <1>8, <2>1 DEF AddsStorage
<1> QED BY <1>7, <1>8

-----------------------------------------------------------------------------
(* The operators of the ledger *)

\* Each counter agrees with the pending sessions or with the seeds, and is within its
\* quota.
Sound(st) ==
    /\ st \in Snapshots /\ IsFiniteSet(st.pending)
    /\ TransfersAccepted(st) /\ StorageAccepted(st)

LEMMA LessType ==
    ASSUME NEW a \in Nat, NEW b \in Nat
    PROVE  Less(a, b) \in Nat /\ Less(a + b, a) = b /\ Less(a + b, b) = a
BY DEF Less

LEMMA BytesType ==
    ASSUME NEW P, Charged(P)
    PROVE  /\ Bytes(P) \in Nat /\ Cardinality(P) \in Nat
           /\ \A u : /\ Charged(UpOf(P, u)) /\ Charged(DownOf(P, u))
                     /\ Bytes(UpOf(P, u)) \in Nat /\ Bytes(DownOf(P, u)) \in Nat
                     /\ Cardinality(UpOf(P, u)) \in Nat /\ Cardinality(DownOf(P, u)) \in Nat
<1>1. P \in SUBSET P
  OBVIOUS
<1>2. ASSUME NEW u PROVE UpOf(P, u) \in SUBSET P /\ DownOf(P, u) \in SUBSET P
  BY DEF UpOf, DownOf
<1> QED BY Zenon, <1>1, <1>2, BytesSplit

LEMMA FreedUse ==
    ASSUME NEW use \in Usages, NEW up, Charged(up), NEW down, Charged(down)
    PROVE  /\ Freed(use, up, down) \in Usages
           /\ Freed(use, up, down).uploaded = use.uploaded
           /\ Freed(use, up, down).downloaded = use.downloaded
           /\ Freed(use, up, down).storage = use.storage
           /\ Freed(use, up, down).reservedUp = Less(use.reservedUp, Bytes(up))
           /\ Freed(use, up, down).reservedDown = Less(use.reservedDown, Bytes(down))
           /\ Freed(use, up, down).activeUp = Less(use.activeUp, Cardinality(up))
           /\ Freed(use, up, down).activeDown = Less(use.activeDown, Cardinality(down))
<1>1. PICK a \in Nat : a = Less(use.reservedUp, Bytes(up))
  BY BytesType, LessType DEF Usages
<1>2. PICK b \in Nat : b = Less(use.activeUp, Cardinality(up))
  BY BytesType, LessType DEF Usages
<1>3. PICK c \in Nat : c = Less(use.reservedDown, Bytes(down))
  BY BytesType, LessType DEF Usages
<1>4. PICK d \in Nat : d = Less(use.activeDown, Cardinality(down))
  BY SMTT(30), BytesType, LessType DEF Usages
<1>5. Freed(use, up, down) = [use EXCEPT !.reservedUp = a, !.activeUp = b, !.reservedDown = c, !.activeDown = d]
  BY <1>1, <1>2, <1>3, <1>4, Zenon DEF Freed
<1>6. PICK new : new = [use EXCEPT !.reservedUp = a, !.activeUp = b, !.reservedDown = c, !.activeDown = d]
  OBVIOUS
<1>7. /\ new \in Usages /\ new.uploaded = use.uploaded /\ new.downloaded = use.downloaded
      /\ new.storage = use.storage
      /\ new.reservedUp = a /\ new.reservedDown = c /\ new.activeUp = b /\ new.activeDown = d
  BY Zenon, <1>6 DEF Usages
<1> QED BY <1>1, <1>2, <1>3, <1>4, <1>5, <1>6, <1>7

LEMMA SpentUse ==
    ASSUME NEW use \in Usages, NEW up, Charged(up), NEW down, Charged(down)
    PROVE  /\ Spent(use, up, down) \in Usages
           /\ Spent(use, up, down).uploaded = use.uploaded + Bytes(up)
           /\ Spent(use, up, down).downloaded = use.downloaded + Bytes(down)
           /\ Spent(use, up, down).storage = use.storage
           /\ Spent(use, up, down).reservedUp = use.reservedUp
           /\ Spent(use, up, down).reservedDown = use.reservedDown
           /\ Spent(use, up, down).activeUp = use.activeUp
           /\ Spent(use, up, down).activeDown = use.activeDown
<1>1. PICK a \in Nat : a = use.uploaded + Bytes(up)
  BY BytesType DEF Usages
<1>2. PICK b \in Nat : b = use.downloaded + Bytes(down)
  BY BytesType DEF Usages
<1>3. Spent(use, up, down) = [use EXCEPT !.uploaded = a, !.downloaded = b]
  BY <1>1, <1>2, Zenon DEF Spent
<1> QED BY Zenon, <1>1, <1>2, <1>3 DEF Usages

\* What a coordinator keeps for a user that neither transfers nor advertises.
LEMMA UsageType ==
    ASSUME NEW st \in Snapshots
    PROVE  /\ st.usage \in [Users -> Usages] /\ st.relayed \in Nat /\ st.reserved \in Nat
           /\ st.period \in Nat /\ st.pending \subseteq Sessions
           /\ st.seeds \in SUBSET (Users \X Objects)
           /\ Shape(st)
           /\ \A u \in Users : st.usage[u] \in Usages
BY DEF Snapshots, Shape, Fields

LEMMA PendingCharged ==
    ASSUME NEW st \in Snapshots, IsFiniteSet(st.pending), NEW set \in SUBSET st.pending
    PROVE  /\ Charged(set)
           /\ \A u : /\ Charged(UpOf(set, u)) /\ Charged(DownOf(set, u))
                     /\ UpOf(set, u) \subseteq UpOf(st.pending, u)
                     /\ DownOf(set, u) \subseteq DownOf(st.pending, u)
                     /\ UpOf(st.pending \ set, u) = UpOf(st.pending, u) \ UpOf(set, u)
                     /\ DownOf(st.pending \ set, u) = DownOf(st.pending, u) \ DownOf(set, u)
<1>1. Charged(set)
  BY FS_Subset, UsageType DEF Charged, Sessions
<1> QED BY Zenon, <1>1, BytesType DEF UpOf, DownOf

LEMMA ReleasedState ==
    ASSUME NEW st \in Snapshots, NEW set, Charged(set)
    PROVE  /\ Released(st, set) \in Snapshots
           /\ Released(st, set).reserved = Less(st.reserved, Bytes(set))
           /\ Released(st, set).relayed = st.relayed
           /\ Released(st, set).period = st.period
           /\ Released(st, set).seeds = st.seeds
           /\ Released(st, set).recoveries = st.recoveries
           /\ \A u \in Users :
                Released(st, set).usage[u] = Freed(st.usage[u], UpOf(set, u), DownOf(set, u))
<1>1. PICK r \in Nat : r = Less(st.reserved, Bytes(set))
  BY Zenon, BytesType, LessType, UsageType
<1>2. PICK use \in [Users -> Usages] :
        use = [u \in Users |-> Freed(st.usage[u], UpOf(set, u), DownOf(set, u))]
  BY Zenon, BytesType, FreedUse, UsageType
<1>3. Released(st, set) = [st EXCEPT !.reserved = r, !.usage = use]
  BY <1>1, <1>2, Zenon DEF Released
<1>4. PICK new : new = [st EXCEPT !.reserved = r, !.usage = use]
  OBVIOUS
<1>5. /\ new \in Snapshots /\ new.reserved = r /\ new.relayed = st.relayed
      /\ new.period = st.period /\ new.seeds = st.seeds /\ new.recoveries = st.recoveries
      /\ new.usage = use
  BY Zenon, <1>4 DEF Snapshots
<1> QED BY <1>1, <1>2, <1>3, <1>4, <1>5

LEMMA EmptySums ==
    /\ Charged({}) /\ Bytes({}) = 0 /\ Cardinality({}) = 0
    /\ \A u : UpOf({}, u) = {} /\ DownOf({}, u) = {}
<1>1. Charged({}) /\ Cardinality({}) = 0
  BY FS_EmptySet DEF Charged
<1>2. Bytes({}) = 0
  <2>1. Bytes({}) = Total([s \in {} |-> Size[s.object]], {})
    BY Zenon, <1>1, BytesIsTotal DEF Charged
  <2> QED BY <2>1, TotalEmpty
<1> QED BY <1>1, <1>2 DEF UpOf, DownOf

\* Closing sessions moves what they reserved to what was used.
LEMMA ClosedState ==
    ASSUME NEW st \in Snapshots, IsFiniteSet(st.pending), NEW set \in SUBSET st.pending
    PROVE  /\ Closed(st, set) \in Snapshots
           /\ Closed(st, set).pending = st.pending \ set
           /\ Closed(st, set).reserved = Less(st.reserved, Bytes(set))
           /\ Closed(st, set).relayed = st.relayed + Bytes(set)
           /\ Closed(st, set).period = st.period
           /\ Closed(st, set).seeds = st.seeds
           /\ Closed(st, set).recoveries = st.recoveries
           /\ \A u \in Users :
                Closed(st, set).usage[u] =
                    IF set = {} THEN st.usage[u]
                    ELSE Spent(Freed(st.usage[u], UpOf(set, u), DownOf(set, u)),
                               UpOf(set, u), DownOf(set, u))
<1>1. CASE set = {}
  <2>1. Less(st.reserved, 0) = st.reserved /\ st.relayed + 0 = st.relayed
    BY UsageType DEF Less
  <2> QED BY <1>1, <2>1, EmptySums DEF Closed
<1>2. CASE set # {}
  <2> DEFINE old == Released(st, set)
  <2>1. Charged(set) /\ \A u : Charged(UpOf(set, u)) /\ Charged(DownOf(set, u))
    BY Zenon, PendingCharged
  <2>2. /\ old \in Snapshots /\ old.reserved = Less(st.reserved, Bytes(set))
        /\ old.relayed = st.relayed /\ old.period = st.period /\ old.seeds = st.seeds
        /\ old.recoveries = st.recoveries
        /\ \A u \in Users : old.usage[u] = Freed(st.usage[u], UpOf(set, u), DownOf(set, u))
    BY <2>1, ReleasedState
  <2>3. old.pending = st.pending
    BY ReleasedFields, UsageType
  <2>4. Closed(st, set) = [old EXCEPT !.pending = @ \ set, !.relayed = @ + Bytes(set),
                !.usage = [u \in Users |-> Spent(@[u], UpOf(set, u), DownOf(set, u))]]
    BY <1>2, Zenon DEF Closed
  <2> HIDE DEF old
  <2>5. PICK r \in Nat : r = old.relayed + Bytes(set)
    BY SMTT(30), <2>1, <2>2, BytesType, UsageType
  <2>6. PICK use \in [Users -> Usages] :
            use = [u \in Users |-> Spent(old.usage[u], UpOf(set, u), DownOf(set, u))]
    BY Zenon, <2>1, <2>2, SpentUse, UsageType
  <2>7. PICK p \in SUBSET Sessions : p = old.pending \ set
    BY Zenon, <2>2, UsageType
  <2>8. Closed(st, set) = [old EXCEPT !.pending = p, !.relayed = r, !.usage = use]
    BY <2>4, <2>5, <2>6, <2>7, Zenon
  <2>9. PICK new : new = [old EXCEPT !.pending = p, !.relayed = r, !.usage = use]
    OBVIOUS
  <2>10. /\ new \in Snapshots /\ new.pending = p /\ new.relayed = r /\ new.usage = use
         /\ new.reserved = old.reserved /\ new.period = old.period /\ new.seeds = old.seeds
         /\ new.recoveries = old.recoveries
    BY Zenon, <2>2, <2>9 DEF Snapshots
  <2> QED BY SMTT(30), <1>2, <2>2, <2>3, <2>5, <2>6, <2>7, <2>8, <2>9, <2>10
<1> QED BY Zenon, <1>1, <1>2

\* A user's part of the ledger, before and after sessions were closed.
LEMMA ClosedUse ==
    ASSUME NEW use \in Usages, NEW up, NEW down, Charged(up), Charged(down),
           Bytes(up) <= use.reservedUp, Bytes(down) <= use.reservedDown,
           Cardinality(up) <= use.activeUp, Cardinality(down) <= use.activeDown
    PROVE  LET new == Spent(Freed(use, up, down), up, down)
           IN  /\ new \in Usages /\ new.storage = use.storage
               /\ new.reservedUp = use.reservedUp - Bytes(up)
               /\ new.reservedDown = use.reservedDown - Bytes(down)
               /\ new.activeUp = use.activeUp - Cardinality(up)
               /\ new.activeDown = use.activeDown - Cardinality(down)
               /\ new.uploaded + new.reservedUp = use.uploaded + use.reservedUp
               /\ new.downloaded + new.reservedDown = use.downloaded + use.reservedDown
<1> DEFINE mid == Freed(use, up, down)
           new == Spent(mid, up, down)
<1>1. /\ mid \in Usages
      /\ mid.uploaded = use.uploaded /\ mid.downloaded = use.downloaded /\ mid.storage = use.storage
      /\ mid.reservedUp = Less(use.reservedUp, Bytes(up))
      /\ mid.reservedDown = Less(use.reservedDown, Bytes(down))
      /\ mid.activeUp = Less(use.activeUp, Cardinality(up))
      /\ mid.activeDown = Less(use.activeDown, Cardinality(down))
  BY FreedUse
<1> HIDE DEF mid
<1>2. /\ new \in Usages
      /\ new.uploaded = mid.uploaded + Bytes(up) /\ new.downloaded = mid.downloaded + Bytes(down)
      /\ new.storage = mid.storage
      /\ new.reservedUp = mid.reservedUp /\ new.reservedDown = mid.reservedDown
      /\ new.activeUp = mid.activeUp /\ new.activeDown = mid.activeDown
  BY <1>1, SpentUse
<1> HIDE DEF new
<1>3. /\ Bytes(up) \in Nat /\ Bytes(down) \in Nat /\ Cardinality(up) \in Nat /\ Cardinality(down) \in Nat
      /\ use.uploaded \in Nat /\ use.downloaded \in Nat /\ use.reservedUp \in Nat
      /\ use.reservedDown \in Nat /\ use.activeUp \in Nat /\ use.activeDown \in Nat
  BY BytesType DEF Usages
<1>4. \A a, b \in Nat : b <= a => Less(a, b) = a - b
  BY DEF Less
<1>5. /\ new.reservedUp = use.reservedUp - Bytes(up)
      /\ new.reservedDown = use.reservedDown - Bytes(down)
      /\ new.activeUp = use.activeUp - Cardinality(up)
      /\ new.activeDown = use.activeDown - Cardinality(down)
  BY <1>1, <1>2, <1>3, <1>4
<1>6. new.uploaded = use.uploaded + Bytes(up) /\ new.downloaded = use.downloaded + Bytes(down)
  BY <1>1, <1>2
<1>7. new.uploaded + new.reservedUp = use.uploaded + use.reservedUp
  BY <1>3, <1>5, <1>6
<1>8. new.downloaded + new.reservedDown = use.downloaded + use.reservedDown
  BY <1>3, <1>5, <1>6
<1> QED BY <1>1, <1>2, <1>5, <1>7, <1>8 DEF new, mid

-----------------------------------------------------------------------------
(* What a call may do to the ledger without a snapshot *)

\* In month p, what is used and reserved is within what was in month p0, or within what
\* was reserved when a month has ended since.
Within(p, used, held, p0, used0, held0) ==
    held <= held0 /\ used + held <= (IF p0 < p THEN 0 ELSE used0) + held0

Reduces(new, old) ==
    /\ new.kill = old.kill /\ new.emitted = old.emitted /\ new.recoveries = old.recoveries
    /\ old.period <= new.period
    /\ Within(new.period, new.relayed, new.reserved, old.period, old.relayed, old.reserved)
    /\ \A u \in Users :
        LET n == new.usage[u]
            o == old.usage[u]
        IN  /\ Within(new.period, n.uploaded, n.reservedUp, old.period, o.uploaded, o.reservedUp)
            /\ Within(new.period, n.downloaded, n.reservedDown, old.period, o.downloaded, o.reservedDown)

LEMMA UseType ==
    ASSUME NEW use \in Usages
    PROVE  /\ use.uploaded \in Nat /\ use.downloaded \in Nat /\ use.storage \in Nat
           /\ use.reservedUp \in Nat /\ use.reservedDown \in Nat
           /\ use.activeUp \in Nat /\ use.activeDown \in Nat
BY DEF Usages

LEMMA ReducesSelf ==
    ASSUME NEW st \in Snapshots
    PROVE  Reduces(st, st)
<1>1. st.relayed \in Nat /\ st.reserved \in Nat /\ st.period \in Nat
  BY UsageType
<1>2. \A p, a, b \in Nat : Within(p, a, b, p, a, b)
  BY DEF Within
<1>3. ASSUME NEW u \in Users
      PROVE  LET n == st.usage[u]
             IN  /\ Within(st.period, n.uploaded, n.reservedUp, st.period, n.uploaded, n.reservedUp)
                 /\ Within(st.period, n.downloaded, n.reservedDown, st.period, n.downloaded, n.reservedDown)
  BY <1>1, <1>2, UsageType, UseType
<1> QED BY <1>1, <1>2, <1>3 DEF Reduces

LEMMA WithinTrans ==
    ASSUME NEW p \in Nat, NEW p1 \in Nat, NEW p0 \in Nat, p0 <= p1, p1 <= p,
           NEW a \in Nat, NEW b \in Nat, NEW a1 \in Nat, NEW b1 \in Nat, NEW a0 \in Nat, NEW b0 \in Nat,
           Within(p1, a1, b1, p0, a0, b0), Within(p, a, b, p1, a1, b1)
    PROVE  Within(p, a, b, p0, a0, b0)
<1>1. CASE p1 < p
  BY <1>1 DEF Within
<1>2. CASE p1 = p /\ p0 < p1
  BY <1>2 DEF Within
<1>3. CASE p1 = p /\ p0 = p1
  BY SMTT(30), <1>3 DEF Within
<1> QED BY <1>1, <1>2, <1>3

LEMMA ReducesTrans ==
    ASSUME NEW new \in Snapshots, NEW mid \in Snapshots, NEW old \in Snapshots,
           Reduces(new, mid), Reduces(mid, old)
    PROVE  Reduces(new, old)
<1>1. /\ new.relayed \in Nat /\ new.reserved \in Nat /\ new.period \in Nat
      /\ mid.relayed \in Nat /\ mid.reserved \in Nat /\ mid.period \in Nat
      /\ old.relayed \in Nat /\ old.reserved \in Nat /\ old.period \in Nat
  BY SMTT(30), UsageType
<1>2. old.period <= mid.period /\ mid.period <= new.period /\ old.period <= new.period
  BY <1>1 DEF Reduces
<1>3. Within(new.period, new.relayed, new.reserved, old.period, old.relayed, old.reserved)
  <2>1. /\ Within(mid.period, mid.relayed, mid.reserved, old.period, old.relayed, old.reserved)
        /\ Within(new.period, new.relayed, new.reserved, mid.period, mid.relayed, mid.reserved)
    BY DEF Reduces
  <2> QED BY Zenon, <1>1, <1>2, <2>1, WithinTrans
<1>4. ASSUME NEW u \in Users
      PROVE  LET n == new.usage[u]
                 o == old.usage[u]
             IN  /\ Within(new.period, n.uploaded, n.reservedUp, old.period, o.uploaded, o.reservedUp)
                 /\ Within(new.period, n.downloaded, n.reservedDown, old.period, o.downloaded, o.reservedDown)
  <2>1. PICK n \in Usages : n = new.usage[u]
    BY UsageType
  <2>2. PICK m \in Usages : m = mid.usage[u]
    BY UsageType
  <2>3. PICK o \in Usages : o = old.usage[u]
    BY SMTT(30), UsageType
  <2>4. /\ Within(mid.period, m.uploaded, m.reservedUp, old.period, o.uploaded, o.reservedUp)
        /\ Within(mid.period, m.downloaded, m.reservedDown, old.period, o.downloaded, o.reservedDown)
        /\ Within(new.period, n.uploaded, n.reservedUp, mid.period, m.uploaded, m.reservedUp)
        /\ Within(new.period, n.downloaded, n.reservedDown, mid.period, m.downloaded, m.reservedDown)
    BY SMTT(30), <2>1, <2>2, <2>3 DEF Reduces
  <2>5. Within(new.period, n.uploaded, n.reservedUp, old.period, o.uploaded, o.reservedUp)
    BY Zenon, <1>1, <1>2, <2>4, UseType, WithinTrans
  <2>6. Within(new.period, n.downloaded, n.reservedDown, old.period, o.downloaded, o.reservedDown)
    BY Zenon, <1>1, <1>2, <2>4, UseType, WithinTrans
  <2> QED BY <2>1, <2>3, <2>5, <2>6
<1>5. /\ new.kill = old.kill /\ new.emitted = old.emitted /\ new.recoveries = old.recoveries
  BY DEF Reduces
<1> QED BY Zenon, <1>2, <1>3, <1>4, <1>5 DEF Reduces

=============================================================================
