----------------------------- MODULE Recursion ------------------------------
(***************************************************************************)
(* Induction over numbers and sequences, and functions defined by          *)
(* recursion, with sets and functions in the place of predicates: in this  *)
(* form the facts can be used for the operators of the models, which are   *)
(* defined by recursive functions.                                         *)
(***************************************************************************)
EXTENDS Lists, FiniteSets, SequenceTheorems, FiniteSetTheorems,
        WellFoundedInduction, TLAPS

\* A set that has 0 and, with every number below N, the next one, has all up to N: there
\* is no least number that it lacks.
LEMMA InductionUpTo ==
  ASSUME NEW N \in Nat, NEW G, 0 \in G, \A n \in 1..N : n - 1 \in G => n \in G
  PROVE  \A n \in 0..N : n \in G
<1> DEFINE T == {n \in 0..N : n \notin G}
<1> SUFFICES ASSUME T # {} PROVE FALSE
  OBVIOUS
<1>1. T \subseteq Nat
  OBVIOUS
<1>2. PICK m \in T : \A y \in T : ~(<<y, m>> \in OpToRel(<, Nat))
  BY <1>1, WFMin, NatLessThanWellFounded
<1>3. \A y \in T : ~(y < m)
  BY <1>1, <1>2 DEF OpToRel
<1>4. m \in 1..N
  OBVIOUS
<1>5. m - 1 \in 0..N /\ m - 1 < m
  BY <1>4
<1>6. m - 1 \in G
  BY <1>3, <1>5
<1> QED
  BY <1>4, <1>6

\* f and g begin with the same value and go on from equal values to equal values.
SameSteps(f, g, N) ==
  f[0] = g[0] /\ \A n \in 1..N : f[n - 1] = g[n - 1] => f[n] = g[n]

\* Two functions defined by the same recursion are equal.
LEMMA RecursionUnique ==
  ASSUME NEW N \in Nat, NEW f, NEW g, SameSteps(f, g, N)
  PROVE  \A n \in 0..N : f[n] = g[n]
<1> DEFINE G == {n \in Nat : f[n] = g[n]}
<1>1. 0 \in G /\ \A n \in 1..N : n - 1 \in G => n \in G
  BY DEF SameSteps
<1> HIDE DEF G
<1>2. \A n \in 0..N : n \in G
  BY <1>1, InductionUpTo
<1> QED
  BY <1>2 DEF G

\* f has a given first value, and its other values are given by the ones before.
Iterates(f, N, V, first, step) ==
  f \in [0..N -> V] /\ f[0] = first /\ \A n \in 1..N : f[n] = step[n][f[n - 1]]

\* There is such a function.
LEMMA RecursionExists ==
  ASSUME NEW N \in Nat, NEW V, NEW first \in V, NEW step \in [1..N -> [V -> V]]
  PROVE  \E f : Iterates(f, N, V, first, step)
<1> DEFINE Good(f, m) ==
             f \in [0..m -> V] /\ f[0] = first /\ \A n \in 1..m : f[n] = step[n][f[n - 1]]
           G == {m \in Nat : \E f : Good(f, m)}
<1>1. 0 \in G
  <2>1. Good([n \in 0..0 |-> first], 0)
    OBVIOUS
  <2> QED
    BY <2>1
<1>2. ASSUME NEW m \in 1..N, m - 1 \in G PROVE m \in G
  <2>1. PICK f : Good(f, m - 1)
    BY <1>2
  <2> DEFINE v == step[m][f[m - 1]]
             g == [n \in 0..m |-> IF n = m THEN v ELSE f[n]]
  <2>2. m \in Nat /\ m # 0 /\ m - 1 \in 0..(m - 1)
    OBVIOUS
  <2>3. v \in V
    BY <2>1, <2>2
  <2> HIDE DEF v
  <2>4. \A n \in 0..(m - 1) : n \in 0..m /\ n # m
    BY <2>2
  <2>5. /\ g \in [0..m -> V] /\ g[0] = first /\ g[m] = v
        /\ \A n \in 0..(m - 1) : g[n] = f[n]
    BY <2>1, <2>2, <2>3, <2>4
  <2> HIDE DEF g
  <2>6. ASSUME NEW n \in 1..m PROVE g[n] = step[n][g[n - 1]]
    <3>1. n - 1 \in 0..(m - 1) /\ g[n - 1] = f[n - 1]
      BY <2>5
    <3>2. CASE n = m
      BY <2>5, <3>1, <3>2 DEF v
    <3>3. CASE n # m
      <4>1. n \in 1..(m - 1) /\ n \in 0..(m - 1)
        BY <3>3
      <4> QED
        BY <2>1, <2>5, <3>1, <4>1
    <3> QED
      BY <3>2, <3>3
  <2>7. Good(g, m)
    BY <2>5, <2>6
  <2> HIDE DEF Good
  <2> QED
    BY <2>2, <2>7
<1>3. \A n \in 0..N : n \in G
  <2> HIDE DEF G
  <2> QED
    BY <1>1, <1>2, InductionUpTo
<1>4. PICK f : Good(f, N)
  BY <1>3
<1> QED
  BY <1>4 DEF Iterates

\* A set of sequences that has the empty one and is closed under Append has all.
LEMMA SequenceInduction ==
  ASSUME NEW S, NEW G, <<>> \in G,
         \A s \in Seq(S), x \in S : s \in G => Append(s, x) \in G
  PROVE  Seq(S) \subseteq G
<1> SUFFICES ASSUME NEW s \in Seq(S) PROVE s \in G
  OBVIOUS
<1> DEFINE H == {n \in Nat : n <= Len(s) => SubSeq(s, 1, n) \in G}
<1>0. Len(s) \in Nat
  OBVIOUS
<1>1. 0 \in H
  <2>1. SubSeq(s, 1, 0) = <<>>
    BY SubSeqEmpty
  <2> QED
    BY <2>1
<1>2. ASSUME NEW n \in 1..Len(s), n - 1 \in H PROVE n \in H
  <2>1. n - 1 \in Nat /\ n - 1 <= Len(s) /\ n \in Nat
    BY <1>0
  <2>2. SubSeq(s, 1, n - 1) \in G
    BY <1>2, <2>1
  <2>3. SubSeq(s, 1, n - 1) \in Seq(S) /\ s[n] \in S
    BY <1>0
  <2>4. SubSeq(s, 1, n) = Append(SubSeq(s, 1, n - 1), s[n])
    BY <1>0
  <2> QED
    BY <2>1, <2>2, <2>3, <2>4
<1>3. \A n \in 0..Len(s) : n \in H
  <2> HIDE DEF H
  <2> QED
    BY <1>0, <1>1, <1>2, InductionUpTo
<1>4. SubSeq(s, 1, Len(s)) \in G
  BY <1>0, <1>3
<1>5. SubSeq(s, 1, Len(s)) = s
  BY SubSeqFull
<1> QED
  BY <1>4, <1>5

\* g is given on the empty set, and on another subset s of S by its value on s without
\* the element that pick gives.
SetIterates(g, S, V, base, step, pick) ==
  /\ g \in [SUBSET S -> V]
  /\ \A s \in SUBSET S : g[s] = IF s = {} THEN base ELSE step[s][g[s \ {pick[s]}]]

\* Such a function exists on a finite set: it is reached in as many steps as the set has
\* elements, and one more.
LEMMA SetRecursionExists ==
  ASSUME NEW S, IsFiniteSet(S), NEW V, NEW base \in V,
         NEW step \in [SUBSET S -> [V -> V]],
         NEW pick, \A s \in SUBSET S : s # {} => pick[s] \in s
  PROVE  \E g : SetIterates(g, S, V, base, step, pick)
<1> DEFINE N == Cardinality(S) + 1
           U == [SUBSET S -> V]
           Better(h) == [s \in SUBSET S |->
                           IF s = {} THEN base ELSE step[s][h[s \ {pick[s]}]]]
           start == [s \in SUBSET S |-> base]
           better == [n \in 1..N |-> [h \in U |-> Better(h)]]
<1>1. N \in Nat /\ Cardinality(S) \in Nat
  BY FS_CardinalityType
<1>2. ASSUME NEW h \in U PROVE Better(h) \in U
  <2>1. ASSUME NEW s \in SUBSET S
        PROVE  (IF s = {} THEN base ELSE step[s][h[s \ {pick[s]}]]) \in V
    <3>1. s \ {pick[s]} \in SUBSET S
      OBVIOUS
    <3>2. h[s \ {pick[s]}] \in V
      BY <3>1
    <3> QED
      BY <3>2
  <2> QED
    BY <2>1
<1>3. start \in U
  OBVIOUS
<1>4. better \in [1..N -> [U -> U]]
  BY <1>2
<1>5. \A n \in 1..N : \A h \in U : better[n][h] = Better(h)
  OBVIOUS
<1> HIDE DEF N, U, start, better
<1>6. PICK f : Iterates(f, N, U, start, better)
  BY <1>1, <1>3, <1>4, RecursionExists
<1>7. f \in [0..N -> U] /\ \A n \in 1..N : f[n] = better[n][f[n - 1]]
  BY <1>6 DEF Iterates
<1> DEFINE Done(n) == \A s \in SUBSET S : Cardinality(s) < n => f[n][s] = Better(f[n])[s]
           G == {n \in Nat : Done(n)}
<1>8. \A s \in SUBSET S : IsFiniteSet(s) /\ Cardinality(s) \in Nat
                          /\ Cardinality(s) <= Cardinality(S)
  BY FS_Subset, FS_CardinalityType
<1>9. 0 \in G
  BY <1>8
<1>10. ASSUME NEW n \in 1..N, n - 1 \in G PROVE n \in G
  <2>1. n \in Nat /\ n - 1 \in 0..N /\ n \in 0..N
    BY <1>1
  <2>2. f[n] \in U /\ f[n - 1] \in U
    BY <1>7, <2>1
  <2>3. f[n] = Better(f[n - 1])
    <3>1. f[n] = better[n][f[n - 1]]
      BY <1>7
    <3> HIDE DEF Better
    <3> QED
      BY <1>5, <2>2, <3>1
  <2>4. ASSUME NEW s \in SUBSET S, Cardinality(s) < n PROVE f[n][s] = Better(f[n])[s]
    <3>1. CASE s = {}
      BY <2>3, <3>1
    <3>2. CASE s # {}
      <4> DEFINE t == s \ {pick[s]}
      <4>1. t \in SUBSET S
        OBVIOUS
      <4>2. Cardinality(t) = Cardinality(s) - 1
        BY <1>8, <3>2, FS_RemoveElement
      <4>3. Cardinality(t) < n - 1
        BY <1>8, <2>1, <2>4, <4>2
      <4>4. f[n - 1][t] = Better(f[n - 1])[t]
        BY <1>10, <4>1, <4>3
      <4>5. f[n - 1][t] = f[n][t]
        BY <2>3, <4>4
      <4>6. f[n][s] = step[s][f[n - 1][t]]
        BY <2>3, <3>2
      <4>7. Better(f[n])[s] = step[s][f[n][t]]
        BY <3>2
      <4> QED
        BY <4>5, <4>6, <4>7
    <3> QED
      BY <3>1, <3>2
  <2> QED
    BY <2>1, <2>4
<1>11. N \in G
  <2> HIDE DEF G
  <2>1. \A n \in 0..N : n \in G
    BY <1>1, <1>9, <1>10, InductionUpTo
  <2> QED
    BY <1>1, <2>1
<1>12. ASSUME NEW s \in SUBSET S PROVE f[N][s] = Better(f[N])[s]
  <2>1. Cardinality(s) < N
    BY <1>1, <1>8 DEF N
  <2> QED
    BY <1>11, <2>1
<1>13. f[N] \in U
  BY <1>1, <1>7
<1>14. SetIterates(f[N], S, V, base, step, pick)
  BY <1>12, <1>13 DEF SetIterates, U
<1> QED
  BY <1>14

\* g and h agree on the empty set, and on another subset of S if they do without the
\* element that pick gives.
SameSetSteps(g, h, S, pick) ==
  /\ g[{}] = h[{}]
  /\ \A s \in SUBSET S : s # {} /\ g[s \ {pick[s]}] = h[s \ {pick[s]}] => g[s] = h[s]

LEMMA SetRecursionUnique ==
  ASSUME NEW S, IsFiniteSet(S), NEW g, NEW h, NEW pick,
         \A s \in SUBSET S : s # {} => pick[s] \in s,
         SameSetSteps(g, h, S, pick)
  PROVE  \A s \in SUBSET S : g[s] = h[s]
<1> DEFINE N == Cardinality(S)
           G == {n \in Nat : \A s \in SUBSET S : Cardinality(s) = n => g[s] = h[s]}
<1>1. N \in Nat
  BY FS_CardinalityType
<1>2. \A s \in SUBSET S : IsFiniteSet(s) /\ Cardinality(s) \in Nat /\ Cardinality(s) <= N
  BY FS_Subset, FS_CardinalityType
<1>3. 0 \in G
  <2>1. \A s \in SUBSET S : Cardinality(s) = 0 => s = {}
    BY <1>2, FS_EmptySet
  <2>2. \A s \in SUBSET S : Cardinality(s) = 0 => g[s] = h[s]
    BY <2>1 DEF SameSetSteps
  <2> QED
    BY <2>2
<1>4. ASSUME NEW n \in 1..N, n - 1 \in G PROVE n \in G
  <2>1. n \in Nat
    OBVIOUS
  <2>2. ASSUME NEW s \in SUBSET S, Cardinality(s) = n PROVE g[s] = h[s]
    <3>1. s # {}
      <4>1. Cardinality({}) = 0 /\ n # 0
        BY FS_EmptySet
      <4> QED
        BY <2>2, <4>1
    <3> DEFINE t == s \ {pick[s]}
    <3>2. t \in SUBSET S /\ Cardinality(t) = n - 1
      BY <1>2, <2>2, <3>1, FS_RemoveElement
    <3>3. g[t] = h[t]
      <4> HIDE DEF t
      <4>1. \A u \in SUBSET S : Cardinality(u) = n - 1 => g[u] = h[u]
        BY <1>4
      <4> QED
        BY <3>2, <4>1
    <3> QED
      BY <3>1, <3>3 DEF SameSetSteps
  <2> QED
    BY <2>1, <2>2
<1> HIDE DEF N, G
<1>5. \A n \in 0..N : n \in G
  BY <1>1, <1>3, <1>4, InductionUpTo
<1>6. ASSUME NEW s \in SUBSET S PROVE g[s] = h[s]
  <2>1. Cardinality(s) \in 0..N
    BY <1>1, <1>2
  <2>2. Cardinality(s) \in G
    BY <1>5, <2>1
  <2> QED
    BY <2>2 DEF G
<1> QED
  BY <1>6

(***************************************************************************)
(* Selection from a sequence.                                              *)
(***************************************************************************)
\* f[n] is what is selected of the first n elements of s.
Selects(f, s, P) ==
  /\ f[0] = <<>>
  /\ \A n \in 1..Len(s) : f[n] = IF n \in P THEN Append(f[n - 1], s[n]) ELSE f[n - 1]
  /\ Selected(s, P) = f[Len(s)]

LEMMA SelectedUnfold ==
  ASSUME NEW S, NEW s \in Seq(S), NEW P
  PROVE  \E f \in [0..Len(s) -> Seq(S)] : Selects(f, s, P)
<1> DEFINE V == Seq(S)
           N == Len(s)
           Step(v, n) == IF n \in P THEN Append(v, s[n]) ELSE v
           step == [n \in 1..N |-> [v \in V |-> Step(v, n)]]
           Body(f) == [n \in 0..N |-> IF n = 0 THEN <<>> ELSE IF n \in P THEN Append(f[n - 1], s[n]) ELSE f[n - 1]]
           c == CHOOSE f : f = Body(f)
<1>1. N \in Nat /\ <<>> \in V
  OBVIOUS
<1>2. step \in [1..N -> [V -> V]]
  <2>1. ASSUME NEW v \in V, NEW n \in 1..N PROVE Step(v, n) \in V
    <3>1. s[n] \in S
      OBVIOUS
    <3> QED
      BY <3>1
  <2> HIDE DEF Step, V, N
  <2> QED
    BY <2>1
<1>3. PICK g \in [0..N -> V] : g[0] = <<>> /\ \A n \in 1..N : g[n] = step[n][g[n - 1]]
  <2> DEFINE e == <<>>
  <2>1. e \in V
    OBVIOUS
  <2> HIDE DEF step, V, N, e
  <2>2. PICK g : Iterates(g, N, V, e, step)
    BY <1>1, <1>2, <2>1, RecursionExists
  <2> QED
    BY <2>2 DEF e, Iterates
<1>4. \A n \in 1..N : g[n] = Step(g[n - 1], n)
  <2> SUFFICES ASSUME NEW n \in 1..N PROVE g[n] = Step(g[n - 1], n)
    OBVIOUS
  <2>1. n - 1 \in 0..N
    BY <1>1
  <2>2. g[n - 1] \in V
    BY <1>3, <2>1
  <2>3. step[n][g[n - 1]] = Step(g[n - 1], n)
    <3> HIDE DEF Step, V, N
    <3> QED
      BY <2>2
  <2> QED
    BY <1>3, <2>3
<1>5. g = Body(g)
  <2>1. ASSUME NEW n \in 0..N PROVE g[n] = Body(g)[n]
    <3>1. CASE n = 0
      BY <1>3, <3>1
    <3>2. CASE n # 0
      <4>1. n \in 1..N
        BY <1>1, <3>2
      <4>2. g[n] = Step(g[n - 1], n)
        BY <1>4, <4>1
      <4>3. Body(g)[n] = Step(g[n - 1], n)
        BY <3>2
      <4> QED
        BY <4>2, <4>3
    <3> QED
      BY <3>1, <3>2
  <2>2. Body(g) = [n \in 0..N |-> Body(g)[n]]
    OBVIOUS
  <2>3. g = [n \in 0..N |-> g[n]]
    BY <1>3
  <2> HIDE DEF Body, N, V
  <2> QED
    BY <2>1, <2>2, <2>3
<1>6. c = Body(c)
  <2> HIDE DEF Body
  <2> QED
    BY <1>5
<1>7. c[0] = <<>> /\ \A n \in 1..N : c[n] = Step(c[n - 1], n)
  <2> DEFINE b == Body(c)
  <2>1. b[0] = <<>> /\ \A n \in 1..N : b[n] = Step(c[n - 1], n)
    <3> HIDE DEF c
    <3> QED
      BY <1>1
  <2> HIDE DEF b, c
  <2>2. b = c
    BY <1>6 DEF b
  <2> QED
    BY <2>1, <2>2
<1>8. \A n \in 0..N : c[n] = g[n]
  <2> HIDE DEF c, N, V
  <2>1. c[0] = g[0]
    BY <1>3, <1>7
  <2>2. \A n \in 1..N : c[n - 1] = g[n - 1] => c[n] = g[n]
    BY <1>4, <1>7
  <2>3. SameSteps(c, g, N)
    BY <2>1, <2>2 DEF SameSteps
  <2> HIDE DEF Step
  <2> QED
    BY <1>1, <2>3, RecursionUnique
<1>9. Selected(s, P) = c[N]
  BY DEF Selected
<1>10. Selected(s, P) = g[N]
  <2> HIDE DEF c, N
  <2> QED
    BY <1>1, <1>8, <1>9
<1> HIDE DEF c, step, Body
<1> QED
  BY <1>3, <1>4, <1>10 DEF Selects

LEMMA SelectedType ==
  ASSUME NEW S, NEW s \in Seq(S), NEW P
  PROVE  Selected(s, P) \in Seq(S)
<1>1. PICK f \in [0..Len(s) -> Seq(S)] : Selects(f, s, P)
  BY SelectedUnfold
<1>2. Len(s) \in 0..Len(s)
  OBVIOUS
<1> QED
  BY <1>1, <1>2 DEF Selects

LEMMA SelectedOfEmpty == ASSUME NEW P PROVE Selected(<<>>, P) = <<>>
<1> DEFINE e == <<>>
<1>1. e \in Seq({}) /\ Len(e) = 0
  OBVIOUS
<1>2. PICK f \in [0..Len(e) -> Seq({})] : Selects(f, e, P)
  <2> HIDE DEF e
  <2> QED
    BY <1>1, SelectedUnfold
<1> HIDE DEF e
<1>3. Selected(e, P) = <<>>
  BY <1>1, <1>2 DEF Selects
<1> QED
  BY <1>3 DEF e

\* What is selected of a longer sequence.
LEMMA SelectedAppend ==
  ASSUME NEW S, NEW s \in Seq(S), NEW x \in S, NEW P, NEW Q,
         \A n \in 1..Len(s) : n \in P <=> n \in Q
  PROVE  Selected(Append(s, x), Q) =
           IF Len(s) + 1 \in Q THEN Append(Selected(s, P), x) ELSE Selected(s, P)
<1> DEFINE t == Append(s, x)
           N == Len(s)
<1>1. /\ t \in Seq(S) /\ Len(t) = N + 1 /\ N \in Nat /\ t[N + 1] = x
      /\ \A n \in 1..N : t[n] = s[n]
  BY AppendProperties
<1> HIDE DEF t
<1>2. PICK f \in [0..Len(s) -> Seq(S)] : Selects(f, s, P)
  BY SelectedUnfold
<1>3. PICK g \in [0..Len(t) -> Seq(S)] : Selects(g, t, Q)
  BY <1>1, SelectedUnfold
<1>4. g[0] = f[0]
  BY <1>2, <1>3 DEF Selects
<1>5. ASSUME NEW n \in 1..N, g[n - 1] = f[n - 1] PROVE g[n] = f[n]
  <2>1. n \in 1..Len(t) /\ t[n] = s[n] /\ (n \in P <=> n \in Q)
    BY <1>1
  <2>2. g[n] = IF n \in Q THEN Append(g[n - 1], t[n]) ELSE g[n - 1]
    BY <1>3, <2>1 DEF Selects
  <2>3. f[n] = IF n \in P THEN Append(f[n - 1], s[n]) ELSE f[n - 1]
    BY <1>2 DEF Selects
  <2> QED
    BY <1>5, <2>1, <2>2, <2>3
<1>6. \A n \in 0..N : g[n] = f[n]
  <2> DEFINE G == {n \in 0..N : g[n] = f[n]}
  <2>1. 0 \in G
    BY <1>1, <1>4
  <2>2. \A n \in 1..N : n - 1 \in G => n \in G
    BY <1>1, <1>5
  <2> HIDE DEF G, N
  <2>3. \A n \in 0..N : n \in G
    BY <1>1, <2>1, <2>2, InductionUpTo
  <2> QED
    BY <2>3 DEF G
<1>7. g[N] = Selected(s, P)
  BY <1>1, <1>2, <1>6 DEF Selects
<1>8. N + 1 \in 1..Len(t) /\ (N + 1) - 1 = N
  BY <1>1
<1>9. Selected(t, Q) = IF N + 1 \in Q THEN Append(g[N], t[N + 1]) ELSE g[N]
  BY <1>1, <1>3, <1>8 DEF Selects
<1> QED
  BY <1>1, <1>7, <1>9 DEF t
=============================================================================
