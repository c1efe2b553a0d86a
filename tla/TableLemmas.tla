---------------------------- MODULE TableLemmas -----------------------------
(***************************************************************************)
(* Lemmas about the data of the models: tables, which are sequences of     *)
(* rows, and sums over a finite set of rows, claims or callers             *)
(* (SumFunctionOnSet of Functions).                                        *)
(*                                                                         *)
(* The library says what a fold is, as a function that is chosen, and      *)
(* nothing of its value.  That there is such a function, and that a sum    *)
(* may be taken in any order, follows by induction over the subsets of     *)
(* the set, from the well-founded order of the finite subsets.             *)
(***************************************************************************)
EXTENDS Integers, Sequences, FiniteSets, Functions, FiniteSetTheorems, TLAPS

\* The rows of a table have its type.
LEMMA ElementOf ==
  ASSUME NEW T, NEW s \in Seq(T)
  PROVE  Len(s) \in Nat /\ DOMAIN s = 1 .. Len(s) /\ \A i \in DOMAIN s : s[i] \in T
  OBVIOUS

\* A row is appended, the others stay.
LEMMA AppendShape ==
  ASSUME NEW T, NEW s \in Seq(T), NEW x \in T
  PROVE  /\ Append(s, x) \in Seq(T) /\ Len(Append(s, x)) = Len(s) + 1
         /\ DOMAIN Append(s, x) = DOMAIN s \cup {Len(s) + 1} /\ Len(s) + 1 \notin DOMAIN s
         /\ \A i \in DOMAIN s : Append(s, x)[i] = s[i]
         /\ Append(s, x)[Len(s) + 1] = x
<1>1. Append(s, x) \in Seq(T) /\ Len(Append(s, x)) = Len(s) + 1
  OBVIOUS
<1>2. \A i \in 1 .. Len(s) : Append(s, x)[i] = s[i]
  OBVIOUS
<1>3. Append(s, x)[Len(s) + 1] = x
  OBVIOUS
<1>. QED BY <1>1, <1>2, <1>3, ElementOf

\* Rows are changed where they are.
LEMMA ChangedInPlace ==
  ASSUME NEW S, NEW s \in Seq(S), NEW t, t = [i \in DOMAIN s |-> t[i]], \A i \in DOMAIN s : t[i] \in S
  PROVE  t \in Seq(S) /\ DOMAIN t = DOMAIN s
  OBVIOUS

-----------------------------------------------------------------------------

\* Induction over the subsets of a finite set: what holds of a set as soon as it holds of its proper subsets holds of all.
\* It is the well-founded order of the subsets, said of a set F instead of a predicate.
LEMMA SubsetInduction ==
  ASSUME NEW S, IsFiniteSet(S), NEW F,
         \A T \in SUBSET S : (\A U \in SUBSET T : U # T => U \in F) => T \in F
  PROVE  \A T \in SUBSET S : T \in F
<1>. DEFINE bad == {T \in SUBSET S : T \notin F}
<1>. SUFFICES ASSUME bad # {} PROVE FALSE
  OBVIOUS
<1>1. IsWellFoundedOn(StrictSubsetOrdering(S), SUBSET S)
  <2>1. IsWellFoundedOn(StrictSubsetOrdering(S), FiniteSubsetsOf(S))
    BY FS_StrictSubsetOrderingWellFounded
  <2>2. FiniteSubsetsOf(S) = SUBSET S
    BY FS_FiniteSubsetsOfFinite
  <2>. QED BY <2>1, <2>2
<1>2. PICK T \in bad : \A U \in bad : <<U, T>> \notin StrictSubsetOrdering(S)
  <2>. bad \subseteq SUBSET S
    OBVIOUS
  <2>. HIDE DEF bad
  <2>. QED BY <1>1, WFMin
<1>3. \A U \in SUBSET T : U # T => U \in F
  BY <1>2 DEF StrictSubsetOrdering
<1>. QED BY <1>3

\* The element that a fold takes next.
Pick(s) == CHOOSE x \in s : TRUE
\* f is the function that SumFunctionOnSet chooses: it adds the terms of w over each subset of S.
Adds(f, w, S) == f = [s \in SUBSET S |-> IF s = {} THEN 0 ELSE w[Pick(s)] + f[s \ {Pick(s)}]]
\* The sum of the terms of w over S.
Sum(w, S) == SumFunctionOnSet(w, S)

\* The element taken is one of the set.
LEMMA PickIn == \A s : s # {} => Pick(s) \in s
  BY DEF Pick

\* A sum is a value of the function that the fold chooses.
LEMMA SumIsAdds == ASSUME NEW w, NEW S PROVE Sum(w, S) = (CHOOSE f : Adds(f, w, S))[S]
  BY DEF Sum, SumFunctionOnSet, FoldFunctionOnSet, MapThenFoldSet, Pick, Adds

\* What that function is on one subset.
LEMMA AddsAt ==
  ASSUME NEW w, NEW S, NEW f, Adds(f, w, S), NEW s \in SUBSET S
  PROVE  f[s] = IF s = {} THEN 0 ELSE w[Pick(s)] + f[s \ {Pick(s)}]
  BY DEF Adds

\* On the sets that both are defined on, two such functions agree.
LEMMA AddsAgree ==
  ASSUME NEW w, NEW S, NEW T, IsFiniteSet(T), NEW f, NEW g, Adds(f, w, S), Adds(g, w, T), T \subseteq S
  PROVE  \A s \in SUBSET T : f[s] = g[s]
<1>. DEFINE F == {s \in SUBSET T : f[s] = g[s]}
<1>1. ASSUME NEW s \in SUBSET T, \A u \in SUBSET s : u # s => u \in F PROVE s \in F
  <2>1. f[s] = IF s = {} THEN 0 ELSE w[Pick(s)] + f[s \ {Pick(s)}]
    BY AddsAt
  <2>2. g[s] = IF s = {} THEN 0 ELSE w[Pick(s)] + g[s \ {Pick(s)}]
    BY AddsAt
  <2>3. s # {} => f[s \ {Pick(s)}] = g[s \ {Pick(s)}]
    BY <1>1, PickIn
  <2>. QED BY <2>1, <2>2, <2>3
<1>2. \A s \in SUBSET T : s \in F
  <2>. HIDE DEF F
  <2>. QED BY <1>1, SubsetInduction
<1>. QED BY <1>2

\* There is such a function on every finite set.
LEMMA AddsExists ==
  ASSUME NEW w, NEW S, IsFiniteSet(S)
  PROVE  \E f : Adds(f, w, S)
<1>. DEFINE F == {T \in SUBSET S : \E f : Adds(f, w, T)}
            H(u) == (CHOOSE f : Adds(f, w, u))[u]
<1>1. ASSUME NEW T \in SUBSET S, \A u \in SUBSET T : u # T => u \in F PROVE T \in F
  <2>. DEFINE g == [s \in SUBSET T |-> IF s = {} THEN 0 ELSE w[Pick(s)] + H(s \ {Pick(s)})]
  <2>1. ASSUME NEW u \in SUBSET T, u # T PROVE g[u] = H(u)
    <3>1. PICK f : Adds(f, w, u) /\ H(u) = f[u]
      BY <1>1, <2>1
    <3>2. f[u] = IF u = {} THEN 0 ELSE w[Pick(u)] + f[u \ {Pick(u)}]
      BY <3>1, AddsAt
    <3>3. CASE u = {}
      BY <3>1, <3>2, <3>3
    <3>4. CASE u # {}
      <4>. DEFINE v == u \ {Pick(u)}
      <4>1. v \in SUBSET T /\ v # T /\ v \subseteq u /\ u \in SUBSET S
        BY <3>4, PickIn
      <4>2. PICK h : Adds(h, w, v) /\ H(v) = h[v]
        BY <1>1, <4>1
      <4>3. IsFiniteSet(v)
        BY <4>1, FS_Subset
      <4>4. f[v] = h[v]
        <5>. HIDE DEF v
        <5>. QED BY <3>1, <4>1, <4>2, <4>3, AddsAgree
      <4>5. g[u] = w[Pick(u)] + H(v)
        BY <3>4
      <4>. QED BY <3>1, <3>2, <3>4, <4>2, <4>4, <4>5
    <3>. QED BY <3>3, <3>4
  <2>2. Adds(g, w, T)
    <3>1. ASSUME NEW s \in SUBSET T, s # {} PROVE g[s \ {Pick(s)}] = H(s \ {Pick(s)})
      <4>1. s \ {Pick(s)} \in SUBSET T /\ s \ {Pick(s)} # T
        BY <3>1, PickIn
      <4>. QED BY <2>1, <4>1
    <3>2. \A s \in SUBSET T : (IF s = {} THEN 0 ELSE w[Pick(s)] + H(s \ {Pick(s)}))
                              = IF s = {} THEN 0 ELSE w[Pick(s)] + g[s \ {Pick(s)}]
      <4>. HIDE DEF g, H
      <4>. QED BY <3>1
    <3>3. g = [s \in SUBSET T |-> IF s = {} THEN 0 ELSE w[Pick(s)] + H(s \ {Pick(s)})]
      OBVIOUS
    <3>4. g = [s \in SUBSET T |-> IF s = {} THEN 0 ELSE w[Pick(s)] + g[s \ {Pick(s)}]]
      <4>. HIDE DEF g, H
      <4>. QED BY <3>2, <3>3, Zenon
    <3>. HIDE DEF g
    <3>. QED BY <3>4 DEF Adds
  <2>. QED BY <2>2
<1>2. \A T \in SUBSET S : T \in F
  <2>. HIDE DEF F
  <2>. QED BY <1>1, SubsetInduction
<1>. QED BY <1>2

\* The sum over nothing is 0.
LEMMA SumEmpty == ASSUME NEW w PROVE Sum(w, {}) = 0
<1>1. IsFiniteSet({})
  BY FS_EmptySet
<1>2. Adds(CHOOSE f : Adds(f, w, {}), w, {})
  BY <1>1, AddsExists
<1>. QED BY <1>2, SumIsAdds, AddsAt

\* A sum is the term taken first, and the rest.
LEMMA SumPick ==
  ASSUME NEW w, NEW S, IsFiniteSet(S), S # {}
  PROVE  Sum(w, S) = w[Pick(S)] + Sum(w, S \ {Pick(S)})
<1>. DEFINE T == S \ {Pick(S)}
<1>0. IsFiniteSet(T) /\ T \subseteq S
  BY FS_RemoveElement
<1>1. PICK f : Adds(f, w, S) /\ Sum(w, S) = f[S]
  BY AddsExists, SumIsAdds
<1>2. PICK g : Adds(g, w, T) /\ Sum(w, T) = g[T]
  BY <1>0, AddsExists, SumIsAdds
<1>3. f[T] = g[T]
  <2>. HIDE DEF T
  <2>. QED BY <1>0, <1>1, <1>2, AddsAgree
<1>4. f[S] = w[Pick(S)] + f[T]
  BY <1>1, AddsAt
<1>. QED BY <1>1, <1>2, <1>3, <1>4

\* The sum of integers is one.
LEMMA SumType ==
  ASSUME NEW w, NEW S, IsFiniteSet(S), \A x \in S : w[x] \in Int
  PROVE  Sum(w, S) \in Int
<1>. DEFINE F == {T \in SUBSET S : Sum(w, T) \in Int}
<1>1. ASSUME NEW T \in SUBSET S, \A u \in SUBSET T : u # T => u \in F PROVE T \in F
  <2>1. CASE T = {}
    BY <2>1, SumEmpty
  <2>2. CASE T # {}
    <3>1. IsFiniteSet(T)
      BY FS_Subset
    <3>2. Pick(T) \in T
      BY <2>2, PickIn
    <3>3. Sum(w, T \ {Pick(T)}) \in Int
      BY <1>1, <3>2
    <3>4. w[Pick(T)] \in Int
      BY <3>2
    <3>5. Sum(w, T) = w[Pick(T)] + Sum(w, T \ {Pick(T)})
      BY <2>2, <3>1, SumPick
    <3>. QED BY <3>3, <3>4, <3>5
  <2>. QED BY <2>1, <2>2
<1>2. \A T \in SUBSET S : T \in F
  <2>. HIDE DEF F
  <2>. QED BY <1>1, SubsetInduction
<1>. QED BY <1>2

\* Any element of the set may be taken out first.
LEMMA SumRemove ==
  ASSUME NEW w, NEW S, IsFiniteSet(S), \A y \in S : w[y] \in Int, NEW x \in S
  PROVE  Sum(w, S) = w[x] + Sum(w, S \ {x})
<1>. DEFINE F == {T \in SUBSET S : \A z \in T : Sum(w, T) = w[z] + Sum(w, T \ {z})}
<1>1. ASSUME NEW T \in SUBSET S, \A u \in SUBSET T : u # T => u \in F PROVE T \in F
  <2>. SUFFICES ASSUME NEW z \in T PROVE Sum(w, T) = w[z] + Sum(w, T \ {z})
    OBVIOUS
  <2>. DEFINE p == Pick(T)  rest == T \ {p}
  <2>1. IsFiniteSet(T) /\ p \in T /\ IsFiniteSet(rest)
    BY FS_Subset, FS_RemoveElement, PickIn
  <2>2. Sum(w, T) = w[p] + Sum(w, rest)
    BY <2>1, SumPick
  <2>3. CASE z = p
    BY <2>2, <2>3
  <2>4. CASE z # p
    <3>1. rest \in F /\ z \in rest
      BY <1>1, <2>1, <2>4
    <3>2. Sum(w, rest) = w[z] + Sum(w, rest \ {z})
      BY <3>1
    <3>3. T \ {z} \in F /\ p \in T \ {z}
      BY <1>1, <2>1, <2>4
    <3>4. Sum(w, T \ {z}) = w[p] + Sum(w, (T \ {z}) \ {p})
      BY <3>3
    <3>5. (T \ {z}) \ {p} = rest \ {z}
      OBVIOUS
    <3>6. w[p] \in Int /\ w[z] \in Int /\ Sum(w, rest \ {z}) \in Int
      <4>1. IsFiniteSet(rest \ {z})
        BY <2>1, FS_RemoveElement
      <4>2. \A y \in rest \ {z} : w[y] \in Int
        OBVIOUS
      <4>3. Sum(w, rest \ {z}) \in Int
        BY <4>1, <4>2, SumType
      <4>. QED BY <2>1, <4>3
    <3>7. \A a, b, c \in Int : a + (b + c) = b + (a + c)
      OBVIOUS
    <3>. HIDE DEF rest, p
    <3>8. Sum(w, T) = w[p] + (w[z] + Sum(w, rest \ {z}))
      BY <2>2, <3>2
    <3>9. Sum(w, T \ {z}) = w[p] + Sum(w, rest \ {z})
      BY <3>4, <3>5
    <3>. QED BY <3>6, <3>7, <3>8, <3>9
  <2>. QED BY <2>3, <2>4
<1>2. \A T \in SUBSET S : T \in F
  <2>. HIDE DEF F
  <2>. QED BY <1>1, SubsetInduction
<1>. QED BY <1>2

\* A sum grows with its set and with its terms, as long as what is added is not negative.
LEMMA SumMonotone ==
  ASSUME NEW S, IsFiniteSet(S), NEW T, T \subseteq S, NEW v, NEW w,
         \A x \in T : v[x] \in Int, \A x \in S : w[x] \in Int,
         \A x \in T : v[x] <= w[x], \A x \in S \ T : 0 <= w[x]
  PROVE  Sum(v, T) <= Sum(w, S)
<1>. DEFINE F == {u \in SUBSET S : Sum(v, u \cap T) <= Sum(w, u)}
<1>1. ASSUME NEW u \in SUBSET S, \A s \in SUBSET u : s # u => s \in F PROVE u \in F
  <2>1. CASE u = {}
    <3>1. u \cap T = {}
      BY <2>1
    <3>. QED BY <2>1, <3>1, SumEmpty
  <2>2. CASE u # {}
    <3>1. PICK x \in u : TRUE
      BY <2>2
    <3>. DEFINE s == u \ {x}
    <3>2. IsFiniteSet(u) /\ IsFiniteSet(s) /\ IsFiniteSet(u \cap T) /\ IsFiniteSet(s \cap T)
      BY FS_Subset, FS_RemoveElement, FS_Intersection
    <3>3. Sum(v, s \cap T) <= Sum(w, s)
      BY <1>1
    <3>4. Sum(w, u) = w[x] + Sum(w, s)
      BY <3>2, SumRemove
    <3>5. Sum(w, s) \in Int
      <4>. \A y \in s : w[y] \in Int
        OBVIOUS
      <4>. QED BY <3>2, SumType
    <3>6. Sum(v, s \cap T) \in Int
      <4>. \A y \in s \cap T : v[y] \in Int
        OBVIOUS
      <4>. QED BY <3>2, SumType
    <3>7. CASE x \in T
      <4>1. (u \cap T) \ {x} = s \cap T /\ x \in u \cap T /\ \A y \in u \cap T : v[y] \in Int
        BY <3>7
      <4>2. Sum(v, u \cap T) = v[x] + Sum(v, s \cap T)
        BY <3>2, <4>1, SumRemove
      <4>3. v[x] \in Int /\ w[x] \in Int /\ v[x] <= w[x]
        BY <3>7
      <4>. HIDE DEF s
      <4>. QED BY <3>3, <3>4, <3>5, <3>6, <4>2, <4>3
    <3>8. CASE x \notin T
      <4>1. u \cap T = s \cap T
        BY <3>8
      <4>2. w[x] \in Int /\ 0 <= w[x]
        BY <3>8
      <4>3. \A a, b, c \in Int : a <= b /\ 0 <= c => a <= c + b
        OBVIOUS
      <4>. HIDE DEF s
      <4>4. Sum(v, s \cap T) <= w[x] + Sum(w, s)
        BY <3>3, <3>5, <3>6, <4>2, <4>3
      <4>. QED BY <3>4, <4>1, <4>4
    <3>. QED BY <3>7, <3>8
  <2>. QED BY <2>1, <2>2
<1>2. \A u \in SUBSET S : u \in F
  <2>. HIDE DEF F
  <2>. QED BY <1>1, SubsetInduction
<1>3. S \cap T = T
  OBVIOUS
<1>. QED BY <1>2, <1>3

\* The sum of what is not negative is not negative.
LEMMA SumNat ==
  ASSUME NEW S, IsFiniteSet(S), NEW w, \A x \in S : w[x] \in Int /\ 0 <= w[x]
  PROVE  0 <= Sum(w, S)
<1>1. Sum(w, {}) <= Sum(w, S)
  BY SumMonotone
<1>. QED BY <1>1, SumEmpty

\* Equal terms, equal sums.
LEMMA SumSame ==
  ASSUME NEW S, IsFiniteSet(S), NEW v, NEW w, \A x \in S : v[x] \in Int /\ w[x] = v[x]
  PROVE  Sum(v, S) = Sum(w, S)
<1>1. Sum(v, S) \in Int /\ Sum(w, S) \in Int
  BY SumType
<1>2. Sum(v, S) <= Sum(w, S)
  BY SumMonotone
<1>3. Sum(w, S) <= Sum(v, S)
  BY SumMonotone
<1>. QED BY <1>1, <1>2, <1>3

\* A sum is at most so many times its largest term.
LEMMA SumBound ==
  ASSUME NEW S, IsFiniteSet(S), NEW w, NEW K \in Int, \A x \in S : w[x] \in Int /\ w[x] <= K
  PROVE  Sum(w, S) <= Cardinality(S) * K
<1>. DEFINE F == {u \in SUBSET S : Sum(w, u) <= Cardinality(u) * K}
<1>1. ASSUME NEW u \in SUBSET S, \A s \in SUBSET u : s # u => s \in F PROVE u \in F
  <2>1. CASE u = {}
    <3>1. Cardinality(u) = 0 /\ Sum(w, u) = 0
      BY <2>1, SumEmpty, FS_EmptySet
    <3>. QED BY <3>1
  <2>2. CASE u # {}
    <3>1. PICK x \in u : TRUE
      BY <2>2
    <3>. DEFINE s == u \ {x}
    <3>2. IsFiniteSet(u) /\ IsFiniteSet(s) /\ Cardinality(u) \in Nat /\ Cardinality(s) = Cardinality(u) - 1
      BY FS_Subset, FS_RemoveElement, FS_CardinalityType
    <3>3. Sum(w, s) <= Cardinality(s) * K
      BY <1>1
    <3>4. Sum(w, u) = w[x] + Sum(w, s)
      BY <3>2, SumRemove
    <3>5. Sum(w, s) \in Int
      <4>. \A y \in s : w[y] \in Int
        OBVIOUS
      <4>. QED BY <3>2, SumType
    <3>6. w[x] \in Int /\ w[x] <= K
      OBVIOUS
    <3>7. Cardinality(u) * K = K + Cardinality(s) * K /\ Cardinality(s) * K \in Int
      <4>. \A n \in Nat : n * K = K + (n - 1) * K /\ (n - 1) * K \in Int
        OBVIOUS
      <4>. QED BY <3>2
    <3>8. Sum(w, u) <= Cardinality(u) * K
      <4>. HIDE DEF s
      <4>. QED BY <3>3, <3>4, <3>5, <3>6, <3>7
    <3>. QED BY <3>8
  <2>. QED BY <2>1, <2>2
<1>2. \A u \in SUBSET S : u \in F
  <2>. HIDE DEF F
  <2>. QED BY <1>1, SubsetInduction
<1>. QED BY <1>2

-----------------------------------------------------------------------------
(* Folds, which the community modules write as a choice of a function *)

\* f is the function that a fold over S chooses which takes the elements in the order of p, starting with b, by the step G.
Folds(f, b, G, p, S) == f = [s \in SUBSET S |-> IF s = {} THEN b ELSE G[p[s]][f[s \ {p[s]}]]]

\* p takes an element of every set.
Picks(p, S) == \A s \in SUBSET S : s # {} => p[s] \in s

\* On the sets that both are defined on, two such functions agree.
LEMMA FoldsAgree ==
  ASSUME NEW b, NEW G, NEW p, NEW D, Picks(p, D),
         NEW S \in SUBSET D, NEW T \in SUBSET S, IsFiniteSet(T), NEW f, NEW g, Folds(f, b, G, p, S), Folds(g, b, G, p, T)
  PROVE  f[T] = g[T]
<1>0. \A s \in SUBSET D : s # {} => p[s] \in s
  BY DEF Picks
<1>. DEFINE F == {s \in SUBSET T : f[s] = g[s]}
<1>1. ASSUME NEW s \in SUBSET T, \A u \in SUBSET s : u # s => u \in F PROVE s \in F
  <2>1. f[s] = IF s = {} THEN b ELSE G[p[s]][f[s \ {p[s]}]]
    BY DEF Folds
  <2>2. g[s] = IF s = {} THEN b ELSE G[p[s]][g[s \ {p[s]}]]
    BY DEF Folds
  <2>3. s # {} => f[s \ {p[s]}] = g[s \ {p[s]}]
    BY <1>0, <1>1
  <2>. QED BY <2>1, <2>2, <2>3
<1>2. \A s \in SUBSET T : s \in F
  <2>. HIDE DEF F
  <2>. QED BY <1>1, SubsetInduction
<1>. QED BY <1>2

\* There is such a function on every finite set, and its values are of the type that the step keeps.
LEMMA FoldExists ==
  ASSUME NEW D, IsFiniteSet(D), NEW X, NEW b \in X, NEW G \in [D -> [X -> X]], NEW p, Picks(p, D)
  PROVE  \E f \in [SUBSET D -> X] : Folds(f, b, G, p, D)
<1>0. \A s \in SUBSET D : s # {} => p[s] \in s
  BY DEF Picks
<1>. DEFINE F == {T \in SUBSET D : \E f : Folds(f, b, G, p, T) /\ f[T] \in X}
            H(u) == (CHOOSE f : Folds(f, b, G, p, u) /\ f[u] \in X)[u]
            g(T) == [s \in SUBSET T |-> IF s = {} THEN b ELSE G[p[s]][H(s \ {p[s]})]]
<1>1. ASSUME NEW T \in SUBSET D, \A u \in SUBSET T : u # T => u \in F PROVE Folds(g(T), b, G, p, T) /\ \A s \in SUBSET T : g(T)[s] \in X
  <2>1. ASSUME NEW u \in SUBSET T, u # T PROVE H(u) \in X /\ H(u) = IF u = {} THEN b ELSE G[p[u]][H(u \ {p[u]})]
    <3>1. PICK f : Folds(f, b, G, p, u) /\ f[u] \in X /\ H(u) = f[u]
      BY <1>1, <2>1
    <3>2. f[u] = IF u = {} THEN b ELSE G[p[u]][f[u \ {p[u]}]]
      BY <3>1 DEF Folds
    <3>3. CASE u = {}
      BY <3>1, <3>2, <3>3
    <3>4. CASE u # {}
      <4>. DEFINE v == u \ {p[u]}
      <4>1. v \in SUBSET T /\ v # T /\ v \in SUBSET u /\ u \in SUBSET D
        BY <1>0, <3>4
      <4>2. PICK h : Folds(h, b, G, p, v) /\ h[v] \in X /\ H(v) = h[v]
        BY <1>1, <4>1
      <4>3. IsFiniteSet(v)
        BY <4>1, FS_Subset
      <4>4. f[v] = h[v]
        <5>. HIDE DEF v, F, H, g
        <5>1. Folds(f, b, G, p, u) /\ Folds(h, b, G, p, v) /\ u \in SUBSET D /\ v \in SUBSET u /\ Picks(p, D)
          BY <3>1, <4>1, <4>2
        <5>. QED BY <4>3, <5>1, FoldsAgree
      <4>. QED BY <3>1, <3>2, <3>4, <4>2, <4>4
    <3>. QED BY <3>3, <3>4
  <2>2. ASSUME NEW s \in SUBSET T, s # {}
        PROVE  p[s] \in D /\ s \ {p[s]} \in SUBSET T /\ s \ {p[s]} # T /\ H(s \ {p[s]}) \in X /\ g(T)[s \ {p[s]}] = H(s \ {p[s]})
    <3>. DEFINE v == s \ {p[s]}
    <3>1. p[s] \in D /\ v \in SUBSET T /\ v # T
      BY <1>0, <2>2
    <3>2. H(v) \in X /\ H(v) = IF v = {} THEN b ELSE G[p[v]][H(v \ {p[v]})]
      <4>. HIDE DEF v, H
      <4>. QED BY <2>1, <3>1
    <3>3. g(T)[v] = IF v = {} THEN b ELSE G[p[v]][H(v \ {p[v]})]
      <4>. HIDE DEF v, H
      <4>. QED BY <3>1
    <3>. QED BY <3>1, <3>2, <3>3
  <2>3. \A s \in SUBSET T : (IF s = {} THEN b ELSE G[p[s]][H(s \ {p[s]})]) = IF s = {} THEN b ELSE G[p[s]][g(T)[s \ {p[s]}]]
    <3>. HIDE DEF g, H
    <3>. QED BY <2>2
  <2>4. g(T) = [s \in SUBSET T |-> IF s = {} THEN b ELSE G[p[s]][H(s \ {p[s]})]]
    OBVIOUS
  <2>5. Folds(g(T), b, G, p, T)
    <3>. HIDE DEF g, H
    <3>1. g(T) = [s \in SUBSET T |-> IF s = {} THEN b ELSE G[p[s]][g(T)[s \ {p[s]}]]]
      BY <2>3, <2>4, Zenon
    <3>. QED BY <3>1 DEF Folds
  <2>6. ASSUME NEW s \in SUBSET T PROVE g(T)[s] \in X
    <3>1. g(T)[s] = IF s = {} THEN b ELSE G[p[s]][H(s \ {p[s]})]
      BY <2>4
    <3>. HIDE DEF g, H
    <3>2. s # {} => p[s] \in D /\ H(s \ {p[s]}) \in X
      BY <2>2
    <3>3. s # {} => G[p[s]] \in [X -> X]
      BY <3>2
    <3>4. s # {} => G[p[s]][H(s \ {p[s]})] \in X
      BY <3>2, <3>3
    <3>. QED BY <3>1, <3>4
  <2>. QED BY <2>5, <2>6
<1>2. \A T \in SUBSET D : T \in F
  <2>1. ASSUME NEW T \in SUBSET D, \A u \in SUBSET T : u # T => u \in F PROVE T \in F
    <3>1. Folds(g(T), b, G, p, T) /\ g(T)[T] \in X
      <4>. HIDE DEF g, F
      <4>. QED BY <1>1, <2>1
    <3>. QED BY <3>1
  <2>. HIDE DEF F
  <2>. QED BY <2>1, SubsetInduction
<1>3. Folds(g(D), b, G, p, D) /\ \A s \in SUBSET D : g(D)[s] \in X
  <2>. HIDE DEF F, g
  <2>. QED BY <1>1, <1>2
<1>4. g(D) \in [SUBSET D -> X]
  BY <1>3
<1>. QED BY <1>3, <1>4
=============================================================================
