--------------------------- MODULE StakingFacts -----------------------------
(***************************************************************************)
(* Facts the proofs about StakingHooks and Relaunch rest on: the sum of a  *)
(* function over a finite set, the tokens of a set of validators, and what *)
(* the two pools lack of them after each change of a record.               *)
(*                                                                         *)
(* SumFunctionOnSet is defined by recursion over the subsets of the set.   *)
(* Induction over those is replaced throughout by the choice of a smallest *)
(* subset that has not the property, from which a smaller one is derived.  *)
(***************************************************************************)
EXTENDS StakingHooks, TLAPS

\* The time a leaf may take.
USE SMTT(30)

---------------------------------------------------------------------------
\* Sums over finite sets.

\* One round of the recursion by which a sum over the subsets of S is defined.
Adds(f, S, g) ==
  [T \in SUBSET S |->
     IF T = {} THEN 0
     ELSE f[CHOOSE x \in T : TRUE] + g[T \ {CHOOSE x \in T : TRUE}]]

\* The sum is the value at S of a function that the recursion maps to itself.
LEMMA SumUnfolded ==
  ASSUME NEW f, NEW S
  PROVE  SumFunctionOnSet(f, S) = (CHOOSE g : g = Adds(f, S, g))[S]
BY DEF SumFunctionOnSet, FoldFunctionOnSet, MapThenFoldSet, Adds

\* A set of subsets of a finite set has a smallest member.
LEMMA SmallestSubset ==
  ASSUME NEW S, Finite(S), NEW B \in SUBSET SUBSET S, B # {}
  PROVE  \E U \in B : \A W \in B : W \subseteq U => W = U
BY DEF Finite

\* The subsets of a finite set are finite.
LEMMA FiniteSubset ==
  ASSUME NEW S, Finite(S), NEW T \in SUBSET S
  PROVE  Finite(T)
BY DEF Finite

\* Two results of the recursion are equal when they agree on all subsets.
LEMMA AddsEqual ==
  ASSUME NEW f, NEW S, NEW g, NEW h,
         \A T \in SUBSET S : Adds(f, S, g)[T] = Adds(f, S, h)[T]
  PROVE  Adds(f, S, g) = Adds(f, S, h)
<1> DEFINE p == Adds(f, S, g)
           q == Adds(f, S, h)
<1>1. p = [T \in SUBSET S |-> p[T]] /\ q = [T \in SUBSET S |-> q[T]]
  BY DEF Adds
<1> HIDE DEF p, q
<1>2. \A T \in SUBSET S : p[T] = q[T]
  BY DEF p, q
<1>3. p = q
  BY <1>1, <1>2
<1> QED
  BY <1>3 DEF p, q

\* A solution for a set gives a solution for each of its subsets.
LEMMA AddsRestricted ==
  ASSUME NEW f, NEW S, NEW W \in SUBSET S, NEW g, g = Adds(f, S, g)
  PROVE  Restrict(g, SUBSET W) = Adds(f, W, Restrict(g, SUBSET W))
<1> DEFINE h == Restrict(g, SUBSET W)
<1>1. ASSUME NEW T \in SUBSET W
      PROVE  h[T] = Adds(f, W, h)[T]
  <2>1. T \in SUBSET S /\ g[T] = Adds(f, S, g)[T]
    OBVIOUS
  <2>2. CASE T = {}
    BY DEF Adds, Restrict
  <2>3. CASE T # {}
    <3> DEFINE x == CHOOSE y \in T : TRUE
    <3>1. T \ {x} \in SUBSET W
      OBVIOUS
    <3>2. h[T \ {x}] = g[T \ {x}]
      BY Zenon DEF Restrict
    <3> QED
      BY <2>1 DEF Adds, Restrict
  <2> QED
    BY <2>2, <2>3
<1> QED
  BY Zenon DEF Adds, Restrict

\* The recursion has at most one solution.
LEMMA AddsUnique ==
  ASSUME NEW f, NEW S, Finite(S),
         NEW g, g = Adds(f, S, g), NEW h, h = Adds(f, S, h)
  PROVE  g = h
<1> DEFINE B == {T \in SUBSET S : g[T] # h[T]}
<1>1. ASSUME B # {}
      PROVE  FALSE
  <2>1. PICK U \in B : \A W \in B : W \subseteq U => W = U
    <3>1. B \in SUBSET SUBSET S
      OBVIOUS
    <3> HIDE DEF B
    <3> QED
      BY <1>1, <3>1, SmallestSubset
  <2>2. g[U] = Adds(f, S, g)[U] /\ h[U] = Adds(f, S, h)[U]
    OBVIOUS
  <2>3. CASE U = {}
    BY <2>3 DEF Adds
  <2>4. CASE U # {}
    <3> DEFINE x == CHOOSE y \in U : TRUE
    <3>1. x \in U /\ U \ {x} \in SUBSET S
      BY <2>4
    <3>2. U \ {x} \notin B
      BY <2>1, <3>1
    <3>3. g[U \ {x}] = h[U \ {x}]
      BY <3>2
    <3> QED
      BY <2>2 DEF Adds
  <2> QED
    BY <2>3, <2>4
<1>2. g = [T \in SUBSET S |-> g[T]] /\ h = [T \in SUBSET S |-> h[T]]
  BY DEF Adds
<1> QED
  BY <1>1, <1>2

\* The recursion has a solution, put together from those of the smaller sets.
LEMMA AddsExists ==
  ASSUME NEW f, NEW S, Finite(S)
  PROVE  \E g : g = Adds(f, S, g)
<1> DEFINE B == {T \in SUBSET S : ~ \E g : g = Adds(f, T, g)}
<1>1. ASSUME B # {}
      PROVE  FALSE
  <2>1. PICK U \in B : \A W \in B : W \subseteq U => W = U
    <3>1. B \in SUBSET SUBSET S
      OBVIOUS
    <3> HIDE DEF B
    <3> QED
      BY <1>1, <3>1, SmallestSubset
  <2>2. \A W \in SUBSET U : W # U => \E g : g = Adds(f, W, g)
    BY <2>1
  <2> DEFINE At(W) == CHOOSE g : g = Adds(f, W, g)
             h == [T \in SUBSET U |-> At(T)[T]]
             k == Adds(f, U, h)
  <2>3. \A W \in SUBSET U : W # U => At(W) = Adds(f, W, At(W))
    OBVIOUS
  <2>4. ASSUME NEW T \in SUBSET U, T # U
        PROVE  k[T] = h[T]
    <3>1. At(T) = Adds(f, T, At(T))
      OBVIOUS
    <3>2. CASE T = {}
      BY <3>1, <3>2, Zenon DEF Adds
    <3>3. CASE T # {}
      <4> DEFINE x == CHOOSE y \in T : TRUE
                 V == T \ {x}
      <4>1. x \in T /\ V \in SUBSET T /\ V \in SUBSET U /\ V # U
        BY <3>3
      <4>2. At(V) = Adds(f, V, At(V))
        BY <4>1, <2>3, Zenon
      <4> DEFINE p == At(T)
                 q == At(V)
      <4>0. p = Adds(f, T, p) /\ q = Adds(f, V, q) /\ h[T] = p[T] /\ h[V] = q[V]
        BY <3>1, <4>2, Zenon
      <4> HIDE DEF p, q, At, h, V
      <4>3. Restrict(p, SUBSET V) = Adds(f, V, Restrict(p, SUBSET V))
        <5>1. V \in SUBSET T /\ p = Adds(f, T, p)
          BY <4>0, <4>1
        <5> QED
          BY ONLY <5>1, AddsRestricted
      <4>4. Finite(V)
        BY <4>1, FiniteSubset
      <4>5. Restrict(p, SUBSET V) = q
        BY <4>0, <4>3, <4>4, AddsUnique, Zenon
      <4>6. p[V] = q[V]
        <5>1. Restrict(p, SUBSET V)[V] = p[V]
          BY DEF Restrict
        <5> QED
          BY <4>5, <5>1, Zenon
      <4>7. p[T] = f[x] + p[V]
        <5>1. p[T] = Adds(f, T, p)[T]
          BY <4>0, Zenon
        <5> QED
          BY <3>3, <5>1 DEF Adds, V
      <4>8. k[T] = f[x] + h[V]
        BY <3>3 DEF Adds, V
      <4> QED
        BY <4>0, <4>6, <4>7, <4>8, Zenon
    <3> QED
      BY <3>2, <3>3
  <2>5. k = Adds(f, U, k)
    <3>1. ASSUME NEW T \in SUBSET U
          PROVE  Adds(f, U, h)[T] = Adds(f, U, k)[T]
      <4>1. CASE T = {}
        BY <4>1 DEF Adds
      <4>2. CASE T # {}
        <5> DEFINE x == CHOOSE y \in T : TRUE
        <5>1. x \in T /\ T \ {x} \in SUBSET U /\ T \ {x} # U
          BY <4>2
        <5>2. k[T \ {x}] = h[T \ {x}]
          BY <5>1, <2>4, Zenon
        <5> HIDE DEF k, h
        <5> QED
          BY <5>2 DEF Adds
      <4> QED
        BY <4>1, <4>2
    <3> HIDE DEF h
    <3> QED
      BY <3>1, AddsEqual
  <2> QED
    BY <2>5
<1> QED
  BY <1>1

\* The recursion, as an equation of the sum itself.
LEMMA SumStep ==
  ASSUME NEW f, NEW S, Finite(S)
  PROVE  SumFunctionOnSet(f, S) =
           IF S = {} THEN 0
           ELSE f[CHOOSE x \in S : TRUE] + SumFunctionOnSet(f, S \ {CHOOSE x \in S : TRUE})
<1> DEFINE g == CHOOSE h : h = Adds(f, S, h)
<1>1. g = Adds(f, S, g) /\ SumFunctionOnSet(f, S) = g[S]
  BY SumUnfolded
<1> HIDE DEF g
<1>2. g[S] = Adds(f, S, g)[S]
  BY <1>1
<1>3. CASE S = {}
  BY <1>1, <1>3 DEF Adds
<1>4. CASE S # {}
  <2> DEFINE x == CHOOSE y \in S : TRUE
             V == S \ {x}
             k == CHOOSE h : h = Adds(f, V, h)
  <2>1. V \in SUBSET S /\ Finite(V)
    BY FiniteSubset
  <2>2. g[S] = f[x] + g[V]
    BY <1>2, <1>4 DEF Adds
  <2>3. k = Adds(f, V, k) /\ SumFunctionOnSet(f, V) = k[V]
    BY <2>1, AddsExists, SumUnfolded, Zenon
  <2> HIDE DEF k, V
  <2>4. Restrict(g, SUBSET V) = Adds(f, V, Restrict(g, SUBSET V))
    BY ONLY <1>1, <2>1, AddsRestricted
  <2>5. Restrict(g, SUBSET V) = k
    BY ONLY <2>1, <2>3, <2>4, AddsUnique
  <2>6. Restrict(g, SUBSET V)[V] = g[V]
    BY DEF Restrict
  <2>7. SumFunctionOnSet(f, V) = g[V]
    BY <2>3, <2>5, <2>6, Zenon
  <2> QED
    BY <1>1, <1>4, <2>2, <2>7 DEF V
<1> QED
  BY <1>3, <1>4

\* The sum over the empty set is 0.
LEMMA SumEmpty == \A f : SumFunctionOnSet(f, {}) = 0
<1>1. Finite({})
  BY DEF Finite
<1> QED
  BY <1>1, SumStep, Zenon

\* A sum of integers is an integer, and one of natural numbers a natural number.
LEMMA SumIn ==
  ASSUME NEW D \in {Nat, Int}, NEW f, NEW S, Finite(S), \A x \in S : f[x] \in D
  PROVE  SumFunctionOnSet(f, S) \in D
<1> DEFINE Sum(T) == SumFunctionOnSet(f, T)
           B == {T \in SUBSET S : Sum(T) \notin D}
<1>1. ASSUME B # {}
      PROVE  FALSE
  <2>1. PICK U \in B : \A W \in B : W \subseteq U => W = U
    <3>1. B \in SUBSET SUBSET S
      OBVIOUS
    <3> HIDE DEF B
    <3> QED
      BY <1>1, <3>1, SmallestSubset
  <2> DEFINE x == CHOOSE y \in U : TRUE
  <2>2. Finite(U) /\ U # {}
    <3>1. Finite(U)
      BY FiniteSubset
    <3>2. Sum({}) = 0 /\ 0 \in D
      BY SumEmpty
    <3> HIDE DEF Sum
    <3> QED
      BY <3>1, <3>2
  <2>3. x \in U /\ U \ {x} \in SUBSET S /\ U \ {x} # U
    BY <2>2
  <2>4. Sum(U) = f[x] + Sum(U \ {x})
    BY <2>2, SumStep, Zenon
  <2> HIDE DEF Sum
  <2>5. Sum(U \ {x}) \in D
    BY <2>1, <2>3
  <2>6. f[x] \in D
    BY <2>3
  <2> QED
    BY <2>4, <2>5
<1> QED
  BY <1>1

\* Any element may be taken first.
LEMMA SumRemove ==
  ASSUME NEW f, NEW S, Finite(S), \A x \in S : f[x] \in Int, NEW z \in S
  PROVE  SumFunctionOnSet(f, S) = f[z] + SumFunctionOnSet(f, S \ {z})
<1> DEFINE Sum(T) == SumFunctionOnSet(f, T)
           B == {T \in SUBSET S : \E y \in T : Sum(T) # f[y] + Sum(T \ {y})}
<1>1. ASSUME B # {}
      PROVE  FALSE
  <2>1. PICK U \in B : \A W \in B : W \subseteq U => W = U
    <3>1. B \in SUBSET SUBSET S
      OBVIOUS
    <3> HIDE DEF B
    <3> QED
      BY <1>1, <3>1, SmallestSubset
  <2>2. PICK y \in U : Sum(U) # f[y] + Sum(U \ {y})
    OBVIOUS
  <2> DEFINE x == CHOOSE w \in U : TRUE
  <2>3. U \in SUBSET S /\ Finite(U) /\ x \in U
    BY FiniteSubset
  <2>4. Sum(U) = f[x] + Sum(U \ {x})
    BY <2>3, SumStep, Zenon
  <2>5. x # y
    BY <2>2, <2>4, Zenon
  <2>6. \A W \in SUBSET U : W # U => \A w \in W : Sum(W) = f[w] + Sum(W \ {w})
    BY <2>1, Zenon
  <2>7. /\ U \ {x} \in SUBSET U /\ U \ {x} # U /\ y \in U \ {x}
        /\ U \ {y} \in SUBSET U /\ U \ {y} # U /\ x \in U \ {y}
        /\ (U \ {x}) \ {y} = (U \ {y}) \ {x}
    BY <2>5
  <2> DEFINE V == (U \ {x}) \ {y}
  <2>8. Sum(U \ {x}) = f[y] + Sum(V) /\ Sum(U \ {y}) = f[x] + Sum(V)
    <3> HIDE DEF Sum, B, x
    <3> QED
      BY <2>6, <2>7
  <2>9. Sum(V) \in Int /\ f[x] \in Int /\ f[y] \in Int
    <3>1. V \in SUBSET U
      OBVIOUS
    <3>2. Finite(V)
      BY FiniteSubset
    <3>3. \A w \in V : f[w] \in Int
      OBVIOUS
    <3> HIDE DEF V
    <3>4. SumFunctionOnSet(f, V) \in Int
      BY <3>2, <3>3, SumIn
    <3> QED
      BY <3>4
  <2> HIDE DEF Sum, V, x
  <2> QED
    BY <2>2, <2>4, <2>8, <2>9
<1>2. S \notin B
  BY <1>1
<1> QED
  BY <1>2

\* The sum depends only on the values at the elements of the set.
LEMMA SumEqual ==
  ASSUME NEW f, NEW g, NEW S, Finite(S), \A x \in S : f[x] = g[x]
  PROVE  SumFunctionOnSet(f, S) = SumFunctionOnSet(g, S)
<1> DEFINE B == {T \in SUBSET S : SumFunctionOnSet(f, T) # SumFunctionOnSet(g, T)}
<1>1. ASSUME B # {}
      PROVE  FALSE
  <2>1. PICK U \in B : \A W \in B : W \subseteq U => W = U
    <3>1. B \in SUBSET SUBSET S
      OBVIOUS
    <3> HIDE DEF B
    <3> QED
      BY <1>1, <3>1, SmallestSubset
  <2> DEFINE x == CHOOSE y \in U : TRUE
  <2>2. Finite(U)
    BY FiniteSubset
  <2>3. U # {}
    BY SumEmpty, Zenon
  <2>4. x \in U /\ U \ {x} \in SUBSET S /\ U \ {x} # U
    BY <2>3
  <2>5. /\ SumFunctionOnSet(f, U) = f[x] + SumFunctionOnSet(f, U \ {x})
        /\ SumFunctionOnSet(g, U) = g[x] + SumFunctionOnSet(g, U \ {x})
    BY <2>2, <2>3, SumStep, Zenon
  <2>6. SumFunctionOnSet(f, U \ {x}) = SumFunctionOnSet(g, U \ {x})
    BY <2>1, <2>4, Zenon
  <2>7. f[x] = g[x]
    BY <2>4
  <2> QED
    BY <2>5, <2>6, Zenon
<1> QED
  BY <1>1, Zenon

\* The sum over two disjoint sets.
LEMMA SumDisjoint ==
  ASSUME NEW f, NEW S, NEW R, Finite(S \cup R), S \cap R = {},
         \A x \in S \cup R : f[x] \in Int
  PROVE  SumFunctionOnSet(f, S \cup R) = SumFunctionOnSet(f, S) + SumFunctionOnSet(f, R)
<1> DEFINE Sum(T) == SumFunctionOnSet(f, T)
           B == {T \in SUBSET S : Sum(T \cup R) # Sum(T) + Sum(R)}
<1>f. Finite(S) /\ Finite(R)
  BY FiniteSubset
<1>0. \A T \in SUBSET S : Finite(T) /\ Sum(T) \in Int /\ Sum(R) \in Int
  <2> TAKE T \in SUBSET S
  <2>1. Finite(T) /\ (\A x \in T : f[x] \in Int) /\ (\A x \in R : f[x] \in Int)
    BY FiniteSubset
  <2> QED
    BY <1>f, <2>1, SumIn
<1>1. ASSUME B # {}
      PROVE  FALSE
  <2>1. PICK U \in B : \A V \in B : V \subseteq U => V = U
    <3>1. B \in SUBSET SUBSET S
      OBVIOUS
    <3> HIDE DEF B
    <3> QED
      BY <1>1, <3>1, SmallestSubset
  <2>2. U # {}
    <3>1. Sum({}) = 0
      BY SumEmpty, Zenon
    <3>2. Sum(U \cup R) # Sum(U) + Sum(R) /\ Sum(R) \in Int
      BY <1>0
    <3> HIDE DEF Sum, B
    <3>3. {} \cup R = R
      OBVIOUS
    <3>4. U = {} => Sum(U) = 0 /\ Sum(U \cup R) = Sum(R)
      BY <3>1, Zenon
    <3> QED
      BY <3>2, <3>4
  <2>3. PICK x \in U : TRUE
    BY <2>2
  <2>4. U \ {x} \in SUBSET S /\ U \ {x} # U /\ x \in S /\ x \notin R
    OBVIOUS
  <2>5. Sum((U \ {x}) \cup R) = Sum(U \ {x}) + Sum(R)
    BY <2>1, <2>4, Zenon
  <2>6. (U \cup R) \ {x} = (U \ {x}) \cup R
    OBVIOUS
  <2>7. Sum(U) = f[x] + Sum(U \ {x})
    <3>1. Finite(U) /\ \A y \in U : f[y] \in Int
      BY <1>0
    <3> QED
      BY <3>1, SumRemove
  <2>8. Sum(U \cup R) = f[x] + Sum((U \ {x}) \cup R)
    <3>1. Finite(U \cup R) /\ \A y \in U \cup R : f[y] \in Int
      BY FiniteSubset
    <3>2. x \in U \cup R
      OBVIOUS
    <3>3. Sum(U \cup R) = f[x] + Sum((U \cup R) \ {x})
      BY <3>1, SumRemove
    <3> QED
      BY <3>3, Zenon
  <2>9. Sum(U \ {x}) \in Int /\ Sum(R) \in Int /\ f[x] \in Int
    BY <1>0
  <2> HIDE DEF Sum
  <2> QED
    BY <2>5, <2>7, <2>8, <2>9
<1>2. S \notin B
  BY <1>1, Zenon
<1> QED
  BY <1>2, Zenon

\* A sum of zeros is 0.
LEMMA SumZero ==
  ASSUME NEW f, NEW S, Finite(S), \A x \in S : f[x] = 0
  PROVE  SumFunctionOnSet(f, S) = 0
<1> DEFINE Sum(T) == SumFunctionOnSet(f, T)
           B == {T \in SUBSET S : Sum(T) # 0}
<1>1. ASSUME B # {}
      PROVE  FALSE
  <2>1. PICK U \in B : \A W \in B : W \subseteq U => W = U
    <3>1. B \in SUBSET SUBSET S
      OBVIOUS
    <3> HIDE DEF B
    <3> QED
      BY <1>1, <3>1, SmallestSubset
  <2> DEFINE x == CHOOSE y \in U : TRUE
  <2>2. Finite(U)
    BY FiniteSubset
  <2>3. U # {}
    BY SumEmpty, Zenon
  <2>4. x \in U /\ U \ {x} \in SUBSET S /\ U \ {x} # U
    BY <2>3
  <2>5. Sum(U) = f[x] + Sum(U \ {x})
    BY <2>2, <2>3, SumStep, Zenon
  <2>6. Sum(U \ {x}) = 0
    BY <2>1, <2>4, Zenon
  <2>7. f[x] = 0
    BY <2>4
  <2> HIDE DEF Sum, x
  <2> QED
    BY <2>5, <2>6
<1> QED
  BY <1>1, Zenon

---------------------------------------------------------------------------
\* The tokens of a set of validators.

Records == [Vals -> Validator]

\* The tokens of a set of validators are a natural number.
LEMMA TokensNat ==
  ASSUME NEW s, s.val \in Records, NEW V \in SUBSET Vals
  PROVE  TokensOf(s, V) \in Nat
<1> DEFINE f == [v \in Vals |-> s.val[v].tokens]
<1>1. Finite(V)
  BY StakingHooksAssumption, FiniteSubset
<1>2. \A v \in V : f[v] \in Nat
  BY DEF Records, Validator
<1> HIDE DEF f
<1>3. SumFunctionOnSet(f, V) \in Nat
  BY <1>1, <1>2, SumIn
<1> QED
  BY <1>3 DEF TokensOf, f

\* Two disjoint sets of validators have together what each of them has.
LEMMA TokensSplit ==
  ASSUME NEW s, s.val \in Records, NEW V \in SUBSET Vals, NEW W \in SUBSET Vals,
         V \cap W = {}
  PROVE  TokensOf(s, V \cup W) = TokensOf(s, V) + TokensOf(s, W)
<1> DEFINE f == [v \in Vals |-> s.val[v].tokens]
<1>1. Finite(V \cup W)
  BY StakingHooksAssumption, FiniteSubset
<1>2. \A v \in V \cup W : f[v] \in Int
  BY DEF Records, Validator
<1> HIDE DEF f
<1>3. SumFunctionOnSet(f, V \cup W) = SumFunctionOnSet(f, V) + SumFunctionOnSet(f, W)
  BY <1>1, <1>2, SumDisjoint
<1> QED
  BY <1>3 DEF TokensOf, f

\* A part of a set of validators has no more tokens than the set.
LEMMA TokensPart ==
  ASSUME NEW s, s.val \in Records, NEW V \in SUBSET Vals, NEW W \in SUBSET V
  PROVE  TokensOf(s, W) <= TokensOf(s, V)
<1>1. /\ W \in SUBSET Vals /\ V \ W \in SUBSET Vals
      /\ W \cap (V \ W) = {} /\ W \cup (V \ W) = V
  OBVIOUS
<1>2. TokensOf(s, W \cup (V \ W)) = TokensOf(s, W) + TokensOf(s, V \ W)
  BY TokensSplit
<1>3. TokensOf(s, V) = TokensOf(s, W) + TokensOf(s, V \ W)
  BY <1>2, Zenon
<1>4. TokensOf(s, W) \in Nat /\ TokensOf(s, V \ W) \in Nat
  BY TokensNat
<1> QED
  BY <1>3, <1>4

\* What a set has depends only on the records of its members.
LEMMA TokensSame ==
  ASSUME NEW s, NEW t, NEW V \in SUBSET Vals,
         \A v \in V : s.val[v].tokens = t.val[v].tokens
  PROVE  TokensOf(s, V) = TokensOf(t, V)
<1> DEFINE f == [v \in Vals |-> s.val[v].tokens]
           g == [v \in Vals |-> t.val[v].tokens]
<1>1. Finite(V)
  BY StakingHooksAssumption, FiniteSubset
<1>2. \A v \in V : f[v] = g[v]
  OBVIOUS
<1> HIDE DEF f, g
<1>3. SumFunctionOnSet(f, V) = SumFunctionOnSet(g, V)
  BY <1>1, <1>2, SumEqual
<1> QED
  BY <1>3 DEF TokensOf, f, g

\* One validator alone.
LEMMA TokensOne ==
  ASSUME NEW s, s.val \in Records, NEW v \in Vals
  PROVE  TokensOf(s, {v}) = s.val[v].tokens
<1> DEFINE f == [w \in Vals |-> s.val[w].tokens]
<1>1. Finite({v}) /\ {v} \ {v} = {}
  BY StakingHooksAssumption, FiniteSubset
<1>2. \A w \in {v} : f[w] \in Int
  BY DEF Records, Validator
<1>3. f[v] = s.val[v].tokens /\ s.val[v].tokens \in Nat
  BY DEF Records, Validator
<1> HIDE DEF f
<1>4. SumFunctionOnSet(f, {v}) = f[v] + SumFunctionOnSet(f, {v} \ {v})
  BY <1>1, <1>2, SumRemove
<1>5. SumFunctionOnSet(f, {v}) = f[v] + 0
  BY <1>4, SumEmpty, Zenon
<1>6. SumFunctionOnSet(f, {v}) = f[v]
  BY <1>3, <1>5
<1> QED
  BY <1>6 DEF TokensOf, f

\* When only the record of v changes, so does the sum, by the difference.
LEMMA TokensAt ==
  ASSUME NEW s, NEW t, s.val \in Records, t.val \in Records,
         NEW V \in SUBSET Vals, NEW v \in V,
         \A w \in Vals \ {v} : s.val[w].tokens = t.val[w].tokens
  PROVE  TokensOf(t, V) = TokensOf(s, V) - s.val[v].tokens + t.val[v].tokens
<1>1. /\ {v} \in SUBSET Vals /\ V \ {v} \in SUBSET Vals
      /\ {v} \cap (V \ {v}) = {} /\ {v} \cup (V \ {v}) = V /\ v \in Vals
  OBVIOUS
<1>2. /\ TokensOf(s, {v} \cup (V \ {v})) = TokensOf(s, {v}) + TokensOf(s, V \ {v})
      /\ TokensOf(t, {v} \cup (V \ {v})) = TokensOf(t, {v}) + TokensOf(t, V \ {v})
  BY TokensSplit
<1>3. TokensOf(s, V \ {v}) = TokensOf(t, V \ {v}) /\ TokensOf(s, V \ {v}) \in Nat
  BY TokensSame, TokensNat
<1>4. /\ TokensOf(s, {v}) = s.val[v].tokens /\ TokensOf(t, {v}) = t.val[v].tokens
      /\ s.val[v].tokens \in Nat /\ t.val[v].tokens \in Nat
  BY TokensOne DEF Records, Validator
<1>5. /\ TokensOf(s, V) = s.val[v].tokens + TokensOf(s, V \ {v})
      /\ TokensOf(t, V) = t.val[v].tokens + TokensOf(s, V \ {v})
  BY <1>2, <1>3, <1>4, Zenon
<1> QED
  BY <1>3, <1>4, <1>5

---------------------------------------------------------------------------
\* What the pools are short of, and the records the hooks leave behind.

BondedGap(s) == TokensOf(s, Bonded(s)) - s.bonded
OwedGap(s) == Owed(s) - s.notBonded

\* Who does not exist has no shares, and without shares there are no tokens;
\* the pools hold no more than the records and the unbonding delegations say.
Sound(s) ==
  /\ s \in Staking
  /\ s.index = IndexOf(s.val)
  /\ \A v \in Vals : /\ ~s.val[v].exists => ~s.val[v].shares
                     /\ ~s.val[v].shares => s.val[v].tokens = 0
  /\ BondedGap(s) >= 0 /\ OwedGap(s) >= 0

\* A step from s to t widens no gap.
Follows(s, t) ==
  /\ Sound(t)
  /\ BondedGap(t) <= BondedGap(s) /\ OwedGap(t) <= OwedGap(s)

\* The sets of validators that the pools are for, and the gaps as integers.
LEMMA GapsInt ==
  ASSUME NEW s \in Staking
  PROVE  /\ s.val \in Records
         /\ Bonded(s) \in SUBSET Vals /\ NotBonded(s) \in SUBSET Vals
         /\ TokensOf(s, Bonded(s)) \in Nat /\ TokensOf(s, NotBonded(s)) \in Nat
         /\ s.bonded \in Nat /\ s.notBonded \in Nat /\ s.unbonding \in Nat
         /\ s.accounts \in Nat
         /\ BondedGap(s) = TokensOf(s, Bonded(s)) - s.bonded
         /\ OwedGap(s) = TokensOf(s, NotBonded(s)) + s.unbonding - s.notBonded
<1>1. /\ s.val \in Records /\ s.bonded \in Nat /\ s.notBonded \in Nat
      /\ s.unbonding \in Nat /\ s.accounts \in Nat
  BY DEF Staking, Records
<1>2. Bonded(s) \in SUBSET Vals /\ NotBonded(s) \in SUBSET Vals
  BY DEF Bonded, NotBonded, Existing
<1>3. TokensOf(s, Bonded(s)) \in Nat /\ TokensOf(s, NotBonded(s)) \in Nat
  BY <1>1, <1>2, TokensNat
<1> QED
  BY <1>1, <1>2, <1>3 DEF BondedGap, OwedGap, Owed

\* The gaps when only the tokens of v change.
LEMMA GapsAt ==
  ASSUME NEW s \in Staking, NEW t \in Staking, NEW v \in Vals,
         \A w \in Vals : /\ t.val[w].exists <=> s.val[w].exists
                         /\ t.val[w].status = s.val[w].status
                         /\ w # v => t.val[w].tokens = s.val[w].tokens,
         t.unbonding = s.unbonding
  PROVE  /\ Bonded(t) = Bonded(s) /\ NotBonded(t) = NotBonded(s)
         /\ BondedGap(t) = BondedGap(s) + s.bonded - t.bonded +
              (IF v \in Bonded(s) THEN t.val[v].tokens - s.val[v].tokens ELSE 0)
         /\ OwedGap(t) = OwedGap(s) + s.notBonded - t.notBonded +
              (IF v \in NotBonded(s) THEN t.val[v].tokens - s.val[v].tokens ELSE 0)
<1>1. Bonded(t) = Bonded(s) /\ NotBonded(t) = NotBonded(s)
  <2>1. Existing(t) = Existing(s)
    BY DEF Existing
  <2>2. \A w \in Existing(s) : w \in Vals
    BY Zenon DEF Existing
  <2>3. \A w \in Existing(s) : t.val[w].status = s.val[w].status
    BY <2>2, Zenon
  <2>4. Bonded(t) = Bonded(s)
    BY ONLY <2>1, <2>3 DEF Bonded
  <2> QED
    BY <2>1, <2>4, Zenon DEF NotBonded
<1>2. s.val[v].tokens \in Nat /\ t.val[v].tokens \in Nat
  BY DEF Staking, Validator
<1>3. \A V \in SUBSET Vals :
        TokensOf(t, V) = TokensOf(s, V) +
          (IF v \in V THEN t.val[v].tokens - s.val[v].tokens ELSE 0)
  <2> TAKE V \in SUBSET Vals
  <2>1. s.val \in Records /\ t.val \in Records /\ TokensOf(s, V) \in Nat
    BY GapsInt, TokensNat
  <2>2. CASE v \in V
    <3>1. TokensOf(t, V) = TokensOf(s, V) - s.val[v].tokens + t.val[v].tokens
      <4>1. \A w \in Vals \ {v} : s.val[w].tokens = t.val[w].tokens
        OBVIOUS
      <4> QED
        BY <2>1, <2>2, <4>1, TokensAt
    <3> QED
      BY <1>2, <2>1, <2>2, <3>1
  <2>3. CASE v \notin V
    <3>1. TokensOf(t, V) = TokensOf(s, V)
      <4>1. \A w \in V : t.val[w].tokens = s.val[w].tokens
        BY <2>3, Zenon
      <4> QED
        BY <4>1, TokensSame, Zenon
    <3> QED
      BY <2>1, <2>3, <3>1
  <2> QED
    BY <2>2, <2>3
<1>4. /\ TokensOf(t, Bonded(t)) = TokensOf(s, Bonded(s)) +
           (IF v \in Bonded(s) THEN t.val[v].tokens - s.val[v].tokens ELSE 0)
      /\ TokensOf(t, NotBonded(t)) = TokensOf(s, NotBonded(s)) +
           (IF v \in NotBonded(s) THEN t.val[v].tokens - s.val[v].tokens ELSE 0)
  BY <1>1, <1>3, GapsInt, Zenon
<1>5. BondedGap(t) = BondedGap(s) + s.bonded - t.bonded +
        (IF v \in Bonded(s) THEN t.val[v].tokens - s.val[v].tokens ELSE 0)
  BY <1>2, <1>4, GapsInt
<1>6. OwedGap(t) = OwedGap(s) + s.notBonded - t.notBonded +
        (IF v \in NotBonded(s) THEN t.val[v].tokens - s.val[v].tokens ELSE 0)
  BY <1>2, <1>4, GapsInt
<1> QED
  BY <1>1, <1>5, <1>6

\* The index when only the record of v changes.
LEMMA IndexAt ==
  ASSUME NEW val \in Records, NEW new \in Records, NEW v \in Vals,
         \A w \in Vals \ {v} : new[w] = val[w]
  PROVE  IndexOf(new) =
           (IndexOf(val) \ {<<v, Power(val[v])>>}) \cup
           (IF new[v].exists /\ ~new[v].jailed THEN {<<v, Power(new[v])>>} ELSE {})
<1>1. \A e : e \in IndexOf(new) <=>
        \E w \in Vals : new[w].exists /\ ~new[w].jailed /\ e = <<w, Power(new[w])>>
  BY DEF IndexOf
<1>2. \A e : e \in IndexOf(val) <=>
        \E w \in Vals : val[w].exists /\ ~val[w].jailed /\ e = <<w, Power(val[w])>>
  BY DEF IndexOf
<1>3. ASSUME NEW e
      PROVE  e \in IndexOf(new) <=>
               \/ e \in IndexOf(val) /\ e # <<v, Power(val[v])>>
               \/ new[v].exists /\ ~new[v].jailed /\ e = <<v, Power(new[v])>>
  BY <1>1, <1>2
<1> QED
  BY <1>3

\* The fields of the state after a delegation.
HasDelegated(s, v, amount, t) ==
  /\ t \in Staking
  /\ \A w \in Vals \ {v} : t.val[w] = s.val[w]
  /\ t.val[v] = [s.val[v] EXCEPT !.tokens = s.val[v].tokens + amount, !.shares = TRUE]
  /\ t.index = IF s.val[v].jailed THEN s.index
               ELSE (s.index \ {Entry(s, v)}) \cup {<<v, Power(t.val[v])>>}
  /\ t.bonded = IF v \in Bonded(s) THEN s.bonded + amount ELSE s.bonded
  /\ t.notBonded = IF v \in Bonded(s) THEN s.notBonded ELSE s.notBonded + amount
  /\ t.unbonding = s.unbonding /\ t.accounts = s.accounts
  /\ t.delegations = s.delegations \cup {v}

\* They are those that Delegated writes.
LEMMA DelegatedFields ==
  ASSUME NEW s \in Staking, NEW v \in Vals, NEW amount \in Nat,
         NEW t, t = Delegated(s, v, amount)
  PROVE  HasDelegated(s, v, amount, t)
<1> DEFINE u == [s EXCEPT !.val[v].tokens = @ + amount, !.val[v].shares = TRUE,
                          !.delegations = @ \cup {v}, !.started = @ \cup {v}]
<1> DEFINE r == [s.val[v] EXCEPT !.tokens = s.val[v].tokens + amount, !.shares = TRUE]
<1>1. s.val \in [Vals -> Validator] /\ r \in Validator
  <2>1. s.val \in [Vals -> Validator] /\ s.val[v] \in Validator
    BY DEF Staking
  <2>2. s.val[v].tokens + amount \in Nat
    BY <2>1 DEF Validator
  <2> QED
    BY <2>1, <2>2, Zenon DEF Validator
<1>2. /\ u.val = [s.val EXCEPT ![v] = r]
      /\ u.index = s.index /\ u.bonded = s.bonded /\ u.notBonded = s.notBonded
      /\ u.unbonding = s.unbonding /\ u.accounts = s.accounts
      /\ u.delegations = s.delegations \cup {v} /\ u.started = s.started \cup {v}
  BY Zenon DEF Staking
<1>3. /\ u.val \in [Vals -> Validator] /\ u.val[v] = r
      /\ \A w \in Vals \ {v} : u.val[w] = s.val[w]
  <2> HIDE DEF u, r
  <2> QED
    BY <1>1, <1>2
<1>4. u \in Staking
  BY <1>2, <1>3, ZenonT(60) DEF Staking
<1>5. Entry(u, v) = <<v, Power(u.val[v])>> /\ Power(u.val[v]) \in Nat
  <2> HIDE DEF u, r
  <2>1. u.val[v].tokens \in Nat
    BY <1>3 DEF Validator
  <2> QED
    BY <2>1, StakingHooksAssumption DEF Entry, Power
<1>6. t = [u EXCEPT
         !.index = IF s.val[v].jailed THEN @ ELSE (@ \ {Entry(s, v)}) \cup {Entry(u, v)},
         !.bonded = IF v \in Bonded(s) THEN @ + amount ELSE @,
         !.notBonded = IF v \in Bonded(s) THEN @ ELSE @ + amount]
  BY DEF Delegated
<1> HIDE DEF u, r
<1>7. /\ t.val = u.val /\ t.unbonding = u.unbonding /\ t.accounts = u.accounts
      /\ t.delegations = u.delegations /\ t.started = u.started
      /\ t.index = IF s.val[v].jailed THEN u.index
                   ELSE (u.index \ {Entry(s, v)}) \cup {Entry(u, v)}
      /\ t.bonded = IF v \in Bonded(s) THEN u.bonded + amount ELSE u.bonded
      /\ t.notBonded = IF v \in Bonded(s) THEN u.notBonded ELSE u.notBonded + amount
  BY <1>4, <1>6, Zenon DEF Staking
<1>8. t \in Staking
  <2>1. /\ u.bonded \in Nat /\ u.notBonded \in Nat /\ u.index \in SUBSET (Vals \X Nat)
    BY <1>4 DEF Staking
  <2>2. t.index \in SUBSET (Vals \X Nat) /\ t.bonded \in Nat /\ t.notBonded \in Nat
    BY <1>5, <1>7, <2>1
  <2> QED
    BY <1>4, <1>6, <2>2, Zenon DEF Staking
<1> QED
  BY <1>2, <1>3, <1>5, <1>7, <1>8, Zenon DEF r, HasDelegated

\* A change of the record of v, with its pool following: what the pool loses
\* is what v loses, unless that empties the pool.
PoolFollows(s, t, v, pool, newPool) ==
  LET lost == (s.val[v].tokens - t.val[v].tokens) - (pool - newPool)
  IN  lost >= 0 /\ (lost = 0 \/ newPool = 0)

Changed(s, t, v) ==
  /\ t \in Staking
  /\ \A w \in Vals \ {v} : t.val[w] = s.val[w]
  /\ s.val[v].exists /\ t.val[v].exists /\ t.val[v].status = s.val[v].status
  /\ ~t.val[v].shares => t.val[v].tokens = 0
  /\ t.index = IndexOf(t.val) /\ t.unbonding = s.unbonding
  /\ IF v \in Bonded(s)
     THEN PoolFollows(s, t, v, s.bonded, t.bonded) /\ t.notBonded = s.notBonded
     ELSE PoolFollows(s, t, v, s.notBonded, t.notBonded) /\ t.bonded = s.bonded

\* Such a change leaves the staking records sound and widens no gap.
LEMMA OneRecord ==
  ASSUME NEW s, Sound(s), NEW t, NEW v \in Vals, Changed(s, t, v)
  PROVE  Follows(s, t) /\ Bonded(t) = Bonded(s)
<1>0. /\ t \in Staking
      /\ \A w \in Vals \ {v} : t.val[w] = s.val[w]
      /\ s.val[v].exists /\ t.val[v].exists /\ t.val[v].status = s.val[v].status
      /\ ~t.val[v].shares => t.val[v].tokens = 0
      /\ t.index = IndexOf(t.val) /\ t.unbonding = s.unbonding
  BY Zenon DEF Changed
<1>p. IF v \in Bonded(s)
       THEN PoolFollows(s, t, v, s.bonded, t.bonded) /\ t.notBonded = s.notBonded
       ELSE PoolFollows(s, t, v, s.notBonded, t.notBonded) /\ t.bonded = s.bonded
  BY Zenon DEF Changed
<1>1. s \in Staking /\ BondedGap(s) >= 0 /\ OwedGap(s) >= 0
  BY DEF Sound
<1>2. \A w \in Vals : /\ t.val[w].exists <=> s.val[w].exists
                      /\ t.val[w].status = s.val[w].status
                      /\ w # v => t.val[w].tokens = s.val[w].tokens
  BY <1>0, Zenon
<1>3. /\ Bonded(t) = Bonded(s)
      /\ BondedGap(t) = BondedGap(s) + s.bonded - t.bonded +
           (IF v \in Bonded(s) THEN t.val[v].tokens - s.val[v].tokens ELSE 0)
      /\ OwedGap(t) = OwedGap(s) + s.notBonded - t.notBonded +
           (IF v \in NotBonded(s) THEN t.val[v].tokens - s.val[v].tokens ELSE 0)
  BY <1>0, <1>1, <1>2, GapsAt
<1>4. v \in NotBonded(s) <=> v \notin Bonded(s)
  BY <1>0 DEF NotBonded, Existing
<1>5. s.val[v].tokens \in Nat /\ t.val[v].tokens \in Nat
  BY <1>0, <1>1 DEF Staking, Validator
<1>6. /\ BondedGap(t) <= BondedGap(s) /\ BondedGap(t) >= 0
      /\ OwedGap(t) <= OwedGap(s) /\ OwedGap(t) >= 0
  <2>1. CASE v \in Bonded(s)
    <3>1. /\ s.bonded - t.bonded + t.val[v].tokens - s.val[v].tokens <= 0
          /\ \/ s.bonded - t.bonded + t.val[v].tokens - s.val[v].tokens = 0
             \/ t.bonded = 0
      BY <1>0, <1>p, <1>1, <1>5, <2>1, GapsInt DEF PoolFollows
    <3>2. OwedGap(t) = OwedGap(s)
      BY <1>p, <1>1, <1>3, <1>4, <2>1, GapsInt
    <3>3. t.bonded = 0 => BondedGap(t) >= 0
      BY <1>0, GapsInt
    <3> QED
      BY <1>0, <1>1, <1>3, <1>5, <2>1, <3>1, <3>2, GapsInt
  <2>2. CASE v \notin Bonded(s)
    <3>1. /\ s.notBonded - t.notBonded + t.val[v].tokens - s.val[v].tokens <= 0
          /\ \/ s.notBonded - t.notBonded + t.val[v].tokens - s.val[v].tokens = 0
             \/ t.notBonded = 0
      BY <1>0, <1>p, <1>1, <1>5, <2>2, GapsInt DEF PoolFollows
    <3>2. BondedGap(t) = BondedGap(s)
      BY <1>p, <1>1, <1>3, <2>2, GapsInt
    <3>3. t.notBonded = 0 => OwedGap(t) >= 0
      BY <1>0, GapsInt
    <3> QED
      BY <1>0, <1>1, <1>3, <1>4, <1>5, <2>2, <3>1, <3>2, GapsInt
  <2> QED
    BY <2>1, <2>2
<1>7. \A w \in Vals : /\ ~t.val[w].exists => ~t.val[w].shares
                      /\ ~t.val[w].shares => t.val[w].tokens = 0
  BY <1>0, Zenon DEF Sound
<1> QED
  BY <1>0, <1>3, <1>6, Zenon DEF Follows, Sound

\* The validators with a record of a delegation, but without shares.
Unshared(s) == {v \in s.delegations : ~s.val[v].shares}

\* What a step of the hooks on validator v keeps.
Keeps(s, t) ==
  /\ Follows(s, t) /\ Bonded(t) = Bonded(s)
  /\ Unshared(t) \subseteq Unshared(s)
  /\ \A w \in Vals : /\ t.val[w].exists <=> s.val[w].exists
                     /\ t.val[w].jailed <=> s.val[w].jailed

\* A delegation to a validator that exists.
LEMMA DelegatedFollows ==
  ASSUME NEW s, Sound(s), NEW v \in Vals, s.val[v].exists, NEW amount \in Nat,
         NEW t, t = Delegated(s, v, amount)
  PROVE  Keeps(s, t)
<1>1. s \in Staking /\ s.index = IndexOf(s.val) /\ s.val \in Records /\ s.val[v] \in Validator
  <2>1. s \in Staking /\ s.index = IndexOf(s.val)
    BY Zenon DEF Sound
  <2> QED
    BY <2>1 DEF Staking, Records
<1>2. /\ t \in Staking
      /\ \A w \in Vals \ {v} : t.val[w] = s.val[w]
      /\ t.val[v] = [s.val[v] EXCEPT !.tokens = s.val[v].tokens + amount, !.shares = TRUE]
      /\ t.index = IF s.val[v].jailed THEN s.index
                   ELSE (s.index \ {Entry(s, v)}) \cup {<<v, Power(t.val[v])>>}
      /\ t.bonded = IF v \in Bonded(s) THEN s.bonded + amount ELSE s.bonded
      /\ t.notBonded = IF v \in Bonded(s) THEN s.notBonded ELSE s.notBonded + amount
      /\ t.unbonding = s.unbonding /\ t.accounts = s.accounts
      /\ t.delegations = s.delegations \cup {v}
  <2>1. HasDelegated(s, v, amount, t)
    BY <1>1, DelegatedFields
  <2> QED
    BY <2>1, Zenon DEF HasDelegated
<1>3. /\ t.val[v].exists /\ t.val[v].shares /\ t.val[v].status = s.val[v].status
      /\ t.val[v].jailed = s.val[v].jailed
      /\ t.val[v].tokens = s.val[v].tokens + amount
  BY <1>1, <1>2, Zenon DEF Validator
<1>4. t.val \in Records /\ s.val[v].tokens \in Nat /\ t.val[v].tokens \in Nat
  BY <1>1, <1>2 DEF Staking, Records, Validator
<1>5. t.index = IndexOf(t.val)
  <2>1. IndexOf(t.val) =
          (IndexOf(s.val) \ {<<v, Power(s.val[v])>>}) \cup
          (IF t.val[v].exists /\ ~t.val[v].jailed THEN {<<v, Power(t.val[v])>>} ELSE {})
    <3>1. s.val \in Records /\ t.val \in Records /\ \A w \in Vals \ {v} : t.val[w] = s.val[w]
      BY <1>1, <1>2, <1>4, Zenon
    <3> HIDE <1>1, <1>2
    <3> QED
      BY <3>1, IndexAt
  <2>2. s.val[v].jailed => <<v, Power(s.val[v])>> \notin IndexOf(s.val)
    BY DEF IndexOf
  <2> QED
    BY <1>1, <1>2, <2>1, <2>2 DEF Entry
<1>6. IF v \in Bonded(s)
      THEN PoolFollows(s, t, v, s.bonded, t.bonded) /\ t.notBonded = s.notBonded
      ELSE PoolFollows(s, t, v, s.notBonded, t.notBonded) /\ t.bonded = s.bonded
  BY <1>1, <1>2, <1>4, GapsInt DEF PoolFollows
<1>7. Follows(s, t) /\ Bonded(t) = Bonded(s)
  <2>1. Changed(s, t, v)
    BY <1>2, <1>3, <1>5, <1>6, Zenon DEF Changed
  <2> QED
    BY <2>1, OneRecord
<1>8. Unshared(t) \subseteq Unshared(s)
  <2>1. s.delegations \in SUBSET Vals
    BY <1>1 DEF Staking
  <2> QED
    BY <1>2, <1>3, <2>1, Zenon DEF Unshared
<1> QED
  BY <1>2, <1>3, <1>7, <1>8, Zenon DEF Keeps

\* setValidatorBalance, whether or not the validator exists.
LEMMA BalanceFollows ==
  ASSUME NEW s, Sound(s), NEW v \in Vals, NEW target \in Nat,
         NEW t, t = SetValidatorBalance(s, v, target)
  PROVE  Keeps(s, t)
<1>1. s \in Staking /\ s.val[v].tokens \in Nat /\ s.accounts \in Nat
  <2>1. s \in Staking
    BY Zenon DEF Sound
  <2> QED
    BY <2>1 DEF Staking, Validator
<1>2. CASE s.val[v].tokens >= target
  <2>1. t = s
    BY <1>2, Zenon DEF SetValidatorBalance
  <2>2. Follows(s, s)
    BY <1>1, GapsInt DEF Follows
  <2> QED
    BY <2>1, <2>2, Zenon DEF Keeps
<1>3. CASE ~(s.val[v].tokens >= target) /\ DelegateAllowed(s, v)
  <2>1. t = Delegated(s, v, target - s.val[v].tokens)
    BY <1>3, Zenon DEF SetValidatorBalance
  <2>2. target - s.val[v].tokens \in Nat
    BY <1>1, <1>3
  <2>3. s.val[v].exists
    BY <1>3, Zenon DEF DelegateAllowed
  <2> QED
    BY <2>1, <2>2, <2>3, DelegatedFollows, Zenon
<1>4. CASE ~(s.val[v].tokens >= target) /\ ~DelegateAllowed(s, v)
  <2> DEFINE n == s.accounts + (target - s.val[v].tokens)
  <2>1. t = [s EXCEPT !.accounts = n]
    BY <1>4, Zenon DEF SetValidatorBalance
  <2>2. n \in Nat
    BY <1>1, <1>4
  <2> HIDE DEF n
  <2>3. /\ t \in Staking /\ t.val = s.val /\ t.index = s.index /\ t.bonded = s.bonded
        /\ t.notBonded = s.notBonded /\ t.unbonding = s.unbonding
        /\ t.delegations = s.delegations
    BY <1>1, <2>1, <2>2, Zenon DEF Staking
  <2>4. Bonded(t) = Bonded(s) /\ BondedGap(t) = BondedGap(s) /\ OwedGap(t) = OwedGap(s)
    BY <2>3, Zenon
       DEF Bonded, NotBonded, Existing, BondedGap, OwedGap, Owed, TokensOf
  <2>5. Follows(s, t)
    <3>1. BondedGap(s) <= BondedGap(s) /\ OwedGap(s) <= OwedGap(s)
      BY <1>1, GapsInt
    <3> QED
      BY <2>3, <2>4, <3>1, Zenon DEF Follows, Sound
  <2> QED
    BY <2>3, <2>4, <2>5, Zenon DEF Keeps, Unshared
<1> QED
  BY <1>2, <1>3, <1>4

\* The slashing module lets a validator out of jail.
Unjailed(s, v) == [s EXCEPT !.val[v].jailed = FALSE, !.index = @ \cup {Entry(s, v)}]

\* It then has its entry in the power index again.
LEMMA UnjailedFollows ==
  ASSUME NEW s, Sound(s), NEW v \in Vals, s.val[v].exists, s.val[v].jailed,
         NEW t, t = Unjailed(s, v)
  PROVE  /\ Follows(s, t) /\ Bonded(t) = Bonded(s) /\ Unshared(t) = Unshared(s)
<1> DEFINE r == [s.val[v] EXCEPT !.jailed = FALSE]
<1>1. /\ s \in Staking /\ s.index = IndexOf(s.val) /\ s.val \in Records
      /\ s.val[v] \in Validator
  <2>1. s \in Staking /\ s.index = IndexOf(s.val)
    BY Zenon DEF Sound
  <2> QED
    BY <2>1 DEF Staking, Records
<1>2. r \in Validator /\ Power(s.val[v]) \in Nat /\ Entry(s, v) = <<v, Power(s.val[v])>>
  <2>1. r \in Validator
    BY <1>1, Zenon DEF Validator
  <2>2. s.val[v].tokens \in Nat
    BY <1>1 DEF Validator
  <2> QED
    BY <2>1, <2>2, StakingHooksAssumption DEF Power, Entry
<1>3. /\ t.val = [s.val EXCEPT ![v] = r] /\ t.index = s.index \cup {Entry(s, v)}
      /\ t.bonded = s.bonded /\ t.notBonded = s.notBonded
      /\ t.unbonding = s.unbonding /\ t.delegations = s.delegations
  BY <1>1, Zenon DEF Staking, Unjailed
<1>4. /\ t.val \in Records /\ t.val[v] = r /\ \A w \in Vals \ {v} : t.val[w] = s.val[w]
  <2> HIDE DEF r
  <2> QED
    BY <1>1, <1>2, <1>3 DEF Records
<1>5. t.index \in SUBSET (Vals \X Nat)
  <2>1. s.index \in SUBSET (Vals \X Nat)
    BY <1>1 DEF Staking
  <2> QED
    BY <1>2, <1>3, <2>1
<1>6. t \in Staking
  BY <1>1, <1>4, <1>5, Zenon DEF Staking, Records, Unjailed
<1>7. /\ t.val[v].exists /\ ~t.val[v].jailed /\ t.val[v].status = s.val[v].status
      /\ t.val[v].tokens = s.val[v].tokens /\ t.val[v].shares = s.val[v].shares
  BY <1>1, <1>4, Zenon DEF Validator
<1> HIDE DEF r
<1>8. t.index = IndexOf(t.val)
  <2>1. IndexOf(t.val) =
          (IndexOf(s.val) \ {<<v, Power(s.val[v])>>}) \cup
          (IF t.val[v].exists /\ ~t.val[v].jailed THEN {<<v, Power(t.val[v])>>} ELSE {})
    <3>1. s.val \in Records /\ t.val \in Records /\ \A w \in Vals \ {v} : t.val[w] = s.val[w]
      BY <1>1, <1>4, Zenon
    <3> QED
      BY <3>1, IndexAt
  <2>2. Power(t.val[v]) = Power(s.val[v])
    BY <1>7, Zenon DEF Power
  <2> QED
    BY <1>1, <1>2, <1>3, <1>7, <2>1, <2>2
<1>9. IF v \in Bonded(s)
      THEN PoolFollows(s, t, v, s.bonded, t.bonded) /\ t.notBonded = s.notBonded
      ELSE PoolFollows(s, t, v, s.notBonded, t.notBonded) /\ t.bonded = s.bonded
  <2>1. s.val[v].tokens \in Nat
    BY <1>1 DEF Validator
  <2> QED
    BY <1>1, <1>3, <1>7, <2>1, GapsInt DEF PoolFollows
<1>10. ~t.val[v].shares => t.val[v].tokens = 0
  BY <1>7, Zenon DEF Sound
<1>11. Follows(s, t) /\ Bonded(t) = Bonded(s)
  <2>1. Changed(s, t, v)
    BY <1>3, <1>4, <1>6, <1>7, <1>8, <1>9, <1>10, Zenon DEF Changed
  <2> QED
    BY <2>1, OneRecord
<1>12. Unshared(t) = Unshared(s)
  <2>1. s.delegations \in SUBSET Vals
    BY <1>1 DEF Staking
  <2>2. \A w \in Vals : t.val[w].shares = s.val[w].shares
    BY <1>4, <1>7, Zenon
  <2> QED
    BY <1>3, <2>2 DEF Unshared
<1> QED
  BY <1>11, <1>12

\* What Sound says, by the parts most steps need.
LEMMA SoundParts ==
  ASSUME NEW s, Sound(s), NEW v \in Vals
  PROVE  /\ s \in Staking /\ s.index = IndexOf(s.val) /\ s.val \in Records
         /\ s.index \in SUBSET (Vals \X Nat) /\ s.delegations \in SUBSET Vals
         /\ s.val[v] \in Validator /\ s.val[v].tokens \in Nat
         /\ Power(s.val[v]) \in Nat /\ Entry(s, v) = <<v, Power(s.val[v])>>
         /\ s.bonded \in Nat /\ s.notBonded \in Nat
<1>1. s \in Staking /\ s.index = IndexOf(s.val)
  BY Zenon DEF Sound
<1>2. s.val \in Records /\ s.delegations \in SUBSET Vals /\ s.index \in SUBSET (Vals \X Nat)
  BY <1>1 DEF Staking, Records
<1>3. s.val[v] \in Validator /\ s.val[v].tokens \in Nat
  BY <1>2 DEF Records, Validator
<1>4. Power(s.val[v]) \in Nat /\ Entry(s, v) = <<v, Power(s.val[v])>>
  BY <1>3, StakingHooksAssumption DEF Power, Entry
<1> QED
  BY <1>1, <1>2, <1>3, <1>4, GapsInt

\* BeginBlock of the slashing module.
Slashed(s, v, amount) ==
  [s EXCEPT !.val[v].tokens = @ - amount, !.val[v].jailed = TRUE,
            !.index = @ \ {Entry(s, v)}, !.bonded = @ - amount]

\* A slashed validator loses its tokens with the pool, and its index entry.
LEMMA SlashedFollows ==
  ASSUME NEW s, Sound(s), NEW v \in Vals, v \in Bonded(s), ~s.val[v].jailed,
         NEW amount \in Nat, amount <= s.val[v].tokens, amount <= s.bonded,
         NEW t, t = Slashed(s, v, amount)
  PROVE  /\ Follows(s, t) /\ Bonded(t) = Bonded(s) /\ Unshared(t) = Unshared(s)
<1> DEFINE r == [s.val[v] EXCEPT !.tokens = s.val[v].tokens - amount, !.jailed = TRUE]
           p == s.bonded - amount
<1>1. /\ s \in Staking /\ s.index = IndexOf(s.val) /\ s.val \in Records
      /\ s.index \in SUBSET (Vals \X Nat) /\ s.delegations \in SUBSET Vals
      /\ s.val[v] \in Validator /\ s.val[v].tokens \in Nat
      /\ Power(s.val[v]) \in Nat /\ Entry(s, v) = <<v, Power(s.val[v])>>
      /\ s.bonded \in Nat /\ s.notBonded \in Nat
  BY SoundParts
<1>2. s.val[v].exists
  BY DEF Bonded, Existing
<1>3. r \in Validator /\ p \in Nat
  <2>1. s.val[v].tokens - amount \in Nat /\ p \in Nat
    BY <1>1
  <2> QED
    BY <1>1, <2>1, Zenon DEF Validator
<1>4. /\ t.val = [s.val EXCEPT ![v] = r] /\ t.index = s.index \ {Entry(s, v)}
      /\ t.bonded = p /\ t.notBonded = s.notBonded
      /\ t.unbonding = s.unbonding /\ t.delegations = s.delegations
  BY <1>1, Zenon DEF Staking, Slashed
<1>5. /\ t.val \in Records /\ t.val[v] = r /\ \A w \in Vals \ {v} : t.val[w] = s.val[w]
  <2> HIDE DEF r
  <2> QED
    BY <1>1, <1>3, <1>4 DEF Records
<1>6. t.index \in SUBSET (Vals \X Nat)
  BY <1>1, <1>4
<1>7. t \in Staking
  <2>1. t.bonded \in Nat
    BY <1>3, <1>4
  <2> QED
    BY <1>1, <1>5, <1>6, <2>1, Zenon DEF Staking, Records, Slashed
<1>8. /\ t.val[v].exists /\ t.val[v].jailed /\ t.val[v].status = s.val[v].status
      /\ t.val[v].tokens = s.val[v].tokens - amount /\ t.val[v].shares = s.val[v].shares
  BY <1>1, <1>2, <1>5, Zenon DEF Validator
<1> HIDE DEF r
<1>9. t.index = IndexOf(t.val)
  <2>1. IndexOf(t.val) =
          (IndexOf(s.val) \ {<<v, Power(s.val[v])>>}) \cup
          (IF t.val[v].exists /\ ~t.val[v].jailed THEN {<<v, Power(t.val[v])>>} ELSE {})
    BY <1>1, <1>5, IndexAt, ZenonT(60)
  <2> QED
    BY <1>1, <1>4, <1>8, <2>1
<1>10. PoolFollows(s, t, v, s.bonded, t.bonded)
  BY <1>1, <1>4, <1>8 DEF PoolFollows
<1>11. ~t.val[v].shares => t.val[v].tokens = 0
  <2>1. ~s.val[v].shares => s.val[v].tokens = 0
    BY Zenon DEF Sound
  <2> QED
    BY <1>8, <2>1
<1>12. Changed(s, t, v)
  BY <1>2, <1>4, <1>5, <1>7, <1>8, <1>9, <1>10, <1>11, Zenon DEF Changed
<1>13. Unshared(t) = Unshared(s)
  <2>1. \A w \in Vals : t.val[w].shares = s.val[w].shares
    BY <1>5, <1>8, Zenon
  <2> QED
    BY <1>4, <2>1 DEF Unshared
<1> QED
  BY <1>12, <1>13, OneRecord

\* The smaller and the larger of two numbers.
LEMMA MinMax ==
  ASSUME NEW a \in Int, NEW b \in Int
  PROVE  /\ Min({a, b}) = IF a <= b THEN a ELSE b
         /\ Max({a, b}) = IF a >= b THEN a ELSE b
BY DEF Min, Max

\* A removal takes the tokens from the pool, all of them or all that is there.
LEMMA RemovedFollows ==
  ASSUME NEW s, Sound(s), NEW v \in Vals, s.val[v].exists, NEW tokens,
         NEW t, t = Removed(s, v, tokens)
  PROVE  /\ Follows(s, t) /\ Bonded(t) = Bonded(s)
         /\ Unshared(t) \subseteq Unshared(s) \cup {v}
<1> DEFINE amount == Taken(s, v, tokens)
           taken == amount > 0
           r == [s.val[v] EXCEPT !.jailed = TRUE, !.tokens = IF taken THEN 0 ELSE @,
                                 !.shares = @ /\ ~taken]
           u == HandleValidatorTokens(s, v, tokens)
           inPool == v \in Bonded(s)
           i == IF s.val[v].jailed THEN s.index ELSE s.index \ {Entry(s, v)}
<1>1. /\ s \in Staking /\ s.index = IndexOf(s.val) /\ s.val \in Records
      /\ s.index \in SUBSET (Vals \X Nat) /\ s.delegations \in SUBSET Vals
      /\ s.val[v] \in Validator /\ s.val[v].tokens \in Nat
      /\ Power(s.val[v]) \in Nat /\ Entry(s, v) = <<v, Power(s.val[v])>>
      /\ s.bonded \in Nat /\ s.notBonded \in Nat
  BY SoundParts
<1>2. /\ amount \in Nat /\ amount <= s.val[v].tokens
      /\ amount <= Pool(s, v) /\ (taken => amount = s.val[v].tokens \/ amount = Pool(s, v))
  <2>1. Pool(s, v) \in Nat
    BY <1>1 DEF Pool
  <2>2. Min({s.val[v].tokens, Pool(s, v)}) =
          IF s.val[v].tokens <= Pool(s, v) THEN s.val[v].tokens ELSE Pool(s, v)
    BY <1>1, <2>1, MinMax
  <2> QED
    BY <1>1, <2>1, <2>2 DEF Taken
<1> HIDE DEF amount
<1>3. /\ u.val = s.val /\ u.index = s.index /\ u.delegations = s.delegations
      /\ u.started = s.started /\ u.unbonding = s.unbonding
      /\ u.bonded = (IF inPool THEN s.bonded - amount ELSE s.bonded)
      /\ u.notBonded = (IF inPool THEN s.notBonded ELSE s.notBonded - amount)
      /\ u.accounts = (IF tokens = "send" THEN s.accounts + amount ELSE s.accounts)
  BY <1>1, Zenon DEF HandleValidatorTokens, Staking, amount
<1>4. u \in Staking
  <2>1. u.bonded \in Nat /\ u.notBonded \in Nat /\ u.accounts \in Nat
    BY <1>1, <1>2, <1>3, GapsInt DEF Pool
  <2> QED
    BY <1>1, <2>1, Zenon DEF Staking, HandleValidatorTokens
<1>5. r \in Validator
  <2>1. (IF taken THEN 0 ELSE s.val[v].tokens) \in Nat
    BY <1>1
  <2> QED
    BY <1>1, Zenon DEF Validator
<1>6. t = [u EXCEPT !.index = IF s.val[v].jailed THEN @ ELSE @ \ {Entry(s, v)}, !.val[v] = r]
  BY Zenon DEF Removed, amount
<1> HIDE DEF u
<1>7. /\ t.val = [s.val EXCEPT ![v] = r] /\ t.index = i
      /\ t.bonded = u.bonded /\ t.notBonded = u.notBonded
      /\ t.unbonding = s.unbonding /\ t.delegations = s.delegations
  <2> HIDE DEF r
  <2>1. /\ t.val = [u.val EXCEPT ![v] = r]
        /\ t.index = (IF s.val[v].jailed THEN u.index ELSE u.index \ {Entry(s, v)})
        /\ t.bonded = u.bonded /\ t.notBonded = u.notBonded
        /\ t.unbonding = u.unbonding /\ t.delegations = u.delegations
    BY <1>4, <1>6, Zenon DEF Staking
  <2> QED
    BY <1>3, <2>1, Zenon
<1>8. /\ t.val \in Records /\ t.val[v] = r /\ \A w \in Vals \ {v} : t.val[w] = s.val[w]
  <2> HIDE DEF r
  <2> QED
    BY <1>1, <1>5, <1>7 DEF Records
<1>9. t.index \in SUBSET (Vals \X Nat)
  BY <1>1, <1>7
<1>10. t \in Staking
  BY <1>4, <1>6, <1>8, <1>9, Zenon DEF Staking, Records
<1>11. /\ t.val[v].exists /\ t.val[v].jailed /\ t.val[v].status = s.val[v].status
       /\ t.val[v].tokens = (IF taken THEN 0 ELSE s.val[v].tokens)
       /\ t.val[v].shares <=> s.val[v].shares /\ ~taken
  BY <1>1, <1>8, Zenon DEF Validator
<1> HIDE DEF r
<1>12. t.index = IndexOf(t.val)
  <2>1. IndexOf(t.val) =
          (IndexOf(s.val) \ {<<v, Power(s.val[v])>>}) \cup
          (IF t.val[v].exists /\ ~t.val[v].jailed THEN {<<v, Power(t.val[v])>>} ELSE {})
    <3>1. s.val \in Records /\ t.val \in Records /\ \A w \in Vals \ {v} : t.val[w] = s.val[w]
      BY <1>1, <1>8, Zenon
    <3> QED
      BY <3>1, IndexAt
  <2>2. s.val[v].jailed => <<v, Power(s.val[v])>> \notin IndexOf(s.val)
    BY DEF IndexOf
  <2>3. t.index = IF s.val[v].jailed THEN IndexOf(s.val)
                  ELSE IndexOf(s.val) \ {<<v, Power(s.val[v])>>}
    BY <1>1, <1>7, Zenon
  <2>4. ~(t.val[v].exists /\ ~t.val[v].jailed)
    BY <1>11, Zenon
  <2> QED
    BY <2>1, <2>2, <2>3, <2>4
<1>13. IF v \in Bonded(s)
       THEN PoolFollows(s, t, v, s.bonded, t.bonded) /\ t.notBonded = s.notBonded
       ELSE PoolFollows(s, t, v, s.notBonded, t.notBonded) /\ t.bonded = s.bonded
  <2>1. CASE v \in Bonded(s)
    <3>1. /\ t.bonded = s.bonded - amount /\ t.notBonded = s.notBonded /\ Pool(s, v) = s.bonded
      BY <1>3, <1>7, <2>1, Zenon DEF Pool
    <3>2. s.val[v].tokens \in Nat /\ s.bonded \in Nat
      BY <1>1
    <3> QED
      BY <1>2, <1>11, <3>1, <3>2, <2>1 DEF PoolFollows
  <2>2. CASE v \notin Bonded(s)
    <3>1. /\ t.notBonded = s.notBonded - amount /\ t.bonded = s.bonded
          /\ Pool(s, v) = s.notBonded
      BY <1>3, <1>7, <2>2, Zenon DEF Pool
    <3>2. s.val[v].tokens \in Nat /\ s.notBonded \in Nat
      BY <1>1
    <3> QED
      BY <1>2, <1>11, <3>1, <3>2, <2>2 DEF PoolFollows
  <2> QED
    BY <2>1, <2>2
<1>14. ~t.val[v].shares => t.val[v].tokens = 0
  BY <1>11, Zenon DEF Sound
<1>15. Changed(s, t, v)
  BY <1>7, <1>8, <1>10, <1>11, <1>12, <1>13, <1>14, Zenon DEF Changed
<1>16. Unshared(t) \subseteq Unshared(s) \cup {v}
  BY <1>1, <1>7, <1>8, Zenon DEF Unshared
<1> QED
  BY <1>15, <1>16, OneRecord

\* Validators without tokens have none together.
LEMMA TokensZero ==
  ASSUME NEW s, NEW V \in SUBSET Vals, \A v \in V : s.val[v].tokens = 0
  PROVE  TokensOf(s, V) = 0
<1> DEFINE f == [v \in Vals |-> s.val[v].tokens]
<1>1. Finite(V)
  BY StakingHooksAssumption, FiniteSubset
<1>2. \A v \in V : f[v] = 0
  OBVIOUS
<1> HIDE DEF f
<1>3. SumFunctionOnSet(f, V) = 0
  BY <1>1, <1>2, SumZero
<1> QED
  BY <1>3 DEF TokensOf, f

\* A new validator, before tokens are delegated to it.
Created(s, v, minSelf) ==
  [s EXCEPT !.val[v] = [exists |-> TRUE, status |-> "bonded", tokens |-> 0,
                        shares |-> FALSE, jailed |-> FALSE, minSelf |-> minSelf],
            !.index = @ \cup {<<v, 0>>}]

\* It is bonded, has an entry in the index, and owns no token of the pool yet.
LEMMA CreatedFollows ==
  ASSUME NEW s, Sound(s), NEW v \in Vals, ~s.val[v].exists, NEW minSelf \in Nat,
         NEW t, t = Created(s, v, minSelf)
  PROVE  /\ Follows(s, t) /\ Bonded(t) = Bonded(s) \cup {v} /\ t.val[v].exists
         /\ Unshared(t) = Unshared(s)
         /\ v \in t.delegations => v \in Unshared(s)
<1> DEFINE r == [exists |-> TRUE, status |-> "bonded", tokens |-> 0,
                 shares |-> FALSE, jailed |-> FALSE, minSelf |-> minSelf]
<1>1. /\ s \in Staking /\ s.index = IndexOf(s.val) /\ s.val \in Records
      /\ s.index \in SUBSET (Vals \X Nat) /\ s.delegations \in SUBSET Vals
      /\ s.val[v] \in Validator /\ s.val[v].tokens \in Nat
      /\ Power(s.val[v]) \in Nat /\ Entry(s, v) = <<v, Power(s.val[v])>>
      /\ s.bonded \in Nat /\ s.notBonded \in Nat
  BY SoundParts
<1>2. r \in Validator
  BY Zenon DEF Validator
<1>3. /\ t.val = [s.val EXCEPT ![v] = r] /\ t.index = s.index \cup {<<v, 0>>}
      /\ t.bonded = s.bonded /\ t.notBonded = s.notBonded
      /\ t.unbonding = s.unbonding /\ t.delegations = s.delegations
  BY <1>1, Zenon DEF Staking, Created
<1>4. /\ t.val \in Records /\ t.val[v] = r /\ \A w \in Vals \ {v} : t.val[w] = s.val[w]
  <2> HIDE DEF r
  <2> QED
    BY <1>1, <1>2, <1>3 DEF Records
<1>5. t \in Staking
  <2>1. t.index \in SUBSET (Vals \X Nat)
    BY <1>1, <1>3
  <2> QED
    BY <1>1, <1>4, <2>1, Zenon DEF Staking, Records, Created
<1>6. /\ t.val[v].exists /\ ~t.val[v].jailed /\ t.val[v].status = "bonded"
      /\ t.val[v].tokens = 0 /\ ~t.val[v].shares
  BY <1>4
<1> HIDE DEF r
<1>7. ~s.val[v].shares /\ s.val[v].tokens = 0
  BY Zenon DEF Sound
<1>8. t.index = IndexOf(t.val)
  <2>1. IndexOf(t.val) =
          (IndexOf(s.val) \ {<<v, Power(s.val[v])>>}) \cup
          (IF t.val[v].exists /\ ~t.val[v].jailed THEN {<<v, Power(t.val[v])>>} ELSE {})
    <3>1. s.val \in Records /\ t.val \in Records /\ \A w \in Vals \ {v} : t.val[w] = s.val[w]
      BY <1>1, <1>4, Zenon
    <3> QED
      BY <3>1, IndexAt
  <2>2. <<v, Power(s.val[v])>> \notin IndexOf(s.val)
    BY DEF IndexOf
  <2>3. Power(t.val[v]) = 0
    BY <1>6, StakingHooksAssumption DEF Power
  <2> QED
    BY <1>1, <1>3, <1>6, <2>1, <2>2, <2>3
<1>9. Bonded(t) = Bonded(s) \cup {v} /\ NotBonded(t) = NotBonded(s) /\ v \notin Bonded(s)
  BY <1>4, <1>6 DEF Bonded, NotBonded, Existing
<1>10. BondedGap(t) = BondedGap(s) /\ OwedGap(t) = OwedGap(s)
  <2>1. {v} \in SUBSET Vals /\ Bonded(s) \cap {v} = {}
    BY <1>9
  <2>2. TokensOf(t, Bonded(s) \cup {v}) = TokensOf(t, Bonded(s)) + TokensOf(t, {v})
    BY <1>1, <1>4, <2>1, GapsInt, TokensSplit, Zenon
  <2>3. TokensOf(t, {v}) = 0
    BY <1>4, <1>6, TokensOne
  <2>4. \A w \in Vals : s.val[w].tokens = t.val[w].tokens
    BY <1>4, <1>6, <1>7, Zenon
  <2>5. TokensOf(s, Bonded(s)) = TokensOf(t, Bonded(s))
    BY <1>1, <2>4, GapsInt, TokensSame
  <2>6. TokensOf(s, NotBonded(s)) = TokensOf(t, NotBonded(s))
    BY <1>1, <2>4, GapsInt, TokensSame
  <2>7. /\ TokensOf(t, Bonded(t)) = TokensOf(s, Bonded(s)) + 0
        /\ TokensOf(t, NotBonded(t)) = TokensOf(s, NotBonded(s))
    BY <1>9, <2>2, <2>3, <2>5, <2>6, Zenon
  <2> QED
    BY <1>1, <1>3, <1>5, <2>7, GapsInt
<1>11. Follows(s, t)
  <2>1. \A w \in Vals : /\ ~t.val[w].exists => ~t.val[w].shares
                        /\ ~t.val[w].shares => t.val[w].tokens = 0
    BY <1>4, <1>6, ZenonT(60) DEF Sound
  <2>2. /\ BondedGap(t) >= 0 /\ OwedGap(t) >= 0
        /\ BondedGap(t) <= BondedGap(s) /\ OwedGap(t) <= OwedGap(s)
    BY <1>10, GapsInt DEF Sound
  <2> QED
    BY <1>5, <1>8, <2>1, <2>2, Zenon DEF Follows, Sound
<1>12. Unshared(t) = Unshared(s)
  <2>1. \A w \in Vals : t.val[w].shares <=> s.val[w].shares
    BY <1>4, <1>6, <1>7, Zenon
  <2> QED
    BY <1>3, <2>1 DEF Unshared
<1> QED
  BY <1>6, <1>9, <1>11, <1>12, Zenon DEF Unshared

\* What the pools are short of, when they hold nothing that nobody owns.
LEMMA DeficitGaps ==
  ASSUME NEW s, Sound(s)
  PROVE  Deficit(s) = BondedGap(s) + OwedGap(s)
<1>1. s \in Staking /\ BondedGap(s) >= 0 /\ OwedGap(s) >= 0
  BY Zenon DEF Sound
<1>2. BondedGap(s) \in Int /\ OwedGap(s) \in Int
  BY <1>1, GapsInt
<1>3. Max({0, BondedGap(s)}) = BondedGap(s) /\ Max({0, OwedGap(s)}) = OwedGap(s)
  <2>1. ASSUME NEW n \in Int, n >= 0
        PROVE  Max({0, n}) = n
    <3>1. 0 \in Int
      OBVIOUS
    <3>2. Max({0, n}) = IF 0 >= n THEN 0 ELSE n
      BY <3>1, MinMax, Zenon
    <3> QED
      BY <2>1, <3>2
  <2> QED
    BY <1>1, <1>2, <2>1, Zenon
<1> QED
  BY <1>1, <1>3, GapsInt, Zenon DEF Deficit

\* A reconciliation closes the gaps with as many coins as they are wide.
LEMMA ReconciledFollows ==
  ASSUME NEW s, Sound(s), NEW t, t = Reconciled(s)
  PROVE  /\ Follows(s, t) /\ Bonded(t) = Bonded(s) /\ Unshared(t) = Unshared(s)
         /\ Deficit(t) = 0 /\ Supply(t) = Supply(s) + Deficit(s)
<1> DEFINE B == TokensOf(s, Bonded(s))
           O == Owed(s)
<1>1. /\ s \in Staking /\ s.index = IndexOf(s.val)
      /\ BondedGap(s) >= 0 /\ OwedGap(s) >= 0
  BY Zenon DEF Sound
<1>2. /\ B \in Nat /\ O \in Nat /\ s.bonded \in Nat /\ s.notBonded \in Nat /\ s.accounts \in Nat
      /\ BondedGap(s) = B - s.bonded /\ OwedGap(s) = O - s.notBonded
  BY <1>1, GapsInt DEF Owed
<1>3. Max({s.bonded, B}) = B /\ Max({s.notBonded, O}) = O
  <2>1. ASSUME NEW m \in Nat, NEW n \in Nat, n - m >= 0
        PROVE  Max({m, n}) = n
    <3>1. m \in Int /\ n \in Int
      OBVIOUS
    <3>2. Max({m, n}) = IF m >= n THEN m ELSE n
      BY <3>1, MinMax, Zenon
    <3> QED
      BY <2>1, <3>2
  <2> QED
    BY <1>1, <1>2, <2>1, Zenon
<1>4. t = [s EXCEPT !.bonded = Max({@, B}), !.notBonded = Max({@, O})]
  BY Zenon DEF Reconciled
<1> HIDE DEF B, O
<1>5. /\ t.val = s.val /\ t.index = s.index /\ t.delegations = s.delegations
      /\ t.unbonding = s.unbonding /\ t.accounts = s.accounts
      /\ t.bonded = B /\ t.notBonded = O
  BY <1>1, <1>3, <1>4, Zenon DEF Staking
<1>6. t \in Staking
  BY <1>1, <1>2, <1>4, <1>5, Zenon DEF Staking
<1>7. /\ Bonded(t) = Bonded(s) /\ Unshared(t) = Unshared(s)
      /\ TokensOf(t, Bonded(t)) = B /\ Owed(t) = O
  BY <1>5, Zenon
     DEF Bonded, NotBonded, Existing, Unshared, Owed, TokensOf, B, O
<1>8. BondedGap(t) = 0 /\ OwedGap(t) = 0
  BY <1>2, <1>5, <1>7 DEF BondedGap, OwedGap
<1>9. Follows(s, t)
  <2>1. /\ BondedGap(t) >= 0 /\ OwedGap(t) >= 0
        /\ BondedGap(t) <= BondedGap(s) /\ OwedGap(t) <= OwedGap(s)
    BY <1>1, <1>8
  <2> QED
    BY <1>5, <1>6, <2>1, Zenon DEF Follows, Sound
<1>10. Deficit(t) = 0
  BY <1>8, <1>9, DeficitGaps DEF Follows
<1>11. Supply(t) = Supply(s) + Deficit(s)
  BY <1>2, <1>5, DeficitGaps DEF Supply
<1> QED
  BY <1>7, <1>9, <1>10, <1>11
=============================================================================
