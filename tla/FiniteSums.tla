----------------------------- MODULE FiniteSums -----------------------------
(***************************************************************************)
(* Sums of functions over finite sets (SumFunctionOnSet), the facts that   *)
(* the proofs about balances and budgets need: what an element adds, and   *)
(* that the sum depends on nothing but the values.                         *)
(*                                                                         *)
(* The operator is a recursive function over the subsets of a set.  The    *)
(* induction over these is the choice of a least subset among those that a *)
(* lemma would fail for.                                                   *)
(***************************************************************************)
EXTENDS FiniteSetsExt, FiniteSetTheorems, TLAPS

\* A set of subsets of a finite set has a least one: none of the others is part of it.
LEMMA LeastSubset ==
  ASSUME NEW S, IsFiniteSet(S), NEW B \in SUBSET SUBSET S, B # {}
  PROVE  \E T \in B : \A U \in B : U \subseteq T => U = T
<1> DEFINE R == StrictSubsetOrdering(S)
<1>1. IsWellFoundedOn(R, SUBSET S)
  BY FS_StrictSubsetOrderingWellFounded, FS_FiniteSubsetsOfFinite
<1> HIDE DEF R
<1>2. PICK T \in B : \A U \in B : ~ (<<U, T>> \in R)
  BY <1>1, WFMin
<1> QED
  BY <1>2 DEF R, StrictSubsetOrdering

\* The element of T that is counted first.
First(T) == CHOOSE x \in T : TRUE

\* The element that is counted first is one of the set.
LEMMA FirstIn == \A T : T # {} => First(T) \in T
BY DEF First

\* sum gives the sum of f over each subset of S.
SumFcn(f, S, sum) ==
  sum = [T \in SUBSET S |-> IF T = {} THEN 0 ELSE f[First(T)] + sum[T \ {First(T)}]]

\* The library's sum over S is the value at S of the function it is defined by.
LEMMA SumIs ==
  ASSUME NEW f, NEW S
  PROVE  SumFunctionOnSet(f, S) = (CHOOSE sum : SumFcn(f, S, sum))[S]
BY DEF SumFunctionOnSet, FoldFunctionOnSet, MapThenFoldSet, SumFcn, First

\* There is at most one such function, whatever set it is defined for,
LEMMA SumFcnUnique ==
  ASSUME NEW f, NEW S, IsFiniteSet(S), NEW a, SumFcn(f, S, a),
         NEW T \in SUBSET S, NEW b, SumFcn(f, T, b)
  PROVE  \A U \in SUBSET T : a[U] = b[U]
<1> DEFINE B == {U \in SUBSET T : a[U] # b[U]}
<1> SUFFICES ASSUME B # {} PROVE FALSE
  OBVIOUS
<1>1. IsFiniteSet(T)
  BY FS_Subset
<1>2. PICK U \in B : \A V \in B : V \subseteq U => V = U
  <2> HIDE DEF B
  <2>1. B \in SUBSET SUBSET T
    BY DEF B
  <2> QED
    BY <1>1, <2>1, LeastSubset
<1>3. U # {}
  BY DEF SumFcn
<1>4. a[U \ {First(U)}] = b[U \ {First(U)}]
  BY <1>2, <1>3, FirstIn
<1> QED
  BY <1>3, <1>4 DEF SumFcn

\* and there is one.
LEMMA SumFcnExists ==
  ASSUME NEW f, NEW S, IsFiniteSet(S)
  PROVE  \E sum : SumFcn(f, S, sum)
<1> DEFINE B == {T \in SUBSET S : ~ \E sum : SumFcn(f, T, sum)}
<1> SUFFICES ASSUME B # {} PROVE FALSE
  OBVIOUS
<1>1. PICK T \in B : \A U \in B : U \subseteq T => U = T
  <2> HIDE DEF B
  <2>1. B \in SUBSET SUBSET S
    BY DEF B
  <2> QED
    BY <2>1, LeastSubset
<1> DEFINE s[U \in SUBSET T] == CHOOSE sum : SumFcn(f, U, sum)
           h == [U \in SUBSET T |-> IF U = {} THEN 0
                                    ELSE f[First(U)] + s[U \ {First(U)}][U \ {First(U)}]]
<1>2. \A U \in SUBSET T : U # T => SumFcn(f, U, s[U])
  BY <1>1
<1>3. \A U \in SUBSET T : IsFiniteSet(U)
  BY FS_Subset
<1> HIDE DEF s
<1>4. ASSUME NEW U \in SUBSET T, U # T PROVE h[U] = s[U][U]
  <2>1. CASE U = {}
    <3>1. SumFcn(f, U, s[U]) /\ h[U] = 0
      BY <1>2, <1>4, <2>1
    <3> HIDE DEF h
    <3> QED
      BY <2>1, <3>1 DEF SumFcn
  <2>2. CASE U # {}
    <3> DEFINE V == U \ {First(U)}
    <3>1. V \in SUBSET U /\ V # U /\ V \in SUBSET T /\ V # T
      BY <2>2, <1>4, FirstIn
    <3>2. s[U][V] = s[V][V]
      <4>1. IsFiniteSet(U) /\ SumFcn(f, U, s[U]) /\ SumFcn(f, V, s[V])
        BY <1>2, <1>3, <1>4, <3>1
      <4>2. PICK a, b : a = s[U] /\ b = s[V]
        OBVIOUS
      <4> HIDE DEF V, h
      <4>3. IsFiniteSet(U) /\ SumFcn(f, U, a) /\ SumFcn(f, V, b) /\ V \in SUBSET U
        BY <3>1, <4>1, <4>2
      <4>4. \A W \in SUBSET V : a[W] = b[W]
        BY <4>3, SumFcnUnique
      <4> QED
        BY <4>2, <4>4
    <3> QED
      <4>1. s[U][U] = f[First(U)] + s[U][V]
        BY <1>2, <1>4, <2>2 DEF SumFcn
      <4>2. h[U] = f[First(U)] + s[V][V]
        BY <2>2
      <4> QED
        BY <3>2, <4>1, <4>2
  <2> QED
    BY <2>1, <2>2
<1>5. \A U \in SUBSET T : U # {} => U \ {First(U)} \in SUBSET T /\ U \ {First(U)} # T
  BY FirstIn
<1>6. SumFcn(f, T, h)
  <2>1. \A U \in SUBSET T : h[U] = IF U = {} THEN 0 ELSE f[First(U)] + h[U \ {First(U)}]
    BY <1>4, <1>5
  <2> QED
    BY <2>1 DEF SumFcn
<1> QED
  BY <1>6

\* The sum of a finite set is its first element's value and the sum of the others.
LEMMA SumDef ==
  ASSUME NEW f, NEW S, IsFiniteSet(S)
  PROVE  SumFunctionOnSet(f, S)
           = IF S = {} THEN 0 ELSE f[First(S)] + SumFunctionOnSet(f, S \ {First(S)})
<1> DEFINE a == CHOOSE sum : SumFcn(f, S, sum)
           V == S \ {First(S)}
           b == CHOOSE sum : SumFcn(f, V, sum)
<1>1. IsFiniteSet(V) /\ V \in SUBSET S
  BY FS_Subset
<1>2. SumFcn(f, S, a) /\ SumFcn(f, V, b)
  BY <1>1, SumFcnExists
<1>3. SumFunctionOnSet(f, S) = a[S] /\ SumFunctionOnSet(f, V) = b[V]
  BY SumIs
<1> HIDE DEF a, b, V
<1>4. a[V] = b[V]
  BY <1>1, <1>2, SumFcnUnique
<1> QED
  <2>1. a[S] = IF S = {} THEN 0 ELSE f[First(S)] + a[V]
    BY <1>2 DEF SumFcn, V
  <2> QED
    BY <1>3, <1>4, <2>1 DEF V

\* Nothing adds up to zero.
LEMMA SumEmpty == ASSUME NEW f PROVE SumFunctionOnSet(f, {}) = 0
BY SumDef, FS_EmptySet

\* A sum of integers is an integer,
LEMMA SumInt ==
  ASSUME NEW S, IsFiniteSet(S), NEW f, \A x \in S : f[x] \in Int
  PROVE  SumFunctionOnSet(f, S) \in Int
<1> DEFINE B == {T \in SUBSET S : SumFunctionOnSet(f, T) \notin Int}
<1> SUFFICES ASSUME B # {} PROVE FALSE
  OBVIOUS
<1>1. PICK T \in B : \A U \in B : U \subseteq T => U = T
  <2> HIDE DEF B
  <2>1. B \in SUBSET SUBSET S
    BY DEF B
  <2> QED
    BY <2>1, LeastSubset
<1>2. T # {}
  BY SumEmpty
<1>3. SumFunctionOnSet(f, T \ {First(T)}) \in Int
  BY <1>1, <1>2, FirstIn
<1>4. f[First(T)] \in Int /\ IsFiniteSet(T)
  BY <1>2, FirstIn, FS_Subset
<1> QED
  BY <1>2, <1>3, <1>4, SumDef

\* and a sum of natural numbers is a natural number.
LEMMA SumNat ==
  ASSUME NEW S, IsFiniteSet(S), NEW f, \A x \in S : f[x] \in Nat
  PROVE  SumFunctionOnSet(f, S) \in Nat
<1> DEFINE B == {T \in SUBSET S : SumFunctionOnSet(f, T) \notin Nat}
<1> SUFFICES ASSUME B # {} PROVE FALSE
  OBVIOUS
<1>1. PICK T \in B : \A U \in B : U \subseteq T => U = T
  <2> HIDE DEF B
  <2>1. B \in SUBSET SUBSET S
    BY DEF B
  <2> QED
    BY <2>1, LeastSubset
<1>2. T # {}
  BY SumEmpty
<1>3. SumFunctionOnSet(f, T \ {First(T)}) \in Nat
  BY <1>1, <1>2, FirstIn
<1>4. f[First(T)] \in Nat /\ IsFiniteSet(T)
  BY <1>2, FirstIn, FS_Subset
<1> QED
  BY <1>2, <1>3, <1>4, SumDef

\* Any element may be counted first.
LEMMA SumRemove ==
  ASSUME NEW S, IsFiniteSet(S), NEW f, \A x \in S : f[x] \in Int, NEW e \in S
  PROVE  SumFunctionOnSet(f, S) = f[e] + SumFunctionOnSet(f, S \ {e})
<1> DEFINE Sum(T) == SumFunctionOnSet(f, T)
           B == {T \in SUBSET S : \E x \in T : Sum(T) # f[x] + Sum(T \ {x})}
<1> SUFFICES ASSUME B # {} PROVE FALSE
  OBVIOUS
<1>1. PICK T \in B : \A U \in B : U \subseteq T => U = T
  <2> HIDE DEF B
  <2>1. B \in SUBSET SUBSET S
    BY DEF B
  <2> QED
    BY <2>1, LeastSubset
<1>2. PICK x \in T : Sum(T) # f[x] + Sum(T \ {x})
  OBVIOUS
<1> DEFINE y == First(T)
<1>3. \A U \in SUBSET S : IsFiniteSet(U) /\ Sum(U) \in Int
  BY FS_Subset, SumInt
<1>4. y \in T /\ Sum(T) = f[y] + Sum(T \ {y})
  BY <1>3, FirstIn, SumDef
<1> HIDE DEF Sum, y
<1>5. x # y
  BY <1>2, <1>4
<1>6. Sum(T \ {y}) = f[x] + Sum((T \ {y}) \ {x}) /\ Sum(T \ {x}) = f[y] + Sum((T \ {x}) \ {y})
  <2>1. \A U \in SUBSET T : U # T => \A z \in U : Sum(U) = f[z] + Sum(U \ {z})
    BY <1>1
  <2> HIDE DEF B
  <2> QED
    BY <1>4, <1>5, <2>1
<1>7. (T \ {y}) \ {x} = (T \ {x}) \ {y} /\ Sum((T \ {y}) \ {x}) \in Int
  BY <1>3
<1>8. f[x] \in Int /\ f[y] \in Int
  BY <1>4
<1>9. Sum(T \ {x}) = f[y] + Sum((T \ {y}) \ {x})
  BY <1>6, <1>7
<1> HIDE DEF B
<1>10. f[y] + (f[x] + Sum((T \ {y}) \ {x})) = f[x] + (f[y] + Sum((T \ {y}) \ {x}))
  BY <1>7, <1>8
<1> QED
  BY <1>2, <1>4, <1>6, <1>9, <1>10

\* An element that joins the set adds its own value.
LEMMA SumAdd ==
  ASSUME NEW S, IsFiniteSet(S), NEW f, NEW e, \A x \in S \cup {e} : f[x] \in Int, e \notin S
  PROVE  SumFunctionOnSet(f, S \cup {e}) = f[e] + SumFunctionOnSet(f, S)
<1>1. IsFiniteSet(S \cup {e}) /\ (S \cup {e}) \ {e} = S
  BY FS_AddElement
<1> QED
  BY <1>1, SumRemove

\* A sum depends on the values over the set alone.
LEMMA SumSame ==
  ASSUME NEW S, IsFiniteSet(S), NEW f, NEW g, \A x \in S : f[x] = g[x]
  PROVE  SumFunctionOnSet(f, S) = SumFunctionOnSet(g, S)
<1> DEFINE B == {T \in SUBSET S : SumFunctionOnSet(f, T) # SumFunctionOnSet(g, T)}
<1> SUFFICES ASSUME B # {} PROVE FALSE
  OBVIOUS
<1>1. PICK T \in B : \A U \in B : U \subseteq T => U = T
  <2> HIDE DEF B
  <2>1. B \in SUBSET SUBSET S
    BY DEF B
  <2> QED
    BY <2>1, LeastSubset
<1>2. T # {}
  BY SumEmpty
<1>3. SumFunctionOnSet(f, T \ {First(T)}) = SumFunctionOnSet(g, T \ {First(T)})
  BY <1>1, <1>2, FirstIn
<1>4. f[First(T)] = g[First(T)] /\ IsFiniteSet(T)
  BY <1>2, FirstIn, FS_Subset
<1> QED
  BY <1>2, <1>3, <1>4, SumDef
=============================================================================
