----------------------------- MODULE SumTheorems -----------------------------
(* Sums of integers over finite sets: what adding, removing and splitting does *)
(* to SumFunctionOnSet, whatever order it takes the elements in.  Induction    *)
(* over a finite set is a smallest set for which the claim fails.              *)
EXTENDS Functions, FiniteSetTheorems, TLAPS

\* F gives every subset of S its sum.
Additive(F, f, S) ==
    /\ F \in [SUBSET S -> Int] /\ F[{}] = 0
    /\ \A T \in SUBSET S : \A x \in T : F[T] = F[T \ {x}] + f[x]

LEMMA SmallestSet ==
    ASSUME NEW S, IsFiniteSet(S), NEW B \in SUBSET SUBSET S, B # {}
    PROVE  \E T \in B : \A U \in B : U \subseteq T => U = T
<1>1. IsWellFoundedOn(StrictSubsetOrdering(S), FiniteSubsetsOf(S))
  BY FS_StrictSubsetOrderingWellFounded
<1>2. FiniteSubsetsOf(S) = SUBSET S
  BY FS_FiniteSubsetsOfFinite
<1>3. \E T \in B : \A U \in B : <<U, T>> \notin StrictSubsetOrdering(S)
  BY <1>1, <1>2, WFMin
<1> QED  BY <1>3 DEF StrictSubsetOrdering

LEMMA AdditiveExists ==
    ASSUME NEW S, IsFiniteSet(S), NEW f, \A x \in S : f[x] \in Int
    PROVE  \E F : Additive(F, f, S)
<1> DEFINE B == {T \in SUBSET S : ~\E F : Additive(F, f, T)}
<1> SUFFICES ASSUME B # {} PROVE FALSE
  OBVIOUS
<1>0. B \in SUBSET SUBSET S
  OBVIOUS
<1>1. PICK T \in B : \A U \in B : U \subseteq T => U = T
  <2> HIDE DEF B
  <2> QED  BY <1>0, SmallestSet
<1>2. T # {}
  <2>1. Additive([U \in SUBSET {} |-> 0], f, {})
    BY DEF Additive
  <2> QED  BY <2>1
<1>3. PICK x \in T : TRUE
  BY <1>2
<1>4. PICK F : Additive(F, f, T \ {x})
  BY <1>1, <1>3
<1> DEFINE G == [U \in SUBSET T |-> IF x \in U THEN F[U \ {x}] + f[x] ELSE F[U]]
<1>5. \A U \in SUBSET T : U \ {x} \in SUBSET (T \ {x}) /\ (x \notin U => U \in SUBSET (T \ {x}))
  OBVIOUS
<1>6. G \in [SUBSET T -> Int]
  BY <1>4, <1>5 DEF Additive
<1>7. G[{}] = 0
  BY <1>4 DEF Additive
<1>8. ASSUME NEW U \in SUBSET T, NEW y \in U PROVE G[U] = G[U \ {y}] + f[y]
  <2>1. CASE y = x
    <3>1. x \notin U \ {y} /\ U \ {y} \in SUBSET T /\ x \in U
      BY <2>1
    <3>2. G[U \ {y}] = F[U \ {x}] /\ G[U] = F[U \ {x}] + f[x]
      BY <2>1, <3>1
    <3> QED  BY <2>1, <3>2
  <2>2. CASE y # x /\ x \in U
    <3> DEFINE V == U \ {x}
    <3>1. V \in SUBSET (T \ {x}) /\ y \in V /\ V \ {y} \in SUBSET (T \ {x}) /\ (U \ {y}) \ {x} = V \ {y}
      BY <2>2
    <3>2. F[V] = F[V \ {y}] + f[y] /\ F[V] \in Int /\ F[V \ {y}] \in Int
      BY <1>4, <3>1 DEF Additive
    <3>3. G[U] = F[V] + f[x] /\ G[U \ {y}] = F[V \ {y}] + f[x]
      BY <2>2, <3>1
    <3>4. f[x] \in Int /\ f[y] \in Int
      OBVIOUS
    <3> HIDE DEF G, V
    <3> QED  BY <3>2, <3>3, <3>4
  <2>3. CASE y # x /\ x \notin U
    <3>1. U \in SUBSET (T \ {x}) /\ U \ {y} \in SUBSET T /\ x \notin U \ {y}
      BY <2>3
    <3>2. G[U] = F[U] /\ G[U \ {y}] = F[U \ {y}]
      BY <2>3, <3>1
    <3> QED  BY <1>4, <3>1, <3>2 DEF Additive
  <2> QED  BY <2>1, <2>2, <2>3
<1> HIDE DEF G
<1>9. Additive(G, f, T)
  BY <1>6, <1>7, <1>8 DEF Additive
<1> QED  BY <1>9

\* The sum the library computes is the additive one.
LEMMA SumIsAdditive ==
    ASSUME NEW S, IsFiniteSet(S), NEW f, \A x \in S : f[x] \in Int, NEW F, Additive(F, f, S)
    PROVE  SumFunctionOnSet(f, S) = F[S]
<1> DEFINE step(I, T) == IF T = {} THEN 0 ELSE f[CHOOSE x \in T : TRUE] + I[T \ {CHOOSE x \in T : TRUE}]
           Folds(I) == I = [T \in SUBSET S |-> step(I, T)]
           iter == CHOOSE I : Folds(I)
<1>1. Folds(F)
  <2>1. ASSUME NEW T \in SUBSET S PROVE F[T] = step(F, T)
    <3>1. CASE T = {}
      BY <3>1 DEF Additive
    <3>2. CASE T # {}
      <4> DEFINE x == CHOOSE x \in T : TRUE
      <4>1. x \in T
        BY <3>2
      <4>2. F[T] = F[T \ {x}] + f[x] /\ f[x] \in Int /\ F[T \ {x}] \in Int
        BY <4>1 DEF Additive
      <4>3. F[T] = f[x] + F[T \ {x}]
        <5> HIDE DEF x
        <5> QED  BY <4>2
      <4> QED  BY <3>2, <4>3
    <3> QED  BY <3>1, <3>2
  <2>2. F = [T \in SUBSET S |-> F[T]]
    BY DEF Additive
  <2> HIDE DEF step
  <2> QED  BY <2>1, <2>2
<1>2. Folds(iter)
  <2> HIDE DEF Folds
  <2> QED  BY <1>1
<1>3. ASSUME NEW I, Folds(I), NEW J, Folds(J) PROVE I = J
  <2> DEFINE B == {T \in SUBSET S : I[T] # J[T]}
  <2>1. I = [T \in SUBSET S |-> I[T]] /\ J = [T \in SUBSET S |-> J[T]]
    <3> HIDE DEF step
    <3> QED  BY <1>3
  <2>2. ASSUME B # {} PROVE FALSE
    <3>1. B \in SUBSET SUBSET S
      OBVIOUS
    <3>2. PICK T \in B : \A U \in B : U \subseteq T => U = T
      <4> HIDE DEF B
      <4> QED  BY <2>2, <3>1, SmallestSet
    <3>3. I[T] = step(I, T) /\ J[T] = step(J, T)
      <4> HIDE DEF step
      <4> QED  BY <1>3
    <3>4. CASE T = {}
      BY <3>3, <3>4
    <3>5. CASE T # {}
      <4> DEFINE x == CHOOSE x \in T : TRUE
      <4>1. x \in T
        BY <3>5
      <4>2. I[T \ {x}] = J[T \ {x}]
        BY <3>2, <4>1
      <4>3. I[T] = J[T]
        BY <3>3, <3>5, <4>2
      <4> QED  BY <4>3
    <3> QED  BY <3>4, <3>5
  <2>3. \A T \in SUBSET S : I[T] = J[T]
    BY <2>2
  <2> HIDE DEF Folds
  <2> QED  BY <2>1, <2>3
<1>4. SumFunctionOnSet(f, S) = iter[S]
  BY DEF SumFunctionOnSet, FoldFunctionOnSet, MapThenFoldSet
<1>5. iter = F
  <2> HIDE DEF iter, Folds
  <2> QED  BY <1>1, <1>2, <1>3
<1> QED  BY <1>4, <1>5

LEMMA SumsOfSubsets ==
    ASSUME NEW S, IsFiniteSet(S), NEW f, \A x \in S : f[x] \in Int
    PROVE  \E F : Additive(F, f, S) /\ \A T \in SUBSET S : SumFunctionOnSet(f, T) = F[T]
<1>1. PICK F : Additive(F, f, S)
  BY AdditiveExists
<1>2. ASSUME NEW T \in SUBSET S PROVE SumFunctionOnSet(f, T) = F[T]
  <2> DEFINE G == [U \in SUBSET T |-> F[U]]
  <2>1. Additive(G, f, T)
    BY <1>1 DEF Additive
  <2>2. IsFiniteSet(T) /\ \A x \in T : f[x] \in Int
    BY FS_Subset
  <2>3. G[T] = F[T]
    OBVIOUS
  <2> HIDE DEF G
  <2> QED  BY <2>1, <2>2, <2>3, SumIsAdditive
<1> QED  BY <1>1, <1>2

-----------------------------------------------------------------------------
(* What the proofs about ledgers use.                                        *)

LEMMA SumEmpty == \A f : SumFunctionOnSet(f, {}) = 0
<1> SUFFICES ASSUME NEW f PROVE SumFunctionOnSet(f, {}) = 0
  OBVIOUS
<1>1. PICK F : Additive(F, f, {}) /\ \A T \in SUBSET {} : SumFunctionOnSet(f, T) = F[T]
  BY FS_EmptySet, SumsOfSubsets
<1> QED  BY <1>1 DEF Additive

LEMMA SumType ==
    ASSUME NEW S, IsFiniteSet(S), NEW f, \A x \in S : f[x] \in Int
    PROVE  SumFunctionOnSet(f, S) \in Int
<1>1. PICK F : Additive(F, f, S) /\ \A T \in SUBSET S : SumFunctionOnSet(f, T) = F[T]
  BY SumsOfSubsets
<1> QED  BY <1>1 DEF Additive

\* The sum looks at the elements of the set only.
LEMMA SumSame ==
    ASSUME NEW S, IsFiniteSet(S), NEW f, NEW g, \A x \in S : f[x] \in Int /\ g[x] = f[x]
    PROVE  SumFunctionOnSet(g, S) = SumFunctionOnSet(f, S)
<1>1. PICK F : Additive(F, f, S) /\ \A T \in SUBSET S : SumFunctionOnSet(f, T) = F[T]
  BY SumsOfSubsets
<1>2. Additive(F, g, S)
  BY <1>1 DEF Additive
<1> QED  BY <1>1, <1>2, SumIsAdditive

LEMMA SumRemove ==
    ASSUME NEW S, IsFiniteSet(S), NEW f, \A x \in S : f[x] \in Int, NEW x \in S
    PROVE  SumFunctionOnSet(f, S \ {x}) = SumFunctionOnSet(f, S) - f[x]
<1>1. PICK F : Additive(F, f, S) /\ \A T \in SUBSET S : SumFunctionOnSet(f, T) = F[T]
  BY SumsOfSubsets
<1>2. F[S] = F[S \ {x}] + f[x] /\ F[S \ {x}] \in Int /\ f[x] \in Int
  BY <1>1 DEF Additive
<1> QED  BY <1>1, <1>2

LEMMA SumSingleton ==
    ASSUME NEW f, NEW x, f[x] \in Int
    PROVE  SumFunctionOnSet(f, {x}) = f[x]
<1>1. IsFiniteSet({x}) /\ \A y \in {x} : f[y] \in Int
  BY FS_Singleton
<1>2. SumFunctionOnSet(f, {}) = SumFunctionOnSet(f, {x}) - f[x]
  <2>1. PICK T : T = {x} /\ x \in T /\ T \ {x} = {}
    OBVIOUS
  <2> QED  BY <1>1, <2>1, SumRemove
<1>3. SumFunctionOnSet(f, {x}) \in Int
  BY <1>1, SumType
<1>4. SumFunctionOnSet(f, {}) = 0
  BY SumEmpty
<1> QED  BY <1>2, <1>3, <1>4

LEMMA SumAdd ==
    ASSUME NEW S, IsFiniteSet(S), NEW f, NEW x, x \notin S, \A y \in S \cup {x} : f[y] \in Int
    PROVE  SumFunctionOnSet(f, S \cup {x}) = SumFunctionOnSet(f, S) + f[x]
<1>1. IsFiniteSet(S \cup {x}) /\ (S \cup {x}) \ {x} = S
  BY FS_AddElement
<1>2. SumFunctionOnSet(f, S) = SumFunctionOnSet(f, S \cup {x}) - f[x]
  BY <1>1, SumRemove
<1>3. SumFunctionOnSet(f, S \cup {x}) \in Int /\ f[x] \in Int
  BY <1>1, SumType
<1> QED  BY <1>2, <1>3

LEMMA SumUnion ==
    ASSUME NEW S, IsFiniteSet(S), NEW T, IsFiniteSet(T), S \cap T = {},
           NEW f, \A x \in S \cup T : f[x] \in Int
    PROVE  SumFunctionOnSet(f, S \cup T) = SumFunctionOnSet(f, S) + SumFunctionOnSet(f, T)
<1>1. IsFiniteSet(S \cup T)
  BY FS_Union
<1>2. PICK F : Additive(F, f, S \cup T) /\ \A U \in SUBSET (S \cup T) : SumFunctionOnSet(f, U) = F[U]
  BY <1>1, SumsOfSubsets
<1> DEFINE B == {U \in SUBSET T : F[S \cup U] # F[S] + F[U]}
<1>3. ASSUME B # {} PROVE FALSE
  <2>1. PICK U \in B : \A V \in B : V \subseteq U => V = U
    <3>1. B \in SUBSET SUBSET T
      OBVIOUS
    <3> HIDE DEF B
    <3> QED  BY <1>3, <3>1, SmallestSet
  <2>2. U # {}
    <3>1. F[S \cup {}] = F[S] + F[{}]
      BY <1>2 DEF Additive
    <3>2. F[S \cup U] # F[S] + F[U]
      BY <2>1
    <3> QED  BY <3>1, <3>2
  <2>3. PICK x \in U : TRUE
    BY <2>2
  <2>4. F[S \cup (U \ {x})] = F[S] + F[U \ {x}]
    <3>1. U \ {x} \in SUBSET T /\ U \ {x} # U /\ U \ {x} \subseteq U
      BY <2>1, <2>3
    <3>2. U \ {x} \notin B
      <4> HIDE DEF B
      <4> QED  BY <2>1, <3>1
    <3> QED  BY <3>1, <3>2
  <2>5. S \cup U \in SUBSET (S \cup T) /\ x \in S \cup U /\ (S \cup U) \ {x} = S \cup (U \ {x}) /\ U \in SUBSET (S \cup T)
    BY <2>1, <2>3
  <2>6. F[S \cup U] = F[S \cup (U \ {x})] + f[x] /\ F[U] = F[U \ {x}] + f[x]
    BY <1>2, <2>3, <2>5 DEF Additive
  <2>7. F[S] \in Int /\ F[U \ {x}] \in Int /\ f[x] \in Int
    BY <1>2, <2>3, <2>5 DEF Additive
  <2>8. F[S \cup U] = F[S] + F[U]
    BY <2>4, <2>6, <2>7
  <2> QED  BY <2>1, <2>8
<1>4. F[S \cup T] = F[S] + F[T]
  BY <1>3
<1> QED  BY <1>2, <1>4

LEMMA SumDifference ==
    ASSUME NEW S, IsFiniteSet(S), NEW T \in SUBSET S, NEW f, \A x \in S : f[x] \in Int
    PROVE  SumFunctionOnSet(f, S \ T) = SumFunctionOnSet(f, S) - SumFunctionOnSet(f, T)
<1>1. IsFiniteSet(T) /\ IsFiniteSet(S \ T) /\ (S \ T) \cap T = {} /\ (S \ T) \cup T = S
  BY FS_Subset
<1>2. SumFunctionOnSet(f, S) = SumFunctionOnSet(f, S \ T) + SumFunctionOnSet(f, T)
  BY <1>1, SumUnion
<1>3. SumFunctionOnSet(f, S \ T) \in Int /\ SumFunctionOnSet(f, T) \in Int
  BY <1>1, SumType
<1> QED  BY <1>2, <1>3

\* A sum of more is more.
LEMMA SumMonotone ==
    ASSUME NEW S, IsFiniteSet(S), NEW f, NEW g, \A x \in S : f[x] \in Int /\ g[x] \in Int /\ f[x] <= g[x]
    PROVE  SumFunctionOnSet(f, S) <= SumFunctionOnSet(g, S)
<1>1. PICK F : Additive(F, f, S) /\ \A T \in SUBSET S : SumFunctionOnSet(f, T) = F[T]
  BY SumsOfSubsets
<1>2. PICK G : Additive(G, g, S) /\ \A T \in SUBSET S : SumFunctionOnSet(g, T) = G[T]
  BY SumsOfSubsets
<1> DEFINE B == {T \in SUBSET S : ~(F[T] <= G[T])}
<1>3. ASSUME B # {} PROVE FALSE
  <2>1. PICK T \in B : \A U \in B : U \subseteq T => U = T
    <3>1. B \in SUBSET SUBSET S
      OBVIOUS
    <3> HIDE DEF B
    <3> QED  BY <1>3, <3>1, SmallestSet
  <2>2. T # {}
    <3>1. F[{}] <= G[{}]
      BY <1>1, <1>2 DEF Additive
    <3>2. ~(F[T] <= G[T])
      BY <2>1
    <3> QED  BY <3>1, <3>2
  <2>3. PICK x \in T : TRUE
    BY <2>2
  <2>4. F[T \ {x}] <= G[T \ {x}]
    BY <2>1, <2>3
  <2>5. F[T] = F[T \ {x}] + f[x] /\ G[T] = G[T \ {x}] + g[x] /\ F[T \ {x}] \in Int /\ G[T \ {x}] \in Int
    BY <1>1, <1>2, <2>3 DEF Additive
  <2>6. f[x] \in Int /\ g[x] \in Int /\ f[x] <= g[x]
    BY <2>3
  <2>7. F[T] <= G[T]
    BY <2>4, <2>5, <2>6
  <2> QED  BY <2>1, <2>7
<1> QED  BY <1>1, <1>2, <1>3

LEMMA SumZero ==
    ASSUME NEW S, IsFiniteSet(S), NEW f, \A x \in S : f[x] = 0
    PROVE  SumFunctionOnSet(f, S) = 0
<1> DEFINE G == [T \in SUBSET S |-> 0]
<1>1. Additive(G, f, S) /\ G[S] = 0
  BY DEF Additive
<1>2. \A x \in S : f[x] \in Int
  OBVIOUS
<1> HIDE DEF G
<1> QED  BY <1>1, <1>2, SumIsAdditive

LEMMA SumNatural ==
    ASSUME NEW S, IsFiniteSet(S), NEW f, \A x \in S : f[x] \in Nat
    PROVE  SumFunctionOnSet(f, S) \in Nat
<1> DEFINE zero == [x \in S |-> 0]
<1>1. \A x \in S : zero[x] = 0 /\ zero[x] \in Int /\ f[x] \in Int /\ zero[x] <= f[x]
  OBVIOUS
<1> HIDE DEF zero
<1>2. SumFunctionOnSet(zero, S) = 0
  BY <1>1, SumZero
<1>3. SumFunctionOnSet(f, S) \in Int /\ SumFunctionOnSet(zero, S) <= SumFunctionOnSet(f, S)
  BY <1>1, SumType, SumMonotone
<1> QED  BY <1>2, <1>3

LEMMA SumNegated ==
    ASSUME NEW S, IsFiniteSet(S), NEW f, NEW g, \A x \in S : f[x] \in Int /\ g[x] = 0 - f[x]
    PROVE  SumFunctionOnSet(g, S) = 0 - SumFunctionOnSet(f, S)
<1>1. PICK F : Additive(F, f, S) /\ \A T \in SUBSET S : SumFunctionOnSet(f, T) = F[T]
  BY SumsOfSubsets
<1> DEFINE G == [T \in SUBSET S |-> 0 - F[T]]
<1>2. G \in [SUBSET S -> Int] /\ G[{}] = 0
  BY <1>1 DEF Additive
<1>3. ASSUME NEW T \in SUBSET S, NEW x \in T PROVE G[T] = G[T \ {x}] + g[x]
  <2>1. F[T] = F[T \ {x}] + f[x] /\ F[T \ {x}] \in Int /\ f[x] \in Int /\ g[x] = 0 - f[x]
    BY <1>1 DEF Additive
  <2>2. G[T] = 0 - F[T] /\ G[T \ {x}] = 0 - F[T \ {x}]
    OBVIOUS
  <2> HIDE DEF G
  <2> QED  BY <2>1, <2>2
<1>4. Additive(G, g, S) /\ G[S] = 0 - F[S]
  BY <1>2, <1>3 DEF Additive
<1>5. \A x \in S : g[x] \in Int
  OBVIOUS
<1> HIDE DEF G
<1> QED  BY <1>1, <1>4, <1>5, SumIsAdditive

LEMMA SumMinus ==
    ASSUME NEW S, IsFiniteSet(S), NEW f, NEW g, NEW h,
           \A x \in S : f[x] \in Int /\ g[x] \in Int /\ h[x] = f[x] - g[x]
    PROVE  SumFunctionOnSet(h, S) = SumFunctionOnSet(f, S) - SumFunctionOnSet(g, S)
<1>1. PICK F : Additive(F, f, S) /\ \A T \in SUBSET S : SumFunctionOnSet(f, T) = F[T]
  BY SumsOfSubsets
<1>2. PICK G : Additive(G, g, S) /\ \A T \in SUBSET S : SumFunctionOnSet(g, T) = G[T]
  BY SumsOfSubsets
<1> DEFINE H == [T \in SUBSET S |-> F[T] - G[T]]
<1>3. H \in [SUBSET S -> Int] /\ H[{}] = 0
  BY <1>1, <1>2 DEF Additive
<1>4. ASSUME NEW T \in SUBSET S, NEW x \in T PROVE H[T] = H[T \ {x}] + h[x]
  <2>1. /\ F[T] = F[T \ {x}] + f[x] /\ F[T \ {x}] \in Int /\ f[x] \in Int
        /\ G[T] = G[T \ {x}] + g[x] /\ G[T \ {x}] \in Int /\ g[x] \in Int
        /\ h[x] = f[x] - g[x]
    BY <1>1, <1>2 DEF Additive
  <2>2. H[T] = F[T] - G[T] /\ H[T \ {x}] = F[T \ {x}] - G[T \ {x}]
    OBVIOUS
  <2> HIDE DEF H
  <2> QED  BY <2>1, <2>2
<1>5. Additive(H, h, S) /\ H[S] = F[S] - G[S]
  BY <1>3, <1>4 DEF Additive
<1>6. \A x \in S : h[x] \in Int
  OBVIOUS
<1> HIDE DEF H
<1> QED  BY <1>1, <1>2, <1>5, <1>6, SumIsAdditive

\* A sum does not depend on what its terms are called.
LEMMA SumRenamed ==
    ASSUME NEW S, IsFiniteSet(S), NEW T, NEW h \in Bijection(S, T), NEW f, NEW g,
           \A x \in S : f[x] \in Int /\ g[h[x]] = f[x]
    PROVE  SumFunctionOnSet(g, T) = SumFunctionOnSet(f, S)
<1>1. IsFiniteSet(T)
  BY FS_Bijection DEF ExistsBijection
<1>2. h \in [S -> T] /\ (\A x, y \in S : h[x] = h[y] => x = y) /\ \A t \in T : \E x \in S : h[x] = t
  BY DEF Bijection, Injection, Surjection, IsInjective
<1>3. \A t \in T : g[t] \in Int
  BY <1>2
<1>4. PICK F : Additive(F, f, S) /\ \A U \in SUBSET S : SumFunctionOnSet(f, U) = F[U]
  BY SumsOfSubsets
<1>5. PICK G : Additive(G, g, T) /\ \A U \in SUBSET T : SumFunctionOnSet(g, U) = G[U]
  BY <1>1, <1>3, SumsOfSubsets
<1> DEFINE image(U) == {h[x] : x \in U}
           B == {U \in SUBSET S : F[U] # G[image(U)]}
<1>6. ASSUME B # {} PROVE FALSE
  <2>1. PICK U \in B : \A V \in B : V \subseteq U => V = U
    <3>1. B \in SUBSET SUBSET S
      OBVIOUS
    <3> HIDE DEF B
    <3> QED  BY <1>6, <3>1, SmallestSet
  <2>2. U # {}
    BY <1>4, <1>5 DEF Additive
  <2>3. PICK x \in U : TRUE
    BY <2>2
  <2>a. U \in SUBSET S
    BY <2>1
  <2>4. image(U) \in SUBSET T /\ h[x] \in image(U) /\ image(U) \ {h[x]} = image(U \ {x})
    BY <1>2, <2>3
  <2>5. F[U \ {x}] = G[image(U \ {x})]
    BY <2>1, <2>3
  <2> HIDE DEF image
  <2>6. F[U] = F[U \ {x}] + f[x]
    BY <1>4, <2>a, <2>3 DEF Additive
  <2>b. G[image(U)] = G[image(U) \ {h[x]}] + g[h[x]]
    BY <1>5, <2>4 DEF Additive
  <2>7. F[U] = G[image(U)]
    BY <2>a, <2>3, <2>4, <2>5, <2>6, <2>b
  <2> QED  BY <2>1, <2>7
<1>7. F[S] = G[image(S)]
  BY <1>6
<1>8. image(S) = T
  BY <1>2
<1> QED  BY <1>4, <1>5, <1>7, <1>8
=============================================================================
