-------------------------------- MODULE Sums --------------------------------
(***************************************************************************)
(* What SumFunctionOnSet of the community modules computes, for every      *)
(* function and finite set: the facts about sums that the proofs need.     *)
(*                                                                         *)
(* The sum is a recursive function over the subsets of the set.  Neither   *)
(* that it exists nor an induction over it can be had from the library's   *)
(* theorems that take an operator, so the inductions here are over a set   *)
(* Good of subsets (SubsetInduction).                                      *)
(***************************************************************************)
EXTENDS FiniteSetsExt, FiniteSetTheorems, TLAPS

\* Induction: a set with every subset of S whose proper subsets it has has S.
LEMMA SubsetInduction ==
    ASSUME NEW S, IsFiniteSet(S), NEW Good,
           \A T \in SUBSET S :
             (\A U \in SUBSET T : U # T => U \in Good) => T \in Good
    PROVE  S \in Good
<1>. SUFFICES ASSUME S \notin Good PROVE FALSE
  OBVIOUS
<1>. DEFINE Bad == (SUBSET S) \ Good
<1>1. IsWellFoundedOn(StrictSubsetOrdering(S), SUBSET S)
  <2>1. FiniteSubsetsOf(S) = SUBSET S
    BY FS_FiniteSubsetsOfFinite
  <2>2. IsWellFoundedOn(StrictSubsetOrdering(S), FiniteSubsetsOf(S))
    BY FS_StrictSubsetOrderingWellFounded
  <2>. QED BY ONLY <2>1, <2>2
<1>2. Bad \subseteq SUBSET S /\ Bad # {}
  OBVIOUS
<1>. HIDE DEF Bad
<1>3. PICK T \in Bad : \A U \in Bad : ~(<<U, T>> \in StrictSubsetOrdering(S))
  BY <1>1, <1>2, WFMin
<1>4. T \in SUBSET S /\ T \notin Good
  BY <1>3 DEF Bad
<1>5. ASSUME NEW U \in SUBSET T, U # T PROVE U \in Good
  BY <1>3, <1>4, <1>5 DEF Bad, StrictSubsetOrdering
<1>. QED BY <1>4, <1>5

\* The element a sum takes first, and the equation its recursion is about.
Some(T) == CHOOSE x \in T : TRUE

IsSum(g, f, S) ==
    g = [T \in SUBSET S |-> IF T = {} THEN 0
                            ELSE f[Some(T)] + g[T \ {Some(T)}]]

LEMMA SomeIn == \A T : T # {} => Some(T) \in T
  BY DEF Some

LEMMA SumUnfolds ==
    ASSUME NEW f, NEW S
    PROVE  SumFunctionOnSet(f, S) = (CHOOSE g : IsSum(g, f, S))[S]
  BY DEF SumFunctionOnSet, FoldFunctionOnSet, MapThenFoldSet, IsSum, Some

\* Functions that satisfy the equation agree where both are defined.
LEMMA SumIsUnique ==
    ASSUME NEW S, NEW T, T \subseteq S, IsFiniteSet(T), NEW f, NEW g, NEW h,
           IsSum(g, f, S), IsSum(h, f, T)
    PROVE  g[T] = h[T]
<1>. DEFINE Good == {U \in SUBSET T : g[U] = h[U]}
<1>1. ASSUME NEW U \in SUBSET T, \A V \in SUBSET U : V # U => V \in Good
      PROVE  U \in Good
  <2>1. /\ g[U] = IF U = {} THEN 0 ELSE f[Some(U)] + g[U \ {Some(U)}]
        /\ h[U] = IF U = {} THEN 0 ELSE f[Some(U)] + h[U \ {Some(U)}]
    BY DEF IsSum
  <2>2. ASSUME U # {} PROVE g[U \ {Some(U)}] = h[U \ {Some(U)}]
    <3>1. U \ {Some(U)} \in Good
      BY <1>1, <2>2, SomeIn
    <3>. QED BY <3>1
  <2>. QED BY <2>1, <2>2
<1>2. T \in Good
  <2>. HIDE DEF Good
  <2>. QED BY <1>1, SubsetInduction
<1>. QED BY <1>2

\* There is one for every finite set: it is put together from those of the
\* proper subsets.
LEMMA SumExists ==
    ASSUME NEW S, IsFiniteSet(S), NEW f
    PROVE  \E g : IsSum(g, f, S)
<1>. DEFINE Good == {T \in SUBSET S : \E g : IsSum(g, f, T)}
<1>1. ASSUME NEW T \in SUBSET S, \A U \in SUBSET T : U # T => U \in Good
      PROVE  T \in Good
  <2>. DEFINE Pick(U) == CHOOSE g : IsSum(g, f, U)
              Less(U) == U \ {Some(U)}
              F == [U \in SUBSET T |->
                      IF U = {} THEN 0 ELSE f[Some(U)] + Pick(Less(U))[Less(U)]]
  <2>1. \A U \in SUBSET T : U # T => IsSum(Pick(U), f, U)
    <3>1. \A U \in SUBSET T : U # T => \E g : IsSum(g, f, U)
      BY <1>1
    <3>. QED BY <3>1
  <2>2. \A U \in SUBSET T : IsFiniteSet(U)
    BY FS_Subset
  <2>. HIDE DEF Pick
  <2>3. ASSUME NEW U \in SUBSET T, U # {}
        PROVE  F[Less(U)] = Pick(Less(U))[Less(U)]
    <3>. DEFINE V == Less(U)
    <3>1. V \in SUBSET T /\ V # T
      BY <2>3, SomeIn
    <3>2. IsSum(Pick(V), f, V)
      BY <2>1, <3>1
    <3>3. Pick(V)[V] = IF V = {} THEN 0 ELSE f[Some(V)] + Pick(V)[Less(V)]
      BY <3>2 DEF IsSum
    <3>4. F[V] = IF V = {} THEN 0 ELSE f[Some(V)] + Pick(Less(V))[Less(V)]
      BY <3>1
    <3>5. ASSUME V # {} PROVE Pick(V)[Less(V)] = Pick(Less(V))[Less(V)]
      <4>1. Less(V) \subseteq V /\ Less(V) \in SUBSET T /\ Less(V) # T
        BY <3>1, <3>5, SomeIn
      <4>2. IsSum(Pick(Less(V)), f, Less(V)) /\ IsFiniteSet(Less(V))
        BY <2>1, <2>2, <4>1
      <4>. HIDE DEF Less, V
      <4>. QED BY <3>2, <4>1, <4>2, SumIsUnique
    <3>. QED BY <3>3, <3>4, <3>5
  <2>4. \A U \in SUBSET T : F[U] = IF U = {} THEN 0 ELSE f[Some(U)] + F[Less(U)]
    BY <2>3
  <2>5. IsSum(F, f, T)
    BY <2>4 DEF IsSum
  <2>. QED BY <2>5
<1>2. S \in Good
  <2>. HIDE DEF Good
  <2>. QED BY <1>1, SubsetInduction
<1>. QED BY <1>2

\* The recursion, as an equation of the operator itself.
LEMMA SumEquation ==
    ASSUME NEW S, IsFiniteSet(S), NEW f
    PROVE  SumFunctionOnSet(f, S) =
             IF S = {} THEN 0
             ELSE f[Some(S)] + SumFunctionOnSet(f, S \ {Some(S)})
<1>. DEFINE g(T) == CHOOSE h : IsSum(h, f, T)
            L == S \ {Some(S)}
<1>1. \A T \in SUBSET S :
        IsFiniteSet(T) /\ IsSum(g(T), f, T) /\ SumFunctionOnSet(f, T) = g(T)[T]
  <2>1. \A T \in SUBSET S : IsFiniteSet(T) /\ \E h : IsSum(h, f, T)
    BY FS_Subset, SumExists
  <2>. QED BY <2>1, SumUnfolds
<1>. HIDE DEF g
<1>2. g(S)[S] = IF S = {} THEN 0 ELSE f[Some(S)] + g(S)[L]
  <2>1. IsSum(g(S), f, S)
    BY <1>1
  <2>. QED BY <2>1 DEF IsSum
<1>3. L \in SUBSET S
  OBVIOUS
<1>4. g(S)[L] = g(L)[L]
  <2>1. /\ IsSum(g(S), f, S) /\ IsSum(g(L), f, L)
        /\ L \subseteq S /\ IsFiniteSet(L)
    BY <1>1, <1>3
  <2>. HIDE DEF L
  <2>. QED BY <2>1, SumIsUnique
<1>. QED BY <1>1, <1>2, <1>3, <1>4

LEMMA SumEmpty == \A f : SumFunctionOnSet(f, {}) = 0
  BY SumEquation, FS_EmptySet

LEMMA SumType ==
    ASSUME NEW S, IsFiniteSet(S), NEW f, \A x \in S : f[x] \in Int
    PROVE  SumFunctionOnSet(f, S) \in Int
<1>. DEFINE Good == {T \in SUBSET S : SumFunctionOnSet(f, T) \in Int}
<1>1. ASSUME NEW T \in SUBSET S, \A U \in SUBSET T : U # T => U \in Good
      PROVE  T \in Good
  <2>1. CASE T = {}
    BY <2>1, SumEmpty
  <2>2. CASE T # {}
    <3>1. Some(T) \in T
      BY <2>2, SomeIn
    <3>2. T \ {Some(T)} \in Good
      BY <1>1, <3>1
    <3>3. SumFunctionOnSet(f, T)
            = f[Some(T)] + SumFunctionOnSet(f, T \ {Some(T)})
      BY <2>2, SumEquation, FS_Subset
    <3>. QED BY <3>1, <3>2, <3>3
  <2>. QED BY <2>1, <2>2
<1>2. S \in Good
  <2>. HIDE DEF Good
  <2>. QED BY <1>1, SubsetInduction
<1>. QED BY <1>2

\* Whatever element is taken first, the sum is the same.
LEMMA SumWithout ==
    ASSUME NEW S, IsFiniteSet(S), NEW f, \A x \in S : f[x] \in Int,
           NEW y \in S
    PROVE  SumFunctionOnSet(f, S) = f[y] + SumFunctionOnSet(f, S \ {y})
<1>. DEFINE Sum(T) == SumFunctionOnSet(f, T)
            Good == {T \in SUBSET S : \A x \in T : Sum(T) = f[x] + Sum(T \ {x})}
<1>1. \A U \in SUBSET S : IsFiniteSet(U) /\ Sum(U) \in Int
  <2>1. \A U \in SUBSET S : IsFiniteSet(U)
    BY FS_Subset
  <2>. QED BY <2>1, SumType
<1>2. ASSUME NEW T \in SUBSET S, \A U \in SUBSET T : U # T => U \in Good
      PROVE  T \in Good
  <2>. SUFFICES ASSUME NEW x \in T PROVE Sum(T) = f[x] + Sum(T \ {x})
    OBVIOUS
  <2>. DEFINE c == Some(T)
  <2>1. c \in T
    BY SomeIn
  <2>2. Sum(T) = f[c] + Sum(T \ {c})
    BY <1>1, SumEquation
  <2>. HIDE DEF c, Sum
  <2>3. CASE x = c
    BY <2>2, <2>3
  <2>4. CASE x # c
    <3>1. T \ {c} \in Good /\ T \ {x} \in Good
      BY <1>2, <2>1
    <3>. DEFINE rest == Sum((T \ {x}) \ {c})
    <3>2. (T \ {c}) \ {x} = (T \ {x}) \ {c}
      OBVIOUS
    <3>3. Sum(T \ {c}) = f[x] + rest
      BY <3>1, <3>2, <2>4
    <3>4. Sum(T \ {x}) = f[c] + rest
      BY <2>1, <3>1, <2>4
    <3>5. f[x] \in Int /\ f[c] \in Int /\ rest \in Int
      BY <1>1, <2>1
    <3>. HIDE DEF rest
    <3>. QED BY ONLY <2>2, <3>3, <3>4, <3>5
  <2>. QED BY <2>3, <2>4
<1>3. S \in Good
  <2>. HIDE DEF Good
  <2>. QED BY <1>2, SubsetInduction
<1>. QED BY <1>3

\* A sum of naturals is one.
LEMMA SumNat ==
    ASSUME NEW S, IsFiniteSet(S), NEW f, \A x \in S : f[x] \in Nat
    PROVE  SumFunctionOnSet(f, S) \in Nat
<1>. DEFINE Good == {T \in SUBSET S : SumFunctionOnSet(f, T) \in Nat}
<1>1. ASSUME NEW T \in SUBSET S, \A U \in SUBSET T : U # T => U \in Good
      PROVE  T \in Good
  <2>1. CASE T = {}
    BY <2>1, SumEmpty
  <2>2. CASE T # {}
    <3>1. Some(T) \in T
      BY <2>2, SomeIn
    <3>2. T \ {Some(T)} \in Good
      BY <1>1, <3>1
    <3>3. SumFunctionOnSet(f, T)
            = f[Some(T)] + SumFunctionOnSet(f, T \ {Some(T)})
      BY <2>2, SumEquation, FS_Subset
    <3>. QED BY <3>1, <3>2, <3>3
  <2>. QED BY <2>1, <2>2
<1>2. S \in Good
  <2>. HIDE DEF Good
  <2>. QED BY <1>1, SubsetInduction
<1>. QED BY <1>2

\* A sum over a set is those over a part of it and over the rest.
LEMMA SumSplit ==
    ASSUME NEW S, IsFiniteSet(S), NEW T, T \subseteq S, NEW f,
           \A x \in S : f[x] \in Int
    PROVE  SumFunctionOnSet(f, S)
             = SumFunctionOnSet(f, T) + SumFunctionOnSet(f, S \ T)
<1>. DEFINE Sum(U) == SumFunctionOnSet(f, U)
            Good == {U \in SUBSET T : Sum(S) = Sum(U) + Sum(S \ U)}
<1>1. \A U \in SUBSET S : IsFiniteSet(U) /\ Sum(U) \in Int
  <2>1. \A U \in SUBSET S : IsFiniteSet(U)
    BY FS_Subset
  <2>. QED BY <2>1, SumType
<1>2. ASSUME NEW U \in SUBSET T, \A V \in SUBSET U : V # U => V \in Good
      PROVE  U \in Good
  <2>1. CASE U = {}
    <3>1. S \ U = S /\ Sum(U) = 0
      BY <2>1, SumEmpty
    <3>2. Sum(S) \in Int
      BY <1>1
    <3>3. Sum(S \ U) = Sum(S)
      BY <3>1
    <3>4. ASSUME NEW n \in Int PROVE n = 0 + n
      OBVIOUS
    <3>5. Sum(S) = Sum(U) + Sum(S \ U)
      BY ONLY <3>1, <3>2, <3>3, <3>4
    <3>. QED BY <3>5
  <2>2. CASE U # {}
    <3>. DEFINE c == Some(U)
                V == U \ {c}
    <3>1. c \in U
      BY <2>2, SomeIn
    <3>. HIDE DEF c
    <3>2. V \in Good /\ V \in SUBSET S /\ S \ V \in SUBSET S /\ U \in SUBSET S
      BY <1>2, <3>1
    <3>3. Sum(U) = f[c] + Sum(V)
      BY <1>1, <3>1, <3>2, SumWithout
    <3>4. c \in S \ V /\ (S \ V) \ {c} = S \ U
      BY <3>1
    <3>5. Sum(S \ V) = f[c] + Sum(S \ U)
      BY <1>1, <3>2, <3>4, SumWithout
    <3>6. Sum(V) \in Int /\ Sum(S \ U) \in Int /\ f[c] \in Int
      BY <1>1, <3>1, <3>2
    <3>7. Sum(S) = Sum(V) + Sum(S \ V)
      BY <3>2
    <3>. HIDE DEF Sum, V
    <3>8. Sum(S) = Sum(U) + Sum(S \ U)
      BY <3>3, <3>5, <3>6, <3>7
    <3>. QED BY <3>8
  <2>. QED BY <2>1, <2>2
<1>3. T \in Good
  <2>1. IsFiniteSet(T)
    BY <1>1
  <2>. HIDE DEF Good
  <2>. QED BY <1>2, <2>1, SubsetInduction
<1>. QED BY <1>3

LEMMA SumWith ==
    ASSUME NEW S, IsFiniteSet(S), NEW y, y \notin S, NEW f,
           \A x \in S \cup {y} : f[x] \in Int
    PROVE  SumFunctionOnSet(f, S \cup {y}) = SumFunctionOnSet(f, S) + f[y]
<1>1. IsFiniteSet(S \cup {y}) /\ (S \cup {y}) \ {y} = S
  BY FS_AddElement
<1>2. SumFunctionOnSet(f, S) \in Int
  BY SumType
<1>3. SumFunctionOnSet(f, S \cup {y}) = f[y] + SumFunctionOnSet(f, S)
  <2>1. y \in S \cup {y}
    OBVIOUS
  <2>2. SumFunctionOnSet(f, S \cup {y})
          = f[y] + SumFunctionOnSet(f, (S \cup {y}) \ {y})
    BY <1>1, <2>1, SumWithout
  <2>. QED BY <1>1, <2>2
<1>4. f[y] \in Int
  OBVIOUS
<1>. QED BY ONLY <1>2, <1>3, <1>4

\* A sum is of the values on the set alone.
LEMMA SumSame ==
    ASSUME NEW S, IsFiniteSet(S), NEW f, NEW g, \A x \in S : f[x] = g[x]
    PROVE  SumFunctionOnSet(f, S) = SumFunctionOnSet(g, S)
<1>. DEFINE Good == {T \in SUBSET S :
                       SumFunctionOnSet(f, T) = SumFunctionOnSet(g, T)}
<1>1. ASSUME NEW T \in SUBSET S, \A U \in SUBSET T : U # T => U \in Good
      PROVE  T \in Good
  <2>1. CASE T = {}
    BY <2>1, SumEmpty
  <2>2. CASE T # {}
    <3>1. Some(T) \in T
      BY <2>2, SomeIn
    <3>2. T \ {Some(T)} \in Good
      BY <1>1, <3>1
    <3>3. /\ SumFunctionOnSet(f, T)
               = f[Some(T)] + SumFunctionOnSet(f, T \ {Some(T)})
          /\ SumFunctionOnSet(g, T)
               = g[Some(T)] + SumFunctionOnSet(g, T \ {Some(T)})
      BY <2>2, SumEquation, FS_Subset
    <3>. QED BY <3>1, <3>2, <3>3
  <2>. QED BY <2>1, <2>2
<1>2. S \in Good
  <2>. HIDE DEF Good
  <2>. QED BY <1>1, SubsetInduction
<1>. QED BY <1>2

\* One value changes.
LEMMA SumChanged ==
    ASSUME NEW S, IsFiniteSet(S), NEW f, NEW g, NEW y \in S,
           \A x \in S : f[x] \in Int /\ g[x] \in Int,
           \A x \in S \ {y} : f[x] = g[x]
    PROVE  SumFunctionOnSet(g, S) = SumFunctionOnSet(f, S) - f[y] + g[y]
<1>1. IsFiniteSet(S \ {y})
  BY FS_RemoveElement
<1>2. SumFunctionOnSet(f, S \ {y}) = SumFunctionOnSet(g, S \ {y})
  BY <1>1, SumSame
<1>3. /\ SumFunctionOnSet(f, S) = f[y] + SumFunctionOnSet(f, S \ {y})
      /\ SumFunctionOnSet(g, S) = g[y] + SumFunctionOnSet(g, S \ {y})
  BY SumWithout
<1>4. SumFunctionOnSet(f, S \ {y}) \in Int
  BY <1>1, SumType
<1>. QED BY <1>2, <1>3, <1>4

\* Two values change.
LEMMA SumMoved ==
    ASSUME NEW S, IsFiniteSet(S), NEW f, NEW g, NEW y \in S, NEW z \in S,
           y # z, \A x \in S : f[x] \in Int /\ g[x] \in Int,
           \A x \in S \ {y, z} : f[x] = g[x]
    PROVE  SumFunctionOnSet(g, S)
             = SumFunctionOnSet(f, S) - f[y] - f[z] + g[y] + g[z]
<1>. DEFINE h == [x \in S |-> IF x = y THEN g[x] ELSE f[x]]
<1>1. /\ \A x \in S : f[x] \in Int /\ h[x] \in Int /\ g[x] \in Int
      /\ \A x \in S \ {y} : f[x] = h[x]
      /\ \A x \in S \ {z} : h[x] = g[x]
      /\ h[y] = g[y] /\ h[z] = f[z]
  OBVIOUS
<1>. HIDE DEF h
<1>2. SumFunctionOnSet(h, S) = SumFunctionOnSet(f, S) - f[y] + h[y]
  <2>1. \A x \in S : f[x] \in Int /\ h[x] \in Int
    BY <1>1
  <2>. QED BY <1>1, <2>1, SumChanged
<1>3. SumFunctionOnSet(g, S) = SumFunctionOnSet(h, S) - h[z] + g[z]
  <2>1. \A x \in S : h[x] \in Int /\ g[x] \in Int
    BY <1>1
  <2>. QED BY <1>1, <2>1, SumChanged
<1>4. SumFunctionOnSet(f, S) \in Int
  BY SumType
<1>. QED BY <1>1, <1>2, <1>3, <1>4

\* A sum of equal values.
LEMMA SumConstant ==
    ASSUME NEW S, IsFiniteSet(S), NEW f, NEW k \in Int, \A x \in S : f[x] = k
    PROVE  SumFunctionOnSet(f, S) = Cardinality(S) * k
<1>. DEFINE Good == {T \in SUBSET S :
                       SumFunctionOnSet(f, T) = Cardinality(T) * k}
<1>1. ASSUME NEW T \in SUBSET S, \A U \in SUBSET T : U # T => U \in Good
      PROVE  T \in Good
  <2>1. CASE T = {}
    BY <2>1, SumEmpty, FS_EmptySet
  <2>2. CASE T # {}
    <3>. DEFINE U == T \ {Some(T)}
    <3>1. Some(T) \in T
      BY <2>2, SomeIn
    <3>2. U \in Good
      BY <1>1, <3>1
    <3>3. SumFunctionOnSet(f, T) = f[Some(T)] + SumFunctionOnSet(f, U)
      BY <2>2, SumEquation, FS_Subset
    <3>4. Cardinality(U) = Cardinality(T) - 1 /\ Cardinality(T) \in Nat
      BY <3>1, FS_Subset, FS_RemoveElement, FS_CardinalityType
    <3>5. f[Some(T)] = k
      BY <3>1
    <3>. HIDE DEF U
    <3>6. (Cardinality(T) - 1) * k = Cardinality(T) * k - k
      BY <3>4
    <3>7. SumFunctionOnSet(f, U) = Cardinality(U) * k
      BY <3>2
    <3>8. SumFunctionOnSet(f, T) = k + (Cardinality(T) * k - k)
      BY <3>3, <3>4, <3>5, <3>6, <3>7
    <3>9. Cardinality(T) * k \in Int
      BY <3>4
    <3>. QED BY <3>8, <3>9
  <2>. QED BY <2>1, <2>2
<1>2. S \in Good
  <2>. HIDE DEF Good
  <2>. QED BY <1>1, SubsetInduction
<1>. QED BY <1>2

\* A function gains an argument, and its sum the value there.
LEMMA SumGrows ==
    ASSUME NEW S, IsFiniteSet(S), NEW y, y \notin S, NEW f, NEW g,
           DOMAIN f = S, DOMAIN g = S \cup {y},
           \A x \in S : f[x] = g[x], \A x \in S \cup {y} : g[x] \in Int
    PROVE  SumFunction(g) = SumFunction(f) + g[y]
<1>1. SumFunctionOnSet(g, S \cup {y}) = SumFunctionOnSet(g, S) + g[y]
  BY SumWith
<1>2. SumFunctionOnSet(f, S) = SumFunctionOnSet(g, S)
  BY SumSame
<1>. QED BY <1>1, <1>2 DEF SumFunction

=============================================================================
