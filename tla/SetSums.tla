------------------------------ MODULE SetSums ------------------------------
(***************************************************************************)
(* Sums over finite sets: what MapThenSumSet of the community modules,     *)
(* with which the report is written, computes for every set.  It is a fold *)
(* over a choice of elements; here it is shown not to depend on it.        *)
(* Induction over subsets is stated for a set of good subsets instead of a *)
(* predicate.                                                              *)
(***************************************************************************)
EXTENDS Integers, FiniteSetsExt, FiniteSetTheorems, WellFoundedInduction, TLAPS

SumOf(f, S) == MapThenSumSet(LAMBDA x : f[x], S)

-----------------------------------------------------------------------------
\* The least element of a set of naturals.
LEMMA LeastNatural ==
    ASSUME NEW T \in SUBSET Nat, T # {}
    PROVE  \E x \in T : \A y \in T : x <= y
  <1>1. PICK x \in T : \A y \in T : ~ (<<y, x>> \in OpToRel(<, Nat))
    BY NatLessThanWellFounded, WFMin, Zenon
  <1>2. \A y \in T : x <= y
    <2> SUFFICES ASSUME NEW y \in T, y < x PROVE FALSE
      OBVIOUS
    <2>1. <<y, x>> \in OpToRel(<, Nat)
      BY ZenonT(30) DEF OpToRel
    <2> QED BY <1>1, <2>1, Zenon
  <1> QED BY <1>2

\* Sets are good if each is whenever those one element smaller are.
LEMMA SmallerSubsets ==
    ASSUME NEW S, IsFiniteSet(S), NEW Good,
           \A T \in SUBSET S : (\A x \in T : T \ {x} \in Good) => T \in Good
    PROVE  \A T \in SUBSET S : T \in Good
  <1> SUFFICES ASSUME NEW T \in SUBSET S, T \notin Good PROVE FALSE
    OBVIOUS
  <1> DEFINE Bad == {U \in SUBSET S : U \notin Good}
             Sizes == {Cardinality(U) : U \in Bad}
  <1>1. \A U \in SUBSET S : IsFiniteSet(U) /\ Cardinality(U) \in Nat
    BY FS_Subset, FS_CardinalityType
  <1>2. Sizes \in SUBSET Nat /\ Sizes # {}
    BY <1>1
  <1>3. PICK n \in Sizes : \A m \in Sizes : n <= m
    BY <1>2, LeastNatural
  <1>4. PICK U \in Bad : Cardinality(U) = n
    OBVIOUS
  <1>5. PICK x \in U : U \ {x} \notin Good
    BY <1>4
  <1>6. Cardinality(U \ {x}) = Cardinality(U) - 1 /\ U \ {x} \in SUBSET S
    BY <1>1, <1>5, FS_RemoveElement
  <1>7. U \ {x} \in Bad
    BY <1>5, <1>6
  <1>8. n <= Cardinality(U \ {x})
    BY <1>3, <1>7
  <1> QED BY <1>1, <1>4, <1>6, <1>8

\* A property of the empty set that every element passes on is one of all.
LEMMA SubsetInduction ==
    ASSUME NEW S, IsFiniteSet(S), NEW Good, {} \in Good,
           \A T \in SUBSET S : (\E x \in T : T \ {x} \in Good) \/ T = {} => T \in Good
    PROVE  \A T \in SUBSET S : T \in Good
  <1>1. \A T \in SUBSET S : (\A x \in T : T \ {x} \in Good) => T \in Good
    BY Zenon
  <1> QED BY <1>1, SmallerSubsets

\* The values of a function on a finite set are finitely many.
LEMMA FiniteImage ==
    ASSUME NEW S, IsFiniteSet(S), NEW f, NEW T, \A y : y \in T <=> \E x \in S : y = f[x]
    PROVE  IsFiniteSet(T) /\ Cardinality(T) <= Cardinality(S)
  <1> DEFINE g == [x \in S |-> f[x]]
  <1>1. g \in Surjection(S, T)
    BY DEF Surjection
  <1> QED BY <1>1, FS_Surjection

-----------------------------------------------------------------------------
(* The function the fold is a value of.                                    *)
First(T) == CHOOSE x \in T : TRUE
IsFold(it, f, S) ==
    it = [T \in SUBSET S |-> IF T = {} THEN 0 ELSE f[First(T)] + it[T \ {First(T)}]]

\* The elements in the order the fold takes them.
LEMMA FirstIn == ASSUME NEW T, T # {} PROVE First(T) \in T
  BY DEF First

LEMMA FoldUnfold ==
    ASSUME NEW it, NEW f, NEW S, IsFold(it, f, S)
    PROVE  /\ it[{}] = 0
           /\ \A T \in SUBSET S : T # {} => it[T] = f[First(T)] + it[T \ {First(T)}]
  <1> DEFINE h == [T \in SUBSET S |-> IF T = {} THEN 0 ELSE f[First(T)] + it[T \ {First(T)}]]
  <1>1. it = h
    BY DEF IsFold
  <1>2. \A T \in SUBSET S : h[T] = IF T = {} THEN 0 ELSE f[First(T)] + it[T \ {First(T)}]
    OBVIOUS
  <1> HIDE DEF h
  <1>3. {} \in SUBSET S
    OBVIOUS
  <1> QED BY <1>1, <1>2, <1>3

\* Folds of the same function agree, whatever set they were made for.
LEMMA FoldsAgree ==
    ASSUME NEW it, NEW jt, NEW f, NEW S, NEW T \in SUBSET S, IsFiniteSet(T),
           IsFold(it, f, S), IsFold(jt, f, T)
    PROVE  \A U \in SUBSET T : it[U] = jt[U]
  <1> DEFINE Bad == {U \in SUBSET T : it[U] # jt[U]}
             Sizes == {Cardinality(U) : U \in Bad}
  <1> SUFFICES ASSUME Bad # {} PROVE FALSE
    OBVIOUS
  <1>1. \A U \in SUBSET T : IsFiniteSet(U) /\ Cardinality(U) \in Nat
    BY FS_Subset, FS_CardinalityType
  <1>2. Sizes \in SUBSET Nat /\ Sizes # {}
    BY <1>1
  <1>3. PICK n \in Sizes : \A m \in Sizes : n <= m
    BY <1>2, LeastNatural
  <1>4. PICK U \in Bad : Cardinality(U) = n
    OBVIOUS
  <1>5. U # {}
    BY <1>4, FoldUnfold
  <1> DEFINE x == First(U)
  <1>6. x \in U
    BY <1>5, FirstIn
  <1>7. it[U] = f[x] + it[U \ {x}]
    BY ZenonT(60), <1>4, <1>5, FoldUnfold
  <1>8. jt[U] = f[x] + jt[U \ {x}]
    BY <1>4, <1>5, FoldUnfold
  <1> HIDE DEF x
  <1>9. Cardinality(U \ {x}) = Cardinality(U) - 1
    BY <1>1, <1>4, <1>6, FS_RemoveElement
  <1>10. U \ {x} \in SUBSET T /\ U \ {x} \notin Bad
    <2>1. U \ {x} \in SUBSET T
      BY <1>4
    <2>2. ~(n <= Cardinality(U \ {x}))
      BY <1>1, <1>4, <1>9
    <2> QED BY <1>3, <2>1, <2>2
  <1> QED BY <1>4, <1>7, <1>8, <1>10

\* There is one for every function: it grows with the size of the sets.
LEMMA FoldExists ==
    ASSUME NEW f, NEW S, IsFiniteSet(S)
    PROVE  \E it : IsFold(it, f, S)
  <1> DEFINE Small(n) == {T \in SUBSET S : Cardinality(T) <= n}
             Part(h, n) == h = [T \in Small(n) |->
                                  IF T = {} THEN 0 ELSE f[First(T)] + h[T \ {First(T)}]]
             Without == {n \in Nat : ~ \E h : Part(h, n)}
  <1>1. \A T \in SUBSET S : IsFiniteSet(T) /\ Cardinality(T) \in Nat
                           /\ Cardinality(T) <= Cardinality(S)
    BY FS_Subset, FS_CardinalityType
  <1>2. \A T \in SUBSET S : T # {} => /\ First(T) \in T /\ T \ {First(T)} \in SUBSET S
                                      /\ Cardinality(T \ {First(T)}) = Cardinality(T) - 1
    BY <1>1, FirstIn, FS_RemoveElement
  <1>3. Part([T \in Small(0) |-> 0], 0)
    <2>1. \A T \in Small(0) : T = {}
      BY <1>1, FS_EmptySet
    <2> QED BY <2>1
  <1>4. ASSUME NEW n \in Nat, NEW h, Part(h, n)
        PROVE  \E h2 : Part(h2, n + 1)
    <2> DEFINE h2 == [T \in Small(n + 1) |->
                        IF T = {} THEN 0 ELSE f[First(T)] + h[T \ {First(T)}]]
    <2>1. ASSUME NEW T \in Small(n) PROVE h2[T] = h[T] /\ T \in Small(n + 1)
      <3>1. T \in Small(n + 1)
        BY <1>1
      <3>2. h2[T] = IF T = {} THEN 0 ELSE f[First(T)] + h[T \ {First(T)}]
        BY <3>1
      <3>3. h[T] = IF T = {} THEN 0 ELSE f[First(T)] + h[T \ {First(T)}]
        <4> DEFINE g == [U \in Small(n) |->
                           IF U = {} THEN 0 ELSE f[First(U)] + h[U \ {First(U)}]]
        <4>1. h = g
          BY <1>4
        <4>2. g[T] = IF T = {} THEN 0 ELSE f[First(T)] + h[T \ {First(T)}]
          OBVIOUS
        <4> HIDE DEF g
        <4> QED BY <4>1, <4>2
      <3> QED BY <3>1, <3>2, <3>3
    <2>2. ASSUME NEW T \in Small(n + 1), T # {}
          PROVE  h[T \ {First(T)}] = h2[T \ {First(T)}]
      <3>1. T \ {First(T)} \in Small(n)
        BY <1>1, <1>2, <2>2
      <3> HIDE DEF h2
      <3> QED BY <2>1, <3>1
    <2>3. h2 = [T \in Small(n + 1) |->
                  IF T = {} THEN 0 ELSE f[First(T)] + h2[T \ {First(T)}]]
      <3>1. \A T \in Small(n + 1) :
               (IF T = {} THEN 0 ELSE f[First(T)] + h[T \ {First(T)}])
                 = (IF T = {} THEN 0 ELSE f[First(T)] + h2[T \ {First(T)}])
        <4> HIDE DEF h2, Small
        <4> QED BY <2>2
      <3> DEFINE A(T) == IF T = {} THEN 0 ELSE f[First(T)] + h[T \ {First(T)}]
                 B(T) == IF T = {} THEN 0 ELSE f[First(T)] + h2[T \ {First(T)}]
      <3>2. h2 = [T \in Small(n + 1) |-> A(T)] /\ \A T \in Small(n + 1) : A(T) = B(T)
        BY <3>1
      <3> HIDE DEF A, B, h2, Small
      <3>3. h2 = [T \in Small(n + 1) |-> B(T)]
        BY <3>2
      <3> QED BY <3>3 DEF B
    <2> QED BY <2>3
  <1>5. Without = {}
    <2> SUFFICES ASSUME Without # {} PROVE FALSE
      OBVIOUS
    <2>1. PICK n \in Without : \A m \in Without : n <= m
      BY LeastNatural
    <2>2. n # 0
      BY <1>3
    <2>3. n - 1 \in Nat /\ n - 1 \notin Without
      <3>1. n \in Nat
        OBVIOUS
      <3>2. n - 1 \in Nat /\ ~(n <= n - 1)
        BY <2>2, <3>1
      <3> HIDE DEF Without
      <3> QED BY <2>1, <3>2
    <2> HIDE DEF Part
    <2>4. PICK h : Part(h, n - 1)
      BY <2>3
    <2>5. \E h2 : Part(h2, n - 1 + 1)
      BY <1>4, <2>3, <2>4
    <2>6. n - 1 + 1 = n
      BY <2>2
    <2> QED BY <2>1, <2>5, <2>6
  <1>6. Cardinality(S) \in Nat /\ Small(Cardinality(S)) = SUBSET S
    BY <1>1, FS_CardinalityType
  <1>7. PICK h : Part(h, Cardinality(S))
    <2> HIDE DEF Part
    <2> QED BY <1>5, <1>6
  <1> QED BY <1>6, <1>7 DEF IsFold

\* What the values of such a fold are.
LEMMA FoldInt ==
    ASSUME NEW S, IsFiniteSet(S), NEW f \in [S -> Int], NEW it, IsFold(it, f, S)
    PROVE  \A T \in SUBSET S : it[T] \in Int
  <1> DEFINE Bad == {T \in SUBSET S : it[T] \notin Int}
             Sizes == {Cardinality(T) : T \in Bad}
  <1> SUFFICES ASSUME Bad # {} PROVE FALSE
    OBVIOUS
  <1>1. \A T \in SUBSET S : IsFiniteSet(T) /\ Cardinality(T) \in Nat
    BY FS_Subset, FS_CardinalityType
  <1>2. Sizes \in SUBSET Nat /\ Sizes # {}
    BY <1>1
  <1>3. PICK n \in Sizes : \A m \in Sizes : n <= m
    BY <1>2, LeastNatural
  <1>4. PICK T \in Bad : Cardinality(T) = n
    OBVIOUS
  <1>5. T # {}
    <2>1. it[{}] = 0
      BY FoldUnfold
    <2> QED BY <1>4, <2>1
  <1> DEFINE x == First(T)
  <1>6. x \in T
    BY <1>5, FirstIn
  <1>7. it[T] = f[x] + it[T \ {x}]
    BY <1>4, <1>5, FoldUnfold
  <1> HIDE DEF x
  <1>8. Cardinality(T \ {x}) = Cardinality(T) - 1
    BY <1>1, <1>4, <1>6, FS_RemoveElement
  <1>9. T \ {x} \in SUBSET S /\ T \ {x} \notin Bad
    <2>1. ~(n <= Cardinality(T \ {x}))
      BY <1>1, <1>4, <1>8
    <2> QED BY <1>3, <1>4, <2>1
  <1>10. f[x] \in Int /\ it[T \ {x}] \in Int
    BY <1>4, <1>6, <1>9
  <1> QED BY <1>4, <1>7, <1>10

\* The element that is taken first makes no difference.
TakesAny(it, f, S) == \A T \in SUBSET S : \A x \in T : it[T] = f[x] + it[T \ {x}]

\* They do not depend on the order: any element can be taken first.
LEMMA FoldAny ==
    ASSUME NEW S, IsFiniteSet(S), NEW f \in [S -> Int], NEW it, IsFold(it, f, S)
    PROVE  TakesAny(it, f, S)
  <1> DEFINE Bad == {T \in SUBSET S : \E x \in T : it[T] # f[x] + it[T \ {x}]}
             Sizes == {Cardinality(T) : T \in Bad}
  <1> SUFFICES ASSUME Bad # {} PROVE FALSE
    BY ZenonT(60) DEF TakesAny
  <1>1. \A T \in SUBSET S : IsFiniteSet(T) /\ Cardinality(T) \in Nat
    BY FS_Subset, FS_CardinalityType
  <1>2. Sizes \in SUBSET Nat /\ Sizes # {}
    BY <1>1
  <1>3. PICK n \in Sizes : \A m \in Sizes : n <= m
    BY <1>2, LeastNatural
  <1>4. PICK T \in Bad : Cardinality(T) = n
    OBVIOUS
  <1>5. PICK x \in T : it[T] # f[x] + it[T \ {x}]
    BY <1>4
  <1> DEFINE c == First(T)
  <1>6. T # {} /\ c \in T
    BY <1>5, FirstIn
  <1>7. it[T] = f[c] + it[T \ {c}]
    BY <1>4, <1>6, FoldUnfold
  <1> HIDE DEF c
  <1>8. x # c
    BY <1>5, <1>7
  <1>9. ASSUME NEW y \in T PROVE T \ {y} \in SUBSET S /\ T \ {y} \notin Bad
    <2>1. Cardinality(T \ {y}) = Cardinality(T) - 1
      BY <1>1, <1>4, FS_RemoveElement
    <2>2. ~(n <= Cardinality(T \ {y}))
      BY <1>1, <1>4, <2>1
    <2> QED BY <1>3, <1>4, <2>2
  <1>10. it[T \ {c}] = f[x] + it[(T \ {c}) \ {x}]
    <2>1. x \in T \ {c}
      BY <1>8
    <2> QED BY <1>6, <1>9, <2>1
  <1>11. it[T \ {x}] = f[c] + it[(T \ {x}) \ {c}]
    <2>1. c \in T \ {x}
      BY <1>6, <1>8
    <2> QED BY <1>5, <1>9, <2>1
  <1>12. (T \ {c}) \ {x} = (T \ {x}) \ {c}
    OBVIOUS
  <1>13. f[x] \in Int /\ f[c] \in Int /\ it[(T \ {x}) \ {c}] \in Int
    BY <1>4, <1>5, <1>6, FoldInt
  <1>14. it[T] = f[c] + (f[x] + it[(T \ {x}) \ {c}])
    BY <1>7, <1>10, <1>12
  <1>15. f[x] + it[T \ {x}] = f[x] + (f[c] + it[(T \ {x}) \ {c}])
    BY <1>11
  <1> QED BY <1>5, <1>13, <1>14, <1>15

-----------------------------------------------------------------------------
(* The sum of a function over a finite set.                                *)

\* It is the value of any fold of the function.
LEMMA SumIsFold ==
    ASSUME NEW S, IsFiniteSet(S), NEW f, NEW T \in SUBSET S, NEW it, IsFold(it, f, S)
    PROVE  SumOf(f, T) = it[T]
  <1> DEFINE F(jt) == jt = [U \in SUBSET T |-> IF U = {} THEN 0
                              ELSE f[CHOOSE x \in U : TRUE] + jt[U \ {CHOOSE x \in U : TRUE}]]
  <1>1. SumOf(f, T) = (CHOOSE jt : F(jt))[T]
    BY Zenon DEF SumOf, MapThenSumSet, MapThenFoldSet
  <1>2. IsFiniteSet(T)
    BY FS_Subset
  <1>3. PICK kt : IsFold(kt, f, T)
    BY <1>2, FoldExists
  <1>4. F(kt)
    BY <1>3 DEF IsFold, First
  <1> DEFINE jt == CHOOSE jt : F(jt)
  <1>5. F(jt)
    <2> HIDE DEF F
    <2> QED BY <1>4
  <1>6. IsFold(jt, f, T)
    <2> HIDE DEF jt
    <2> QED BY <1>5 DEF IsFold, First
  <1>7. SumOf(f, T) = jt[T]
    BY <1>1
  <1> HIDE DEF jt
  <1> QED BY <1>2, <1>6, <1>7, FoldsAgree

\* The sum over no elements is 0, and an element adds its term to the sum of
\* the others: what MapThenSumSet computes for the totals of the report.
THEOREM SumFacts ==
    ASSUME NEW S, IsFiniteSet(S), NEW f \in [S -> Int]
    PROVE  /\ SumOf(f, {}) = 0
           /\ \A T \in SUBSET S : /\ SumOf(f, T) \in Int
                                  /\ \A x \in T : SumOf(f, T) = f[x] + SumOf(f, T \ {x})
  <1>1. PICK it : IsFold(it, f, S)
    BY FoldExists
  <1>2. \A T \in SUBSET S : SumOf(f, T) = it[T]
    BY <1>1, SumIsFold
  <1>3. \A T \in SUBSET S : \A x \in T : T \ {x} \in SUBSET S
    OBVIOUS
  <1>4. {} \in SUBSET S
    OBVIOUS
  <1>5. it[{}] = 0
    BY <1>1, FoldUnfold
  <1>6. \A T \in SUBSET S : SumOf(f, T) \in Int
    BY <1>1, <1>2, FoldInt
  <1>7. TakesAny(it, f, S)
    BY <1>1, FoldAny, Zenon
  <1>8. ASSUME NEW T \in SUBSET S, NEW x \in T PROVE SumOf(f, T) = f[x] + SumOf(f, T \ {x})
    BY <1>2, <1>3, <1>7, Zenon DEF TakesAny
  <1>9. SumOf(f, {}) = 0
    BY <1>2, <1>4, <1>5, Zenon
  <1> QED BY <1>6, <1>8, <1>9, Zenon

\* Functions with the same terms have the same sum.
THEOREM SumSame ==
    ASSUME NEW S, IsFiniteSet(S), NEW T, IsFiniteSet(T), NEW U \in SUBSET S, U \in SUBSET T,
           NEW f \in [S -> Int], NEW g \in [T -> Int], \A x \in U : f[x] = g[x]
    PROVE  SumOf(f, U) = SumOf(g, U)
  <1> DEFINE Good == {V \in SUBSET U : SumOf(f, V) = SumOf(g, V)}
  <1>1. {} \in Good
    BY SumFacts
  <1>2. ASSUME NEW V \in SUBSET U, NEW x \in V, V \ {x} \in Good PROVE V \in Good
    <2>1. SumOf(f, V) = f[x] + SumOf(f, V \ {x})
      BY SumFacts
    <2>2. SumOf(g, V) = g[x] + SumOf(g, V \ {x})
      BY SumFacts
    <2> QED BY <1>2, <2>1, <2>2
  <1>3. IsFiniteSet(U)
    BY FS_Subset
  <1> HIDE DEF Good
  <1>4. \A V \in SUBSET U : V \in Good
    BY ZenonT(60), <1>1, <1>2, <1>3, SubsetInduction
  <1> QED BY <1>4 DEF Good

\* The sum of the terms of two functions is that of their sums.
THEOREM SumPlus ==
    ASSUME NEW S, IsFiniteSet(S), NEW f \in [S -> Int], NEW g \in [S -> Int],
           NEW h \in [S -> Int], \A x \in S : h[x] = f[x] + g[x]
    PROVE  SumOf(h, S) = SumOf(f, S) + SumOf(g, S)
  <1> DEFINE Good == {T \in SUBSET S : SumOf(h, T) = SumOf(f, T) + SumOf(g, T)}
  <1>1. {} \in Good
    BY SumFacts
  <1>2. ASSUME NEW T \in SUBSET S, NEW x \in T, T \ {x} \in Good PROVE T \in Good
    <2>1. SumOf(f, T) = f[x] + SumOf(f, T \ {x}) /\ SumOf(f, T \ {x}) \in Int
      BY SumFacts
    <2>2. SumOf(g, T) = g[x] + SumOf(g, T \ {x}) /\ SumOf(g, T \ {x}) \in Int
      BY SumFacts
    <2>3. SumOf(h, T) = h[x] + SumOf(h, T \ {x}) /\ SumOf(h, T \ {x}) \in Int
      BY SumFacts
    <2>4. f[x] \in Int /\ g[x] \in Int /\ h[x] = f[x] + g[x]
      OBVIOUS
    <2>5. SumOf(h, T \ {x}) = SumOf(f, T \ {x}) + SumOf(g, T \ {x})
      BY <1>2
    <2>6. SumOf(h, T) = SumOf(f, T) + SumOf(g, T)
      BY <2>1, <2>2, <2>3, <2>4, <2>5
    <2> QED BY <2>6
  <1> HIDE DEF Good
  <1>3. \A T \in SUBSET S : T \in Good
    BY ZenonT(60), <1>1, <1>2, SubsetInduction
  <1> QED BY <1>3 DEF Good

\* A factor of every term is one of the sum.
THEOREM SumTimes ==
    ASSUME NEW S, IsFiniteSet(S), NEW f \in [S -> Int], NEW c \in Int,
           NEW h \in [S -> Int], \A x \in S : h[x] = c * f[x]
    PROVE  SumOf(h, S) = c * SumOf(f, S)
  <1> DEFINE Good == {T \in SUBSET S : SumOf(h, T) = c * SumOf(f, T)}
  <1>1. {} \in Good
    BY SumFacts
  <1>2. ASSUME NEW T \in SUBSET S, NEW x \in T, T \ {x} \in Good PROVE T \in Good
    <2>1. SumOf(f, T) = f[x] + SumOf(f, T \ {x}) /\ SumOf(f, T \ {x}) \in Int
      BY SumFacts
    <2>2. SumOf(h, T) = h[x] + SumOf(h, T \ {x})
      BY SumFacts
    <2>3. f[x] \in Int /\ h[x] = c * f[x] /\ SumOf(h, T \ {x}) = c * SumOf(f, T \ {x})
      BY <1>2
    <2>4. \A a, b \in Int : c * (a + b) = c * a + c * b
      OBVIOUS
    <2>5. SumOf(h, T) = c * (f[x] + SumOf(f, T \ {x}))
      BY <2>1, <2>2, <2>3, <2>4
    <2> QED BY <2>1, <2>5
  <1> HIDE DEF Good
  <1>3. \A T \in SUBSET S : T \in Good
    BY ZenonT(60), <1>1, <1>2, SubsetInduction
  <1> QED BY <1>3 DEF Good

\* Adding the same term is multiplying.
THEOREM SumConstant ==
    ASSUME NEW S, IsFiniteSet(S), NEW f \in [S -> Int], NEW c \in Int,
           \A x \in S : f[x] = c
    PROVE  SumOf(f, S) = c * Cardinality(S)
  <1> DEFINE Good == {T \in SUBSET S : SumOf(f, T) = c * Cardinality(T)}
  <1>0. \A T \in SUBSET S : IsFiniteSet(T) /\ Cardinality(T) \in Nat
    BY FS_Subset, FS_CardinalityType
  <1>1. {} \in Good
    <2>1. Cardinality({}) = 0 /\ SumOf(f, {}) = 0
      BY FS_EmptySet, SumFacts
    <2> QED BY <2>1
  <1>2. ASSUME NEW T \in SUBSET S, NEW x \in T, T \ {x} \in Good PROVE T \in Good
    <2>1. SumOf(f, T) = c + SumOf(f, T \ {x})
      BY SumFacts
    <2>2. Cardinality(T \ {x}) = Cardinality(T) - 1 /\ Cardinality(T) \in Nat
      BY <1>0, FS_RemoveElement
    <2>3. SumOf(f, T \ {x}) = c * Cardinality(T \ {x})
      BY <1>2
    <2>4. \A n \in Nat : c + c * (n - 1) = c * n
      OBVIOUS
    <2> QED BY <2>1, <2>2, <2>3, <2>4
  <1> HIDE DEF Good
  <1>3. \A T \in SUBSET S : T \in Good
    BY <1>1, <1>2, SubsetInduction
  <1> QED BY <1>3 DEF Good

\* Sums of terms that are near each other are near each other.
THEOREM SumNear ==
    ASSUME NEW S, IsFiniteSet(S), NEW f \in [S -> Int], NEW h \in [S -> Int], NEW c \in Int,
           \A x \in S : 2 * (h[x] - f[x]) \in -c..c
    PROVE  2 * (SumOf(h, S) - SumOf(f, S)) \in -(c * Cardinality(S))..(c * Cardinality(S))
  <1> DEFINE Near(T) == 2 * (SumOf(h, T) - SumOf(f, T))
                          \in -(c * Cardinality(T))..(c * Cardinality(T))
             Good == {T \in SUBSET S : Near(T)}
  <1>0. \A T \in SUBSET S : IsFiniteSet(T) /\ Cardinality(T) \in Nat
    BY FS_Subset, FS_CardinalityType
  <1>1. {} \in Good
    <2>1. Cardinality({}) = 0 /\ SumOf(f, {}) = 0 /\ SumOf(h, {}) = 0
      BY FS_EmptySet, SumFacts
    <2> QED BY <2>1
  <1>2. ASSUME NEW T \in SUBSET S, NEW x \in T, T \ {x} \in Good PROVE T \in Good
    <2> DEFINE n == Cardinality(T)
               R == T \ {x}
    <2>1. SumOf(f, T) = f[x] + SumOf(f, R) /\ SumOf(f, R) \in Int /\ f[x] \in Int
      BY SumFacts
    <2>2. SumOf(h, T) = h[x] + SumOf(h, R) /\ SumOf(h, R) \in Int /\ h[x] \in Int
      BY SumFacts
    <2>3. Cardinality(R) = n - 1 /\ n \in Nat
      BY <1>0, FS_RemoveElement
    <2>4. c * (n - 1) = c * n - c /\ c * n \in Int
      <3>1. \A m \in Nat : c * m \in Int /\ c * (m - 1) \in Int /\ c + c * (m - 1) = c * m
        OBVIOUS
      <3>2. \A a, b \in Int : c + a = b => a = b - c
        OBVIOUS
      <3> HIDE DEF n
      <3> QED BY <2>3, <3>1, <3>2
    <2>5. Near(R)
      BY <1>2
    <2>6. 2 * (SumOf(h, R) - SumOf(f, R)) \in -(c * n - c)..(c * n - c)
      BY <2>3, <2>4, <2>5, Zenon
    <2>7. 2 * (h[x] - f[x]) \in -c..c
      OBVIOUS
    <2> HIDE DEF n, R
    <2>8. 2 * (SumOf(h, T) - SumOf(f, T)) \in -(c * n)..(c * n)
      BY <2>1, <2>2, <2>4, <2>6, <2>7
    <2> QED BY <2>8 DEF n
  <1> HIDE DEF Good
  <1>3. \A T \in SUBSET S : T \in Good
    BY ZenonT(60), <1>1, <1>2, SubsetInduction
  <1> QED BY <1>3 DEF Good

\* The sum over two sets without common elements is that of their sums.
THEOREM SumUnion ==
    ASSUME NEW S, IsFiniteSet(S), NEW f \in [S -> Int],
           NEW A \in SUBSET S, NEW B \in SUBSET S, A \cap B = {}
    PROVE  SumOf(f, A \cup B) = SumOf(f, A) + SumOf(f, B)
  <1> DEFINE Good == {T \in SUBSET A : SumOf(f, T \cup B) = SumOf(f, T) + SumOf(f, B)}
  <1>0. IsFiniteSet(A) /\ SumOf(f, B) \in Int
    BY FS_Subset, SumFacts
  <1>1. {} \in Good
    <2>1. {} \cup B = B /\ SumOf(f, {}) = 0
      BY SumFacts
    <2> QED BY <1>0, <2>1
  <1>2. ASSUME NEW T \in SUBSET A, NEW x \in T, T \ {x} \in Good PROVE T \in Good
    <2>1. SumOf(f, T) = f[x] + SumOf(f, T \ {x}) /\ SumOf(f, T \ {x}) \in Int /\ f[x] \in Int
      BY SumFacts
    <2>2. SumOf(f, T \cup B) = f[x] + SumOf(f, (T \cup B) \ {x})
      <3>1. T \cup B \in SUBSET S /\ x \in T \cup B
        OBVIOUS
      <3> QED BY <3>1, SumFacts
    <2>3. (T \cup B) \ {x} = (T \ {x}) \cup B
      OBVIOUS
    <2>4. SumOf(f, (T \ {x}) \cup B) = SumOf(f, T \ {x}) + SumOf(f, B)
      BY <1>2
    <2>5. SumOf(f, T \cup B) = f[x] + (SumOf(f, T \ {x}) + SumOf(f, B))
      BY <2>2, <2>3, <2>4, Zenon
    <2>6. \A a, c, d \in Int : a + (c + d) = (a + c) + d
      OBVIOUS
    <2>7. SumOf(f, T \cup B) = (f[x] + SumOf(f, T \ {x})) + SumOf(f, B)
      BY <1>0, <2>1, <2>5, <2>6, Zenon
    <2>8. SumOf(f, T \cup B) = SumOf(f, T) + SumOf(f, B)
      BY <2>1, <2>7, Zenon
    <2> QED BY <2>8
  <1> HIDE DEF Good
  <1>3. \A T \in SUBSET A : T \in Good
    <2>1. \A T \in SUBSET A : (\E x \in T : T \ {x} \in Good) \/ T = {} => T \in Good
      BY <1>1, <1>2
    <2> QED BY <1>0, <1>1, <2>1, SubsetInduction, Zenon
  <1> QED BY <1>3 DEF Good

\* Terms that are zero can be left out.
THEOREM SumPart ==
    ASSUME NEW S, IsFiniteSet(S), NEW f \in [S -> Int], NEW T \in SUBSET S,
           NEW g \in [T -> Int], \A x \in T : f[x] = g[x], \A x \in S \ T : f[x] = 0
    PROVE  SumOf(f, S) = SumOf(g, T)
  <1> DEFINE R == S \ T
             z == [x \in R |-> 0]
  <1>1. R \in SUBSET S /\ T \cap R = {} /\ T \cup R = S
    OBVIOUS
  <1>2. IsFiniteSet(T) /\ IsFiniteSet(R)
    BY FS_Subset
  <1>3. z \in [R -> Int] /\ \A x \in R : z[x] = 0 /\ f[x] = z[x]
    OBVIOUS
  <1> HIDE DEF R, z
  <1>4. SumOf(z, R) = 0 * Cardinality(R)
    BY <1>2, <1>3, SumConstant
  <1>5. SumOf(z, R) = 0
    BY <1>2, <1>4, FS_CardinalityType
  <1>6. SumOf(f, R) = SumOf(z, R)
    BY <1>1, <1>2, <1>3, SumSame
  <1>7. SumOf(f, T) = SumOf(g, T)
    BY <1>2, SumSame
  <1>8. SumOf(f, T \cup R) = SumOf(f, T) + SumOf(f, R)
    BY <1>1, SumUnion
  <1>9. SumOf(f, T) \in Int
    BY SumFacts
  <1>10. \A n \in Int : n + 0 = n
    OBVIOUS
  <1>11. SumOf(f, S) = SumOf(f, T) + 0
    BY <1>1, <1>5, <1>6, <1>8, Zenon
  <1> QED BY <1>7, <1>9, <1>10, <1>11, Zenon

\* Counting is adding ones.
THEOREM SumCount ==
    ASSUME NEW S, IsFiniteSet(S), NEW f \in [S -> Int], NEW T \in SUBSET S,
           \A x \in T : f[x] = 1, \A x \in S \ T : f[x] = 0
    PROVE  SumOf(f, S) = Cardinality(T)
  <1> DEFINE one == [x \in T |-> 1]
  <1>1. one \in [T -> Int] /\ \A x \in T : one[x] = 1 /\ f[x] = one[x]
    OBVIOUS
  <1>2. IsFiniteSet(T) /\ Cardinality(T) \in Nat
    BY FS_Subset, FS_CardinalityType
  <1> HIDE DEF one
  <1>3. SumOf(one, T) = 1 * Cardinality(T)
    BY <1>1, <1>2, SumConstant
  <1>4. SumOf(f, S) = SumOf(one, T)
    BY <1>1, SumPart
  <1> QED BY <1>2, <1>3, <1>4

\* One term can be taken out of a sum.
TakesOut(f, T, x) == SumOf(f, T) = f[x] + SumOf(f, T \ {x})

\* The same, for one element.
LEMMA SumTakeOut ==
    ASSUME NEW S, IsFiniteSet(S), NEW f \in [S -> Int], NEW T \in SUBSET S, NEW x \in T
    PROVE  TakesOut(f, T, x)
  BY SumFacts DEF TakesOut

\* A sum does not depend on what its terms are called.
THEOREM SumRenamed ==
    ASSUME NEW S, IsFiniteSet(S), NEW T, IsFiniteSet(T), NEW b \in Bijection(S, T),
           NEW f \in [S -> Int], NEW g \in [T -> Int], \A x \in S : f[x] = g[b[x]]
    PROVE  SumOf(f, S) = SumOf(g, T)
  <1>0. /\ b \in [S -> T] /\ \A x, y \in S : b[x] = b[y] => x = y
        /\ \A z \in T : \E x \in S : b[x] = z
    BY DEF Bijection, Injection, Surjection, IsInjective
  <1> DEFINE Im(U) == {b[x] : x \in U}
             Good == {U \in SUBSET S : SumOf(f, U) = SumOf(g, Im(U))}
  <1>1. {} \in Good
    <2>1. Im({}) = {}
      OBVIOUS
    <2> QED BY <2>1, SumFacts
  <1>2. ASSUME NEW U \in SUBSET S, NEW x \in U, U \ {x} \in Good PROVE U \in Good
    <2>1. SumOf(f, U) = f[x] + SumOf(f, U \ {x})
      BY SumFacts
    <2>2. Im(U) \in SUBSET T /\ b[x] \in Im(U) /\ Im(U) \ {b[x]} = Im(U \ {x})
      BY <1>0
    <2> HIDE DEF Im
    <2>3. SumOf(g, Im(U)) = g[b[x]] + SumOf(g, Im(U) \ {b[x]})
      <3>1. TakesOut(g, Im(U), b[x])
        BY <2>2, SumTakeOut, Zenon
      <3> QED BY <3>1 DEF TakesOut
    <2>4. SumOf(f, U \ {x}) = SumOf(g, Im(U \ {x})) /\ f[x] = g[b[x]]
      BY <1>2
    <2> QED BY <2>1, <2>2, <2>3, <2>4
  <1>3. Im(S) = T
    BY <1>0
  <1> HIDE DEF Good
  <1>4. \A U \in SUBSET S : U \in Good
    <2>1. \A U \in SUBSET S : (\E x \in U : U \ {x} \in Good) \/ U = {} => U \in Good
      BY <1>1, <1>2
    <2> QED BY <1>1, <2>1, SubsetInduction, Zenon
  <1>5. S \in Good
    BY <1>4
  <1> QED BY <1>3, <1>5 DEF Good

\* A sum is that of the sums of its groups.
THEOREM SumGrouped ==
    ASSUME NEW S, IsFiniteSet(S), NEW f \in [S -> Int], NEW K, IsFiniteSet(K),
           NEW key \in [S -> K], NEW t \in [K -> Int],
           \A j \in K : t[j] = SumOf(f, {x \in S : key[x] = j})
    PROVE  SumOf(t, K) = SumOf(f, S)
  <1> DEFINE In(T, j) == {x \in T : key[x] = j}
             Table(T) == [j \in K |-> SumOf(f, In(T, j))]
             Good == {T \in SUBSET S : SumOf(Table(T), K) = SumOf(f, T)}
  <1>1. \A T \in SUBSET S : /\ Table(T) \in [K -> Int]
                            /\ \A j \in K : In(T, j) \in SUBSET S
                                            /\ Table(T)[j] = SumOf(f, In(T, j))
    BY SumFacts
  <1>2. {} \in Good
    <2>1. \A j \in K : Table({})[j] = 0
      <3>1. \A j \in K : In({}, j) = {}
        OBVIOUS
      <3> QED BY <3>1, SumFacts
    <2>2. SumOf(Table({}), K) = 0 * Cardinality(K)
      <3>1. {} \in SUBSET S
        OBVIOUS
      <3>2. Table({}) \in [K -> Int]
        BY <1>1, <3>1
      <3> HIDE DEF Table
      <3> QED BY <2>1, <3>2, SumConstant
    <2>3. Cardinality(K) \in Nat
      BY FS_CardinalityType
    <2> HIDE DEF Table
    <2> QED BY <2>2, <2>3, SumFacts
  <1>3. ASSUME NEW T \in SUBSET S, NEW x \in T, T \ {x} \in Good PROVE T \in Good
    <2> DEFINE j == key[x]
               R == T \ {x}
    <2>1. /\ j \in K /\ R \in SUBSET S
          /\ x \in In(T, j) /\ In(T, j) \ {x} = In(R, j)
          /\ \A i \in K \ {j} : In(T, i) = In(R, i)
      OBVIOUS
    <2>2. /\ Table(T) \in [K -> Int] /\ Table(R) \in [K -> Int]
          /\ Table(T)[j] = SumOf(f, In(T, j)) /\ Table(R)[j] = SumOf(f, In(R, j))
          /\ \A i \in K \ {j} : Table(T)[i] = Table(R)[i]
          /\ In(T, j) \in SUBSET S
      BY <1>1, <2>1
    <2>3. SumOf(f, T) = f[x] + SumOf(f, R) /\ SumOf(f, R) \in Int /\ f[x] \in Int
      BY SumFacts
    <2> HIDE DEF Table, In, j, R
    <2>4. SumOf(f, In(T, j)) = f[x] + SumOf(f, In(R, j))
      BY <2>1, <2>2, SumFacts
    <2>5. /\ SumOf(Table(T), K) = Table(T)[j] + SumOf(Table(T), K \ {j})
          /\ SumOf(Table(R), K) = Table(R)[j] + SumOf(Table(R), K \ {j})
          /\ SumOf(Table(R), K \ {j}) \in Int /\ Table(R)[j] \in Int
      BY <2>1, <2>2, SumFacts
    <2>6. SumOf(Table(T), K \ {j}) = SumOf(Table(R), K \ {j})
      BY <2>2, SumSame
    <2>7. SumOf(Table(R), K) = SumOf(f, R)
      BY <1>3 DEF R
    <2>8. SumOf(Table(T), K) = SumOf(f, T)
      BY <2>2, <2>3, <2>4, <2>5, <2>6, <2>7
    <2> QED BY <2>8
  <1>4. \A T \in SUBSET S : T \in Good
    <2> HIDE DEF Good
    <2> QED BY ZenonT(60), <1>2, <1>3, SubsetInduction
  <1>5. S \in Good
    BY <1>4
  <1>6. \A j \in K : Table(S)[j] = t[j]
    OBVIOUS
  <1>7. Table(S) \in [K -> Int]
    BY <1>1
  <1>8. SumOf(Table(S), K) = SumOf(t, K)
    <2> HIDE DEF Table
    <2> QED BY <1>6, <1>7, SumSame
  <1> QED BY <1>5, <1>8
====
