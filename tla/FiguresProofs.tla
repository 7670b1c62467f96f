----------------------------- MODULE FiguresProofs -----------------------------
(***************************************************************************)
(* The components that compute figures, each for all values of its         *)
(* constants: the votes, timeframes and candle patterns the direction of an*)
(* order comes from (Votes, Frames, Patterns), the run over past candles   *)
(* that tries a strategy (Backtest) and the figures of the trades it made  *)
(* (Reports); and what the sums of the community modules add up to.        *)
(***************************************************************************)
EXTENDS Votes, Frames, Patterns, Backtest, Reports, ListsProofs

-----------------------------------------------------------------------------
(* Sums.  What SumFunctionOnSet of the community modules folds, by the least        *)
(* counterexample: the definition is a recursive function over subsets.             *)

\* The sum of a set by the sums of its subsets, as the fold takes them.
FirstOf(T) == CHOOSE x \in T : TRUE
RecursiveSum(f, S, g) ==
  g = [T \in SUBSET S |-> IF T = {} THEN 0 ELSE f[FirstOf(T)] + g[T \ {FirstOf(T)}]]

\* A sum is what some function that follows the recursion gives for the whole set.
LEMMA SumIsChosen ==
  ASSUME NEW f, NEW S
  PROVE  SumFunctionOnSet(f, S) = (CHOOSE g : RecursiveSum(f, S, g))[S]
BY DEF SumFunctionOnSet, FoldFunctionOnSet, MapThenFoldSet, RecursiveSum, FirstOf

\* The recursion as a statement about each subset.
FollowsSum(f, S, g) ==
  \A T \in SUBSET S : g[T] = IF T = {} THEN 0 ELSE f[FirstOf(T)] + g[T \ {FirstOf(T)}]

\* There is a function that follows the recursion, up to any size.
LEMMA SumsExist ==
  ASSUME NEW S, IsFiniteSet(S), NEW f \in [S -> Int]
  PROVE  \E g \in [SUBSET S -> Int] : FollowsSum(f, S, g)
<1> DEFINE Small(n) == {T \in SUBSET S : Cardinality(T) <= n}
           Up(g, T) == IF T = {} THEN 0 ELSE f[FirstOf(T)] + g[T \ {FirstOf(T)}]
           Good(n) == \E g \in [Small(n) -> Int] : \A T \in Small(n) : g[T] = Up(g, T)
           Bad == {n \in Nat : ~ Good(n)}
<1>1. ASSUME NEW T \in SUBSET S
      PROVE  /\ Cardinality(T) \in Nat /\ (Cardinality(T) = 0 <=> T = {})
             /\ T # {} => /\ FirstOf(T) \in T /\ T \ {FirstOf(T)} \in SUBSET S
                          /\ Cardinality(T \ {FirstOf(T)}) = Cardinality(T) - 1
  <2>1. IsFiniteSet(T)
    BY FS_Subset
  <2>2. Cardinality(T) \in Nat /\ (Cardinality(T) = 0 <=> T = {})
    BY <2>1, FS_CardinalityType, FS_EmptySet
  <2>3. ASSUME T # {}
        PROVE  FirstOf(T) \in T /\ T \ {FirstOf(T)} \in SUBSET S
    BY <2>3 DEF FirstOf
  <2>4. ASSUME T # {}
        PROVE  Cardinality(T \ {FirstOf(T)}) = Cardinality(T) - 1
    BY <2>1, <2>3, <2>4, FS_RemoveElement
  <2> QED
    BY <2>2, <2>3, <2>4
<1>2. Good(0)
  <2> DEFINE g == [T \in Small(0) |-> 0]
  <2>1. \A T \in Small(0) : T = {}
    <3> SUFFICES ASSUME NEW T \in Small(0) PROVE T = {}
      OBVIOUS
    <3>1. T \in SUBSET S /\ Cardinality(T) <= 0
      OBVIOUS
    <3>2. Cardinality(T) \in Nat
      BY <1>1, <3>1
    <3>3. Cardinality(T) = 0
      BY <3>1, <3>2
    <3> QED
      BY <1>1, <3>1, <3>3
  <2>2. g \in [Small(0) -> Int]
    OBVIOUS
  <2>3. \A T \in Small(0) : g[T] = Up(g, T)
    BY <2>1
  <2> HIDE DEF g
  <2> QED
    BY <2>2, <2>3
<1>3. ASSUME NEW n \in Nat, Good(n) PROVE Good(n + 1)
  <2>1. PICK g \in [Small(n) -> Int] : \A T \in Small(n) : g[T] = Up(g, T)
    BY <1>3
  <2> DEFINE h == [T \in Small(n + 1) |-> Up(g, T)]
  <2>2. ASSUME NEW T \in Small(n + 1), T # {}
        PROVE  T \ {FirstOf(T)} \in Small(n) /\ f[FirstOf(T)] \in Int
    <3>1. T \in SUBSET S /\ Cardinality(T) <= n + 1
      OBVIOUS
    <3>2. Cardinality(T \ {FirstOf(T)}) <= n
      BY <1>1, <2>2, <3>1
    <3> QED
      BY <1>1, <2>2, <3>1, <3>2
  <2>3. h \in [Small(n + 1) -> Int]
    <3> SUFFICES ASSUME NEW T \in Small(n + 1) PROVE Up(g, T) \in Int
      OBVIOUS
    <3>1. CASE T = {}
      BY <3>1
    <3>2. CASE T # {}
      <4>1. f[FirstOf(T)] \in Int /\ g[T \ {FirstOf(T)}] \in Int
        BY <2>1, <2>2, <3>2
      <4> HIDE DEF Small
      <4> QED
        BY <3>2, <4>1
    <3> QED
      BY <3>1, <3>2
  <2>4. \A T \in Small(n) : T \in Small(n + 1) /\ h[T] = g[T]
    <3> SUFFICES ASSUME NEW T \in Small(n) PROVE T \in Small(n + 1) /\ h[T] = g[T]
      OBVIOUS
    <3>1. T \in SUBSET S /\ Cardinality(T) <= n
      OBVIOUS
    <3>2. Cardinality(T) \in Nat
      BY <1>1, <3>1
    <3>3. Cardinality(T) <= n + 1
      BY <3>1, <3>2
    <3> QED
      BY <2>1, <3>1, <3>3
  <2>5. \A T \in Small(n + 1) : h[T] = Up(h, T)
    <3> SUFFICES ASSUME NEW T \in Small(n + 1) PROVE h[T] = Up(h, T)
      OBVIOUS
    <3>1. h[T] = Up(g, T)
      OBVIOUS
    <3>2. T # {} => h[T \ {FirstOf(T)}] = g[T \ {FirstOf(T)}]
      BY <2>2, <2>4
    <3> HIDE DEF h, Small
    <3> QED
      BY <3>1, <3>2
  <2> HIDE DEF h, Small
  <2> QED
    BY <2>3, <2>5
<1>4. \A n \in Nat : Good(n)
  <2> HIDE DEF Good
  <2>1. Bad = {}
    <3> SUFFICES ASSUME Bad # {} PROVE FALSE
      OBVIOUS
    <3>1. PICK n \in Bad : \A m \in Bad : n <= m
      BY LeastNumber
    <3>2. n \in Nat /\ n # 0 /\ ~ Good(n)
      BY <1>2
    <3>3. n - 1 \in Nat /\ n - 1 \notin Bad /\ n - 1 + 1 = n
      <4>1. n - 1 \in Nat /\ ~ (n <= n - 1) /\ n - 1 + 1 = n
        BY <3>2
      <4> HIDE DEF Bad
      <4> QED
        BY <3>1, <4>1
    <3>4. Good(n - 1)
      BY <3>3
    <3>5. Good(n - 1 + 1)
      BY <1>3, <3>3, <3>4
    <3> QED
      BY <3>2, <3>3, <3>5
  <2> QED
    BY <2>1
<1>5. Cardinality(S) \in Nat /\ Small(Cardinality(S)) = SUBSET S
  <2>1. \A T \in SUBSET S : Cardinality(T) <= Cardinality(S)
    BY FS_Subset
  <2> QED
    BY <2>1, FS_CardinalityType
<1> HIDE DEF Small
<1> QED
  BY ZenonT(30), <1>4, <1>5 DEF FollowsSum

\* Two such functions agree where both are defined.
LEMMA SumsAgree ==
  ASSUME NEW S, NEW f, NEW g, NEW R, NEW h,
         IsFiniteSet(S), R \in SUBSET S, FollowsSum(f, S, g), FollowsSum(f, R, h)
  PROVE  \A T \in SUBSET R : h[T] = g[T]
<1> DEFINE Bad == {T \in SUBSET R : h[T] # g[T]}
           Sizes == {Cardinality(T) : T \in Bad}
<1>1. ASSUME NEW T \in SUBSET R
      PROVE  IsFiniteSet(T) /\ Cardinality(T) \in Nat
  BY FS_Subset, FS_CardinalityType
<1>2. Bad = {}
  <2> SUFFICES ASSUME Bad # {} PROVE FALSE
    OBVIOUS
  <2>1. Sizes # {} /\ Sizes \subseteq Nat
    BY <1>1
  <2>2. PICK n \in Sizes : \A m \in Sizes : n <= m
    <3> HIDE DEF Sizes
    <3> QED BY <2>1, LeastNumber
  <2>3. PICK T \in Bad : n = Cardinality(T)
    BY <2>2
  <2>4. T \in SUBSET R /\ h[T] # g[T] /\ T \in SUBSET S
    OBVIOUS
  <2>5. T # {}
    BY <2>4 DEF FollowsSum
  <2>6. FirstOf(T) \in T
    BY <2>5 DEF FirstOf
  <2> DEFINE U == T \ {FirstOf(T)}
  <2>7. U \in SUBSET R /\ Cardinality(U) = n - 1 /\ n \in Nat
    BY <1>1, <2>3, <2>4, <2>6, FS_RemoveElement
  <2>8. h[U] # g[U]
    BY <2>4, <2>5 DEF FollowsSum
  <2>9. n - 1 \in Sizes
    BY <2>7, <2>8
  <2> HIDE DEF Sizes
  <2> QED
    BY <2>2, <2>7, <2>9
<1> QED
  BY <1>2

\* Numbers by the elements of a set.
Numbers(f, S) == f \in [S -> Int]
\* A sum takes whatever element first.
TakesAny(f, S, g) == \A T \in SUBSET S : \A x \in T : g[T] = f[x] + g[T \ {x}]

\* Whatever element comes first, the sum is the same.
LEMMA SumsTakeAny ==
  ASSUME NEW S, NEW f, NEW g,
         IsFiniteSet(S), Numbers(f, S), Numbers(g, SUBSET S), FollowsSum(f, S, g)
  PROVE  TakesAny(f, S, g)
<1> USE DEF Numbers
<1> DEFINE Bad == {T \in SUBSET S : \E x \in T : g[T] # f[x] + g[T \ {x}]}
           Sizes == {Cardinality(T) : T \in Bad}
<1>1. ASSUME NEW T \in SUBSET S
      PROVE  IsFiniteSet(T) /\ Cardinality(T) \in Nat
  BY FS_Subset, FS_CardinalityType
<1>2. Bad = {}
  <2> SUFFICES ASSUME Bad # {} PROVE FALSE
    OBVIOUS
  <2>1. Sizes # {} /\ Sizes \subseteq Nat
    BY <1>1
  <2>2. PICK n \in Sizes : \A m \in Sizes : n <= m
    <3> HIDE DEF Sizes
    <3> QED BY <2>1, LeastNumber
  <2>3. PICK T \in Bad : n = Cardinality(T)
    BY <2>2
  <2>4. PICK x \in T : g[T] # f[x] + g[T \ {x}]
    OBVIOUS
  <2>5. PICK y : y = FirstOf(T)
    OBVIOUS
  <2>6. T \in SUBSET S /\ y \in T /\ g[T] = f[y] + g[T \ {y}]
    BY <2>4, <2>5 DEF FollowsSum, FirstOf
  <2>7. x # y
    BY <2>4, <2>6
  <2>8. ASSUME NEW z \in T
        PROVE  T \ {z} \in SUBSET S /\ T \ {z} \notin Bad
    <3>1. T \ {z} \in SUBSET S /\ Cardinality(T \ {z}) = n - 1 /\ n \in Nat
      BY <1>1, <2>3, <2>6, FS_RemoveElement
    <3>2. n - 1 \notin Sizes
      <4> HIDE DEF Sizes
      <4> QED BY <2>2, <3>1
    <3> QED
      BY <3>1, <3>2
  <2>9. g[T \ {y}] = f[x] + g[(T \ {y}) \ {x}]
    BY <2>6, <2>7, <2>8
  <2>10. g[T \ {x}] = f[y] + g[(T \ {x}) \ {y}]
    BY <2>6, <2>7, <2>8
  <2>11. (T \ {y}) \ {x} = (T \ {x}) \ {y} /\ (T \ {x}) \ {y} \in SUBSET S
    BY <2>6
  <2>12. PICK k \in Int : k = g[(T \ {x}) \ {y}]
    BY <2>11
  <2>13. f[x] \in Int /\ f[y] \in Int
    BY <2>4, <2>6
  <2>14. g[T] = f[y] + (f[x] + k) /\ g[T \ {x}] = f[y] + k
    BY <2>6, <2>9, <2>10, <2>11, <2>12
  <2>15. f[y] + (f[x] + k) = f[x] + (f[y] + k)
    BY <2>12, <2>13
  <2> QED
    BY <2>4, <2>14, <2>15
<1> QED
  BY <1>2 DEF TakesAny

\* The sum of no numbers is 0, and the sum of some is any of them and the sum of the rest.
LEMMA SumOnSet ==
  ASSUME NEW S, IsFiniteSet(S), NEW f \in [S -> Int]
  PROVE  /\ SumFunctionOnSet(f, {}) = 0
         /\ \A T \in SUBSET S : SumFunctionOnSet(f, T) \in Int
         /\ \A T \in SUBSET S : \A x \in T :
              SumFunctionOnSet(f, T) = f[x] + SumFunctionOnSet(f, T \ {x})
<1>1. PICK g \in [SUBSET S -> Int] : FollowsSum(f, S, g)
  BY SumsExist
<1>2. ASSUME NEW T \in SUBSET S
      PROVE  SumFunctionOnSet(f, T) = g[T]
  <2> DEFINE h == CHOOSE h : RecursiveSum(f, T, h)
             r == [U \in SUBSET T |-> g[U]]
  <2>1. RecursiveSum(f, T, r)
    <3>1. ASSUME NEW U \in SUBSET T
          PROVE  r[U] = IF U = {} THEN 0 ELSE f[FirstOf(U)] + r[U \ {FirstOf(U)}]
      <4>1. U \in SUBSET S /\ U \ {FirstOf(U)} \in SUBSET T
        OBVIOUS
      <4>2. g[U] = IF U = {} THEN 0 ELSE f[FirstOf(U)] + g[U \ {FirstOf(U)}]
        BY <1>1, <4>1 DEF FollowsSum
      <4> QED
        BY <4>1, <4>2
    <3>2. r = [U \in SUBSET T |-> r[U]]
      OBVIOUS
    <3> HIDE DEF r
    <3> QED
      BY <3>1, <3>2 DEF RecursiveSum
  <2>2. RecursiveSum(f, T, h)
    BY <2>1
  <2> HIDE DEF h
  <2>3. FollowsSum(f, T, h)
    BY <2>2 DEF RecursiveSum, FollowsSum
  <2>4. h[T] = g[T]
    <3>1. FollowsSum(f, S, g) /\ T \in SUBSET T
      BY <1>1
    <3>2. \A U \in SUBSET T : h[U] = g[U]
      BY <2>3, <3>1, SumsAgree
    <3> QED
      BY <3>1, <3>2
  <2> QED
    BY <2>4, SumIsChosen DEF h
<1>3. g[{}] = 0
  BY <1>1 DEF FollowsSum
<1>4. TakesAny(f, S, g)
  <2>1. IsFiniteSet(S) /\ Numbers(f, S) /\ Numbers(g, SUBSET S) /\ FollowsSum(f, S, g)
    BY <1>1 DEF Numbers
  <2> QED
    BY <2>1, SumsTakeAny
<1>5. \A T \in SUBSET S : \A x \in T : T \ {x} \in SUBSET S
  OBVIOUS
<1>6. \A T \in SUBSET S : \A x \in T : g[T] = f[x] + g[T \ {x}]
  BY <1>4 DEF TakesAny
<1> QED
  BY <1>1, <1>2, <1>3, <1>5, <1>6

\* The sum depends on the numbers of its elements alone.
LEMMA SumAgrees ==
  ASSUME NEW S, IsFiniteSet(S), NEW f \in [S -> Int],
         NEW R, IsFiniteSet(R), NEW g \in [R -> Int],
         NEW T, T \in SUBSET S, T \in SUBSET R, \A x \in T : f[x] = g[x]
  PROVE  SumFunctionOnSet(f, T) = SumFunctionOnSet(g, T)
<1> DEFINE Bad == {U \in SUBSET T : SumFunctionOnSet(f, U) # SumFunctionOnSet(g, U)}
           Sizes == {Cardinality(U) : U \in Bad}
<1>1. ASSUME NEW U \in SUBSET T
      PROVE  IsFiniteSet(U) /\ Cardinality(U) \in Nat /\ U \in SUBSET S /\ U \in SUBSET R
  BY FS_Subset, FS_CardinalityType
<1>2. ASSUME NEW U \in SUBSET T, NEW x \in U
      PROVE  /\ SumFunctionOnSet(f, U) = f[x] + SumFunctionOnSet(f, U \ {x})
             /\ SumFunctionOnSet(g, U) = g[x] + SumFunctionOnSet(g, U \ {x})
  BY <1>1, SumOnSet
<1>3. SumFunctionOnSet(f, {}) = SumFunctionOnSet(g, {})
  BY SumOnSet
<1>4. Bad = {}
  <2> SUFFICES ASSUME Bad # {} PROVE FALSE
    OBVIOUS
  <2>1. Sizes # {} /\ Sizes \subseteq Nat
    BY <1>1
  <2>2. PICK n \in Sizes : \A m \in Sizes : n <= m
    <3> HIDE DEF Sizes
    <3> QED BY <2>1, LeastNumber
  <2>3. PICK U \in Bad : n = Cardinality(U)
    BY <2>2
  <2>4. U \in SUBSET T /\ U \in SUBSET S /\ U # {} /\ n \in Nat
    BY <1>1, <1>3, <2>3
  <2>5. PICK x \in U : TRUE
    BY <2>4
  <2>6. U \ {x} \in SUBSET T /\ Cardinality(U \ {x}) = n - 1
    BY <1>1, <2>3, <2>4, <2>5, FS_RemoveElement
  <2>7. n - 1 \notin Sizes
    <3> HIDE DEF Sizes
    <3> QED BY <2>2, <2>4
  <2>8. SumFunctionOnSet(f, U \ {x}) = SumFunctionOnSet(g, U \ {x})
    BY <2>6, <2>7
  <2>9. f[x] = g[x]
    BY <2>4, <2>5
  <2>10. SumFunctionOnSet(f, U) = SumFunctionOnSet(g, U)
    <3>1. /\ SumFunctionOnSet(f, U) = f[x] + SumFunctionOnSet(f, U \ {x})
          /\ SumFunctionOnSet(g, U) = g[x] + SumFunctionOnSet(g, U \ {x})
      BY <1>2, <2>4, <2>5
    <3> QED
      BY <2>8, <2>9, <3>1
  <2> QED
    BY <2>3, <2>10
<1> QED
  BY <1>4

\* The sum over two parts is the sum of their sums.
LEMMA SumOfParts ==
  ASSUME NEW S, IsFiniteSet(S), NEW f \in [S -> Int],
         NEW A \in SUBSET S, NEW B \in SUBSET S, A \cap B = {}
  PROVE  SumFunctionOnSet(f, A \cup B) = SumFunctionOnSet(f, A) + SumFunctionOnSet(f, B)
<1> DEFINE Sum(T) == SumFunctionOnSet(f, T)
           Bad == {T \in SUBSET B : Sum(A \cup T) # Sum(A) + Sum(T)}
           Sizes == {Cardinality(T) : T \in Bad}
<1>1. /\ Sum({}) = 0
      /\ \A T \in SUBSET S : Sum(T) \in Int
  BY SumOnSet
<1>2. ASSUME NEW T \in SUBSET S, NEW x \in T
      PROVE  Sum(T) = f[x] + Sum(T \ {x})
  BY SumOnSet
<1> HIDE DEF Sum
<1>3. ASSUME NEW T \in SUBSET B
      PROVE  IsFiniteSet(T) /\ Cardinality(T) \in Nat /\ T \in SUBSET S /\ A \cup T \in SUBSET S
  <2>1. IsFiniteSet(B)
    BY FS_Subset
  <2> QED
    BY <2>1, FS_Subset, FS_CardinalityType
<1>4. Bad = {}
  <2> SUFFICES ASSUME Bad # {} PROVE FALSE
    OBVIOUS
  <2>1. Sizes # {} /\ Sizes \subseteq Nat
    BY ZenonT(30), <1>3
  <2>2. PICK n \in Sizes : \A m \in Sizes : n <= m
    <3> HIDE DEF Sizes
    <3> QED BY <2>1, LeastNumber
  <2>3. PICK T \in Bad : n = Cardinality(T)
    BY <2>2
  <2>4. T \in SUBSET B /\ T # {} /\ n \in Nat
    <3>1. A \cup {} = A /\ Sum(A) \in Int
      BY <1>1
    <3>2. Sum(A \cup {}) = Sum(A) + Sum({})
      BY <1>1, <3>1
    <3> QED
      BY <1>3, <2>3, <3>2
  <2>5. PICK x \in T : TRUE
    BY <2>4
  <2>6. PICK U : U = T \ {x} /\ U \in SUBSET B /\ Cardinality(U) = n - 1
    BY <1>3, <2>3, <2>4, <2>5, FS_RemoveElement
  <2>7. n - 1 \notin Sizes
    <3> HIDE DEF Sizes
    <3> QED BY <2>2, <2>4
  <2>8. Sum(A \cup U) = Sum(A) + Sum(U)
    BY <2>6, <2>7
  <2>9. /\ A \cup T \in SUBSET S /\ x \in A \cup T /\ (A \cup T) \ {x} = A \cup U
        /\ T \in SUBSET S /\ x \in B /\ x \in S
    BY <1>3, <2>4, <2>5, <2>6
  <2>10. Sum(A \cup T) = f[x] + Sum(A \cup U) /\ Sum(T) = f[x] + Sum(U)
    BY <1>2, <2>5, <2>6, <2>9
  <2>11. f[x] \in Int /\ Sum(A) \in Int /\ Sum(U) \in Int
    BY <1>1, <1>3, <2>6, <2>9
  <2> QED
    BY <2>3, <2>8, <2>10, <2>11
<1>5. Sum(A \cup B) = Sum(A) + Sum(B)
  BY <1>4
<1> QED
  BY <1>5 DEF Sum

\* The sum of equal numbers is their number times them.
LEMMA SumOfEqual ==
  ASSUME NEW S, IsFiniteSet(S), NEW f \in [S -> Int], NEW v \in Int,
         NEW A \in SUBSET S, \A x \in A : f[x] = v
  PROVE  SumFunctionOnSet(f, A) = Cardinality(A) * v
<1> DEFINE Sum(T) == SumFunctionOnSet(f, T)
           Bad == {T \in SUBSET A : Sum(T) # Cardinality(T) * v}
           Sizes == {Cardinality(T) : T \in Bad}
<1>1. Sum({}) = 0 /\ Cardinality({}) = 0
  BY SumOnSet, FS_EmptySet
<1>2. ASSUME NEW T \in SUBSET A, NEW x \in T
      PROVE  Sum(T) = v + Sum(T \ {x})
  <2>1. Sum(T) = f[x] + Sum(T \ {x})
    BY SumOnSet
  <2> QED
    BY <2>1
<1> HIDE DEF Sum
<1>3. ASSUME NEW T \in SUBSET A
      PROVE  IsFiniteSet(T) /\ Cardinality(T) \in Nat
  BY FS_Subset, FS_CardinalityType
<1>4. Bad = {}
  <2> SUFFICES ASSUME Bad # {} PROVE FALSE
    OBVIOUS
  <2>1. Sizes # {} /\ Sizes \subseteq Nat
    BY <1>3
  <2>2. PICK n \in Sizes : \A m \in Sizes : n <= m
    <3> HIDE DEF Sizes
    <3> QED BY <2>1, LeastNumber
  <2>3. PICK T \in Bad : n = Cardinality(T)
    BY <2>2
  <2>4. T \in SUBSET A /\ T # {} /\ n \in Nat
    <3>1. 0 * v = 0
      OBVIOUS
    <3> QED
      BY <1>1, <1>3, <2>3, <3>1
  <2>5. PICK x \in T : TRUE
    BY <2>4
  <2>6. PICK U : U = T \ {x} /\ U \in SUBSET A /\ Cardinality(U) = n - 1
    BY <1>3, <2>3, <2>4, <2>5, FS_RemoveElement
  <2>7. n - 1 \notin Sizes
    <3> HIDE DEF Sizes
    <3> QED BY <2>2, <2>4
  <2>8. Sum(U) = (n - 1) * v
    BY <2>6, <2>7
  <2>9. Sum(T) = v + Sum(U)
    BY <1>2, <2>4, <2>5, <2>6
  <2>10. v + (n - 1) * v = n * v
    BY <2>4
  <2>11. Sum(T) = Cardinality(T) * v
    BY <2>3, <2>8, <2>9, <2>10
  <2> QED
    BY <2>3, <2>11
<1> QED
  BY <1>4 DEF Sum

-----------------------------------------------------------------------------
(* Votes.  The verdict is that of the opinions it was made of, so that both parts   *)
(* are about one verdict; the sums of confidences are those of the section above.   *)

\* What Boosts makes of a verdict.
Boosted(v) ==
  LET score == UpTo100(v.score + ServerBoost)
  IN IF indicators = NoDict \/ v.direction = "HOLD" \/ ParseServerDirection # v.direction THEN v
     ELSE [v EXCEPT !.score = score,
             !.actionable = v.agreement >= MinAgreement /\ score >= MinScore]

\* The opinions and the dict have their types, the verdict is that of all opinions,
\* and the final one is the verdict boosted.
VotesIInv ==
  /\ opinions \in [Advisors -> Opinions \cup {Failed, Unheard}]
  /\ indicators \in [Indicators -> Said] \cup {ErrorDict, NoDict}
  /\ verdict # Pending => /\ \A s \in Advisors : opinions[s] # Unheard
                          /\ verdict = Verdict(opinions)
  /\ final # Pending => verdict # Pending /\ final = Boosted(verdict)

\* Every operation of the consensus keeps it.
LEMMA VotesInductive ==
  ASSUME VotesIInv, [VotesNext]_voteVars
  PROVE  VotesIInv'
<1>1. ASSUME NEW s \in Advisors, Analyze(s)
      PROVE  VotesIInv'
  <2>1. verdict = Pending /\ final = Pending
    BY <1>1 DEF Analyze, VotesIInv
  <2>2. opinions' \in [Advisors -> Opinions \cup {Failed, Unheard}]
    BY <1>1 DEF Analyze, VotesIInv
  <2> QED
    BY <1>1, <2>1, <2>2 DEF Analyze, VotesIInv
<1>2. CASE Evaluate
  <2>1. final = Pending /\ final' = Pending
    BY <1>2 DEF Evaluate, VotesIInv
  <2>2. UNCHANGED <<opinions, indicators>> /\ verdict' = Verdict(opinions)
    BY <1>2 DEF Evaluate
  <2>3. \A s \in Advisors : opinions[s] # Unheard
    BY <1>2 DEF Evaluate
  <2>4. Verdict(opinions)' = Verdict(opinions)
    BY <2>2 DEF Verdict, Participating, Voting, Winner, Weight
  <2> QED
    BY <2>1, <2>2, <2>3, <2>4 DEF VotesIInv
<1>3. CASE Boosts
  <2>1. UNCHANGED <<opinions, indicators, verdict>> /\ verdict # Pending
    BY <1>3 DEF Boosts
  <2>2. final' = Boosted(verdict)
    BY <1>3 DEF Boosts, Boosted
  <2>3. Boosted(verdict)' = Boosted(verdict) /\ Verdict(opinions)' = Verdict(opinions)
    BY <2>1 DEF Boosted, ParseServerDirection, Saying, Verdict, Participating, Voting, Winner, Weight
  <2> QED
    BY <2>1, <2>2, <2>3 DEF VotesIInv
<1>4. CASE UNCHANGED voteVars
  <2>1. UNCHANGED <<opinions, indicators, verdict, final>>
    BY <1>4 DEF voteVars
  <2>2. Boosted(verdict)' = Boosted(verdict) /\ Verdict(opinions)' = Verdict(opinions)
    BY <2>1 DEF Boosted, ParseServerDirection, Saying, Verdict, Participating, Voting, Winner, Weight
  <2> QED
    BY <2>1, <2>2 DEF VotesIInv
<1> QED
  BY <1>1, <1>2, <1>3, <1>4 DEF VotesNext

\* What is at least a whole number of percent is so when it is rounded.
LEMMA RoundedAtLeast ==
  ASSUME NEW a \in Int, NEW b \in Nat, b > 0, NEW m \in Nat, a >= m * b
  PROVE  Rounded(a, b) >= m /\ Rounded(a, b) \in Int
<1>1. m * b \in Nat
  OBVIOUS
<1>2. 2 * a + b >= m * (2 * b) /\ 2 * a + b \in Nat /\ 2 * b \in Nat /\ 2 * b > 0
  BY <1>1
<1>3. \A n \in Nat, d \in Nat : d > 0 /\ n >= m * d => n \div d >= m /\ n \div d \in Int
  OBVIOUS
<1> QED
  BY <1>2, <1>3 DEF Rounded

\* Those who vote are some of the strategies, a whole number of them.
LEMMA VotersCounted ==
  ASSUME NEW ops, NEW d
  PROVE  /\ Voting(ops, d) \in SUBSET Advisors /\ Participating(ops) \in SUBSET Advisors
         /\ IsFiniteSet(Voting(ops, d)) /\ IsFiniteSet(Participating(ops))
         /\ Cardinality(Voting(ops, d)) \in Nat /\ Cardinality(Participating(ops)) \in Nat
         /\ d \in Directions => /\ Voting(ops, d) \subseteq Participating(ops)
                                /\ Cardinality(Voting(ops, d)) <= Cardinality(Participating(ops))
<1>1. Voting(ops, d) \in SUBSET Advisors /\ Participating(ops) \in SUBSET Advisors
  BY DEF Voting, Participating
<1>2. IsFiniteSet(Voting(ops, d)) /\ IsFiniteSet(Participating(ops))
  BY <1>1, VotesAssumption, FS_Subset
<1>3. d \in Directions => Voting(ops, d) \in SUBSET Participating(ops)
  BY DEF Voting, Participating
<1> QED
  BY <1>1, <1>2, <1>3, FS_Subset, FS_CardinalityType

\* What a strategy is worth is a number, and nothing if it was not heard.
LEMMA ConfidenceType ==
  ASSUME NEW o \in Opinions \cup {Failed, Unheard}
  PROVE  o.confidence \in Int
<1>1. \A c \in Confidences : c \in Int
  BY VotesAssumption
<1>2. CASE o \in Opinions
  BY <1>1, <1>2 DEF Opinions
<1>3. CASE o \in {Failed, Unheard}
  BY <1>3 DEF Failed, Unheard
<1> QED
  BY <1>2, <1>3

\* The weight of some voters is a number, and that of one more is more by what that
\* one says.
LEMMA WeightOfVoters ==
  ASSUME NEW ops \in [Advisors -> Opinions \cup {Failed, Unheard}]
  PROVE  /\ \A V \in SUBSET Advisors : Weight(ops, V) \in Int
         /\ \A V \in SUBSET Advisors : \A s \in V :
              Weight(ops, V) = ops[s].confidence + Weight(ops, V \ {s})
<1> DEFINE f == [s \in Advisors |-> ops[s].confidence]
<1>1. \A s \in Advisors : ops[s].confidence \in Int
  <2> SUFFICES ASSUME NEW s \in Advisors PROVE ops[s].confidence \in Int
    OBVIOUS
  <2>1. ops[s] \in Opinions \cup {Failed, Unheard}
    OBVIOUS
  <2> QED
    BY <2>1, ConfidenceType
<1>2. f \in [Advisors -> Int]
  BY <1>1
<1>3. \A s \in Advisors : f[s] = ops[s].confidence
  OBVIOUS
<1>4. \A V : Weight(ops, V) = SumFunctionOnSet(f, V)
  BY DEF Weight
<1> HIDE DEF f
<1>5. /\ \A V \in SUBSET Advisors : SumFunctionOnSet(f, V) \in Int
      /\ \A V \in SUBSET Advisors : \A s \in V :
           SumFunctionOnSet(f, V) = f[s] + SumFunctionOnSet(f, V \ {s})
  BY <1>2, VotesAssumption, SumOnSet
<1>6. ASSUME NEW V \in SUBSET Advisors, NEW s \in V
      PROVE  Weight(ops, V) = ops[s].confidence + Weight(ops, V \ {s})
  BY <1>3, <1>4, <1>5
<1> QED
  BY <1>4, <1>5, <1>6

\* Nobody else's confidence has a part in the weight of some voters.
LEMMA WeightOfOthers ==
  ASSUME NEW ops \in [Advisors -> Opinions \cup {Failed, Unheard}],
         NEW more \in [Advisors -> Opinions \cup {Failed, Unheard}],
         NEW V \in SUBSET Advisors, \A s \in V : more[s] = ops[s]
  PROVE  Weight(more, V) = Weight(ops, V)
<1> DEFINE f == [s \in Advisors |-> ops[s].confidence]
           g == [s \in Advisors |-> more[s].confidence]
<1>1. \A o \in Opinions \cup {Failed, Unheard} : o.confidence \in Int
  BY ConfidenceType
<1>2. f \in [Advisors -> Int] /\ g \in [Advisors -> Int]
  BY <1>1
<1>3. \A s \in V : f[s] = g[s]
  OBVIOUS
<1>4. Weight(ops, V) = SumFunctionOnSet(f, V) /\ Weight(more, V) = SumFunctionOnSet(g, V)
  BY DEF Weight
<1> HIDE DEF f, g
<1> QED
  BY <1>2, <1>3, <1>4, VotesAssumption, SumAgrees

\* Strategy s came over to the winners, d, with confidence c.
OneMoreWinner(ops, turned, d, s, c) ==
  /\ turned \in [Advisors -> Opinions \cup {Failed, Unheard}]
  /\ Winner(turned) = d
  /\ Voting(turned, d) = Voting(ops, d) \cup {s}
  /\ Cardinality(Voting(turned, d)) = Cardinality(Voting(ops, d)) + 1
  /\ Participating(turned) = Participating(ops) \cup {s}
  /\ Cardinality(Participating(turned)) <= Cardinality(Participating(ops)) + 1
  /\ Weight(turned, Voting(turned, d)) = Weight(ops, Voting(ops, d)) + c

\* With one more of their opinion the winners still win, and nobody is left out.
LEMMA WinnersGrow ==
  ASSUME NEW ops \in [Advisors -> Opinions \cup {Failed, Unheard}],
         NEW d \in {"CALL", "PUT"}, Winner(ops) = d,
         NEW s \in Advisors, s \notin Voting(ops, d),
         NEW c \in Confidences,
         NEW turned, turned = [ops EXCEPT ![s] = [direction |-> d, confidence |-> c]]
  PROVE  OneMoreWinner(ops, turned, d, s, c)
<1>1. [direction |-> d, confidence |-> c] \in Opinions
  BY DEF Opinions, Directions
<1>2. /\ turned \in [Advisors -> Opinions \cup {Failed, Unheard}]
      /\ turned[s].direction = d /\ turned[s].confidence = c
      /\ \A r \in Advisors : r # s => turned[r] = ops[r]
  BY <1>1
<1>3. /\ Voting(turned, d) = Voting(ops, d) \cup {s}
      /\ Participating(turned) = Participating(ops) \cup {s}
      /\ \A e : e # d => Voting(turned, e) \in SUBSET Voting(ops, e)
  BY <1>2 DEF Voting, Participating, Directions
<1>4. Cardinality(Voting(turned, d)) = Cardinality(Voting(ops, d)) + 1
  BY ZenonT(30), <1>3, VotersCounted, FS_AddElement
<1>5. Cardinality(Participating(turned)) <= Cardinality(Participating(ops)) + 1
  <2>1. IsFiniteSet(Participating(ops)) /\ Cardinality(Participating(ops)) \in Nat
    BY VotersCounted
  <2>2. CASE s \in Participating(ops)
    <3>1. Participating(turned) = Participating(ops)
      BY ZenonT(30), <1>3, <2>2
    <3> QED
      BY <2>1, <3>1
  <2>3. CASE s \notin Participating(ops)
    <3>1. PICK P : P = Participating(ops)
      OBVIOUS
    <3>2. Cardinality(P \cup {s}) = Cardinality(P) + 1
      BY <2>1, <2>3, <3>1, FS_AddElement
    <3>3. Cardinality(Participating(turned)) = Cardinality(P) + 1
      BY <1>3, <3>1, <3>2
    <3> QED
      BY <2>1, <3>1, <3>3
  <2> QED
    BY <2>2, <2>3
<1>6. ASSUME NEW e, e # d
      PROVE  Cardinality(Voting(turned, e)) <= Cardinality(Voting(ops, e))
  BY <1>3, <1>6, VotersCounted, FS_Subset
<1>7. Winner(turned) = d
  <2>1. CASE d = "CALL"
    <3>1. /\ Cardinality(Voting(ops, "CALL")) \in Nat /\ Cardinality(Voting(ops, "PUT")) \in Nat
          /\ Cardinality(Voting(turned, "PUT")) \in Nat
      BY VotersCounted
    <3>2. Cardinality(Voting(ops, "CALL")) > Cardinality(Voting(ops, "PUT"))
      BY <2>1, <3>1 DEF Winner, Majority
    <3>3. Cardinality(Voting(turned, "PUT")) <= Cardinality(Voting(ops, "PUT"))
      BY <1>6, <2>1
    <3>4. Cardinality(Voting(turned, "CALL")) > Cardinality(Voting(turned, "PUT"))
      BY <1>4, <2>1, <3>1, <3>2, <3>3
    <3> QED
      BY <2>1, <3>4 DEF Winner, Majority
  <2>2. CASE d = "PUT"
    <3>1. /\ Cardinality(Voting(ops, "CALL")) \in Nat /\ Cardinality(Voting(ops, "PUT")) \in Nat
          /\ Cardinality(Voting(turned, "CALL")) \in Nat
      BY VotersCounted
    <3>2. Cardinality(Voting(ops, "PUT")) > Cardinality(Voting(ops, "CALL"))
      BY <2>2, <3>1 DEF Winner, Majority
    <3>3. Cardinality(Voting(turned, "CALL")) <= Cardinality(Voting(ops, "CALL"))
      BY <1>6, <2>2
    <3>4. /\ Cardinality(Voting(turned, "PUT")) > Cardinality(Voting(turned, "CALL"))
          /\ ~ (Cardinality(Voting(turned, "CALL")) > Cardinality(Voting(turned, "PUT")))
      BY <1>4, <2>2, <3>1, <3>2, <3>3
    <3> QED
      BY <2>2, <3>4 DEF Winner, Majority
  <2> QED
    BY <2>1, <2>2
<1>8. Weight(turned, Voting(turned, d)) = Weight(ops, Voting(ops, d)) + c
  <2>0. PICK V : V = Voting(ops, d)
    OBVIOUS
  <2>1. /\ V \in SUBSET Advisors /\ Voting(turned, d) \in SUBSET Advisors
        /\ s \in Voting(turned, d) /\ Voting(turned, d) \ {s} = V
    BY <1>3, <2>0, VotersCounted
  <2>2. Weight(turned, Voting(turned, d)) = c + Weight(turned, V)
    <3>1. \A U \in SUBSET Advisors : \A r \in U :
            Weight(turned, U) = turned[r].confidence + Weight(turned, U \ {r})
      BY <1>2, WeightOfVoters
    <3>2. Weight(turned, Voting(turned, d)) =
            turned[s].confidence + Weight(turned, Voting(turned, d) \ {s})
      BY <2>1, <3>1
    <3> QED
      BY <1>2, <2>1, <3>2
  <2>3. Weight(turned, V) = Weight(ops, V)
    <3>1. \A r \in V : turned[r] = ops[r]
      BY <1>2, <2>0, <2>1
    <3>2. turned \in [Advisors -> Opinions \cup {Failed, Unheard}] /\ V \in SUBSET Advisors
      BY <1>2, <2>1
    <3> QED
      BY ZenonT(30), <3>1, <3>2, WeightOfOthers
  <2>4. Weight(ops, V) \in Int /\ c \in Int
    BY <2>1, WeightOfVoters, VotesAssumption
  <2>5. Weight(turned, Voting(turned, d)) = Weight(ops, V) + c
    BY <2>2, <2>3, <2>4
  <2> QED
    BY <2>0, <2>5
<1> QED
  BY <1>2, <1>3, <1>4, <1>5, <1>7, <1>8 DEF OneMoreWinner

\* One more winner, no less confident than the others, and at most one more of all,
\* do not make a share of at least so many percent smaller.
LEMMA SharesKeep ==
  ASSUME NEW n \in Nat, n >= 1, NEW all \in Nat, n <= all, NEW w \in Int, NEW c \in 0 .. 100,
         NEW a \in 0 .. 100, NEW m \in 0 .. 100, NEW more \in Nat, more <= all + 1,
         100 * n >= a * all, w >= m * all, c * n >= w
  PROVE  100 * (n + 1) >= a * more /\ w + c >= m * more
<1>1. a * more <= a * (all + 1) /\ m * more <= m * (all + 1)
  <2>1. \A x, y, z \in Nat : y <= z => x * y <= x * z
    OBVIOUS
  <2> QED
    BY <2>1
<1>2. a * (all + 1) = a * all + a /\ m * (all + 1) = m * all + m /\ a * all \in Nat /\ m * all \in Nat
  OBVIOUS
<1>3. c >= m
  <2>1. c * n >= m * n
    <3>1. m * n <= m * all /\ m * n \in Nat /\ c * n \in Nat
      <4>1. \A x, y, z \in Nat : y <= z => x * y <= x * z
        OBVIOUS
      <4> QED
        BY <4>1
    <3> QED
      BY <1>2, <3>1
  <2>2. \A x, y, z \in Nat : z >= 1 /\ x * z >= y * z => x >= y
    OBVIOUS
  <2> QED
    BY <2>1, <2>2
<1>4. a * more \in Nat /\ m * more \in Nat
  OBVIOUS
<1> QED
  BY <1>1, <1>2, <1>3, <1>4

\* An actionable verdict is for the winner, and its shares are above the limits.
LEMMA ActionableVerdict ==
  ASSUME NEW ops \in [Advisors -> Opinions \cup {Failed, Unheard}],
         NEW W, W = Voting(ops, Winner(ops)),
         NEW n, n = Cardinality(W), NEW all, all = Cardinality(Participating(ops)),
         NEW w, w = Weight(ops, W)
  PROVE  /\ Winner(ops) \in Directions
         /\ Verdict(ops).direction = Winner(ops)
         /\ Verdict(ops).actionable <=>
              Winner(ops) # "HOLD" /\ 100 * n >= MinAgreement * all /\ w >= MinScore * all
         /\ Winner(ops) # "HOLD" => /\ n >= 1 /\ n <= all
                                    /\ Verdict(ops).agreement = Rounded(100 * n, all)
                                    /\ Verdict(ops).score = Rounded(w, all)
         /\ n \in Nat /\ all \in Nat /\ w \in Int
<1>1. Winner(ops) \in Directions
  BY DEF Winner, Majority, Directions
<1>2. n \in Nat /\ all \in Nat /\ n <= all
  BY <1>1, VotersCounted
<1>3. w \in Int
  BY VotersCounted, WeightOfVoters
<1>4. CASE Winner(ops) = "HOLD"
  <2>1. Verdict(ops) = Empty
    BY <1>4 DEF Verdict
  <2>2. Verdict(ops).direction = "HOLD" /\ ~Verdict(ops).actionable
    BY <2>1 DEF Empty, Result
  <2> QED
    BY <1>1, <1>2, <1>3, <1>4, <2>2
<1>5. CASE Winner(ops) # "HOLD"
  <2> DEFINE above == 100 * n >= MinAgreement * all /\ w >= MinScore * all
             agreement == Rounded(100 * n, all)
             score == Rounded(w, all)
  <2>1. Verdict(ops) = Result(Winner(ops), agreement, score, above)
    BY <1>5 DEF Verdict
  <2> HIDE DEF above, agreement, score
  <2>2. n >= 1
    <3>1. Cardinality(Voting(ops, "CALL")) \in Nat /\ Cardinality(Voting(ops, "PUT")) \in Nat
      BY VotersCounted
    <3> QED
      BY <1>5, <3>1 DEF Winner, Majority
  <2>3. Verdict(ops).direction = Winner(ops)
    BY <2>1 DEF Result
  <2>4. Verdict(ops).actionable <=> 100 * n >= MinAgreement * all /\ w >= MinScore * all
    <3>1. Verdict(ops).actionable = above
      BY <2>1 DEF Result
    <3> QED
      BY <3>1 DEF above
  <2>5. Verdict(ops).agreement = Rounded(100 * n, all) /\ Verdict(ops).score = Rounded(w, all)
    BY <2>1 DEF Result, agreement, score
  <2> QED
    BY <1>1, <1>2, <1>3, <1>5, <2>2, <2>3, <2>4, <2>5
<1> QED
  BY <1>4, <1>5

\* More support does not end an actionable verdict.
LEMMA VotesSupport ==
  ASSUME VotesIInv
  PROVE  SupportKeeps
<1> SUFFICES ASSUME verdict.actionable
             PROVE  SupportKeeps
  BY DEF SupportKeeps
<1> DEFINE d == verdict.direction
           W == Voting(opinions, d)
           n == Cardinality(W)
           all == Cardinality(Participating(opinions))
           w == Weight(opinions, W)
<1>1. opinions \in [Advisors -> Opinions \cup {Failed, Unheard}]
  BY DEF VotesIInv
<1>2. verdict = Verdict(opinions)
  <2>1. verdict # Pending
    BY DEF Pending, Result
  <2> QED
    BY <2>1 DEF VotesIInv
<1>3. d = Winner(opinions) /\ Winner(opinions) \in Directions
  BY <1>1, <1>2, ActionableVerdict
<1>4. /\ Winner(opinions) # "HOLD" /\ 100 * n >= MinAgreement * all /\ w >= MinScore * all
      /\ n >= 1 /\ n <= all /\ n \in Nat /\ all \in Nat /\ w \in Int
  BY <1>1, <1>2, <1>3, ActionableVerdict
<1>5. d \in {"CALL", "PUT"}
  BY <1>3, <1>4 DEF Directions
<1> HIDE DEF d, W, n, all, w
<1>6. ASSUME NEW s \in Advisors \ W, NEW c \in Confidences, c * n >= w,
             NEW turned, turned = [opinions EXCEPT ![s] = [direction |-> d, confidence |-> c]]
      PROVE  Verdict(turned).direction = d /\ Verdict(turned).actionable
  <2>1. /\ turned \in [Advisors -> Opinions \cup {Failed, Unheard}]
        /\ Winner(turned) = d
        /\ Cardinality(Voting(turned, d)) = n + 1
        /\ Cardinality(Participating(turned)) <= all + 1
        /\ Weight(turned, Voting(turned, d)) = w + c
    <3>1. Winner(opinions) = d /\ s \notin Voting(opinions, d)
      BY <1>3, <1>6 DEF W
    <3>2. OneMoreWinner(opinions, turned, d, s, c)
      BY <1>1, <1>5, <1>6, <3>1, WinnersGrow
    <3> QED
      BY <3>2 DEF OneMoreWinner, W, n, all, w
  <2>2. Cardinality(Participating(turned)) \in Nat
    BY VotersCounted
  <2>3. c \in 0 .. 100 /\ MinAgreement \in 0 .. 100 /\ MinScore \in 0 .. 100
    BY VotesAssumption
  <2>4. /\ 100 * (n + 1) >= MinAgreement * Cardinality(Participating(turned))
        /\ w + c >= MinScore * Cardinality(Participating(turned))
    BY ZenonT(30), <1>4, <1>6, <2>1, <2>2, <2>3, SharesKeep
  <2>5. Winner(turned) # "HOLD"
    BY <1>5, <2>1
  <2> QED
    BY <2>1, <2>4, <2>5, ActionableVerdict
<1> QED
  BY <1>6 DEF SupportKeeps, d, W, n, all, w

\* The words read one by one are those the whole dict is read by.
LEMMA ReadOneByOne ==
  ASSUME VotesIInv, ~IsEmpty
  PROVE  /\ {i \in AvailableIndicators : GetSignal(i) = "CALL"} = Saying("BUY")
         /\ {i \in AvailableIndicators : GetSignal(i) = "PUT"} = Saying("SELL")
BY DEF AvailableIndicators, GetSignal, Saying

\* The server's indicators only help.
LEMMA VotesServer ==
  ASSUME VotesIInv
  PROVE  ServerOnlyHelps
<1> SUFFICES ASSUME final # Pending
             PROVE  ServerOnlyHelps
  BY DEF ServerOnlyHelps
<1>1. /\ opinions \in [Advisors -> Opinions \cup {Failed, Unheard}]
      /\ verdict = Verdict(opinions) /\ final = Boosted(verdict)
  BY DEF VotesIInv
<1>2. CASE final = verdict
  BY <1>2 DEF ServerOnlyHelps
<1>3. CASE final # verdict
  <2> DEFINE score == UpTo100(verdict.score + ServerBoost)
             n == Cardinality(Voting(opinions, Winner(opinions)))
             all == Cardinality(Participating(opinions))
             w == Weight(opinions, Voting(opinions, Winner(opinions)))
  <2>1. /\ indicators # NoDict /\ verdict.direction # "HOLD"
        /\ ParseServerDirection = verdict.direction
        /\ final = [verdict EXCEPT !.score = score,
                      !.actionable = verdict.agreement >= MinAgreement /\ score >= MinScore]
    BY <1>1, <1>3 DEF Boosted
  <2>2. verdict \in [direction : {verdict.direction}, agreement : {verdict.agreement},
                     score : {verdict.score}, actionable : {verdict.actionable}]
    BY <1>1 DEF Verdict, Empty, Result
  <2>3. /\ final.direction = verdict.direction
        /\ final.actionable <=> verdict.agreement >= MinAgreement /\ score >= MinScore
    <3> DEFINE above == verdict.agreement >= MinAgreement /\ score >= MinScore
    <3>1. final = [verdict EXCEPT !.score = score, !.actionable = above]
      BY <2>1
    <3> HIDE DEF above, score
    <3>2. final.direction = verdict.direction /\ final.actionable = above
      BY <2>2, <3>1
    <3> QED
      BY <3>2 DEF above
  <2>4. verdict.actionable => final.actionable
    <3> SUFFICES ASSUME verdict.actionable PROVE final.actionable
      OBVIOUS
    <3>1. /\ 100 * n >= MinAgreement * all /\ w >= MinScore * all
          /\ n >= 1 /\ n <= all /\ n \in Nat /\ all \in Nat /\ w \in Int
          /\ verdict.agreement = Rounded(100 * n, all) /\ verdict.score = Rounded(w, all)
      BY <1>1, ActionableVerdict
    <3> HIDE DEF n, all, w
    <3>2. MinAgreement \in 0 .. 100 /\ MinScore \in 0 .. 100 /\ ServerBoost \in 0 .. 100
      BY VotesAssumption
    <3>3. all > 0 /\ 100 * n \in Int
      BY <3>1
    <3>4. verdict.agreement >= MinAgreement
      BY <3>1, <3>2, <3>3, RoundedAtLeast
    <3>5. verdict.score >= MinScore /\ verdict.score \in Int
      BY <3>1, <3>2, <3>3, RoundedAtLeast
    <3>6. score >= MinScore
      BY <3>2, <3>5 DEF UpTo100
    <3> QED
      BY <2>3, <3>4, <3>6
  <2>5. ~IsEmpty
    <3>1. CASE indicators = ErrorDict
      <4>1. Saying("BUY") = {} /\ Saying("SELL") = {}
        BY <3>1 DEF Saying, ErrorDict
      <4>2. ParseServerDirection = "HOLD"
        BY <4>1, FS_EmptySet DEF ParseServerDirection, Majority
      <4> QED
        BY <2>1, <4>2
    <3> QED
      BY <2>1, <3>1 DEF IsEmpty
  <2>6. ConsensusDirection = verdict.direction
    BY <2>1, <2>5 DEF ConsensusDirection, ParseServerDirection
  <2>7. Majority({i \in AvailableIndicators : GetSignal(i) = "CALL"},
                 {i \in AvailableIndicators : GetSignal(i) = "PUT"}) = verdict.direction
    BY <2>1, <2>5, ReadOneByOne DEF ParseServerDirection
  <2> HIDE DEF score, n, all, w
  <2> QED
    BY <2>3, <2>4, <2>6, <2>7 DEF ServerOnlyHelps
<1> QED
  BY <1>2, <1>3

\* The verdict of the consensus stands, for any finite set of strategies, whatever they
\* say, and for any limits and boost.
THEOREM SupportedVerdictStands == VotesSpec => []VerdictStands
<1>1. VotesInit => VotesIInv
  BY DEF VotesInit, VotesIInv
<1>2. VotesIInv /\ [VotesNext]_voteVars => VotesIInv'
  BY VotesInductive
<1>3. VotesIInv => VerdictStands
  BY VotesSupport, VotesServer DEF VerdictStands
<1> QED
  BY <1>1, <1>2, <1>3, PTL DEF VotesSpec

-----------------------------------------------------------------------------
(* Frames: the direction is fair because each frame is, whatever was seen of it.    *)

\* What the pipeline keeps of one timeframe.
FrameSet == [rsi : RsiRanges \cup {"nan"}, hist : HistSigns \cup {"nan"}]

\* One entry after the other, each of them a frame.
FramesTypeOK == snapshot \in Seq(FrameSet)

\* A frame upside down is a frame with as many numbers, and its marks turn round.
LEMMA FlippedMarks ==
  ASSUME NEW f \in FrameSet
  PROVE  /\ FlippedFrame(f) \in FrameSet
         /\ HasData(FlippedFrame(f)) <=> HasData(f)
         /\ RsiMark(FlippedFrame(f)) = -RsiMark(f)
         /\ HistMark(FlippedFrame(f)) = -HistMark(f)
<1>1. f.rsi \in {"low", "between", "high", "nan"} /\ f.hist \in {"negative", "zero", "positive", "nan"}
  BY DEF FrameSet, RsiRanges, HistSigns
<1>2. /\ FlippedFrame(f).rsi = IF f.rsi = "low" THEN "high" ELSE IF f.rsi = "high" THEN "low" ELSE f.rsi
      /\ FlippedFrame(f).hist = IF f.hist = "positive" THEN "negative"
                                ELSE IF f.hist = "negative" THEN "positive" ELSE f.hist
  BY DEF FlippedFrame
<1>3. FlippedFrame(f) \in FrameSet
  BY <1>1 DEF FlippedFrame, FrameSet, RsiRanges, HistSigns
<1>4. HasData(FlippedFrame(f)) <=> HasData(f)
  BY <1>1, <1>2 DEF HasData
<1>5. RsiMark(FlippedFrame(f)) = -RsiMark(f)
  BY <1>1, <1>2 DEF RsiMark
<1>6. HistMark(FlippedFrame(f)) = -HistMark(f)
  BY <1>1, <1>2 DEF HistMark
<1> QED
  BY <1>3, <1>4, <1>5, <1>6

\* The bias of a frame upside down is the other one.
LEMMA FlippedBias ==
  ASSUME NEW f \in FrameSet
  PROVE  /\ Bias(FlippedFrame(f)) = "CALL" <=> Bias(f) = "PUT"
         /\ Bias(FlippedFrame(f)) = "PUT" <=> Bias(f) = "CALL"
<1>1. RsiMark(f) \in Int /\ HistMark(f) \in Int
  BY DEF RsiMark, HistMark
<1>2. Mark(f) \in Int /\ Mark(FlippedFrame(f)) = -Mark(f)
  BY <1>1, FlippedMarks DEF Mark
<1> QED
  BY <1>2 DEF Bias

\* Upside down, the frames of one side are those of the other.
LEMMA FlippedSides ==
  ASSUME NEW frames \in Seq(FrameSet), NEW flipped,
         flipped = [k \in DOMAIN frames |-> FlippedFrame(frames[k])]
  PROVE  /\ Biased(flipped, "CALL") = Biased(frames, "PUT")
         /\ Biased(flipped, "PUT") = Biased(frames, "CALL")
<1>1. \A k \in DOMAIN frames : frames[k] \in FrameSet
  OBVIOUS
<1>2. \A k \in DOMAIN frames :
        /\ HasData(flipped[k]) <=> HasData(frames[k])
        /\ Bias(flipped[k]) = "CALL" <=> Bias(frames[k]) = "PUT"
        /\ Bias(flipped[k]) = "PUT" <=> Bias(frames[k]) = "CALL"
  BY <1>1, FlippedMarks, FlippedBias
<1> QED
  BY <1>2 DEF Biased

\* No side has more frames than the other if there is no frame of either.
LEMMA NoFramesNoBias ==
  ASSUME NEW frames, Biased(frames, "CALL") = {}, Biased(frames, "PUT") = {}
  PROVE  MultiTfBias(frames) = "NEUTRAL"
BY FS_EmptySet DEF MultiTfBias

\* The direction is fair for every sequence of frames.
LEMMA FairFrames ==
  ASSUME FramesTypeOK
  PROVE  BiasIsFair
<1> DEFINE flipped == [k \in DOMAIN snapshot |-> FlippedFrame(snapshot[k])]
           ups == Cardinality(Biased(snapshot, "CALL"))
           downs == Cardinality(Biased(snapshot, "PUT"))
           k1 == Cardinality(Biased(flipped, "CALL"))
           k2 == Cardinality(Biased(flipped, "PUT"))
<1>1. Biased(flipped, "CALL") = Biased(snapshot, "PUT") /\ Biased(flipped, "PUT") = Biased(snapshot, "CALL")
  BY FlippedSides DEF FramesTypeOK
<1>2. k1 = downs /\ k2 = ups
  BY <1>1
<1>3. /\ DOMAIN snapshot = 1 .. Len(snapshot) /\ Len(snapshot) \in Nat
      /\ \A b : Biased(snapshot, b) \subseteq 1 .. Len(snapshot)
  BY DEF FramesTypeOK, Biased
<1>4. ups \in Nat /\ downs \in Nat
  <2>1. IsFiniteSet(1 .. Len(snapshot))
    BY <1>3, FS_Interval
  <2> QED
    BY <1>3, <2>1, FS_Subset, FS_CardinalityType
<1>5. MultiTfBias(flipped) = IF k1 > k2 THEN "CALL" ELSE IF k2 > k1 THEN "PUT" ELSE "NEUTRAL"
  BY DEF MultiTfBias
<1>6. MultiTfBias(snapshot) = IF ups > downs THEN "CALL" ELSE IF downs > ups THEN "PUT" ELSE "NEUTRAL"
  BY DEF MultiTfBias
<1> HIDE DEF flipped, ups, downs, k1, k2
<1>7. MultiTfBias(flipped) = Reversed(MultiTfBias(snapshot))
  BY <1>2, <1>4, <1>5, <1>6 DEF Reversed
<1>8. ASSUME MultiTfBias(snapshot) # "NEUTRAL"
      PROVE  AvailableTimeframes(snapshot) # {}
  <2>1. PICK b : Biased(snapshot, b) # {}
    BY <1>8, NoFramesNoBias
  <2>2. PICK k \in DOMAIN snapshot : HasData(snapshot[k])
    BY <2>1 DEF Biased
  <2> QED
    BY <2>2 DEF AvailableTimeframes
<1> QED
  BY <1>7, <1>8 DEF BiasIsFair, flipped

\* Every step of the pipeline adds a frame.
LEMMA FramesInductive ==
  ASSUME FramesTypeOK, [FramesNext]_snapshot
  PROVE  FramesTypeOK'
<1>1. ASSUME NEW n \in Counts, ComputeTf(n)
      PROVE  FramesTypeOK'
  <2>1. PICK f \in FrameSet : snapshot' = Append(snapshot, f)
    <3>1. NotANumber \in FrameSet
      BY DEF NotANumber, FrameSet
    <3>2. \A r \in RsiRanges, h \in HistSigns : [rsi |-> r, hist |-> h] \in FrameSet
      BY DEF FrameSet
    <3> QED
      BY <1>1, <3>1, <3>2 DEF ComputeTf
  <2> QED
    BY <2>1 DEF FramesTypeOK
<1>2. CASE UNCHANGED snapshot
  BY <1>2 DEF FramesTypeOK
<1> QED
  BY <1>1, <1>2 DEF FramesNext

\* The direction of the timeframes is fair, and comes from a timeframe that has
\* numbers, for any number of candles and any least number of them.
THEOREM DirectionIsFair == FramesSpec => [](FramesTypeOK /\ BiasIsFair)
<1>1. FramesInit => FramesTypeOK
  BY DEF FramesInit, FramesTypeOK
<1>2. FramesTypeOK /\ [FramesNext]_snapshot => FramesTypeOK'
  BY FramesInductive
<1>3. FramesTypeOK => FramesTypeOK /\ BiasIsFair
  BY FairFrames
<1> QED
  BY <1>1, <1>2, <1>3, PTL DEF FramesSpec

-----------------------------------------------------------------------------
(* Patterns.  A candle upside down has the shape of its counterpart; and a window that  *)
(* moves on by one candle keeps all but its oldest.                                     *)

\* A closed candle: prices of which the highest and the lowest hold the others.
IsCandle(c) ==
  /\ c.open \in Int /\ c.close \in Int /\ c.max \in Int /\ c.min \in Int
  /\ c.min <= c.open /\ c.open <= c.max /\ c.min <= c.close /\ c.close <= c.max

\* The window holds such candles.
WindowOK == window \in Seq(Shapes)

\* The shapes the model is given are candles.
LEMMA ShapesAreCandles ==
  \A c \in Shapes : IsCandle(c)
<1> SUFFICES ASSUME NEW c \in Shapes PROVE IsCandle(c)
  OBVIOUS
<1>1. TopPrice \in Nat
  BY PatternsAssumption
<1>2. c \in [open : 0 .. TopPrice, close : 0 .. TopPrice, max : 0 .. TopPrice, min : 0 .. TopPrice]
  BY PatternsAssumption
<1>3. c.open \in 0 .. TopPrice /\ c.close \in 0 .. TopPrice /\ c.max \in 0 .. TopPrice /\ c.min \in 0 .. TopPrice
  BY <1>2
<1>4. c.open \in c.min .. c.max /\ c.close \in c.min .. c.max
  BY PatternsAssumption
<1> QED
  BY <1>1, <1>3, <1>4 DEF IsCandle

\* The candles of the window, and those of the window upside down.
LEMMA WindowCandles ==
  ASSUME WindowOK
  PROVE  /\ Len(window) \in Nat /\ DOMAIN window = 1 .. Len(window)
         /\ \A i \in DOMAIN window : window[i] \in Shapes /\ IsCandle(window[i])
         /\ DOMAIN FlippedWindow(window) = DOMAIN window
         /\ Len(FlippedWindow(window)) = Len(window)
         /\ \A i \in DOMAIN window : FlippedWindow(window)[i] = Flipped(window[i])
<1>1. Len(window) \in Nat /\ DOMAIN window = 1 .. Len(window)
  BY DEF WindowOK
<1>2. \A i \in DOMAIN window : window[i] \in Shapes
  BY <1>1, ElementOfSeq DEF WindowOK
<1>3. DOMAIN FlippedWindow(window) = 1 .. Len(window)
  BY <1>1 DEF FlippedWindow
<1>4. Len(FlippedWindow(window)) = Len(window)
  <2>1. FlippedWindow(window) \in Seq({Flipped(window[i]) : i \in DOMAIN window})
    BY <1>1 DEF FlippedWindow
  <2> QED
    BY <1>1, <1>3, <2>1, LenProperties
<1> QED
  BY <1>1, <1>2, <1>3, <1>4, ShapesAreCandles DEF FlippedWindow

\* A candle upside down: as large a body, and the wicks the other way round.
FlipsOver(c) ==
  /\ Body(Flipped(c)) = Body(c)
  /\ UpperWick(Flipped(c)) = LowerWick(c) /\ LowerWick(Flipped(c)) = UpperWick(c)
  /\ Flipped(c).max - Flipped(c).min = c.max - c.min
  /\ (Flipped(c).max > Flipped(c).min) = (c.max > c.min)

\* A candle turned upside down is just that.
LEMMA CandleFlips ==
  ASSUME NEW c, IsCandle(c)
  PROVE  FlipsOver(c)
<1>1. PICK o \in Int, e \in Int, h \in Int, l \in Int, t \in Int :
        o = c.open /\ e = c.close /\ h = c.max /\ l = c.min /\ t = TopPrice
  BY PatternsAssumption DEF IsCandle
<1>2. Flipped(c).open = t - o /\ Flipped(c).close = t - e /\ Flipped(c).max = t - l /\ Flipped(c).min = t - h
  BY <1>1 DEF Flipped
<1>3. Body(Flipped(c)) = Body(c)
  BY <1>1, <1>2 DEF Body, Larger, Smaller
<1>4. UpperWick(Flipped(c)) = LowerWick(c) /\ LowerWick(Flipped(c)) = UpperWick(c)
  BY <1>1, <1>2 DEF UpperWick, LowerWick, Larger, Smaller
<1>5. Flipped(c).max - Flipped(c).min = c.max - c.min
  BY <1>1, <1>2
<1>6. (Flipped(c).max > Flipped(c).min) = (c.max > c.min)
  BY <1>1, <1>2
<1> QED
  BY <1>3, <1>4, <1>5, <1>6 DEF FlipsOver

\* Each detector finds upside down what its counterpart finds.
LEMMA DetectorsFlip ==
  /\ \A c : IsCandle(c) => /\ IsDoji(Flipped(c)) <=> IsDoji(c)
                           /\ IsHammer(Flipped(c)) <=> IsShootingStar(c)
                           /\ IsShootingStar(Flipped(c)) <=> IsHammer(c)
  /\ \A p, c : IsCandle(p) /\ IsCandle(c) =>
       /\ IsBullishEngulfing(Flipped(p), Flipped(c)) <=> IsBearishEngulfing(p, c)
       /\ IsBearishEngulfing(Flipped(p), Flipped(c)) <=> IsBullishEngulfing(p, c)
       /\ IsInsideBar(Flipped(p), Flipped(c)) <=> IsInsideBar(p, c)
<1>1. ASSUME NEW c, IsCandle(c)
      PROVE  /\ IsDoji(Flipped(c)) <=> IsDoji(c)
             /\ IsHammer(Flipped(c)) <=> IsShootingStar(c)
             /\ IsShootingStar(Flipped(c)) <=> IsHammer(c)
  <2>1. FlipsOver(c)
    BY <1>1, CandleFlips
  <2> QED
    BY <2>1 DEF FlipsOver, IsDoji, IsHammer, IsShootingStar
<1>2. ASSUME NEW p, NEW c, IsCandle(p), IsCandle(c)
      PROVE  /\ IsBullishEngulfing(Flipped(p), Flipped(c)) <=> IsBearishEngulfing(p, c)
             /\ IsBearishEngulfing(Flipped(p), Flipped(c)) <=> IsBullishEngulfing(p, c)
             /\ IsInsideBar(Flipped(p), Flipped(c)) <=> IsInsideBar(p, c)
  <2>1. \A x \in Int, y \in Int : (TopPrice - x < TopPrice - y <=> y < x) /\ (TopPrice - x > TopPrice - y <=> y > x)
    BY PatternsAssumption
  <2>2. /\ p.open \in Int /\ p.close \in Int /\ p.max \in Int /\ p.min \in Int
        /\ c.open \in Int /\ c.close \in Int /\ c.max \in Int /\ c.min \in Int
    BY <1>2 DEF IsCandle
  <2>3. \A d : /\ Flipped(d).open = TopPrice - d.open /\ Flipped(d).close = TopPrice - d.close
               /\ Flipped(d).max = TopPrice - d.min /\ Flipped(d).min = TopPrice - d.max
    BY DEF Flipped
  <2>4. \A x \in Int, y \in Int : x < y <=> y > x
    OBVIOUS
  <2>5. IsBullishEngulfing(Flipped(p), Flipped(c)) <=> IsBearishEngulfing(p, c)
    BY <2>1, <2>2, <2>3, <2>4 DEF IsBullishEngulfing, IsBearishEngulfing
  <2>6. IsBearishEngulfing(Flipped(p), Flipped(c)) <=> IsBullishEngulfing(p, c)
    BY <2>1, <2>2, <2>3, <2>4 DEF IsBullishEngulfing, IsBearishEngulfing
  <2>7. IsInsideBar(Flipped(p), Flipped(c)) <=> IsInsideBar(p, c)
    BY <2>1, <2>2, <2>3, <2>4 DEF IsInsideBar
  <2> QED
    BY <2>5, <2>6, <2>7
<1> QED
  BY <1>1, <1>2

\* A pattern for the other side.
Turned(p) == <<Opposite(p[1]), OtherSide(p[2])>>

\* The patterns of a candle upside down are those of the candle, turned.
LEMMA SingleTurns ==
  ASSUME NEW c, IsCandle(c)
  PROVE  Single(Flipped(c)) = {Turned(p) : p \in Single(c)}
<1> DEFINE D == <<"DOJI", "neutral">>
           H == <<"HAMMER", "call">>
           S == <<"SHOOTING_STAR", "put">>
<1>1. Turned(D) = D /\ Turned(H) = S /\ Turned(S) = H
  BY DEF Turned, Opposite, OtherSide
<1>2. \A d, x : x \in Single(d) <=> \/ x = D /\ IsDoji(d)
                                    \/ x = H /\ IsHammer(d)
                                    \/ x = S /\ IsShootingStar(d)
  BY DEF Single
<1>3. /\ IsDoji(Flipped(c)) <=> IsDoji(c)
      /\ IsHammer(Flipped(c)) <=> IsShootingStar(c)
      /\ IsShootingStar(Flipped(c)) <=> IsHammer(c)
  BY DetectorsFlip
<1> HIDE DEF D, H, S
<1>4. \A x : x \in Single(Flipped(c)) <=> \E p \in Single(c) : x = Turned(p)
  BY <1>1, <1>2, <1>3
<1> QED
  BY <1>4

\* So are those of two candles.
LEMMA DoubleTurns ==
  ASSUME NEW b, IsCandle(b), NEW c, IsCandle(c)
  PROVE  Double(Flipped(b), Flipped(c)) = {Turned(p) : p \in Double(b, c)}
<1> DEFINE U == <<"BULLISH_ENGULFING", "call">>
           V == <<"BEARISH_ENGULFING", "put">>
           I == <<"INSIDE_BAR", "neutral">>
<1>1. Turned(U) = V /\ Turned(V) = U /\ Turned(I) = I
  BY DEF Turned, Opposite, OtherSide
<1>2. \A d, e, x : x \in Double(d, e) <=> \/ x = U /\ IsBullishEngulfing(d, e)
                                          \/ x = V /\ IsBearishEngulfing(d, e)
                                          \/ x = I /\ IsInsideBar(d, e)
  BY DEF Double
<1>3. /\ IsBullishEngulfing(Flipped(b), Flipped(c)) <=> IsBearishEngulfing(b, c)
      /\ IsBearishEngulfing(Flipped(b), Flipped(c)) <=> IsBullishEngulfing(b, c)
      /\ IsInsideBar(Flipped(b), Flipped(c)) <=> IsInsideBar(b, c)
  BY DetectorsFlip
<1> HIDE DEF U, V, I
<1>4. \A x : x \in Double(Flipped(b), Flipped(c)) <=> \E p \in Double(b, c) : x = Turned(p)
  BY <1>1, <1>2, <1>3
<1> QED
  BY <1>4

\* A pattern found at candle i of window w.
FoundAt(w, i, p) == p \in Single(w[i]) \/ (i + 1 \in DOMAIN w /\ p \in Double(w[i + 1], w[i]))

\* What detect() returns for n candles, by the candles.
DetectsFound(w, n) ==
  \A s : s \in Detect(w) <=> n >= 2 /\ \E i \in 1 .. n : \E p : FoundAt(w, i, p) /\ s = <<p[1], p[2], i>>

\* detect() returns the patterns found, and nothing else.
LEMMA DetectIs ==
  ASSUME NEW w, NEW n \in Nat, Len(w) = n, DOMAIN w = 1 .. n
  PROVE  DetectsFound(w, n)
<1>1. \A i \in DOMAIN w : i \in Int
  OBVIOUS
<1>2. ASSUME NEW i \in DOMAIN w, NEW p
      PROVE  p \in Single(w[i]) \cup UNION {Double(w[j], w[i]) : j \in Previous(w, i)} <=> FoundAt(w, i, p)
  <2>1. Previous(w, i) = {j \in DOMAIN w : j = i + 1}
    BY DEF Previous
  <2>2. p \in UNION {Double(w[j], w[i]) : j \in Previous(w, i)}
          <=> i + 1 \in DOMAIN w /\ p \in Double(w[i + 1], w[i])
    BY <2>1
  <2> QED
    BY <2>2 DEF FoundAt
<1>3. CASE n < 2
  BY <1>3 DEF Detect, DetectsFound
<1>4. CASE ~ (n < 2)
  <2>1. Detect(w) = UNION {{<<p[1], p[2], i>> : p \in Single(w[i]) \cup
                     UNION {Double(w[j], w[i]) : j \in Previous(w, i)}} : i \in DOMAIN w}
    BY <1>4 DEF Detect
  <2>2. \A s : s \in Detect(w) <=> \E i \in DOMAIN w : \E p \in Single(w[i]) \cup
                     UNION {Double(w[j], w[i]) : j \in Previous(w, i)} : s = <<p[1], p[2], i>>
    BY <2>1
  <2> QED
    <3>1. \A s : s \in Detect(w) <=> \E i \in 1 .. n : \E p : FoundAt(w, i, p) /\ s = <<p[1], p[2], i>>
      BY <1>2, <2>2
    <3>2. n >= 2
      BY <1>4
    <3> QED
      BY <3>1, <3>2 DEF DetectsFound
<1> QED
  BY <1>3, <1>4

\* The signals of the window upside down are those of the window, turned.
LEMMA SignalsTurn ==
  ASSUME WindowOK
  PROVE  Detect(FlippedWindow(window)) = {<<Opposite(s[1]), OtherSide(s[2]), s[3]>> : s \in Detect(window)}
<1> DEFINE f == FlippedWindow(window)
<1>1. /\ Len(window) \in Nat /\ DOMAIN window = 1 .. Len(window)
      /\ \A i \in DOMAIN window : IsCandle(window[i])
      /\ DOMAIN f = DOMAIN window /\ Len(f) = Len(window)
      /\ \A i \in DOMAIN window : f[i] = Flipped(window[i])
  BY WindowCandles
<1> HIDE DEF f
<1>2. ASSUME NEW i \in DOMAIN window, NEW x
      PROVE  FoundAt(f, i, x) <=> \E p : FoundAt(window, i, p) /\ x = Turned(p)
  <2>1. Single(f[i]) = {Turned(p) : p \in Single(window[i])}
    BY <1>1, SingleTurns
  <2>2. i + 1 \in DOMAIN window => Double(f[i + 1], f[i]) = {Turned(p) : p \in Double(window[i + 1], window[i])}
    BY <1>1, DoubleTurns
  <2> QED
    BY <1>1, <2>1, <2>2 DEF FoundAt
<1>3. DetectsFound(f, Len(window)) /\ DetectsFound(window, Len(window))
  BY <1>1, DetectIs
<1>4. /\ \A s : s \in Detect(f) <=>
                  Len(window) >= 2 /\ \E i \in DOMAIN window : \E p : FoundAt(f, i, p) /\ s = <<p[1], p[2], i>>
      /\ \A s : s \in Detect(window) <=>
                  Len(window) >= 2 /\ \E i \in DOMAIN window : \E p : FoundAt(window, i, p) /\ s = <<p[1], p[2], i>>
  BY <1>1, <1>3 DEF DetectsFound
<1>5. \A p, i : LET s == <<p[1], p[2], i>> IN
        <<Opposite(s[1]), OtherSide(s[2]), s[3]>> = <<Turned(p)[1], Turned(p)[2], i>>
  BY DEF Turned
<1>6. ASSUME NEW s \in Detect(f)
      PROVE  \E r \in Detect(window) : s = <<Opposite(r[1]), OtherSide(r[2]), r[3]>>
  <2>1. PICK i, x : i \in DOMAIN window /\ FoundAt(f, i, x) /\ s = <<x[1], x[2], i>> /\ Len(window) >= 2
    BY <1>4
  <2>2. PICK p : FoundAt(window, i, p) /\ x = Turned(p)
    BY <1>2, <2>1
  <2>3. <<p[1], p[2], i>> \in Detect(window)
    BY <1>4, <2>1, <2>2
  <2>4. s = <<Turned(p)[1], Turned(p)[2], i>>
    BY <2>1, <2>2
  <2> QED
    BY <1>5, <2>3, <2>4
<1>7. ASSUME NEW r \in Detect(window)
      PROVE  <<Opposite(r[1]), OtherSide(r[2]), r[3]>> \in Detect(f)
  <2>1. PICK i, p : i \in DOMAIN window /\ FoundAt(window, i, p) /\ r = <<p[1], p[2], i>> /\ Len(window) >= 2
    BY <1>4
  <2>2. FoundAt(f, i, Turned(p))
    BY <1>2, <2>1
  <2>3. <<Turned(p)[1], Turned(p)[2], i>> \in Detect(f)
    BY <1>4, <2>1, <2>2
  <2> QED
    BY <1>5, <2>1, <2>3
<1>8. \A s : s \in Detect(f) <=> \E r \in Detect(window) : s = <<Opposite(r[1]), OtherSide(r[2]), r[3]>>
  BY <1>6, <1>7
<1> QED
  BY <1>8 DEF f

\* What the highs gain upside down is what the lows lose, so that the trend turns round.
LEMMA TrendTurns ==
  ASSUME WindowOK
  PROVE  TrendDirection(FlippedWindow(window)) = OtherSide(TrendDirection(window))
<1> DEFINE f == FlippedWindow(window)
           n == Len(window)
<1>1. /\ n \in Nat /\ DOMAIN window = 1 .. n
      /\ \A i \in 1 .. n : IsCandle(window[i])
      /\ Len(f) = n
      /\ \A i \in 1 .. n : f[i] = Flipped(window[i])
  BY WindowCandles
<1> HIDE DEF f, n
<1>2. ASSUME NEW i \in 2 .. n
      PROVE  /\ Gain(f, i) = Loss(window, i) /\ Loss(f, i) = Gain(window, i)
             /\ Gain(window, i) \in Int /\ Loss(window, i) \in Int
  <2>1. i \in 1 .. n /\ i - 1 \in 1 .. n
    BY <1>1
  <2>2. IsCandle(window[i]) /\ IsCandle(window[i - 1])
    BY <1>1, <2>1
  <2>3. PICK a \in Int, b \in Int, c \in Int, d \in Int, t \in Int :
          a = window[i].max /\ b = window[i].min /\ c = window[i - 1].max /\ d = window[i - 1].min /\ t = TopPrice
    <3>1. TopPrice \in Int
      BY PatternsAssumption
    <3> QED
      BY <2>2, <3>1 DEF IsCandle
  <2>4. f[i] = Flipped(window[i]) /\ f[i - 1] = Flipped(window[i - 1])
    BY <1>1, <2>1
  <2>5. f[i].max = t - b /\ f[i].min = t - a /\ f[i - 1].max = t - d /\ f[i - 1].min = t - c
    BY <2>3, <2>4 DEF Flipped
  <2>6. Gain(f, i) = (t - b) - (t - d) /\ Loss(f, i) = (t - c) - (t - a)
    BY <2>5 DEF Gain, Loss
  <2>7. Gain(window, i) = a - c /\ Loss(window, i) = d - b
    BY <2>3 DEF Gain, Loss
  <2>8. (t - b) - (t - d) = d - b /\ (t - c) - (t - a) = a - c /\ a - c \in Int /\ d - b \in Int
    BY <2>3
  <2> QED
    BY <2>6, <2>7, <2>8
<1>3. CASE n < 2 * Period
  <2>1. TrendDirection(f) = "neutral" /\ TrendDirection(window) = "neutral"
    BY <1>1, <1>3 DEF TrendDirection, n
  <2> QED
    BY <2>1 DEF OtherSide, f
<1>4. CASE ~ (n < 2 * Period)
  <2>1. Period \in Nat \ {0} /\ n >= 2
    BY <1>1, <1>4, PatternsAssumption
  <2>2. Looked(window) \subseteq 2 .. n /\ Looked(f) = Looked(window)
    <3>1. PICK k \in 1 .. n - 1 : k = Smaller(Period, n - 1)
      BY <1>1, <2>1 DEF Smaller
    <3>2. Looked(window) = (n - k + 1) .. n /\ Looked(f) = (n - k + 1) .. n
      BY <1>1, <3>1 DEF Looked, n
    <3> QED
      BY <1>1, <3>1, <3>2
  <2>3. PlusDM(f) = MinusDM(window) /\ MinusDM(f) = PlusDM(window)
    <3>1. [i \in 2 .. n |-> Gain(f, i)] = [i \in 2 .. n |-> Loss(window, i)]
      BY <1>2
    <3>2. [i \in 2 .. n |-> Loss(f, i)] = [i \in 2 .. n |-> Gain(window, i)]
      BY <1>2
    <3>3. {i \in Looked(f) : Gain(f, i) > Loss(f, i) /\ Gain(f, i) > 0}
          = {i \in Looked(window) : Loss(window, i) > Gain(window, i) /\ Loss(window, i) > 0}
      BY <1>2, <2>2
    <3>4. {i \in Looked(f) : Loss(f, i) > Gain(f, i) /\ Loss(f, i) > 0}
          = {i \in Looked(window) : Gain(window, i) > Loss(window, i) /\ Gain(window, i) > 0}
      BY <1>2, <2>2
    <3> QED
      BY <1>1, <3>1, <3>2, <3>3, <3>4 DEF PlusDM, MinusDM, n
  <2>4. PlusDM(window) \in Int /\ MinusDM(window) \in Int
    <3>1. PICK T : T = 2 .. n
      OBVIOUS
    <3>2. IsFiniteSet(T)
      BY <1>1, <3>1, FS_Interval
    <3>3. /\ [i \in 2 .. n |-> Gain(window, i)] \in [T -> Int]
          /\ [i \in 2 .. n |-> Loss(window, i)] \in [T -> Int]
      BY <1>2, <3>1
    <3>4. /\ {i \in Looked(window) : Loss(window, i) > Gain(window, i) /\ Loss(window, i) > 0} \in SUBSET T
          /\ {i \in Looked(window) : Gain(window, i) > Loss(window, i) /\ Gain(window, i) > 0} \in SUBSET T
      BY <2>2, <3>1
    <3>5. \A g \in [T -> Int] : \A U \in SUBSET T : SumFunctionOnSet(g, U) \in Int
      BY <3>2, SumOnSet
    <3> QED
      BY <1>1, <3>3, <3>4, <3>5 DEF PlusDM, MinusDM, n
  <2>5. PICK x \in Int, y \in Int : x = PlusDM(window) /\ y = MinusDM(window)
    BY <2>4
  <2>6. TrendDirection(window) = IF x > y THEN "up" ELSE IF y > x THEN "down" ELSE "neutral"
    BY <1>4, <2>5 DEF TrendDirection, n
  <2>7. TrendDirection(f) = IF y > x THEN "up" ELSE IF x > y THEN "down" ELSE "neutral"
    BY <1>1, <1>4, <2>3, <2>5 DEF TrendDirection
  <2>8. x > y => ~ (y > x)
    OBVIOUS
  <2>9. OtherSide("up") = "down" /\ OtherSide("down") = "up" /\ OtherSide("neutral") = "neutral"
    BY DEF OtherSide
  <2>10. CASE x > y
    BY <2>6, <2>7, <2>8, <2>9, <2>10 DEF f
  <2>11. CASE ~ (x > y)
    BY <2>6, <2>7, <2>9, <2>11 DEF f
  <2> QED
    BY <2>10, <2>11
<1> QED
  BY <1>3, <1>4 DEF f

\* A candle that closes is put in front, and the oldest one may drop out.
LEMMA WindowMoves ==
  ASSUME WindowOK, NEW c \in Shapes, CandleCloses(c)
  PROVE  /\ WindowOK'
         /\ Len(window') \in Nat /\ DOMAIN (window') = 1 .. Len(window') /\ Len(window') <= Len(window) + 1
         /\ \A i \in 1 .. Len(window) : i + 1 <= Len(window') => window'[i + 1] = window[i]
<1>1. PICK a : a = <<c>>
  OBVIOUS
<1>2. a \in Seq(Shapes) /\ Len(a) = 1 /\ window \in Seq(Shapes) /\ Len(window) \in Nat
  BY <1>1 DEF WindowOK
<1>3. PICK n \in Nat : n = Len(window)
  BY <1>2
<1>4. PICK m \in 1 .. n + 1 : m = Smaller(Depth, Len(window) + 1)
  BY <1>3, PatternsAssumption DEF Smaller
<1>5. PICK z : z = a \o window
  OBVIOUS
<1>6. /\ z \in Seq(Shapes) /\ Len(z) = n + 1
      /\ \A k \in 1 .. n + 1 : z[k] = IF k <= 1 THEN a[k] ELSE window[k - 1]
  <2>1. PICK w : w = window
    OBVIOUS
  <2>2. a \in Seq(Shapes) /\ w \in Seq(Shapes) /\ Len(a) = 1 /\ Len(w) = n
    BY <1>2, <1>3, <2>1
  <2>3. /\ a \o w \in Seq(Shapes) /\ Len(a \o w) = Len(a) + Len(w)
        /\ \A k \in 1 .. Len(a) + Len(w) : (a \o w)[k] = IF k <= Len(a) THEN a[k] ELSE w[k - Len(a)]
    BY <2>2, ConcatProperties
  <2>4. Len(a) + Len(w) = n + 1
    BY <2>2
  <2> QED
    BY <1>5, <2>1, <2>2, <2>3, <2>4
<1>7. window' = SubSeq(z, 1, m)
  BY <1>1, <1>4, <1>5 DEF CandleCloses
<1>8. /\ window' \in Seq(Shapes) /\ Len(window') = m
      /\ \A k \in 1 .. m : window'[k] = z[k]
  <2>1. 1 \in 1 .. n + 1 /\ m \in 0 .. n + 1
    OBVIOUS
  <2> QED
    BY <1>6, <1>7, <2>1, SubSeqProperties
<1>9. ASSUME NEW i \in 1 .. n, i + 1 <= m
      PROVE  window'[i + 1] = window[i]
  <2>1. i + 1 \in 1 .. m /\ i + 1 \in 1 .. n + 1 /\ ~ (i + 1 <= 1) /\ i + 1 - 1 = i
    BY <1>9
  <2> QED
    BY <1>6, <1>8, <2>1
<1> QED
  BY <1>3, <1>8, <1>9 DEF WindowOK

\* So the signals of a candle stay, while the one before it is there.
LEMMA SignalsStay ==
  ASSUME WindowOK, NEW c \in Shapes, CandleCloses(c)
  PROVE  {<<s[1], s[2], s[3] + 1>> : s \in {r \in Detect(window) : r[3] + 1 < Len(window')}}
         = {s \in Detect(window') : 1 < s[3] /\ s[3] < Len(window')}
<1> DEFINE v == window'
           A == {<<s[1], s[2], s[3] + 1>> : s \in {r \in Detect(window) : r[3] + 1 < Len(v)}}
           B == {s \in Detect(v) : 1 < s[3] /\ s[3] < Len(v)}
<1>1. PICK n \in Nat, m \in Nat :
        /\ n = Len(window) /\ m = Len(v) /\ m <= n + 1
        /\ DOMAIN window = 1 .. n /\ DOMAIN v = 1 .. m
        /\ \A i \in 1 .. n : i + 1 <= m => v[i + 1] = window[i]
  BY WindowCandles, WindowMoves
<1> HIDE DEF v
<1>2. \A s : s \in Detect(window) <=> n >= 2 /\ \E i \in 1 .. n : \E p : FoundAt(window, i, p) /\ s = <<p[1], p[2], i>>
  <2>1. DetectsFound(window, n)
    BY <1>1, DetectIs
  <2> QED
    BY <2>1 DEF DetectsFound
<1>3. \A s : s \in Detect(v) <=> m >= 2 /\ \E i \in 1 .. m : \E p : FoundAt(v, i, p) /\ s = <<p[1], p[2], i>>
  <2>1. DetectsFound(v, m)
    BY <1>1, DetectIs
  <2> QED
    BY <2>1 DEF DetectsFound
<1>4. ASSUME NEW i \in 1 .. n, i + 1 < m, NEW p
      PROVE  FoundAt(window, i, p) <=> FoundAt(v, i + 1, p)
  <2>1. i + 1 \in 1 .. n /\ i + 1 + 1 \in 1 .. m
    BY <1>1, <1>4
  <2>2. v[i + 1] = window[i] /\ v[i + 1 + 1] = window[i + 1]
    BY <1>1, <1>4, <2>1
  <2> QED
    BY <1>1, <2>1, <2>2 DEF FoundAt
<1>5. ASSUME NEW x \in A
      PROVE  x \in B
  <2>1. PICK s \in Detect(window) : s[3] + 1 < m /\ x = <<s[1], s[2], s[3] + 1>>
    BY <1>1
  <2>2. PICK i, p : i \in 1 .. n /\ FoundAt(window, i, p) /\ s = <<p[1], p[2], i>>
    BY <1>2
  <2>3. s[1] = p[1] /\ s[2] = p[2] /\ s[3] = i /\ i + 1 < m /\ x = <<p[1], p[2], i + 1>>
    BY <2>1, <2>2
  <2>4. FoundAt(v, i + 1, p)
    BY <1>4, <2>2, <2>3
  <2>5. i + 1 \in 1 .. m /\ m >= 2 /\ 1 < i + 1
    BY <1>1, <2>2, <2>3
  <2>6. x \in Detect(v)
    BY <1>3, <2>3, <2>4, <2>5
  <2>7. x[3] = i + 1
    BY <2>3
  <2> QED
    BY <1>1, <2>3, <2>5, <2>6, <2>7
<1>6. ASSUME NEW x \in B
      PROVE  x \in A
  <2>1. PICK k, p : k \in 1 .. m /\ FoundAt(v, k, p) /\ x = <<p[1], p[2], k>>
    BY <1>3
  <2>2. x[3] = k /\ 1 < k /\ k < m
    BY <1>1, <2>1
  <2>3. PICK i \in 1 .. n : i + 1 = k
    <3>1. k - 1 \in 1 .. n /\ k - 1 + 1 = k
      BY <1>1, <2>1, <2>2
    <3> QED
      BY <3>1
  <2>4. FoundAt(window, i, p)
    BY <1>4, <2>1, <2>2, <2>3
  <2>5. PICK s : s = <<p[1], p[2], i>>
    OBVIOUS
  <2>6. s \in Detect(window)
    <3>1. n >= 2
      BY <1>1, <2>1, <2>2
    <3> QED
      BY <1>2, <2>4, <2>5, <3>1
  <2>7. s[1] = p[1] /\ s[2] = p[2] /\ s[3] = i
    BY <2>5
  <2>8. x = <<s[1], s[2], s[3] + 1>> /\ s[3] + 1 < Len(v)
    BY <1>1, <2>1, <2>2, <2>3, <2>7
  <2> QED
    BY <2>6, <2>8
<1>7. A = B
  BY <1>5, <1>6
<1> QED
  BY <1>7 DEF v

\* The pattern engine reads falling prices as it reads rising ones, and no signal is
\* taken back or added once its candle and the one before have closed.
THEOREM SignalsStaySteady == PatternsSpec => SignalsAreSteady
<1>1. PatternsInit => WindowOK
  BY DEF PatternsInit, WindowOK
<1>2. WindowOK /\ [PatternsNext]_window => WindowOK'
  <2>1. WindowOK /\ PatternsNext => WindowOK'
    BY WindowMoves DEF PatternsNext
  <2> QED
    BY <2>1 DEF WindowOK
<1>3. WindowOK => SidesAreEqual
  BY SignalsTurn, TrendTurns DEF SidesAreEqual
<1>4. WindowOK /\ [PatternsNext]_window
        => [{<<s[1], s[2], s[3] + 1>> : s \in {r \in Detect(window) : r[3] + 1 < Len(window')}}
             = {s \in Detect(window') : 1 < s[3] /\ s[3] < Len(window')}]_window
  BY SignalsStay DEF PatternsNext
<1> QED
  BY <1>1, <1>2, <1>3, <1>4, PTL DEF PatternsSpec, SignalsAreSteady, NoRepaint

-----------------------------------------------------------------------------
(* Backtest.  The figures are recursive functions over the trades: each is shown to *)
(* exist, by the least index at which it would not, and then what it computes.      *)

\* A function over the indices from lo to hi that begins with base and goes on as next
\* says.
Recurses(g, lo, hi, base, next) ==
  g[lo] = base /\ \A k \in lo + 1 .. hi : g[k] = next[<<k, g[k - 1]>>]

\* There is one.
LEMMA RecursionExists ==
  ASSUME NEW lo \in Nat, NEW hi \in Nat, lo <= hi, NEW V, NEW base \in V,
         NEW next \in [(lo + 1 .. hi) \X V -> V]
  PROVE  \E g \in [lo .. hi -> V] : Recurses(g, lo, hi, base, next)
<1> DEFINE Good(n) == \E g \in [lo .. n -> V] :
                        g[lo] = base /\ \A k \in lo + 1 .. n : g[k] = next[<<k, g[k - 1]>>]
           Bad == {n \in Nat : lo <= n /\ n <= hi /\ ~ Good(n)}
<1>1. Good(lo)
  <2> DEFINE g == [k \in lo .. lo |-> base]
  <2>1. g \in [lo .. lo -> V] /\ g[lo] = base /\ \A k \in lo + 1 .. lo : g[k] = next[<<k, g[k - 1]>>]
    OBVIOUS
  <2> HIDE DEF g
  <2> QED
    BY <2>1
<1>2. ASSUME NEW n \in Nat, lo <= n, n < hi, Good(n)
      PROVE  Good(n + 1)
  <2>1. PICK g \in [lo .. n -> V] : g[lo] = base /\ \A k \in lo + 1 .. n : g[k] = next[<<k, g[k - 1]>>]
    BY <1>2
  <2> DEFINE h == [k \in lo .. n + 1 |-> IF k = n + 1 THEN next[<<n + 1, g[n]>>] ELSE g[k]]
  <2>2. n + 1 \in lo + 1 .. hi /\ n \in lo .. n /\ n + 1 # lo /\ n + 1 # n
    BY <1>2
  <2>3. g[n] \in V
    BY <2>1, <2>2
  <2>4. next[<<n + 1, g[n]>>] \in V
    BY <2>2, <2>3
  <2>5. h \in [lo .. n + 1 -> V]
    BY <2>1, <2>4
  <2>6. h[lo] = base
    BY <1>2, <2>1, <2>2
  <2>7. ASSUME NEW k \in lo + 1 .. n + 1
        PROVE  h[k] = next[<<k, h[k - 1]>>]
    <3>1. CASE k = n + 1
      <4>1. k - 1 = n /\ k - 1 \in lo .. n + 1 /\ k - 1 # n + 1 /\ k \in lo .. n + 1
        BY <1>2, <3>1
      <4> QED
        BY <3>1, <4>1
    <3>2. CASE k # n + 1
      <4>1. k \in lo + 1 .. n /\ k \in lo .. n + 1 /\ k - 1 \in lo .. n + 1 /\ k - 1 # n + 1
        BY <1>2, <3>2
      <4>2. h[k] = g[k] /\ h[k - 1] = g[k - 1]
        BY <3>2, <4>1
      <4> QED
        BY <2>1, <4>1, <4>2
    <3> QED
      BY <3>1, <3>2
  <2> HIDE DEF h
  <2> QED
    BY <2>5, <2>6, <2>7
<1> HIDE DEF Good
<1>3. Bad = {}
  <2> SUFFICES ASSUME Bad # {} PROVE FALSE
    OBVIOUS
  <2>1. PICK n \in Bad : \A m \in Bad : n <= m
    BY LeastNumber
  <2>2. n \in Nat /\ lo <= n /\ n <= hi /\ ~ Good(n) /\ n # lo
    BY <1>1, <2>1
  <2>3. PICK p \in Nat : p + 1 = n /\ lo <= p /\ p < hi /\ ~ (n <= p)
    <3>1. n - 1 \in Nat /\ n - 1 + 1 = n /\ lo <= n - 1 /\ n - 1 < hi /\ ~ (n <= n - 1)
      BY <2>2
    <3> QED
      BY <3>1
  <2>4. Good(p)
    BY <2>1, <2>3
  <2>5. Good(p + 1)
    BY <1>2, <2>3, <2>4
  <2> QED
    BY <2>2, <2>3, <2>5
<1>4. Good(hi)
  BY <1>3
<1> QED
  BY <1>4 DEF Good, Recurses

\* The greatest of a set of numbers, if one is known to be.
LEMMA MaxIsKnown ==
  ASSUME NEW S, S \subseteq Int, NEW x \in S, \A y \in S : y <= x
  PROVE  Max(S) = x
<1>1. \A y \in S : (\A z \in S : z <= y) => y = x
  OBVIOUS
<1> QED
  BY <1>1 DEF Max

\* Two sets of numbers of which the first is part of the second, and every number of
\* the second is at most one of the first, have the same greatest number.
LEMMA MaxIsShared ==
  ASSUME NEW A, NEW B, A \subseteq B, B \subseteq Int, NEW x \in A, \A y \in A : y <= x,
         \A z \in B : \E y \in A : z <= y
  PROVE  Max(A) = x /\ Max(B) = x
<1>1. Max(A) = x
  BY MaxIsKnown
<1>2. \A z \in B : z <= x
  <2> SUFFICES ASSUME NEW z \in B PROVE z <= x
    OBVIOUS
  <2>1. PICK y \in A : z <= y
    OBVIOUS
  <2> QED
    BY <2>1
<1>3. Max(B) = x
  BY <1>2, MaxIsKnown
<1> QED
  BY <1>1, <1>3

\* Of the numbers at some indices one is the greatest.
LEMMA HighestExists ==
  ASSUME NEW lo \in Nat, NEW hi \in Nat, lo <= hi, NEW h, \A i \in lo .. hi : h[i] \in Int
  PROVE  \E i \in lo .. hi : \A j \in lo .. hi : h[j] <= h[i]
<1> DEFINE Bad == {n \in Nat : /\ lo <= n /\ n <= hi
                               /\ \A i \in lo .. n : \E j \in lo .. n : ~ (h[j] <= h[i])}
<1>1. Bad = {}
  <2> SUFFICES ASSUME Bad # {} PROVE FALSE
    OBVIOUS
  <2>1. PICK n \in Bad : \A m \in Bad : n <= m
    BY LeastNumber
  <2>2. n \in Nat /\ lo <= n /\ n <= hi
    BY <2>1
  <2>3. n # lo
    <3> SUFFICES ASSUME n = lo PROVE FALSE
      OBVIOUS
    <3>1. \E j \in lo .. lo : ~ (h[j] <= h[lo])
      BY <2>1
    <3>2. h[lo] \in Int
      BY <2>2
    <3> QED
      BY <3>1, <3>2
  <2>4. PICK p \in Nat : p + 1 = n /\ lo <= p /\ p <= hi /\ ~ (n <= p)
    <3>1. n - 1 \in Nat /\ n - 1 + 1 = n /\ lo <= n - 1 /\ n - 1 <= hi /\ ~ (n <= n - 1)
      BY <2>2, <2>3
    <3> QED
      BY <3>1
  <2>5. PICK i \in lo .. p : \A j \in lo .. p : h[j] <= h[i]
    BY <2>1, <2>4
  <2>6. i \in lo .. n /\ n \in lo .. n /\ h[i] \in Int /\ h[n] \in Int
    BY <2>2, <2>4
  <2>7. ASSUME NEW j \in lo .. n
        PROVE  h[j] \in Int /\ (j = n \/ h[j] <= h[i])
    BY <2>2, <2>4, <2>5
  <2>8. CASE h[n] <= h[i]
    <3>1. \A j \in lo .. n : h[j] <= h[i]
      BY <2>7, <2>8
    <3> QED
      BY <2>1, <2>6, <3>1
  <2>9. CASE ~ (h[n] <= h[i])
    <3>1. \A j \in lo .. n : h[j] <= h[n]
      BY <2>6, <2>7, <2>9
    <3> QED
      BY <2>1, <2>6, <3>1
  <2> QED
    BY <2>8, <2>9
<1> QED
  BY <1>1

\* A running maximum of b, from lo on.
RunningMax(b, lo, hi, g) ==
  g = [k \in lo .. hi |-> IF k = lo THEN b[lo] ELSE HigherOf(g[k - 1], b[k])]

\* There is one.
LEMMA RunningMaxExists ==
  ASSUME NEW lo \in Nat, NEW hi \in Nat, lo <= hi, NEW b, \A k \in lo .. hi : b[k] \in Int
  PROVE  \E g : RunningMax(b, lo, hi, g)
<1> DEFINE next == [p \in (lo + 1 .. hi) \X Int |-> HigherOf(p[2], b[p[1]])]
<1>1. \A k \in lo + 1 .. hi, v \in Int : next[<<k, v>>] = HigherOf(v, b[k]) /\ HigherOf(v, b[k]) \in Int
  BY DEF HigherOf
<1>2. next \in [(lo + 1 .. hi) \X Int -> Int]
  BY DEF HigherOf
<1>3. b[lo] \in Int
  OBVIOUS
<1> HIDE DEF next
<1>4. PICK g \in [lo .. hi -> Int] :
        g[lo] = b[lo] /\ \A k \in lo + 1 .. hi : g[k] = next[<<k, g[k - 1]>>]
  <2>1. \E g \in [lo .. hi -> Int] : Recurses(g, lo, hi, b[lo], next)
    BY <1>2, <1>3, RecursionExists
  <2> QED
    BY <2>1 DEF Recurses
<1>5. ASSUME NEW k \in lo .. hi
      PROVE  g[k] = IF k = lo THEN b[lo] ELSE HigherOf(g[k - 1], b[k])
  <2>1. CASE k = lo
    BY <1>4, <2>1
  <2>2. CASE k # lo
    <3>1. k \in lo + 1 .. hi /\ k - 1 \in lo .. hi
      BY <2>2
    <3>2. g[k - 1] \in Int
      BY <1>4, <3>1
    <3> QED
      BY <1>1, <1>4, <2>2, <3>1, <3>2
  <2> QED
    BY <2>1, <2>2
<1>6. g = [k \in lo .. hi |-> IF k = lo THEN b[lo] ELSE HigherOf(g[k - 1], b[k])]
  BY <1>4, <1>5
<1> QED
  BY <1>6 DEF RunningMax

\* It is the greatest of the numbers up to each index.
LEMMA RunningMaxIs ==
  ASSUME NEW lo \in Nat, NEW hi \in Nat, lo <= hi, NEW b, \A k \in lo .. hi : b[k] \in Int,
         NEW g, RunningMax(b, lo, hi, g)
  PROVE  \A k \in lo .. hi :
           /\ g[k] \in Int
           /\ \E j \in lo .. k : g[k] = b[j]
           /\ \A j \in lo .. k : b[j] <= g[k]
<1> DEFINE Right(k) == /\ g[k] \in Int
                       /\ \E j \in lo .. k : g[k] = b[j]
                       /\ \A j \in lo .. k : b[j] <= g[k]
           Bad == {k \in Nat : lo <= k /\ k <= hi /\ ~ Right(k)}
<1>1. /\ g[lo] = b[lo]
      /\ \A k \in lo .. hi : k # lo => g[k] = HigherOf(g[k - 1], b[k])
  BY DEF RunningMax
<1>2. Right(lo)
  <2>1. b[lo] \in Int /\ lo \in lo .. lo
    OBVIOUS
  <2>2. \A j \in lo .. lo : j = lo
    OBVIOUS
  <2>3. b[lo] <= b[lo]
    BY <2>1
  <2> QED
    BY <1>1, <2>1, <2>2, <2>3
<1>3. ASSUME NEW n \in Nat, lo <= n, n < hi, Right(n)
      PROVE  Right(n + 1)
  <2>1. n + 1 \in lo .. hi /\ n + 1 # lo /\ n + 1 - 1 = n
    BY <1>3
  <2>2. g[n + 1] = HigherOf(g[n], b[n + 1]) /\ b[n + 1] \in Int /\ g[n] \in Int
    BY <1>1, <1>3, <2>1
  <2>3. PICK i \in lo .. n : g[n] = b[i]
    BY <1>3
  <2>4. \A j \in lo .. n + 1 : j = n + 1 \/ (j \in lo .. n /\ b[j] \in Int /\ b[j] <= g[n])
    BY <1>3, <2>1
  <2>5. i \in lo .. n + 1 /\ n + 1 \in lo .. n + 1
    BY <1>3
  <2>6. CASE g[n] >= b[n + 1]
    <3>1. g[n + 1] = g[n]
      BY <2>2, <2>6 DEF HigherOf
    <3>2. \A j \in lo .. n + 1 : b[j] <= g[n + 1]
      BY <2>2, <2>4, <2>6, <3>1
    <3> QED
      BY <2>2, <2>3, <2>5, <3>1, <3>2
  <2>7. CASE ~ (g[n] >= b[n + 1])
    <3>1. g[n + 1] = b[n + 1]
      BY <2>2, <2>7 DEF HigherOf
    <3>2. \A j \in lo .. n + 1 : b[j] <= g[n + 1]
      BY <2>2, <2>4, <2>7, <3>1
    <3> QED
      BY <2>2, <2>5, <3>1, <3>2
  <2> QED
    BY <2>6, <2>7
<1> HIDE DEF Right
<1>4. Bad = {}
  <2> SUFFICES ASSUME Bad # {} PROVE FALSE
    OBVIOUS
  <2>1. PICK n \in Bad : \A m \in Bad : n <= m
    BY LeastNumber
  <2>2. n \in Nat /\ lo <= n /\ n <= hi /\ ~ Right(n) /\ n # lo
    BY <1>2, <2>1
  <2>3. PICK p \in Nat : p + 1 = n /\ lo <= p /\ p < hi /\ ~ (n <= p)
    <3>1. n - 1 \in Nat /\ n - 1 + 1 = n /\ lo <= n - 1 /\ n - 1 < hi /\ ~ (n <= n - 1)
      BY <2>2
    <3> QED
      BY <3>1
  <2>4. Right(p)
    BY <2>1, <2>3
  <2>5. Right(p + 1)
    BY <1>3, <2>3, <2>4
  <2> QED
    BY <2>2, <2>3, <2>5
<1> QED
  BY <1>4 DEF Right

\* What a trade brings, by its result.
ProfitBy(result) == IF result = "WIN" THEN (TradeAmount * Payout) \div 100 ELSE -TradeAmount

\* The balance before each trade, and after the last one.
BalanceBefore(k) == IF k = 1 THEN initial ELSE trades[k - 1].after

\* Every trade booked what its result brings, onto the balance before it, at a candle
\* that is past and later than those of the trades before.
TradesAreBooked ==
  /\ \A k \in DOMAIN trades :
       /\ trades[k].profit = ProfitBy(trades[k].result)
       /\ trades[k].after = BalanceBefore(k) + trades[k].profit
       /\ trades[k].candle < index
  /\ \A j, k \in DOMAIN trades : j < k => trades[j].candle < trades[k].candle

\* The balance is the last one booked, and what the trades earned on top of the first.
BalanceIsBooked ==
  /\ balance = BalanceBefore(Len(trades) + 1)
  /\ balance = initial + total_profit
  /\ analyzed = index - WindowSize

\* The inductive invariant of a run: its types, no trade after ruin, and its books.
BacktestIInv == BacktestTypeOK /\ RuinStops /\ TradesAreBooked /\ BalanceIsBooked

\* What a trade brings is a whole number of cents.
LEMMA ProfitType ==
  \A result : ProfitBy(result) \in Int
  /\ ProfitBy("WIN") \in Nat /\ ProfitBy("LOSS") = -TradeAmount /\ TradeAmount \in Nat \ {0}
<1>1. TradeAmount \in Nat \ {0} /\ Payout \in Nat
  BY BacktestAssumption
<1>2. PICK a \in Nat : a = TradeAmount * Payout
  BY <1>1
<1>3. a \div 100 \in Nat
  BY <1>2
<1> QED
  BY <1>1, <1>2, <1>3 DEF ProfitBy

\* The parts of a trade have their types.
LEMMA TradeParts ==
  ASSUME BacktestTypeOK
  PROVE  /\ Len(trades) \in Nat /\ DOMAIN trades = 1 .. Len(trades)
         /\ \A k \in DOMAIN trades : /\ trades[k].candle \in Nat /\ trades[k].result \in {"WIN", "LOSS"}
                                    /\ trades[k].profit \in Int /\ trades[k].after \in Int
<1>1. PICK T : T = [candle : Nat, result : {"WIN", "LOSS"}, profit : Int, after : Int]
  OBVIOUS
<1>2. trades \in Seq(T)
  BY <1>1 DEF BacktestTypeOK
<1>3. Len(trades) \in Nat /\ DOMAIN trades = 1 .. Len(trades)
  BY <1>2
<1>4. \A k \in DOMAIN trades : trades[k] \in T
  BY <1>2, <1>3, ElementOfSeq
<1> QED
  BY <1>1, <1>3, <1>4

\* A run begins without a trade.
LEMMA BacktestInitial == BacktestInit => BacktestIInv
<1> SUFFICES ASSUME BacktestInit PROVE BacktestIInv
  OBVIOUS
<1>1. /\ WindowSize \in Nat /\ NumCandles \in Nat /\ WindowSize <= NumCandles
      /\ StartBalances \subseteq Nat
  BY BacktestAssumption
<1>2. history \in Seq(Closes) /\ Len(history) = WindowSize + 1
  <2>1. WindowSize + 1 \in Nat
    BY <1>1
  <2> QED
    BY <2>1 DEF BacktestInit
<1>3. BacktestTypeOK
  <2>1. index = WindowSize /\ index \in WindowSize .. NumCandles
    BY <1>1 DEF BacktestInit
  <2>2. initial \in StartBalances /\ balance \in Int /\ over = FALSE /\ analyzed = 0
    BY <1>1 DEF BacktestInit
  <2>3. trades = <<>>
    BY DEF BacktestInit
  <2>4. <<>> \in Seq([candle : Nat, result : {"WIN", "LOSS"}, profit : Int, after : Int])
    OBVIOUS
  <2> QED
    BY <1>2, <2>1, <2>2, <2>3, <2>4 DEF BacktestTypeOK
<1>4. DOMAIN trades = {} /\ Len(trades) = 0
  BY DEF BacktestInit
<1>5. total_profit = 0
  <2>1. [k \in DOMAIN trades |-> trades[k].profit] \in [{} -> Int]
    BY <1>4
  <2>2. IsFiniteSet({})
    BY FS_EmptySet
  <2>3. SumFunctionOnSet([k \in DOMAIN trades |-> trades[k].profit], {}) = 0
    BY <2>1, <2>2, SumOnSet
  <2> QED
    BY <1>4, <2>3 DEF total_profit, ProfitOf
<1>6. BalanceIsBooked
  <2>1. balance = initial /\ initial \in Int /\ analyzed = 0 /\ index = WindowSize
    BY <1>1 DEF BacktestInit
  <2> QED
    BY <1>1, <1>4, <1>5, <2>1 DEF BalanceIsBooked, BalanceBefore
<1> QED
  BY <1>3, <1>4, <1>6 DEF BacktestIInv, RuinStops, TradesAreBooked

\* What the trades earned grows by what the next one earns.
LEMMA ProfitGrows ==
  ASSUME BacktestTypeOK, NEW t, t \in [candle : Nat, result : {"WIN", "LOSS"}, profit : Int, after : Int],
         trades' = Append(trades, t)
  PROVE  total_profit \in Int /\ total_profit' = total_profit + t.profit
<1> DEFINE f == [k \in DOMAIN trades |-> trades[k].profit]
           h == [k \in DOMAIN (trades') |-> trades'[k].profit]
           n == Len(trades)
<1>1. n \in Nat /\ DOMAIN trades = 1 .. n
  BY DEF BacktestTypeOK
<1>2. /\ DOMAIN (trades') = 1 .. n + 1
      /\ trades'[n + 1] = t
      /\ \A k \in 1 .. n : trades'[k] = trades[k]
  BY DEF BacktestTypeOK
<1>3. f \in [1 .. n -> Int] /\ h \in [1 .. n + 1 -> Int]
  <2>1. \A k \in 1 .. n : trades[k].profit \in Int
    BY <1>1, TradeParts
  <2>2. \A k \in 1 .. n + 1 : k \in 1 .. n \/ k = n + 1
    BY <1>1
  <2>3. t.profit \in Int
    OBVIOUS
  <2>4. \A k \in 1 .. n + 1 : trades'[k].profit \in Int
    BY <1>2, <2>1, <2>2, <2>3
  <2> QED
    BY <1>1, <1>2, <2>1, <2>4
<1>4. (\A k \in 1 .. n : h[k] = f[k]) /\ h[n + 1] = t.profit
  BY <1>1, <1>2
<1>5. IsFiniteSet(1 .. n) /\ IsFiniteSet(1 .. n + 1)
  BY <1>1, IntervalCount
<1>6. /\ n + 1 \in 1 .. n + 1 /\ (1 .. n + 1) \ {n + 1} = 1 .. n
      /\ 1 .. n \in SUBSET (1 .. n + 1) /\ 1 .. n + 1 \in SUBSET (1 .. n + 1)
      /\ 1 .. n \in SUBSET (1 .. n)
  BY <1>1
<1>7. total_profit = SumFunctionOnSet(f, 1 .. n) /\ total_profit' = SumFunctionOnSet(h, 1 .. n + 1)
  BY <1>1, <1>2 DEF total_profit, ProfitOf
<1> HIDE DEF f, h, n
<1>8. SumFunctionOnSet(h, 1 .. n + 1) = h[n + 1] + SumFunctionOnSet(h, 1 .. n)
  <2>1. PICK S : S = 1 .. n + 1
    OBVIOUS
  <2>2. IsFiniteSet(S) /\ h \in [S -> Int] /\ S \in SUBSET S /\ n + 1 \in S
    BY <1>3, <1>5, <1>6, <2>1
  <2>3. SumFunctionOnSet(h, S) = h[n + 1] + SumFunctionOnSet(h, S \ {n + 1})
    BY <2>2, SumOnSet
  <2> QED
    BY <1>6, <2>1, <2>3
<1>9. SumFunctionOnSet(h, 1 .. n) = SumFunctionOnSet(f, 1 .. n)
  <2>1. PICK S, R : S = 1 .. n + 1 /\ R = 1 .. n
    OBVIOUS
  <2>2. /\ IsFiniteSet(S) /\ h \in [S -> Int] /\ IsFiniteSet(R) /\ f \in [R -> Int]
        /\ R \in SUBSET S /\ R \in SUBSET R /\ \A x \in R : h[x] = f[x]
    BY <1>3, <1>4, <1>5, <1>6, <2>1
  <2>3. SumFunctionOnSet(h, R) = SumFunctionOnSet(f, R)
    BY SMTT(30), <2>2, SumAgrees
  <2> QED
    BY <2>1, <2>3
<1>10. SumFunctionOnSet(f, 1 .. n) \in Int
  BY <1>3, <1>5, <1>6, SumOnSet
<1> QED
  BY <1>4, <1>7, <1>8, <1>9, <1>10

\* A candle without a trade leaves the books alone.
LEMMA HoldKeepsBooks ==
  ASSUME BacktestIInv, NEW close \in Closes, HoldsStill(close)
  PROVE  BacktestIInv'
<1>1. /\ index \in Nat /\ NumCandles \in Nat /\ WindowSize \in Nat /\ analyzed \in Nat
      /\ WindowSize <= index /\ index < NumCandles - 1
  BY BacktestAssumption DEF BacktestIInv, BacktestTypeOK, HoldsStill, InRange
<1>2. BacktestTypeOK'
  <2>1. Append(history, close) \in Seq(Closes) /\ Len(Append(history, close)) = index + 1 + 1
    <3>1. history \in Seq(Closes) /\ Len(history) = index + 1
      BY DEF BacktestIInv, BacktestTypeOK
    <3> QED
      BY <3>1
  <2>2. index + 1 \in WindowSize .. NumCandles /\ analyzed + 1 \in Nat
    BY <1>1
  <2> QED
    BY <2>1, <2>2 DEF BacktestIInv, BacktestTypeOK, HoldsStill
<1>3. RuinStops'
  BY DEF BacktestIInv, RuinStops, HoldsStill
<1>4. TradesAreBooked'
  <2>1. \A k \in DOMAIN trades : trades[k].candle \in Nat
    BY TradeParts DEF BacktestIInv
  <2>2. \A k \in DOMAIN trades : trades[k].candle < index + 1
    BY <1>1, <2>1 DEF BacktestIInv, TradesAreBooked
  <2> QED
    BY <2>2 DEF BacktestIInv, TradesAreBooked, HoldsStill, BalanceBefore
<1>5. BalanceIsBooked'
  <2>1. analyzed + 1 = index + 1 - WindowSize
    BY <1>1 DEF BacktestIInv, BalanceIsBooked
  <2>2. total_profit' = total_profit
    BY DEF total_profit, ProfitOf, HoldsStill
  <2>3. trades' = trades /\ initial' = initial /\ balance' = balance
    BY DEF HoldsStill
  <2>4. BalanceBefore(Len(trades) + 1)' = BalanceBefore(Len(trades) + 1)
    BY <2>3 DEF BalanceBefore
  <2>5. balance' = BalanceBefore(Len(trades) + 1)' /\ balance' = initial' + total_profit'
    BY <2>2, <2>3, <2>4 DEF BacktestIInv, BalanceIsBooked
  <2>6. analyzed' = index' - WindowSize
    BY <1>1, <2>1 DEF HoldsStill
  <2> QED
    BY <2>5, <2>6 DEF BalanceIsBooked
<1> QED
  BY <1>2, <1>3, <1>4, <1>5 DEF BacktestIInv

\* A trade is booked onto the last balance.
LEMMA TradeKeepsBooks ==
  ASSUME BacktestIInv, NEW close \in Closes, NEW d \in {"CALL", "PUT"}, TradesCandle(d, close)
  PROVE  BacktestIInv'
<1>1. /\ index \in Nat /\ NumCandles \in Nat /\ WindowSize \in Nat /\ analyzed \in Nat
      /\ WindowSize <= index /\ index < NumCandles - 1 /\ ~ over
  BY BacktestAssumption DEF BacktestIInv, BacktestTypeOK, TradesCandle, InRange
<1>2. PICK t : /\ t.candle = index /\ t.result \in {"WIN", "LOSS"}
               /\ t.profit = ProfitBy(t.result) /\ t.after = balance + t.profit
               /\ t = [candle |-> t.candle, result |-> t.result, profit |-> t.profit, after |-> t.after]
               /\ trades' = Append(trades, t) /\ balance' = t.after /\ over' = (t.after <= 0)
  <2> DEFINE w == Wins(d, Price(index), close)
             t == TradeOf(d, close)
  <2>1. trades' = Append(trades, t) /\ balance' = t.after /\ over' = (t.after <= 0)
    BY DEF TradesCandle
  <2>2. t = [candle |-> index, result |-> IF w THEN "WIN" ELSE "LOSS",
             profit |-> IF w THEN (TradeAmount * Payout) \div 100 ELSE -TradeAmount,
             after |-> balance + IF w THEN (TradeAmount * Payout) \div 100 ELSE -TradeAmount]
    BY DEF TradeOf
  <2> HIDE DEF w, t
  <2>3. CASE w
    BY <2>1, <2>2, <2>3 DEF ProfitBy
  <2>4. CASE ~ w
    BY <2>1, <2>2, <2>4 DEF ProfitBy
  <2> QED
    BY <2>3, <2>4
<1>3. t.profit \in Int /\ balance \in Int /\ t.after \in Int
  BY <1>2, ProfitType DEF BacktestIInv, BacktestTypeOK
<1>4. t \in [candle : Nat, result : {"WIN", "LOSS"}, profit : Int, after : Int]
  BY <1>1, <1>2, <1>3
<1> DEFINE n == Len(trades)
<1>5. n \in Nat /\ DOMAIN trades = 1 .. n
  BY DEF BacktestIInv, BacktestTypeOK
<1>6. /\ DOMAIN (trades') = 1 .. n + 1 /\ Len(trades') = n + 1
      /\ trades'[n + 1] = t
      /\ \A k \in 1 .. n : trades'[k] = trades[k]
  BY <1>2, <1>4 DEF BacktestIInv, BacktestTypeOK
<1>7. \A k \in 1 .. n + 1 : k \in 1 .. n \/ k = n + 1
  BY <1>5
<1>8. /\ history' = Append(history, close) /\ index' = index + 1
      /\ analyzed' = analyzed + 1 /\ initial' = initial
  BY DEF TradesCandle
<1>9. BacktestTypeOK'
  <2>1. Append(history, close) \in Seq(Closes) /\ Len(Append(history, close)) = index + 1 + 1
    <3>1. history \in Seq(Closes) /\ Len(history) = index + 1
      BY DEF BacktestIInv, BacktestTypeOK
    <3> QED
      BY <3>1
  <2>2. index + 1 \in WindowSize .. NumCandles /\ analyzed + 1 \in Nat
    BY <1>1
  <2>3. trades' \in Seq([candle : Nat, result : {"WIN", "LOSS"}, profit : Int, after : Int])
    BY <1>2, <1>4 DEF BacktestIInv, BacktestTypeOK
  <2>4. over' \in BOOLEAN
    BY <1>2
  <2>5. initial' \in StartBalances /\ balance' \in Int
    BY <1>2, <1>3, <1>8 DEF BacktestIInv, BacktestTypeOK
  <2> QED
    BY <1>8, <2>1, <2>2, <2>3, <2>4, <2>5 DEF BacktestTypeOK
<1> HIDE DEF n
<1>10. RuinStops'
  <2>1. \A k \in 1 .. n : ~ (trades[k].after <= 0)
    BY <1>1, <1>5 DEF BacktestIInv, RuinStops
  <2>2. ASSUME NEW k \in 1 .. n + 1, trades'[k].after <= 0
        PROVE  k = n + 1 /\ over'
    BY <1>2, <1>6, <1>7, <2>1, <2>2
  <2> QED
    BY <1>6, <2>2 DEF RuinStops
<1>11. \A k \in 1 .. n + 1 : BalanceBefore(k)' = BalanceBefore(k)
  <2> SUFFICES ASSUME NEW k \in 1 .. n + 1, k # 1 PROVE trades'[k - 1] = trades[k - 1]
    BY <1>8 DEF BalanceBefore
  <2>1. k - 1 \in 1 .. n
    BY <1>5
  <2> QED
    BY <1>6, <2>1
<1>12. balance = BalanceBefore(n + 1)
  BY DEF BacktestIInv, BalanceIsBooked, n
<1>13. TradesAreBooked'
  <2>1. \A k \in 1 .. n : /\ trades[k].candle \in Nat /\ trades[k].candle < index
                          /\ trades[k].profit = ProfitBy(trades[k].result)
                          /\ trades[k].after = BalanceBefore(k) + trades[k].profit
    <3>1. \A k \in 1 .. n : trades[k].candle \in Nat
      BY <1>5, TradeParts DEF BacktestIInv
    <3> QED
      BY <1>5, <3>1 DEF BacktestIInv, TradesAreBooked
  <2>2. \A r : ProfitBy(r)' = ProfitBy(r)
    BY DEF ProfitBy
  <2>3. \A k \in 1 .. n + 1 : /\ trades'[k].profit = ProfitBy(trades'[k].result)
                              /\ trades'[k].after = BalanceBefore(k) + trades'[k].profit
    BY <1>2, <1>6, <1>7, <1>12, <2>1
  <2>4. \A k \in 1 .. n + 1 : trades'[k].candle < index + 1
    BY <1>1, <1>2, <1>6, <1>7, <2>1
  <2>5. ASSUME NEW j \in 1 .. n + 1, NEW k \in 1 .. n + 1, j < k
        PROVE  trades'[j].candle < trades'[k].candle
    <3>1. j \in 1 .. n
      BY <1>5, <2>5
    <3>2. CASE k = n + 1
      BY <1>2, <1>6, <2>1, <3>1, <3>2
    <3>3. CASE k \in 1 .. n
      BY <1>5, <1>6, <2>5, <3>1, <3>3 DEF BacktestIInv, TradesAreBooked
    <3> QED
      BY <1>7, <3>2, <3>3
  <2> QED
    BY <1>6, <1>8, <1>11, <2>2, <2>3, <2>4, <2>5 DEF TradesAreBooked
<1>14. BalanceIsBooked'
  <2>1. total_profit \in Int /\ total_profit' = total_profit + t.profit
    BY <1>2, <1>4, ProfitGrows DEF BacktestIInv
  <2>2. balance' = initial' + total_profit'
    <3>1. initial \in Int /\ balance = initial + total_profit
      BY BacktestAssumption DEF BacktestIInv, BacktestTypeOK, BalanceIsBooked
    <3> QED
      BY <1>2, <1>3, <1>8, <2>1, <3>1
  <2>3. n + 1 + 1 # 1 /\ n + 1 + 1 - 1 = n + 1
    BY <1>5
  <2>4. balance' = BalanceBefore(Len(trades) + 1)'
    BY <1>2, <1>6, <2>3 DEF BalanceBefore
  <2>5. analyzed' = index' - WindowSize
    BY <1>1, <1>8 DEF BacktestIInv, BalanceIsBooked
  <2> QED
    BY <2>2, <2>4, <2>5 DEF BalanceIsBooked
<1> QED
  BY <1>9, <1>10, <1>13, <1>14 DEF BacktestIInv

\* Every step keeps the books.
LEMMA BacktestInductive == BacktestIInv /\ [BacktestNext]_backtestVars => BacktestIInv'
<1> SUFFICES ASSUME BacktestIInv, [BacktestNext]_backtestVars PROVE BacktestIInv'
  OBVIOUS
<1>1. ASSUME NEW close \in Closes, HoldsStill(close)
      PROVE  BacktestIInv'
  BY <1>1, HoldKeepsBooks
<1>2. ASSUME NEW close \in Closes, NEW d \in {"CALL", "PUT"}, TradesCandle(d, close)
      PROVE  BacktestIInv'
  BY <1>2, TradeKeepsBooks
<1>3. CASE RunEnds
  <2>1. UNCHANGED <<history, index, initial, balance, trades, analyzed>> /\ over' = TRUE
    BY <1>3 DEF RunEnds
  <2>2. total_profit' = total_profit
    BY <2>1 DEF total_profit, ProfitOf
  <2> QED
    BY <2>1, <2>2 DEF BacktestIInv, BacktestTypeOK, RuinStops, TradesAreBooked,
                      BalanceIsBooked, BalanceBefore
<1>4. CASE UNCHANGED backtestVars
  <2>1. total_profit' = total_profit
    BY <1>4 DEF total_profit, ProfitOf, backtestVars
  <2> QED
    BY <1>4, <2>1 DEF BacktestIInv, BacktestTypeOK, RuinStops, TradesAreBooked,
                      BalanceIsBooked, BalanceBefore, backtestVars
<1> QED
  BY <1>1, <1>2, <1>3, <1>4 DEF BacktestNext

\* A whole number of times a number, divided by how often, is the number.
LEMMA DivisionIsExact ==
  ASSUME NEW c \in Nat \ {0}, NEW a \in Nat
  PROVE  (c * a) \div c = a
OBVIOUS

\* The figures of the trades count the same money as the balance.
LEMMA BooksDoAgree ==
  ASSUME BacktestIInv
  PROVE  BooksAgree
<1> DEFINE n == Len(trades)
           f == [k \in DOMAIN trades |-> trades[k].profit]
           W == won
           L == lost
<1>1. /\ n \in Nat /\ DOMAIN trades = 1 .. n
      /\ \A k \in 1 .. n : /\ trades[k].result \in {"WIN", "LOSS"} /\ trades[k].profit \in Int
                           /\ trades[k].profit = ProfitBy(trades[k].result)
  BY TradeParts DEF BacktestIInv, TradesAreBooked
<1>2. f \in [1 .. n -> Int] /\ IsFiniteSet(1 .. n) /\ Cardinality(1 .. n) = n
  <2>1. IsFiniteSet(1 .. n) /\ Cardinality(1 .. n) = n
    BY <1>1, IntervalCount
  <2> QED
    BY <1>1, <2>1
<1>3. /\ W \in SUBSET (1 .. n) /\ L \in SUBSET (1 .. n) /\ W \cap L = {} /\ W \cup L = 1 .. n
      /\ \A k \in W : f[k] = ProfitBy("WIN")
      /\ \A k \in L : f[k] = ProfitBy("LOSS")
  BY <1>1 DEF won, lost
<1>4. /\ total_profit = SumFunctionOnSet(f, 1 .. n)
      /\ ProfitOf(won) = SumFunctionOnSet(f, W) /\ ProfitOf(lost) = SumFunctionOnSet(f, L)
  BY <1>1 DEF total_profit, ProfitOf
<1> HIDE DEF n, f, W, L
<1>5. /\ IsFiniteSet(W) /\ Cardinality(W) \in Nat /\ (Cardinality(W) = 0 <=> W = {})
      /\ IsFiniteSet(L) /\ Cardinality(L) \in Nat /\ (Cardinality(L) = 0 <=> L = {})
  BY <1>2, <1>3, FS_Subset, FS_CardinalityType, FS_EmptySet
<1>6. n = Cardinality(W) + Cardinality(L)
  <2>1. Cardinality(W \cup L) = Cardinality(W) + Cardinality(L) - Cardinality(W \cap L)
    BY <1>5, FS_Union
  <2>2. Cardinality(W \cap L) = 0
    BY <1>3, FS_EmptySet
  <2>3. Cardinality(W \cup L) = n
    BY <1>2, <1>3
  <2> QED
    BY <1>5, <2>1, <2>2, <2>3
<1>7. PICK a \in Nat : a = ProfitBy("WIN")
  BY ProfitType
<1>8. TradeAmount \in Nat \ {0} /\ -TradeAmount \in Int /\ ProfitBy("LOSS") = -TradeAmount
  BY ProfitType
<1>9. PICK S : S = 1 .. n
  OBVIOUS
<1>10. SumFunctionOnSet(f, W) = Cardinality(W) * a
  <2>1. /\ IsFiniteSet(S) /\ f \in [S -> Int] /\ W \in SUBSET S
        /\ \A k \in W : f[k] = a
    BY <1>2, <1>3, <1>7, <1>9
  <2> QED
    BY <2>1, SumOfEqual
<1>11. SumFunctionOnSet(f, L) = Cardinality(L) * (-TradeAmount)
  <2>1. /\ IsFiniteSet(S) /\ f \in [S -> Int] /\ L \in SUBSET S
        /\ \A k \in L : f[k] = -TradeAmount
    BY <1>2, <1>3, <1>8, <1>9
  <2> QED
    BY <1>8, <2>1, SumOfEqual
<1>12. total_profit = ProfitOf(won) + ProfitOf(lost)
  <2>1. IsFiniteSet(S) /\ f \in [S -> Int] /\ W \in SUBSET S /\ L \in SUBSET S /\ W \cap L = {}
    BY <1>2, <1>3, <1>9
  <2>2. SumFunctionOnSet(f, W \cup L) = SumFunctionOnSet(f, W) + SumFunctionOnSet(f, L)
    BY <2>1, SumOfParts
  <2> QED
    BY <1>3, <1>4, <2>2
<1>13. PICK c \in Nat, e \in Nat, v \in Nat : c = Cardinality(W) /\ e = Cardinality(L) /\ v = TradeAmount
  BY <1>5, <1>8
<1>14. ProfitOf(won) = c * a /\ ProfitOf(lost) = -(e * v)
  <2>1. e * (-v) = -(e * v)
    OBVIOUS
  <2> QED
    BY <1>4, <1>10, <1>11, <1>13, <2>1
<1>15. winning_trades * avg_win = c * a
  <2>1. winning_trades = c
    BY <1>13 DEF winning_trades, W
  <2>2. CASE W = {}
    <3>1. c = 0 /\ avg_win = 0
      BY <1>5, <1>13, <2>2 DEF avg_win, W
    <3>2. 0 * 0 = 0 /\ 0 * a = 0
      OBVIOUS
    <3> QED
      BY <2>1, <3>1, <3>2
  <2>3. CASE W # {}
    <3>1. c \in Nat \ {0}
      BY <1>5, <1>13, <2>3
    <3>2. avg_win = (c * a) \div c
      BY <1>13, <1>14, <2>3 DEF avg_win, W
    <3>3. avg_win = a
      BY <3>1, <3>2, DivisionIsExact
    <3> QED
      BY <2>1, <3>3
  <2> QED
    BY <2>2, <2>3
<1>16. (Len(trades) - winning_trades) * avg_loss = -(e * v)
  <2>1. Len(trades) - winning_trades = e
    BY <1>6, <1>13 DEF winning_trades, W, n
  <2>2. CASE L = {}
    <3>1. e = 0 /\ avg_loss = 0
      BY <1>5, <1>13, <2>2 DEF avg_loss, L
    <3>2. 0 * 0 = 0 /\ -(0 * v) = 0
      OBVIOUS
    <3> QED
      BY <2>1, <3>1, <3>2
  <2>3. CASE L # {}
    <3>1. e \in Nat \ {0}
      BY <1>5, <1>13, <2>3
    <3>2. e * v \in Nat /\ -(-(e * v)) = e * v
      OBVIOUS
    <3>3. avg_loss = -((e * v) \div e)
      BY <1>13, <1>14, <2>3, <3>2 DEF avg_loss, L
    <3>4. avg_loss = -v
      BY <3>1, <3>3, DivisionIsExact
    <3>5. e * (-v) = -(e * v)
      OBVIOUS
    <3> QED
      BY <2>1, <3>4, <3>5
  <2> QED
    BY <2>2, <2>3
<1>17. expectancy = total_profit
  BY <1>12, <1>14, <1>15, <1>16 DEF expectancy
<1>18. profit_factor[1] > profit_factor[2] <=> expectancy > 0
  <2>1. PICK x \in Int, y \in Int : x = c * a /\ y = e * v
    OBVIOUS
  <2>2. profit_factor[1] = x /\ profit_factor[2] = y /\ expectancy = x - y
    BY <1>12, <1>14, <1>17, <2>1 DEF profit_factor
  <2> QED
    BY <2>2
<1> QED
  BY <1>17, <1>18 DEF BooksAgree, BacktestIInv, BalanceIsBooked, TradesAreBooked

\* The falls from one of m numbers to a later one, or to itself.
Falls(b, m) == {b[p[1]] - b[p[2]] : p \in {q \in (1 .. m) \X (1 .. m) : q[1] <= q[2]}}
\* How far each of them is below the peak so far.
BelowPeak(b, top, m) == {top[k] - b[k] : k \in 1 .. m}
\* The greatest of the one and of the other are the same, d.
DeepestIs(b, top, m, d) ==
  /\ d \in BelowPeak(b, top, m) /\ \A y \in BelowPeak(b, top, m) : y <= d
  /\ BelowPeak(b, top, m) \subseteq Int
  /\ Max(BelowPeak(b, top, m)) = d /\ Max(Falls(b, m)) = d

\* The deepest drawdown is the deepest fall.
LEMMA DeepestFall ==
  ASSUME NEW m \in Nat \ {0}, NEW b, NEW top, \A k \in 1 .. m : b[k] \in Int, RunningMax(b, 1, m, top)
  PROVE  \E d : DeepestIs(b, top, m, d)
<1>1. \A k \in 1 .. m : /\ top[k] \in Int
                        /\ \E j \in 1 .. k : top[k] = b[j]
                        /\ \A j \in 1 .. k : b[j] <= top[k]
  <2>1. 1 \in Nat /\ m \in Nat /\ 1 <= m
    OBVIOUS
  <2> QED
    BY <2>1, RunningMaxIs
<1> DEFINE h == [k \in 1 .. m |-> top[k] - b[k]]
           A == BelowPeak(b, top, m)
           B == Falls(b, m)
<1>2. PICK i \in 1 .. m : \A j \in 1 .. m : h[j] <= h[i]
  <2>1. 1 \in Nat /\ m \in Nat /\ 1 <= m /\ \A k \in 1 .. m : h[k] \in Int
    BY <1>1
  <2> HIDE DEF h
  <2> QED
    BY <2>1, HighestExists
<1>3. h[i] \in A /\ \A y \in A : y <= h[i]
  BY <1>2 DEF BelowPeak
<1>4. A \subseteq B
  <2> SUFFICES ASSUME NEW k \in 1 .. m PROVE top[k] - b[k] \in B
    BY DEF BelowPeak
  <2>1. PICK j \in 1 .. k : top[k] = b[j]
    BY <1>1
  <2>2. j \in 1 .. m /\ j <= k
    OBVIOUS
  <2>3. <<j, k>> \in {q \in (1 .. m) \X (1 .. m) : q[1] <= q[2]}
    BY <2>2
  <2> QED
    BY <2>1, <2>3 DEF Falls
<1>5. ASSUME NEW z \in B
      PROVE  z \in Int /\ \E y \in A : z <= y
  <2>1. PICK p \in {q \in (1 .. m) \X (1 .. m) : q[1] <= q[2]} : z = b[p[1]] - b[p[2]]
    BY DEF Falls
  <2>2. p[1] \in 1 .. m /\ p[2] \in 1 .. m /\ p[1] <= p[2] /\ p[1] \in 1 .. p[2]
    OBVIOUS
  <2>3. b[p[1]] <= top[p[2]] /\ top[p[2]] \in Int /\ b[p[1]] \in Int /\ b[p[2]] \in Int
    BY <1>1, <2>2
  <2>4. z \in Int /\ z <= top[p[2]] - b[p[2]]
    BY <2>1, <2>3
  <2> QED
    BY <2>2, <2>4 DEF BelowPeak
<1> HIDE DEF A, B
<1>6. Max(A) = h[i] /\ Max(B) = h[i]
  <2>1. A \subseteq B /\ B \subseteq Int /\ h[i] \in A /\ (\A y \in A : y <= h[i]) /\ \A z \in B : \E y \in A : z <= y
    BY <1>3, <1>4, <1>5
  <2> HIDE DEF h
  <2> QED
    BY <2>1, MaxIsShared
<1>7. A \subseteq Int
  BY <1>4, <1>5
<1> QED
  BY <1>3, <1>6, <1>7 DEF DeepestIs, A, B

\* The balances of the books: the first one, and the one after each trade.
LEMMA BookIs ==
  ASSUME BacktestIInv
  PROVE  /\ DOMAIN BookBalances = 1 .. Len(trades) + 1 /\ Len(trades) \in Nat
         /\ initial \in Nat \ {0} /\ BookBalances[1] = initial
         /\ \A k \in 1 .. Len(trades) + 1 : BookBalances[k] \in Int /\ BookBalances[k] = BalanceBefore(k)
         /\ \A k \in 1 .. Len(trades) : BookBalances[k + 1] = trades[k].after
<1> DEFINE n == Len(trades)
           s == [k \in DOMAIN trades |-> trades[k].after]
<1>1. /\ n \in Nat /\ DOMAIN trades = 1 .. n
      /\ \A k \in 1 .. n : trades[k].after \in Int
  BY TradeParts DEF BacktestIInv
<1>2. initial \in Nat \ {0}
  BY BacktestAssumption DEF BacktestIInv, BacktestTypeOK
<1>3. s \in Seq(Int) /\ Len(s) = n
  <2>1. s \in [1 .. n -> Int]
    BY <1>1
  <2> HIDE DEF s, n
  <2> QED
    BY <1>1, <2>1
<1>4. \A k \in 1 .. n : s[k] = trades[k].after
  BY <1>1
<1>5. BookBalances = <<initial>> \o s
  BY DEF BookBalances
<1> HIDE DEF s, n
<1>6. <<initial>> \in Seq(Int) /\ Len(<<initial>>) = 1 /\ <<initial>>[1] = initial
  BY <1>2
<1>7. PICK a : a = <<initial>>
  OBVIOUS
<1>8. /\ a \o s \in Seq(Int) /\ Len(a \o s) = n + 1
      /\ \A k \in 1 .. n + 1 : (a \o s)[k] = IF k <= 1 THEN a[k] ELSE s[k - 1]
  BY <1>1, <1>3, <1>6, <1>7, ConcatProperties
<1>9. DOMAIN BookBalances = 1 .. n + 1 /\ BookBalances[1] = initial
  BY <1>1, <1>5, <1>6, <1>7, <1>8
<1>10. \A k \in 1 .. n : k + 1 \in 1 .. n + 1 /\ ~ (k + 1 <= 1) /\ k + 1 - 1 = k
  BY <1>1
<1>11. \A k \in 1 .. n : BookBalances[k + 1] = trades[k].after
  BY <1>4, <1>5, <1>7, <1>8, <1>10
<1>12. ASSUME NEW k \in 1 .. n + 1
       PROVE  BookBalances[k] \in Int /\ BookBalances[k] = BalanceBefore(k)
  <2>1. CASE k = 1
    BY <1>2, <1>9, <2>1 DEF BalanceBefore
  <2>2. CASE k # 1
    <3>1. k - 1 \in 1 .. n /\ k - 1 + 1 = k
      BY <1>1, <2>2
    <3> QED
      BY <1>1, <1>11, <2>2, <3>1 DEF BalanceBefore
  <2> QED
    BY <2>1, <2>2
<1> QED
  BY <1>1, <1>2, <1>9, <1>11, <1>12 DEF n

\* The peak of the books is their running maximum.
LEMMA PeakIs ==
  ASSUME BacktestIInv
  PROVE  RunningMax(BookBalances, 1, Len(trades) + 1, Peak)
<1> DEFINE P(g) == g = [k \in DOMAIN BookBalances |->
                          IF k = 1 THEN BookBalances[1] ELSE HigherOf(g[k - 1], BookBalances[k])]
<1>1. PICK m \in Nat \ {0} : m = Len(trades) + 1
  BY BookIs
<1>2. DOMAIN BookBalances = 1 .. m /\ \A k \in 1 .. m : BookBalances[k] \in Int
  BY <1>1, BookIs
<1>3. \E g : RunningMax(BookBalances, 1, m, g)
  <2>1. 1 \in Nat /\ m \in Nat /\ 1 <= m
    OBVIOUS
  <2> QED
    BY <1>2, <2>1, RunningMaxExists
<1>4. \E g : P(g)
  BY <1>2, <1>3 DEF RunningMax
<1>5. Peak = CHOOSE g : P(g)
  BY DEF Peak
<1>6. P(Peak)
  BY <1>4, <1>5
<1> QED
  BY <1>1, <1>2, <1>6 DEF RunningMax

\* The drawdown of the books, d, by the balances: it is max_drawdown, and the falls agree.
LEMMA DrawdownIs ==
  ASSUME BacktestIInv
  PROVE  /\ DeepestIs(BookBalances, Peak, Len(trades) + 1, max_drawdown)
         /\ max_drawdown \in Int /\ 0 <= max_drawdown
<1>1. PICK m \in Nat \ {0} : m = Len(trades) + 1
  BY BookIs
<1>2. DOMAIN BookBalances = 1 .. m /\ \A k \in 1 .. m : BookBalances[k] \in Int
  BY <1>1, BookIs
<1>3. RunningMax(BookBalances, 1, m, Peak)
  BY <1>1, PeakIs
<1>4. PICK d : DeepestIs(BookBalances, Peak, m, d)
  BY <1>2, <1>3, DeepestFall
<1>5. Peak[1] = BookBalances[1] /\ BookBalances[1] \in Int /\ 1 \in 1 .. m
  BY <1>2, <1>3 DEF RunningMax
<1>6. d \in Int /\ 0 <= d
  <2>1. d \in Int
    BY <1>4 DEF DeepestIs
  <2>2. Peak[1] - BookBalances[1] = 0
    BY <1>5
  <2>3. 0 \in BelowPeak(BookBalances, Peak, m)
    BY <1>5, <2>2 DEF BelowPeak
  <2> QED
    BY <1>4, <2>1, <2>3 DEF DeepestIs
<1>7. max_drawdown = d
  <2>1. CASE trades = <<>>
    <3>1. m = 1
      BY <1>1, <2>1
    <3>2. \A k \in 1 .. m : Peak[k] - BookBalances[k] = 0
      BY <1>5, <3>1
    <3>3. d = 0
      BY <1>4, <3>2 DEF DeepestIs, BelowPeak
    <3> QED
      BY <2>1, <3>3 DEF max_drawdown
  <2>2. CASE trades # <<>>
    <3>1. {Drawdowns[k] : k \in DOMAIN BookBalances} = BelowPeak(BookBalances, Peak, m)
      BY <1>2 DEF Drawdowns, BelowPeak
    <3> QED
      BY <1>4, <2>2, <3>1 DEF max_drawdown, DeepestIs
  <2> QED
    BY <2>1, <2>2
<1> QED
  BY <1>1, <1>4, <1>6, <1>7

\* A share of more than the whole of p is more than p.
LEMMA MoreThanAll ==
  ASSUME NEW d \in Int, NEW p \in Nat \ {0}, (d * 100) \div p > 100
  PROVE  d > p
<1>1. PICK q \in Int : q = (d * 100) \div p
  OBVIOUS
<1>2. p * q <= d * 100
  BY <1>1
<1>3. p * q >= p * 101
  BY <1>1
<1> QED
  BY <1>2, <1>3

\* Who loses more than the whole peak ends in debt: the balance is below 0 then, and
\* such a balance is the last one.
LEMMA DebtEndsIt ==
  ASSUME BacktestIInv, max_drawdown_pct > 100
  PROVE  balance < 0
<1>1. PICK m \in Nat \ {0} : m = Len(trades) + 1
  BY BookIs
<1>2. /\ DOMAIN BookBalances = 1 .. m /\ \A k \in 1 .. m : BookBalances[k] \in Int
      /\ initial \in Nat \ {0} /\ BookBalances[1] = initial
  BY <1>1, BookIs
<1>3. \A k \in 1 .. m : Peak[k] \in Int /\ BookBalances[1] <= Peak[k]
  <2>1. RunningMax(BookBalances, 1, m, Peak) /\ 1 \in Nat /\ m \in Nat /\ 1 <= m
    BY <1>1, PeakIs
  <2>2. \A k \in 1 .. m : Peak[k] \in Int /\ \A j \in 1 .. k : BookBalances[j] <= Peak[k]
    BY <1>2, <2>1, RunningMaxIs
  <2>3. \A k \in 1 .. m : 1 \in 1 .. k
    OBVIOUS
  <2> QED
    BY <2>2, <2>3
<1>4. trades # <<>>
  BY DEF max_drawdown_pct
<1> DEFINE D == {k \in DOMAIN BookBalances : Drawdowns[k] = max_drawdown}
           e == Min(D)
<1>5. (Drawdowns[e] * 100) \div Peak[e] > 100
  BY <1>4 DEF max_drawdown_pct
<1>6. e \in D
  <2>1. D # {}
    <3>1. max_drawdown \in BelowPeak(BookBalances, Peak, m)
      BY <1>1, DrawdownIs DEF DeepestIs
    <3>2. PICK k \in 1 .. m : max_drawdown = Peak[k] - BookBalances[k]
      BY <3>1 DEF BelowPeak
    <3>3. k \in D
      BY <1>2, <3>2 DEF Drawdowns
    <3> QED
      BY <3>3
  <2>2. D \subseteq Nat
    BY <1>2
  <2> HIDE DEF D
  <2>3. \E x \in D : \A y \in D : x <= y
    BY <2>1, <2>2, LeastNumber
  <2> QED
    BY <2>3 DEF Min
<1>7. e \in 1 .. m /\ Drawdowns[e] = Peak[e] - BookBalances[e]
  BY <1>2, <1>6 DEF Drawdowns
<1> HIDE DEF e, D
<1>8. PICK d \in Int, p \in Nat \ {0}, b \in Int :
        d = Drawdowns[e] /\ p = Peak[e] /\ b = BookBalances[e] /\ d = p - b
  <2>1. BookBalances[e] \in Int /\ Peak[e] \in Int /\ initial <= Peak[e]
    BY <1>2, <1>3, <1>7
  <2>2. Peak[e] \in Nat \ {0} /\ Peak[e] - BookBalances[e] \in Int
    BY <1>2, <2>1
  <2> QED
    BY <1>7, <2>1, <2>2
<1>9. (d * 100) \div p > 100
  BY <1>5, <1>8
<1>10. d > p
  BY <1>9, MoreThanAll
<1>11. b < 0
  BY <1>8, <1>10
<1>12. e # 1
  BY <1>2, <1>8, <1>11
<1>13. e - 1 \in 1 .. Len(trades) /\ e - 1 + 1 = e /\ DOMAIN trades = 1 .. Len(trades)
  BY <1>1, <1>7, <1>12, TradeParts, BookIs DEF BacktestIInv
<1>14. trades[e - 1].after = b
  BY <1>8, <1>13, BookIs
<1>15. trades[e - 1].after <= 0
  BY <1>11, <1>14
<1>16. e - 1 = Len(trades)
  BY <1>13, <1>15 DEF BacktestIInv, RuinStops
<1>17. Len(trades) + 1 # 1
  BY <1>13
<1>18. balance = trades[Len(trades) + 1 - 1].after
  BY <1>17 DEF BacktestIInv, BalanceIsBooked, BalanceBefore
<1> QED
  BY <1>11, <1>13, <1>14, <1>16, <1>18

\* The count of the trades in a row that ended with one result.
CountOf(result, g) ==
  g = [k \in 0 .. Len(trades) |-> IF k = 0 \/ trades[k].result # result THEN 0 ELSE g[k - 1] + 1]

\* There is one.
LEMMA CountExists ==
  ASSUME BacktestIInv, NEW result
  PROVE  \E g : CountOf(result, g)
<1> DEFINE n == Len(trades)
           next == [p \in (0 + 1 .. n) \X Nat |-> IF trades[p[1]].result # result THEN 0 ELSE p[2] + 1]
<1>1. n \in Nat
  BY TradeParts DEF BacktestIInv
<1>2. next \in [(0 + 1 .. n) \X Nat -> Nat]
  OBVIOUS
<1>3. \A k \in 0 + 1 .. n, v \in Nat :
        next[<<k, v>>] = IF trades[k].result # result THEN 0 ELSE v + 1
  OBVIOUS
<1> HIDE DEF n, next
<1>4. PICK g \in [0 .. n -> Nat] : g[0] = 0 /\ \A k \in 0 + 1 .. n : g[k] = next[<<k, g[k - 1]>>]
  <2>1. 0 \in Nat /\ n \in Nat /\ 0 <= n /\ 0 \in Nat
    BY <1>1
  <2>2. \E g \in [0 .. n -> Nat] : Recurses(g, 0, n, 0, next)
    BY <1>2, <2>1, RecursionExists
  <2> QED
    BY <2>2 DEF Recurses
<1>5. ASSUME NEW k \in 0 .. n
      PROVE  g[k] = IF k = 0 \/ trades[k].result # result THEN 0 ELSE g[k - 1] + 1
  <2>1. CASE k = 0
    BY <1>4, <2>1
  <2>2. CASE k # 0
    <3>1. k \in 0 + 1 .. n /\ k - 1 \in 0 .. n
      BY <1>1, <2>2
    <3>2. g[k - 1] \in Nat
      BY <1>4, <3>1
    <3> QED
      BY <1>3, <1>4, <2>2, <3>1, <3>2
  <2> QED
    BY <2>1, <2>2
<1>6. g = [k \in 0 .. n |-> IF k = 0 \/ trades[k].result # result THEN 0 ELSE g[k - 1] + 1]
  BY <1>4, <1>5
<1> QED
  BY <1>6 DEF CountOf, n

\* The trades before a count, back to the last one with another result, ended alike.
CountedAt(result, g, k) ==
  /\ g[k] \in 0 .. k
  /\ \A j \in k - g[k] + 1 .. k : trades[j].result = result
  /\ g[k] < k => trades[k - g[k]].result # result

\* By least counterexample: the count goes back to the last other result.
LEMMA CountIs ==
  ASSUME BacktestIInv, NEW result, NEW g, CountOf(result, g)
  PROVE  \A k \in 0 .. Len(trades) : CountedAt(result, g, k)
<1> DEFINE n == Len(trades)
           Bad == {k \in Nat : k <= n /\ ~ CountedAt(result, g, k)}
<1>1. n \in Nat
  BY TradeParts DEF BacktestIInv
<1>2. g[0] = 0 /\ \A k \in 0 .. n : g[k] = IF k = 0 \/ trades[k].result # result THEN 0 ELSE g[k - 1] + 1
  BY <1>1 DEF CountOf
<1> HIDE DEF n
<1>3. ASSUME NEW k \in 0 .. n, g[k] = 0, k = 0 \/ trades[k].result # result
      PROVE  CountedAt(result, g, k)
  <2>1. g[k] \in 0 .. k /\ k - g[k] = k /\ (g[k] < k => k # 0)
    BY <1>3
  <2>2. \A j \in k + 1 .. k : FALSE
    OBVIOUS
  <2> QED
    BY <1>3, <2>1, <2>2 DEF CountedAt
<1>4. Bad = {}
  <2> SUFFICES ASSUME Bad # {} PROVE FALSE
    OBVIOUS
  <2>1. PICK k \in Bad : \A m \in Bad : k <= m
    BY LeastNumber
  <2>2. k \in Nat /\ k <= n /\ ~ CountedAt(result, g, k) /\ k \in 0 .. n
    BY <1>1, <2>1
  <2>3. k # 0 /\ trades[k].result = result
    BY <1>2, <1>3, <2>2
  <2>4. PICK p \in Nat : p + 1 = k /\ p = k - 1 /\ p \in 0 .. n /\ ~ (k <= p)
    <3>1. k - 1 \in Nat /\ k - 1 + 1 = k /\ k - 1 \in 0 .. n /\ ~ (k <= k - 1)
      BY <1>1, <2>2, <2>3
    <3> QED
      BY <3>1
  <2>5. CountedAt(result, g, p)
    BY <2>1, <2>4
  <2>6. g[k] = g[p] + 1
    BY <1>2, <2>2, <2>3, <2>4
  <2>7. PICK c \in 0 .. p : c = g[p]
    BY <2>5 DEF CountedAt
  <2>8. g[k] = c + 1 /\ c + 1 \in 0 .. k /\ k - (c + 1) = p - c /\ (c + 1 < k <=> c < p)
    BY <2>4, <2>6, <2>7
  <2>9. \A j \in p - c + 1 .. k : j \in p - c + 1 .. p \/ j = k
    BY <2>4, <2>7
  <2>10. (\A j \in p - c + 1 .. p : trades[j].result = result) /\ (c < p => trades[p - c].result # result)
    BY <2>5, <2>7 DEF CountedAt
  <2>11. \A j \in p - c + 1 .. k : trades[j].result = result
    BY <2>3, <2>9, <2>10
  <2>12. CountedAt(result, g, k)
    BY <2>8, <2>10, <2>11 DEF CountedAt
  <2> QED
    BY <2>2, <2>12
<1> QED
  BY <1>1, <1>4 DEF n

\* The lengths of the runs of trades that ended with one result.
RunLengths(result) ==
  {p[2] - p[1] + 1 : p \in {q \in (DOMAIN trades) \X (DOMAIN trades) :
      q[1] <= q[2] /\ \A k \in q[1] .. q[2] : trades[k].result = result}}

\* The streak is the longest run.
LEMMA StreakIs ==
  ASSUME BacktestIInv, NEW result
  PROVE  StreakOf(result) = Max({0} \cup RunLengths(result))
<1> DEFINE n == Len(trades)
<1>1. n \in Nat /\ DOMAIN trades = 1 .. n
  BY TradeParts DEF BacktestIInv
<1> DEFINE g == CHOOSE g : CountOf(result, g)
           A == {g[k] : k \in 0 .. n}
           B == {0} \cup RunLengths(result)
<1>2. StreakOf(result) = Max(A)
  BY DEF StreakOf, CountOf
<1>3. CountOf(result, g)
  BY CountExists
<1> HIDE DEF g, n
<1>4. \A k \in 0 .. n : CountedAt(result, g, k)
  BY <1>3, CountIs DEF n
<1>5. \A k \in 0 .. n : g[k] \in Nat /\ g[k] <= k
  BY <1>1, <1>4 DEF CountedAt
<1>6. PICK i \in 0 .. n : \A j \in 0 .. n : g[j] <= g[i]
  <2>1. 0 \in Nat /\ n \in Nat /\ 0 <= n /\ \A k \in 0 .. n : g[k] \in Int
    BY <1>1, <1>5
  <2> QED
    BY <2>1, HighestExists
<1>7. A \subseteq B
  <2> SUFFICES ASSUME NEW k \in 0 .. n PROVE g[k] \in B
    OBVIOUS
  <2>1. CASE g[k] = 0
    BY <2>1
  <2>2. CASE g[k] # 0
    <3>1. PICK c \in 1 .. k : c = g[k]
      BY <1>5, <2>2
    <3>2. PICK j \in 1 .. n : j = k - c + 1 /\ j <= k
      BY <1>1, <3>1
    <3>3. \A x \in j .. k : trades[x].result = result
      BY <1>4, <3>1, <3>2 DEF CountedAt
    <3>4. k \in 1 .. n
      BY <1>1, <3>1
    <3>5. <<j, k>> \in {q \in (DOMAIN trades) \X (DOMAIN trades) :
            q[1] <= q[2] /\ \A x \in q[1] .. q[2] : trades[x].result = result}
      BY <1>1, <3>2, <3>3, <3>4
    <3>6. k - j + 1 = c
      BY <1>1, <3>1, <3>2
    <3>7. k - j + 1 \in RunLengths(result)
      BY <3>5 DEF RunLengths
    <3> QED
      BY <3>1, <3>6, <3>7
  <2> QED
    BY <2>1, <2>2
<1>8. ASSUME NEW z \in B
      PROVE  z \in Int /\ \E y \in A : z <= y
  <2>1. CASE z = 0
    <3>1. 0 \in 0 .. n /\ g[0] \in Nat
      BY <1>1, <1>5
    <3> QED
      BY <2>1, <3>1
  <2>2. CASE z # 0
    <3>1. PICK p \in {q \in (DOMAIN trades) \X (DOMAIN trades) :
            q[1] <= q[2] /\ \A k \in q[1] .. q[2] : trades[k].result = result} : z = p[2] - p[1] + 1
      BY <2>2 DEF RunLengths
    <3>2. PICK a \in 1 .. n, k \in 1 .. n : a = p[1] /\ k = p[2] /\ a <= k /\ z = k - a + 1
      BY <1>1, <3>1
    <3>3. \A x \in a .. k : trades[x].result = result
      BY <3>1, <3>2
    <3>4. k \in 0 .. n /\ g[k] \in Nat
      BY <1>1, <1>5
    <3>5. z <= g[k]
      <4> SUFFICES ASSUME ~ (z <= g[k]) PROVE FALSE
        OBVIOUS
      <4>1. PICK c \in Nat : c = g[k]
        BY <3>4
      <4>2. c < k /\ k - c \in a .. k
        BY <3>2, <4>1
      <4>3. trades[k - c].result # result
        BY <1>4, <3>4, <4>1, <4>2 DEF CountedAt
      <4> QED
        BY <3>3, <4>2, <4>3
    <3> QED
      BY <3>2, <3>4, <3>5
  <2> QED
    BY <2>1, <2>2
<1>9. g[i] \in A /\ \A y \in A : y <= g[i]
  BY <1>6
<1> HIDE DEF A, B
<1>10. Max(A) = g[i] /\ Max(B) = g[i]
  <2>1. A \subseteq B /\ B \subseteq Int /\ g[i] \in A /\ (\A y \in A : y <= g[i]) /\ \A z \in B : \E y \in A : z <= y
    BY <1>7, <1>8, <1>9
  <2> QED
    BY <2>1, MaxIsShared
<1> QED
  BY <1>2, <1>10 DEF B

\* The figures of the report are what they claim to be.
LEMMA FiguresDoAgree ==
  ASSUME BacktestIInv
  PROVE  FiguresAreRight
<1>1. max_drawdown = Max({BookBalances[p[1]] - BookBalances[p[2]] : p \in
                            {q \in (DOMAIN BookBalances) \X (DOMAIN BookBalances) : q[1] <= q[2]}})
  <2>1. DOMAIN BookBalances = 1 .. Len(trades) + 1
    BY BookIs
  <2>2. max_drawdown = Max(Falls(BookBalances, Len(trades) + 1))
    BY DrawdownIs DEF DeepestIs
  <2> QED
    BY <2>1, <2>2 DEF Falls
<1>2. \A result \in {"WIN", "LOSS"} :
        StreakOf(result) = Max({0} \cup {p[2] - p[1] + 1 : p \in
          {q \in (DOMAIN trades) \X (DOMAIN trades) :
             q[1] <= q[2] /\ \A k \in q[1] .. q[2] : trades[k].result = result}})
  BY StreakIs DEF RunLengths
<1>3. max_drawdown_pct > 100 => balance < 0
  BY DebtEndsIt
<1> QED
  BY <1>1, <1>2, <1>3 DEF FiguresAreRight

\* What is left of the journal's capital after each trade, and the peak of it, which
\* begins at nothing.
EarnedBy(g) ==
  g = [k \in 0 .. Len(trades) |-> IF k = 0 THEN JournalCapital ELSE g[k - 1] + trades[k].profit]
PeakBy(after, g) ==
  g = [k \in 0 .. Len(trades) |-> IF k = 0 THEN 0 ELSE HigherOf(g[k - 1], after[k])]

\* After each trade the journal has the capital and what the books have earned since.
EarnedAlike(g) ==
  \A k \in 0 .. Len(trades) : g[k] \in Int /\ g[k] = JournalCapital + (BookBalances[k + 1] - initial)

\* By least counterexample: there is such a function, and it agrees with the books.
LEMMA EarnedIs ==
  ASSUME BacktestIInv
  PROVE  /\ \E g : EarnedBy(g)
         /\ \A g : EarnedBy(g) => EarnedAlike(g)
<1>1. PICK n \in Nat : n = Len(trades)
  BY BookIs
<1>2. /\ initial \in Int /\ JournalCapital \in Int
      /\ \A k \in 0 .. n : k + 1 \in 1 .. n + 1 /\ BookBalances[k + 1] \in Int
      /\ BookBalances[1] = initial
  BY <1>1, BookIs, BacktestAssumption
<1>3. ASSUME NEW k \in 1 .. n
      PROVE  trades[k].profit \in Int /\ BookBalances[k + 1] = BookBalances[k] + trades[k].profit
  <2>1. k \in DOMAIN trades /\ k \in 1 .. n + 1 /\ k \in 1 .. Len(trades)
    BY <1>1, TradeParts DEF BacktestIInv
  <2>2. trades[k].after = BalanceBefore(k) + trades[k].profit /\ trades[k].profit \in Int
    BY <2>1, TradeParts DEF BacktestIInv, TradesAreBooked
  <2>3. BookBalances[k] = BalanceBefore(k) /\ BookBalances[k + 1] = trades[k].after
    BY <1>1, <2>1, BookIs
  <2> QED
    BY <2>2, <2>3
<1>4. \E g : EarnedBy(g)
  <2> DEFINE g == [k \in 0 .. n |-> JournalCapital + (BookBalances[k + 1] - initial)]
  <2>1. ASSUME NEW k \in 0 .. n
        PROVE  g[k] = IF k = 0 THEN JournalCapital ELSE g[k - 1] + trades[k].profit
    <3>1. CASE k = 0
      <4>1. g[0] = JournalCapital + (BookBalances[0 + 1] - initial) /\ 0 + 1 = 1
        BY <3>1
      <4> HIDE DEF g
      <4> QED
        BY <1>2, <3>1, <4>1
    <3>2. CASE k # 0
      <4>1. k \in 1 .. n /\ k - 1 \in 0 .. n /\ k - 1 + 1 = k
        BY <3>2
      <4>2. PICK x \in Int, y \in Int : x = BookBalances[k] /\ y = trades[k].profit
        BY <1>2, <1>3, <4>1
      <4>3. g[k - 1] = JournalCapital + (x - initial) /\ g[k] = JournalCapital + ((x + y) - initial)
        BY <1>3, <4>1, <4>2
      <4> HIDE DEF g
      <4>4. PICK u \in Int, v \in Int : u = g[k - 1] /\ v = g[k]
        BY <1>2, <4>2, <4>3
      <4>5. v = u + y
        BY <1>2, <4>2, <4>3, <4>4
      <4> QED
        BY <3>2, <4>2, <4>4, <4>5
    <3> QED
      BY <3>1, <3>2
  <2>2. g = [k \in 0 .. n |-> g[k]]
    OBVIOUS
  <2> HIDE DEF g
  <2>3. g = [k \in 0 .. n |-> IF k = 0 THEN JournalCapital ELSE g[k - 1] + trades[k].profit]
    BY <2>1, <2>2
  <2> QED
    BY <1>1, <2>3 DEF EarnedBy
<1>5. ASSUME NEW g, EarnedBy(g)
      PROVE  EarnedAlike(g)
  <2> DEFINE Right(k) == g[k] \in Int /\ g[k] = JournalCapital + (BookBalances[k + 1] - initial)
             Bad == {k \in Nat : k <= n /\ ~ Right(k)}
  <2>1. \A k \in 0 .. n : g[k] = IF k = 0 THEN JournalCapital ELSE g[k - 1] + trades[k].profit
    BY <1>1, <1>5 DEF EarnedBy
  <2>2. Right(0)
    <3>1. g[0] = JournalCapital /\ 0 + 1 = 1
      BY <2>1
    <3> QED
      BY <1>2, <3>1
  <2>3. ASSUME NEW k \in 1 .. n, Right(k - 1)
        PROVE  Right(k)
    <3>1. k - 1 + 1 = k /\ k \in 0 .. n /\ k # 0
      OBVIOUS
    <3>2. PICK x \in Int, y \in Int, z \in Int :
            x = BookBalances[k] /\ y = trades[k].profit /\ z = g[k - 1] /\ BookBalances[k + 1] = x + y
      <4>1. k - 1 \in 0 .. n
        OBVIOUS
      <4>2. BookBalances[k] \in Int
        BY <1>2, <3>1, <4>1
      <4> QED
        BY <1>3, <2>3, <4>2
    <3>3. z = JournalCapital + (x - initial) /\ g[k] = z + y
      BY <2>1, <2>3, <3>1, <3>2
    <3> QED
      BY <1>2, <3>2, <3>3
  <2> HIDE DEF Right
  <2>4. Bad = {}
    <3> SUFFICES ASSUME Bad # {} PROVE FALSE
      OBVIOUS
    <3>1. PICK k \in Bad : \A m \in Bad : k <= m
      BY LeastNumber
    <3>2. k \in Nat /\ k <= n /\ ~ Right(k) /\ k # 0 /\ k \in 1 .. n
      BY <2>2, <3>1
    <3>3. k - 1 \in Nat /\ k - 1 <= n /\ ~ (k <= k - 1)
      BY <3>2
    <3>4. Right(k - 1)
      BY <3>1, <3>3
    <3> QED
      BY <2>3, <3>2, <3>4
  <2>5. \A k \in 0 .. n : Right(k)
    BY <2>4
  <2> QED
    BY <1>1, <2>5 DEF EarnedAlike, Right
<1> QED
  BY <1>4, <1>5

\* The journal's drawdown as the greatest of the falls it sees, and of 0.
SeenFalls(after, top) == {0} \cup {top[k] - after[k] : k \in DOMAIN trades}

\* It is, for a peak that is 0 or some balance so far, and no lower than any.
LEMMA JournalIs ==
  ASSUME BacktestIInv
  PROVE  \E after, top : /\ EarnedAlike(after) /\ JournalDrawdown = Max(SeenFalls(after, top))
                          /\ \A k \in 1 .. Len(trades) :
                               /\ top[k] \in Int /\ 0 <= top[k]
                               /\ top[k] = 0 \/ \E j \in 1 .. k : top[k] = after[j]
                               /\ \A j \in 1 .. k : after[j] <= top[k]
<1>1. PICK n \in Nat : n = Len(trades)
  BY BookIs
<1> DEFINE after == CHOOSE g : EarnedBy(g)
           top  == CHOOSE g : PeakBy(after, g)
<1>2. JournalDrawdown = Max(SeenFalls(after, top))
  BY DEF JournalDrawdown, EarnedBy, PeakBy, SeenFalls
<1>3. EarnedAlike(after)
  BY EarnedIs
<1> HIDE DEF after
<1> DEFINE b == [k \in 0 .. n |-> IF k = 0 THEN 0 ELSE after[k]]
<1>4. /\ \A k \in 0 .. n : b[k] \in Int
      /\ b[0] = 0 /\ \A k \in 1 .. n : b[k] = after[k]
  BY <1>1, <1>3 DEF EarnedAlike
<1> HIDE DEF b
<1>5. \A g : PeakBy(after, g) <=> RunningMax(b, 0, n, g)
  <2> SUFFICES ASSUME NEW g PROVE PeakBy(after, g) <=> RunningMax(b, 0, n, g)
    OBVIOUS
  <2>1. \A k \in 0 .. n : (IF k = 0 THEN 0 ELSE HigherOf(g[k - 1], after[k]))
                          = IF k = 0 THEN b[0] ELSE HigherOf(g[k - 1], b[k])
    <3> SUFFICES ASSUME NEW k \in 0 .. n, k # 0 PROVE b[k] = after[k]
      BY <1>4
    <3> QED
      BY <1>4
  <2>2. [k \in 0 .. n |-> IF k = 0 THEN 0 ELSE HigherOf(g[k - 1], after[k])]
        = [k \in 0 .. n |-> IF k = 0 THEN b[0] ELSE HigherOf(g[k - 1], b[k])]
    BY <2>1
  <2> QED
    BY <1>1, <2>2 DEF PeakBy, RunningMax
<1>6. 0 \in Nat /\ n \in Nat /\ 0 <= n
  OBVIOUS
<1>7. \E g : RunningMax(b, 0, n, g)
  BY <1>4, <1>6, RunningMaxExists
<1>8. PeakBy(after, top)
  <2>1. \E g : PeakBy(after, g)
    BY <1>5, <1>7
  <2> QED
    BY <2>1
<1> HIDE DEF top
<1>9. \A k \in 0 .. n : /\ top[k] \in Int
                        /\ \E j \in 0 .. k : top[k] = b[j]
                        /\ \A j \in 0 .. k : b[j] <= top[k]
  <2>1. RunningMax(b, 0, n, top)
    BY <1>5, <1>8
  <2> QED
    BY <1>4, <1>6, <2>1, RunningMaxIs
<1>10. ASSUME NEW k \in 1 .. n
       PROVE  /\ top[k] \in Int /\ 0 <= top[k]
              /\ top[k] = 0 \/ \E j \in 1 .. k : top[k] = after[j]
              /\ \A j \in 1 .. k : after[j] <= top[k]
  <2>1. k \in 0 .. n /\ 0 \in 0 .. k
    OBVIOUS
  <2>2. PICK j \in 0 .. k : top[k] = b[j]
    BY <1>9, <2>1
  <2>3. top[k] \in Int /\ 0 <= top[k]
    BY <1>4, <1>9, <2>1
  <2>4. top[k] = 0 \/ \E i \in 1 .. k : top[k] = after[i]
    <3>1. CASE j = 0
      BY <1>4, <2>2, <3>1
    <3>2. CASE j # 0
      <4>1. j \in 1 .. k /\ j \in 1 .. n
        BY <3>2
      <4> QED
        BY <1>4, <2>2, <4>1
    <3> QED
      BY <3>1, <3>2
  <2>5. ASSUME NEW i \in 1 .. k
        PROVE  after[i] <= top[k]
    <3>1. i \in 0 .. k /\ i \in 1 .. n
      OBVIOUS
    <3> QED
      BY <1>4, <1>9, <2>1, <3>1
  <2> QED
    BY <2>3, <2>4, <2>5
<1> QED
  BY <1>1, <1>2, <1>3, <1>10

\* The journal sees every fall but those from the balance of before the first trade.
LEMMA JournalMisses ==
  ASSUME BacktestIInv
  PROVE  JournalSeesLess
<1>1. PICK n \in Nat : n = Len(trades)
  BY BookIs
<1>2. PICK after, top :
        /\ EarnedAlike(after) /\ JournalDrawdown = Max(SeenFalls(after, top))
        /\ \A k \in 1 .. n : /\ top[k] \in Int /\ 0 <= top[k]
                             /\ top[k] = 0 \/ \E j \in 1 .. k : top[k] = after[j]
                             /\ \A j \in 1 .. k : after[j] <= top[k]
  BY <1>1, JournalIs
<1>3. /\ initial \in Nat \ {0} /\ JournalCapital \in Nat /\ DOMAIN trades = 1 .. n
      /\ \A k \in 0 .. n : k + 1 \in 1 .. n + 1 /\ BookBalances[k + 1] \in Int
      /\ BookBalances[1] = initial
  BY <1>1, BookIs, BacktestAssumption, TradeParts DEF BacktestIInv
<1>4. \A k \in 0 .. n : after[k] \in Int /\ after[k] = JournalCapital + (BookBalances[k + 1] - initial)
  BY <1>1, <1>2 DEF EarnedAlike
<1> DEFINE A == SeenFalls(after, top)
           B == Falls(BookBalances, n + 1)
<1>5. max_drawdown \in Int /\ 0 <= max_drawdown /\ max_drawdown = Max(B)
  BY <1>1, DrawdownIs DEF DeepestIs
<1>6. ASSUME NEW j \in 1 .. n + 1, NEW k \in 1 .. n + 1, j <= k
      PROVE  BookBalances[j] - BookBalances[k] \in B
  <2>1. <<j, k>> \in {q \in (1 .. n + 1) \X (1 .. n + 1) : q[1] <= q[2]}
    BY <1>6
  <2> QED
    BY <2>1 DEF Falls
<1>7. \A z \in B : z \in Int /\ z <= max_drawdown
  <2> SUFFICES ASSUME NEW z \in B PROVE z \in Int /\ z <= max_drawdown
    OBVIOUS
  <2>1. PICK p \in {q \in (1 .. n + 1) \X (1 .. n + 1) : q[1] <= q[2]} : z = BookBalances[p[1]] - BookBalances[p[2]]
    BY DEF Falls
  <2>2. PICK i \in 1 .. n + 1, k \in 1 .. n + 1 : i = p[1] /\ k = p[2] /\ i <= k
    BY <2>1
  <2>3. BookBalances[i] \in Int /\ BookBalances[k] \in Int /\ Peak[k] \in Int /\ BookBalances[i] <= Peak[k]
    <3>1. RunningMax(BookBalances, 1, n + 1, Peak) /\ 1 \in Nat /\ n + 1 \in Nat /\ 1 <= n + 1
      BY <1>1, PeakIs
    <3>2. \A x \in 1 .. n + 1 : BookBalances[x] \in Int
      BY <1>1, BookIs
    <3>3. \A x \in 1 .. n + 1 : Peak[x] \in Int /\ \A y \in 1 .. x : BookBalances[y] <= Peak[x]
      BY <3>1, <3>2, RunningMaxIs
    <3>4. i \in 1 .. k
      BY <2>2
    <3> QED
      BY <3>2, <3>3, <3>4
  <2>4. Peak[k] - BookBalances[k] <= max_drawdown
    <3>1. Peak[k] - BookBalances[k] \in BelowPeak(BookBalances, Peak, n + 1)
      BY DEF BelowPeak
    <3> QED
      BY <1>1, <3>1, DrawdownIs DEF DeepestIs
  <2> QED
    BY <1>5, <2>1, <2>2, <2>3, <2>4
<1>8. ASSUME NEW k \in 1 .. n
      PROVE  top[k] - after[k] \in Int /\ \E z \in B : top[k] - after[k] <= z
  <2>1. k \in 0 .. n /\ k + 1 \in 1 .. n + 1
    OBVIOUS
  <2>2. PICK x \in Int, y \in Int : x = BookBalances[k + 1] /\ y = after[k] /\ y = JournalCapital + (x - initial)
    BY <1>3, <1>4, <2>1
  <2>3. CASE top[k] = 0
    <3>1. top[k] - after[k] = 0 - y /\ 0 - y <= initial - x
      BY SMTT(30), <1>3, <2>2, <2>3
    <3>2. 1 \in 1 .. n + 1 /\ 1 <= k + 1
      BY <2>1
    <3>3. initial - x \in B
      BY <1>3, <1>6, <2>1, <2>2, <3>2
    <3> QED
      BY <2>2, <3>1, <3>3
  <2>4. CASE top[k] # 0
    <3>1. PICK j \in 1 .. k : top[k] = after[j]
      BY <1>2, <2>4
    <3>2. j \in 0 .. n /\ j + 1 \in 1 .. n + 1 /\ j + 1 <= k + 1
      OBVIOUS
    <3>3. PICK v \in Int : v = BookBalances[j + 1] /\ after[j] = JournalCapital + (v - initial)
      BY <1>3, <1>4, <3>2
    <3>4. top[k] - after[k] = v - x
      <4>1. PICK a \in Int, c \in Int : a = initial /\ c = JournalCapital
        BY <1>3
      <4>2. top[k] = c + (v - a) /\ after[k] = c + (x - a)
        BY <2>2, <3>1, <3>3, <4>1
      <4>3. (c + (v - a)) - (c + (x - a)) = v - x
        BY <2>2, <3>3, <4>1
      <4> QED
        BY <4>2, <4>3
    <3>5. v - x \in B
      BY <1>6, <2>1, <2>2, <3>2, <3>3
    <3>6. PICK d \in Int : d = v - x
      BY <2>2, <3>3
    <3>7. d <= d /\ d \in B /\ top[k] - after[k] = d
      BY <3>4, <3>5, <3>6
    <3> QED
      BY <3>7
  <2> QED
    BY <2>3, <2>4
<1>9. A \subseteq Int /\ \A y \in A : y <= max_drawdown
  <2> SUFFICES ASSUME NEW y \in A PROVE y \in Int /\ y <= max_drawdown
    OBVIOUS
  <2>1. CASE y = 0
    BY <1>5, <2>1
  <2>2. CASE y # 0
    <3>1. PICK k \in 1 .. n : y = top[k] - after[k]
      BY <1>3, <2>2 DEF SeenFalls
    <3>2. PICK z \in B : y <= z
      BY <1>8, <3>1
    <3> QED
      BY <1>5, <1>7, <1>8, <3>1, <3>2
  <2> QED
    BY <2>1, <2>2
<1>10. PICK x \in A : \A y \in A : y <= x
  <2> DEFINE h == [k \in 0 .. n |-> IF k = 0 THEN 0 ELSE top[k] - after[k]]
  <2>1. \A k \in 0 .. n : h[k] \in Int /\ h[k] \in A
    BY <1>3, <1>8 DEF SeenFalls
  <2>2. PICK i \in 0 .. n : \A j \in 0 .. n : h[j] <= h[i]
    <3>1. 0 \in Nat /\ n \in Nat /\ 0 <= n /\ \A k \in 0 .. n : h[k] \in Int
      BY <2>1
    <3> HIDE DEF h
    <3> QED
      BY <3>1, HighestExists
  <2>3. \A y \in A : \E k \in 0 .. n : y = h[k]
    BY <1>3 DEF SeenFalls
  <2> HIDE DEF h, A
  <2> QED
    BY <2>1, <2>2, <2>3
<1> HIDE DEF A, B
<1>11. JournalDrawdown = x /\ x \in Int
  <2>1. Max(A) = x
    BY <1>9, <1>10, MaxIsKnown
  <2> QED
    BY <1>2, <1>9, <2>1 DEF A
<1>12. JournalDrawdown <= max_drawdown
  BY <1>9, <1>11
<1>13. ASSUME trades # <<>>, trades[1].result = "WIN"
       PROVE  JournalDrawdown = max_drawdown
  <2>1. 1 \in 1 .. n /\ n # 0
    <3>1. n # 0
      <4>1. trades \in Seq([candle : Nat, result : {"WIN", "LOSS"}, profit : Int, after : Int])
        BY DEF BacktestIInv, BacktestTypeOK
      <4> QED
        BY <1>1, <1>13, <4>1, EmptySeq
    <3> QED
      BY <3>1
  <2>2. initial <= BookBalances[1 + 1] /\ BookBalances[1 + 1] \in Int
    <3>1. trades[1].after = BalanceBefore(1) + trades[1].profit /\ trades[1].profit = ProfitBy("WIN")
      BY <1>3, <1>13, <2>1 DEF BacktestIInv, TradesAreBooked
    <3>2. BalanceBefore(1) = initial /\ BookBalances[1 + 1] = trades[1].after
      BY <1>1, <2>1, BookIs DEF BalanceBefore
    <3> QED
      BY <1>3, <3>1, <3>2, ProfitType
  <2>3. ASSUME NEW z \in B
        PROVE  \E y \in A : z <= y
    <3>1. PICK p \in {q \in (1 .. n + 1) \X (1 .. n + 1) : q[1] <= q[2]} : z = BookBalances[p[1]] - BookBalances[p[2]]
      BY DEF Falls, B
    <3>2. PICK i \in 1 .. n + 1, m \in 1 .. n + 1 : i = p[1] /\ m = p[2] /\ i <= m
      BY <3>1
    <3>3. CASE m = 1
      <4>1. i = 1 /\ z = 0
        BY <1>3, <3>1, <3>2, <3>3
      <4>2. 0 \in A
        BY DEF A, SeenFalls
      <4> QED
        BY <4>1, <4>2
    <3>4. CASE m # 1
      <4>1. PICK k \in 1 .. n : k + 1 = m /\ k \in 0 .. n
        <5>1. m - 1 \in 1 .. n /\ m - 1 + 1 = m /\ m - 1 \in 0 .. n
          BY <3>4
        <5> QED
          BY <5>1
      <4>2. PICK j \in 1 .. k : BookBalances[i] <= BookBalances[j + 1] /\ j \in 0 .. n
        <5>1. CASE i = 1
          <6>1. 1 \in 1 .. k /\ 1 \in 0 .. n
            BY <2>1
          <6> QED
            BY <1>3, <2>2, <5>1, <6>1
        <5>2. CASE i # 1
          <6>1. i - 1 \in 1 .. k /\ i - 1 + 1 = i /\ i - 1 \in 0 .. n
            BY <3>2, <4>1, <5>2
          <6>2. BookBalances[i] \in Int
            BY <1>3, <6>1
          <6>3. BookBalances[i] <= BookBalances[i]
            BY <6>2
          <6> QED
            BY <6>1, <6>3
        <5> QED
          BY <5>1, <5>2
      <4>3. PICK u \in Int, v \in Int, w \in Int :
              u = BookBalances[j + 1] /\ v = BookBalances[k + 1] /\ w = BookBalances[i]
        <5>1. BookBalances[i] \in Int
          BY <1>1, BookIs
        <5> QED
          BY <1>3, <4>1, <4>2, <5>1
      <4>4. after[j] = JournalCapital + (u - initial) /\ after[k] = JournalCapital + (v - initial)
        BY <1>4, <4>1, <4>2, <4>3
      <4>5. after[j] <= top[k] /\ top[k] \in Int
        BY <1>2, <4>1, <4>2
      <4>6. z = w - v /\ w <= u
        BY <3>1, <3>2, <4>1, <4>2, <4>3
      <4>7. z <= top[k] - after[k]
        <5>1. PICK q \in Int, a \in Int, c \in Int : q = top[k] /\ a = after[j] /\ c = after[k]
          BY <1>4, <4>1, <4>2, <4>5
        <5>2. a = JournalCapital + (u - initial) /\ c = JournalCapital + (v - initial) /\ a <= q
          BY <4>4, <4>5, <5>1
        <5>3. PICK d \in Int, e \in Int : d = initial /\ e = JournalCapital
          BY <1>3
        <5>4. a = e + (u - d) /\ c = e + (v - d) /\ a <= q /\ w <= u
          BY <4>6, <5>2, <5>3
        <5>5. w - v <= q - c
          BY <5>1, <5>3, <5>4, <4>3
        <5> QED
          BY <4>6, <5>1, <5>5
      <4>8. top[k] - after[k] \in A
        BY <1>3, <4>1 DEF A, SeenFalls
      <4> QED
        BY <4>7, <4>8
    <3> QED
      BY <3>3, <3>4
  <2>4. max_drawdown \in B
    <3>1. PICK k \in 1 .. n + 1 : max_drawdown = Peak[k] - BookBalances[k]
      BY <1>1, DrawdownIs DEF DeepestIs, BelowPeak
    <3>2. PICK j \in 1 .. k : Peak[k] = BookBalances[j]
      <4>1. RunningMax(BookBalances, 1, n + 1, Peak) /\ 1 \in Nat /\ n + 1 \in Nat /\ 1 <= n + 1
        BY <1>1, PeakIs
      <4>2. \A i \in 1 .. n + 1 : BookBalances[i] \in Int
        BY <1>1, BookIs
      <4>3. \A i \in 1 .. n + 1 : \E j \in 1 .. i : Peak[i] = BookBalances[j]
        BY <4>1, <4>2, RunningMaxIs
      <4> QED
        BY <4>3
    <3>3. j \in 1 .. n + 1 /\ j <= k
      OBVIOUS
    <3> QED
      BY <1>6, <3>1, <3>2, <3>3
  <2>5. max_drawdown <= x
    <3>1. PICK y \in A : max_drawdown <= y
      BY <2>3, <2>4
    <3> QED
      BY <1>5, <1>9, <1>10, <1>11, <3>1
  <2> QED
    BY <1>5, <1>11, <1>12, <2>5
<1> QED
  BY <1>12, <1>13 DEF JournalSeesLess

\* Every step of a run keeps its books, and every figure agrees with them.
LEMMA BacktestInvariant == BacktestSpec => []BacktestIInv
<1>1. BacktestInit => BacktestIInv
  BY BacktestInitial
<1>2. BacktestIInv /\ [BacktestNext]_backtestVars => BacktestIInv'
  BY BacktestInductive
<1> QED
  BY <1>1, <1>2, PTL DEF BacktestSpec

\* A run of the backtest engine never trades after ruin, and every figure of its report,
\* of BacktestRun and of the journal, agrees with the trades it booked, whatever the
\* prices, signals, balance, amount and payout.
THEOREM RunStaysAccounted == BacktestSpec => [](BacktestTypeOK /\ RunIsAccounted)
<1>1. BacktestIInv => BacktestTypeOK /\ RunIsAccounted
  <2> SUFFICES ASSUME BacktestIInv PROVE BacktestTypeOK /\ RunIsAccounted
    OBVIOUS
  <2>1. BooksAgree /\ FiguresAreRight /\ JournalSeesLess
    BY BooksDoAgree, FiguresDoAgree, JournalMisses
  <2> QED
    BY <2>1 DEF RunIsAccounted, BacktestIInv
<1> QED
  BY <1>1, BacktestInvariant, PTL

-----------------------------------------------------------------------------
(* Reports.  No two trades have one time, so that a list in time depends only on which  *)
(* trades there are, and a streak is a part of it without the other result.             *)

\* A line of the file: a trade, with one of the outcomes.
Lines ==
  {t \in [time : Nat, asset : Traded, lasts : Timespans,
          result : {"win", "loss", "draw", "open"}, profit : Int] :
     [result |-> t.result, profit |-> t.profit] \in Outcomes}

\* A list of lines of which no two have one time, and one in the order of the times.
Dated(s)   == s \in Seq(Lines) /\ \A i, j \in DOMAIN s : s[i].time = s[j].time => i = j
Ordered(t) == t \in Seq(Lines) /\ \A i, j \in DOMAIN t : i < j => t[i].time < t[j].time

\* Of the times that were taken none was taken twice, by a line that is written or by
\* one that is not.
ReportIInv ==
  /\ opening \subseteq Lines /\ IsFiniteSet(opening) /\ Dated(book)
  /\ \A t \in opening : t.time <= Taken
  /\ \A i \in DOMAIN book : book[i].time <= Taken
  /\ \A t, u \in opening : t.time = u.time => t = u
  /\ \A t \in opening, i \in DOMAIN book : t.time # book[i].time

\* The parts of a line, and what it counts for.
LEMMA LineParts ==
  ASSUME NEW t \in Lines
  PROVE  /\ t.time \in Nat /\ t.profit \in Int /\ Profit(t) \in Int
         /\ t.result \in {"win", "loss", "draw", "open"}
         /\ t.result = "win" => t.profit # NoProfit /\ Profit(t) > 0
         /\ t.result = "loss" => t.profit # NoProfit /\ -FullStake <= Profit(t)
         /\ t.result = "draw" => Profit(t) = 0
         /\ t.result = "open" => t.profit = NoProfit
<1> DEFINE o == [result |-> t.result, profit |-> t.profit]
<1>1. /\ t.time \in Nat /\ t.profit \in Int
      /\ t.result \in {"win", "loss", "draw", "open"} /\ o \in Outcomes
  BY DEF Lines
<1>2. o.result = t.result /\ o.profit = t.profit
  OBVIOUS
<1>3. FullStake \in Nat
  BY ReportsAssumption
<1>4. /\ t.result = "win"  => t.profit > 0 /\ t.profit < NoProfit
      /\ t.result = "loss" => t.profit \in -FullStake .. 0
      /\ t.result = "draw" => t.profit = 0
      /\ t.result = "open" => t.profit = NoProfit
  <2> HIDE DEF o
  <2> QED
    BY <1>1, <1>2, ReportsAssumption
<1> QED
  BY <1>1, <1>3, <1>4 DEF Profit, NoProfit

\* At the start there are no lines.
LEMMA ReportInitial == ReportInit => ReportIInv
<1> SUFFICES ASSUME ReportInit PROVE ReportIInv
  OBVIOUS
<1>1. opening = {} /\ book = <<>> /\ IsFiniteSet({})
  BY FS_EmptySet DEF ReportInit
<1> QED
  BY <1>1 DEF ReportIInv, Dated

\* A time that is taken is later than all others; a line that is written is no longer
\* one that is not.
LEMMA ReportInductive == ReportIInv /\ [ReportNext]_reportVars => ReportIInv'
<1> SUFFICES ASSUME ReportIInv, [ReportNext]_reportVars PROVE ReportIInv'
  OBVIOUS
<1>1. /\ Len(book) \in Nat /\ DOMAIN book = 1 .. Len(book) /\ book \in Seq(Lines)
      /\ \A i \in DOMAIN book : book[i] \in Lines
      /\ IsFiniteSet(opening) /\ Cardinality(opening) \in Nat
  BY LenProperties, ElementOfSeq, FS_CardinalityType DEF ReportIInv, Dated
<1>2. /\ Taken \in Nat
      /\ \A t \in opening : t.time \in Nat
      /\ \A i \in DOMAIN book : book[i].time \in Nat
  BY <1>1, LineParts DEF Taken, ReportIInv
<1>3. ASSUME NEW asset \in Traded, NEW lasts \in Timespans, NEW o \in Outcomes,
             TakesTime(asset, lasts, o)
      PROVE  ReportIInv'
  <2>1. PICK t : t = [time |-> Taken + 1, asset |-> asset, lasts |-> lasts,
                      result |-> o.result, profit |-> o.profit]
    OBVIOUS
  <2>2. opening' = opening \cup {t} /\ book' = book
    BY <1>3, <2>1 DEF TakesTime
  <2>3. t \in Lines /\ t.time = Taken + 1
    <3>1. /\ o \in [result : {"win", "loss", "draw", "open"}, profit : Int]
          /\ o = [result |-> o.result, profit |-> o.profit]
      BY ReportsAssumption
    <3>2. [result |-> t.result, profit |-> t.profit] = o
      BY <2>1, <3>1
    <3> QED
      BY <1>2, <2>1, <3>1, <3>2 DEF Lines
  <2>4. t \notin opening
    BY <1>2, <2>3 DEF ReportIInv
  <2>5. IsFiniteSet(opening') /\ Cardinality(opening') = Cardinality(opening) + 1
    BY <1>1, <2>2, <2>4, FS_AddElement
  <2>6. Taken' = Taken + 1
    BY <1>1, <2>2, <2>5 DEF Taken
  <2>7. opening' \subseteq Lines /\ Dated(book)'
    BY <2>2, <2>3 DEF ReportIInv, Dated
  <2>8. /\ \A u \in opening' : u.time <= Taken'
        /\ \A i \in DOMAIN book' : book'[i].time <= Taken'
    BY <1>2, <2>2, <2>3, <2>6 DEF ReportIInv
  <2>9. /\ \A u, v \in opening' : u.time = v.time => u = v
        /\ \A u \in opening', i \in DOMAIN book' : u.time # book'[i].time
    BY <1>2, <2>2, <2>3 DEF ReportIInv
  <2> QED
    BY <2>5, <2>7, <2>8, <2>9 DEF ReportIInv
<1>4. ASSUME NEW t \in opening, Appends(t)
      PROVE  ReportIInv'
  <2>1. opening' = opening \ {t} /\ book' = Append(book, t) /\ t \in Lines
    BY <1>4 DEF Appends, ReportIInv
  <2>2. IsFiniteSet(opening') /\ Cardinality(opening') = Cardinality(opening) - 1
    BY <1>1, <2>1, FS_RemoveElement
  <2>3. /\ book' \in Seq(Lines) /\ Len(book') = Len(book) + 1
        /\ DOMAIN book' = 1 .. Len(book) + 1
        /\ \A i \in 1 .. Len(book) : book'[i] = book[i]
        /\ book'[Len(book) + 1] = t
    BY <1>1, <2>1, AppendProperties
  <2>4. Taken' = Taken
    BY <1>1, <2>2, <2>3 DEF Taken
  <2>5. \A i \in 1 .. Len(book) + 1 :
          \/ i \in DOMAIN book /\ book'[i] = book[i]
          \/ i = Len(book) + 1 /\ book'[i] = t
    <3>1. \A i \in 1 .. Len(book) + 1 : i \in 1 .. Len(book) \/ i = Len(book) + 1
      BY <1>1
    <3>2. \A i \in 1 .. Len(book) : i \in DOMAIN book
      BY <1>1
    <3> QED
      BY <2>3, <3>1, <3>2
  <2>6. Dated(book)'
    <3> SUFFICES ASSUME NEW i \in DOMAIN book', NEW j \in DOMAIN book', book'[i].time = book'[j].time
                 PROVE  i = j
      BY <2>3 DEF Dated
    <3> QED
      BY <1>1, <2>3, <2>5 DEF ReportIInv, Dated
  <2>7. /\ \A u \in opening' : u.time <= Taken'
        /\ \A i \in DOMAIN book' : book'[i].time <= Taken'
    BY <2>1, <2>3, <2>4, <2>5 DEF ReportIInv
  <2>8. /\ \A u, v \in opening' : u.time = v.time => u = v
        /\ \A u \in opening', i \in DOMAIN book' : u.time # book'[i].time
    <3>1. \A u \in opening' : u \in opening /\ u.time # t.time
      BY <2>1 DEF ReportIInv
    <3> QED
      BY <2>3, <2>5, <3>1 DEF ReportIInv
  <2> QED
    BY <2>1, <2>2, <2>6, <2>7, <2>8 DEF ReportIInv
<1>5. CASE UNCHANGED reportVars
  BY <1>5 DEF ReportIInv, reportVars, Taken, Dated
<1> QED
  BY <1>3, <1>4, <1>5 DEF ReportNext

\* Of lines with different times there are as many as of their places.
LEMMA AsManyLines ==
  ASSUME NEW s, Dated(s), NEW A \in SUBSET DOMAIN s
  PROVE  /\ IsFiniteSet(A) /\ Cardinality(A) \in Nat
         /\ Cardinality({s[i] : i \in A}) = Cardinality(A)
<1> DEFINE E == {s[i] : i \in A}
           f == [i \in A |-> s[i]]
<1>1. Len(s) \in Nat /\ DOMAIN s = 1 .. Len(s)
  BY LenProperties DEF Dated
<1>2. IsFiniteSet(A) /\ Cardinality(A) \in Nat
  <2>1. IsFiniteSet(1 .. Len(s))
    BY <1>1, FS_Interval
  <2> QED
    BY <1>1, <2>1, FS_Subset, FS_CardinalityType
<1>3. f \in Bijection(A, E)
  <2>1. f \in [A -> E] /\ DOMAIN f = A /\ \A e \in E : \E i \in A : f[i] = e
    OBVIOUS
  <2>2. \A i, j \in A : f[i] = f[j] => i = j
    BY DEF Dated
  <2> HIDE DEF f, E
  <2> QED
    BY <2>1, <2>2 DEF Bijection, Injection, Surjection, IsInjective
<1>4. ExistsBijection(A, E)
  BY <1>3 DEF ExistsBijection
<1> QED
  BY <1>2, <1>4, FS_Bijection

\* A list in time is in the order of the times, and has the same trades.
LEMMA InTimeIs ==
  ASSUME NEW s, Dated(s)
  PROVE  /\ Ordered(InTime(s)) /\ Len(InTime(s)) = Len(s)
         /\ ToSet(InTime(s)) = ToSet(s)
<1> DEFINE N == Len(s)
           D == 1 .. N
           key == [i \in D |-> s[i].time]
           t == InTime(s)
<1>1. N \in Nat /\ DOMAIN s = D /\ s \in Seq(Lines) /\ \A i \in D : s[i] \in Lines /\ s[i].time \in Nat
  BY LenProperties, ElementOfSeq, LineParts DEF Dated
<1>2. t = SortedBy(s, key)
  BY <1>1 DEF InTime
<1>3. key \in [D -> Int]
  BY <1>1
<1>4. /\ t \in Seq(Lines) /\ Len(t) = N
      /\ \A n \in D : Ranked(key, n) \in D /\ t[n] = s[Ranked(key, n)]
      /\ \A i \in D : \E n \in D : Ranked(key, n) = i
  <2>1. key \in [DOMAIN s -> Int]
    BY <1>1, <1>3
  <2> HIDE DEF key, t
  <2>2. s \in Seq(Lines)
    BY <1>1
  <2>3. /\ SortedBy(s, key) \in Seq(Lines) /\ Len(SortedBy(s, key)) = Len(s)
        /\ \A n \in 1 .. Len(s) :
             Ranked(key, n) \in 1 .. Len(s) /\ SortedBy(s, key)[n] = s[Ranked(key, n)]
        /\ \A m, n \in 1 .. Len(s) : m < n => key[Ranked(key, m)] <= key[Ranked(key, n)]
        /\ \A i \in 1 .. Len(s) : \E n \in 1 .. Len(s) : Ranked(key, n) = i
    BY <2>1, <2>2, SortedInOrder
  <2> QED
    BY <1>2, <2>3
<1>5. \A m, n \in D : m < n => Ranked(key, m) # Ranked(key, n) /\ key[Ranked(key, m)] <= key[Ranked(key, n)]
  <2>1. D \subseteq Int /\ IsFiniteSet(D) /\ Cardinality(D) = N
    <3>1. N \in Int /\ 1 <= N + 1 /\ N - 1 + 1 = N
      BY <1>1
    <3> QED
      BY <3>1, IntervalCount
  <2>2. D = 1 .. Cardinality(D)
    BY <2>1
  <2>3. \A m, n \in 1 .. Cardinality(D) :
          m < n => Ranked(key, m) # Ranked(key, n) /\ key[Ranked(key, m)] <= key[Ranked(key, n)]
    <3> HIDE DEF D, key
    <3> QED
      BY <1>3, <2>1, RankedInOrder
  <2> HIDE DEF D
  <2> QED
    BY <2>2, <2>3
<1>6. DOMAIN t = D
  <2> HIDE DEF t, D
  <2>1. DOMAIN t = 1 .. Len(t)
    BY <1>4, LenProperties
  <2> QED
    BY <1>4, <2>1 DEF D
<1>7. ASSUME NEW m \in D, NEW n \in D, m < n
      PROVE  t[m].time < t[n].time
  <2>1. PICK i \in D, j \in D : i = Ranked(key, m) /\ j = Ranked(key, n)
    BY <1>4
  <2>2. t[m] = s[i] /\ t[n] = s[j] /\ i # j /\ key[i] <= key[j]
    BY <1>4, <1>5, <1>7, <2>1
  <2>3. s[i].time # s[j].time
    BY <1>1, <2>2 DEF Dated
  <2>4. key[i] = s[i].time /\ key[j] = s[j].time /\ key[i] \in Nat /\ key[j] \in Nat
    BY <1>1
  <2> QED
    BY <2>2, <2>3, <2>4
<1> HIDE DEF t
<1>8. ToSet(t) = ToSet(s)
  <2>1. ToSet(t) = {t[n] : n \in D} /\ ToSet(s) = {s[i] : i \in D}
    BY <1>1, <1>6 DEF ToSet
  <2> HIDE DEF D, key
  <2>2. \A n \in D : \E i \in D : t[n] = s[i]
    BY <1>4
  <2>3. \A i \in D : \E n \in D : s[i] = t[n]
    BY <1>4
  <2> QED
    BY <2>1, <2>2, <2>3
<1> QED
  BY <1>4, <1>6, <1>7, <1>8 DEF t, Ordered

\* There is one list in the order of the times with as many lines, and the same.
LEMMA OrderIsUnique ==
  ASSUME NEW t, NEW u, Ordered(t), Ordered(u), Len(t) = Len(u), ToSet(t) = ToSet(u)
  PROVE  t = u
<1> DEFINE N == Len(t)
           Bad == {k \in 1 .. N : t[k] # u[k]}
<1>1. /\ N \in Nat /\ DOMAIN t = 1 .. N /\ DOMAIN u = 1 .. N
      /\ \A k \in 1 .. N : t[k].time \in Nat /\ u[k].time \in Nat
  <2>1. t \in Seq(Lines) /\ u \in Seq(Lines)
    BY DEF Ordered
  <2>2. N \in Nat /\ DOMAIN t = 1 .. N /\ DOMAIN u = 1 .. N
    BY <2>1, LenProperties
  <2>3. \A k \in 1 .. N : t[k] \in Lines /\ u[k] \in Lines
    BY <2>1, <2>2, ElementOfSeq
  <2> QED
    BY <2>1, <2>2, <2>3, LineParts
<1>2. ToSet(t) = {t[k] : k \in 1 .. N} /\ ToSet(u) = {u[k] : k \in 1 .. N}
  BY <1>1 DEF ToSet
<1> HIDE DEF N
<1>3. Bad = {}
  <2> SUFFICES ASSUME Bad # {} PROVE FALSE
    OBVIOUS
  <2>1. PICK k \in Bad : \A l \in Bad : k <= l
    <3>1. Bad \subseteq Nat
      BY <1>1
    <3> HIDE DEF Bad
    <3> QED
      BY <3>1, LeastNumber
  <2>2. k \in 1 .. N /\ t[k] # u[k] /\ \A l \in 1 .. N : l < k => t[l] = u[l]
    BY <1>1, <2>1
  <2>3. PICK j \in 1 .. N : u[j] = t[k]
    BY <1>2, <2>2
  <2>4. PICK i \in 1 .. N : t[i] = u[k]
    BY <1>2, <2>2
  <2>5. ~ (j < k) /\ ~ (i < k)
    <3>1. ASSUME j < k PROVE FALSE
      <4>1. t[j] = t[k] /\ t[j].time < t[k].time
        BY <1>1, <2>2, <2>3, <3>1 DEF Ordered
      <4> QED
        BY <1>1, <2>2, <4>1
    <3>2. ASSUME i < k PROVE FALSE
      <4>1. u[i] = u[k] /\ u[i].time < u[k].time
        BY <1>1, <2>2, <2>4, <3>2 DEF Ordered
      <4> QED
        BY <1>1, <2>2, <4>1
    <3> QED
      BY <3>1, <3>2
  <2>6. k < i /\ k < j
    BY <1>1, <2>2, <2>3, <2>4, <2>5
  <2>7. t[k].time < t[i].time /\ u[k].time < u[j].time
    BY <1>1, <2>2, <2>6 DEF Ordered
  <2> QED
    BY <1>1, <2>2, <2>3, <2>4, <2>7
<1>4. t = [k \in 1 .. N |-> t[k]] /\ u = [k \in 1 .. N |-> u[k]]
  BY <1>1 DEF Ordered
<1>5. \A k \in 1 .. N : t[k] = u[k]
  BY <1>3
<1> QED
  BY <1>4, <1>5

\* What a list is in time depends only on which trades are in it.
LEMMA InTimeDepends ==
  ASSUME NEW s, NEW r, Dated(s), Dated(r), ToSet(s) = ToSet(r)
  PROVE  InTime(s) = InTime(r)
<1>1. Cardinality(ToSet(s)) = Len(s) /\ Cardinality(ToSet(r)) = Len(r)
  <2>1. ASSUME NEW q, Dated(q) PROVE Cardinality(ToSet(q)) = Len(q)
    <3>1. Len(q) \in Nat /\ DOMAIN q = 1 .. Len(q)
      BY <2>1, LenProperties DEF Dated
    <3>2. Cardinality({q[i] : i \in DOMAIN q}) = Cardinality(DOMAIN q)
      BY <2>1, AsManyLines
    <3>3. Cardinality(1 .. Len(q)) = Len(q)
      <4>1. Len(q) \in Int /\ 1 <= Len(q) + 1 /\ Len(q) - 1 + 1 = Len(q)
        BY <3>1
      <4> QED
        BY <4>1, IntervalCount
    <3> QED
      BY <3>1, <3>2, <3>3 DEF ToSet
  <2> QED
    BY <2>1
<1>2. /\ Ordered(InTime(s)) /\ Len(InTime(s)) = Len(s) /\ ToSet(InTime(s)) = ToSet(s)
      /\ Ordered(InTime(r)) /\ Len(InTime(r)) = Len(r) /\ ToSet(InTime(r)) = ToSet(r)
  BY InTimeIs
<1> QED
  BY <1>1, <1>2, OrderIsUnique

\* Some of the lines have different times, too.
LEMMA ThoseDated ==
  ASSUME NEW s, Dated(s), NEW places, places \subseteq DOMAIN s
  PROVE  Dated(Those(s, places)) /\ ToSet(Those(s, places)) = {s[i] : i \in places}
<1> DEFINE N == Cardinality(places)
           t == Those(s, places)
<1>1. /\ N \in Nat /\ t \in Seq(Lines) /\ Len(t) = N
      /\ \E at \in [1 .. N -> places] :
           /\ \A n \in 1 .. N : t[n] = s[at[n]]
           /\ \A m, n \in 1 .. N : m < n => at[m] < at[n]
  <2>1. s \in Seq(Lines)
    BY DEF Dated
  <2> QED
    BY SMTT(30), <2>1, ThoseInOrder
<1>2. PICK at \in [1 .. N -> places] :
           /\ \A n \in 1 .. N : t[n] = s[at[n]]
           /\ \A m, n \in 1 .. N : m < n => at[m] < at[n]
  BY <1>1
<1>3. ToSet(t) = {s[i] : i \in places}
  BY ThoseElements DEF Dated
<1>4. DOMAIN t = 1 .. N
  <2> HIDE DEF t, N
  <2>1. DOMAIN t = 1 .. Len(t)
    BY <1>1, LenProperties
  <2> QED
    BY <1>1, <2>1
<1>5. \A n \in 1 .. N : at[n] \in DOMAIN s /\ at[n] \in Nat
  <2>1. DOMAIN s = 1 .. Len(s) /\ Len(s) \in Nat
    BY LenProperties DEF Dated
  <2> QED
    BY <1>2, <2>1
<1>6. ASSUME NEW m \in 1 .. N, NEW n \in 1 .. N, t[m].time = t[n].time
      PROVE  m = n
  <2>1. at[m] = at[n]
    BY <1>2, <1>5, <1>6 DEF Dated
  <2> QED
    BY <1>1, <1>2, <1>5, <2>1
<1> QED
  BY <1>1, <1>3, <1>4, <1>6 DEF Dated

\* In whatever order they are written, the lines are the same.
LEMMA ReorderedIs ==
  ASSUME Dated(book), NEW p \in Reorderings(Len(book)),
         NEW r, r = [i \in DOMAIN book |-> book[p[i]]]
  PROVE  Dated(r) /\ ToSet(r) = ToSet(book)
<1> DEFINE D == 1 .. Len(book)
<1>1. /\ Len(book) \in Nat /\ DOMAIN book = D /\ \A i \in D : book[i] \in Lines
      /\ IsFiniteSet(D)
  BY LenProperties, ElementOfSeq, FS_Interval DEF Dated
<1>2. p \in [D -> D] /\ \A i, j \in D : p[i] = p[j] => i = j
  BY DEF Reorderings
<1> HIDE DEF D
<1>3. \A j \in D : \E i \in D : p[i] = j
  <2>1. p \in Injection(D, D)
    BY <1>2 DEF Injection, IsInjective
  <2>2. p \in Surjection(D, D)
    BY <1>1, <2>1, FS_Injection
  <2> QED
    BY <2>2 DEF Surjection
<1>4. r = [i \in D |-> book[p[i]]] /\ DOMAIN r = D /\ \A i \in D : r[i] = book[p[i]] /\ r[i] \in Lines
  BY <1>1, <1>2
<1>5. r \in Seq(Lines)
  <2>1. r \in [1 .. Len(book) -> Lines]
    BY <1>4 DEF D
  <2> QED
    BY <1>1, <2>1
<1>6. \A i, j \in D : r[i].time = r[j].time => i = j
  BY <1>1, <1>2, <1>4 DEF Dated
<1>7. ToSet(r) = ToSet(book)
  <2>1. ToSet(r) = {r[i] : i \in D} /\ ToSet(book) = {book[i] : i \in D}
    BY <1>1, <1>4 DEF ToSet
  <2>2. \A i \in D : \E j \in D : r[i] = book[j]
    BY <1>2, <1>4
  <2>3. \A j \in D : \E i \in D : book[j] = r[i]
    BY SMTT(30), <1>3, <1>4
  <2> QED
    BY SMTT(30), <2>1, <2>2, <2>3
<1> QED
  BY <1>4, <1>5, <1>6, <1>7 DEF Dated

\* The places of the trades of one duration that have a winner.
EndedIn(s, d) == {i \in Ended(s, "win") \cup Ended(s, "loss") : s[i].lasts = d}

\* The lines at these places are those of the duration with a winner.
LEMMA EndedAre ==
  ASSUME NEW s, Dated(s), NEW d
  PROVE  /\ EndedIn(s, d) \subseteq DOMAIN s
         /\ Dated(Those(s, EndedIn(s, d)))
         /\ ToSet(Those(s, EndedIn(s, d)))
              = {e \in ToSet(s) : e.result \in {"win", "loss"} /\ e.lasts = d}
<1>1. EndedIn(s, d) = {i \in DOMAIN s : s[i].result \in {"win", "loss"} /\ s[i].lasts = d}
  BY DEF EndedIn, Ended
<1>2. EndedIn(s, d) \subseteq DOMAIN s
  BY <1>1
<1>3. Dated(Those(s, EndedIn(s, d))) /\ ToSet(Those(s, EndedIn(s, d))) = {s[i] : i \in EndedIn(s, d)}
  BY <1>2, ThoseDated
<1>4. {s[i] : i \in EndedIn(s, d)}
        = {e \in ToSet(s) : e.result \in {"win", "loss"} /\ e.lasts = d}
  BY <1>1 DEF ToSet
<1> QED
  BY <1>2, <1>3, <1>4

\* Neither the report nor a score depends on the order of the lines.
LEMMA OrderIsNone ==
  ASSUME Dated(book)
  PROVE  ReportHasNoOrder
<1> SUFFICES ASSUME NEW p \in Reorderings(Len(book)), NEW r, r = [i \in DOMAIN book |-> book[p[i]]]
             PROVE  /\ book # <<>> => Report(r) = Report(book)
                    /\ \A d \in Timespans : Scored(r, d) = Scored(book, d)
  BY DEF ReportHasNoOrder
<1>1. Dated(r) /\ ToSet(r) = ToSet(book)
  BY ReorderedIs
<1>2. Report(r) = Report(book)
  <2>1. InTime(r) = InTime(book)
    BY <1>1, InTimeDepends
  <2> QED
    BY <2>1 DEF Report
<1>3. ASSUME NEW d \in Timespans
      PROVE  Scored(r, d) = Scored(book, d)
  <2>1. /\ Dated(Those(r, EndedIn(r, d))) /\ Dated(Those(book, EndedIn(book, d)))
        /\ ToSet(Those(r, EndedIn(r, d))) = ToSet(Those(book, EndedIn(book, d)))
    <3>1. /\ Dated(Those(r, EndedIn(r, d)))
          /\ ToSet(Those(r, EndedIn(r, d)))
               = {e \in ToSet(r) : e.result \in {"win", "loss"} /\ e.lasts = d}
      BY <1>1, EndedAre
    <3>2. /\ Dated(Those(book, EndedIn(book, d)))
          /\ ToSet(Those(book, EndedIn(book, d)))
               = {e \in ToSet(book) : e.result \in {"win", "loss"} /\ e.lasts = d}
      BY EndedAre
    <3> QED
      BY <1>1, <3>1, <3>2
  <2>2. InTime(Those(r, EndedIn(r, d))) = InTime(Those(book, EndedIn(book, d)))
    BY <2>1, InTimeDepends
  <2> QED
    BY <2>2 DEF Scored, EndedIn
<1> QED
  BY <1>2, <1>3

\* Of the first k trades, those with a result since the last one with the other.
InARow(t, result, k) ==
  {i \in 1 .. k : /\ t[i].result = result
                  /\ \A j \in i .. k : t[j].result \in {"win", "loss"} => t[j].result = result}

\* The count as analyze() keeps it.
CountsStreak(t, result, g) ==
  g = [k \in 0 .. Len(t) |->
         IF k = 0 THEN 0
         ELSE IF t[k].result = result THEN g[k - 1] + 1
         ELSE IF t[k].result \in {"win", "loss"} THEN 0
         ELSE g[k - 1]]

\* With the next trade the count goes on, ends or stays.
LEMMA CountedMoves ==
  ASSUME NEW t, NEW result \in {"win", "loss"}, NEW k \in Nat \ {0}
  PROVE  /\ t[k].result = result => /\ InARow(t, result, k) = InARow(t, result, k - 1) \cup {k}
                                    /\ k \notin InARow(t, result, k - 1)
         /\ t[k].result # result /\ t[k].result \in {"win", "loss"} => InARow(t, result, k) = {}
         /\ t[k].result \notin {"win", "loss"} => InARow(t, result, k) = InARow(t, result, k - 1)
<1> DEFINE A == InARow(t, result, k)
           B == InARow(t, result, k - 1)
           ends(j) == t[j].result \in {"win", "loss"} /\ t[j].result # result
<1>1. k - 1 \in Nat /\ \A i \in 1 .. k - 1 : i \in 1 .. k /\ i # k
  OBVIOUS
<1>2. \A i \in 1 .. k : i \in 1 .. k - 1 \/ i = k
  OBVIOUS
<1>3. \A i \in 1 .. k : \A j \in i .. k : j \in i .. k - 1 \/ j = k
  OBVIOUS
<1>4. \A i \in 1 .. k : k \in i .. k /\ \A j \in i .. k - 1 : j \in i .. k
  OBVIOUS
<1>5. A = {i \in 1 .. k : t[i].result = result /\ \A j \in i .. k : ~ ends(j)}
  BY DEF InARow
<1>6. B = {i \in 1 .. k - 1 : t[i].result = result /\ \A j \in i .. k - 1 : ~ ends(j)}
  BY DEF InARow
<1>7. \A j \in k .. k : j = k
  OBVIOUS
<1>8. k \in 1 .. k
  OBVIOUS
<1> HIDE DEF A, B
<1>9. ASSUME t[k].result = result
      PROVE  A = B \cup {k} /\ k \notin B
  <2>1. ~ ends(k)
    BY <1>9
  <2> HIDE DEF ends
  <2>2. \A i \in A : i \in B \/ i = k
    BY <1>2, <1>4, <1>5, <1>6
  <2>3. \A i \in B : i \in A
    BY <1>1, <1>3, <1>5, <1>6, <2>1
  <2>4. k \in A
    BY <1>5, <1>7, <1>8, <1>9, <2>1
  <2>5. k \notin B
    BY <1>1, <1>6
  <2> QED
    BY <2>2, <2>3, <2>4, <2>5
<1>10. ASSUME t[k].result # result, t[k].result \in {"win", "loss"}
       PROVE  A = {}
  <2>1. ends(k)
    BY <1>10
  <2> HIDE DEF ends
  <2> QED
    BY <1>4, <1>5, <2>1
<1>11. ASSUME t[k].result \notin {"win", "loss"}
       PROVE  A = B
  <2>1. ~ ends(k) /\ t[k].result # result
    BY <1>11
  <2> HIDE DEF ends
  <2>2. \A i \in A : i \in B
    BY <1>2, <1>4, <1>5, <1>6, <2>1
  <2>3. \A i \in B : i \in A
    BY <1>1, <1>3, <1>5, <1>6, <2>1
  <2> QED
    BY <2>2, <2>3
<1> QED
  BY <1>9, <1>10, <1>11 DEF A, B

\* The count exists, and is how many were counted.
LEMMA CountedIsCount ==
  ASSUME NEW t, Ordered(t), NEW result \in {"win", "loss"}
  PROVE  /\ \A k \in 0 .. Len(t) : Cardinality(InARow(t, result, k)) \in Nat
         /\ Cardinality(InARow(t, result, 0)) = 0
         /\ CountsStreak(t, result, [k \in 0 .. Len(t) |-> Cardinality(InARow(t, result, k))])
<1> DEFINE n == Len(t)
           g == [k \in 0 .. n |-> Cardinality(InARow(t, result, k))]
<1>1. n \in Nat
  BY LenProperties DEF Ordered
<1>2. ASSUME NEW k \in Nat
      PROVE  IsFiniteSet(InARow(t, result, k)) /\ Cardinality(InARow(t, result, k)) \in Nat
  <2>1. InARow(t, result, k) \in SUBSET (1 .. k) /\ IsFiniteSet(1 .. k)
    BY FS_Interval DEF InARow
  <2> QED
    BY <2>1, FS_Subset, FS_CardinalityType
<1>3. Cardinality(InARow(t, result, 0)) = 0
  <2>1. InARow(t, result, 0) = {}
    BY DEF InARow
  <2> QED
    BY <2>1, FS_EmptySet
<1> HIDE DEF n
<1>4. \A k \in 0 .. n : k \in Nat /\ (k # 0 => k \in Nat \ {0} /\ k - 1 \in 0 .. n /\ k - 1 \in Nat)
  BY <1>1
<1>5. ASSUME NEW k \in 0 .. n
      PROVE  g[k] = IF k = 0 THEN 0
                    ELSE IF t[k].result = result THEN g[k - 1] + 1
                    ELSE IF t[k].result \in {"win", "loss"} THEN 0
                    ELSE g[k - 1]
  <2>1. CASE k = 0
    BY <1>3, <2>1
  <2>2. CASE k # 0
    <3>1. PICK m \in 0 .. n : m = k - 1 /\ m \in Nat
      BY <1>4, <2>2
    <3>2. g[k] = Cardinality(InARow(t, result, k)) /\ g[m] = Cardinality(InARow(t, result, m))
      OBVIOUS
    <3>3. /\ t[k].result = result => /\ InARow(t, result, k) = InARow(t, result, m) \cup {k}
                                     /\ k \notin InARow(t, result, m)
          /\ t[k].result # result /\ t[k].result \in {"win", "loss"} => InARow(t, result, k) = {}
          /\ t[k].result \notin {"win", "loss"} => InARow(t, result, k) = InARow(t, result, m)
      BY <1>4, <2>2, <3>1, CountedMoves
    <3>4. IsFiniteSet(InARow(t, result, m))
      BY <1>2, <3>1
    <3> HIDE DEF g
    <3>5. CASE t[k].result = result
      <4>1. Cardinality(InARow(t, result, m) \cup {k}) = Cardinality(InARow(t, result, m)) + 1
        BY <3>3, <3>4, <3>5, FS_AddElement
      <4> QED
        BY <2>2, <3>1, <3>2, <3>3, <3>5, <4>1
    <3>6. CASE t[k].result # result /\ t[k].result \in {"win", "loss"}
      BY <2>2, <3>1, <3>2, <3>3, <3>6, FS_EmptySet
    <3>7. CASE t[k].result \notin {"win", "loss"}
      BY <2>2, <3>1, <3>2, <3>3, <3>7
    <3> QED
      BY <3>5, <3>6, <3>7
  <2> QED
    BY <2>1, <2>2
<1>6. CountsStreak(t, result, g)
  <2>1. g = [k \in 0 .. n |-> g[k]]
    OBVIOUS
  <2> HIDE DEF g
  <2>2. g = [k \in 0 .. n |-> IF k = 0 THEN 0
                              ELSE IF t[k].result = result THEN g[k - 1] + 1
                              ELSE IF t[k].result \in {"win", "loss"} THEN 0
                              ELSE g[k - 1]]
    BY <1>5, <2>1
  <2> QED
    BY <2>2 DEF CountsStreak, n
<1> QED
  BY <1>2, <1>3, <1>4, <1>6 DEF g, n

\* There is no other count.
LEMMA CountIsOne ==
  ASSUME NEW t, Ordered(t), NEW result, NEW g, NEW h,
         CountsStreak(t, result, g), CountsStreak(t, result, h)
  PROVE  g = h
<1> DEFINE n == Len(t)
           Next(f, k) == IF k = 0 THEN 0
                         ELSE IF t[k].result = result THEN f[k - 1] + 1
                         ELSE IF t[k].result \in {"win", "loss"} THEN 0
                         ELSE f[k - 1]
           Bad == {k \in 0 .. n : g[k] # h[k]}
<1>1. n \in Nat
  BY LenProperties DEF Ordered
<1>2. /\ g = [k \in 0 .. n |-> Next(g, k)] /\ h = [k \in 0 .. n |-> Next(h, k)]
  BY DEF CountsStreak
<1>3. \A k \in 0 .. n : g[k] = Next(g, k) /\ h[k] = Next(h, k)
  <2> HIDE DEF Next, n
  <2> QED
    BY <1>2
<1>4. g = [k \in 0 .. n |-> g[k]] /\ h = [k \in 0 .. n |-> h[k]]
  <2> HIDE DEF Next, n
  <2> QED
    BY <1>2
<1> HIDE DEF n
<1>5. Bad = {}
  <2> SUFFICES ASSUME Bad # {} PROVE FALSE
    OBVIOUS
  <2>1. PICK k \in Bad : \A m \in Bad : k <= m
    <3>1. Bad \subseteq Nat
      BY <1>1
    <3> HIDE DEF Bad
    <3> QED
      BY <3>1, LeastNumber
  <2>2. k \in 0 .. n /\ g[k] # h[k]
    BY <2>1
  <2>3. k # 0
    BY <1>3, <2>2
  <2>4. k - 1 \in 0 .. n /\ ~ (k <= k - 1)
    BY <1>1, <2>2, <2>3
  <2>5. g[k - 1] = h[k - 1]
    BY <2>1, <2>4
  <2> HIDE DEF Bad
  <2>6. Next(g, k) = Next(h, k)
    BY <2>5
  <2> QED
    BY <1>3, <2>2, <2>6
<1> QED
  BY <1>4, <1>5

\* A streak is the most that was ever counted.
LEMMA StreakIsCounted ==
  ASSUME NEW t, Ordered(t), NEW result \in {"win", "loss"}
  PROVE  Streak(t, result) = Max({Cardinality(InARow(t, result, k)) : k \in 0 .. Len(t)})
<1> DEFINE g == CHOOSE g : CountsStreak(t, result, g)
           h == [k \in 0 .. Len(t) |-> Cardinality(InARow(t, result, k))]
<1>1. Streak(t, result) = Max({g[k] : k \in 0 .. Len(t)})
  BY DEF Streak, CountsStreak
<1>2. CountsStreak(t, result, h)
  BY CountedIsCount
<1>3. CountsStreak(t, result, g)
  BY <1>2
<1>4. g = h
  <2> HIDE DEF g, h
  <2> QED
    BY <1>2, <1>3, CountIsOne
<1>5. {g[k] : k \in 0 .. Len(t)} = {Cardinality(InARow(t, result, k)) : k \in 0 .. Len(t)}
  <2>1. \A k \in 0 .. Len(t) : g[k] = Cardinality(InARow(t, result, k))
    <3> HIDE DEF g
    <3> QED
      BY <1>4
  <2> HIDE DEF g
  <2> QED
    BY <2>1
<1> QED
  BY <1>1, <1>5

\* The trades from the i-th to the j-th that have a result.
Within(t, result, i, j) == {m \in i .. j : t[m].result = result}

\* What was counted are all trades with the result from one of them to another, with
\* no other result in between.
LEMMA CountedIsWithin ==
  ASSUME NEW t, NEW result, NEW k \in Nat, InARow(t, result, k) # {}
  PROVE  \E i, j \in InARow(t, result, k) :
           /\ i <= j /\ InARow(t, result, k) = Within(t, result, i, j)
           /\ \A m \in i .. j : t[m].result \in {"win", "loss"} => t[m].result = result
<1> DEFINE C == InARow(t, result, k)
           B == {k - i : i \in C}
<1>1. \A i \in C : /\ i \in 1 .. k /\ t[i].result = result
                   /\ \A m \in i .. k : t[m].result \in {"win", "loss"} => t[m].result = result
  BY DEF InARow
<1>2. \A i \in 1 .. k : /\ t[i].result = result
                        /\ \A m \in i .. k : t[m].result \in {"win", "loss"} => t[m].result = result
                        => i \in C
  BY DEF InARow
<1> HIDE DEF C
<1>3. PICK i \in C : \A m \in C : i <= m
  <2>1. C \subseteq Nat /\ C # {}
    BY <1>1 DEF C
  <2> QED
    BY <2>1, LeastNumber
<1>4. PICK j \in C : \A m \in C : m <= j
  <2>1. B \subseteq Nat /\ B # {}
    BY <1>1 DEF C
  <2>2. PICK b \in B : \A c \in B : b <= c
    <3> HIDE DEF B
    <3> QED
      BY <2>1, LeastNumber
  <2>3. PICK j \in C : b = k - j
    BY <2>2
  <2>4. ASSUME NEW m \in C PROVE m <= j
    <3>1. k - j <= k - m /\ j \in Int /\ m \in Int /\ k \in Int
      BY <1>1, <2>2, <2>3
    <3> QED
      BY <3>1
  <2> QED
    BY <2>3, <2>4
<1>5. i \in 1 .. k /\ j \in 1 .. k /\ i <= j
  BY <1>1, <1>3
<1>6. \A m \in i .. j : m \in 1 .. k /\ m \in i .. k /\ \A l \in m .. k : l \in i .. k
  BY <1>5
<1>7. \A m \in i .. j : t[m].result \in {"win", "loss"} => t[m].result = result
  BY <1>1, <1>6
<1>8. C = Within(t, result, i, j)
  <2>1. \A m \in C : m \in i .. j /\ t[m].result = result
    BY <1>1, <1>3, <1>4, <1>5
  <2>2. ASSUME NEW m \in i .. j, t[m].result = result PROVE m \in C
    BY <1>1, <1>2, <1>6, <2>2
  <2> QED
    BY <2>1, <2>2 DEF Within
<1> QED
  BY <1>5, <1>7, <1>8 DEF C

\* And where none of them has the other result, all were counted by the last.
LEMMA WithinIsCounted ==
  ASSUME NEW t, NEW result, NEW i \in Nat \ {0}, NEW j \in Nat,
         \A m \in i .. j : t[m].result \in {"win", "loss"} => t[m].result = result
  PROVE  Within(t, result, i, j) \subseteq InARow(t, result, j)
<1> SUFFICES ASSUME NEW m \in i .. j, t[m].result = result
             PROVE  m \in InARow(t, result, j)
  BY DEF Within
<1>1. m \in 1 .. j /\ \A l \in m .. j : l \in i .. j
  OBVIOUS
<1> QED
  BY <1>1 DEF InARow

\* In a list in the order of the times, the places are in the order of the times.
LEMMA PlacesAreTimes ==
  ASSUME NEW t, Ordered(t)
  PROVE  /\ Len(t) \in Nat /\ DOMAIN t = 1 .. Len(t) /\ Dated(t)
         /\ \A i \in 1 .. Len(t) : t[i] \in Lines /\ t[i].time \in Nat
         /\ \A i, j \in 1 .. Len(t) : /\ t[i].time <= t[j].time <=> i <= j
                                      /\ t[i].time < t[j].time <=> i < j
<1> DEFINE n == Len(t)
<1>1. n \in Nat /\ DOMAIN t = 1 .. n /\ t \in Seq(Lines)
  BY LenProperties DEF Ordered
<1>2. \A i \in 1 .. n : t[i] \in Lines /\ t[i].time \in Nat
  BY <1>1, ElementOfSeq, LineParts
<1>3. \A i, j \in 1 .. n : i < j => t[i].time < t[j].time
  BY <1>1 DEF Ordered
<1> HIDE DEF n
<1>4. ASSUME NEW i \in 1 .. n, NEW j \in 1 .. n
      PROVE  /\ t[i].time <= t[j].time <=> i <= j
             /\ t[i].time < t[j].time <=> i < j
             /\ t[i].time = t[j].time => i = j
  <2>1. CASE i < j
    BY <1>1, <1>2, <1>3, <2>1
  <2>2. CASE i = j
    BY <1>1, <1>2, <2>2
  <2>3. CASE j < i
    BY <1>1, <1>2, <1>3, <2>3
  <2> QED
    BY <1>1, <2>1, <2>2, <2>3
<1>5. Dated(t)
  BY <1>1, <1>4 DEF Dated
<1> QED
  BY <1>1, <1>2, <1>4, <1>5 DEF n

\* The trades with a result that lie between two of them in time, and how many they are
\* for every two with none of the other result in between.
Between(same, a, b) == {e \in same : a.time <= e.time /\ e.time <= b.time}
Uncut(same, rest) ==
  {q \in same \X same : ~\E e \in rest : q[1].time < e.time /\ e.time < q[2].time}
RunSizes(same, rest) ==
  {Cardinality(Between(same, q[1], q[2])) : q \in Uncut(same, rest)}

\* The streak is the longest run.
LEMMA StreakIsRun ==
  ASSUME NEW t, Ordered(t), NEW result \in {"win", "loss"}, NEW same, NEW rest,
         same = {e \in ToSet(t) : e.result = result},
         rest = {e \in ToSet(t) : e.result \in {"win", "loss"} /\ e.result # result}
  PROVE  Streak(t, result) = Max({0} \cup RunSizes(same, rest))
<1> DEFINE n == Len(t)
           C(k) == InARow(t, result, k)
           A == {Cardinality(C(k)) : k \in 0 .. n}
           B == {0} \cup RunSizes(same, rest)
<1>1. /\ n \in Nat /\ DOMAIN t = 1 .. n /\ Dated(t)
      /\ \A i, j \in 1 .. n : /\ t[i].time <= t[j].time <=> i <= j
                              /\ t[i].time < t[j].time <=> i < j
  BY PlacesAreTimes
<1>2. ToSet(t) = {t[i] : i \in 1 .. n}
  BY <1>1 DEF ToSet
<1>3. /\ \A e \in same : \E i \in 1 .. n : e = t[i] /\ t[i].result = result
      /\ \A i \in 1 .. n : t[i].result = result => t[i] \in same
  BY <1>2
<1>4. /\ \A e \in rest : \E i \in 1 .. n : e = t[i] /\ t[i].result \in {"win", "loss"} /\ t[i].result # result
      /\ \A i \in 1 .. n : t[i].result \in {"win", "loss"} /\ t[i].result # result => t[i] \in rest
  BY <1>2
<1>5. \A k \in 0 .. n : Cardinality(C(k)) \in Nat /\ C(k) \subseteq 1 .. k /\ k \in Nat
  <2>1. \A k \in 0 .. n : Cardinality(C(k)) \in Nat
    BY CountedIsCount
  <2>2. \A k \in 0 .. n : k \in Nat
    BY <1>1
  <2>3. \A k : C(k) \subseteq 1 .. k
    BY DEF InARow
  <2> QED
    BY <2>1, <2>2, <2>3
<1>6. Cardinality(C(0)) = 0
  BY CountedIsCount
<1> HIDE DEF n, C
<1>7. ASSUME NEW i \in 1 .. n, NEW j \in 1 .. n
      PROVE  /\ Within(t, result, i, j) \subseteq 1 .. n
             /\ Between(same, t[i], t[j]) = {t[m] : m \in Within(t, result, i, j)}
             /\ Cardinality(Between(same, t[i], t[j])) = Cardinality(Within(t, result, i, j))
  <2>1. \A m \in i .. j : m \in 1 .. n /\ i <= m /\ m <= j
    BY <1>1
  <2>2. Within(t, result, i, j) \subseteq 1 .. n
    BY <2>1 DEF Within
  <2>3. ASSUME NEW e \in Between(same, t[i], t[j])
        PROVE  \E m \in Within(t, result, i, j) : e = t[m]
    <3>1. PICK m \in 1 .. n : e = t[m] /\ t[m].result = result
      BY <1>3, <2>3 DEF Between
    <3>2. i <= m /\ m <= j
      BY <1>1, <3>1 DEF Between
    <3>3. m \in i .. j
      BY <1>1, <3>2
    <3> QED
      BY <3>1, <3>3 DEF Within
  <2>4. ASSUME NEW m \in Within(t, result, i, j)
        PROVE  t[m] \in Between(same, t[i], t[j])
    <3>1. m \in 1 .. n /\ i <= m /\ m <= j /\ t[m].result = result
      BY <2>1 DEF Within
    <3> QED
      BY <1>1, <1>3, <3>1 DEF Between
  <2>5. Between(same, t[i], t[j]) = {t[m] : m \in Within(t, result, i, j)}
    BY <2>3, <2>4
  <2>6. Cardinality({t[m] : m \in Within(t, result, i, j)}) = Cardinality(Within(t, result, i, j))
    BY <1>1, <2>2, AsManyLines
  <2> QED
    BY <2>2, <2>5, <2>6
<1>8. A \subseteq B
  <2> SUFFICES ASSUME NEW k \in 0 .. n PROVE Cardinality(C(k)) \in B
    OBVIOUS
  <2>1. CASE C(k) = {}
    BY <2>1, FS_EmptySet
  <2>2. CASE C(k) # {}
    <3>1. PICK i, j \in C(k) :
            /\ C(k) = Within(t, result, i, j)
            /\ \A m \in i .. j : t[m].result \in {"win", "loss"} => t[m].result = result
      BY <1>5, <2>2, CountedIsWithin DEF C
    <3>2. i \in 1 .. n /\ j \in 1 .. n
      BY <1>1, <1>5
    <3>3. t[i].result = result /\ t[j].result = result
      BY <3>1 DEF Within
    <3>4. ~\E e \in rest : t[i].time < e.time /\ e.time < t[j].time
      <4> SUFFICES ASSUME NEW e \in rest, t[i].time < e.time, e.time < t[j].time PROVE FALSE
        OBVIOUS
      <4>1. PICK m \in 1 .. n : e = t[m] /\ t[m].result \in {"win", "loss"} /\ t[m].result # result
        BY <1>4
      <4>2. i < m /\ m < j
        BY <1>1, <3>2, <4>1
      <4>3. m \in i .. j
        BY <3>2, <4>1, <4>2
      <4> QED
        BY <3>1, <4>1, <4>3
    <3>5. <<t[i], t[j]>> \in Uncut(same, rest)
      BY <1>3, <3>2, <3>3, <3>4 DEF Uncut
    <3>6. Cardinality(C(k)) = Cardinality(Between(same, t[i], t[j]))
      BY <1>7, <3>1, <3>2
    <3>7. Cardinality(Between(same, t[i], t[j])) \in RunSizes(same, rest)
      <4>1. PICK q \in Uncut(same, rest) : q[1] = t[i] /\ q[2] = t[j]
        BY <3>5
      <4> QED
        BY <4>1 DEF RunSizes
    <3> QED
      BY <3>6, <3>7
  <2> QED
    BY <2>1, <2>2
<1>9. \A z \in B : z \in Int /\ \E y \in A : z <= y
  <2> SUFFICES ASSUME NEW z \in B PROVE z \in Int /\ \E y \in A : z <= y
    OBVIOUS
  <2>1. 0 \in A
    BY <1>1, <1>6
  <2>2. CASE z = 0
    BY <2>1, <2>2
  <2>3. CASE z # 0
    <3>1. PICK q \in Uncut(same, rest) : z = Cardinality(Between(same, q[1], q[2]))
      BY <2>3 DEF RunSizes
    <3>2. PICK i \in 1 .. n, j \in 1 .. n :
            q[1] = t[i] /\ q[2] = t[j] /\ t[i].result = result /\ t[j].result = result
      <4>1. q[1] \in same /\ q[2] \in same
        BY DEF Uncut
      <4> QED
        BY <1>3, <4>1
    <3>3. ~\E e \in rest : t[i].time < e.time /\ e.time < t[j].time
      BY <3>2 DEF Uncut
    <3>4. z = Cardinality(Within(t, result, i, j))
      BY <1>7, <3>1, <3>2
    <3>5. ASSUME NEW m \in i .. j, t[m].result \in {"win", "loss"}
          PROVE  t[m].result = result
      <4> SUFFICES ASSUME t[m].result # result PROVE FALSE
        OBVIOUS
      <4>1. m \in 1 .. n /\ i < m /\ m < j
        BY <1>1, <3>2, <3>5
      <4>2. t[m] \in rest /\ t[i].time < t[m].time /\ t[m].time < t[j].time
        BY <1>1, <1>4, <3>5, <4>1
      <4> QED
        BY <3>3, <4>2
    <3>6. Within(t, result, i, j) \subseteq C(j)
      <4>1. i \in Nat \ {0} /\ j \in Nat
        BY <1>1
      <4> QED
        BY <3>5, <4>1, WithinIsCounted DEF C
    <3>7. j \in 0 .. n /\ IsFiniteSet(C(j))
      <4>1. C(j) \subseteq 1 .. j /\ j \in 0 .. n
        BY <1>1, <1>5
      <4>2. IsFiniteSet(1 .. j)
        BY <1>1, FS_Interval
      <4> QED
        BY <4>1, <4>2, FS_Subset
    <3>8. IsFiniteSet(Within(t, result, i, j)) /\ z <= Cardinality(C(j))
      BY <3>4, <3>6, <3>7, FS_Subset
    <3>9. z \in Nat
      BY <3>4, <3>8, FS_CardinalityType
    <3> QED
      BY <3>7, <3>8, <3>9
  <2> QED
    BY <2>2, <2>3
<1>10. PICK x \in A : \A y \in A : y <= x
  <2> DEFINE h == [k \in 0 .. n |-> Cardinality(C(k))]
  <2>1. 0 \in Nat /\ n \in Nat /\ 0 <= n /\ \A k \in 0 .. n : h[k] \in Int
    BY <1>1, <1>5
  <2> HIDE DEF h
  <2>2. PICK k \in 0 .. n : \A m \in 0 .. n : h[m] <= h[k]
    BY <2>1, HighestExists
  <2> QED
    BY <2>2 DEF h
<1>11. Streak(t, result) = Max(A)
  BY StreakIsCounted DEF C, n
<1>12. Max(A) = x /\ Max(B) = x
  <2> HIDE DEF A, B
  <2>1. B \subseteq Int /\ \A z \in B : \E y \in A : z <= y
    BY <1>9
  <2> QED
    BY <1>8, <1>10, <2>1, MaxIsShared
<1> QED
  BY <1>11, <1>12

\* The sum of numbers none of which is below v is no less than their number times v.
LEMMA SumAtLeast ==
  ASSUME NEW S, IsFiniteSet(S), NEW f \in [S -> Int], NEW v \in Int,
         NEW A \in SUBSET S, \A x \in A : v <= f[x]
  PROVE  Cardinality(A) * v <= SumFunctionOnSet(f, A)
<1> DEFINE Sum(T) == SumFunctionOnSet(f, T)
           Bad == {T \in SUBSET A : ~ (Cardinality(T) * v <= Sum(T))}
           Sizes == {Cardinality(T) : T \in Bad}
<1>1. Sum({}) = 0 /\ Cardinality({}) = 0 /\ \A T \in SUBSET A : Sum(T) \in Int
  BY SumOnSet, FS_EmptySet
<1>2. ASSUME NEW T \in SUBSET A, NEW x \in T
      PROVE  f[x] \in Int /\ v <= f[x] /\ Sum(T) = f[x] + Sum(T \ {x})
  BY SumOnSet
<1> HIDE DEF Sum
<1>3. ASSUME NEW T \in SUBSET A
      PROVE  IsFiniteSet(T) /\ Cardinality(T) \in Nat
  BY FS_Subset, FS_CardinalityType
<1>4. Bad = {}
  <2> SUFFICES ASSUME Bad # {} PROVE FALSE
    OBVIOUS
  <2>1. Sizes # {} /\ Sizes \subseteq Nat
    BY <1>3
  <2>2. PICK n \in Sizes : \A m \in Sizes : n <= m
    <3> HIDE DEF Sizes
    <3> QED BY <2>1, LeastNumber
  <2>3. PICK T \in Bad : n = Cardinality(T)
    BY <2>2
  <2>4. T \in SUBSET A /\ T # {} /\ n \in Nat
    <3>1. 0 * v = 0
      OBVIOUS
    <3> QED
      BY <1>1, <1>3, <2>3, <3>1
  <2>5. PICK x \in T : TRUE
    BY <2>4
  <2>6. PICK U : U = T \ {x} /\ U \in SUBSET A /\ Cardinality(U) = n - 1
    BY <1>3, <2>3, <2>4, <2>5, FS_RemoveElement
  <2>7. n - 1 \notin Sizes
    <3> HIDE DEF Sizes
    <3> QED BY <2>2, <2>4
  <2>8. (n - 1) * v <= Sum(U)
    BY <2>6, <2>7
  <2>9. f[x] \in Int /\ v <= f[x] /\ Sum(T) = f[x] + Sum(U) /\ Sum(U) \in Int
    BY <1>1, <1>2, <2>4, <2>5, <2>6
  <2>10. v + (n - 1) * v = n * v /\ (n - 1) * v \in Int
    BY <2>4
  <2>11. v + (n - 1) * v <= f[x] + Sum(U)
    <3> DEFINE w == (n - 1) * v
               y == f[x]
               z == Sum(U)
    <3>1. w \in Int /\ y \in Int /\ z \in Int /\ w <= z /\ v <= y
      BY <2>8, <2>9, <2>10
    <3> HIDE DEF w, y, z
    <3>2. v + w <= y + z
      BY <3>1
    <3> QED
      BY <3>2 DEF w, y, z
  <2>12. n * v <= Sum(T)
    BY <2>9, <2>10, <2>11
  <2> QED
    BY <2>3, <2>12
<1> QED
  BY <1>4 DEF Sum

\* What the trades of a list earned, by their results.
LEMMA EarnedByResult ==
  ASSUME NEW s, s \in Seq(Lines)
  PROVE  /\ gross_profit(s) \in Int /\ gross_loss(s) \in Int
         /\ Cardinality(Ended(s, "loss")) \in Nat
         /\ gross_loss(s) <= FullStake * Cardinality(Ended(s, "loss"))
         /\ Earned(s, Ended(s, "win") \cup Ended(s, "loss")) = gross_profit(s) - gross_loss(s)
         /\ Earned(s, {i \in DOMAIN s : s[i].profit # NoProfit}) = gross_profit(s) - gross_loss(s)
<1> DEFINE D == DOMAIN s
           f == [i \in D |-> Profit(s[i])]
           W == Ended(s, "win")
           L == Ended(s, "loss")
           Z == {i \in D : s[i].profit # NoProfit /\ i \notin W \cup L}
           Sum(T) == SumFunctionOnSet(f, T)
<1>1. Len(s) \in Nat /\ D = 1 .. Len(s) /\ \A i \in D : s[i] \in Lines
  BY LenProperties, ElementOfSeq
<1>2. IsFiniteSet(D)
  BY <1>1, FS_Interval
<1>3. W = {i \in D : s[i].result = "win"} /\ L = {i \in D : s[i].result = "loss"}
  BY DEF Ended
<1>4. \A i \in D : /\ Profit(s[i]) \in Int
                   /\ s[i].result \in {"win", "loss", "draw", "open"}
                   /\ s[i].result = "win" => s[i].profit # NoProfit
                   /\ s[i].result = "loss" => s[i].profit # NoProfit /\ -FullStake <= Profit(s[i])
                   /\ s[i].result = "draw" => Profit(s[i]) = 0
                   /\ s[i].result = "open" => s[i].profit = NoProfit
  BY <1>1, LineParts
<1>5. f \in [D -> Int] /\ \A i \in D : f[i] = Profit(s[i])
  BY <1>4
<1>6. \A T : Earned(s, T) = Sum(T)
  BY DEF Earned
<1> HIDE DEF D, f, W, L
<1>7. W \in SUBSET D /\ L \in SUBSET D /\ W \cap L = {} /\ W \cup L \in SUBSET D
  BY <1>3
<1>8. Z \in SUBSET D /\ (W \cup L) \cap Z = {} /\ \A i \in Z : f[i] = 0
  <2>1. \A i \in Z : i \in D /\ s[i].result = "draw"
    BY <1>3, <1>4
  <2> QED
    BY <1>4, <1>5, <2>1
<1>9. {i \in D : s[i].profit # NoProfit} = (W \cup L) \cup Z
  BY <1>3, <1>4
<1> HIDE DEF Z
<1>10. Sum(W) \in Int /\ Sum(L) \in Int
  BY <1>2, <1>5, <1>7, SumOnSet
<1>11. Sum(W \cup L) = Sum(W) + Sum(L)
  BY <1>2, <1>5, <1>7, SumOfParts
<1>12. Sum((W \cup L) \cup Z) = Sum(W \cup L) + Sum(Z)
  BY <1>2, <1>5, <1>7, <1>8, SumOfParts
<1>13. Cardinality(L) \in Nat /\ Cardinality(Z) \in Nat
  BY <1>2, <1>7, <1>8, FS_Subset, FS_CardinalityType
<1>14. Sum(Z) = 0
  <2>1. Sum(Z) = Cardinality(Z) * 0
    BY <1>2, <1>5, <1>8, SumOfEqual
  <2> QED
    BY <1>13, <2>1
<1>15. PICK v \in Int : v = -FullStake /\ FullStake \in Nat
  BY ReportsAssumption
<1>16. Cardinality(L) * v <= Sum(L)
  <2>1. \A i \in L : v <= f[i]
    BY <1>3, <1>4, <1>5, <1>15
  <2> QED
    BY <1>2, <1>5, <1>7, <2>1, SumAtLeast
<1>17. gross_profit(s) = Sum(W) /\ gross_loss(s) = -Sum(L)
  BY <1>6 DEF gross_profit, gross_loss, W, L
<1> HIDE DEF Sum
<1>18. PICK w \in Int, l \in Int, c \in Nat, h \in Nat :
         w = Sum(W) /\ l = Sum(L) /\ c = Cardinality(L) /\ h = FullStake
  BY <1>10, <1>13, <1>15
<1>19. c * v <= l /\ v = -h
  BY <1>15, <1>16, <1>18
<1>20. -l <= h * c
  <2>1. c * (-h) = -(h * c) /\ h * c \in Int
    OBVIOUS
  <2> QED
    BY <1>19, <2>1
<1>21. Earned(s, W \cup L) = w + l /\ Earned(s, (W \cup L) \cup Z) = w + l
  BY <1>6, <1>11, <1>12, <1>14, <1>18
<1>22. w + l = w - (-l)
  OBVIOUS
<1>23. /\ gross_profit(s) = w /\ gross_loss(s) = -l /\ Cardinality(L) = c /\ FullStake = h
  BY <1>17, <1>18
<1>24. /\ gross_profit(s) \in Int /\ gross_loss(s) \in Int /\ Cardinality(L) \in Nat
       /\ gross_loss(s) <= FullStake * Cardinality(L)
  BY <1>18, <1>20, <1>23
<1>25. /\ Earned(s, W \cup L) = gross_profit(s) - gross_loss(s)
       /\ Earned(s, {i \in D : s[i].profit # NoProfit}) = gross_profit(s) - gross_loss(s)
  BY <1>9, <1>21, <1>22, <1>23
<1> QED
  BY <1>24, <1>25 DEF W, L, D

\* A list is the end of one in the order of the times, of the trades of one duration
\* that have a winner.
IsLatest(sc, d, u, from) ==
  /\ from \in Nat /\ Ordered(u)
  /\ ToSet(u) = {e \in ToSet(book) : e.result \in {"win", "loss"} /\ e.lasts = d}
  /\ from + Len(sc) = Len(u)
  /\ sc \in Seq(Lines)
  /\ \A i \in 1 .. Len(sc) : sc[i] = u[from + i]

\* The scored trades are such an end.
LEMMA ScoredAre ==
  ASSUME Dated(book), NEW d
  PROVE  \E u, from : IsLatest(Scored(book, d), d, u, from)
<1> DEFINE ended == Those(book, EndedIn(book, d))
           u == InTime(ended)
           from == IF Len(u) > LastN THEN Len(u) - LastN ELSE 0
           sc == Scored(book, d)
<1>1. /\ Dated(ended)
      /\ ToSet(ended) = {e \in ToSet(book) : e.result \in {"win", "loss"} /\ e.lasts = d}
  BY EndedAre
<1>2. sc = Latest(u, LastN)
  BY DEF Scored, EndedIn
<1> HIDE DEF ended
<1>3. Ordered(u) /\ ToSet(u) = ToSet(ended)
  BY <1>1, InTimeIs
<1> HIDE DEF u, sc
<1>4. Len(u) \in Nat /\ DOMAIN u = 1 .. Len(u) /\ \A i \in 1 .. Len(u) : u[i] \in Lines
  BY <1>3, PlacesAreTimes
<1>5. from \in Nat /\ from <= Len(u)
  BY <1>4, ReportsAssumption
<1>6. sc = SubSeq(u, 1 + from, Len(u))
  BY <1>2 DEF Latest
<1> HIDE DEF from
<1>7. PICK n \in Nat, f \in Nat, m \in Nat : n = Len(u) /\ f = from /\ n = f + m
  <2>1. PICK n \in Nat, f \in Nat : n = Len(u) /\ f = from
    BY <1>4, <1>5
  <2>2. f <= n
    BY <1>5, <2>1
  <2>3. n - f \in Nat /\ n = f + (n - f)
    BY <2>2
  <2> QED
    BY <2>1, <2>3
<1>8. sc = SubSeq(u, 1 + f, n)
  BY <1>6, <1>7
<1>9. \A i \in 1 .. m : f + i \in 1 .. n
  BY <1>7
<1>10. \A i \in 1 + f .. n : u[i] \in Lines
  <2>1. \A i \in 1 + f .. n : i \in 1 .. n
    OBVIOUS
  <2> QED
    BY <1>4, <1>7, <2>1
<1>11. /\ sc \in Seq(Lines) /\ Len(sc) = m
       /\ \A i \in 1 .. m : sc[i] = u[f + i]
  <2>1. 1 + f \in Int /\ n \in Int /\ (IF 1 + f <= n THEN n - (1 + f) + 1 ELSE 0) = m /\ n - (1 + f) + 1 = m
    BY <1>7
  <2>2. /\ SubSeq(u, 1 + f, n) \in Seq(Lines)
        /\ Len(SubSeq(u, 1 + f, n)) = IF 1 + f <= n THEN n - (1 + f) + 1 ELSE 0
        /\ \A i \in 1 .. n - (1 + f) + 1 : SubSeq(u, 1 + f, n)[i] = u[1 + f + i - 1]
    BY <1>10, <2>1, SubSeqProperties
  <2>3. \A i \in 1 .. m : 1 + f + i - 1 = f + i
    OBVIOUS
  <2> QED
    BY <1>8, <2>1, <2>2, <2>3
<1>12. f + Len(sc) = Len(u)
  BY <1>7, <1>11
<1>13. IsLatest(sc, d, u, f)
  BY <1>1, <1>3, <1>7, <1>11, <1>12 DEF IsLatest
<1> QED
  BY <1>13 DEF sc

\* The scores and the summary agree with the books.
LEMMA ScoresDoAgree ==
  ASSUME Dated(book)
  PROVE  ScoresAgree
<1> SUFFICES ASSUME NEW d \in Timespans, NEW scored, scored = Scored(book, d)
             PROVE  /\ \A i \in DOMAIN scored, j \in DOMAIN book :
                         /\ book[j].time > scored[i].time
                         /\ book[j].lasts = d /\ book[j].result \in {"win", "loss"}
                         => book[j] \in ToSet(scored)
                    /\ expected_value(scored) > 0 => total_pnl(scored) > 0
                    /\ Summary(book).profit = gross_profit(book) - gross_loss(book)
  BY DEF ScoresAgree
<1>1. PICK u, from : IsLatest(scored, d, u, from)
  BY ScoredAre
<1>2. /\ from \in Nat /\ Ordered(u)
      /\ ToSet(u) = {e \in ToSet(book) : e.result \in {"win", "loss"} /\ e.lasts = d}
      /\ from + Len(scored) = Len(u)
      /\ scored \in Seq(Lines)
      /\ \A i \in 1 .. Len(scored) : scored[i] = u[from + i]
  BY <1>1 DEF IsLatest
<1>3. /\ Len(scored) \in Nat /\ DOMAIN scored = 1 .. Len(scored)
      /\ Len(u) \in Nat /\ DOMAIN u = 1 .. Len(u)
      /\ \A i, j \in 1 .. Len(u) : u[i].time < u[j].time <=> i < j
  BY <1>2, LenProperties, PlacesAreTimes
<1>4. ToSet(u) = {u[i] : i \in 1 .. Len(u)} /\ ToSet(scored) = {scored[i] : i \in 1 .. Len(scored)}
  BY <1>3 DEF ToSet
<1>5. \A i \in 1 .. Len(scored) : from + i \in 1 .. Len(u)
  BY <1>2, <1>3
<1>6. ASSUME NEW i \in DOMAIN scored, NEW j \in DOMAIN book, book[j].time > scored[i].time,
             book[j].lasts = d, book[j].result \in {"win", "loss"}
      PROVE  book[j] \in ToSet(scored)
  <2>1. book[j] \in ToSet(u)
    BY <1>2, <1>6 DEF ToSet
  <2>2. PICK m \in 1 .. Len(u) : book[j] = u[m]
    BY <1>4, <2>1
  <2>3. from + i \in 1 .. Len(u) /\ scored[i] = u[from + i]
    BY <1>2, <1>3, <1>5
  <2>4. u[from + i].time < u[m].time
    <3>1. u[from + i].time \in Nat /\ u[m].time \in Nat
      BY <1>2, <2>3, PlacesAreTimes
    <3> QED
      BY <1>6, <2>2, <2>3, <3>1
  <2>5. from + i < m
    BY <1>3, <2>2, <2>3, <2>4
  <2>6. PICK l \in 1 .. Len(scored) : from + l = m
    <3>1. m - from \in 1 .. Len(scored) /\ from + (m - from) = m
      BY <1>2, <1>3, <2>2, <2>5
    <3> QED
      BY <3>1
  <2>7. scored[l] = u[m]
    BY <1>2, <2>6
  <2> QED
    BY <1>4, <2>2, <2>7
<1>7. ASSUME expected_value(scored) > 0
      PROVE  total_pnl(scored) > 0
  <2>1. \A i \in DOMAIN scored : scored[i].result \in {"win", "loss"}
    <3>1. \A i \in 1 .. Len(scored) : scored[i] \in ToSet(u)
      BY <1>2, <1>4, <1>5
    <3> QED
      BY <1>2, <1>3, <3>1
  <2>2. DOMAIN scored = Ended(scored, "win") \cup Ended(scored, "loss")
    BY <2>1 DEF Ended
  <2>3. total_pnl(scored) = gross_profit(scored) - gross_loss(scored)
    BY <1>2, <2>2, EarnedByResult DEF total_pnl
  <2>4. PICK p \in Int, l \in Int, c \in Nat, h \in Nat :
          p = gross_profit(scored) /\ l = gross_loss(scored) /\ h = FullStake
            /\ c = Cardinality(Ended(scored, "loss"))
    BY <1>2, EarnedByResult, ReportsAssumption
  <2>5. l <= h * c
    BY <1>2, <2>4, EarnedByResult
  <2>6. scored # <<>>
    BY <1>7 DEF expected_value
  <2>7. p - h * c > 0
    BY <1>7, <2>4, <2>6 DEF expected_value
  <2>8. h * c \in Int
    OBVIOUS
  <2>9. p - l > 0
    BY <2>5, <2>7, <2>8
  <2> QED
    BY <2>3, <2>4, <2>9
<1>8. Summary(book).profit = gross_profit(book) - gross_loss(book)
  <2>1. Summary(book).profit = Earned(book, {i \in DOMAIN book : book[i].profit # NoProfit})
    BY DEF Summary
  <2>2. book \in Seq(Lines)
    BY DEF Dated
  <2> QED
    BY <2>1, <2>2, EarnedByResult
<1> QED
  BY <1>6, <1>7, <1>8

\* The streaks of the day are what lies between two trades with the other result.
LEMMA StreaksDoSkip ==
  ASSUME Dated(book)
  PROVE  StreaksSkipDraws
<1> DEFINE Same(result) == {book[i] : i \in Ended(book, result)}
           Other(result) == {book[i] : i \in Ended(book, IF result = "win" THEN "loss" ELSE "win")}
<1> SUFFICES ASSUME NEW result \in {"win", "loss"}
             PROVE  Streak(InTime(book), result)
                      = Max({0} \cup RunSizes(Same(result), Other(result)))
  BY DEF StreaksSkipDraws, RunSizes, Uncut, Between
<1>1. Ordered(InTime(book)) /\ ToSet(InTime(book)) = ToSet(book)
  BY InTimeIs
<1>2. Same(result) = {e \in ToSet(book) : e.result = result}
  BY DEF Ended, ToSet
<1>3. Other(result) = {e \in ToSet(book) : e.result \in {"win", "loss"} /\ e.result # result}
  <2>1. CASE result = "win"
    BY <2>1 DEF Ended, ToSet
  <2>2. CASE result = "loss"
    BY <2>2 DEF Ended, ToSet
  <2> QED
    BY <2>1, <2>2
<1> HIDE DEF Same, Other
<1> QED
  BY SMTT(30), <1>1, <1>2, <1>3, StreakIsRun

\* The figures of a day do not depend on the order in which its trades were written,
\* the streaks are what lies between two trades with the other result, and the scores
\* agree with the books, for any number of trades and threads.
THEOREM FiguresStayRight == ReportSpec => []FiguresOfTheDay
<1>1. ReportIInv => FiguresOfTheDay
  BY OrderIsNone, StreaksDoSkip, ScoresDoAgree DEF ReportIInv, FiguresOfTheDay
<1> QED
  BY ReportInitial, ReportInductive, <1>1, PTL DEF ReportSpec
=============================================================================
