----------------------------- MODULE SumTheorems -----------------------------
(***************************************************************************)
(* Facts about sums over finite sets, SumFunctionOnSet of the community    *)
(* module Functions, and about the greatest element of one.  They rest on  *)
(* an induction over sets: a set of counterexamples that is not empty has  *)
(* a minimal element, so there is none.                                    *)
(***************************************************************************)
EXTENDS Integers, FiniteSets, FiniteSetsExt, Functions, FiniteSetTheorems,
        WellFoundedInduction, TLAPS

(* WFMin, in the form the proofs below can instantiate.                    *)
LEMMA MinimalElement ==
  ASSUME NEW R, NEW W, IsWellFoundedOn(R, W), NEW Bad, Bad \subseteq W, Bad # {}
  PROVE  \E x \in Bad : \A y \in Bad : ~(<<y, x>> \in R)
BY WFMin, Zenon

(* Induction over the subsets of a finite set.                             *)
LEMMA SetInduction ==
  ASSUME NEW S, IsFiniteSet(S), NEW Good,
         \A T \in SUBSET S : (\A U \in SUBSET T : U # T => U \in Good) => T \in Good
  PROVE  SUBSET S \subseteq Good
<1> DEFINE R == StrictSubsetOrdering(S)
           W == FiniteSubsetsOf(S)
           Bad == W \ Good
<1>1. W = SUBSET S
  BY FS_FiniteSubsetsOfFinite, Zenon
<1>2. IsWellFoundedOn(R, W)
  BY FS_StrictSubsetOrderingWellFounded, Zenon
<1>3. \A U, T \in SUBSET S : U \subseteq T /\ U # T => <<U, T>> \in R
  BY DEF StrictSubsetOrdering
<1>4. Bad \subseteq W
  OBVIOUS
<1> SUFFICES ASSUME Bad # {} PROVE FALSE
  BY <1>1
<1> HIDE DEF R, W, Bad
<1>5. PICK T \in Bad : \A U \in Bad : ~(<<U, T>> \in R)
  BY <1>2, <1>4, MinimalElement
<1>6. T \in SUBSET S /\ T \notin Good
  BY <1>1, <1>5 DEF Bad
<1>7. ASSUME NEW U \in SUBSET T, U # T PROVE U \in Good
  <2>1. U \in SUBSET S /\ <<U, T>> \in R
    BY <1>3, <1>6, <1>7
  <2> QED
    BY <1>1, <1>5, <2>1 DEF Bad
<1> QED
  BY <1>6, <1>7

(* A finite set of integers has a greatest element, which Max names.       *)
LEMMA MaxOfFinite ==
  ASSUME NEW S, IsFiniteSet(S), S \subseteq Int, S # {}
  PROVE  Max(S) \in S /\ \A y \in S : Max(S) >= y
<1> DEFINE Good == {T \in SUBSET S : T # {} => \E x \in T : \A y \in T : x >= y}
<1>1. ASSUME NEW T \in SUBSET S, \A U \in SUBSET T : U # T => U \in Good
      PROVE  T \in Good
  <2>1. CASE T = {}
    BY <2>1
  <2>2. CASE T # {}
    <3>1. PICK z \in T : TRUE
      BY <2>2
    <3>2. T \ {z} \in Good
      BY <1>1, <3>1
    <3>3. CASE T \ {z} = {}
      <4>1. \A y \in T : z >= y
        BY <3>1, <3>3
      <4> QED
        BY <4>1, <3>1
    <3>4. CASE T \ {z} # {}
      <4>1. PICK x \in T \ {z} : \A y \in T \ {z} : x >= y
        BY <3>2, <3>4
      <4>2. x \in Int /\ z \in Int
        BY <4>1, <3>1
      <4>3. CASE x >= z
        <5>1. \A y \in T : x >= y
          BY <4>1, <4>3
        <5> QED
          BY <5>1, <4>1
      <4>4. CASE ~(x >= z)
        <5>1. \A y \in T : y \in Int /\ z >= y
          BY <4>1, <4>2, <4>4
        <5> QED
          BY <5>1, <3>1
      <4> QED
        BY <4>3, <4>4
    <3> QED
      BY <3>3, <3>4
  <2> QED
    BY <2>1, <2>2
<1> HIDE DEF Good
<1>2. S \in Good
  BY <1>1, SetInduction
<1>3. \E x \in S : \A y \in S : x >= y
  BY <1>2 DEF Good
<1> QED
  BY <1>3 DEF Max

(* A finite set of integers has a least element, which Min names.          *)
LEMMA MinOfFinite ==
  ASSUME NEW S, IsFiniteSet(S), S \subseteq Int, S # {}
  PROVE  Min(S) \in S /\ \A y \in S : Min(S) <= y
<1> DEFINE T == {-x : x \in S}
           f == [x \in S |-> -x]
<1>1. f \in Surjection(S, T) /\ T # {}
  BY DEF Surjection
<1>2. Max(T) \in T /\ \A y \in T : Max(T) >= y
  <2>1. T \subseteq Int
    OBVIOUS
  <2> HIDE DEF T, f
  <2>2. IsFiniteSet(T)
    BY <1>1, FS_Surjection
  <2> QED
    BY <1>1, <2>1, <2>2, MaxOfFinite
<1>3. PICK x \in S : Max(T) = -x
  BY <1>2
<1>4. ASSUME NEW y \in S PROVE x <= y
  <2>1. -y \in T /\ x \in Int /\ y \in Int
    OBVIOUS
  <2>2. Max(T) >= -y
    BY <1>2, <2>1
  <2> HIDE DEF T
  <2>3. -x >= -y
    BY <1>3, <2>2
  <2> QED
    BY <2>1, <2>3
<1> QED
  BY <1>4 DEF Min

(* Min and Max of two integers.                                            *)
LEMMA TwoOf ==
  ASSUME NEW a \in Int, NEW b \in Int
  PROVE  /\ Max({a, b}) = IF a >= b THEN a ELSE b
         /\ Min({a, b}) = IF a <= b THEN a ELSE b
BY DEF Max, Min

----------------------------------------------------------------------------
(* What the recursion of Folds!MapThenFoldSet asks of its function.        *)
Table(f, S, it) ==
  it = [T \in SUBSET S |-> IF T = {} THEN 0
                           ELSE LET x == CHOOSE x \in T : TRUE IN f[x] + it[T \ {x}]]

(* The sum, by its definition.                                             *)
LEMMA SumByTable ==
  ASSUME NEW f, NEW S
  PROVE  SumFunctionOnSet(f, S) = (CHOOSE it : Table(f, S, it))[S]
BY DEF SumFunctionOnSet, FoldFunctionOnSet, MapThenFoldSet, Table

(* The element the sum takes out first, and its recursion equation.        *)
One(T) == CHOOSE x \in T : TRUE
Unfolds(f, T) ==
  SumFunctionOnSet(f, T) = IF T = {} THEN 0 ELSE f[One(T)] + SumFunctionOnSet(f, T \ {One(T)})

(* The recursion is well founded: the equation holds of every finite set.  *)
LEMMA SumUnfolds ==
  ASSUME NEW f, NEW S, IsFiniteSet(S)
  PROVE  Unfolds(f, S)
<1> DEFINE Good == {T \in SUBSET S : Unfolds(f, T)}
<1>1. ASSUME NEW T \in SUBSET S, \A U \in SUBSET T : U # T => Unfolds(f, U)
      PROVE  Unfolds(f, T)
  <2> DEFINE Sum(U) == SumFunctionOnSet(f, U)
             h == [U \in SUBSET T |->
                     IF U # T THEN Sum(U)
                     ELSE IF T = {} THEN 0 ELSE f[One(T)] + Sum(T \ {One(T)})]
  <2> HIDE DEF Sum
  <2>0. \A U : U # {} => One(U) \in U
    BY DEF One
  <2>1. Table(f, T, h)
    <3>1. ASSUME NEW U \in SUBSET T
          PROVE  h[U] = IF U = {} THEN 0 ELSE f[One(U)] + h[U \ {One(U)}]
      <4>1. U \ {One(U)} \in SUBSET T /\ (U # {} => U \ {One(U)} # T)
        BY <2>0
      <4>2. U # {} => h[U \ {One(U)}] = Sum(U \ {One(U)})
        BY <4>1
      <4>3. CASE U = T
        BY <4>2, <4>3
      <4>4. CASE U # T
        <5>1. Sum(U) = IF U = {} THEN 0 ELSE f[One(U)] + Sum(U \ {One(U)})
          BY <1>1, <4>4 DEF Unfolds, Sum
        <5> QED
          BY <4>2, <4>4, <5>1
      <4> QED
        BY <4>3, <4>4
    <3>2. h = [U \in SUBSET T |-> IF U = {} THEN 0 ELSE f[One(U)] + h[U \ {One(U)}]]
      <4>1. h = [U \in SUBSET T |-> h[U]]
        OBVIOUS
      <4> HIDE DEF h
      <4> QED
        BY <3>1, <4>1
    <3> HIDE DEF h
    <3> QED
      BY <3>2 DEF Table, One
  <2>2. \E it : Table(f, T, it)
    BY <2>1
  <2> DEFINE it == CHOOSE it : Table(f, T, it)
  <2>3. Table(f, T, it)
    BY <2>2
  <2>4. Sum(T) = it[T]
    BY SumByTable DEF Sum
  <2> HIDE DEF it
  <2>5. \A U \in SUBSET T : it[U] = IF U = {} THEN 0 ELSE f[One(U)] + it[U \ {One(U)}]
    BY <2>3 DEF Table, One
  <2>6. \A U \in SUBSET T : U # T => it[U] = Sum(U)
    <3> DEFINE Same == {U \in SUBSET T : U # T => it[U] = Sum(U)}
    <3>1. ASSUME NEW U \in SUBSET T, \A V \in SUBSET U : V # U => V \in Same
          PROVE  U \in Same
      <4> SUFFICES ASSUME U # T PROVE it[U] = Sum(U)
        OBVIOUS
      <4>1. Sum(U) = IF U = {} THEN 0 ELSE f[One(U)] + Sum(U \ {One(U)})
        BY <1>1 DEF Unfolds, Sum
      <4>2. U # {} => it[U \ {One(U)}] = Sum(U \ {One(U)})
        <5> SUFFICES ASSUME U # {} PROVE it[U \ {One(U)}] = Sum(U \ {One(U)})
          OBVIOUS
        <5>1. U \ {One(U)} \in SUBSET U /\ U \ {One(U)} # U /\ U \ {One(U)} # T
          BY <2>0
        <5> QED
          BY <3>1, <5>1
      <4> QED
        BY <2>5, <4>1, <4>2
    <3>2. IsFiniteSet(T)
      BY FS_Subset
    <3> HIDE DEF Same
    <3>3. SUBSET T \subseteq Same
      BY <3>1, <3>2, SetInduction
    <3> QED
      BY <3>3 DEF Same
  <2>7. CASE T = {}
    BY <2>4, <2>5, <2>7 DEF Unfolds, Sum
  <2>8. CASE T # {}
    <3>1. T \ {One(T)} \in SUBSET T /\ T \ {One(T)} # T
      BY <2>0, <2>8
    <3> QED
      BY <2>4, <2>5, <2>6, <2>8, <3>1 DEF Unfolds, Sum
  <2> QED
    BY <2>7, <2>8
<1>2. ASSUME NEW T \in SUBSET S, \A U \in SUBSET T : U # T => U \in Good
      PROVE  T \in Good
  BY <1>1, <1>2
<1> HIDE DEF Good
<1>3. SUBSET S \subseteq Good
  BY <1>2, SetInduction
<1> QED
  BY <1>3 DEF Good

(* A sum of integers is an integer.                                        *)
LEMMA SumType ==
  ASSUME NEW f, NEW S, IsFiniteSet(S), \A x \in S : f[x] \in Int
  PROVE  SumFunctionOnSet(f, S) \in Int
<1> DEFINE Good == {T \in SUBSET S : SumFunctionOnSet(f, T) \in Int}
<1>1. ASSUME NEW T \in SUBSET S, \A U \in SUBSET T : U # T => U \in Good
      PROVE  T \in Good
  <2>1. Unfolds(f, T)
    BY FS_Subset, SumUnfolds
  <2>2. CASE T = {}
    BY <2>1, <2>2 DEF Unfolds
  <2>3. CASE T # {}
    <3>1. One(T) \in T /\ T \ {One(T)} \in SUBSET T /\ T \ {One(T)} # T
      BY <2>3 DEF One
    <3>2. SumFunctionOnSet(f, T \ {One(T)}) \in Int /\ f[One(T)] \in Int
      BY <1>1, <3>1
    <3> QED
      BY <2>1, <2>3, <3>2 DEF Unfolds
  <2> QED
    BY <2>2, <2>3
<1> HIDE DEF Good
<1>2. SUBSET S \subseteq Good
  BY <1>1, SetInduction
<1> QED
  BY <1>2 DEF Good

(* The empty sum.                                                          *)
LEMMA SumEmpty == \A f : SumFunctionOnSet(f, {}) = 0
BY SumUnfolds, FS_EmptySet DEF Unfolds

(* Any element may be taken out first.                                     *)
LEMMA SumSplit ==
  ASSUME NEW f, NEW S, IsFiniteSet(S), \A x \in S : f[x] \in Int, NEW y \in S
  PROVE  SumFunctionOnSet(f, S) = f[y] + SumFunctionOnSet(f, S \ {y})
<1> DEFINE Sum(T) == SumFunctionOnSet(f, T)
           Good == {T \in SUBSET S : \A x \in T : Sum(T) = f[x] + Sum(T \ {x})}
<1>1. ASSUME NEW T \in SUBSET S, \A U \in SUBSET T : U # T => U \in Good
      PROVE  T \in Good
  <2> SUFFICES ASSUME NEW x \in T PROVE Sum(T) = f[x] + Sum(T \ {x})
    OBVIOUS
  <2> DEFINE z == One(T)
  <2>1. z \in T /\ Sum(T) = f[z] + Sum(T \ {z})
    BY SumUnfolds, FS_Subset DEF Unfolds, One
  <2>2. CASE z # x
    <3>1. /\ T \ {z} \in SUBSET T /\ T \ {z} # T /\ x \in T \ {z}
          /\ T \ {x} \in SUBSET T /\ T \ {x} # T /\ z \in T \ {x}
          /\ (T \ {z}) \ {x} = T \ {x, z} /\ (T \ {x}) \ {z} = T \ {x, z}
      BY <2>1, <2>2
    <3>2. Sum(T \ {z}) = f[x] + Sum(T \ {x, z}) /\ Sum(T \ {x}) = f[z] + Sum(T \ {x, z})
      <4> HIDE DEF z, Sum
      <4> QED
        BY <1>1, <3>1
    <3>3. Sum(T \ {x, z}) \in Int /\ f[x] \in Int /\ f[z] \in Int
      <4>1. IsFiniteSet(T \ {x, z})
        BY FS_Subset
      <4> QED
        BY <2>1, <4>1, SumType
    <3> HIDE DEF Sum, z
    <3> QED
      BY <2>1, <3>2, <3>3
  <2> QED
    BY <2>1, <2>2
<1> HIDE DEF Good
<1>2. SUBSET S \subseteq Good
  BY <1>1, SetInduction
<1> QED
  BY <1>2 DEF Good

(* One more element adds its value.                                        *)
LEMMA SumAdd ==
  ASSUME NEW f, NEW S, IsFiniteSet(S), NEW y, y \notin S, \A x \in S \cup {y} : f[x] \in Int
  PROVE  SumFunctionOnSet(f, S \cup {y}) = SumFunctionOnSet(f, S) + f[y]
<1>1. IsFiniteSet(S \cup {y}) /\ (S \cup {y}) \ {y} = S
  BY FS_AddElement
<1>2. SumFunctionOnSet(f, S \cup {y}) = f[y] + SumFunctionOnSet(f, S)
  BY <1>1, SumSplit
<1>3. SumFunctionOnSet(f, S) \in Int
  BY SumType
<1> QED
  BY <1>2, <1>3

(* A sum depends on the values at its elements alone.                      *)
LEMMA SumSame ==
  ASSUME NEW f, NEW g, NEW S, IsFiniteSet(S), \A x \in S : f[x] = g[x]
  PROVE  SumFunctionOnSet(f, S) = SumFunctionOnSet(g, S)
<1> DEFINE Good == {T \in SUBSET S : SumFunctionOnSet(f, T) = SumFunctionOnSet(g, T)}
<1>1. ASSUME NEW T \in SUBSET S, \A U \in SUBSET T : U # T => U \in Good
      PROVE  T \in Good
  <2>1. Unfolds(f, T) /\ Unfolds(g, T)
    BY FS_Subset, SumUnfolds
  <2>2. T # {} => /\ One(T) \in T /\ T \ {One(T)} \in SUBSET T /\ T \ {One(T)} # T
    BY DEF One
  <2> QED
    BY <1>1, <2>1, <2>2 DEF Unfolds
<1> HIDE DEF Good
<1>2. SUBSET S \subseteq Good
  BY <1>1, SetInduction
<1> QED
  BY <1>2 DEF Good

(* Sums over the first indices of a sequence.                              *)
LEMMA Prefix ==
  ASSUME NEW n \in Nat
  PROVE  /\ IsFiniteSet(1..n)
         /\ 1..(n + 1) = (1..n) \cup {n + 1} /\ n + 1 \notin 1..n
         /\ 1..0 = {}
BY FS_Interval

(* The next index adds its value.                                          *)
LEMMA SumNext ==
  ASSUME NEW f, NEW n \in Nat, \A k \in 1..(n + 1) : f[k] \in Int
  PROVE  SumFunctionOnSet(f, 1..(n + 1)) = SumFunctionOnSet(f, 1..n) + f[n + 1]
<1> DEFINE S == 1..n
           y == n + 1
<1>1. IsFiniteSet(S) /\ y \notin S /\ 1..(n + 1) = S \cup {y}
  BY Prefix
<1>2. \A x \in S \cup {y} : f[x] \in Int
  BY <1>1
<1> HIDE DEF S, y
<1>3. SumFunctionOnSet(f, S \cup {y}) = SumFunctionOnSet(f, S) + f[y]
  BY <1>1, <1>2, SumAdd, Zenon
<1> QED
  BY <1>1, <1>3 DEF S, y

(* The sum of zeros, and of the opposites.                                 *)
LEMMA SumZero ==
  ASSUME NEW f, NEW S, IsFiniteSet(S), \A x \in S : f[x] = 0
  PROVE  SumFunctionOnSet(f, S) = 0
<1> DEFINE Good == {T \in SUBSET S : SumFunctionOnSet(f, T) = 0}
<1>1. ASSUME NEW T \in SUBSET S, \A U \in SUBSET T : U # T => U \in Good
      PROVE  T \in Good
  <2>1. Unfolds(f, T)
    BY FS_Subset, SumUnfolds
  <2>2. T # {} => /\ One(T) \in T /\ T \ {One(T)} \in SUBSET T /\ T \ {One(T)} # T
    BY DEF One
  <2> QED
    BY <1>1, <2>1, <2>2 DEF Unfolds
<1> HIDE DEF Good
<1>2. SUBSET S \subseteq Good
  BY <1>1, SetInduction
<1> QED
  BY <1>2 DEF Good

LEMMA SumNegate ==
  ASSUME NEW f, NEW g, NEW S, IsFiniteSet(S), \A x \in S : f[x] \in Int /\ g[x] = 0 - f[x]
  PROVE  SumFunctionOnSet(g, S) = 0 - SumFunctionOnSet(f, S)
<1> DEFINE Good == {T \in SUBSET S : SumFunctionOnSet(g, T) = 0 - SumFunctionOnSet(f, T)}
<1>1. ASSUME NEW T \in SUBSET S, \A U \in SUBSET T : U # T => U \in Good
      PROVE  T \in Good
  <2>1. Unfolds(f, T) /\ Unfolds(g, T)
    BY FS_Subset, SumUnfolds
  <2>2. CASE T = {}
    BY <2>1, <2>2 DEF Unfolds
  <2>3. CASE T # {}
    <3> DEFINE z == One(T)
               rest == T \ {z}
    <3>1. z \in T /\ rest \in SUBSET T /\ rest # T
      BY <2>3 DEF One
    <3>2. SumFunctionOnSet(g, T) = g[z] + SumFunctionOnSet(g, rest)
          /\ SumFunctionOnSet(f, T) = f[z] + SumFunctionOnSet(f, rest)
      BY <2>1, <2>3 DEF Unfolds
    <3> HIDE DEF z, rest
    <3>3. SumFunctionOnSet(f, rest) \in Int
      BY <3>1, FS_Subset, SumType
    <3>4. SumFunctionOnSet(g, rest) = 0 - SumFunctionOnSet(f, rest)
      BY <1>1, <3>1
    <3>5. f[z] \in Int /\ g[z] = 0 - f[z]
      BY <3>1
    <3>6. SumFunctionOnSet(g, T) = 0 - SumFunctionOnSet(f, T)
      BY <3>2, <3>3, <3>4, <3>5
    <3> QED
      BY <3>6
  <2> QED
    BY <2>2, <2>3
<1> HIDE DEF Good
<1>2. SUBSET S \subseteq Good
  BY <1>1, SetInduction
<1> QED
  BY <1>2 DEF Good

(* The order of summation does not matter: a one-to-one map of a finite    *)
(* set into itself leaves the sum as it was.                               *)
LEMMA SumPermuted ==
  ASSUME NEW g, NEW S, IsFiniteSet(S), \A x \in S : g[x] \in Int,
         NEW f \in [S -> S], \A x, y \in S : f[x] = f[y] => x = y
  PROVE  SumFunctionOnSet([x \in S |-> g[f[x]]], S) = SumFunctionOnSet(g, S)
<1> DEFINE h == [x \in S |-> g[f[x]]]
           Image(T) == {f[x] : x \in T}
           Good == {T \in SUBSET S : SumFunctionOnSet(h, T) = SumFunctionOnSet(g, Image(T))}
<1>1. ASSUME NEW T \in SUBSET S, \A U \in SUBSET T : U # T => U \in Good
      PROVE  T \in Good
  <2>1. Unfolds(h, T)
    BY FS_Subset, SumUnfolds
  <2>2. CASE T = {}
    BY <2>2, SumEmpty
  <2>3. CASE T # {}
    <3> DEFINE z == One(T)
               rest == T \ {z}
    <3>1. z \in T /\ rest \in SUBSET T /\ rest # T
      BY <2>3 DEF One
    <3>2. SumFunctionOnSet(h, T) = h[z] + SumFunctionOnSet(h, rest)
      BY <2>1, <2>3 DEF Unfolds
    <3>3. z \in S /\ h[z] = g[f[z]] /\ \A x \in T : x # z => x \in rest
      BY <3>1
    <3> HIDE DEF z, h
    <3>4. f[z] \in Image(T) /\ Image(T) \subseteq S /\ Image(T) \ {f[z]} = Image(rest)
      BY <3>1, <3>3
    <3> HIDE DEF rest, Image
    <3>5. SumFunctionOnSet(g, Image(T)) = g[f[z]] + SumFunctionOnSet(g, Image(rest))
      <4>1. IsFiniteSet(Image(T)) /\ \A x \in Image(T) : g[x] \in Int
        BY <3>4, FS_Subset
      <4> QED
        BY <3>4, <4>1, SumSplit
    <3>6. SumFunctionOnSet(h, rest) = SumFunctionOnSet(g, Image(rest))
      BY <1>1, <3>1
    <3> QED
      BY <3>2, <3>3, <3>5, <3>6
  <2> QED
    BY <2>2, <2>3
<1> HIDE DEF Good
<1>2. SUBSET S \subseteq Good
  BY <1>1, SetInduction
<1>3. SumFunctionOnSet(h, S) = SumFunctionOnSet(g, Image(S))
  BY <1>2 DEF Good
<1>4. Image(S) = S
  <2>1. f \in Injection(S, S)
    BY DEF Injection, IsInjective
  <2>2. f \in Surjection(S, S)
    BY <2>1, FS_Injection
  <2> QED
    BY <2>2 DEF Surjection
<1> QED
  BY <1>3, <1>4

(* Sums of two functions add up.                                           *)
LEMMA SumPlus ==
  ASSUME NEW f, NEW g, NEW h, NEW S, IsFiniteSet(S),
         \A x \in S : f[x] \in Int /\ g[x] \in Int /\ h[x] = f[x] + g[x]
  PROVE  SumFunctionOnSet(h, S) = SumFunctionOnSet(f, S) + SumFunctionOnSet(g, S)
<1> DEFINE Good == {T \in SUBSET S :
                      SumFunctionOnSet(h, T) = SumFunctionOnSet(f, T) + SumFunctionOnSet(g, T)}
<1>1. ASSUME NEW T \in SUBSET S, \A U \in SUBSET T : U # T => U \in Good
      PROVE  T \in Good
  <2>1. Unfolds(f, T) /\ Unfolds(g, T) /\ Unfolds(h, T)
    BY FS_Subset, SumUnfolds
  <2>2. CASE T = {}
    BY <2>1, <2>2 DEF Unfolds
  <2>3. CASE T # {}
    <3> DEFINE z == One(T)
               rest == T \ {z}
    <3>1. z \in T /\ rest \in SUBSET T /\ rest # T
      BY <2>3 DEF One
    <3>2. /\ SumFunctionOnSet(f, T) = f[z] + SumFunctionOnSet(f, rest)
          /\ SumFunctionOnSet(g, T) = g[z] + SumFunctionOnSet(g, rest)
          /\ SumFunctionOnSet(h, T) = h[z] + SumFunctionOnSet(h, rest)
      BY <2>1, <2>3 DEF Unfolds
    <3> HIDE DEF z, rest
    <3>3. SumFunctionOnSet(f, rest) \in Int /\ SumFunctionOnSet(g, rest) \in Int
      BY <3>1, FS_Subset, SumType
    <3>4. SumFunctionOnSet(h, rest) = SumFunctionOnSet(f, rest) + SumFunctionOnSet(g, rest)
      BY <1>1, <3>1
    <3>5. f[z] \in Int /\ g[z] \in Int /\ h[z] = f[z] + g[z]
      BY <3>1
    <3>6. SumFunctionOnSet(h, T) = SumFunctionOnSet(f, T) + SumFunctionOnSet(g, T)
      BY <3>2, <3>3, <3>4, <3>5
    <3> QED
      BY <3>6
  <2> QED
    BY <2>2, <2>3
<1> HIDE DEF Good
<1>2. SUBSET S \subseteq Good
  BY <1>1, SetInduction
<1> QED
  BY <1>2 DEF Good

(* Two functions that differ at one element: so do their sums.             *)
LEMMA SumDiffers ==
  ASSUME NEW f, NEW g, NEW S, IsFiniteSet(S), NEW y \in S,
         \A x \in S : f[x] \in Int /\ g[x] \in Int, \A x \in S \ {y} : g[x] = f[x]
  PROVE  SumFunctionOnSet(g, S) = SumFunctionOnSet(f, S) - f[y] + g[y]
<1> DEFINE rest == S \ {y}
<1>1. IsFiniteSet(rest) /\ rest \subseteq S /\ \A x \in rest : f[x] = g[x]
  BY FS_Subset
<1>2. /\ SumFunctionOnSet(f, S) = f[y] + SumFunctionOnSet(f, rest)
      /\ SumFunctionOnSet(g, S) = g[y] + SumFunctionOnSet(g, rest)
  BY SumSplit
<1> HIDE DEF rest
<1>3. SumFunctionOnSet(f, rest) = SumFunctionOnSet(g, rest)
  BY <1>1, SumSame
<1>4. SumFunctionOnSet(f, rest) \in Int
  BY <1>1, SumType
<1>5. f[y] \in Int /\ g[y] \in Int
  OBVIOUS
<1> QED
  BY <1>2, <1>3, <1>4, <1>5

(* A sum over a part of a set is one over the set, of nothing elsewhere.   *)
LEMMA SumOfPart ==
  ASSUME NEW f, NEW g, NEW S, IsFiniteSet(S), NEW P \in SUBSET S,
         \A x \in P : f[x] \in Int,
         \A x \in S : g[x] = IF x \in P THEN f[x] ELSE 0
  PROVE  SumFunctionOnSet(f, P) = SumFunctionOnSet(g, S)
<1> DEFINE rest == S \ P
           Good == {T \in SUBSET rest : SumFunctionOnSet(g, P \cup T) = SumFunctionOnSet(f, P)}
<1>1. IsFiniteSet(rest) /\ IsFiniteSet(P)
  BY FS_Subset
<1>2. ASSUME NEW T \in SUBSET rest, \A U \in SUBSET T : U # T => U \in Good
      PROVE  T \in Good
  <2>1. CASE T = {}
    <3>1. P \cup T = P /\ \A x \in P : f[x] = g[x]
      BY <2>1
    <3>2. SumFunctionOnSet(g, P) = SumFunctionOnSet(f, P)
      BY <1>1, <3>1, SumSame
    <3> QED
      BY <3>1, <3>2
  <2>2. CASE T # {}
    <3>1. PICK z \in T : TRUE
      BY <2>2
    <3> DEFINE U == T \ {z}
               whole == P \cup T
    <3>2. U \in SUBSET T /\ U # T /\ z \in whole /\ whole \ {z} = P \cup U
          /\ g[z] = 0 /\ whole \subseteq S /\ \A x \in whole : g[x] \in Int
      BY <3>1
    <3>3. SumFunctionOnSet(g, P \cup U) = SumFunctionOnSet(f, P)
      BY <1>2, <3>2
    <3> HIDE DEF whole, rest, U
    <3>4. IsFiniteSet(whole)
      BY <3>2, FS_Subset
    <3>5. SumFunctionOnSet(g, whole) = g[z] + SumFunctionOnSet(g, whole \ {z})
      BY <3>2, <3>4, SumSplit
    <3>6. SumFunctionOnSet(f, P) \in Int
      BY <1>1, SumType
    <3>7. SumFunctionOnSet(g, whole \ {z}) = SumFunctionOnSet(f, P) /\ g[z] = 0
      BY <3>2, <3>3
    <3>8. SumFunctionOnSet(g, whole) = SumFunctionOnSet(f, P)
      BY <3>5, <3>6, <3>7
    <3> QED
      BY <3>8 DEF whole
  <2> QED
    BY <2>1, <2>2
<1> HIDE DEF Good
<1>4. P \cup rest = S
  OBVIOUS
<1> HIDE DEF rest
<1>3. SUBSET rest \subseteq Good
  BY <1>1, <1>2, SetInduction
<1>5. rest \in Good
  BY <1>3
<1> QED
  BY <1>4, <1>5 DEF Good

(* To count is to add ones.                                                *)
LEMMA SumOfOnes ==
  ASSUME NEW f, NEW S, IsFiniteSet(S), \A x \in S : f[x] = 1
  PROVE  Cardinality(S) = SumFunctionOnSet(f, S)
<1> DEFINE Good == {T \in SUBSET S : Cardinality(T) = SumFunctionOnSet(f, T)}
<1>1. ASSUME NEW T \in SUBSET S, \A U \in SUBSET T : U # T => U \in Good
      PROVE  T \in Good
  <2>1. Unfolds(f, T)
    BY FS_Subset, SumUnfolds
  <2>2. CASE T = {}
    BY <2>1, <2>2, FS_EmptySet DEF Unfolds
  <2>3. CASE T # {}
    <3> DEFINE z == One(T)
               rest == T \ {z}
    <3>1. z \in T /\ rest \in SUBSET T /\ rest # T /\ f[z] = 1
      BY <2>3 DEF One
    <3>2. SumFunctionOnSet(f, T) = f[z] + SumFunctionOnSet(f, rest)
      BY <2>1, <2>3 DEF Unfolds
    <3>3. IsFiniteSet(T)
      BY FS_Subset
    <3>4. Cardinality(rest) = Cardinality(T) - 1 /\ Cardinality(T) \in Nat
      BY <3>1, <3>3, FS_RemoveElement, FS_CardinalityType
    <3> HIDE DEF z, rest
    <3>5. Cardinality(rest) = SumFunctionOnSet(f, rest)
      BY <1>1, <3>1
    <3>6. Cardinality(T) = SumFunctionOnSet(f, T)
      BY <3>1, <3>2, <3>4, <3>5
    <3> QED
      BY <3>6
  <2> QED
    BY <2>2, <2>3
<1> HIDE DEF Good
<1>2. SUBSET S \subseteq Good
  BY <1>1, SetInduction
<1> QED
  BY <1>2 DEF Good

(* A sum lies between nothing and as many times the bound of its terms.    *)
LEMMA SumBounded ==
  ASSUME NEW f, NEW S, IsFiniteSet(S), NEW b \in Nat, \A x \in S : f[x] \in 0..b
  PROVE  SumFunctionOnSet(f, S) \in 0..(b * Cardinality(S))
<1> DEFINE Good == {T \in SUBSET S : SumFunctionOnSet(f, T) \in 0..(b * Cardinality(T))}
<1>1. ASSUME NEW T \in SUBSET S, \A U \in SUBSET T : U # T => U \in Good
      PROVE  T \in Good
  <2>1. Unfolds(f, T)
    BY FS_Subset, SumUnfolds
  <2>2. CASE T = {}
    <3>1. SumFunctionOnSet(f, T) = 0 /\ Cardinality(T) = 0
      BY <2>1, <2>2, FS_EmptySet DEF Unfolds
    <3> QED
      BY <3>1
  <2>3. CASE T # {}
    <3> DEFINE z == One(T)
               rest == T \ {z}
               n == Cardinality(rest)
               sum == SumFunctionOnSet(f, rest)
    <3>1. z \in T /\ rest \in SUBSET T /\ rest # T /\ f[z] \in 0..b
      BY <2>3 DEF One
    <3>2. SumFunctionOnSet(f, T) = f[z] + sum
      BY <2>1, <2>3 DEF Unfolds
    <3>3. IsFiniteSet(T)
      BY FS_Subset
    <3>4. n = Cardinality(T) - 1 /\ Cardinality(T) \in Nat /\ n \in Nat
      BY <3>1, <3>3, FS_RemoveElement, FS_CardinalityType, FS_Subset
    <3>5. sum \in 0..(b * n)
      BY <1>1, <3>1
    <3> HIDE DEF z, rest, n, sum
    <3>6. b * Cardinality(T) = b * n + b
      <4>1. Cardinality(T) = n + 1
        BY <3>4
      <4>2. b * (n + 1) = b * n + b
        BY <3>4
      <4> QED
        BY <4>1, <4>2
    <3>7. f[z] + sum \in 0..(b * n + b)
      <4>1. b * n \in Nat
        BY <3>4
      <4> QED
        BY <4>1, <3>1, <3>5
    <3> QED
      BY <3>2, <3>6, <3>7
  <2> QED
    BY <2>2, <2>3
<1> HIDE DEF Good
<1>2. SUBSET S \subseteq Good
  BY <1>1, SetInduction
<1> QED
  BY <1>2 DEF Good
=============================================================================
