-------------------------------- MODULE Sums --------------------------------
(***************************************************************************)
(* What proofs need to know of a sum over a finite set: the balances of a  *)
(* voter's delegators, the weights recorded for a proposal, the amounts in *)
(* custody.  SumFunctionOnSet is a recursive function, and each fact below *)
(* is shown by looking at a smallest set for which it would be wrong.      *)
(***************************************************************************)
EXTENDS Integers, FiniteSets, Functions, FiniteSetTheorems, TLAPS

\* An element of s, always the same one.
AnyOf(s) == CHOOSE x \in s : TRUE

\* table is the recursive function SumFunctionOnSet(f, S) is computed with: the
\* sum of f over every subset of S.
IsSumTable(table, f, S) ==
    table = [s \in SUBSET S |-> IF s = {} THEN 0 ELSE f[AnyOf(s)] + table[s \ {AnyOf(s)}]]

\* The element the recursion takes out next is in the set.
LEMMA AnyOfIn == ASSUME NEW s, s # {} PROVE AnyOf(s) \in s
BY DEF AnyOf

\* A family of subsets of a finite set has a minimal member.  Every induction
\* below takes a smallest set for which the claim fails.
LEMMA MinimalSubset ==
    ASSUME NEW S, IsFiniteSet(S), NEW T \in SUBSET (SUBSET S), T # {}
    PROVE  \E x \in T : \A y \in T : y \subseteq x => y = x
<1>1. IsWellFoundedOn(StrictSubsetOrdering(S), SUBSET S)
  BY FS_StrictSubsetOrderingWellFounded, FS_FiniteSubsetsOfFinite
<1>2. \E x \in T : \A y \in T : ~ (<<y, x>> \in StrictSubsetOrdering(S))
  BY <1>1, WFMin
<1> QED BY <1>2 DEF StrictSubsetOrdering

\* A set of numbers up to n has a least one.
LEMMA LeastNumber ==
    ASSUME NEW n \in Nat, NEW A \in SUBSET (0..n), A # {}
    PROVE  \E k \in A : \A j \in A : k <= j
<1> DEFINE T == {0..k : k \in A}
<1>1. IsFiniteSet(0..n) /\ T \in SUBSET (SUBSET (0..n)) /\ T # {}
  <2>1. \A k \in A : k \in Nat /\ 0..k \subseteq 0..n
    OBVIOUS
  <2>2. T \in SUBSET (SUBSET (0..n))
    BY <2>1, Zenon
  <2>3. IsFiniteSet(0..n)
    BY FS_Interval
  <2>4. T # {}
    OBVIOUS
  <2> HIDE DEF T
  <2> QED BY <2>2, <2>3, <2>4
<1>2. PICK x \in T : \A y \in T : y \subseteq x => y = x
  <2> DEFINE S == 0..n
  <2>1. IsFiniteSet(S) /\ T \in SUBSET (SUBSET S) /\ T # {}
    BY <1>1
  <2> HIDE DEF T, S
  <2> QED BY <2>1, MinimalSubset
<1>3. PICK k \in A : x = 0..k
  OBVIOUS
<1>4. ASSUME NEW j \in A, j < k PROVE FALSE
  <2>1. 0..j \in T /\ 0..j \subseteq x
    <3>1. 0..j \in T
      OBVIOUS
    <3>2. 0..j \subseteq 0..k
      BY <1>4
    <3> QED BY <1>3, <3>1, <3>2
  <2>2. k \in 0..j
    <3>1. 0..j = x
      BY <1>2, <2>1
    <3>2. k \in 0..k
      OBVIOUS
    <3> QED BY <1>3, <3>1, <3>2
  <2> QED BY <1>4, <2>2
<1> QED BY <1>4

\* And a greatest one.
LEMMA GreatestNumber ==
    ASSUME NEW n \in Nat, NEW A \in SUBSET (0..n), A # {}
    PROVE  \E k \in A : \A j \in A : j <= k
<1> DEFINE B == {n - k : k \in A}
<1>1. B \in SUBSET (0..n) /\ B # {}
  <2>1. \A k \in A : n - k \in 0..n
    OBVIOUS
  <2> QED BY <2>1, Zenon
<1>2. PICK b \in B : \A c \in B : b <= c
  <2> HIDE DEF B
  <2> QED BY <1>1, LeastNumber
<1>3. PICK k \in A : b = n - k
  OBVIOUS
<1>4. ASSUME NEW j \in A PROVE j <= k
  <2>1. n - k <= n - j
    BY <1>2, <1>3
  <2>2. n \in Int /\ k \in Int /\ j \in Int
    OBVIOUS
  <2> HIDE DEF B
  <2> QED BY <2>1, <2>2
<1> QED BY <1>4

AgreeOn(g, h, S) == \A s \in SUBSET S : g[s] = h[s]

\* The tables of two sets agree where both are defined.
LEMMA SumTableUnique ==
    ASSUME NEW f, NEW S, IsFiniteSet(S), NEW R, NEW g, IsSumTable(g, f, S), NEW h, IsSumTable(h, f, R)
    PROVE  AgreeOn(g, h, R \cap S)
<1> DEFINE Q == R \cap S
           Bad == {T \in SUBSET Q : g[T] # h[T]}
<1>1. SUFFICES ASSUME Bad # {} PROVE FALSE
  BY DEF AgreeOn
<1>2. IsFiniteSet(Q) /\ Bad \in SUBSET (SUBSET Q)
  BY FS_Subset
<1>3. PICK T \in Bad : \A y \in Bad : y \subseteq T => y = T
  <2> HIDE DEF Bad
  <2> QED BY <1>1, <1>2, MinimalSubset
<1>4. /\ g[T] = IF T = {} THEN 0 ELSE f[AnyOf(T)] + g[T \ {AnyOf(T)}]
      /\ h[T] = IF T = {} THEN 0 ELSE f[AnyOf(T)] + h[T \ {AnyOf(T)}]
  BY DEF IsSumTable
<1>5. T # {}
  BY <1>4
<1>6. T \ {AnyOf(T)} \in SUBSET Q /\ T \ {AnyOf(T)} # T
  BY <1>5, AnyOfIn
<1>7. g[T \ {AnyOf(T)}] = h[T \ {AnyOf(T)}]
  BY <1>6, <1>3
<1> QED BY <1>4, <1>7

\* Every finite set has a table: a set without one is larger than some set
\* without one.
LEMMA SumTableExists ==
    ASSUME NEW f, NEW S, IsFiniteSet(S)
    PROVE  \E it : IsSumTable(it, f, S)
<1> DEFINE Bad == {T \in SUBSET S : ~\E it : IsSumTable(it, f, T)}
<1>1. SUFFICES ASSUME Bad # {} PROVE FALSE
  OBVIOUS
<1>2. Bad \in SUBSET (SUBSET S)
  OBVIOUS
<1>3. PICK T \in Bad : \A y \in Bad : y \subseteq T => y = T
  <2> HIDE DEF Bad
  <2> QED BY <1>1, <1>2, MinimalSubset
<1>4. \A U \in SUBSET T : U # T => \E it : IsSumTable(it, f, U)
  BY <1>3
<1> DEFINE g(U)  == CHOOSE it : IsSumTable(it, f, U)
           it    == [s \in SUBSET T |->
                        IF s = {} THEN 0
                        ELSE f[AnyOf(s)] + g(s \ {AnyOf(s)})[s \ {AnyOf(s)}]]
<1>5. ASSUME NEW U \in SUBSET T, U # T
      PROVE  IsSumTable(g(U), f, U)
  BY <1>4, <1>5
<1>6. ASSUME NEW s \in SUBSET T, s # T
      PROVE  it[s] = g(s)[s]
  <2> HIDE DEF g
  <2>1. IsSumTable(g(s), f, s)
    BY <1>5, <1>6
  <2>2. g(s)[s] = IF s = {} THEN 0 ELSE f[AnyOf(s)] + g(s)[s \ {AnyOf(s)}]
    BY <2>1 DEF IsSumTable
  <2>3. CASE s = {}
    BY <2>2, <2>3
  <2>4. CASE s # {}
    <3> DEFINE r == s \ {AnyOf(s)}
    <3>1. r \in SUBSET T /\ r # T /\ r \in SUBSET s
      BY <1>6
    <3>2. IsSumTable(g(r), f, r) /\ IsFiniteSet(s)
      BY <3>1, <1>5, FS_Subset
    <3>3. g(s)[r] = g(r)[r]
      <4> HIDE DEF r
      <4>1. AgreeOn(g(s), g(r), r \cap s)
        BY <2>1, <3>2, SumTableUnique
      <4>2. r \in SUBSET (r \cap s)
        BY <3>1
      <4> QED BY ONLY <4>1, <4>2 DEF AgreeOn
    <3> QED BY <2>2, <2>4, <3>3
  <2> QED BY <2>3, <2>4
<1>7. IsSumTable(it, f, T)
  <2>1. ASSUME NEW s \in SUBSET T, s # {}
        PROVE  it[s \ {AnyOf(s)}] = g(s \ {AnyOf(s)})[s \ {AnyOf(s)}]
    <3> HIDE DEF it, g
    <3> QED BY <1>6, <2>1, AnyOfIn
  <2>2. ASSUME NEW s \in SUBSET T
        PROVE  it[s] = IF s = {} THEN 0 ELSE f[AnyOf(s)] + it[s \ {AnyOf(s)}]
    <3>1. it[s] = IF s = {} THEN 0 ELSE f[AnyOf(s)] + g(s \ {AnyOf(s)})[s \ {AnyOf(s)}]
      OBVIOUS
    <3> HIDE DEF it, g
    <3> QED BY <2>1, <3>1
  <2>3. it = [s \in SUBSET T |-> it[s]]
    OBVIOUS
  <2>4. it = [s \in SUBSET T |-> IF s = {} THEN 0 ELSE f[AnyOf(s)] + it[s \ {AnyOf(s)}]]
    <3> HIDE DEF it
    <3> QED BY <2>2, <2>3
  <2> QED BY <2>4 DEF IsSumTable
<1> QED BY <1>7

\* SumFunctionOnSet reads its own table.
LEMMA SumDef ==
    ASSUME NEW f, NEW S
    PROVE  SumFunctionOnSet(f, S) = (CHOOSE it : IsSumTable(it, f, S))[S]
BY DEF SumFunctionOnSet, FoldFunctionOnSet, MapThenFoldSet, IsSumTable, AnyOf

\* A sum can be read from the table of any larger finite set.
LEMMA SumFromTable ==
    ASSUME NEW f, NEW S, IsFiniteSet(S), NEW it, IsSumTable(it, f, S), NEW T \in SUBSET S
    PROVE  SumFunctionOnSet(f, T) = it[T]
<1> DEFINE h == CHOOSE g : IsSumTable(g, f, T)
<1>1. IsSumTable(h, f, T)
  BY SumTableExists, FS_Subset
<1>2. h[T] = it[T]
  <2> HIDE DEF h
  <2>1. AgreeOn(it, h, T \cap S)
    BY <1>1, SumTableUnique
  <2>2. T \in SUBSET (T \cap S)
    OBVIOUS
  <2> QED BY ONLY <2>1, <2>2 DEF AgreeOn
<1> QED BY <1>2, SumDef

\* The sum over no element.
LEMMA SumEmpty == ASSUME NEW f PROVE SumFunctionOnSet(f, {}) = 0
<1>1. PICK it : IsSumTable(it, f, {})
  BY SumTableExists, FS_EmptySet
<1>2. it[{}] = 0
  BY <1>1 DEF IsSumTable
<1> QED BY <1>1, <1>2, SumFromTable, FS_EmptySet

\* One step of the recursion.
LEMMA SumStep ==
    ASSUME NEW f, NEW S, IsFiniteSet(S), S # {}
    PROVE  SumFunctionOnSet(f, S) = f[AnyOf(S)] + SumFunctionOnSet(f, S \ {AnyOf(S)})
<1>1. PICK it : IsSumTable(it, f, S)
  BY SumTableExists
<1>2. it[S] = f[AnyOf(S)] + it[S \ {AnyOf(S)}]
  BY <1>1 DEF IsSumTable
<1>3. SumFunctionOnSet(f, S) = it[S] /\ SumFunctionOnSet(f, S \ {AnyOf(S)}) = it[S \ {AnyOf(S)}]
  BY <1>1, SumFromTable
<1> QED BY <1>2, <1>3

\* A sum of integers is an integer.
LEMMA SumInt ==
    ASSUME NEW S, IsFiniteSet(S), NEW f, \A s \in S : f[s] \in Int
    PROVE  SumFunctionOnSet(f, S) \in Int
<1> DEFINE Bad == {T \in SUBSET S : SumFunctionOnSet(f, T) \notin Int}
<1>1. SUFFICES ASSUME Bad # {} PROVE FALSE
  OBVIOUS
<1>2. Bad \in SUBSET (SUBSET S)
  OBVIOUS
<1>3. PICK T \in Bad : \A y \in Bad : y \subseteq T => y = T
  <2> HIDE DEF Bad
  <2> QED BY <1>1, <1>2, MinimalSubset
<1>4. T # {}
  <2>1. SumFunctionOnSet(f, {}) = 0
    BY SumEmpty
  <2> QED BY <2>1
<1>5. SumFunctionOnSet(f, T) = f[AnyOf(T)] + SumFunctionOnSet(f, T \ {AnyOf(T)})
  BY <1>4, SumStep, FS_Subset
<1>6. SumFunctionOnSet(f, T \ {AnyOf(T)}) \in Int
  BY <1>3, <1>4, AnyOfIn
<1> QED BY <1>4, <1>5, <1>6, AnyOfIn

\* A sum of naturals is a natural.
LEMMA SumNat ==
    ASSUME NEW S, IsFiniteSet(S), NEW f, \A s \in S : f[s] \in Nat
    PROVE  SumFunctionOnSet(f, S) \in Nat
<1> DEFINE Bad == {T \in SUBSET S : SumFunctionOnSet(f, T) \notin Nat}
<1>1. SUFFICES ASSUME Bad # {} PROVE FALSE
  OBVIOUS
<1>2. Bad \in SUBSET (SUBSET S)
  OBVIOUS
<1>3. PICK T \in Bad : \A y \in Bad : y \subseteq T => y = T
  <2> HIDE DEF Bad
  <2> QED BY <1>1, <1>2, MinimalSubset
<1>4. T # {}
  <2>1. SumFunctionOnSet(f, {}) = 0
    BY SumEmpty
  <2> QED BY <2>1
<1>5. SumFunctionOnSet(f, T) = f[AnyOf(T)] + SumFunctionOnSet(f, T \ {AnyOf(T)})
  BY <1>4, SumStep, FS_Subset
<1>6. SumFunctionOnSet(f, T \ {AnyOf(T)}) \in Nat
  BY <1>3, <1>4, AnyOfIn
<1> QED BY <1>4, <1>5, <1>6, AnyOfIn

\* The order does not matter: any element may be taken out first.
LEMMA SumRemove ==
    ASSUME NEW S, IsFiniteSet(S), NEW f, \A s \in S : f[s] \in Int, NEW x \in S
    PROVE  SumFunctionOnSet(f, S) = f[x] + SumFunctionOnSet(f, S \ {x})
<1> DEFINE Bad == {T \in SUBSET S : \E e \in T : SumFunctionOnSet(f, T) # f[e] + SumFunctionOnSet(f, T \ {e})}
<1>1. SUFFICES ASSUME Bad # {} PROVE FALSE
  OBVIOUS
<1>2. Bad \in SUBSET (SUBSET S)
  OBVIOUS
<1>3. PICK T \in Bad : \A y \in Bad : y \subseteq T => y = T
  <2> HIDE DEF Bad
  <2> QED BY <1>1, <1>2, MinimalSubset
<1>4. PICK e \in T : SumFunctionOnSet(f, T) # f[e] + SumFunctionOnSet(f, T \ {e})
  BY <1>3
<1> DEFINE p == AnyOf(T)
<1>5. T \in SUBSET S /\ T # {} /\ p \in T /\ IsFiniteSet(T)
  BY <1>4, AnyOfIn, FS_Subset
<1>6. SumFunctionOnSet(f, T) = f[p] + SumFunctionOnSet(f, T \ {p})
  BY <1>5, SumStep
<1>7. p # e
  BY <1>4, <1>6
<1>8. \A U \in SUBSET T : U # T => \A y \in U : SumFunctionOnSet(f, U) = f[y] + SumFunctionOnSet(f, U \ {y})
  BY <1>3
<1> HIDE DEF p, Bad
<1>9. SumFunctionOnSet(f, T \ {p}) = f[e] + SumFunctionOnSet(f, (T \ {p}) \ {e})
  <2>1. T \ {p} \in SUBSET T /\ T \ {p} # T /\ e \in T \ {p}
    BY <1>5, <1>7, <1>4
  <2> QED BY <2>1, <1>8
<1>10. SumFunctionOnSet(f, T \ {e}) = f[p] + SumFunctionOnSet(f, (T \ {e}) \ {p})
  <2>1. T \ {e} \in SUBSET T /\ T \ {e} # T /\ p \in T \ {e}
    BY <1>5, <1>7, <1>4
  <2> QED BY <2>1, <1>8
<1>11. SumFunctionOnSet(f, (T \ {e}) \ {p}) = SumFunctionOnSet(f, (T \ {p}) \ {e})
  <2>1. (T \ {e}) \ {p} = (T \ {p}) \ {e}
    OBVIOUS
  <2> QED BY <2>1, Zenon
<1>12. SumFunctionOnSet(f, (T \ {p}) \ {e}) \in Int
  <2> DEFINE U == (T \ {p}) \ {e}
  <2>1. IsFiniteSet(U) /\ \A s \in U : f[s] \in Int
    BY <1>5, FS_Subset
  <2> HIDE DEF U
  <2>2. SumFunctionOnSet(f, U) \in Int
    BY <2>1, SumInt
  <2> QED BY <2>2 DEF U
<1>13. f[e] \in Int /\ f[p] \in Int
  BY <1>5, <1>4
<1>14. SumFunctionOnSet(f, T) = f[e] + SumFunctionOnSet(f, T \ {e})
  BY <1>6, <1>9, <1>10, <1>11, <1>12, <1>13
<1> QED BY <1>4, <1>14, Zenon

\* A new element adds its value.
LEMMA SumAdd ==
    ASSUME NEW S, IsFiniteSet(S), NEW x, x \notin S, NEW f, \A s \in S \cup {x} : f[s] \in Int
    PROVE  SumFunctionOnSet(f, S \cup {x}) = SumFunctionOnSet(f, S) + f[x]
<1> DEFINE T == S \cup {x}
<1>1. IsFiniteSet(T) /\ x \in T /\ T \ {x} = S /\ \A s \in T : f[s] \in Int
  BY FS_AddElement
<1>2. SumFunctionOnSet(f, T) = f[x] + SumFunctionOnSet(f, T \ {x})
  <2> HIDE DEF T
  <2> QED BY <1>1, SumRemove
<1>3. SumFunctionOnSet(f, S) \in Int
  BY SumInt
<1>4. SumFunctionOnSet(f, T \ {x}) = SumFunctionOnSet(f, S)
  BY <1>1, Zenon
<1>5. f[x] \in Int
  OBVIOUS
<1> HIDE DEF T
<1>6. SumFunctionOnSet(f, T) = SumFunctionOnSet(f, S) + f[x]
  BY <1>2, <1>3, <1>4, <1>5
<1> QED BY <1>6 DEF T

\* Only the values on the set matter.
LEMMA SumSame ==
    ASSUME NEW S, IsFiniteSet(S), NEW f, NEW g, \A s \in S : f[s] = g[s]
    PROVE  SumFunctionOnSet(f, S) = SumFunctionOnSet(g, S)
<1> DEFINE Bad == {T \in SUBSET S : SumFunctionOnSet(f, T) # SumFunctionOnSet(g, T)}
<1>1. SUFFICES ASSUME Bad # {} PROVE FALSE
  OBVIOUS
<1>2. Bad \in SUBSET (SUBSET S)
  OBVIOUS
<1>3. PICK T \in Bad : \A y \in Bad : y \subseteq T => y = T
  <2> HIDE DEF Bad
  <2> QED BY <1>1, <1>2, MinimalSubset
<1>4. T # {}
  BY SumEmpty
<1>5. /\ SumFunctionOnSet(f, T) = f[AnyOf(T)] + SumFunctionOnSet(f, T \ {AnyOf(T)})
      /\ SumFunctionOnSet(g, T) = g[AnyOf(T)] + SumFunctionOnSet(g, T \ {AnyOf(T)})
  BY <1>4, SumStep, FS_Subset
<1>6. SumFunctionOnSet(f, T \ {AnyOf(T)}) = SumFunctionOnSet(g, T \ {AnyOf(T)})
  BY <1>3, <1>4, AnyOfIn
<1> QED BY <1>4, <1>5, <1>6, AnyOfIn

\* A sum changes by what the one value that differs changes.
DifferAt(f, g, x, S) ==
    /\ IsFiniteSet(S) /\ x \in S
    /\ \A s \in S : f[s] \in Int /\ g[s] \in Int
    /\ \A s \in S : s # x => g[s] = f[s]

LEMMA SumUpdate ==
    ASSUME NEW S, NEW f, NEW g, NEW x, DifferAt(f, g, x, S)
    PROVE  SumFunctionOnSet(g, S) = SumFunctionOnSet(f, S) + (g[x] - f[x])
<1> USE DEF DifferAt
<1>1. /\ SumFunctionOnSet(f, S) = f[x] + SumFunctionOnSet(f, S \ {x})
      /\ SumFunctionOnSet(g, S) = g[x] + SumFunctionOnSet(g, S \ {x})
  BY SumRemove
<1> DEFINE T == S \ {x}
<1>2. IsFiniteSet(T) /\ \A s \in T : f[s] = g[s] /\ f[s] \in Int
  BY FS_Subset
<1>3. SumFunctionOnSet(f, T) = SumFunctionOnSet(g, T) /\ SumFunctionOnSet(f, T) \in Int
  <2> HIDE DEF T
  <2> QED BY <1>2, SumSame, SumInt
<1> QED BY <1>1, <1>3

\* A sum of zeroes is zero.
LEMMA SumZero ==
    ASSUME NEW S, IsFiniteSet(S), NEW f, \A s \in S : f[s] = 0
    PROVE  SumFunctionOnSet(f, S) = 0
<1> DEFINE Bad == {T \in SUBSET S : SumFunctionOnSet(f, T) # 0}
<1>1. SUFFICES ASSUME Bad # {} PROVE FALSE
  OBVIOUS
<1>2. Bad \in SUBSET (SUBSET S)
  OBVIOUS
<1>3. PICK T \in Bad : \A y \in Bad : y \subseteq T => y = T
  <2> HIDE DEF Bad
  <2> QED BY <1>1, <1>2, MinimalSubset
<1>4. T # {}
  BY SumEmpty
<1>5. SumFunctionOnSet(f, T) = f[AnyOf(T)] + SumFunctionOnSet(f, T \ {AnyOf(T)})
  BY <1>4, SumStep, FS_Subset
<1>6. SumFunctionOnSet(f, T \ {AnyOf(T)}) = 0
  BY <1>3, <1>4, AnyOfIn
<1> QED BY <1>4, <1>5, <1>6, AnyOfIn

\* The sum of two functions' sums.
LEMMA SumPlus ==
    ASSUME NEW S, IsFiniteSet(S), NEW f, NEW g, NEW h,
           \A s \in S : f[s] \in Int /\ g[s] \in Int /\ h[s] = f[s] + g[s]
    PROVE  SumFunctionOnSet(h, S) = SumFunctionOnSet(f, S) + SumFunctionOnSet(g, S)
<1> DEFINE Bad == {T \in SUBSET S : SumFunctionOnSet(h, T) # SumFunctionOnSet(f, T) + SumFunctionOnSet(g, T)}
<1>1. SUFFICES ASSUME Bad # {} PROVE FALSE
  OBVIOUS
<1>2. Bad \in SUBSET (SUBSET S)
  OBVIOUS
<1>3. PICK T \in Bad : \A y \in Bad : y \subseteq T => y = T
  <2> HIDE DEF Bad
  <2> QED BY <1>1, <1>2, MinimalSubset
<1>4. T # {}
  <2> SUFFICES ASSUME T = {} PROVE FALSE
    OBVIOUS
  <2>1. /\ SumFunctionOnSet(f, {}) = 0 /\ SumFunctionOnSet(g, {}) = 0
        /\ SumFunctionOnSet(h, {}) = 0
    BY SumEmpty
  <2>2. SumFunctionOnSet(h, {}) # SumFunctionOnSet(f, {}) + SumFunctionOnSet(g, {})
    BY <1>3
  <2> HIDE DEF Bad
  <2> QED BY <2>1, <2>2
<1> DEFINE R == T \ {AnyOf(T)}
<1>5. /\ SumFunctionOnSet(f, T) = f[AnyOf(T)] + SumFunctionOnSet(f, R)
      /\ SumFunctionOnSet(g, T) = g[AnyOf(T)] + SumFunctionOnSet(g, R)
      /\ SumFunctionOnSet(h, T) = h[AnyOf(T)] + SumFunctionOnSet(h, R)
  BY <1>4, SumStep, FS_Subset
<1>6. SumFunctionOnSet(h, R) = SumFunctionOnSet(f, R) + SumFunctionOnSet(g, R)
  BY <1>3, <1>4, AnyOfIn
<1>7. SumFunctionOnSet(f, R) \in Int /\ SumFunctionOnSet(g, R) \in Int
  <2>1. IsFiniteSet(R) /\ \A s \in R : f[s] \in Int /\ g[s] \in Int
    BY FS_Subset
  <2> HIDE DEF R
  <2> QED BY <2>1, SumInt
<1>8. f[AnyOf(T)] \in Int /\ g[AnyOf(T)] \in Int /\ h[AnyOf(T)] = f[AnyOf(T)] + g[AnyOf(T)]
  BY <1>4, AnyOfIn
<1>9. SumFunctionOnSet(h, T) # SumFunctionOnSet(f, T) + SumFunctionOnSet(g, T)
  BY <1>3
<1> HIDE DEF R, Bad
<1> QED BY <1>5, <1>6, <1>7, <1>8, <1>9

\* A common factor.
LEMMA SumScale ==
    ASSUME NEW S, IsFiniteSet(S), NEW f, NEW h, NEW c \in Int,
           \A s \in S : f[s] \in Int /\ h[s] = c * f[s]
    PROVE  SumFunctionOnSet(h, S) = c * SumFunctionOnSet(f, S)
<1> DEFINE Bad == {T \in SUBSET S : SumFunctionOnSet(h, T) # c * SumFunctionOnSet(f, T)}
<1>1. SUFFICES ASSUME Bad # {} PROVE FALSE
  OBVIOUS
<1>2. Bad \in SUBSET (SUBSET S)
  OBVIOUS
<1>3. PICK T \in Bad : \A y \in Bad : y \subseteq T => y = T
  <2> HIDE DEF Bad
  <2> QED BY <1>1, <1>2, MinimalSubset
<1>4. T # {}
  <2>1. SumFunctionOnSet(f, {}) = 0 /\ SumFunctionOnSet(h, {}) = 0 /\ c * 0 = 0
    BY SumEmpty
  <2> QED BY <2>1
<1> DEFINE R == T \ {AnyOf(T)}
<1>5. /\ SumFunctionOnSet(f, T) = f[AnyOf(T)] + SumFunctionOnSet(f, R)
      /\ SumFunctionOnSet(h, T) = h[AnyOf(T)] + SumFunctionOnSet(h, R)
  BY <1>4, SumStep, FS_Subset
<1>6. SumFunctionOnSet(h, R) = c * SumFunctionOnSet(f, R)
  BY <1>3, <1>4, AnyOfIn
<1>7. SumFunctionOnSet(f, R) \in Int
  <2>1. IsFiniteSet(R) /\ \A s \in R : f[s] \in Int
    BY FS_Subset
  <2> HIDE DEF R
  <2> QED BY <2>1, SumInt
<1>8. f[AnyOf(T)] \in Int /\ h[AnyOf(T)] = c * f[AnyOf(T)]
  BY <1>4, AnyOfIn
<1> DEFINE x == f[AnyOf(T)]
           y == SumFunctionOnSet(f, R)
<1>9. c * (x + y) = c * x + c * y
  <2>1. x \in Int /\ y \in Int
    BY <1>7, <1>8
  <2> HIDE DEF x, y
  <2> QED BY <2>1
<1>10. SumFunctionOnSet(h, T) # c * SumFunctionOnSet(f, T)
  BY <1>3
<1> HIDE DEF Bad
<1> QED BY <1>5, <1>6, <1>7, <1>8, <1>9, <1>10

\* A sum of as many values between 0 and c as the set has members.
LEMMA SumRange ==
    ASSUME NEW S, IsFiniteSet(S), NEW f, NEW c \in Nat, \A s \in S : f[s] \in 0..c
    PROVE  SumFunctionOnSet(f, S) \in 0..(c * Cardinality(S))
<1> DEFINE Bad == {T \in SUBSET S : SumFunctionOnSet(f, T) \notin 0..(c * Cardinality(T))}
<1>1. SUFFICES ASSUME Bad # {} PROVE FALSE
  OBVIOUS
<1>2. Bad \in SUBSET (SUBSET S)
  OBVIOUS
<1>3. PICK T \in Bad : \A y \in Bad : y \subseteq T => y = T
  <2> HIDE DEF Bad
  <2> QED BY <1>1, <1>2, MinimalSubset
<1>4. T # {}
  <2>1. SumFunctionOnSet(f, {}) = 0 /\ Cardinality({}) = 0
    BY SumEmpty, FS_EmptySet
  <2>2. 0 \in 0..(c * 0)
    OBVIOUS
  <2>3. SumFunctionOnSet(f, T) \notin 0..(c * Cardinality(T))
    OBVIOUS
  <2> QED BY ONLY <2>1, <2>2, <2>3
<1> DEFINE R == T \ {AnyOf(T)}
<1>5. SumFunctionOnSet(f, T) = f[AnyOf(T)] + SumFunctionOnSet(f, R)
  BY <1>4, SumStep, FS_Subset
<1>6. SumFunctionOnSet(f, R) \in 0..(c * Cardinality(R))
  BY <1>3, <1>4, AnyOfIn
<1>7. Cardinality(R) = Cardinality(T) - 1 /\ Cardinality(T) \in Nat
  BY <1>4, AnyOfIn, FS_RemoveElement, FS_Subset, FS_CardinalityType
<1>8. f[AnyOf(T)] \in 0..c
  BY <1>4, AnyOfIn
<1> DEFINE k == Cardinality(T)
<1>9. c * (k - 1) = c * k - c
  <2>1. k \in Int
    BY <1>7
  <2> HIDE DEF k
  <2> QED BY <2>1
<1>10. c * k \in Int
  <2>1. k \in Int
    BY <1>7
  <2> HIDE DEF k
  <2> QED BY <2>1
<1>11. SumFunctionOnSet(f, T) \in 0..(c * k)
  <2> DEFINE z == c * k
  <2>1. /\ SumFunctionOnSet(f, R) \in 0..(z - c)
        /\ z \in Int
    BY <1>6, <1>7, <1>9, <1>10
  <2> HIDE DEF z
  <2>2. SumFunctionOnSet(f, T) \in 0..z
    BY <1>5, <1>8, <2>1
  <2> QED BY <2>2 DEF z
<1> QED BY <1>11

\* Two facts about products.
LEMMA NonNegativeFactor ==
    ASSUME NEW t \in Nat \ {0}, NEW d \in Int, t * d >= 0
    PROVE  d >= 0
  OBVIOUS

LEMMA FactorLess ==
    ASSUME NEW t \in Nat \ {0}, NEW d \in Int, NEW e \in Int, t * d < t * e
    PROVE  d < e
  OBVIOUS

\* n * x is between t times its quotient by t and less than t more.
LEMMA QuotientBounds ==
    ASSUME NEW m \in Nat, NEW t \in Nat \ {0}
    PROVE  m \div t \in Nat /\ m - t * (m \div t) \in 0..(t - 1)
  OBVIOUS

LEMMA QuotientSign ==
    ASSUME NEW d \in Nat, NEW l \in Int, NEW t \in Nat \ {0}
    PROVE  (d * l) \div t \in Int /\ (l < 0 => (d * l) \div t <= 0)
<1> DEFINE m == d * l
<1>1. m \in Int /\ (l < 0 => m <= 0)
  OBVIOUS
<1> HIDE DEF m
<1>2. m \div t \in Int /\ (m <= 0 => m \div t <= 0)
  BY <1>1
<1> QED BY <1>1, <1>2 DEF m

\* Shares of n in proportion to x, each rounded down: together they are no
\* more than n, and less than n by less than one unit for each member.
LEMMA SharesOfSum ==
    ASSUME NEW S, IsFiniteSet(S), NEW x, NEW q, NEW n \in Nat,
           \A s \in S : x[s] \in Nat,
           SumFunctionOnSet(x, S) > 0,
           \A s \in S : q[s] = (n * x[s]) \div SumFunctionOnSet(x, S)
    PROVE  /\ \A s \in S : q[s] \in Nat
           /\ SumFunctionOnSet(q, S) \in 0..n
           /\ n - SumFunctionOnSet(q, S) < Cardinality(S)
<1> DEFINE t == SumFunctionOnSet(x, S)
           a == [s \in S |-> n * x[s]]
           b == [s \in S |-> (-t) * q[s]]
           e == [s \in S |-> n * x[s] - t * q[s]]
<1>1. t \in Nat \ {0}
  BY SumNat
<1>2. \A s \in S : n * x[s] \in Nat
  <2> SUFFICES ASSUME NEW s \in S PROVE n * x[s] \in Nat
    OBVIOUS
  <2> DEFINE v == x[s]
  <2>1. v \in Nat
    OBVIOUS
  <2> HIDE DEF v
  <2>2. n * v \in Nat
    BY <2>1
  <2> QED BY <2>2 DEF v
<1>3. \A s \in S : q[s] \in Nat /\ n * x[s] - t * q[s] \in 0..(t - 1)
  <2> SUFFICES ASSUME NEW s \in S PROVE q[s] \in Nat /\ n * x[s] - t * q[s] \in 0..(t - 1)
    OBVIOUS
  <2> DEFINE m == n * x[s]
  <2>1. m \in Nat /\ q[s] = m \div t
    BY <1>2
  <2> HIDE DEF m, t
  <2>2. m \div t \in Nat /\ m - t * (m \div t) \in 0..(t - 1)
    BY <1>1, <2>1, QuotientBounds
  <2> QED BY <2>1, <2>2 DEF m
<1> HIDE DEF t
<1>4. SumFunctionOnSet(a, S) = n * SumFunctionOnSet(x, S)
  <2>1. n \in Int /\ \A s \in S : x[s] \in Int /\ a[s] = n * x[s]
    OBVIOUS
  <2> HIDE DEF a
  <2> QED BY ONLY <2>1, IsFiniteSet(S), SumScale
<1>5. SumFunctionOnSet(b, S) = (-t) * SumFunctionOnSet(q, S)
  <2>1. -t \in Int /\ \A s \in S : q[s] \in Int /\ b[s] = (-t) * q[s]
    BY <1>1, <1>3
  <2> HIDE DEF b
  <2> QED BY ONLY <2>1, IsFiniteSet(S), SumScale
<1>6. SumFunctionOnSet(e, S) = SumFunctionOnSet(a, S) + SumFunctionOnSet(b, S)
  <2>1. \A s \in S : a[s] \in Int /\ b[s] \in Int /\ e[s] = a[s] + b[s]
    <3> SUFFICES ASSUME NEW s \in S PROVE a[s] \in Int /\ b[s] \in Int /\ e[s] = a[s] + b[s]
      OBVIOUS
    <3> DEFINE v == q[s]
               w == n * x[s]
    <3>1. w \in Nat /\ v \in Nat /\ t \in Nat
      BY <1>1, <1>2, <1>3
    <3>2. a[s] = w /\ b[s] = (-t) * v /\ e[s] = w - t * v
      OBVIOUS
    <3> HIDE DEF v, w, a, b, e
    <3>3. t * v \in Int /\ (-t) * v = -(t * v)
      BY ONLY <3>1
    <3> QED BY ONLY <3>1, <3>2, <3>3
  <2> HIDE DEF a, b, e
  <2> QED BY <2>1, SumPlus
<1>7. SumFunctionOnSet(e, S) \in 0..((t - 1) * Cardinality(S))
  <2>1. t - 1 \in Nat /\ \A s \in S : e[s] \in 0..(t - 1)
    BY <1>1, <1>3
  <2> HIDE DEF e
  <2> QED BY <2>1, SumRange
<1>8. SumFunctionOnSet(q, S) \in Nat /\ Cardinality(S) \in Nat
  BY <1>3, SumNat, FS_CardinalityType
<1>9. S # {}
  BY <1>1, SumEmpty DEF t
<1>10. Cardinality(S) > 0
  BY <1>8, <1>9, FS_EmptySet
<1> DEFINE u == SumFunctionOnSet(q, S)
           k == Cardinality(S)
<1>11. n * t + (-t) * u \in 0..((t - 1) * k)
  BY <1>4, <1>5, <1>6, <1>7 DEF t
<1>12. u \in Nat /\ k \in Nat /\ k > 0
  BY <1>8, <1>10
<1> HIDE DEF u, k
<1>13. t * (n - u) \in 0..((t - 1) * k)
  <2>1. t * (n - u) = n * t + (-t) * u
    BY <1>1, <1>12
  <2> QED BY <1>11, <2>1
<1>14. n - u >= 0
  BY <1>1, <1>12, <1>13, NonNegativeFactor
<1>15. n - u < k
  <2>1. t * (n - u) <= t * k - k
    <3>1. (t - 1) * k = t * k - k
      BY <1>1, <1>12
    <3> QED BY <1>13, <3>1
  <2>2. t * (n - u) < t * k
    <3>1. t * k \in Int /\ t * (n - u) \in Int
      BY <1>1, <1>12
    <3> QED BY <1>12, <2>1, <3>1
  <2> QED BY <1>1, <1>12, <2>2, FactorLess
<1> QED BY <1>3, <1>12, <1>14, <1>15 DEF u, k

\* Members whose value is zero can be left out.
LEMMA SumSupport ==
    ASSUME NEW S, IsFiniteSet(S), NEW f, \A s \in S : f[s] \in Int,
           NEW T \in SUBSET S, \A s \in S \ T : f[s] = 0
    PROVE  SumFunctionOnSet(f, S) = SumFunctionOnSet(f, T)
<1> DEFINE Bad == {U \in SUBSET S : T \subseteq U /\ SumFunctionOnSet(f, U) # SumFunctionOnSet(f, T)}
<1>1. SUFFICES ASSUME Bad # {} PROVE FALSE
  OBVIOUS
<1>2. Bad \in SUBSET (SUBSET S)
  OBVIOUS
<1>3. PICK U \in Bad : \A y \in Bad : y \subseteq U => y = U
  <2> HIDE DEF Bad
  <2> QED BY <1>1, <1>2, MinimalSubset
<1>4. PICK x \in U : x \notin T
  BY <1>3
<1>5. SumFunctionOnSet(f, U) = f[x] + SumFunctionOnSet(f, U \ {x})
  <2>1. IsFiniteSet(U) /\ \A s \in U : f[s] \in Int
    BY FS_Subset
  <2> HIDE DEF Bad
  <2> QED BY <2>1, SumRemove
<1>6. SumFunctionOnSet(f, U \ {x}) = SumFunctionOnSet(f, T)
  BY <1>3, <1>4
<1>7. f[x] = 0 /\ SumFunctionOnSet(f, T) \in Int
  <2>1. IsFiniteSet(T) /\ \A s \in T : f[s] \in Int
    BY FS_Subset
  <2>2. SumFunctionOnSet(f, T) \in Int
    BY <2>1, SumInt
  <2> QED BY <1>4, <2>2
<1>8. SumFunctionOnSet(f, U) # SumFunctionOnSet(f, T)
  OBVIOUS
<1> HIDE DEF Bad
<1> QED BY <1>5, <1>6, <1>7, <1>8

\* A sum of naturals is at least each of them.
LEMMA SumAtLeast ==
    ASSUME NEW S, IsFiniteSet(S), NEW f, \A s \in S : f[s] \in Nat, NEW x \in S
    PROVE  SumFunctionOnSet(f, S) >= f[x]
<1>1. SumFunctionOnSet(f, S) = f[x] + SumFunctionOnSet(f, S \ {x})
  BY SumRemove
<1> DEFINE T == S \ {x}
<1>2. IsFiniteSet(T) /\ \A s \in T : f[s] \in Nat
  BY FS_Subset
<1>3. SumFunctionOnSet(f, T) \in Nat
  <2> HIDE DEF T
  <2> QED BY <1>2, SumNat
<1> QED BY <1>1, <1>3
=============================================================================
