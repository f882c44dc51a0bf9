--------------------------- MODULE CountingLemmas ---------------------------
(***************************************************************************)
(* Facts about numbers, finite sets and ranks that the proofs of several    *)
(* components cite: the least element of a set of numbers, induction, the   *)
(* existence of a function defined by recursion, and the place of an        *)
(* element in a finite total order.  They are stated for sets and functions *)
(* so that a first-order prover can use them.                               *)
(***************************************************************************)
EXTENDS Integers, FiniteSetTheorems, TLAPS

-----------------------------------------------------------------------------
\* A nonempty set of numbers has a least one.
LEMMA Least ==
  ASSUME NEW T, T \subseteq Nat, T # {}
  PROVE  \E x \in T : \A y \in T : x <= y
<1> DEFINE below(n) == {m \in Nat : m < n}
           U == {below(n) : n \in T}
<1>1. \A n \in Nat : below(n) = 0..(n - 1)
  OBVIOUS
<1>2. \A n \in Nat : IsFiniteSet(below(n))
  <2> SUFFICES ASSUME NEW n \in Nat PROVE IsFiniteSet(below(n))
    OBVIOUS
  <2>1. below(n) = 0..(n - 1) /\ 0 \in Int /\ n - 1 \in Int
    BY <1>1
  <2> HIDE DEF below
  <2> QED
    BY <2>1, FS_Interval
<1>3. U \subseteq FiniteSubsetsOf(Nat) /\ U # {}
  BY <1>2 DEF FiniteSubsetsOf
<1> DEFINE R == StrictSubsetOrdering(Nat)
           S == FiniteSubsetsOf(Nat)
<1>4. IsWellFoundedOn(R, S)
  BY FS_StrictSubsetOrderingWellFounded
<1>5. \E x \in U : \A y \in U : ~(<<y, x>> \in R)
  <2> HIDE DEF R, S, U
  <2> QED
    BY <1>3, <1>4, WFMin DEF S
<1>6. PICK x \in T : \A y \in T : ~(<<below(y), below(x)>> \in R)
  BY <1>5
<1>7. \A y \in T : y < x => <<below(y), below(x)>> \in R
  <2> SUFFICES ASSUME NEW y \in T, y < x PROVE <<below(y), below(x)>> \in R
    OBVIOUS
  <2>1. below(y) \subseteq below(x) /\ y \in below(x) /\ y \notin below(y)
    OBVIOUS
  <2>2. below(y) \in SUBSET Nat /\ below(x) \in SUBSET Nat
    OBVIOUS
  <2> HIDE DEF below
  <2>3. below(y) # below(x)
    BY <2>1
  <2> QED
    BY <2>1, <2>2, <2>3 DEF StrictSubsetOrdering
<1>8. \A y \in T : ~(y < x)
  BY <1>6, <1>7
<1> QED
  BY <1>8

\* Induction.
LEMMA Induct ==
  ASSUME NEW T, T \subseteq Nat, 0 \in T, \A n \in T : n + 1 \in T
  PROVE  T = Nat
<1> DEFINE rest == Nat \ T
<1>1. CASE rest # {}
  <2>1. PICK x \in rest : \A y \in rest : x <= y
    <3>1. rest \subseteq Nat
      OBVIOUS
    <3> HIDE DEF rest
    <3> QED
      BY <1>1, <3>1, Least
  <2>2. x \in Nat /\ x # 0 /\ x - 1 \in Nat /\ x - 1 < x
    OBVIOUS
  <2>3. x - 1 \in T
    BY <2>1, <2>2
  <2>4. (x - 1) + 1 = x
    BY <2>2
  <2>5. x \in T
    BY <2>3, <2>4
  <2> QED
    BY <2>5
<1> QED
  BY <1>1

\* A function on the numbers is given by its first value and a step.
Recurs(f, a, next) == f[0] = a /\ \A n \in Nat : f[n + 1] = next[n][f[n]]

LEMMA Recursion ==
  ASSUME NEW A, NEW a, a \in A, NEW next, next \in [Nat -> [A -> A]]
  PROVE  \E f \in [Nat -> A] : Recurs(f, a, next)
<1> DEFINE Up(n, g) == g \in [0..n -> A] /\ g[0] = a /\ \A m \in 0..(n - 1) : g[m + 1] = next[m][g[m]]
           T == {n \in Nat : \E g \in [0..n -> A] : Up(n, g)}
           Agree == {i \in Nat : \A n, m \in Nat : \A g \in [0..n -> A], h \in [0..m -> A] :
                        i <= n /\ i <= m /\ Up(n, g) /\ Up(m, h) => g[i] = h[i]}
<1>1. T = Nat
  <2>1. 0 \in T
    <3>1. Up(0, [i \in 0..0 |-> a])
      OBVIOUS
    <3> QED
      BY <3>1
  <2>2. ASSUME NEW n \in T PROVE n + 1 \in T
    <3>1. PICK g \in [0..n -> A] : Up(n, g)
      OBVIOUS
    <3> DEFINE h == [i \in 0..(n + 1) |-> IF i = n + 1 THEN next[n][g[n]] ELSE g[i]]
    <3>2. h \in [0..(n + 1) -> A]
      BY <3>1
    <3>3. h[0] = a
      BY <3>1
    <3>4. ASSUME NEW m \in 0..n PROVE h[m + 1] = next[m][h[m]]
      <4>1. CASE m = n
        <5>1. n \in 0..(n + 1) /\ n + 1 \in 0..(n + 1) /\ n # n + 1
          OBVIOUS
        <5>2. h[n + 1] = next[n][g[n]] /\ h[n] = g[n]
          BY <5>1
        <5> QED
          BY <4>1, <5>2
      <4>2. CASE m # n
        <5>1. m \in 0..(n - 1) /\ m + 1 # n + 1 /\ m + 1 \in 0..(n + 1) /\ m \in 0..(n + 1) /\ m # n + 1
          BY <4>2
        <5>2. g[m + 1] = next[m][g[m]]
          BY <3>1, <5>1
        <5> QED
          BY <5>1, <5>2
      <4> QED
        BY <4>1, <4>2
    <3>5. Up(n + 1, h)
      <4> HIDE DEF h
      <4> QED
        BY <3>2, <3>3, <3>4
    <3> QED
      <4> HIDE DEF h, Up
      <4> QED
        BY <3>2, <3>5
  <2>3. T \subseteq Nat
    OBVIOUS
  <2> HIDE DEF T
  <2> QED
    BY <2>1, <2>2, <2>3, Induct
<1>2. Agree = Nat
  <2>1. 0 \in Agree
    OBVIOUS
  <2>2. ASSUME NEW i \in Agree PROVE i + 1 \in Agree
    <3> SUFFICES ASSUME NEW n \in Nat, NEW m \in Nat, NEW g \in [0..n -> A], NEW h \in [0..m -> A],
                        i + 1 <= n, i + 1 <= m, Up(n, g), Up(m, h)
                 PROVE  g[i + 1] = h[i + 1]
      <4> HIDE DEF Up
      <4> QED
        OBVIOUS
    <3>1. g[i] = h[i]
      <4>1. i <= n /\ i <= m
        OBVIOUS
      <4> HIDE DEF Up
      <4> QED
        BY <4>1
    <3>2. i \in 0..(n - 1) /\ i \in 0..(m - 1)
      OBVIOUS
    <3>3. g[i + 1] = next[i][g[i]] /\ h[i + 1] = next[i][h[i]]
      BY <3>2
    <3> QED
      BY <3>1, <3>3
  <2>3. Agree \subseteq Nat
    OBVIOUS
  <2> HIDE DEF Agree
  <2> QED
    BY <2>1, <2>2, <2>3, Induct
<1> DEFINE G == [n \in Nat |-> CHOOSE g \in [0..n -> A] : Up(n, g)]
           f == [n \in Nat |-> G[n][n]]
<1>3. \A n \in Nat : G[n] \in [0..n -> A] /\ Up(n, G[n])
  <2> SUFFICES ASSUME NEW n \in Nat PROVE G[n] \in [0..n -> A] /\ Up(n, G[n])
    OBVIOUS
  <2>1. n \in T
    BY <1>1
  <2>2. \E g \in [0..n -> A] : Up(n, g)
    BY <2>1
  <2> HIDE DEF Up
  <2> QED
    BY <2>2
<1> HIDE DEF G
<1>4. \A n \in Nat : f[n] \in A
  BY <1>3
<1>5. f[0] = a
  BY <1>3
<1>6. ASSUME NEW n \in Nat PROVE f[n + 1] = next[n][f[n]]
  <2>1. n + 1 \in Nat /\ n \in 0..((n + 1) - 1) /\ n <= n + 1 /\ n <= n
    OBVIOUS
  <2>2. G[n + 1][n + 1] = next[n][G[n + 1][n]]
    BY <1>3, <2>1
  <2>3. n \in Agree
    BY <1>2
  <2>4. G[n + 1][n] = G[n][n]
    <3> HIDE DEF Up
    <3> QED BY <1>3, <2>1, <2>3
  <2> QED
    BY <2>2, <2>4
<1>7. f \in [Nat -> A]
  BY <1>4
<1> HIDE DEF f
<1> QED
  BY <1>5, <1>6, <1>7 DEF Recurs
-----------------------------------------------------------------------------
\* The elements up to each element of a total order.
Chain(S, upTo) ==
  \A x, y \in S : /\ x \in upTo[x]
                  /\ x \in upTo[y] => upTo[x] \subseteq upTo[y]
                  /\ x \in upTo[y] \/ y \in upTo[x]
                  /\ x \in upTo[y] /\ y \in upTo[x] => x = y

\* A larger finite set does not count fewer elements, nor as many.
LEMMA CountGrows ==
  ASSUME NEW S, IsFiniteSet(S), NEW T, T \subseteq S
  PROVE  /\ IsFiniteSet(T) /\ Cardinality(T) \in Nat /\ Cardinality(S) \in Nat
         /\ Cardinality(T) <= Cardinality(S)
         /\ T # S => Cardinality(T) < Cardinality(S)
  BY FS_Subset, FS_CardinalityType

\* The places in a finite total order are the numbers from 1 to its size, each
\* taken by exactly one element, in order.
LEMMA Places ==
  ASSUME NEW S, IsFiniteSet(S), NEW upTo, upTo \in [S -> SUBSET S], Chain(S, upTo)
  PROVE  /\ \A x \in S : Cardinality(upTo[x]) \in 1..Cardinality(S)
         /\ \A x, y \in S : x \in upTo[y] <=> Cardinality(upTo[x]) <= Cardinality(upTo[y])
         /\ \A x, y \in S : Cardinality(upTo[x]) = Cardinality(upTo[y]) => x = y
         /\ \A k \in 1..Cardinality(S) : \E x \in S : Cardinality(upTo[x]) = k
<1> DEFINE size == Cardinality(S)
           place == [x \in S |-> Cardinality(upTo[x])]
<1>1. size \in Nat
  BY FS_CardinalityType
<1>2. \A x \in S : IsFiniteSet(upTo[x]) /\ place[x] \in 1..size
  <2> SUFFICES ASSUME NEW x \in S PROVE IsFiniteSet(upTo[x]) /\ Cardinality(upTo[x]) \in 1..size
    OBVIOUS
  <2>1. upTo[x] \subseteq S /\ x \in upTo[x]
    BY DEF Chain
  <2>2. IsFiniteSet(upTo[x]) /\ Cardinality(upTo[x]) \in Nat /\ Cardinality(upTo[x]) <= size
    BY <2>1, CountGrows
  <2>3. Cardinality(upTo[x]) # 0
    BY <2>1, <2>2, FS_EmptySet
  <2> QED
    BY <1>1, <2>2, <2>3
<1>3. \A x, y \in S : x # y /\ x \in upTo[y] => place[x] < place[y]
  <2> SUFFICES ASSUME NEW x \in S, NEW y \in S, x # y, x \in upTo[y]
               PROVE  Cardinality(upTo[x]) < Cardinality(upTo[y])
    OBVIOUS
  <2>1. upTo[x] \subseteq upTo[y] /\ y \in upTo[y] /\ y \notin upTo[x]
    BY DEF Chain
  <2>2. upTo[x] # upTo[y]
    BY <2>1
  <2> QED
    BY <1>2, <2>1, <2>2, CountGrows
<1>4. \A x, y \in S : place[x] = place[y] => x = y
  <2> SUFFICES ASSUME NEW x \in S, NEW y \in S, x # y PROVE place[x] # place[y]
    OBVIOUS
  <2>1. x \in upTo[y] \/ y \in upTo[x]
    BY DEF Chain
  <2>2. place[x] < place[y] \/ place[y] < place[x]
    BY <1>3, <2>1
  <2>3. place[x] \in Nat /\ place[y] \in Nat
    BY <1>1, <1>2
  <2> HIDE DEF place
  <2> QED
    BY <2>2, <2>3
<1>5. \A x, y \in S : x \in upTo[y] <=> place[x] <= place[y]
  <2> SUFFICES ASSUME NEW x \in S, NEW y \in S PROVE x \in upTo[y] <=> place[x] <= place[y]
    OBVIOUS
  <2>1. place[x] \in Nat /\ place[y] \in Nat
    BY <1>1, <1>2
  <2>2. x \in upTo[y] \/ (y # x /\ y \in upTo[x])
    BY DEF Chain
  <2>3. (x \in upTo[y] => x = y \/ place[x] < place[y]) /\ (y # x /\ y \in upTo[x] => place[y] < place[x])
    BY <1>3
  <2>4. x \in upTo[y] => ~(y # x /\ y \in upTo[x])
    BY DEF Chain
  <2> HIDE DEF place
  <2> QED
    BY <2>1, <2>2, <2>3, <2>4
<1>6. ASSUME NEW k \in 1..size PROVE \E x \in S : place[x] = k
  <2> DEFINE T == 1..size
  <2>1. place \in Injection(S, T)
    <3>1. place \in [S -> T]
      BY <1>2
    <3> HIDE DEF place, T
    <3> QED
      BY <1>4, <3>1 DEF Injection, IsInjective
  <2>2. IsFiniteSet(T) /\ Cardinality(T) = size
    <3>1. 1 \in Int /\ size \in Int /\ (~(1 > size) \/ size = 0)
      BY <1>1
    <3> QED
      BY <1>1, <3>1, FS_Interval
  <2>3. place \in Surjection(S, T)
    <3> HIDE DEF place, T
    <3> QED
      BY <2>1, <2>2, FS_Injection
  <2> HIDE DEF place
  <2> QED
    BY <2>3 DEF Surjection
<1> QED
  BY <1>2, <1>4, <1>5, <1>6
=============================================================================
