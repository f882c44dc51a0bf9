--------------------------- MODULE TokenListProofs ---------------------------
(***************************************************************************)
(* For any lists, any number of requests and any sequence of failing saves, *)
(* expiries and restarts: requests are served with a saved list and hide    *)
(* nothing it has.  For any balance and any decimals: ScaleBalance is exact. *)
(***************************************************************************)
EXTENDS TokenList, CountingLemmas

-----------------------------------------------------------------------------
\* A list that may be served, not from the future.
ListOK(list) ==
  /\ list \in Snapshot
  /\ DOMAIN list.tokens # {}
  /\ list.fetchedAt <= fetches

\* Both stores are at least as new as the newest list they both took.
StoresOK ==
  /\ postgresList # NoList => ListOK(postgresList) /\ safe <= postgresList.fetchedAt
  /\ redisList # NoList => ListOK(redisList) /\ safe <= redisList.fetchedAt

\* The refresher's list in hand, and when it counts as saved.
RefreshOK ==
  /\ fetches \in Nat /\ safe \in Nat /\ safe <= fetches
  /\ starting \in BOOLEAN /\ savedPG \in BOOLEAN
  /\ listPhase \in {"savePG", "saveRedis", "set"}
     => ListOK(inHand) /\ inHand.fetchedAt = fetches
  /\ savedPG => listPhase \in {"saveRedis", "set"} /\ postgresList = inHand
  /\ listPhase \in {"loadRedis", "loadPG", "dead"} => starting

\* What a running process serves with.
HolderOK ==
  ~starting => /\ ListOK(holder)
               /\ \/ holder.fetchedAt >= safe
                  \/ listPhase = "set" /\ safe = fetches

ServingOK == StoresOK /\ RefreshOK /\ HolderOK

LEMMA NoListIsNone == \A list : ListOK(list) => list # NoList
  BY TokenListAssumption DEF ListOK

LEMMA ServingHolds == ServingOK => ServesSavedList
  BY NoListIsNone DEF ServingOK, RefreshOK, HolderOK, ListOK, ServesSavedList

LEMMA InitServing == ListInit => ServingOK
<1> SUFFICES ASSUME ListInit PROVE StoresOK /\ RefreshOK /\ HolderOK
  BY DEF ServingOK
<1>1. StoresOK
  BY DEF ListInit, StoresOK
<1>2. RefreshOK
  <2>1. fetches \in Nat /\ safe \in Nat /\ safe <= fetches
    BY DEF ListInit
  <2> QED
    BY <2>1, Zenon DEF ListInit, RefreshOK
<1>3. HolderOK
  BY DEF ListInit, HolderOK
<1> QED
  BY <1>1, <1>2, <1>3

\* A list at least as new as safe may be swapped in.
LEMMA SwapServing ==
  ASSUME ServingOK, NEW list, ListOK(list), safe <= list.fetchedAt, Swap(list)
  PROVE  ServingOK'
<1>1. UNCHANGED <<postgresList, redisList, fetches, safe>>
  BY DEF Swap, disk
<1>2. holder' = list /\ listPhase' = "ready" /\ starting' = FALSE /\ savedPG' = FALSE
  BY DEF Swap
<1>3. ListOK(list)'
  BY <1>1 DEF ListOK
<1>4. StoresOK' /\ RefreshOK'
  BY <1>1, <1>2 DEF ServingOK, StoresOK, RefreshOK, ListOK
<1>5. list \in Snapshot /\ list.fetchedAt \in Nat
  BY DEF ListOK, Snapshot
<1> QED
  BY <1>1, <1>2, <1>3, <1>4, <1>5 DEF ServingOK, RefreshOK, HolderOK, ListOK

\* Steps that leave the lists and the refresher alone.
LEMMA ServingUnchanged ==
  ASSUME ServingOK, UNCHANGED <<disk, holder, refresh, safe>>
  PROVE  ServingOK'
  BY DEF ServingOK, StoresOK, RefreshOK, HolderOK, ListOK, disk, refresh

LEMMA ListStepServing == ServingOK /\ ListStep => ServingOK'
<1> SUFFICES ASSUME ServingOK, ListStep PROVE ServingOK'
  OBVIOUS
<1>1. CASE FetchList
  <2>1. ListOK(inHand)' /\ inHand'.fetchedAt = fetches'
    <3>1. PICK list \in Lists : Useful(list) /\ inHand' = [tokens |-> list, fetchedAt |-> fetches]
      BY <1>1 DEF FetchList
    <3>2. fetches' = fetches /\ fetches \in Nat
      BY <1>1 DEF FetchList, ServingOK, RefreshOK
    <3> QED
      BY <3>1, <3>2 DEF ListOK, Snapshot, Useful
  <2>2. ~savedPG
    BY <1>1 DEF FetchList, ServingOK, RefreshOK
  <2>3. HolderOK'
    BY <1>1 DEF FetchList, ServingOK, HolderOK, ListOK
  <2> QED
    BY <1>1, <2>1, <2>2, <2>3 DEF FetchList, ServingOK, StoresOK, RefreshOK, ListOK, disk
<1>2. CASE FetchListFails
  BY <1>2 DEF FetchListFails, ServingOK, StoresOK, RefreshOK, HolderOK, ListOK, disk
<1>3. CASE SaveListPG
  <2>1. ListOK(inHand) /\ inHand.fetchedAt = fetches /\ safe <= fetches
    BY <1>3 DEF SaveListPG, ServingOK, RefreshOK
  <2>2. ~savedPG
    BY <1>3 DEF SaveListPG, ServingOK, RefreshOK
  <2> QED
    <3>1. StoresOK'
      BY <1>3, <2>1 DEF SaveListPG, ServingOK, StoresOK, ListOK
    <3>2. savedPG' \in BOOLEAN /\ (savedPG' => postgresList' = inHand)
      <4>1. CASE postgresList' = inHand /\ savedPG' = TRUE
        BY <4>1
      <4>2. CASE UNCHANGED <<postgresList, savedPG>>
        BY <2>2, <4>2 DEF ServingOK, RefreshOK
      <4> QED
        BY <1>3, <4>1, <4>2 DEF SaveListPG
    <3>3. RefreshOK'
      BY <1>3, <2>1, <3>2 DEF SaveListPG, ServingOK, RefreshOK, ListOK
    <3>4. HolderOK'
      BY <1>3 DEF SaveListPG, ServingOK, HolderOK, ListOK
    <3> QED
      BY <3>1, <3>3, <3>4 DEF ServingOK
<1>4. CASE SaveListRedis
  <2>1. ListOK(inHand) /\ inHand.fetchedAt = fetches /\ safe <= fetches
    BY <1>4 DEF SaveListRedis, ServingOK, RefreshOK
  <2>2. safe' = safe \/ (savedPG /\ redisList' = inHand /\ safe' = fetches)
    <3>1. CASE savedPG
      BY <1>4, <3>1 DEF SaveListRedis
    <3>2. CASE ~savedPG
      BY <1>4, <3>2 DEF SaveListRedis
    <3> QED
      BY <3>1, <3>2
  <2>3. redisList' = inHand \/ (redisList' = redisList /\ safe' = safe)
    BY <1>4 DEF SaveListRedis
  <2>4. UNCHANGED <<postgresList, holder, starting, fetches, inHand, savedPG>>
        /\ listPhase = "saveRedis" /\ listPhase' = "set"
    BY <1>4 DEF SaveListRedis
  <2>5. fetches \in Nat /\ safe \in Nat
    BY DEF ServingOK, RefreshOK
  <2>6. StoresOK'
    BY <2>1, <2>2, <2>3, <2>4, <2>5 DEF ServingOK, StoresOK, RefreshOK, ListOK
  <2>7. RefreshOK'
    BY <2>1, <2>2, <2>4, <2>5 DEF ServingOK, RefreshOK, ListOK
  <2>8. HolderOK'
    BY <2>1, <2>2, <2>4, <2>5 DEF ServingOK, HolderOK, ListOK
  <2> QED
    BY <2>6, <2>7, <2>8 DEF ServingOK
<1>5. CASE SetList
  BY <1>5, SwapServing DEF SetList, ServingOK, RefreshOK
<1>6. CASE LoadListRedis
  BY <1>6, SwapServing DEF LoadListRedis, ServingOK, StoresOK
<1>7. CASE LoadListPG
  BY <1>7, SwapServing DEF LoadListPG, ServingOK, StoresOK
<1>8. CASE LoadListRedisFails \/ LoadListPGFails
  BY <1>8 DEF LoadListRedisFails, LoadListPGFails, ServingOK, StoresOK, RefreshOK, HolderOK, ListOK, disk
<1> QED
  BY <1>1, <1>2, <1>3, <1>4, <1>5, <1>6, <1>7, <1>8 DEF ListStep

LEMMA ServingStep == ServingOK /\ [ListNext]_listVars => ServingOK'
<1> SUFFICES ASSUME ServingOK, [ListNext]_listVars PROVE ServingOK'
  OBVIOUS
<1>0. fetches \in Nat /\ safe \in Nat /\ safe <= fetches
  BY DEF ServingOK, RefreshOK
<1>1. CASE BeginFetch
  <2>1. listPhase = "ready" /\ fetches' = fetches + 1 /\ listPhase' = "fetch"
        /\ UNCHANGED <<postgresList, redisList, holder, starting, inHand, savedPG, safe>>
    BY <1>1 DEF BeginFetch, disk
  <2>2. \A list : ListOK(list) => ListOK(list)'
    BY <1>0, <2>1 DEF ListOK, Snapshot
  <2>3. StoresOK'
    BY <2>1, <2>2 DEF ServingOK, StoresOK
  <2>4. RefreshOK'
    BY <1>0, <2>1 DEF ServingOK, RefreshOK
  <2>5. HolderOK'
    BY <2>1, <2>2 DEF ServingOK, HolderOK
  <2> QED
    BY <2>3, <2>4, <2>5 DEF ServingOK
<1>2. CASE ListStep
  BY <1>2, ListStepServing
<1>3. CASE RedisListExpires
  BY <1>3 DEF RedisListExpires, ServingOK, StoresOK, RefreshOK, HolderOK, ListOK, refresh
<1>4. CASE Restart
  <2>1. fetches' = fetches + 1 /\ listPhase' = "fetch" /\ starting' = TRUE /\ savedPG' = FALSE
        /\ UNCHANGED <<postgresList, redisList, safe>>
    BY <1>4 DEF Restart, disk
  <2>2. \A list : ListOK(list) => ListOK(list)'
    BY <1>0, <2>1 DEF ListOK, Snapshot
  <2>3. StoresOK'
    BY <2>1, <2>2 DEF ServingOK, StoresOK
  <2> QED
    <3>1. RefreshOK'
      <4>1. fetches' \in Nat /\ safe' \in Nat /\ safe' <= fetches'
        BY <1>0, <2>1
      <4> QED
        BY <2>1, <4>1, Zenon DEF RefreshOK
    <3>2. HolderOK'
      BY <2>1 DEF HolderOK
    <3> QED
      BY <2>3, <3>1, <3>2 DEF ServingOK
<1>5. ASSUME NEW f \in Filter, NEW p \in Portfolios, BeginFilter(f, p) PROVE ServingOK'
  BY <1>5, ServingUnchanged DEF BeginFilter
<1>6. ASSUME NEW f \in Filter, FilterStep(f) PROVE ServingOK'
  <2>1. UNCHANGED <<disk, holder, refresh, safe>>
    BY <1>6 DEF FilterStep, FilterToken, AskValidator, Verdict, AnswerWallet, Settle
  <2> QED
    BY <2>1, ServingUnchanged
<1>7. CASE UNCHANGED listVars
  BY <1>7, ServingUnchanged DEF listVars
<1> QED
  BY <1>1, <1>2, <1>3, <1>4, <1>5, <1>6, <1>7 DEF ListNext

\* A request is never served without a list, with an empty one, or with one older
\* than the newest list both stores took.
THEOREM ListIsSaved == ListSpec => []ServesSavedList
  BY InitServing, ServingStep, ServingHolds, PTL DEF ListSpec
-----------------------------------------------------------------------------
\* Powers of ten, by recursion and as products.
LEMMA PowerDef == Power = [n \in Nat |-> IF n = 0 THEN 1 ELSE 10 * Power[n - 1]]
<1> DEFINE A == Nat
           a == 1
           next == [n \in Nat |-> [m \in A |-> 10 * m]]
<1>1. next \in [Nat -> [A -> A]] /\ a \in A
  OBVIOUS
<1>2. PICK f \in [Nat -> A] : Recurs(f, a, next)
  <2> HIDE DEF next, A, a
  <2> QED
    BY <1>1, Recursion
<1>3. f[0] = 1 /\ \A n \in Nat : f[n + 1] = 10 * f[n]
  BY <1>2 DEF Recurs
<1>4. ASSUME NEW n \in Nat PROVE f[n] = IF n = 0 THEN 1 ELSE 10 * f[n - 1]
  <2>1. CASE n = 0
    BY <1>3, <2>1
  <2>2. CASE n # 0
    <3>1. n - 1 \in Nat /\ (n - 1) + 1 = n
      BY <2>2
    <3> QED
      BY <1>3, <2>2, <3>1
  <2> QED
    BY <2>1, <2>2
<1>5. f = [n \in Nat |-> IF n = 0 THEN 1 ELSE 10 * f[n - 1]]
  BY <1>4
<1> QED
  BY <1>5 DEF Power

LEMMA PowerType == Power[0] = 1 /\ \A n \in Nat : Power[n] \in Nat \ {0} /\ Power[n + 1] = 10 * Power[n]
<1>1. Power[0] = 1 /\ \A n \in Nat : Power[n + 1] = 10 * Power[n]
  BY PowerDef
<1> DEFINE T == {n \in Nat : Power[n] \in Nat \ {0}}
<1>2. T \subseteq Nat /\ 0 \in T /\ \A n \in T : n + 1 \in T
  BY <1>1
<1>3. T = Nat
  <2> HIDE DEF T
  <2> QED
    BY <1>2, Induct
<1> QED
  BY <1>1, <1>3

\* The laws of products the proofs below need.
LEMMA Products ==
  ASSUME NEW a \in Nat, NEW b \in Nat, NEW c \in Nat
  PROVE  /\ a * b \in Nat /\ a * b = b * a
         /\ 10 * (a * b) = a * (10 * b)
         /\ a * (b * c) = (a * b) * c
         /\ a * (b + c) = a * b + a * c
         /\ b <= c => a * b <= a * c
  OBVIOUS

LEMMA PowerAdds == \A n, m \in Nat : Power[n + m] = Power[n] * Power[m]
<1> SUFFICES ASSUME NEW n \in Nat PROVE \A m \in Nat : Power[n + m] = Power[n] * Power[m]
  OBVIOUS
<1> DEFINE T == {m \in Nat : Power[n + m] = Power[n] * Power[m]}
<1>1. 0 \in T
  BY PowerType
<1>2. ASSUME NEW m \in T PROVE m + 1 \in T
  <2>1. Power[n + m] = Power[n] * Power[m] /\ n + m \in Nat
    OBVIOUS
  <2>2. Power[(n + m) + 1] = 10 * Power[n + m] /\ Power[m + 1] = 10 * Power[m]
    BY <2>1, PowerType
  <2>3. 10 * (Power[n] * Power[m]) = Power[n] * (10 * Power[m])
    BY PowerType, Products
  <2>4. (n + m) + 1 = n + (m + 1)
    OBVIOUS
  <2>5. Power[n + (m + 1)] = Power[n] * Power[m + 1]
    BY <2>1, <2>2, <2>3, <2>4
  <2> QED
    BY <2>5
<1>3. T = Nat
  <2>1. T \subseteq Nat
    OBVIOUS
  <2> HIDE DEF T
  <2> QED
    BY <1>1, <1>2, <2>1, Induct
<1> QED
  BY <1>3

\* Quotient and remainder, and their uniqueness.
LEMMA Divide ==
  ASSUME NEW r \in Nat, NEW p \in Nat \ {0}
  PROVE  /\ r \div p \in Nat /\ r % p \in Nat /\ (r % p) < p
         /\ r = p * (r \div p) + (r % p)
  OBVIOUS

LEMMA DivideUnique ==
  ASSUME NEW r \in Nat, NEW p \in Nat \ {0}, NEW q \in Nat, NEW s \in Nat, s < p, r = p * q + s
  PROVE  r \div p = q
  OBVIOUS

\* The last digit of a quotient is what the next larger power of ten cuts off.
LEMMA LastDigit ==
  ASSUME NEW r \in Nat, NEW p \in Nat \ {0}
  PROVE  r \div p = 10 * (r \div (10 * p)) + ((r \div p) % 10)
<1> DEFINE a == r \div p
           b == r % p
           c == a \div 10
           e == a % 10
<1>1. a \in Nat /\ b \in Nat /\ b < p /\ r = p * a + b
  BY Divide
<1> HIDE DEF a, b
<1>2. c \in Nat /\ e \in 0..9 /\ a = 10 * c + e
  BY <1>1
<1> HIDE DEF c, e
<1>3. r = (10 * p) * c + (p * e + b)
  <2>1. p * a = p * (10 * c) + p * e
    BY <1>2, Products
  <2>2. p * (10 * c) = 10 * (p * c) /\ (10 * p) * c = 10 * (p * c)
    BY <1>2
  <2> QED
    BY <1>1, <1>2, <2>1, <2>2
<1>4. p * e + b \in Nat /\ p * e + b < 10 * p
  <2>1. p * e <= p * 9
    BY <1>2, Products
  <2>2. p * e \in Nat
    BY <1>2
  <2> QED
    BY <1>1, <2>1, <2>2
<1>5. r \div (10 * p) = c
  <2>1. 10 * p \in Nat \ {0}
    OBVIOUS
  <2> QED
    BY <1>2, <1>3, <1>4, <2>1, DivideUnique
<1>6. r \div (10 * p) = a \div 10 /\ a = 10 * (a \div 10) + (a % 10)
  BY <1>1, <1>2, <1>5 DEF c, e
<1> QED
  BY <1>6 DEF a

\* The largest of a bounded set of numbers.
LEMMA Largest ==
  ASSUME NEW n \in Nat, NEW S, S \subseteq 0..n, S # {}
  PROVE  Max(S) \in S /\ \A x \in S : Max(S) >= x
<1> DEFINE T == {n - x : x \in S}
<1>1. T \subseteq Nat /\ T # {}
  <2>1. \A x \in S : x \in Nat /\ n - x \in Nat
    OBVIOUS
  <2> QED
    BY <2>1
<1>2. PICK y \in T : \A z \in T : y <= z
  <2> HIDE DEF T
  <2> QED
    BY <1>1, Least
<1>3. PICK x \in S : y = n - x
  OBVIOUS
<1>4. \A z \in S : n - x <= n - z
  BY <1>2, <1>3
<1>5. \A z \in S : x >= z
  BY <1>4
<1>6. \E w \in S : \A z \in S : w >= z
  BY <1>5
<1> QED
  BY <1>6 DEF Max

\* The number the digits are read as, digit by digit.
LEMMA ReadingSteps ==
  ASSUME NEW s, s.whole \in Nat, s.digits \in Seq(Nat)
  PROVE  /\ Reading(s)[0] = s.whole
         /\ \A i \in 1..Len(s.digits) : Reading(s)[i] = 10 * Reading(s)[i - 1] + s.digits[i]
<1> DEFINE size == Len(s.digits)
           digit == [i \in Nat |-> IF i \in 1..size THEN s.digits[i] ELSE 0]
           A == Nat
           a == s.whole
           next == [i \in Nat |-> [v \in A |-> 10 * v + digit[i + 1]]]
           R(g) == [i \in 0..size |-> IF i = 0 THEN s.whole ELSE 10 * g[i - 1] + s.digits[i]]
<1>0. size \in Nat /\ \A i \in 1..size : s.digits[i] \in Nat
  OBVIOUS
<1>1. digit \in [Nat -> Nat]
  BY <1>0
<1> HIDE DEF size
<1>01. \A i \in 1..size : i - 1 \in Nat /\ (i - 1) + 1 = i /\ i \in 0..size /\ i - 1 \in 0..size /\ i # 0
  BY <1>0
<1>2. next \in [Nat -> [A -> A]] /\ a \in A
  <2>1. \A i \in Nat : digit[i + 1] \in Nat
    BY <1>1
  <2> HIDE DEF digit
  <2>2. \A i \in Nat, v \in Nat : 10 * v + digit[i + 1] \in Nat
    BY <2>1
  <2> QED
    BY <2>2
<1>3. PICK f \in [Nat -> A] : Recurs(f, a, next)
  <2> HIDE DEF next, A, a
  <2> QED
    BY <1>2, Recursion
<1> DEFINE g == [i \in 0..size |-> f[i]]
<1>4. f[0] = s.whole
  BY <1>3 DEF Recurs
<1>5. ASSUME NEW i \in 1..size PROVE f[i] = 10 * f[i - 1] + s.digits[i]
  <2>1. i - 1 \in Nat /\ (i - 1) + 1 = i
    BY <1>01
  <2>2. f[(i - 1) + 1] = next[i - 1][f[i - 1]]
    BY <1>3, <2>1 DEF Recurs
  <2>3. next[i - 1][f[i - 1]] = 10 * f[i - 1] + digit[(i - 1) + 1]
    <3> HIDE DEF digit
    <3> QED
      BY <1>3, <2>1
  <2>4. digit[i] = s.digits[i]
    BY <1>0
  <2> HIDE DEF next, digit
  <2> QED
    BY <2>1, <2>2, <2>3, <2>4
<1>6. g = R(g)
  <2>1. \A i \in 0..size : f[i] = IF i = 0 THEN s.whole ELSE 10 * g[i - 1] + s.digits[i]
    <3>1. ASSUME NEW i \in 1..size PROVE f[i] = 10 * g[i - 1] + s.digits[i] /\ i # 0
      BY <1>01, <1>5
    <3>2. \A i \in 0..size : i = 0 \/ i \in 1..size
      BY <1>0
    <3> HIDE DEF g
    <3> QED
      BY <1>4, <3>1, <3>2
  <2> HIDE DEF a, next
  <2> QED
    BY <2>1
<1>7. Reading(s) = R(Reading(s))
  <2>1. \E h : h = R(h)
    <3> HIDE DEF g, R
    <3> QED
      BY <1>6
  <2>2. Reading(s) = CHOOSE h : h = R(h)
    BY DEF Reading, size
  <2> HIDE DEF R
  <2> QED
    BY <2>1, <2>2
<1>8. Reading(s)[0] = s.whole
  BY <1>0, <1>7
<1>9. ASSUME NEW i \in 1..size PROVE Reading(s)[i] = 10 * Reading(s)[i - 1] + s.digits[i]
  <2>1. R(Reading(s))[i] = 10 * Reading(s)[i - 1] + s.digits[i]
    BY <1>01
  <2> HIDE DEF R
  <2> QED
    BY <1>7, <2>1
<1> QED
  BY <1>8, <1>9 DEF size

\* The digits of a remainder are digits, and read as the remainder itself.
LEMMA PaddedType ==
  ASSUME NEW r \in Nat, NEW d \in Nat
  PROVE  Padded(r, d) \in [1..d -> Digit] /\ Padded(r, d) \in Seq(Digit) /\ Len(Padded(r, d)) = d
<1>1. ASSUME NEW i \in 1..d PROVE (r \div Power[d - i]) % 10 \in 0..9
  <2>1. d - i \in Nat
    OBVIOUS
  <2>2. r \div Power[d - i] \in Nat
    BY <2>1, PowerType, Divide
  <2> QED
    BY <2>2
<1>2. Padded(r, d) \in [1..d -> Digit]
  BY <1>1 DEF Padded, Digit
<1> QED
  BY <1>2

\* Trimming keeps a prefix; it ends in a digit that is not zero, and only zeros
\* are cut off.
LEMMA TrimRightKeeps ==
  ASSUME NEW s \in Seq(Digit)
  PROVE  \E k \in 0..Len(s) :
           /\ TrimRight(s) = SubSeq(s, 1, k) /\ TrimRight(s) \in Seq(Digit) /\ Len(TrimRight(s)) = k
           /\ \A i \in 1..k : TrimRight(s)[i] = s[i]
           /\ k # 0 => s[k] # 0
           /\ \A i \in (k + 1)..Len(s) : s[i] = 0
<1> DEFINE S == {0} \cup {i \in DOMAIN s : s[i] # 0}
           k == Max(S)
           n == Len(s)
<1>1. S \subseteq 0..n /\ S # {} /\ n \in Nat
  OBVIOUS
<1>2. k \in S /\ \A x \in S : k >= x
  <2> HIDE DEF S, n
  <2> QED
    BY <1>1, Largest
<1>3. k \in 0..n
  BY <1>1, <1>2
<1>4. k # 0 => s[k] # 0
  BY <1>2
<1>5. ASSUME NEW i \in (k + 1)..n PROVE s[i] = 0
  <2>1. i \in Nat /\ k \in Nat /\ i > k /\ i \in 1..n
    BY <1>1, <1>3
  <2>2. i \notin S
    BY <1>2, <2>1
  <2> QED
    BY <2>1, <2>2
<1>6. TrimRight(s) = SubSeq(s, 1, k)
  BY DEF TrimRight
<1> HIDE DEF k
<1>7. SubSeq(s, 1, k) \in Seq(Digit) /\ Len(SubSeq(s, 1, k)) = k /\ \A i \in 1..k : SubSeq(s, 1, k)[i] = s[i]
  BY <1>3
<1> QED
  BY <1>3, <1>4, <1>5, <1>6, <1>7

\* Scaling yields digits, whatever the balance and the decimals.
LEMMA ScaledType ==
  ASSUME NEW raw \in Nat, NEW d \in Nat
  PROVE  ScaleBalance(raw, d) \in Scaled
<1>1. Power[d] \in Nat \ {0}
  BY PowerType
<1>2. raw \div Power[d] \in Nat /\ raw % Power[d] \in Nat
  BY <1>1, Divide
<1>3. TrimRight(Padded(raw % Power[d], d)) \in Seq(Digit)
  BY <1>2, PaddedType, TrimRightKeeps
<1>4. CASE d <= 0
  BY <1>4 DEF ScaleBalance, Scaled
<1>5. CASE ~(d <= 0)
  BY <1>2, <1>3, <1>5 DEF ScaleBalance, Scaled
<1> QED
  BY <1>4, <1>5

\* A whole part q and the first k digits of the remainder r.
Prefix(s, q, r, d, k) ==
  /\ s.whole = q /\ s.digits \in Seq(Digit) /\ Len(s.digits) = k
  /\ \A i \in 1..k : s.digits[i] = Padded(r, d)[i]

ReadsAs(s, q, r, d, k) == Reading(s)[k] = q * Power[k] + (r \div Power[d - k])

\* Reading the first k digits of a padded remainder undoes the division.
LEMMA ReadingPadded ==
  ASSUME NEW q \in Nat, NEW d \in Nat, NEW r \in Nat, r < Power[d], NEW k \in 0..d,
         NEW s, Prefix(s, q, r, d, k)
  PROVE  ReadsAs(s, q, r, d, k)
<1> DEFINE Right(i) == Reading(s)[i] = q * Power[i] + (r \div Power[d - i])
           T == {i \in Nat : i <= k => Right(i)}
<1>0. k \in Nat /\ k <= d /\ \A i \in 0..k : d - i \in Nat
  OBVIOUS
<1> USE DEF Prefix
<1>1. /\ Reading(s)[0] = q
      /\ \A i \in 1..k : Reading(s)[i] = 10 * Reading(s)[i - 1] + s.digits[i]
  <2>1. s.digits \in Seq(Nat)
    BY DEF Digit
  <2> QED
    BY <2>1, ReadingSteps
<1>2. 0 \in T
  <2>1. r \div Power[d] = 0 /\ Power[0] = 1 /\ d - 0 = d
    <3>1. Power[d] \in Nat \ {0} /\ Power[0] = 1
      BY PowerType
    <3>2. 0 \in Nat /\ r = Power[d] * 0 + r
      BY <3>1
    <3> QED
      BY <3>1, <3>2, DivideUnique
  <2>2. Right(0)
    BY <1>1, <2>1
  <2> QED
    BY <2>2
<1>3. ASSUME NEW j \in T PROVE j + 1 \in T
  <2> SUFFICES ASSUME j + 1 <= k PROVE Right(j + 1)
    OBVIOUS
  <2> DEFINE p == Power[d - (j + 1)]
  <2>1. j \in Nat /\ d - (j + 1) \in Nat /\ (d - (j + 1)) + 1 = d - j /\ j + 1 \in 1..k /\ (j + 1) - 1 = j /\ j + 1 \in 1..d
    BY <1>0
  <2>2. p \in Nat \ {0} /\ Power[d - j] = 10 * p /\ Power[j + 1] = 10 * Power[j] /\ Power[j] \in Nat
    <3>1. Power[(d - (j + 1)) + 1] = 10 * p /\ p \in Nat \ {0}
      BY <2>1, PowerType
    <3>2. Power[d - j] = 10 * p
      BY <2>1, <3>1
    <3> QED
      BY <2>1, <3>1, <3>2, PowerType
  <2>3. Reading(s)[j] = q * Power[j] + (r \div (10 * p))
    BY <1>0, <2>2
  <2>4. s.digits[j + 1] = (r \div p) % 10
    BY <2>1 DEF Padded
  <2>5. Reading(s)[j + 1] = 10 * Reading(s)[j] + s.digits[j + 1]
    <3>1. Reading(s)[j + 1] = 10 * Reading(s)[(j + 1) - 1] + s.digits[j + 1]
      BY <1>1, <2>1
    <3> QED
      BY <2>1, <3>1
  <2> HIDE DEF p
  <2>6. r \div p = 10 * (r \div (10 * p)) + ((r \div p) % 10)
    BY <2>2, LastDigit
  <2>7. 10 * (q * Power[j]) = q * Power[j + 1] /\ q * Power[j] \in Nat
    BY <2>2, Products
  <2>8. r \div (10 * p) \in Nat /\ (r \div p) % 10 \in Nat
    <3>1. 10 * p \in Nat \ {0}
      BY <2>2
    <3> QED
      BY <2>2, <3>1, Divide
  <2>9. 10 * (q * Power[j] + (r \div (10 * p))) = 10 * (q * Power[j]) + 10 * (r \div (10 * p))
    BY <2>7, <2>8
  <2>10. Reading(s)[j + 1] = q * Power[j + 1] + (r \div p)
    <3> DEFINE u == q * Power[j]
               v == r \div (10 * p)
               w == (r \div p) % 10
    <3>1. u \in Nat /\ v \in Nat /\ w \in Nat
      BY <2>7, <2>8
    <3>2. Reading(s)[j + 1] = 10 * (u + v) + w /\ q * Power[j + 1] = 10 * u /\ r \div p = 10 * v + w
      BY <2>3, <2>4, <2>5, <2>6, <2>7
    <3> HIDE DEF u, v, w
    <3> QED
      BY <3>1, <3>2
  <2> QED
    BY <2>10 DEF p
<1>4. T = Nat
  <2>1. T \subseteq Nat
    OBVIOUS
  <2> HIDE DEF T
  <2> QED
    BY <1>2, <1>3, <2>1, Induct
<1>5. k \in T
  BY <1>0, <1>4
<1> QED
  BY <1>0, <1>5 DEF ReadsAs

\* What ends in zeros is a multiple of that power of ten.
LEMMA ZerosDivide ==
  ASSUME NEW d \in Nat, NEW r \in Nat, NEW k \in 0..d,
         \A i \in (k + 1)..d : Padded(r, d)[i] = 0
  PROVE  r = Power[d - k] * (r \div Power[d - k])
<1> DEFINE T == {j \in Nat : j <= d - k => r = Power[j] * (r \div Power[j])}
<1>0. k \in Nat /\ d - k \in Nat
  OBVIOUS
<1>1. 0 \in T
  BY PowerType
<1>2. ASSUME NEW j \in T PROVE j + 1 \in T
  <2> SUFFICES ASSUME j + 1 <= d - k PROVE r = Power[j + 1] * (r \div Power[j + 1])
    OBVIOUS
  <2>1. d - j \in (k + 1)..d /\ d - (d - j) = j /\ d - j \in 1..d
    BY <1>0
  <2> DEFINE p == Power[j]
  <2>2. p \in Nat \ {0} /\ Power[j + 1] = 10 * p
    BY PowerType
  <2>3. (r \div p) % 10 = 0
    BY <2>1 DEF Padded
  <2>4. r = p * (r \div p)
    BY <1>0
  <2> HIDE DEF p
  <2> DEFINE v == r \div (10 * p)
  <2>5. r \div p = 10 * v /\ v \in Nat
    <3>1. 10 * p \in Nat \ {0}
      BY <2>2
    <3>2. v \in Nat
      BY <3>1, Divide
    <3>3. r \div p = 10 * (r \div (10 * p)) + ((r \div p) % 10)
      BY <2>2, LastDigit
    <3>4. r \div p = 10 * v + 0
      BY <2>3, <3>3
    <3> HIDE DEF v
    <3> QED
      BY <3>2, <3>4
  <2> HIDE DEF v
  <2>6. p * (10 * v) = (10 * p) * v
    BY <2>2, <2>5
  <2> QED
    BY <2>2, <2>4, <2>5, <2>6 DEF v
<1>3. T = Nat
  <2>1. T \subseteq Nat
    OBVIOUS
  <2> HIDE DEF T
  <2> QED
    BY <1>1, <1>2, <2>1, Induct
<1> QED
  BY <1>0, <1>3

\* The written balance is the raw one divided by 10^decimals, exactly, and in no
\* more digits than it takes.
THEOREM ScaleBalanceIsExact ==
  ASSUME NEW raw \in Nat, NEW d \in Nat
  PROVE  Writes(ScaleBalance(raw, d), raw, d)
<1> DEFINE s == ScaleBalance(raw, d)
           q == raw \div Power[d]
           r == raw % Power[d]
<1>1. CASE d <= 0
  <2>1. d = 0 /\ s = [whole |-> raw, digits |-> <<>>]
    BY <1>1 DEF ScaleBalance
  <2> HIDE DEF s
  <2>2. s.digits = <<>> /\ Len(s.digits) = 0 /\ s.whole = raw /\ s.digits \in Seq(Nat)
    <3>1. s.digits = <<>> /\ s.whole = raw
      BY <2>1
    <3> QED
      BY <3>1
  <2>3. Reading(s)[0] = raw /\ Power[0] = 1
    BY <2>2, ReadingSteps, PowerType
  <2>4. Worth(s, d) = raw
    BY <2>1, <2>2, <2>3 DEF Worth
  <2> QED
    BY <2>1, <2>2, <2>4 DEF Writes, s
<1>2. CASE ~(d <= 0)
  <2>1. s = [whole |-> q, digits |-> TrimRight(Padded(r, d))]
    BY <1>2 DEF ScaleBalance
  <2>2. Power[d] \in Nat \ {0} /\ q \in Nat /\ r \in Nat /\ r < Power[d] /\ raw = Power[d] * q + r
    BY PowerType, Divide
  <2> HIDE DEF q, r
  <2>3. Padded(r, d) \in Seq(Digit) /\ Len(Padded(r, d)) = d
    BY <2>2, PaddedType
  <2>4. PICK k \in 0..d :
          /\ TrimRight(Padded(r, d)) \in Seq(Digit) /\ Len(TrimRight(Padded(r, d))) = k
          /\ \A i \in 1..k : TrimRight(Padded(r, d))[i] = Padded(r, d)[i]
          /\ k # 0 => Padded(r, d)[k] # 0
          /\ \A i \in (k + 1)..d : Padded(r, d)[i] = 0
    BY <2>3, TrimRightKeeps
  <2>5. /\ s.whole = q /\ s.digits \in Seq(Digit) /\ Len(s.digits) = k
        /\ \A i \in 1..k : s.digits[i] = Padded(r, d)[i]
        /\ Prefix(s, q, r, d, k)
    BY <2>1, <2>4 DEF Prefix
  <2> HIDE DEF s
  <2>6. Reading(s)[k] = q * Power[k] + (r \div Power[d - k])
    <3>1. ReadsAs(s, q, r, d, k)
      BY <2>2, <2>5, ReadingPadded
    <3> QED
      BY <3>1 DEF ReadsAs
  <2>7. r = Power[d - k] * (r \div Power[d - k])
    BY <2>2, <2>4, ZerosDivide
  <2>8. k \in Nat /\ d - k \in Nat /\ k + (d - k) = d /\ k <= d
    OBVIOUS
  <2>9. Power[d] = Power[k] * Power[d - k] /\ Power[k] \in Nat /\ Power[d - k] \in Nat \ {0}
    <3>1. Power[k + (d - k)] = Power[k] * Power[d - k]
      BY <2>8, PowerAdds
    <3>2. Power[k] \in Nat /\ Power[d - k] \in Nat \ {0}
      BY <2>8, PowerType
    <3> QED
      BY <2>8, <3>1, <3>2
  <2>10. Worth(s, d) = raw
    <3> DEFINE m == Power[d - k]
               v == r \div m
               u == Power[k]
    <3>1. v \in Nat
      BY <2>2, <2>9, Divide
    <3>2. Worth(s, d) = (q * u + v) * m
      BY <2>5, <2>6 DEF Worth
    <3>3. r = m * v /\ raw = (u * m) * q + r /\ m \in Nat /\ u \in Nat
      BY <2>2, <2>7, <2>9
    <3> HIDE DEF m, v, u
    <3>4. q * u \in Nat /\ m * (q * u) \in Nat /\ (q * u + v) * m = m * (q * u + v)
      BY <2>2, <3>1, <3>3
    <3>5. m * (q * u + v) = m * (q * u) + m * v
      BY <3>1, <3>3, <3>4, Products
    <3>6. m * (q * u) = (u * m) * q
      BY <2>2, <3>3
    <3> QED
      BY <3>2, <3>3, <3>4, <3>5, <3>6
  <2>11. s.digits # <<>> => s.digits[Len(s.digits)] # 0
    <3>1. k = 0 => s.digits = <<>>
      BY <2>5
    <3>2. k # 0 => k \in 1..k
      BY <2>8
    <3> QED
      BY <2>4, <2>5, <3>1, <3>2
  <2> QED
    BY <2>5, <2>8, <2>10, <2>11 DEF Writes, s
<1> QED
  BY <1>1, <1>2
-----------------------------------------------------------------------------
\* The balance of a token is its raw one in its decimals.
Exact(t) == Writes(t.balance, t.raw, t.decimals)

\* What a token was shown or left out for.
Deserved(f, i) ==
  LET a == wallet[f][i].address
  IN /\ answer[f][i] = Dropped
        => a # NativeAddress /\ i \notin approved[f] /\ \E list \in seen[f] : a \notin DOMAIN list.tokens
     /\ answer[f][i] # Dropped
        => a = NativeAddress \/ i \in approved[f] \/ \E list \in seen[f] : a \in DOMAIN list.tokens

ShownExact(f, i) ==
  answer[f][i] # Dropped => Writes(answer[f][i].balance, wallet[f][i].raw, answer[f][i].decimals)

\* The validator is only asked about a token that some list of the request did
\* not have.
AskingOK(f) ==
  asking[f] => /\ AtToken(f) /\ wallet[f][at[f]].address # NativeAddress
               /\ \E list \in seen[f] : wallet[f][at[f]].address \notin DOMAIN list.tokens

\* A request has one result for each token behind it, and knows the current list.
RequestOK(f) ==
  /\ at[f] = 0 => answer[f] = <<>>
  /\ at[f] # 0 => /\ at[f] <= Len(wallet[f]) + 1 /\ Len(answer[f]) = at[f] - 1
                  /\ ~starting /\ holder \in seen[f]
  /\ approved[f] \subseteq 1..(at[f] - 1)
  /\ AskingOK(f)
  /\ \A i \in 1..Len(wallet[f]) : Exact(wallet[f][i])
  /\ \A i \in 1..Len(answer[f]) : Deserved(f, i) /\ ShownExact(f, i)

FilterOK == ServingOK /\ ListTypeOK /\ \A f \in Filter : RequestOK(f)

LEMMA FilterHolds == FilterOK => ListTypeOK /\ ShownWhenListedOrValid /\ BalanceFitsDecimals
<1> SUFFICES ASSUME FilterOK PROVE ShownWhenListedOrValid /\ BalanceFitsDecimals
  BY DEF FilterOK
<1>1. \A f \in Filter : DOMAIN answer[f] = 1..Len(answer[f])
  BY DEF FilterOK, ListTypeOK
<1>2. ASSUME NEW f \in Filter, NEW i \in DOMAIN answer[f] PROVE Deserved(f, i) /\ ShownExact(f, i)
  BY <1>1 DEF FilterOK, RequestOK
<1>3. ShownWhenListedOrValid
  BY <1>2 DEF ShownWhenListedOrValid, Deserved
<1>4. BalanceFitsDecimals
  BY <1>2 DEF BalanceFitsDecimals, ShownExact
<1> QED
  BY <1>3, <1>4

\* A normalized token, and an enriched one, have the balance of their decimals.
LEMMA NormalizeExact ==
  ASSUME NEW t \in Reported
  PROVE  Normalize(t) \in Shown /\ Exact(Normalize(t))
<1>1. t.address \in Address /\ t.raw \in Nat /\ t.decimals \in Nat
  BY DEF Reported
<1>2. ScaleBalance(t.raw, t.decimals) \in Scaled /\ Writes(ScaleBalance(t.raw, t.decimals), t.raw, t.decimals)
  BY <1>1, ScaledType, ScaleBalanceIsExact
<1> QED
  BY <1>1, <1>2 DEF Normalize, Shown, Exact

LEMMA EnrichExact ==
  ASSUME NEW t \in Shown, Exact(t), NEW d \in Nat
  PROVE  Enrich(t, d) \in Shown /\ Exact(Enrich(t, d)) /\ Enrich(t, d).raw = t.raw
<1>1. t.raw \in Nat
  BY DEF Shown
<1>2. ScaleBalance(t.raw, d) \in Scaled /\ Writes(ScaleBalance(t.raw, d), t.raw, d)
  BY <1>1, ScaledType, ScaleBalanceIsExact
<1>3. CASE d > 0 /\ d # t.decimals
  <2>1. Enrich(t, d) = [t EXCEPT !.decimals = d, !.balance = ScaleBalance(t.raw, d)]
    BY <1>3 DEF Enrich
  <2>2. Enrich(t, d) \in Shown
    BY <1>2, <2>1 DEF Shown
  <2>3. Enrich(t, d).raw = t.raw /\ Enrich(t, d).decimals = d /\ Enrich(t, d).balance = ScaleBalance(t.raw, d)
    BY <2>1 DEF Shown
  <2> QED
    BY <1>2, <2>2, <2>3 DEF Exact
<1>4. CASE ~(d > 0 /\ d # t.decimals)
  BY <1>4 DEF Enrich
<1> QED
  BY <1>3, <1>4

LEMMA NoRequestsOK ==
  ASSUME wallet = NoRequests.wallet, at = NoRequests.at, asking = NoRequests.asking,
         answer = NoRequests.answer, seen = NoRequests.seen, approved = NoRequests.approved
  PROVE  /\ wallet \in [Filter -> Seq(Shown)] /\ at \in [Filter -> Nat] /\ asking \in [Filter -> BOOLEAN]
         /\ answer \in [Filter -> Seq(Shown \cup {Dropped})]
         /\ seen \in [Filter -> SUBSET Snapshot] /\ approved \in [Filter -> SUBSET Nat]
         /\ \A f \in Filter : RequestOK(f)
<1>1. \A f \in Filter : /\ wallet[f] = <<>> /\ at[f] = 0 /\ asking[f] = FALSE
                        /\ answer[f] = <<>> /\ seen[f] = {} /\ approved[f] = {}
  BY DEF NoRequests
<1>2. /\ wallet \in [Filter -> Seq(Shown)] /\ at \in [Filter -> Nat] /\ asking \in [Filter -> BOOLEAN]
      /\ answer \in [Filter -> Seq(Shown \cup {Dropped})]
      /\ seen \in [Filter -> SUBSET Snapshot] /\ approved \in [Filter -> SUBSET Nat]
  BY DEF NoRequests
<1>3. ASSUME NEW f \in Filter PROVE RequestOK(f)
  <2>1. Len(wallet[f]) = 0 /\ Len(answer[f]) = 0
    BY <1>1
  <2> QED
    BY <1>1, <2>1 DEF RequestOK, AskingOK
<1> QED
  BY <1>2, <1>3

LEMMA InitFilter == ListInit => FilterOK
<1> SUFFICES ASSUME ListInit PROVE FilterOK
  OBVIOUS
<1>1. /\ wallet \in [Filter -> Seq(Shown)] /\ at \in [Filter -> Nat] /\ asking \in [Filter -> BOOLEAN]
      /\ answer \in [Filter -> Seq(Shown \cup {Dropped})]
      /\ seen \in [Filter -> SUBSET Snapshot] /\ approved \in [Filter -> SUBSET Nat]
      /\ \A f \in Filter : RequestOK(f)
  BY NoRequestsOK DEF ListInit
<1>2. ListTypeOK
  BY <1>1 DEF ListInit, ListTypeOK
<1> QED
  BY <1>1, <1>2, InitServing DEF FilterOK

\* Steps that leave the requests, and the list they use, alone.
LEMMA RequestsUnchanged ==
  ASSUME FilterOK, UNCHANGED <<holder, starting, filtering>>
  PROVE  \A f \in Filter : RequestOK(f)'
  BY DEF FilterOK, RequestOK, AskingOK, AtToken, Deserved, ShownExact, filtering

\* A swap adds the list to those the requests at work have seen.
LEMMA SwapFilter ==
  ASSUME FilterOK, NEW list \in Snapshot, Swap(list)
  PROVE  /\ \A f \in Filter : RequestOK(f)'
         /\ ListTypeOK'
<1>1. /\ UNCHANGED <<postgresList, redisList, fetches, safe, wallet, at, asking, answer, approved>>
      /\ holder' = list /\ starting' = FALSE /\ listPhase' = "ready"
      /\ inHand' = NoList /\ savedPG' = FALSE
      /\ seen' = [f \in Filter |-> IF at[f] = 0 THEN seen[f] ELSE seen[f] \cup {list}]
  BY DEF Swap, disk
<1>2. ASSUME NEW f \in Filter PROVE RequestOK(f)'
  <2>1. RequestOK(f) /\ seen[f] \subseteq seen'[f]
    BY <1>1 DEF FilterOK
  <2>2. at[f] # 0 => list \in seen'[f]
    BY <1>1
  <2>3. AskingOK(f)'
    BY <1>1, <2>1 DEF RequestOK, AskingOK, AtToken
  <2>4. \A i \in 1..Len(answer[f]) : Deserved(f, i)' /\ ShownExact(f, i)'
    BY <1>1, <2>1 DEF RequestOK, Deserved, ShownExact
  <2> QED
    BY <1>1, <2>1, <2>2, <2>3, <2>4 DEF RequestOK
<1>3. seen' \in [Filter -> SUBSET Snapshot]
  BY <1>1 DEF FilterOK, ListTypeOK
<1>4. ListTypeOK'
  BY <1>1, <1>3 DEF FilterOK, ListTypeOK
<1> QED
  BY <1>2, <1>4

\* The refresher's steps.
LEMMA ListStepFilter == FilterOK /\ ListStep => ListTypeOK' /\ \A f \in Filter : RequestOK(f)'
<1> SUFFICES ASSUME FilterOK, ListStep PROVE ListTypeOK' /\ \A f \in Filter : RequestOK(f)'
  OBVIOUS
<1>0. ListTypeOK /\ ServingOK
  BY DEF FilterOK
<1>1. CASE FetchList
  <2>1. inHand' \in Snapshot /\ listPhase' = "savePG"
    <3>1. PICK list \in Lists : inHand' = [tokens |-> list, fetchedAt |-> fetches]
      BY <1>1 DEF FetchList
    <3> QED
      BY <1>0, <1>1, <3>1 DEF FetchList, ListTypeOK, Snapshot
  <2>2. UNCHANGED <<disk, holder, starting, fetches, savedPG, safe, filtering>>
    BY <1>1 DEF FetchList
  <2>3. ListTypeOK'
    BY <1>0, <2>1, <2>2 DEF ListTypeOK, disk, filtering
  <2> QED
    BY <2>2, <2>3, RequestsUnchanged
<1>2. CASE FetchListFails \/ LoadListRedisFails \/ LoadListPGFails
  <2>1. /\ UNCHANGED <<disk, holder, starting, fetches, inHand, savedPG, safe, filtering>>
        /\ listPhase' \in {"loadRedis", "ready", "loadPG", "dead"}
    BY <1>2 DEF FetchListFails, LoadListRedisFails, LoadListPGFails
  <2>2. ListTypeOK'
    BY <1>0, <2>1 DEF ListTypeOK, disk, filtering
  <2> QED
    BY <2>1, <2>2, RequestsUnchanged
<1>3. CASE SaveListPG
  <2>1. /\ UNCHANGED <<redisList, holder, starting, fetches, inHand, safe, filtering>>
        /\ listPhase' = "saveRedis"
        /\ postgresList' \in {inHand, postgresList} /\ savedPG' \in BOOLEAN
    BY <1>0, <1>3 DEF SaveListPG, ListTypeOK
  <2>2. ListTypeOK'
    BY <1>0, <2>1 DEF ListTypeOK, filtering
  <2> QED
    BY <2>1, <2>2, RequestsUnchanged
<1>4. CASE SaveListRedis
  <2>1. /\ UNCHANGED <<postgresList, holder, starting, fetches, inHand, savedPG, filtering>>
        /\ listPhase' = "set"
        /\ redisList' \in {inHand, redisList} /\ safe' \in {safe, fetches}
    BY <1>4 DEF SaveListRedis
  <2>2. ListTypeOK'
    BY <1>0, <2>1 DEF ListTypeOK, filtering
  <2> QED
    BY <2>1, <2>2, RequestsUnchanged
<1>5. CASE SetList
  <2>1. inHand \in Snapshot /\ Swap(inHand)
    BY <1>0, <1>5 DEF SetList, ServingOK, RefreshOK, ListOK
  <2> QED
    BY <2>1, SwapFilter
<1>6. CASE LoadListRedis
  <2>1. redisList \in Snapshot /\ Swap(redisList)
    BY <1>0, <1>6 DEF LoadListRedis, ListTypeOK
  <2> QED
    BY <2>1, SwapFilter
<1>7. CASE LoadListPG
  <2>1. postgresList \in Snapshot /\ Swap(postgresList)
    BY <1>0, <1>7 DEF LoadListPG, ListTypeOK
  <2> QED
    BY <2>1, SwapFilter
<1> QED
  BY <1>1, <1>2, <1>3, <1>4, <1>5, <1>6, <1>7 DEF ListStep

\* A request begins with the balances Alchemy's tokens have in Alchemy's decimals.
LEMMA BeginFilterOK ==
  ASSUME FilterOK, NEW f \in Filter, NEW p \in Portfolios, BeginFilter(f, p)
  PROVE  ListTypeOK' /\ \A g \in Filter : RequestOK(g)'
<1> DEFINE w == [i \in DOMAIN p |-> Normalize(p[i])]
<1>0. ListTypeOK /\ ServingOK /\ RequestOK(f)
  BY DEF FilterOK
<1>1. /\ UNCHANGED <<disk, holder, refresh, safe, asking, answer, approved>>
      /\ at[f] = 0 /\ ~starting
      /\ wallet' = [wallet EXCEPT ![f] = w] /\ at' = [at EXCEPT ![f] = 1]
      /\ seen' = [seen EXCEPT ![f] = {holder}]
  BY DEF BeginFilter
<1>2. p \in Seq(Reported)
  BY TokenListAssumption
<1>3. \A i \in 1..Len(p) : Normalize(p[i]) \in Shown /\ Exact(Normalize(p[i]))
  BY <1>2, NormalizeExact
<1>4. w \in Seq(Shown) /\ Len(w) = Len(p) /\ \A i \in 1..Len(w) : Exact(w[i])
  BY <1>2, <1>3
<1> HIDE DEF w
<1>5. holder \in Snapshot
  BY <1>0, <1>1 DEF ServingOK, HolderOK, ListOK
<1>6. ListTypeOK'
  <2>1. wallet' \in [Filter -> Seq(Shown)] /\ at' \in [Filter -> Nat] /\ seen' \in [Filter -> SUBSET Snapshot]
    BY <1>0, <1>1, <1>4, <1>5 DEF ListTypeOK
  <2> QED
    BY <1>0, <1>1, <2>1 DEF ListTypeOK, disk, refresh
<1>7. RequestOK(f)'
  <2>1. wallet'[f] = w /\ at'[f] = 1 /\ seen'[f] = {holder} /\ answer'[f] = <<>> /\ Len(answer'[f]) = 0
    BY <1>0, <1>1 DEF ListTypeOK, RequestOK
  <2>2. ~asking[f] /\ approved[f] = {}
    <3>1. 1..(0 - 1) = {} /\ ~(0 \in 1..Len(wallet[f]))
      OBVIOUS
    <3> QED
      BY <1>0, <1>1, <3>1 DEF RequestOK, AskingOK, AtToken
  <2>3. Len(w) \in Nat
    BY <1>4
  <2> QED
    BY <1>1, <1>4, <2>1, <2>2, <2>3 DEF RequestOK, AskingOK, refresh
<1>8. ASSUME NEW g \in Filter, g # f PROVE RequestOK(g)'
  <2>1. wallet'[g] = wallet[g] /\ at'[g] = at[g] /\ seen'[g] = seen[g]
    BY <1>0, <1>1, <1>8 DEF ListTypeOK
  <2> QED
    BY <1>1, <2>1 DEF FilterOK, RequestOK, AskingOK, AtToken, Deserved, ShownExact, refresh
<1> QED
  BY <1>6, <1>7, <1>8

\* Settling a token with a result that it deserves.
LEMMA SettleOK ==
  ASSUME FilterOK, NEW f \in Filter, AtToken(f), NEW result \in Shown \cup {Dropped}, Settle(f, result),
         approved' = approved \/ approved' = [approved EXCEPT ![f] = approved[f] \cup {at[f]}],
         result # Dropped => Writes(result.balance, wallet[f][at[f]].raw, result.decimals),
         result = Dropped => /\ approved' = approved /\ wallet[f][at[f]].address # NativeAddress
                             /\ \E list \in seen[f] : wallet[f][at[f]].address \notin DOMAIN list.tokens,
         result # Dropped => \/ wallet[f][at[f]].address = NativeAddress \/ at[f] \in approved'[f]
                             \/ \E list \in seen[f] : wallet[f][at[f]].address \in DOMAIN list.tokens
  PROVE  ListTypeOK' /\ \A g \in Filter : RequestOK(g)'
<1>0. ListTypeOK /\ RequestOK(f)
  BY DEF FilterOK
<1>1. /\ UNCHANGED <<disk, holder, refresh, safe, wallet, seen>>
      /\ answer' = [answer EXCEPT ![f] = Append(answer[f], result)]
      /\ at' = [at EXCEPT ![f] = at[f] + 1]
      /\ asking' = [asking EXCEPT ![f] = FALSE]
  BY DEF Settle
<1>n. PICK n : n = at[f]
  OBVIOUS
<1>2. /\ n \in 1..Len(wallet[f]) /\ n \in Nat /\ n # 0
      /\ answer[f] \in Seq(Shown \cup {Dropped}) /\ Len(answer[f]) = n - 1
      /\ Len(wallet[f]) \in Nat
  BY <1>0, <1>n DEF AtToken, RequestOK, ListTypeOK
<1>3. /\ answer'[f] = Append(answer[f], result) /\ at'[f] = n + 1 /\ asking'[f] = FALSE
      /\ answer'[f] \in Seq(Shown \cup {Dropped}) /\ Len(answer'[f]) = n
      /\ answer'[f][n] = result
      /\ \A i \in 1..(n - 1) : answer'[f][i] = answer[f][i]
  BY <1>0, <1>1, <1>2, <1>n DEF ListTypeOK
<1>4. approved'[f] \in {approved[f], approved[f] \cup {n}} /\ approved[f] \subseteq Nat
  BY <1>0, <1>n DEF ListTypeOK
<1>5. ListTypeOK'
  <2>1. answer' \in [Filter -> Seq(Shown \cup {Dropped})] /\ at' \in [Filter -> Nat] /\ asking' \in [Filter -> BOOLEAN]
    BY <1>0, <1>1, <1>2, <1>3, <1>n DEF ListTypeOK
  <2>2. approved' \in [Filter -> SUBSET Nat]
    <3>1. approved[f] \cup {n} \in SUBSET Nat
      BY <1>2, <1>4
    <3> QED
      BY <1>0, <1>n, <3>1 DEF ListTypeOK
  <2> QED
    BY <1>0, <1>1, <2>1, <2>2 DEF ListTypeOK, disk, refresh
<1>6. approved[f] \subseteq 1..(n - 1) /\ n \notin approved[f]
  BY <1>0, <1>2, <1>n DEF RequestOK
<1>7. ASSUME NEW i \in 1..(n - 1) PROVE Deserved(f, i)' /\ ShownExact(f, i)'
  <2>1. Deserved(f, i) /\ ShownExact(f, i)
    BY <1>0, <1>2 DEF RequestOK
  <2>2. i # n /\ answer'[f][i] = answer[f][i] /\ wallet' = wallet /\ seen' = seen
    BY <1>1, <1>2, <1>3
  <2>3. i \in approved'[f] <=> i \in approved[f]
    BY <1>4, <2>2
  <2> QED
    BY <2>1, <2>2, <2>3 DEF Deserved, ShownExact
<1>8. Deserved(f, n)' /\ ShownExact(f, n)'
  <2>1. wallet' = wallet /\ seen' = seen /\ answer'[f][n] = result
    BY <1>1, <1>3
  <2>2. result = Dropped => n \notin approved'[f]
    BY <1>6
  <2>3. ShownExact(f, n)'
    BY <1>n, <2>1 DEF ShownExact
  <2>4. Deserved(f, n)'
    BY <1>n, <2>1, <2>2 DEF Deserved
  <2> QED
    BY <2>3, <2>4
<1>9. RequestOK(f)'
  <2>1. n + 1 <= Len(wallet[f]) + 1 /\ n = (n + 1) - 1 /\ n + 1 # 0
    BY <1>2
  <2>2. approved'[f] \subseteq 1..((n + 1) - 1)
    BY <1>2, <1>4, <1>6
  <2>3. \A i \in 1..n : i = n \/ i \in 1..(n - 1)
    BY <1>2
  <2>4. ~starting' /\ holder' \in seen'[f]
    BY <1>0, <1>1, <1>2, <1>n DEF RequestOK, refresh
  <2>5. \A i \in 1..Len(answer'[f]) : Deserved(f, i)' /\ ShownExact(f, i)'
    BY <1>3, <1>7, <1>8, <2>3
  <2>6. \A i \in 1..Len(wallet'[f]) : Exact(wallet'[f][i])
    BY <1>0, <1>1 DEF RequestOK
  <2>7. at'[f] # 0 /\ at'[f] <= Len(wallet'[f]) + 1 /\ Len(answer'[f]) = at'[f] - 1
        /\ approved'[f] \subseteq 1..(at'[f] - 1)
    BY <1>1, <1>3, <2>1, <2>2
  <2>8. AskingOK(f)'
    BY <1>3 DEF AskingOK
  <2> QED
    BY <2>4, <2>5, <2>6, <2>7, <2>8 DEF RequestOK
<1>10. ASSUME NEW g \in Filter, g # f PROVE RequestOK(g)'
  <2>1. /\ answer'[g] = answer[g] /\ at'[g] = at[g] /\ asking'[g] = asking[g] /\ approved'[g] = approved[g]
        /\ UNCHANGED <<wallet, seen, holder, starting>>
    BY <1>0, <1>1, <1>10 DEF ListTypeOK, refresh
  <2>2. RequestOK(g)
    BY DEF FilterOK
  <2> QED
    BY <2>1, <2>2 DEF RequestOK, AskingOK, AtToken, Deserved, ShownExact
<1> QED
  BY <1>5, <1>9, <1>10

\* The token at hand, and the list a request uses.
LEMMA AtHand ==
  ASSUME FilterOK, NEW f \in Filter, AtToken(f)
  PROVE  /\ wallet[f][at[f]] \in Shown /\ Exact(wallet[f][at[f]])
         /\ holder \in seen[f] /\ holder # NoList /\ holder.tokens \in Lists
         /\ \A a \in DOMAIN holder.tokens : holder.tokens[a] \in Nat
<1>1. ListTypeOK /\ ServingOK /\ RequestOK(f)
  BY DEF FilterOK
<1>2. at[f] \in 1..Len(wallet[f]) /\ at[f] # 0 /\ wallet[f] \in Seq(Shown)
  BY <1>1 DEF AtToken, ListTypeOK
<1>3. wallet[f][at[f]] \in Shown /\ Exact(wallet[f][at[f]]) /\ holder \in seen[f] /\ ~starting
  BY <1>1, <1>2 DEF RequestOK
<1>4. ListOK(holder)
  BY <1>1, <1>3 DEF ServingOK, HolderOK
<1>5. holder # NoList /\ holder.tokens \in Lists
  BY <1>4, NoListIsNone DEF ListOK, Snapshot
<1>6. \A a \in DOMAIN holder.tokens : holder.tokens[a] \in Nat
  BY <1>5, TokenListAssumption
<1> QED
  BY <1>3, <1>5, <1>6

LEMMA FilterStepOK ==
  ASSUME FilterOK, NEW f \in Filter, FilterStep(f)
  PROVE  ListTypeOK' /\ \A g \in Filter : RequestOK(g)'
<1>0. ListTypeOK /\ RequestOK(f)
  BY DEF FilterOK
<1> DEFINE t == wallet[f][at[f]]
<1>1. CASE FilterToken(f)
  <2> DEFINE listedNow == LookupByAddress(holder, t.address)
             result == IF listedNow THEN Enrich(t, holder.tokens[t.address]) ELSE t
  <2>1. AtToken(f) /\ ~Unlisted(f) /\ Settle(f, result) /\ approved' = approved
    BY <1>1 DEF FilterToken
  <2>2. /\ t \in Shown /\ Exact(t) /\ holder \in seen[f]
        /\ \A a \in DOMAIN holder.tokens : holder.tokens[a] \in Nat
    BY <2>1, AtHand
  <2>3. listedNow => t.address \in DOMAIN holder.tokens
    BY DEF LookupByAddress
  <2>4. t.address = NativeAddress \/ listedNow
    BY <2>1 DEF Unlisted
  <2> HIDE DEF t, listedNow
  <2>5. result \in Shown /\ Exact(result) /\ result.raw = t.raw
    BY <2>2, <2>3, EnrichExact
  <2>6. result # Dropped
    BY <2>5, TokenListAssumption
  <2> HIDE DEF result
  <2>7. Writes(result.balance, t.raw, result.decimals)
    BY <2>5 DEF Exact
  <2>8. t.address = NativeAddress \/ \E list \in seen[f] : t.address \in DOMAIN list.tokens
    BY <2>2, <2>3, <2>4
  <2> QED
    BY <2>1, <2>5, <2>6, <2>7, <2>8, SettleOK DEF t
<1>2. CASE AskValidator(f)
  <2>1. /\ UNCHANGED <<disk, holder, refresh, safe, wallet, at, answer, seen, approved>>
        /\ asking' = [asking EXCEPT ![f] = TRUE] /\ AtToken(f) /\ Unlisted(f)
    BY <1>2 DEF AskValidator
  <2>2. holder \in seen[f] /\ holder # NoList
    BY <2>1, AtHand
  <2>3. AskingOK(f)'
    BY <2>1, <2>2 DEF AskingOK, AtToken, Unlisted, LookupByAddress
  <2>4. ListTypeOK'
    BY <1>0, <2>1 DEF ListTypeOK, disk, refresh
  <2>5. ASSUME NEW g \in Filter PROVE RequestOK(g)'
    <3>1. RequestOK(g) /\ (g # f => asking'[g] = asking[g])
      BY <1>0, <2>1 DEF FilterOK, ListTypeOK
    <3>2. AskingOK(g)'
      BY <2>1, <2>3, <3>1 DEF RequestOK, AskingOK, AtToken
    <3> QED
      BY <2>1, <3>1, <3>2 DEF RequestOK, Deserved, ShownExact, refresh
  <2> QED
    BY <2>4, <2>5
<1>3. CASE Verdict(f)
  <2>1. AtToken(f) /\ asking[f]
    BY <1>3 DEF Verdict
  <2>2. t \in Shown /\ Exact(t)
    BY <2>1, AtHand
  <2>3. t.address # NativeAddress /\ \E list \in seen[f] : t.address \notin DOMAIN list.tokens
    BY <1>0, <2>1 DEF RequestOK, AskingOK
  <2>4. ASSUME NEW d \in ValidDecimals, Settle(f, Enrich(t, d)),
               approved' = [approved EXCEPT ![f] = approved[f] \cup {at[f]}]
        PROVE  ListTypeOK' /\ \A g \in Filter : RequestOK(g)'
    <3>1. d \in Nat
      BY TokenListAssumption
    <3> DEFINE result == Enrich(t, d)
    <3>2. result \in Shown /\ Writes(result.balance, t.raw, result.decimals)
      BY <2>2, <3>1, EnrichExact DEF Exact
    <3>3. result # Dropped /\ at[f] \in approved'[f]
      BY <1>0, <2>4, <3>2, TokenListAssumption DEF ListTypeOK
    <3>4. Settle(f, result)
      BY <2>4
    <3> HIDE DEF result
    <3> QED
      BY <2>1, <2>4, <3>2, <3>3, <3>4, SettleOK
  <2>5. ASSUME Settle(f, Dropped), approved' = approved
        PROVE  ListTypeOK' /\ \A g \in Filter : RequestOK(g)'
    BY <2>1, <2>3, <2>5, SettleOK
  <2> QED
    BY <1>3, <2>4, <2>5 DEF Verdict
<1>4. CASE AnswerWallet(f)
  <2>1. /\ UNCHANGED <<disk, holder, refresh, safe, asking>> /\ at[f] = Len(wallet[f]) + 1
        /\ wallet' = [wallet EXCEPT ![f] = <<>>] /\ at' = [at EXCEPT ![f] = 0]
        /\ answer' = [answer EXCEPT ![f] = <<>>] /\ seen' = [seen EXCEPT ![f] = {}]
        /\ approved' = [approved EXCEPT ![f] = {}]
    BY <1>4 DEF AnswerWallet
  <2>2. ListTypeOK'
    <3>1. /\ wallet' \in [Filter -> Seq(Shown)] /\ at' \in [Filter -> Nat]
          /\ answer' \in [Filter -> Seq(Shown \cup {Dropped})]
          /\ seen' \in [Filter -> SUBSET Snapshot] /\ approved' \in [Filter -> SUBSET Nat]
      BY <1>0, <2>1 DEF ListTypeOK
    <3> QED
      BY <1>0, <2>1, <3>1 DEF ListTypeOK, disk, refresh
  <2>3. RequestOK(f)'
    <3>1. /\ wallet'[f] = <<>> /\ at'[f] = 0 /\ answer'[f] = <<>> /\ approved'[f] = {}
          /\ Len(wallet'[f]) = 0 /\ Len(answer'[f]) = 0
      BY <1>0, <2>1 DEF ListTypeOK
    <3>2. ~asking'[f]
      <4>1. Len(wallet[f]) \in Nat
        BY <1>0 DEF ListTypeOK
      <4>2. ~AtToken(f)
        BY <2>1, <4>1 DEF AtToken
      <4> QED
        BY <1>0, <2>1, <4>2 DEF RequestOK, AskingOK
    <3> QED
      BY <3>1, <3>2 DEF RequestOK, AskingOK
  <2>4. ASSUME NEW g \in Filter, g # f PROVE RequestOK(g)'
    <3>1. /\ wallet'[g] = wallet[g] /\ answer'[g] = answer[g] /\ at'[g] = at[g]
          /\ seen'[g] = seen[g] /\ approved'[g] = approved[g] /\ UNCHANGED <<asking, holder, starting>>
      BY <1>0, <2>1, <2>4 DEF ListTypeOK, refresh
    <3>2. RequestOK(g)
      BY DEF FilterOK
    <3> QED
      BY <3>1, <3>2 DEF RequestOK, AskingOK, AtToken, Deserved, ShownExact
  <2> QED
    BY <2>2, <2>3, <2>4
<1> QED
  BY <1>1, <1>2, <1>3, <1>4 DEF FilterStep

LEMMA FilterNextOK == FilterOK /\ [ListNext]_listVars => FilterOK'
<1> SUFFICES ASSUME FilterOK, [ListNext]_listVars PROVE ListTypeOK' /\ \A f \in Filter : RequestOK(f)'
  BY ServingStep DEF FilterOK
<1>0. ListTypeOK
  BY DEF FilterOK
<1>1. CASE BeginFetch
  <2>1. /\ UNCHANGED <<disk, holder, starting, inHand, savedPG, safe, filtering>>
        /\ listPhase' = "fetch" /\ fetches' = fetches + 1
    BY <1>1 DEF BeginFetch
  <2>2. ListTypeOK'
    BY <1>0, <2>1 DEF ListTypeOK, disk, filtering
  <2> QED
    BY <2>1, <2>2, RequestsUnchanged
<1>2. CASE ListStep
  BY <1>2, ListStepFilter
<1>3. CASE RedisListExpires
  <2>1. UNCHANGED <<postgresList, holder, refresh, safe, filtering>> /\ redisList' = NoList
    BY <1>3 DEF RedisListExpires
  <2>2. ListTypeOK'
    BY <1>0, <2>1 DEF ListTypeOK, refresh, filtering
  <2> QED
    BY <2>1, <2>2, RequestsUnchanged DEF refresh
<1>4. CASE Restart
  <2>1. /\ wallet' = NoRequests.wallet /\ at' = NoRequests.at /\ asking' = NoRequests.asking
        /\ answer' = NoRequests.answer /\ seen' = NoRequests.seen /\ approved' = NoRequests.approved
    BY <1>4 DEF Restart
  <2>2. NoRequests' = NoRequests
    BY DEF NoRequests
  <2>3. /\ wallet' \in [Filter -> Seq(Shown)] /\ at' \in [Filter -> Nat] /\ asking' \in [Filter -> BOOLEAN]
        /\ answer' \in [Filter -> Seq(Shown \cup {Dropped})]
        /\ seen' \in [Filter -> SUBSET Snapshot] /\ approved' \in [Filter -> SUBSET Nat]
        /\ \A f \in Filter : RequestOK(f)'
    <3>1. \A f \in Filter : /\ wallet'[f] = <<>> /\ at'[f] = 0 /\ asking'[f] = FALSE
                            /\ answer'[f] = <<>> /\ seen'[f] = {} /\ approved'[f] = {}
      BY <2>1 DEF NoRequests
    <3>2. /\ wallet' \in [Filter -> Seq(Shown)] /\ at' \in [Filter -> Nat] /\ asking' \in [Filter -> BOOLEAN]
          /\ answer' \in [Filter -> Seq(Shown \cup {Dropped})]
          /\ seen' \in [Filter -> SUBSET Snapshot] /\ approved' \in [Filter -> SUBSET Nat]
      BY <2>1 DEF NoRequests
    <3>3. ASSUME NEW f \in Filter PROVE RequestOK(f)'
      <4>1. Len(wallet'[f]) = 0 /\ Len(answer'[f]) = 0
        BY <3>1
      <4> QED
        BY <3>1, <4>1 DEF RequestOK, AskingOK
    <3> QED
      BY <3>2, <3>3
  <2>4. ListTypeOK'
    <3>1. /\ listPhase' = "fetch" /\ starting' = TRUE /\ fetches' = fetches + 1
          /\ inHand' = NoList /\ savedPG' = FALSE /\ holder' = NoList
          /\ UNCHANGED <<postgresList, redisList, safe>>
      BY <1>4 DEF Restart, disk
    <3>2. {postgresList', redisList', holder', inHand'} \subseteq Snapshot \cup {NoList}
      BY <1>0, <3>1 DEF ListTypeOK
    <3>3. fetches' \in Nat /\ safe' \in Nat
      BY <1>0, <3>1 DEF ListTypeOK
    <3> QED
      BY <2>3, <3>1, <3>2, <3>3, Zenon DEF ListTypeOK
  <2> QED
    BY <2>3, <2>4
<1>5. ASSUME NEW f \in Filter, NEW p \in Portfolios, BeginFilter(f, p)
      PROVE  ListTypeOK' /\ \A g \in Filter : RequestOK(g)'
  BY <1>5, BeginFilterOK
<1>6. ASSUME NEW f \in Filter, FilterStep(f) PROVE ListTypeOK' /\ \A g \in Filter : RequestOK(g)'
  BY <1>6, FilterStepOK
<1>7. CASE UNCHANGED listVars
  <2>1. ListTypeOK'
    BY <1>0, <1>7 DEF ListTypeOK, listVars, disk, refresh, filtering
  <2> QED
    BY <1>7, <2>1, RequestsUnchanged DEF listVars, refresh
<1> QED
  BY <1>1, <1>2, <1>3, <1>4, <1>5, <1>6, <1>7 DEF ListNext

\* The lists, the requests and every balance shown stay within their types.
THEOREM ListTypeCorrect == ListSpec => []ListTypeOK
  BY InitFilter, FilterNextOK, FilterHolds, PTL DEF ListSpec

\* However the list is swapped meanwhile, a token is left out only when some list
\* of the time did not have it and nobody vouched for it.
THEOREM ListHidesNothingListed == ListSpec => []ShownWhenListedOrValid
  BY InitFilter, FilterNextOK, FilterHolds, PTL DEF ListSpec

\* Whoever supplied the decimals, the balance shown is the raw one divided by
\* them, exactly.
THEOREM ListBalancesAreExact == ListSpec => []BalanceFitsDecimals
  BY InitFilter, FilterNextOK, FilterHolds, PTL DEF ListSpec
=============================================================================
