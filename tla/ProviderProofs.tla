--------------------------- MODULE ProviderProofs ---------------------------
(***************************************************************************)
(* The provider clients.  For any number of price batches, any clock the    *)
(* script can read and anything under the key at first: the newest record   *)
(* saved wins, and no batch asks more often than it may.  For any chain and *)
(* any overlapping history requests: a page holds the most recent transfers. *)
(***************************************************************************)
EXTENDS PriceFetch, TransferHistory, CountingLemmas

-----------------------------------------------------------------------------
\* The count of attempts and the pause between two of them.
TriesOK ==
  \A w \in Fetcher :
    /\ pc[w] = "idle" => tries[w] = 0
    /\ pc[w] = "sleep" => tries[w] < MaxTries
    /\ pc[w] = "save" => stamp[w] # 0

FetchOK == PriceTypeOK /\ TriesOK

\* The key holds a record that was written, or one of the leftovers.
LEMMA ScriptChooses ==
  ASSUME NEW old \in Held, NEW n \in 1..Len(Instants)
  PROVE  Saved[old][n] \in {old, Written[n]}
  BY DEF Saved, Script

LEMMA InitFetch == PriceInit => FetchOK
<1> SUFFICES ASSUME PriceInit PROVE FetchOK
  OBVIOUS
<1>1. best \in 0..Len(Instants)
  <2>1. CASE cell \in Leftovers \cup {NoEnvelope}
    BY <2>1, PriceFetchAssumption DEF PriceInit
  <2>2. CASE cell \notin Leftovers \cup {NoEnvelope}
    <3>1. \E n \in 1..Len(Instants) : cell = Written[n]
      BY <2>2 DEF PriceInit, Held
    <3>2. best \in 1..Len(Instants)
      BY <2>2, <3>1 DEF PriceInit
    <3> QED
      BY <3>2, PriceFetchAssumption
  <2> QED
    BY <2>1, <2>2
<1> QED
  BY <1>1, PriceFetchAssumption DEF PriceInit, FetchOK, PriceTypeOK, TriesOK

\* A batch that ends leaves nothing behind.
LEMMA DoneFetch ==
  ASSUME FetchOK, NEW w \in Fetcher, Done(w), UNCHANGED now, cell' \in Held, best' \in 0..Len(Instants)
  PROVE  FetchOK'
  BY PriceFetchAssumption DEF FetchOK, PriceTypeOK, TriesOK, Done

\* An attempt is begun only while one is left.
LEMMA AskFetch ==
  ASSUME FetchOK, NEW w \in Fetcher, pc[w] \in {"idle", "sleep"}, Ask(w),
         UNCHANGED <<now, cell, ctx, stamp, best>>
  PROVE  FetchOK'
<1>1. tries[w] + 1 \in 0..MaxTries
  BY PriceFetchAssumption DEF FetchOK, PriceTypeOK, TriesOK
<1> QED
  BY <1>1 DEF FetchOK, PriceTypeOK, TriesOK, Ask

LEMMA FetchStep == FetchOK /\ [PriceNext]_priceVars => FetchOK'
<1> SUFFICES ASSUME FetchOK, [PriceNext]_priceVars PROVE FetchOK'
  OBVIOUS
<1> USE PriceFetchAssumption
<1>0. cell \in Held /\ best \in 0..Len(Instants)
  BY DEF FetchOK, PriceTypeOK
<1>1. ASSUME NEW w \in Fetcher, BeginPrices(w) PROVE FetchOK'
  BY <1>1, AskFetch DEF BeginPrices
<1>2. ASSUME NEW w \in Fetcher, Answered(w) PROVE FetchOK'
  <2>1. CASE ctx[w] = "live"
    <3>1. pc' = [pc EXCEPT ![w] = "save"] /\ stamp' = [stamp EXCEPT ![w] = now]
          /\ tries' = [tries EXCEPT ![w] = 0] /\ UNCHANGED <<now, cell, ctx, best>>
      BY <1>2, <2>1 DEF Answered
    <3> QED
      BY <3>1 DEF FetchOK, PriceTypeOK, TriesOK
  <2>2. CASE ctx[w] # "live"
    BY <1>0, <1>2, <2>2, DoneFetch DEF Answered
  <2> QED
    BY <2>1, <2>2
<1>3. ASSUME NEW w \in Fetcher, NEW failure \in Failures, CallFails(w, failure) PROVE FetchOK'
  <2>1. CASE ctx[w] = "live" /\ Another(w, failure)
    <3>1. pc' = [pc EXCEPT ![w] = "sleep"] /\ UNCHANGED <<now, cell, ctx, tries, stamp, best>>
      BY <1>3, <2>1, Zenon DEF CallFails
    <3>2. tries[w] < MaxTries
      BY <2>1 DEF Another, FetchOK, PriceTypeOK
    <3> QED
      BY <3>1, <3>2 DEF FetchOK, PriceTypeOK, TriesOK
  <2>2. CASE ~(ctx[w] = "live" /\ Another(w, failure))
    <3>1. Done(w) /\ UNCHANGED <<now, cell, best>>
      BY <1>3, <2>2, Zenon DEF CallFails
    <3> QED
      BY <1>0, <3>1, DoneFetch
  <2> QED
    BY <2>1, <2>2
<1>4. ASSUME NEW w \in Fetcher, Wake(w) PROVE FetchOK'
  BY <1>4, AskFetch DEF Wake
<1>5. ASSUME NEW w \in Fetcher, WakeCancelled(w) \/ SaveLost(w) PROVE FetchOK'
  BY <1>0, <1>5, DoneFetch DEF WakeCancelled, SaveLost
<1>6. ASSUME NEW w \in Fetcher, Save(w) PROVE FetchOK'
  <2>1. stamp[w] \in 1..Len(Instants)
    BY <1>6 DEF Save, FetchOK, PriceTypeOK, TriesOK
  <2>2. cell' \in Held
    BY <1>0, <1>6, <2>1, ScriptChooses DEF Save, Held
  <2>3. best' \in 0..Len(Instants)
    BY <1>0, <1>6, <2>1 DEF Save
  <2> QED
    BY <1>6, <2>2, <2>3, DoneFetch DEF Save
<1>7. ASSUME NEW w \in Fetcher, CancelPrices(w) PROVE FetchOK'
  BY <1>7 DEF CancelPrices, FetchOK, PriceTypeOK, TriesOK
<1>8. CASE EnvelopeExpires
  BY <1>8 DEF EnvelopeExpires, FetchOK, PriceTypeOK, TriesOK, batch, Held
<1>9. CASE ClockTicks
  BY <1>9 DEF ClockTicks, FetchOK, PriceTypeOK, TriesOK, batch
<1>10. CASE UNCHANGED priceVars
  BY <1>10 DEF priceVars, batch, FetchOK, PriceTypeOK, TriesOK
<1> QED
  BY <1>1, <1>2, <1>3, <1>4, <1>5, <1>6, <1>7, <1>8, <1>9, <1>10 DEF PriceNext, PriceStep

\* No batch asks more than MaxTries times, and Redis holds nothing but what was
\* written and what was there.
THEOREM PriceTypeCorrect == PriceSpec => []PriceTypeOK
<1>1. FetchOK => PriceTypeOK
  BY DEF FetchOK
<1> QED
  BY InitFetch, FetchStep, <1>1, PTL DEF PriceSpec
-----------------------------------------------------------------------------
\* Until something is saved the key holds nothing, or what no script trusts.
CellOK ==
  /\ CacheHoldsNewest
  /\ best = 0 => cell \in Leftovers \cup {NoEnvelope}

NewestOK == FetchOK /\ CellOK

LEMMA InitNewest == PriceInit => NewestOK
<1> SUFFICES ASSUME PriceInit PROVE CellOK
  BY InitFetch DEF NewestOK
<1>1. CASE cell \in Leftovers \cup {NoEnvelope}
  BY <1>1 DEF PriceInit, CellOK, CacheHoldsNewest
<1>2. CASE cell \notin Leftovers \cup {NoEnvelope}
  <2>1. \E n \in 1..Len(Instants) : cell = Written[n]
    BY <1>2 DEF PriceInit, Held
  <2>2. cell = Written[best] /\ best \in 1..Len(Instants)
    BY <1>2, <2>1 DEF PriceInit
  <2> QED
    BY <2>2, PriceFetchAssumption DEF CellOK, CacheHoldsNewest
<1> QED
  BY <1>1, <1>2

\* The script keeps what is newer and replaces everything else.
LEMMA ScriptKeepsNewest ==
  ASSUME NewestOK, NEW n \in 1..Len(Instants)
  PROVE  Saved[cell][n] = Written[IF n > best THEN n ELSE best]
<1>1. cell \in Held /\ best \in 0..Len(Instants)
  BY DEF NewestOK, FetchOK, PriceTypeOK
<1>2. Saved[cell][n] = Script(cell, NoEnvelope, Written[n], MarketKey)
  BY <1>1 DEF Saved
<1>3. CASE best = 0
  <2>1. cell = NoEnvelope \/ ~ValidEnvelope(cell, MarketKey)
    BY <1>3, ScriptAssumption DEF NewestOK, CellOK
  <2> QED
    BY <1>2, <1>3, <2>1, PriceFetchAssumption DEF Script
<1>4. CASE best # 0
  <2>1. cell = Written[best] /\ best \in 1..Len(Instants)
    BY <1>1, <1>4, PriceFetchAssumption DEF NewestOK, CellOK, CacheHoldsNewest
  <2>2. cell # NoEnvelope /\ ValidEnvelope(cell, MarketKey)
    BY <2>1, ScriptAssumption
  <2>3. CompareDecimals(Written[n].unixNano, cell.unixNano) = -1 <=> n < best
    BY <2>1, ScriptAssumption
  <2>4. CASE n < best
    BY <1>1, <1>2, <2>1, <2>2, <2>3, <2>4 DEF Script
  <2>5. CASE ~(n < best)
    BY <1>1, <1>2, <2>1, <2>2, <2>3, <2>5 DEF Script
  <2> QED
    BY <2>4, <2>5
<1> QED
  BY <1>3, <1>4

LEMMA NewestStep == NewestOK /\ [PriceNext]_priceVars => NewestOK'
<1> SUFFICES ASSUME NewestOK, [PriceNext]_priceVars PROVE CellOK'
  BY FetchStep DEF NewestOK
<1>1. ASSUME NEW w \in Fetcher, Save(w) PROVE CellOK'
  <2>1. stamp[w] \in 1..Len(Instants) /\ best \in 0..Len(Instants)
    BY <1>1, PriceFetchAssumption DEF Save, NewestOK, FetchOK, PriceTypeOK, TriesOK
  <2>2. best' = IF stamp[w] > best THEN stamp[w] ELSE best
    BY <1>1 DEF Save
  <2>3. cell' = Written[best']
    BY <1>1, <2>1, <2>2, ScriptKeepsNewest DEF Save
  <2> QED
    BY <2>1, <2>2, <2>3 DEF CellOK, CacheHoldsNewest
<1>2. CASE EnvelopeExpires
  BY <1>2 DEF EnvelopeExpires, CellOK, CacheHoldsNewest
<1>3. CASE UNCHANGED <<cell, best>>
  BY <1>3 DEF NewestOK, CellOK, CacheHoldsNewest
<1>4. ASSUME NEW w \in Fetcher, BeginPrices(w) \/ CancelPrices(w) \/ (PriceStep(w) /\ ~Save(w))
      PROVE  UNCHANGED <<cell, best>>
  BY <1>4 DEF BeginPrices, CancelPrices, PriceStep, Answered, CallFails, Wake, WakeCancelled, SaveLost
<1> QED
  BY <1>1, <1>2, <1>3, <1>4 DEF PriceNext, PriceStep, ClockTicks, priceVars

\* Whatever order overlapping saves reach Redis in, and whatever they find there,
\* the newest record is kept.
THEOREM NewestIsKept == PriceSpec => []CacheHoldsNewest
<1>1. NewestOK => CacheHoldsNewest
  BY DEF NewestOK, CellOK
<1> QED
  BY InitNewest, NewestStep, <1>1, PTL DEF PriceSpec
-----------------------------------------------------------------------------
\* t has one member of s for each index in S, in the order that upTo gives them.
ArrangedFrom(s, S, upTo, t, n, from) ==
  /\ from \in [1..n -> S]
  /\ t = [k \in 1..n |-> s[from[k]]]
  /\ \A k, l \in 1..n : k <= l <=> from[k] \in upTo[from[l]]
  /\ \A i \in S : \E k \in 1..n : from[k] = i

LEMMA Arranged ==
  ASSUME NEW s, NEW S, IsFiniteSet(S), NEW upTo, upTo \in [S -> SUBSET S], Chain(S, upTo)
  PROVE  /\ Cardinality(S) \in Nat
         /\ \E from : ArrangedFrom(s, S, upTo, Arrange(s, upTo), Cardinality(S), from)
<1> DEFINE n == Cardinality(S)
           At(k) == CHOOSE i \in S : Cardinality(upTo[i]) = k
           from == [k \in 1..n |-> At(k)]
<1>0. n \in Nat /\ DOMAIN upTo = S
  BY FS_CardinalityType
<1>1. /\ \A i \in S : Cardinality(upTo[i]) \in 1..n
      /\ \A i, j \in S : i \in upTo[j] <=> Cardinality(upTo[i]) <= Cardinality(upTo[j])
      /\ \A i, j \in S : Cardinality(upTo[i]) = Cardinality(upTo[j]) => i = j
      /\ \A k \in 1..n : \E i \in S : Cardinality(upTo[i]) = k
  BY Places
<1>2. \A k \in 1..n : At(k) \in S /\ Cardinality(upTo[At(k)]) = k
  BY <1>1
<1>3. \A i \in S : At(Cardinality(upTo[i])) = i
  BY <1>1, <1>2
<1>4. Arrange(s, upTo) = [k \in 1..n |-> s[At(k)]]
  BY <1>0 DEF Arrange
<1> HIDE DEF At, n
<1>5. from \in [1..n -> S]
  BY <1>2
<1>6. Arrange(s, upTo) = [k \in 1..n |-> s[from[k]]]
  BY <1>4
<1>7. \A k, l \in 1..n : k <= l <=> from[k] \in upTo[from[l]]
  <2> SUFFICES ASSUME NEW k \in 1..n, NEW l \in 1..n PROVE k <= l <=> At(k) \in upTo[At(l)]
    OBVIOUS
  <2> QED
    BY <1>1, <1>2
<1>8. ASSUME NEW i \in S PROVE \E k \in 1..n : from[k] = i
  <2>1. Cardinality(upTo[i]) \in 1..n
    BY <1>1
  <2> QED
    BY <1>3, <2>1
<1> HIDE DEF from
<1>9. ArrangedFrom(s, S, upTo, Arrange(s, upTo), n, from)
  BY <1>5, <1>6, <1>7, <1>8 DEF ArrangedFrom
<1> QED
  BY <1>0, <1>9 DEF n

\* Numbers in their own order.
LEMMA NaturalChain ==
  ASSUME NEW n \in Nat, NEW I, I \subseteq 1..n
  PROVE  /\ IsFiniteSet(I)
         /\ [i \in I |-> {j \in I : j <= i}] \in [I -> SUBSET I]
         /\ Chain(I, [i \in I |-> {j \in I : j <= i}])
<1> DEFINE up == [i \in I |-> {j \in I : j <= i}]
<1>1. IsFiniteSet(I)
  <2>1. IsFiniteSet(1..n)
    <3>1. 1 \in Int /\ n \in Int
      OBVIOUS
    <3> QED
      BY <3>1, FS_Interval
  <2>2. I \in SUBSET (1..n)
    OBVIOUS
  <2> QED
    BY <2>1, <2>2, FS_Subset
<1>2. up \in [I -> SUBSET I] /\ \A i, j \in I : j \in up[i] <=> j <= i
  OBVIOUS
<1>3. \A i \in I : i \in Nat
  OBVIOUS
<1> HIDE DEF up
<1>4. \A i, j, k \in I : i <= i /\ (i <= j \/ j <= i) /\ (i <= j /\ j <= i => i = j) /\ (k <= i /\ i <= j => k <= j)
  BY <1>3
<1>5. \A i, j \in I : i \in up[j] => up[i] \subseteq up[j]
  BY <1>2, <1>4
<1>6. Chain(I, up)
  BY <1>2, <1>4, <1>5 DEF Chain
<1> QED
  BY <1>1, <1>2, <1>6 DEF up

\* The kept members, in the order of s.
KeptFrom(s, I, t, from) ==
  /\ from \in [1..Len(t) -> I]
  /\ \A k \in 1..Len(t) : t[k] = s[from[k]]
  /\ \A k, l \in 1..Len(t) : k <= l <=> from[k] <= from[l]
  /\ \A i \in I : \E k \in 1..Len(t) : from[k] = i

LEMMA Kept ==
  ASSUME NEW T, NEW s \in Seq(T), NEW I, I \subseteq 1..Len(s)
  PROVE  Keep(s, I) \in Seq(T) /\ \E from : KeptFrom(s, I, Keep(s, I), from)
<1> DEFINE up == [i \in I |-> {j \in I : j <= i}]
           n == Cardinality(I)
           t == Keep(s, I)
<1>1. IsFiniteSet(I) /\ up \in [I -> SUBSET I] /\ Chain(I, up)
  <2>1. Len(s) \in Nat
    OBVIOUS
  <2> QED
    BY <2>1, NaturalChain
<1>2. t = Arrange(s, up)
  BY DEF Keep
<1>3. \A i, j \in I : j \in up[i] <=> j <= i
  OBVIOUS
<1> HIDE DEF up, t
<1>4. n \in Nat /\ \E from : ArrangedFrom(s, I, up, t, n, from)
  BY <1>1, <1>2, Arranged DEF n
<1>5. PICK from : ArrangedFrom(s, I, up, t, n, from)
  BY <1>4
<1> HIDE DEF n
<1>6. /\ from \in [1..n -> I] /\ t = [k \in 1..n |-> s[from[k]]]
      /\ \A k, l \in 1..n : k <= l <=> from[k] \in up[from[l]]
      /\ \A i \in I : \E k \in 1..n : from[k] = i
  BY <1>5 DEF ArrangedFrom
<1>7. \A k \in 1..n : from[k] \in I /\ s[from[k]] \in T
  <2> SUFFICES ASSUME NEW k \in 1..n PROVE from[k] \in I /\ s[from[k]] \in T
    OBVIOUS
  <2>1. from[k] \in I
    BY <1>6
  <2>2. from[k] \in 1..Len(s)
    BY <2>1
  <2> QED
    BY <2>1, <2>2
<1>8. t \in Seq(T) /\ Len(t) = n
  <2>1. t \in [1..n -> T]
    BY <1>6, <1>7
  <2> QED
    BY <1>4, <2>1
<1>9. \A k, l \in 1..n : k <= l <=> from[k] <= from[l]
  BY <1>3, <1>6, <1>7
<1>10. KeptFrom(s, I, t, from)
  BY <1>6, <1>8, <1>9 DEF KeptFrom
<1> QED
  BY <1>8, <1>10 DEF t

\* Cutting a page keeps its beginning.
LEMMA NewestCuts ==
  ASSUME NEW T, NEW t \in Seq(T)
  PROVE  /\ Newest(t) \in Seq(T) /\ Len(Newest(t)) <= Limit /\ Len(Newest(t)) <= Len(t)
         /\ \A k \in 1..Len(Newest(t)) : Newest(t)[k] = t[k]
         /\ Len(Newest(t)) = Len(t) \/ Len(Newest(t)) = Limit
<1>0. Limit \in Nat \ {0} /\ Len(t) \in Nat
  BY TransferAssumption
<1>1. CASE Len(t) > Limit
  <2>1. Newest(t) = SubSeq(t, 1, Limit)
    BY <1>1 DEF Newest
  <2>2. SubSeq(t, 1, Limit) \in Seq(T) /\ Len(SubSeq(t, 1, Limit)) = Limit
    BY <1>0, <1>1
  <2>3. \A k \in 1..Limit : SubSeq(t, 1, Limit)[k] = t[k]
    BY <1>0, <1>1
  <2> QED
    BY <1>0, <1>1, <2>1, <2>2, <2>3
<1>2. CASE ~(Len(t) > Limit)
  <2>1. Newest(t) = t
    BY <1>2 DEF Newest
  <2> QED
    BY <1>0, <1>2, <2>1
<1> QED
  BY <1>1, <1>2

\* Of every key the first transfer stays.
OneOfEach(in, d) ==
  /\ d \in Seq(Transfer)
  /\ \A k, l \in 1..Len(d) : k # l => d[k].key # d[l].key
  /\ \A k \in 1..Len(d) : \E i \in 1..Len(in) : d[k] = in[i]
  /\ \A i \in 1..Len(in) : \E k \in 1..Len(d) : d[k].key = in[i].key

LEMMA Deduped ==
  ASSUME NEW in \in Seq(Transfer)
  PROVE  OneOfEach(in, DedupeTransfers(in))
<1> DEFINE d == DedupeTransfers(in)
           I == {i \in DOMAIN in : \A j \in 1..(i - 1) : in[j].key # in[i].key}
<1>0. Len(in) \in Nat /\ DOMAIN in = 1..Len(in)
  OBVIOUS
<1>1. I \subseteq 1..Len(in) /\ d = Keep(in, I)
  BY DEF DedupeTransfers
<1>2. \A i, j \in I : i # j => in[i].key # in[j].key
  <2> SUFFICES ASSUME NEW i \in I, NEW j \in I, i # j, in[i].key = in[j].key PROVE FALSE
    OBVIOUS
  <2>1. i \in Nat /\ j \in Nat /\ i >= 1 /\ j >= 1
    BY <1>0
  <2>2. i \in 1..(j - 1) \/ j \in 1..(i - 1)
    BY <2>1
  <2> QED
    BY <2>2
<1>3. ASSUME NEW i \in 1..Len(in) PROVE \E j \in I : in[j].key = in[i].key
  <2> DEFINE same == {j \in 1..Len(in) : in[j].key = in[i].key}
  <2>1. same \subseteq Nat /\ same # {}
    OBVIOUS
  <2>2. PICK j \in same : \A l \in same : j <= l
    <3> HIDE DEF same
    <3> QED
      BY <2>1, Least
  <2>3. ASSUME NEW l \in 1..(j - 1) PROVE in[l].key # in[j].key
    <3>1. l \in 1..Len(in) /\ ~(j <= l)
      BY <1>0
    <3> QED
      BY <2>2, <3>1
  <2>4. j \in I /\ in[j].key = in[i].key
    BY <1>0, <2>3
  <2> QED
    BY <2>4
<1>10. \A i \in I : i \in Nat /\ i \in 1..Len(in)
  BY <1>0, <1>1
<1> HIDE DEF I, d
<1>4. d \in Seq(Transfer) /\ \E from : KeptFrom(in, I, d, from)
  BY <1>1, Kept
<1>5. PICK from : KeptFrom(in, I, d, from)
  BY <1>4
<1>6. /\ from \in [1..Len(d) -> I] /\ \A k \in 1..Len(d) : d[k] = in[from[k]]
      /\ \A k, l \in 1..Len(d) : k <= l <=> from[k] <= from[l]
      /\ \A i \in I : \E k \in 1..Len(d) : from[k] = i
  BY <1>5 DEF KeptFrom
<1>7. ASSUME NEW k \in 1..Len(d), NEW l \in 1..Len(d), k # l PROVE d[k].key # d[l].key
  <2>0. Len(d) \in Nat
    BY <1>4
  <2>1. from[k] \in I /\ from[l] \in I /\ k \in Nat /\ l \in Nat
    BY <1>6, <2>0
  <2>2. from[k] # from[l]
    <3>1. from[k] \in Nat /\ from[l] \in Nat
      BY <1>10, <2>1
    <3>2. ~(k <= l) \/ ~(l <= k)
      BY <1>7, <2>1
    <3>3. from[k] <= from[k]
      BY <3>1
    <3> QED
      BY <1>6, <3>1, <3>2, <3>3
  <2> QED
    BY <1>2, <1>6, <2>1, <2>2
<1>8. \A k \in 1..Len(d) : \E i \in 1..Len(in) : d[k] = in[i]
  <2> SUFFICES ASSUME NEW k \in 1..Len(d) PROVE \E i \in 1..Len(in) : d[k] = in[i]
    OBVIOUS
  <2>1. from[k] \in I
    BY <1>6
  <2> QED
    BY <1>6, <1>10, <2>1
<1>9. \A i \in 1..Len(in) : \E k \in 1..Len(d) : d[k].key = in[i].key
  <2> SUFFICES ASSUME NEW i \in 1..Len(in) PROVE \E k \in 1..Len(d) : d[k].key = in[i].key
    OBVIOUS
  <2>1. PICK j \in I : in[j].key = in[i].key
    BY <1>3
  <2>2. PICK k \in 1..Len(d) : from[k] = j
    BY <1>6
  <2> QED
    BY <1>6, <2>1, <2>2
<1> QED
  BY <1>4, <1>7, <1>8, <1>9 DEF d, OneOfEach

\* Sorting moves the transfers, none twice, the highest block to the front.
SortedFrom(t, b, from) ==
  /\ from \in [1..Len(b) -> 1..Len(t)]
  /\ \A k \in 1..Len(b) : b[k] = t[from[k]]
  /\ \A k, l \in 1..Len(b) : k # l => from[k] # from[l]
  /\ \A i \in 1..Len(t) : \E k \in 1..Len(b) : from[k] = i

LEMMA Sorted ==
  ASSUME NEW t \in Seq(Transfer)
  PROVE  /\ ByBlock(t) \in Seq(Transfer)
         /\ \A k, l \in 1..Len(ByBlock(t)) : k < l => ByBlock(t)[k].block >= ByBlock(t)[l].block
         /\ \E from : SortedFrom(t, ByBlock(t), from)
<1> DEFINE b == ByBlock(t)
           D == 1..Len(t)
           up == [i \in D |-> {j \in D : \/ t[j].block > t[i].block
                                         \/ t[j].block = t[i].block /\ j <= i}]
           n == Cardinality(D)
<1>0. Len(t) \in Nat /\ DOMAIN t = D /\ IsFiniteSet(D)
  BY FS_Interval
<1>1. b = Arrange(t, up)
  BY <1>0 DEF ByBlock
<1>2. \A i \in D : t[i].block \in Nat /\ t[i] \in Transfer /\ i \in Nat
  <2> SUFFICES ASSUME NEW i \in 1..Len(t) PROVE t[i].block \in Nat /\ t[i] \in Transfer /\ i \in Nat
    OBVIOUS
  <2>1. t[i] \in Transfer
    OBVIOUS
  <2> QED
    BY <1>0, <2>1 DEF Transfer
<1>3. up \in [D -> SUBSET D]
  OBVIOUS
<1>4. \A i, j \in D : j \in up[i] <=> (t[j].block > t[i].block \/ (t[j].block = t[i].block /\ j <= i))
  OBVIOUS
<1> HIDE DEF D, up, n, b
<1>5. Chain(D, up)
  <2>1. \A i, j \in D : /\ i \in up[i]
                        /\ i \in up[j] \/ j \in up[i]
                        /\ i \in up[j] /\ j \in up[i] => i = j
    BY <1>2, <1>4
  <2>2. \A i, j, k \in D : i \in up[j] /\ k \in up[i] => k \in up[j]
    BY <1>2, <1>4
  <2>3. \A i, j \in D : i \in up[j] => up[i] \subseteq up[j]
    BY <1>3, <2>2
  <2> QED
    BY <2>1, <2>3 DEF Chain
<1>6. n \in Nat /\ \E from : ArrangedFrom(t, D, up, b, n, from)
  BY <1>0, <1>1, <1>3, <1>5, Arranged DEF n
<1>7. PICK from : ArrangedFrom(t, D, up, b, n, from)
  BY <1>6
<1>8. /\ from \in [1..n -> D] /\ b = [k \in 1..n |-> t[from[k]]]
      /\ \A k, l \in 1..n : k <= l <=> from[k] \in up[from[l]]
      /\ \A i \in D : \E k \in 1..n : from[k] = i
  BY <1>7 DEF ArrangedFrom
<1>9. b \in Seq(Transfer) /\ Len(b) = n
  <2>1. \A k \in 1..n : from[k] \in D
    BY <1>8
  <2>2. b \in [1..n -> Transfer]
    BY <1>2, <1>8, <2>1
  <2> QED
    BY <1>6, <2>2
<1>10. \A k, l \in 1..n : k < l => b[k].block >= b[l].block
  <2> SUFFICES ASSUME NEW k \in 1..n, NEW l \in 1..n, k < l PROVE t[from[k]].block >= t[from[l]].block
    BY <1>8
  <2>0. k \in Nat /\ l \in Nat /\ k <= l
    BY <1>6
  <2>1. from[k] \in up[from[l]] /\ from[k] \in D /\ from[l] \in D
    BY <1>8, <2>0
  <2>2. t[from[k]].block \in Nat /\ t[from[l]].block \in Nat
    BY <1>2, <2>1
  <2>3. t[from[k]].block > t[from[l]].block \/ t[from[k]].block = t[from[l]].block
    BY <1>4, <2>1
  <2> QED
    BY <2>2, <2>3
<1>11. \A k, l \in 1..n : k # l => from[k] # from[l]
  <2> SUFFICES ASSUME NEW k \in 1..n, NEW l \in 1..n, from[k] = from[l] PROVE k = l
    OBVIOUS
  <2>0. k \in Nat /\ l \in Nat
    BY <1>6
  <2>1. k <= l /\ l <= k
    <3>1. k <= k /\ l <= l
      BY <2>0
    <3> QED
      BY <1>8, <3>1
  <2> QED
    BY <2>0, <2>1
<1>12. SortedFrom(t, b, from)
  <2>1. D = 1..Len(t)
    BY DEF D
  <2> QED
    BY <1>8, <1>9, <1>11, <2>1 DEF SortedFrom
<1> QED
  BY <1>9, <1>10, <1>12 DEF b
-----------------------------------------------------------------------------
\* What a call answers: the latest transfers of ch[1..n] going one way, none left
\* out unless Limit later ones are there.
LatestAt(ch, t, n, direction, at) ==
  /\ at \in [1..Len(t) -> 1..n]
  /\ \A k \in 1..Len(t) : t[k] = ch[at[k]]
  /\ \A k, l \in 1..Len(t) : k < l => at[k] > at[l]
  /\ \A c \in 1..n : ch[c].way \in {direction, "both"} =>
       \/ \E k \in 1..Len(t) : at[k] = c
       \/ Len(t) = Limit /\ \A k \in 1..Len(t) : at[k] > c

Latest(ch, t, n, direction) == t \in Seq(Transfer) /\ \E at : LatestAt(ch, t, n, direction, at)

LEMMA Fetched ==
  ASSUME chain \in Chains, mined \in 0..Len(chain), NEW direction
  PROVE  Latest(chain, FetchTransfers(direction), mined, direction)
<1> DEFINE past == SubSeq(chain, 1, mined)
           latest == Reverse(past)
           I == {i \in DOMAIN latest : latest[i].way \in {direction, "both"}}
           kept == Keep(latest, I)
           t == FetchTransfers(direction)
<1>0. chain \in Seq(Transfer) /\ Len(chain) \in Nat /\ mined \in Nat /\ mined <= Len(chain)
  <2>1. chain \in Seq(Transfer)
    BY TransferAssumption
  <2> QED
    BY <2>1
<1>1. t = Newest(kept)
  BY DEF FetchTransfers
<1>2. past \in Seq(Transfer) /\ Len(past) = mined /\ \A i \in 1..mined : past[i] = chain[i]
  BY <1>0
<1> HIDE DEF past
<1>3. latest = [i \in 1..mined |-> past[(mined - i) + 1]]
  BY <1>2 DEF Reverse
<1> HIDE DEF latest
<1>4. \A i \in 1..mined : /\ (mined - i) + 1 \in 1..mined
                          /\ latest[i] = chain[(mined - i) + 1] /\ latest[i] \in Transfer
  <2> SUFFICES ASSUME NEW i \in 1..mined
               PROVE  /\ (mined - i) + 1 \in 1..mined
                      /\ latest[i] = chain[(mined - i) + 1] /\ latest[i] \in Transfer
    OBVIOUS
  <2>1. (mined - i) + 1 \in 1..mined
    BY <1>0
  <2>2. past[(mined - i) + 1] \in Transfer
    BY <1>2, <2>1
  <2> QED
    BY <1>2, <1>3, <2>1, <2>2
<1>5. latest \in Seq(Transfer) /\ Len(latest) = mined /\ DOMAIN latest = 1..mined
  <2>1. latest \in [1..mined -> Transfer]
    BY <1>3, <1>4
  <2> QED
    BY <1>0, <2>1
<1>6. I \subseteq 1..Len(latest) /\ \A i \in I : i \in 1..mined
  BY <1>5
<1>7. \A c \in 1..mined : chain[c].way \in {direction, "both"} => (mined - c) + 1 \in I
  <2> SUFFICES ASSUME NEW c \in 1..mined, chain[c].way \in {direction, "both"}
               PROVE  (mined - c) + 1 \in I
    OBVIOUS
  <2>1. (mined - c) + 1 \in 1..mined /\ (mined - ((mined - c) + 1)) + 1 = c
    BY <1>0
  <2>2. latest[(mined - c) + 1] = chain[c]
    BY <1>4, <2>1
  <2> QED
    BY <1>5, <2>1, <2>2
<1> HIDE DEF I, kept, t
<1>8. kept \in Seq(Transfer) /\ \E from : KeptFrom(latest, I, kept, from)
  BY <1>5, <1>6, Kept DEF kept
<1>9. PICK from : KeptFrom(latest, I, kept, from)
  BY <1>8
<1>10. /\ from \in [1..Len(kept) -> I] /\ \A k \in 1..Len(kept) : kept[k] = latest[from[k]]
       /\ \A k, l \in 1..Len(kept) : k <= l <=> from[k] <= from[l]
       /\ \A i \in I : \E k \in 1..Len(kept) : from[k] = i
  BY <1>9 DEF KeptFrom
<1>11. /\ t \in Seq(Transfer) /\ Len(t) <= Limit /\ Len(t) <= Len(kept)
       /\ \A k \in 1..Len(t) : t[k] = kept[k]
       /\ Len(t) = Len(kept) \/ Len(t) = Limit
  BY <1>1, <1>8, NewestCuts
<1>12. Len(t) \in Nat /\ Len(kept) \in Nat
  BY <1>8, <1>11
<1>13. \A k \in 1..Len(kept) : from[k] \in 1..mined /\ from[k] \in Nat /\ from[k] <= mined
  <2>1. \A k \in 1..Len(kept) : from[k] \in 1..mined
    BY <1>6, <1>10
  <2> QED
    BY <1>0, <2>1
<1>14. \A k, l \in 1..Len(kept) : k < l => from[k] < from[l]
  <2> SUFFICES ASSUME NEW k \in 1..Len(kept), NEW l \in 1..Len(kept), k < l PROVE from[k] < from[l]
    OBVIOUS
  <2>1. k \in Nat /\ l \in Nat /\ ~(l <= k)
    BY <1>12
  <2>2. ~(from[l] <= from[k])
    BY <1>10, <2>1
  <2> QED
    BY <1>13, <2>2
<1> DEFINE at == [k \in 1..Len(t) |-> (mined - from[k]) + 1]
<1>15. \A k \in 1..Len(t) : k \in 1..Len(kept)
  BY <1>11, <1>12
<1>16. at \in [1..Len(t) -> 1..mined]
  <2> SUFFICES ASSUME NEW k \in 1..Len(t) PROVE (mined - from[k]) + 1 \in 1..mined
    OBVIOUS
  <2>1. from[k] \in 1..mined
    BY <1>13, <1>15
  <2> QED
    BY <1>4, <2>1
<1>17. \A k \in 1..Len(t) : t[k] = chain[at[k]]
  <2> SUFFICES ASSUME NEW k \in 1..Len(t) PROVE t[k] = chain[(mined - from[k]) + 1]
    OBVIOUS
  <2>1. from[k] \in 1..mined /\ t[k] = latest[from[k]]
    BY <1>10, <1>11, <1>13, <1>15
  <2> QED
    BY <1>4, <2>1
<1>18. \A k, l \in 1..Len(t) : k < l => at[k] > at[l]
  <2> SUFFICES ASSUME NEW k \in 1..Len(t), NEW l \in 1..Len(t), k < l
               PROVE  (mined - from[k]) + 1 > (mined - from[l]) + 1
    OBVIOUS
  <2>1. from[k] < from[l] /\ from[k] \in Nat /\ from[l] \in Nat
    BY <1>13, <1>14, <1>15
  <2> QED
    BY <1>0, <2>1
<1>19. ASSUME NEW c \in 1..mined, chain[c].way \in {direction, "both"}
       PROVE  \/ \E k \in 1..Len(t) : at[k] = c
              \/ Len(t) = Limit /\ \A k \in 1..Len(t) : at[k] > c
  <2>1. PICK k \in 1..Len(kept) : from[k] = (mined - c) + 1
    BY <1>7, <1>10, <1>19
  <2>2. CASE k <= Len(t)
    <3>1. k \in 1..Len(t)
      BY <1>12, <2>2
    <3>2. at[k] = c
      BY <1>0, <2>1, <3>1
    <3> QED
      BY <3>1, <3>2
  <2>3. CASE ~(k <= Len(t))
    <3>1. Len(t) = Limit
      BY <1>11, <1>12, <2>3
    <3>2. ASSUME NEW l \in 1..Len(t) PROVE at[l] > c
      <4>1. l < k /\ l \in 1..Len(kept)
        BY <1>12, <1>15, <2>3
      <4>2. from[l] < from[k] /\ from[l] \in Nat
        BY <1>13, <1>14, <4>1
      <4> QED
        BY <1>0, <2>1, <4>2
    <3> QED
      BY <3>1, <3>2
  <2> QED
    BY <2>2, <2>3
<1> HIDE DEF at
<1>20. LatestAt(chain, t, mined, direction, at)
  BY <1>16, <1>17, <1>18, <1>19 DEF LatestAt
<1> QED
  BY <1>11, <1>20 DEF t, Latest

LEMMA Happened ==
  ASSUME NEW ch \in Chains, NEW n \in 0..Len(ch)
  PROVE  /\ n \in Nat
         /\ \A i \in 1..n : ch[i] \in Transfer /\ ch[i].block \in Nat /\ i \in Nat
         /\ \A i, j \in 1..n : i < j => ch[i].block <= ch[j].block
         /\ \A i, j \in 1..n : ch[i].key = ch[j].key => i = j
<1>1. /\ ch \in Seq(Transfer)
      /\ \A i, j \in DOMAIN ch : i < j => ch[i].block <= ch[j].block /\ ch[i].key # ch[j].key
  BY TransferAssumption
<1>2. Len(ch) \in Nat /\ DOMAIN ch = 1..Len(ch) /\ n \in Nat
  BY <1>1
<1>3. \A i \in 1..n : i \in DOMAIN ch /\ i \in Nat
  BY <1>2
<1>4. \A i \in 1..n : ch[i] \in Transfer
  BY <1>1, <1>3
<1>5. \A i \in 1..n : ch[i].block \in Nat
  BY <1>4 DEF Transfer
<1>6. \A i, j \in 1..n : ch[i].key = ch[j].key => i = j
  <2> SUFFICES ASSUME NEW i \in 1..n, NEW j \in 1..n, ch[i].key = ch[j].key PROVE i = j
    OBVIOUS
  <2>1. ~(i < j) /\ ~(j < i)
    BY <1>1, <1>3
  <2> QED
    BY <1>3, <2>1
<1> QED
  BY <1>1, <1>2, <1>3, <1>4, <1>5, <1>6

\* The transfers of ch[1..n] that rank no lower than the i-th.
Above(ch, i, n) == {j \in 1..n : j # i /\ ch[j].block >= ch[i].block}

\* MostRecent, of a chain given as an argument.
Recent(ch, p) ==
  /\ \A k, l \in DOMAIN p.transfers : k < l => /\ p.transfers[k].block >= p.transfers[l].block
                                               /\ p.transfers[k].key # p.transfers[l].key
  /\ \A i \in 1..p.known :
       ch[i] \in Range(p.transfers) \/ Cardinality(Above(ch, i, p.seen)) >= Limit

\* Limit different transfers that outrank one are Limit reasons to leave it out.
LEMMA Outranked ==
  ASSUME NEW ch, NEW n \in Nat, NEW i, NEW at \in [1..Limit -> Above(ch, i, n)],
         \A k, l \in 1..Limit : k # l => at[k] # at[l]
  PROVE  Cardinality(Above(ch, i, n)) >= Limit
<1> DEFINE T == Above(ch, i, n)
<1>1. IsFiniteSet(T)
  <2>1. 1 \in Int /\ n \in Int
    OBVIOUS
  <2>2. IsFiniteSet(1..n)
    BY <2>1, FS_Interval
  <2>3. T \in SUBSET (1..n)
    BY DEF Above
  <2> QED
    BY <2>2, <2>3, FS_Subset
<1>2. IsFiniteSet(1..Limit) /\ Cardinality(1..Limit) = Limit /\ Limit \in Nat
  <2>1. 1 \in Int /\ Limit \in Int /\ Limit \in Nat /\ Limit >= 1
    BY TransferAssumption
  <2>2. /\ IsFiniteSet(1..Limit)
        /\ Cardinality(1..Limit) = IF 1 > Limit THEN 0 ELSE Limit - 1 + 1
    BY <2>1, FS_Interval
  <2> QED
    BY <2>1, <2>2
<1>3. Cardinality(T) \in Nat
  BY <1>1, FS_CardinalityType
<1> HIDE DEF T
<1>4. at \in [1..Limit -> T]
  BY DEF T
<1>5. ~(Cardinality(T) < Cardinality(1..Limit))
  <2> SUFFICES ASSUME Cardinality(T) < Cardinality(1..Limit) PROVE FALSE
    OBVIOUS
  <2>1. \E k, l \in 1..Limit : k # l /\ at[k] = at[l]
    BY <1>1, <1>2, <1>4, FS_PigeonHole
  <2> QED
    BY <2>1
<1> QED
  BY <1>2, <1>3, <1>5 DEF T

\* A transfer that one of the calls asked for is in its answer, or Limit others outrank it.
Accounted(ch, t, n, i) == (\E k \in 1..Len(t) : t[k] = ch[i]) \/ Cardinality(Above(ch, i, n)) >= Limit

LEMMA InTheAnswer ==
  ASSUME NEW ch \in Chains, NEW n \in 0..Len(ch), NEW m \in 0..n, NEW t, NEW direction,
         Latest(ch, t, m, direction), NEW i \in 1..m, ch[i].way \in {direction, "both"}
  PROVE  Accounted(ch, t, n, i)
<1>0. Len(t) \in Nat /\ n \in Nat /\ m \in Nat /\ m <= n /\ i \in Nat
  <2>1. t \in Seq(Transfer)
    BY DEF Latest
  <2>2. n \in Nat
    BY Happened
  <2> QED
    BY <2>1, <2>2
<1>1. PICK at : LatestAt(ch, t, m, direction, at)
  BY DEF Latest
<1>2. /\ at \in [1..Len(t) -> 1..m]
      /\ \A k \in 1..Len(t) : t[k] = ch[at[k]]
      /\ \A k, l \in 1..Len(t) : k < l => at[k] > at[l]
  BY <1>1 DEF LatestAt
<1>3. \/ \E k \in 1..Len(t) : at[k] = i
      \/ Len(t) = Limit /\ \A k \in 1..Len(t) : at[k] > i
  BY <1>1 DEF LatestAt
<1>4. CASE \E k \in 1..Len(t) : at[k] = i
  BY <1>2, <1>4 DEF Accounted
<1>5. CASE Len(t) = Limit /\ \A k \in 1..Len(t) : at[k] > i
  <2>1. ASSUME NEW k \in 1..Limit PROVE at[k] \in Above(ch, i, n)
    <3>1. at[k] \in 1..m /\ at[k] > i
      BY <1>2, <1>5
    <3>2. at[k] \in 1..n /\ i \in 1..n /\ i < at[k] /\ at[k] # i
      BY <1>0, <3>1
    <3>3. /\ ch[i].block \in Nat /\ ch[at[k]].block \in Nat
          /\ ch[i].block <= ch[at[k]].block
      BY <3>2, Happened
    <3> QED
      BY <3>2, <3>3 DEF Above
  <2>2. at \in [1..Limit -> Above(ch, i, n)]
    BY <1>2, <1>5, <2>1
  <2>3. ASSUME NEW k \in 1..Limit, NEW l \in 1..Limit, k # l PROVE at[k] # at[l]
    <3>1. k < l \/ l < k
      BY <1>0, <1>5, <2>3
    <3>2. at[k] \in Nat /\ at[l] \in Nat
      BY <1>0, <1>2, <1>5
    <3>3. at[k] > at[l] \/ at[l] > at[k]
      BY <1>2, <1>5, <3>1
    <3> QED
      BY <3>2, <3>3
  <2> QED
    BY <1>0, <2>2, <2>3, Outranked DEF Accounted
<1> QED
  BY <1>3, <1>4, <1>5

\* Merging the two answers gives a page of the most recent transfers, although the
\* chain grew between them: m transfers had happened at the first call, n at the second.
LEMMA Merged ==
  ASSUME NEW ch \in Chains, NEW n \in 0..Len(ch), NEW m \in 0..n, NEW out, NEW in,
         Latest(ch, out, m, "fromAddress"), Latest(ch, in, n, "toAddress")
  PROVE  /\ Merge(out, in) \in Seq(Transfer) /\ Len(Merge(out, in)) <= Limit
         /\ Recent(ch, [transfers |-> Merge(out, in), known |-> m, seen |-> n])
<1> DEFINE both == out \o in
           d == DedupeTransfers(both)
           b == ByBlock(d)
           t == Merge(out, in)
<1>1. n \in Nat /\ m \in Nat /\ m <= n
  BY Happened
<1>2. /\ out \in Seq(Transfer) /\ \A k \in 1..Len(out) : \E c \in 1..n : out[k] = ch[c]
      /\ in \in Seq(Transfer) /\ \A k \in 1..Len(in) : \E c \in 1..n : in[k] = ch[c]
  <2>1. out \in Seq(Transfer) /\ in \in Seq(Transfer)
    BY DEF Latest
  <2>2. PICK at : LatestAt(ch, out, m, "fromAddress", at)
    BY DEF Latest
  <2>3. PICK to : LatestAt(ch, in, n, "toAddress", to)
    BY DEF Latest
  <2>4. ASSUME NEW k \in 1..Len(out) PROVE \E c \in 1..n : out[k] = ch[c]
    <3>1. at[k] \in 1..m /\ out[k] = ch[at[k]]
      BY <2>2 DEF LatestAt
    <3>2. at[k] \in 1..n
      BY <1>1, <3>1
    <3> QED
      BY <3>1, <3>2
  <2>5. ASSUME NEW k \in 1..Len(in) PROVE \E c \in 1..n : in[k] = ch[c]
    <3>1. to[k] \in 1..n /\ in[k] = ch[to[k]]
      BY <2>3 DEF LatestAt
    <3> QED
      BY <3>1
  <2> QED
    BY <2>1, <2>4, <2>5
<1>3. /\ both \in Seq(Transfer) /\ Len(both) = Len(out) + Len(in)
      /\ \A k \in 1..Len(out) : k \in 1..Len(both) /\ both[k] = out[k]
      /\ \A k \in 1..Len(in) : Len(out) + k \in 1..Len(both) /\ both[Len(out) + k] = in[k]
      /\ \A k \in 1..Len(both) : k \in 1..Len(out) \/ k - Len(out) \in 1..Len(in)
      /\ \A k \in 1..Len(both) : k - Len(out) \in 1..Len(in) => both[k] = in[k - Len(out)]
  BY <1>2
<1> HIDE DEF both
<1>4. \A k \in 1..Len(both) : \E c \in 1..n : both[k] = ch[c]
  <2> SUFFICES ASSUME NEW k \in 1..Len(both) PROVE \E c \in 1..n : both[k] = ch[c]
    OBVIOUS
  <2>1. CASE k \in 1..Len(out)
    <3>1. both[k] = out[k]
      BY <1>3, <2>1
    <3> QED
      BY <1>2, <2>1, <3>1
  <2>2. CASE k - Len(out) \in 1..Len(in)
    <3>1. both[k] = in[k - Len(out)]
      BY <1>3, <2>2
    <3> QED
      BY <1>2, <2>2, <3>1
  <2> QED
    BY <1>3, <2>1, <2>2
<1>5. OneOfEach(both, d)
  BY <1>3, Deduped
<1> HIDE DEF d
<1>6. /\ d \in Seq(Transfer)
      /\ \A k, l \in 1..Len(d) : k # l => d[k].key # d[l].key
      /\ \A k \in 1..Len(d) : \E j \in 1..Len(both) : d[k] = both[j]
      /\ \A j \in 1..Len(both) : \E k \in 1..Len(d) : d[k].key = both[j].key
  BY <1>5 DEF OneOfEach
<1>7. \A k \in 1..Len(d) : \E c \in 1..n : d[k] = ch[c]
  <2> SUFFICES ASSUME NEW k \in 1..Len(d) PROVE \E c \in 1..n : d[k] = ch[c]
    OBVIOUS
  <2>1. PICK j \in 1..Len(both) : d[k] = both[j]
    BY <1>6
  <2> QED
    BY <1>4, <2>1
<1>8. /\ b \in Seq(Transfer)
      /\ \A k, l \in 1..Len(b) : k < l => b[k].block >= b[l].block
      /\ \E from : SortedFrom(d, b, from)
  BY <1>6, Sorted
<1> HIDE DEF b
<1>9. PICK from : SortedFrom(d, b, from)
  BY <1>8
<1>10. /\ from \in [1..Len(b) -> 1..Len(d)]
       /\ \A k \in 1..Len(b) : b[k] = d[from[k]]
       /\ \A k, l \in 1..Len(b) : k # l => from[k] # from[l]
       /\ \A j \in 1..Len(d) : \E k \in 1..Len(b) : from[k] = j
  BY <1>9 DEF SortedFrom
<1>11. \A k \in 1..Len(b) : \E c \in 1..n : b[k] = ch[c]
  <2> SUFFICES ASSUME NEW k \in 1..Len(b) PROVE \E c \in 1..n : b[k] = ch[c]
    OBVIOUS
  <2>1. from[k] \in 1..Len(d) /\ b[k] = d[from[k]]
    BY <1>10
  <2> QED
    BY <1>7, <2>1
<1>12. \A k, l \in 1..Len(b) : k # l => b[k].key # b[l].key
  <2> SUFFICES ASSUME NEW k \in 1..Len(b), NEW l \in 1..Len(b), k # l PROVE b[k].key # b[l].key
    OBVIOUS
  <2>1. /\ from[k] \in 1..Len(d) /\ b[k] = d[from[k]]
        /\ from[l] \in 1..Len(d) /\ b[l] = d[from[l]] /\ from[k] # from[l]
    BY <1>10
  <2> QED
    BY <1>6, <2>1
<1>13. t = Newest(b)
  BY DEF Merge, b, d, both
<1> HIDE DEF t
<1>14. /\ t \in Seq(Transfer) /\ Len(t) <= Limit /\ Len(t) <= Len(b)
       /\ \A k \in 1..Len(t) : t[k] = b[k]
       /\ Len(t) = Len(b) \/ Len(t) = Limit
  BY <1>8, <1>13, NewestCuts
<1>15. /\ Len(t) \in Nat /\ Len(b) \in Nat /\ DOMAIN t = 1..Len(t)
       /\ \A k \in 1..Len(t) : k \in 1..Len(b)
  BY <1>8, <1>14
<1>16. \A k, l \in DOMAIN t : k < l => t[k].block >= t[l].block /\ t[k].key # t[l].key
  <2> SUFFICES ASSUME NEW k \in 1..Len(t), NEW l \in 1..Len(t), k < l
               PROVE  t[k].block >= t[l].block /\ t[k].key # t[l].key
    BY <1>15
  <2>1. k \in 1..Len(b) /\ l \in 1..Len(b) /\ k # l
    BY <1>15
  <2>2. b[k].block >= b[l].block /\ b[k].key # b[l].key
    BY <1>8, <1>12, <2>1
  <2> QED
    BY <1>14, <2>2
<1>17. ASSUME NEW i \in 1..m
       PROVE  ch[i] \in Range(t) \/ Cardinality(Above(ch, i, n)) >= Limit
  <2>1. i \in 1..n
    BY <1>1
  <2>2. (\E j \in 1..Len(both) : both[j] = ch[i]) \/ Cardinality(Above(ch, i, n)) >= Limit
    <3>1. ch[i].way \in {"fromAddress", "both"} \/ ch[i].way \in {"toAddress", "both"}
      <4>1. ch[i] \in Transfer
        BY <2>1, Happened
      <4> QED
        BY <4>1 DEF Transfer
    <3>2. CASE ch[i].way \in {"fromAddress", "both"}
      <4>1. Accounted(ch, out, n, i)
        BY <3>2, InTheAnswer
      <4> QED
        BY <1>3, <4>1 DEF Accounted
    <3>3. CASE ch[i].way \in {"toAddress", "both"}
      <4>1. n \in 0..n
        BY <1>1
      <4>2. Accounted(ch, in, n, i)
        BY <2>1, <3>3, <4>1, InTheAnswer
      <4> QED
        BY <1>3, <4>2 DEF Accounted
    <3> QED
      BY <3>1, <3>2, <3>3
  <2>3. CASE \E j \in 1..Len(both) : both[j] = ch[i]
    <3>1. PICK j \in 1..Len(both) : both[j] = ch[i]
      BY <2>3
    <3>2. PICK k \in 1..Len(d) : d[k].key = both[j].key
      BY <1>6
    <3>3. d[k] = ch[i]
      <4>1. PICK c \in 1..n : d[k] = ch[c]
        BY <1>7
      <4>2. c = i
        BY <2>1, <3>1, <3>2, <4>1, Happened
      <4> QED
        BY <4>1, <4>2
    <3>4. PICK q \in 1..Len(b) : from[q] = k
      BY <1>10
    <3>5. b[q] = ch[i] /\ q \in Nat
      BY <1>10, <1>15, <3>3, <3>4
    <3>6. CASE q <= Len(t)
      <4>1. q \in DOMAIN t /\ t[q] = ch[i]
        BY <1>14, <1>15, <3>5, <3>6
      <4> QED
        BY <4>1 DEF Range
    <3>7. CASE ~(q <= Len(t))
      <4>1. Len(t) = Limit /\ \A k1 \in 1..Limit : k1 \in 1..Len(b) /\ k1 < q /\ k1 # q
        BY <1>14, <1>15, <3>5, <3>7
      <4> DEFINE at == [k1 \in 1..Limit |-> CHOOSE c \in 1..n : b[k1] = ch[c]]
      <4>2. \A k1 \in 1..Limit : at[k1] \in 1..n /\ b[k1] = ch[at[k1]]
        BY <1>11, <4>1
      <4>3. at \in [1..Limit -> 1..n]
        BY <4>2
      <4> HIDE DEF at
      <4>4. ASSUME NEW k1 \in 1..Limit PROVE at[k1] \in Above(ch, i, n)
        <5>1. b[k1].block >= b[q].block /\ b[k1].key # b[q].key
          BY <1>8, <1>12, <4>1
        <5>2. at[k1] # i
          BY <3>5, <4>2, <5>1
        <5> QED
          BY <3>5, <4>2, <5>1, <5>2 DEF Above
      <4>5. at \in [1..Limit -> Above(ch, i, n)]
        BY <4>3, <4>4
      <4>6. ASSUME NEW k1 \in 1..Limit, NEW l1 \in 1..Limit, k1 # l1 PROVE at[k1] # at[l1]
        <5>1. b[k1].key # b[l1].key
          BY <1>12, <4>1, <4>6
        <5> QED
          BY <4>2, <5>1
      <4> QED
        BY <1>1, <4>5, <4>6, Outranked
    <3> QED
      BY <3>6, <3>7
  <2> QED
    BY <2>2, <2>3
<1>18. Recent(ch, [transfers |-> t, known |-> m, seen |-> n])
  BY <1>16, <1>17 DEF Recent
<1> QED
  BY <1>14, <1>18 DEF t
-----------------------------------------------------------------------------
\* A finished page is one that may be answered and cached.
PageOK(ch, p) == p \in Page /\ Len(p.transfers) <= Limit /\ Recent(ch, p)

\* What a request has at each call: after the first, the latest outgoing transfers.
CallOK(ch, n, s, p) ==
  /\ s \in {"idle", "outgoing"} => p = NoPage
  /\ s = "incoming" => /\ p \in Page /\ p.known = p.seen /\ p.known \in 0..n
                       /\ Latest(ch, p.transfers, p.known, "fromAddress")
  /\ s \in {"save", "answer"} => PageOK(ch, p)

RowOK(ch, p, young) ==
  /\ p = NoPage \/ PageOK(ch, p)
  /\ young \in BOOLEAN /\ (young => p # NoPage)

HistoryOK ==
  /\ chain \in Chains /\ mined \in 0..Len(chain)
  /\ RowOK(chain, row, fresh)
  /\ step \in [Request -> {"idle", "outgoing", "incoming", "save", "answer"}]
  /\ paged \in [Request -> BOOLEAN]
  /\ page \in [Request -> Page \cup {NoPage}]
  /\ \A r \in Request : CallOK(chain, mined, step[r], page[r])

LEMMA InitHistory == TransferInit => HistoryOK
<1> SUFFICES ASSUME TransferInit PROVE HistoryOK
  OBVIOUS
<1>1. \A r \in Request : CallOK(chain, mined, step[r], page[r])
  BY DEF TransferInit, CallOK
<1> QED
  BY <1>1 DEF TransferInit, HistoryOK, RowOK

\* A step of r's request alone: what it has is in order, and so is the row.
Moves(r, s, p) ==
  /\ s \in {"idle", "outgoing", "incoming", "save", "answer"} /\ p \in Page \cup {NoPage}
  /\ CallOK(chain, mined, s, p)
  /\ step' = [step EXCEPT ![r] = s] /\ page' = [page EXCEPT ![r] = p]
  /\ paged' \in [Request -> BOOLEAN] /\ chain' = chain /\ mined' = mined
  /\ RowOK(chain, row', fresh')

LEMMA RequestSteps ==
  ASSUME HistoryOK, NEW r \in Request, NEW s, NEW p, Moves(r, s, p)
  PROVE  HistoryOK'
<1>0. /\ CallOK(chain, mined, s, p)
      /\ s \in {"idle", "outgoing", "incoming", "save", "answer"} /\ p \in Page \cup {NoPage}
      /\ step' = [step EXCEPT ![r] = s] /\ page' = [page EXCEPT ![r] = p]
      /\ paged' \in [Request -> BOOLEAN] /\ chain' = chain /\ mined' = mined
      /\ RowOK(chain, row', fresh')
  BY DEF Moves
<1>1. /\ step' \in [Request -> {"idle", "outgoing", "incoming", "save", "answer"}]
      /\ page' \in [Request -> Page \cup {NoPage}]
  BY <1>0 DEF HistoryOK
<1>2. ASSUME NEW q \in Request PROVE CallOK(chain', mined', step'[q], page'[q])
  <2>1. CASE q = r
    <3>1. step'[q] = s /\ page'[q] = p
      BY <1>0, <2>1 DEF HistoryOK
    <3> QED
      BY <1>0, <3>1
  <2>2. CASE q # r
    <3>1. step'[q] = step[q] /\ page'[q] = page[q]
      BY <1>0, <2>2 DEF HistoryOK
    <3>2. CallOK(chain, mined, step[q], page[q])
      BY DEF HistoryOK
    <3> QED
      BY <1>0, <3>1, <3>2
  <2> QED
    BY <2>1, <2>2
<1>3. chain' \in Chains /\ mined' \in 0..Len(chain')
  BY <1>0 DEF HistoryOK
<1>4. RowOK(chain', row', fresh')
  BY <1>0
<1> QED
  BY <1>0, <1>1, <1>2, <1>3, <1>4 DEF HistoryOK

LEMMA LaterCall ==
  ASSUME NEW a, NEW b, NEW c, NEW d
  PROVE  [[transfers |-> a, known |-> b, seen |-> c] EXCEPT !.seen = d]
           = [transfers |-> a, known |-> b, seen |-> d]
OBVIOUS

LEMMA HistoryStep == HistoryOK /\ [TransferNext]_transferVars => HistoryOK'
<1> SUFFICES ASSUME HistoryOK, [TransferNext]_transferVars PROVE HistoryOK'
  OBVIOUS
<1>0. /\ chain \in Chains /\ mined \in 0..Len(chain)
      /\ RowOK(chain, row, fresh)
      /\ step \in [Request -> {"idle", "outgoing", "incoming", "save", "answer"}]
      /\ paged \in [Request -> BOOLEAN]
      /\ page \in [Request -> Page \cup {NoPage}]
      /\ \A r \in Request : CallOK(chain, mined, step[r], page[r])
  BY DEF HistoryOK
<1>1. mined \in Nat /\ Len(chain) \in Nat
  <2>1. chain \in Seq(Transfer)
    BY <1>0, TransferAssumption
  <2> QED
    BY <1>0, <2>1
<1>a. ASSUME UNCHANGED <<chain, mined, row, fresh>>
      PROVE  chain' = chain /\ mined' = mined /\ RowOK(chain, row', fresh')
  BY <1>0, <1>a
<1>2. ASSUME NEW r \in Request, NEW withKey \in BOOLEAN, BeginTransactions(r, withKey)
      PROVE  HistoryOK'
  <2>0. UNCHANGED <<chain, mined, row, fresh>>
    BY <1>2 DEF BeginTransactions
  <2>1. /\ paged' \in [Request -> BOOLEAN]
        /\ chain' = chain /\ mined' = mined /\ RowOK(chain, row', fresh')
    BY <1>0, <1>2, <1>a, <2>0 DEF BeginTransactions
  <2>2. CASE fresh /\ ~withKey
    <3>1. step' = [step EXCEPT ![r] = "answer"] /\ page' = [page EXCEPT ![r] = row]
      BY <1>2, <2>2 DEF BeginTransactions
    <3>2. PageOK(chain, row) /\ row \in Page
      BY <1>0, <2>2 DEF PageOK, RowOK
    <3>3. CallOK(chain, mined, "answer", row)
      BY <3>2 DEF CallOK
    <3>4. Moves(r, "answer", row)
      BY <2>1, <3>1, <3>2, <3>3 DEF Moves
    <3> QED
      BY <3>4, RequestSteps
  <2>3. CASE ~(fresh /\ ~withKey)
    <3>1. step' = [step EXCEPT ![r] = "outgoing"] /\ page' = [page EXCEPT ![r] = NoPage]
      BY <1>2, <2>3 DEF BeginTransactions
    <3>2. CallOK(chain, mined, "outgoing", NoPage)
      BY DEF CallOK
    <3>3. Moves(r, "outgoing", NoPage)
      BY <2>1, <3>1, <3>2 DEF Moves
    <3> QED
      BY <3>3, RequestSteps
  <2> QED
    BY <2>2, <2>3
<1>3. ASSUME NEW r \in Request, FetchOutgoing(r) PROVE HistoryOK'
  <2> DEFINE t == FetchTransfers("fromAddress")
             p == [transfers |-> t, known |-> mined, seen |-> mined]
  <2>1. /\ step' = [step EXCEPT ![r] = "incoming"] /\ page' = [page EXCEPT ![r] = p]
        /\ paged' = paged /\ UNCHANGED <<chain, mined, row, fresh>>
    BY <1>3 DEF FetchOutgoing
  <2>2. Latest(chain, t, mined, "fromAddress") /\ t \in Seq(Transfer)
    <3>1. Latest(chain, t, mined, "fromAddress")
      BY <1>0, Fetched
    <3> QED
      BY <3>1 DEF Latest
  <2> HIDE DEF t
  <2>3. p \in Page /\ p.transfers = t /\ p.known = mined /\ p.seen = mined
    BY <1>1, <2>2 DEF Page
  <2> HIDE DEF p
  <2>4. mined \in 0..mined
    BY <1>1
  <2>5. CallOK(chain, mined, "incoming", p)
    BY <2>2, <2>3, <2>4 DEF CallOK
  <2>6. /\ chain' = chain /\ mined' = mined /\ RowOK(chain, row', fresh')
        /\ paged' \in [Request -> BOOLEAN]
    BY <1>0, <1>a, <2>1
  <2>7. Moves(r, "incoming", p)
    BY <2>1, <2>3, <2>5, <2>6 DEF Moves
  <2> QED
    BY <2>7, RequestSteps
<1>4. ASSUME NEW r \in Request, FetchIncoming(r) PROVE HistoryOK'
  <2> DEFINE t == Merge(page[r].transfers, FetchTransfers("toAddress"))
             p == [transfers |-> t, known |-> page[r].known, seen |-> mined]
  <2>1. /\ page[r] \in Page /\ page[r].known \in 0..mined
        /\ Latest(chain, page[r].transfers, page[r].known, "fromAddress")
    <3>1. step[r] = "incoming" /\ CallOK(chain, mined, step[r], page[r])
      BY <1>0, <1>4 DEF FetchIncoming
    <3> QED
      BY <3>1 DEF CallOK
  <2>2. Latest(chain, FetchTransfers("toAddress"), mined, "toAddress")
    BY <1>0, Fetched
  <2>3. t \in Seq(Transfer) /\ Len(t) <= Limit /\ Recent(chain, p)
    BY <1>0, <2>1, <2>2, Merged
  <2>4. page' = [page EXCEPT ![r] = p]
    <3>1. page' = [page EXCEPT ![r].transfers = t, ![r].seen = mined]
      BY <1>4 DEF FetchIncoming
    <3> HIDE DEF t
    <3>2. [[page[r] EXCEPT !.transfers = t] EXCEPT !.seen = mined] = p
      <4>1. PICK x \in Page : x = page[r]
        BY <2>1
      <4>2. [x EXCEPT !.transfers = t] = [transfers |-> t, known |-> x.known, seen |-> x.seen]
        BY DEF Page
      <4>3. [[transfers |-> t, known |-> x.known, seen |-> x.seen] EXCEPT !.seen = mined]
              = [transfers |-> t, known |-> x.known, seen |-> mined]
        BY LaterCall
      <4> QED
        BY <4>1, <4>2, <4>3
    <3> QED
      BY <1>0, <3>1, <3>2
  <2>5. PageOK(chain, p) /\ p \in Page
    <3> HIDE DEF t
    <3>1. p \in Page /\ p.transfers = t
      BY <1>1, <2>1, <2>3 DEF Page
    <3> QED
      BY <2>3, <3>1 DEF PageOK
  <2> HIDE DEF p, t
  <2>6. /\ chain' = chain /\ mined' = mined /\ RowOK(chain, row', fresh')
        /\ paged' \in [Request -> BOOLEAN]
    BY <1>0, <1>4, <1>a DEF FetchIncoming
  <2>7. PICK s \in {"save", "answer"} : step' = [step EXCEPT ![r] = s]
    BY <1>4 DEF FetchIncoming
  <2>8. CallOK(chain, mined, s, p)
    BY <2>5 DEF CallOK
  <2>9. Moves(r, s, p)
    BY <2>4, <2>5, <2>6, <2>7, <2>8 DEF Moves
  <2> QED
    BY <2>9, RequestSteps
<1>5. ASSUME NEW r \in Request, step[r] = "save" PROVE PageOK(chain, page[r]) /\ page[r] # NoPage
  <2>1. CallOK(chain, mined, step[r], page[r])
    BY <1>0
  <2>2. PageOK(chain, page[r])
    BY <1>5, <2>1 DEF CallOK
  <2> QED
    BY <2>2, TransferAssumption DEF PageOK
<1>6. ASSUME NEW r \in Request, SaveTransactions(r) PROVE HistoryOK'
  <2>1. /\ row' = page[r] /\ fresh' = TRUE /\ step' = [step EXCEPT ![r] = "answer"]
        /\ UNCHANGED <<chain, mined, paged, page>>
    BY <1>6 DEF SaveTransactions
  <2>2. PageOK(chain, page[r]) /\ page[r] # NoPage
    BY <1>5, <1>6 DEF SaveTransactions
  <2>3. CallOK(chain, mined, "answer", page[r])
    BY <2>2 DEF CallOK
  <2>4. page' = [page EXCEPT ![r] = page[r]] /\ page[r] \in Page \cup {NoPage}
    BY <1>0, <2>1
  <2>5. RowOK(chain, row', fresh') /\ paged' \in [Request -> BOOLEAN]
    BY <1>0, <2>1, <2>2 DEF RowOK
  <2>6. Moves(r, "answer", page[r])
    BY <2>1, <2>3, <2>4, <2>5 DEF Moves
  <2> QED
    BY <2>6, RequestSteps
<1>7. ASSUME NEW r \in Request, Finish(r) PROVE
        /\ paged' \in [Request -> BOOLEAN]
        /\ step' = [step EXCEPT ![r] = "idle"] /\ page' = [page EXCEPT ![r] = NoPage]
        /\ CallOK(chain, mined, "idle", NoPage)
  BY <1>0, <1>7 DEF Finish, CallOK
<1>8. ASSUME NEW r \in Request, TransactionsFail(r) PROVE HistoryOK'
  <2>1. Finish(r) /\ UNCHANGED <<chain, mined>>
    BY <1>8 DEF TransactionsFail
  <2>2. RowOK(chain, row', fresh')
    <3>1. CASE UNCHANGED <<row, fresh>>
      BY <1>0, <3>1
    <3>2. CASE step[r] = "save" /\ row' = page[r] /\ fresh' = TRUE
      BY <1>5, <3>2 DEF RowOK
    <3> QED
      BY <1>8, <3>1, <3>2 DEF TransactionsFail
  <2>3. Moves(r, "idle", NoPage)
    BY <1>7, <2>1, <2>2 DEF Moves
  <2> QED
    BY <2>3, RequestSteps
<1>9. ASSUME NEW r \in Request, AnswerTransactions(r) PROVE HistoryOK'
  <2>1. Finish(r) /\ UNCHANGED <<chain, mined, row, fresh>>
    BY <1>9 DEF AnswerTransactions
  <2>2. chain' = chain /\ mined' = mined /\ RowOK(chain, row', fresh')
    BY <1>a, <2>1
  <2>3. Moves(r, "idle", NoPage)
    BY <1>7, <2>1, <2>2 DEF Moves
  <2> QED
    BY <2>3, RequestSteps
<1>10. CASE TransferHappens
  <2>1. mined < Len(chain) /\ mined' = mined + 1 /\ UNCHANGED <<chain, row, fresh, step, paged, page>>
    BY <1>10 DEF TransferHappens, requests
  <2>2. mined' \in 0..Len(chain)
    BY <1>1, <2>1
  <2>3. ASSUME NEW r \in Request PROVE CallOK(chain, mined', step[r], page[r])
    <3>1. CallOK(chain, mined, step[r], page[r])
      BY <1>0
    <3>2. page[r].known \in 0..mined => page[r].known \in 0..mined'
      BY <1>1, <2>1
    <3> QED
      BY <3>1, <3>2 DEF CallOK
  <2> QED
    BY <1>0, <2>1, <2>2, <2>3 DEF HistoryOK
<1>11. CASE RowAges
  <2>1. fresh' = FALSE /\ UNCHANGED <<chain, mined, row, step, paged, page>>
    BY <1>11 DEF RowAges, requests
  <2> QED
    BY <1>0, <2>1 DEF HistoryOK, RowOK
<1>12. CASE UNCHANGED transferVars
  <2>1. UNCHANGED <<chain, mined, row, fresh, step, paged, page>>
    BY <1>12 DEF transferVars, requests
  <2> QED
    BY <1>0, <2>1 DEF HistoryOK
<1> QED
  BY <1>2, <1>3, <1>4, <1>6, <1>8, <1>9, <1>10, <1>11, <1>12 DEF TransferNext

\* Every request, and the cached row, has a page of the right shape, no longer than
\* it was asked for (FetchAndMergeTransfers, GetFreshTransactions, SaveTransactions).
THEOREM TransferTypeCorrect == TransferSpec => []TransferTypeOK
<1>1. HistoryOK => TransferTypeOK
  BY DEF HistoryOK, TransferTypeOK, CallOK, PageOK, RowOK
<1> QED
  BY InitHistory, HistoryStep, <1>1, PTL DEF TransferSpec

\* Whatever the chain does between the two calls and however requests overlap, a page
\* answered to a request without a pageKey, or cached, holds the most recent transfers
\* (FetchAndMergeTransfers).
THEOREM TransfersAreMostRecent == TransferSpec => []PagesAreMostRecent
<1>1. ASSUME NEW p PROVE Recent(chain, p) => MostRecent(p)
  BY DEF Recent, MostRecent, Above, Before
<1>2. HistoryOK => PagesAreMostRecent
  BY <1>1 DEF HistoryOK, PagesAreMostRecent, CallOK, PageOK, RowOK
<1> QED
  BY InitHistory, HistoryStep, <1>2, PTL DEF TransferSpec
=============================================================================
