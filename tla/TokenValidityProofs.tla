------------------------- MODULE TokenValidityProofs -------------------------
(***************************************************************************)
(* How old a verdict can be, for any number of checks, any windows and any  *)
(* set of failing calls.                                                    *)
(***************************************************************************)
EXTENDS TokenValidity, TLAPS

-----------------------------------------------------------------------------
\* A check in progress began at most Budget ago, and has an
\* answer from the moment a tier gave one.
ChecksOK ==
  \A c \in Check :
    /\ pc[c] # "idle" => started[c] <= clock /\ clock <= started[c] + Budget
    /\ answer[c] # None => pc[c] \in {"saveRow", "saveMeta", "return"}
    /\ pc[c] \in {"saveRow", "saveMeta"} => answer[c] \in Nat
    /\ pc[c] = "saveRow" => started[c] <= answer[c] /\ answer[c] <= clock

\* Nothing is stamped with a time that has not come.
Past == (row # None => row <= clock) /\ (outage # None => outage <= clock)

TimeOK == TypeOK /\ ChecksOK /\ Past

\* The verdict of check c was asked for or found young in this check, or Moralis
\* failed during it.
Backed(c) ==
  \/ started[c] - answer[c] <= Recheck - 1
  \/ outage # None /\ started[c] <= outage

\* The same, one promotion and one stay in Redis later.
BackedByRedis(c) ==
  \/ started[c] - answer[c] <= (Recheck - 1) + (RedisTTL - 1) + Budget
  \/ outage # None /\ started[c] - outage <= (RedisTTL - 1) + Budget

\* An entry was saved by a check that had backing for it.
EntryOK ==
  redis # None =>
    /\ clock < redis.expires
    /\ \/ redis.expires - RedisTTL - redis.fetchedAt <= (Recheck - 1) + Budget
       \/ outage # None /\ redis.expires - RedisTTL - outage <= Budget

\* A check that may still reach Redis has backing for what it will save, and one
\* that returns to a live request has backing for what it returns.
AgeOK ==
  /\ EntryOK
  /\ \A c \in Check :
       /\ pc[c] \in {"saveRow", "saveMeta"} /\ Served(c) => Backed(c)
       /\ pc[c] = "return" /\ Live(c) /\ answer[c] # None => BackedByRedis(c)

\* Before the first check nothing is known.
LEMMA InitTime == Init => TimeOK /\ AgeOK
  BY ValidityAssumption
     DEF Init, TimeOK, TypeOK, ChecksOK, Past, AgeOK, EntryOK, Nobody, Calls, Verdict

\* Every step keeps the types and the times.
LEMMA TimeStep == TimeOK /\ [Next]_vars => TimeOK'
<1> SUFFICES ASSUME TypeOK, ChecksOK, Past, [Next]_vars PROVE TypeOK' /\ ChecksOK' /\ Past'
  BY DEF TimeOK
<1> USE ValidityAssumption DEF stores, control, check, GoTo, Verdict, Calls
<1>1. ASSUME NEW c \in Check, Begin(c) PROVE TypeOK' /\ ChecksOK' /\ Past'
  BY <1>1 DEF Begin, TypeOK, ChecksOK, Past
<1>2. ASSUME NEW c \in Check, LoadMeta(c) PROVE TypeOK' /\ ChecksOK' /\ Past'
  <2>1. /\ pc'[c] \in {"loadRow", "return"} /\ pc[c] = "loadMeta"
        /\ pc' \in [Check -> Calls \cup {"idle", "return"}]
        /\ \A d \in Check : d # c => /\ pc'[d] = pc[d] /\ ctx'[d] = ctx[d]
                                     /\ stale'[d] = stale[d] /\ answer'[d] = answer[d]
        /\ UNCHANGED <<clock, redis, row, started, outage>>
    BY <1>2 DEF LoadMeta, TypeOK, Found
  <2>2. answer'[c] # None => pc'[c] = "return"
    BY <1>2 DEF LoadMeta, TypeOK, ChecksOK
  <2>3. /\ answer' \in [Check -> Verdict] /\ stale' \in [Check -> Verdict]
        /\ rowSeen' \in [Check -> Verdict] /\ ctx' \in [Check -> {"live", "ending", "over"}]
    BY <1>2 DEF LoadMeta, TypeOK, Found, Reply, CacheEntry
  <2>4. QED
    BY <2>1, <2>2, <2>3 DEF TypeOK, ChecksOK, Past
<1>3. ASSUME NEW c \in Check, LoadRow(c) PROVE TypeOK' /\ ChecksOK' /\ Past'
  <2>1. PICK seen \in Verdict :
          \/ seen \in Nat /\ GoTo(c, "saveMeta") /\ Found(c, seen)
          \/ /\ GoTo(c, "moralis")
             /\ stale' = [stale EXCEPT ![c] = seen]
             /\ UNCHANGED <<answer, rowSeen>>
    BY <1>3 DEF LoadRow, Reply, TypeOK
  <2>2. TypeOK'
    BY <1>3, <2>1 DEF LoadRow, Found, TypeOK
  <2>3. ChecksOK'
    BY <1>3, <2>1 DEF LoadRow, Found, TypeOK, ChecksOK
  <2>4. QED
    BY <1>3, <2>2, <2>3 DEF LoadRow, Past
<1>4. ASSUME NEW c \in Check, AskMoralis(c) PROVE TypeOK' /\ ChecksOK' /\ Past'
  BY <1>4 DEF AskMoralis, Found, TypeOK, ChecksOK, Past
<1>5. ASSUME NEW c \in Check, MoralisFails(c) PROVE TypeOK' /\ ChecksOK' /\ Past'
  <2>1. TypeOK'
    BY <1>5 DEF MoralisFails, Found, Fallback, AfterOutage, TypeOK
  <2>2. ChecksOK'
    BY <1>5 DEF MoralisFails, Found, Fallback, AfterOutage, TypeOK, ChecksOK
  <2>3. Past'
    BY <1>5 DEF MoralisFails, TypeOK, Past
  <2>4. QED
    BY <2>1, <2>2, <2>3
<1>6. ASSUME NEW c \in Check, SaveRow(c) PROVE TypeOK' /\ ChecksOK' /\ Past'
  BY <1>6 DEF SaveRow, TypeOK, ChecksOK, Past
<1>7. ASSUME NEW c \in Check, SaveRowFails(c) PROVE TypeOK' /\ ChecksOK' /\ Past'
  BY <1>7 DEF SaveRowFails, TypeOK, ChecksOK, Past
<1>8. ASSUME NEW c \in Check, SaveMeta(c) PROVE TypeOK' /\ ChecksOK' /\ Past'
  BY <1>8 DEF SaveMeta, CacheEntry, TypeOK, ChecksOK, Past
<1>9. ASSUME NEW c \in Check, SaveMetaFails(c) PROVE TypeOK' /\ ChecksOK' /\ Past'
  BY <1>9 DEF SaveMetaFails, TypeOK, ChecksOK, Past
<1>10. ASSUME NEW c \in Check, Return(c) PROVE TypeOK' /\ ChecksOK' /\ Past'
  BY <1>10 DEF Return, TypeOK, ChecksOK, Past
<1>11. ASSUME NEW c \in Check, Cancel(c) PROVE TypeOK' /\ ChecksOK' /\ Past'
  BY <1>11 DEF Cancel, TypeOK, ChecksOK, Past
<1>12. CASE Crash
  BY <1>12 DEF Crash, Nobody, TypeOK, ChecksOK, Past
<1>13. CASE Tick
  BY <1>13 DEF Tick, TypeOK, ChecksOK, Past
<1>14. CASE UNCHANGED vars
  BY <1>14 DEF vars, TypeOK, ChecksOK, Past
<1>15. QED
  BY <1>1, <1>2, <1>3, <1>4, <1>5, <1>6, <1>7, <1>8, <1>9, <1>10, <1>11, <1>12, <1>13, <1>14
     DEF Next, Step

\* What one check may save, it may also answer.
LEMMA BackedIsEnough ==
  ASSUME TypeOK, NEW c \in Check, answer[c] \in Nat, Backed(c)
  PROVE  BackedByRedis(c)
<1>1. Recheck \in Nat \ {0} /\ RedisTTL \in Nat \ {0} /\ Budget \in Nat /\ started[c] \in Nat
  BY ValidityAssumption DEF TypeOK
<1>2. CASE started[c] - answer[c] <= Recheck - 1
  BY <1>1, <1>2 DEF BackedByRedis
<1>3. CASE outage # None /\ started[c] <= outage
  <2>1. outage \in Nat
    BY <1>3 DEF TypeOK, Verdict
  <2>2. QED
    BY <1>1, <1>3, <2>1 DEF BackedByRedis
<1>4. QED
  BY <1>2, <1>3 DEF Backed

\* The part of the invariant about one check.
AgeOf(c) ==
  /\ pc[c] \in {"saveRow", "saveMeta"} /\ Served(c) => Backed(c)
  /\ pc[c] = "return" /\ Live(c) /\ answer[c] # None => BackedByRedis(c)

\* A check that is left alone keeps its backing.
LEMMA LeftAlone ==
  ASSUME TimeOK, AgeOK, NEW c \in Check,
         pc'[c] = pc[c], ctx'[c] = ctx[c], started'[c] = started[c], answer'[c] = answer[c],
         outage' = outage \/ outage' = clock
  PROVE  AgeOf(c)'
<1>1. CASE outage' = outage
  BY <1>1 DEF AgeOK, AgeOf, Served, Live, Backed, BackedByRedis
<1>2. CASE outage' = clock
  <2>1. clock \in Nat /\ clock # None /\ (outage # None => outage \in Nat /\ outage <= clock)
    BY ValidityAssumption DEF TimeOK, TypeOK, Past, Verdict
  <2>2. started[c] \in Nat /\ Budget \in Nat /\ RedisTTL \in Nat
    BY ValidityAssumption DEF TimeOK, TypeOK
  <2>3. Backed(c) => Backed(c)'
    BY <1>2, <2>1, <2>2 DEF Backed
  <2>4. BackedByRedis(c) => BackedByRedis(c)'
    BY <1>2, <2>1, <2>2 DEF BackedByRedis
  <2>5. QED
    BY <2>3, <2>4 DEF AgeOK, AgeOf, Served, Live
<1>3. QED
  BY <1>1, <1>2

\* Every step keeps what is saved and what is answered backed.
LEMMA AgeStep == TimeOK /\ AgeOK /\ TimeOK' /\ [Next]_vars => AgeOK'
<1> SUFFICES ASSUME TimeOK, AgeOK, TimeOK', [Next]_vars
             PROVE  EntryOK' /\ \A d \in Check : AgeOf(d)'
  BY DEF AgeOK, AgeOf
<1> USE DEF stores, control, check, GoTo
<1>0. /\ clock \in Nat /\ Recheck \in Nat \ {0} /\ RedisTTL \in Nat \ {0} /\ Budget \in Nat
      /\ \A d \in Check : started[d] \in Nat
      /\ outage # None => outage \in Nat /\ outage <= clock
  BY ValidityAssumption DEF TimeOK, TypeOK, Past, Verdict
<1>1. ASSUME NEW c \in Check, Begin(c) PROVE EntryOK' /\ \A d \in Check : AgeOf(d)'
  <2>1. EntryOK'
    BY <1>1 DEF Begin, AgeOK, EntryOK
  <2>2. AgeOf(c)'
    BY <1>1 DEF Begin, AgeOf, TimeOK, TypeOK
  <2>3. \A d \in Check \ {c} : AgeOf(d)'
    BY <1>1, LeftAlone DEF Begin, TimeOK, TypeOK
  <2>4. QED
    BY <2>1, <2>2, <2>3
<1>2. ASSUME NEW c \in Check, LoadMeta(c) PROVE EntryOK' /\ \A d \in Check : AgeOf(d)'
  <2>1. EntryOK'
    BY <1>2 DEF LoadMeta, AgeOK, EntryOK
  <2>2. AgeOf(c)'
    <3>1. CASE pc'[c] = "loadRow"
      BY <3>1 DEF AgeOf
    <3>2. CASE pc'[c] # "loadRow"
      <4>1. redis # None /\ pc'[c] = "return" /\ answer'[c] = redis.fetchedAt
        BY <1>2, <3>2 DEF LoadMeta, Reply, Found, TimeOK, TypeOK
      <4>2. redis.fetchedAt \in Nat /\ redis.expires \in Nat /\ clock < redis.expires
        BY <4>1 DEF TimeOK, TypeOK, CacheEntry, AgeOK, EntryOK
      <4>3. started[c] <= clock /\ started'[c] = started[c] /\ outage' = outage
        BY <1>2 DEF LoadMeta, TimeOK, ChecksOK
      <4>4. BackedByRedis(c)'
        BY <1>0, <4>1, <4>2, <4>3 DEF BackedByRedis, AgeOK, EntryOK
      <4>5. QED
        BY <4>1, <4>4 DEF AgeOf
    <3>3. QED
      BY <3>1, <3>2
  <2>3. \A d \in Check \ {c} : AgeOf(d)'
    BY <1>2, LeftAlone DEF LoadMeta, Found, TimeOK, TypeOK
  <2>4. QED
    BY <2>1, <2>2, <2>3
<1>3. ASSUME NEW c \in Check, LoadRow(c) PROVE EntryOK' /\ \A d \in Check : AgeOf(d)'
  <2>1. EntryOK'
    BY <1>3 DEF LoadRow, AgeOK, EntryOK
  <2>2. AgeOf(c)'
    <3>1. CASE pc'[c] = "moralis"
      BY <3>1 DEF AgeOf
    <3>2. CASE pc'[c] # "moralis"
      <4>1. row # None /\ ~Due(row) /\ pc'[c] = "saveMeta" /\ answer'[c] = row
        BY <1>3, <3>2 DEF LoadRow, Reply, Found, TimeOK, TypeOK
      <4>2. row \in Nat /\ clock - row <= Recheck - 1
        BY <1>0, <4>1 DEF Due, TimeOK, TypeOK, Verdict
      <4>3. started[c] <= clock /\ started'[c] = started[c]
        BY <1>3 DEF LoadRow, TimeOK, ChecksOK
      <4>4. Backed(c)'
        BY <1>0, <4>1, <4>2, <4>3 DEF Backed
      <4>5. QED
        BY <4>1, <4>4 DEF AgeOf
    <3>3. QED
      BY <3>1, <3>2
  <2>3. \A d \in Check \ {c} : AgeOf(d)'
    BY <1>3, LeftAlone DEF LoadRow, Found, TimeOK, TypeOK
  <2>4. QED
    BY <2>1, <2>2, <2>3
<1>4. ASSUME NEW c \in Check, AskMoralis(c) PROVE EntryOK' /\ \A d \in Check : AgeOf(d)'
  <2>1. EntryOK'
    BY <1>4 DEF AskMoralis, AgeOK, EntryOK
  <2>2. AgeOf(c)'
    <3>1. pc'[c] = "saveRow" /\ answer'[c] = clock /\ started'[c] = started[c]
      BY <1>4 DEF AskMoralis, Found, TimeOK, TypeOK
    <3>2. started[c] <= clock
      BY <1>4 DEF AskMoralis, TimeOK, ChecksOK
    <3>3. Backed(c)'
      BY <1>0, <3>1, <3>2 DEF Backed
    <3>4. QED
      BY <3>1, <3>3 DEF AgeOf
  <2>3. \A d \in Check \ {c} : AgeOf(d)'
    BY <1>4, LeftAlone DEF AskMoralis, Found, TimeOK, TypeOK
  <2>4. QED
    BY <2>1, <2>2, <2>3
<1>5. ASSUME NEW c \in Check, MoralisFails(c) PROVE EntryOK' /\ \A d \in Check : AgeOf(d)'
  <2>1. redis' = redis /\ clock' = clock /\ (outage' = outage \/ outage' = clock)
    BY <1>5 DEF MoralisFails
  <2>2. EntryOK'
    <3>1. redis # None => redis.expires \in Nat /\ redis.fetchedAt \in Nat
      BY DEF TimeOK, TypeOK, CacheEntry
    <3>2. clock # None
      BY <1>0, ValidityAssumption
    <3>3. QED
      BY <1>0, <2>1, <3>1, <3>2 DEF AgeOK, EntryOK
  <2>3. AgeOf(c)'
    <3>1. CASE pc'[c] = "return"
      <4>1. answer'[c] = None
        BY <1>5, <3>1 DEF MoralisFails, AfterOutage, Found, TimeOK, TypeOK
      <4>2. QED
        BY <3>1, <4>1 DEF AgeOf
    <3>2. CASE pc'[c] # "return"
      <4>1. pc'[c] = "saveMeta" /\ started[c] <= clock /\ started'[c] = started[c]
        BY <1>5, <3>2 DEF MoralisFails, AfterOutage, TimeOK, TypeOK, ChecksOK
      <4>2. ASSUME Served(c)' PROVE Backed(c)'
        <5>1. Live(c)
          BY <1>5, <4>2 DEF MoralisFails, Served, Live, TimeOK, TypeOK
        <5>2. outage' = clock /\ clock # None
          BY <1>0, <1>5, <5>1, ValidityAssumption DEF MoralisFails
        <5>3. QED
          BY <4>1, <5>2 DEF Backed
      <4>3. QED
        BY <4>1, <4>2 DEF AgeOf
    <3>3. QED
      BY <3>1, <3>2
  <2>4. \A d \in Check \ {c} : AgeOf(d)'
    BY <1>5, <2>1, LeftAlone DEF MoralisFails, Found, TimeOK, TypeOK
  <2>5. QED
    BY <2>2, <2>3, <2>4
<1>6. ASSUME NEW c \in Check, SaveRow(c) \/ SaveRowFails(c)
      PROVE  EntryOK' /\ \A d \in Check : AgeOf(d)'
  <2>1. EntryOK'
    BY <1>6 DEF SaveRow, SaveRowFails, AgeOK, EntryOK
  <2>2. AgeOf(c)'
    <3>1. /\ pc[c] = "saveRow" /\ pc'[c] = "saveMeta" /\ UNCHANGED <<started, answer, outage>>
          /\ Served(c)' => Served(c)
      BY <1>6 DEF SaveRow, SaveRowFails, Served, TimeOK, TypeOK
    <3>2. QED
      BY <3>1 DEF AgeOf, AgeOK, Backed
  <2>3. \A d \in Check \ {c} : AgeOf(d)'
    BY <1>6, LeftAlone DEF SaveRow, SaveRowFails, TimeOK, TypeOK
  <2>4. QED
    BY <2>1, <2>2, <2>3
<1>7. ASSUME NEW c \in Check, SaveMeta(c) PROVE EntryOK' /\ \A d \in Check : AgeOf(d)'
  <2>1. /\ pc[c] = "saveMeta" /\ Served(c) /\ answer[c] \in Nat
        /\ started[c] <= clock /\ clock <= started[c] + Budget
    BY <1>7 DEF SaveMeta, TimeOK, ChecksOK
  <2>2. Backed(c)
    BY <2>1 DEF AgeOK
  <2>3. EntryOK'
    <3>1. /\ clock' = clock /\ outage' = outage
          /\ redis'.expires = clock + RedisTTL /\ redis'.fetchedAt = answer[c]
      BY <1>7 DEF SaveMeta
    <3>2. clock' < redis'.expires /\ redis'.expires - RedisTTL = clock
      BY <1>0, <3>1
    <3>3. \/ clock - answer[c] <= (Recheck - 1) + Budget
          \/ outage # None /\ clock - outage <= Budget
      BY <1>0, <2>1, <2>2 DEF Backed
    <3>4. QED
      BY <3>1, <3>2, <3>3 DEF EntryOK
  <2>4. AgeOf(c)'
    <3>1. BackedByRedis(c)
      BY <2>1, <2>2, BackedIsEnough DEF TimeOK
    <3>2. pc'[c] = "return" /\ UNCHANGED <<started, answer, outage>>
      BY <1>7 DEF SaveMeta, TimeOK, TypeOK
    <3>3. QED
      BY <3>1, <3>2 DEF AgeOf, BackedByRedis
  <2>5. \A d \in Check \ {c} : AgeOf(d)'
    BY <1>7, LeftAlone DEF SaveMeta, TimeOK, TypeOK
  <2>6. QED
    BY <2>3, <2>4, <2>5
<1>8. ASSUME NEW c \in Check, SaveMetaFails(c) PROVE EntryOK' /\ \A d \in Check : AgeOf(d)'
  <2>1. EntryOK'
    BY <1>8 DEF SaveMetaFails, AgeOK, EntryOK
  <2>2. AgeOf(c)'
    <3>1. /\ pc[c] = "saveMeta" /\ pc'[c] = "return" /\ UNCHANGED <<started, answer, outage>>
          /\ Live(c)' => Served(c)
      BY <1>8 DEF SaveMetaFails, Served, Live, TimeOK, TypeOK
    <3>2. answer[c] \in Nat
      BY <3>1 DEF TimeOK, ChecksOK
    <3>3. Live(c)' => BackedByRedis(c)
      BY <3>1, <3>2, BackedIsEnough DEF AgeOK, TimeOK
    <3>4. QED
      BY <3>1, <3>3 DEF AgeOf, BackedByRedis
  <2>3. \A d \in Check \ {c} : AgeOf(d)'
    BY <1>8, LeftAlone DEF SaveMetaFails, TimeOK, TypeOK
  <2>4. QED
    BY <2>1, <2>2, <2>3
<1>9. ASSUME NEW c \in Check, Return(c) PROVE EntryOK' /\ \A d \in Check : AgeOf(d)'
  <2>1. EntryOK'
    BY <1>9 DEF Return, AgeOK, EntryOK
  <2>2. AgeOf(c)'
    BY <1>9 DEF Return, AgeOf, TimeOK, TypeOK
  <2>3. \A d \in Check \ {c} : AgeOf(d)'
    BY <1>9, LeftAlone DEF Return, TimeOK, TypeOK
  <2>4. QED
    BY <2>1, <2>2, <2>3
<1>10. ASSUME NEW c \in Check, Cancel(c) PROVE EntryOK' /\ \A d \in Check : AgeOf(d)'
  <2>1. EntryOK'
    BY <1>10 DEF Cancel, AgeOK, EntryOK
  <2>2. AgeOf(c)'
    BY <1>10 DEF Cancel, AgeOf, AgeOK, Served, Live, Backed, Calls, TimeOK, TypeOK
  <2>3. \A d \in Check \ {c} : AgeOf(d)'
    BY <1>10, LeftAlone DEF Cancel, TimeOK, TypeOK
  <2>4. QED
    BY <2>1, <2>2, <2>3
<1>11. CASE Crash
  BY <1>11 DEF Crash, AgeOK, EntryOK, AgeOf
<1>12. CASE Tick
  <2>1. EntryOK'
    <3>1. redis # None => redis.expires \in Nat
      BY DEF TimeOK, TypeOK, CacheEntry
    <3>2. QED
      BY <1>0, <1>12, <3>1 DEF Tick, AgeOK, EntryOK
  <2>2. \A d \in Check : AgeOf(d)'
    BY <1>12, LeftAlone DEF Tick
  <2>3. QED
    BY <2>1, <2>2
<1>13. CASE UNCHANGED vars
  <2>1. EntryOK'
    BY <1>13 DEF vars, AgeOK, EntryOK
  <2>2. \A d \in Check : AgeOf(d)'
    BY <1>13, LeftAlone DEF vars
  <2>3. QED
    BY <2>1, <2>2
<1>14. QED
  BY <1>1, <1>2, <1>3, <1>4, <1>5, <1>6, <1>7, <1>8, <1>9, <1>10, <1>11, <1>12, <1>13
     DEF Next, Step

-----------------------------------------------------------------------------
\* The invariant holds of every state that can be reached.
LEMMA Invariant == Spec => [](TimeOK /\ AgeOK)
  BY InitTime, TimeStep, AgeStep, PTL DEF Spec

\* Every reachable state is well-formed: nothing unknown is ever saved.
THEOREM TypeCorrect == Spec => []TypeOK
<1>1. TimeOK => TypeOK
  BY DEF TimeOK
<1>2. QED
  BY <1>1, Invariant, PTL

\* No verdict older than the two windows and two checks is answered, unless
\* Moralis failed within the last RedisTTL and two checks.
THEOREM AgeBounded == Spec => []OldVerdictsNeedAnOutage
<1>1. TimeOK /\ AgeOK => OldVerdictsNeedAnOutage
  <2> SUFFICES ASSUME TimeOK, AgeOK, NEW c \in Check, answer[c] # None, Live(c),
                      clock - answer[c] > (Recheck - 1) + (RedisTTL - 1) + 2 * Budget
               PROVE  outage # None /\ clock - outage <= (RedisTTL - 1) + 2 * Budget
    BY DEF OldVerdictsNeedAnOutage
  <2>1. BackedByRedis(c) /\ clock <= started[c] + Budget
    <3>1. pc[c] \in {"saveRow", "saveMeta"} => BackedByRedis(c)
      BY BackedIsEnough DEF TimeOK, ChecksOK, AgeOK, Served, Live
    <3>2. pc[c] = "return" => BackedByRedis(c)
      BY DEF AgeOK
    <3>3. pc[c] \in {"saveRow", "saveMeta", "return"}
      BY DEF TimeOK, ChecksOK
    <3>4. QED
      BY <3>1, <3>2, <3>3 DEF TimeOK, ChecksOK
  <2>2. /\ clock \in Nat /\ started[c] \in Nat /\ answer[c] \in Nat
        /\ Recheck \in Nat /\ RedisTTL \in Nat /\ Budget \in Nat
        /\ outage # None => outage \in Nat
    BY ValidityAssumption DEF TimeOK, TypeOK, Verdict
  <2>3. QED
    BY <2>1, <2>2 DEF BackedByRedis
<1>2. QED
  BY <1>1, Invariant, PTL

\* Overlapping checks put the row back by one check at most.
THEOREM RowOrdered == Spec => RowNearlyInOrder
<1>1. TimeOK /\ [Next]_vars => [row # None => row' # None /\ row' >= row - Budget]_vars
  <2> SUFFICES ASSUME TimeOK, [Next]_vars, row # None
               PROVE  row' # None /\ row' >= row - Budget
    OBVIOUS
  <2>1. row \in Nat /\ row <= clock /\ clock \in Nat /\ Budget \in Nat
    BY ValidityAssumption DEF TimeOK, TypeOK, Past, Verdict
  <2>2. ASSUME NEW c \in Check, SaveRow(c)
        PROVE  row' # None /\ row' >= row - Budget
    <3>1. /\ row' = answer[c] /\ answer[c] \in Nat /\ started[c] \in Nat
          /\ started[c] <= answer[c] /\ clock <= started[c] + Budget
      BY <2>2 DEF SaveRow, TimeOK, TypeOK, ChecksOK
    <3>2. QED
      BY <2>1, <3>1, ValidityAssumption
  <2>3. CASE row' = row
    BY <2>1, <2>3
  <2>4. QED
    BY <2>2, <2>3 DEF Next, Step, vars, stores, Begin, LoadMeta, LoadRow, AskMoralis,
       MoralisFails, SaveRowFails, SaveMeta, SaveMetaFails, Return, Cancel, Crash, Tick
<1>2. QED
  BY <1>1, Invariant, PTL DEF Spec, RowNearlyInOrder
-----------------------------------------------------------------------------
\* What a live check has found of the row there was when it began: the
\* row can only be replaced by a verdict asked for at most Budget before, a
\* verdict too old is kept in reserve, and what is answered is known.
Kept(c) ==
  Live(c) /\ rowSeen[c] # None /\ "loadRow" \notin Failing =>
    /\ pc[c] \in {"loadMeta", "loadRow"} =>
         rowSeen[c] <= clock /\ row # None /\ row >= rowSeen[c] - Budget
    /\ pc[c] = "moralis" => stale[c] # None
    /\ pc[c] = "return" => answer[c] # None

KeptOK == \A c \in Check : Kept(c)

\* A check that is left alone keeps it, as long as the row is only replaced by a
\* verdict that is young enough.
LEMMA LeftAloneKept ==
  ASSUME TimeOK, NEW c \in Check, Kept(c), clock' \in Nat, clock' >= clock,
         row' \in Nat \cup {None},
         pc'[c] = pc[c], ctx'[c] = ctx[c], rowSeen'[c] = rowSeen[c],
         stale'[c] = stale[c], answer'[c] = answer[c],
         row' = row \/ (row' # None /\ row' >= clock - Budget)
  PROVE  Kept(c)'
<1>1. /\ clock \in Nat /\ Budget \in Nat /\ rowSeen[c] \in Nat \cup {None}
      /\ row \in Nat \cup {None}
  BY ValidityAssumption DEF TimeOK, TypeOK, Verdict
<1>2. QED
  BY <1>1 DEF Kept, Live

\* Every step keeps it.
LEMMA KeptStep == TimeOK /\ TimeOK' /\ KeptOK /\ [Next]_vars => KeptOK'
<1> SUFFICES ASSUME TimeOK, TimeOK', KeptOK, [Next]_vars, NEW d \in Check PROVE Kept(d)'
  BY DEF KeptOK
<1> USE DEF stores, control, check, GoTo
<1>0. /\ clock \in Nat /\ Budget \in Nat /\ Kept(d) /\ None \notin Nat
      /\ row \in Nat \cup {None} /\ (row # None => row <= clock)
      /\ rowSeen[d] \in Nat \cup {None}
      /\ clock' \in Nat /\ row' \in Nat \cup {None}
  BY ValidityAssumption DEF TimeOK, TypeOK, Past, Verdict, KeptOK
<1>1. ASSUME NEW c \in Check, Begin(c) PROVE Kept(d)'
  <2>1. CASE c = d
    <3>1. pc'[d] = "loadMeta" /\ rowSeen'[d] = row /\ row' = row /\ clock' = clock
      BY <1>1, <2>1 DEF Begin, TimeOK, TypeOK
    <3>2. QED
      BY <1>0, <3>1 DEF Kept
  <2>2. CASE c # d
    BY <1>0, <1>1, <2>2, LeftAloneKept DEF Begin, TimeOK, TypeOK
  <2>3. QED
    BY <2>1, <2>2
<1>2. ASSUME NEW c \in Check, LoadMeta(c) PROVE Kept(d)'
  <2>1. CASE c = d
    <3>1. /\ pc[d] = "loadMeta" /\ row' = row /\ clock' = clock /\ (Live(d)' => Live(d))
          /\ \/ pc'[d] = "loadRow" /\ rowSeen' = rowSeen
             \/ pc'[d] = "return" /\ redis # None /\ answer'[d] = redis.fetchedAt
      BY <1>2, <2>1 DEF LoadMeta, Reply, Found, Live, TimeOK, TypeOK
    <3>2. redis # None => redis.fetchedAt # None
      BY <1>0 DEF TimeOK, TypeOK, CacheEntry
    <3>3. QED
      BY <1>0, <3>1, <3>2 DEF Kept
  <2>2. CASE c # d
    BY <1>0, <1>2, <2>2, LeftAloneKept DEF LoadMeta, Found, TimeOK, TypeOK
  <2>3. QED
    BY <2>1, <2>2
<1>3. ASSUME NEW c \in Check, LoadRow(c) PROVE Kept(d)'
  <2>1. CASE c = d
    <3>1. SUFFICES ASSUME Live(d)', rowSeen'[d] # None, "loadRow" \notin Failing
                   PROVE  pc'[d] = "saveMeta" \/ (pc'[d] = "moralis" /\ stale'[d] # None)
      BY DEF Kept
    <3>2. pc[d] = "loadRow" /\ Live(d)
      BY <1>3, <2>1, <3>1 DEF LoadRow, Live, TimeOK, TypeOK
    <3>3. Reply(d, row) = {row}
      BY <3>1, <3>2 DEF Reply, Served, MayFail, Live
    <3>4. \/ pc'[d] = "saveMeta"
          \/ pc'[d] = "moralis" /\ stale'[d] = row /\ rowSeen' = rowSeen
      BY <1>3, <2>1, <3>3 DEF LoadRow, TimeOK, TypeOK
    <3>5. QED
      BY <1>0, <3>1, <3>2, <3>4 DEF Kept
  <2>2. CASE c # d
    BY <1>0, <1>3, <2>2, LeftAloneKept DEF LoadRow, Found, TimeOK, TypeOK
  <2>3. QED
    BY <2>1, <2>2
<1>4. ASSUME NEW c \in Check, AskMoralis(c) PROVE Kept(d)'
  <2>1. CASE c = d
    BY <1>4, <2>1 DEF AskMoralis, Kept, TimeOK, TypeOK
  <2>2. CASE c # d
    BY <1>0, <1>4, <2>2, LeftAloneKept DEF AskMoralis, Found, TimeOK, TypeOK
  <2>3. QED
    BY <2>1, <2>2
<1>5. ASSUME NEW c \in Check, MoralisFails(c) PROVE Kept(d)'
  <2>1. CASE c = d
    <3>1. /\ pc[d] = "moralis" /\ answer'[d] = stale[d] /\ (Live(d)' => Live(d))
          /\ pc'[d] \in {"saveMeta", "return"}
          /\ stale[d] = None => rowSeen' = rowSeen
      BY <1>5, <2>1 DEF MoralisFails, Found, Fallback, AfterOutage, Live, TimeOK, TypeOK
    <3>2. QED
      BY <1>0, <3>1 DEF Kept
  <2>2. CASE c # d
    BY <1>0, <1>5, <2>2, LeftAloneKept DEF MoralisFails, Found, TimeOK, TypeOK
  <2>3. QED
    BY <2>1, <2>2
<1>6. ASSUME NEW c \in Check, SaveRow(c) PROVE Kept(d)'
  <2>1. CASE c = d
    BY <1>6, <2>1 DEF SaveRow, Kept, TimeOK, TypeOK
  <2>2. CASE c # d
    <3>1. /\ row' = answer[c] /\ answer[c] \in Nat /\ started[c] \in Nat
          /\ started[c] <= answer[c] /\ clock <= started[c] + Budget /\ clock' = clock
      BY <1>6 DEF SaveRow, TimeOK, TypeOK, ChecksOK
    <3>2. row' # None /\ row' >= clock - Budget
      BY <1>0, <3>1
    <3>3. QED
      BY <1>0, <1>6, <2>2, <3>2, LeftAloneKept DEF SaveRow, TimeOK, TypeOK
  <2>3. QED
    BY <2>1, <2>2
<1>7. ASSUME NEW c \in Check, SaveRowFails(c) PROVE Kept(d)'
  <2>1. CASE c = d
    BY <1>7, <2>1 DEF SaveRowFails, Kept, TimeOK, TypeOK
  <2>2. CASE c # d
    BY <1>0, <1>7, <2>2, LeftAloneKept DEF SaveRowFails, TimeOK, TypeOK
  <2>3. QED
    BY <2>1, <2>2
<1>8. ASSUME NEW c \in Check, SaveMeta(c) \/ SaveMetaFails(c) PROVE Kept(d)'
  <2>1. CASE c = d
    <3>1. pc'[d] = "return" /\ answer'[d] = answer[d] /\ answer[d] \in Nat
      BY <1>8, <2>1 DEF SaveMeta, SaveMetaFails, TimeOK, TypeOK, ChecksOK
    <3>2. QED
      BY <1>0, <3>1 DEF Kept
  <2>2. CASE c # d
    BY <1>0, <1>8, <2>2, LeftAloneKept DEF SaveMeta, SaveMetaFails, TimeOK, TypeOK
  <2>3. QED
    BY <2>1, <2>2
<1>9. ASSUME NEW c \in Check, Return(c) PROVE Kept(d)'
  <2>1. CASE c = d
    BY <1>9, <2>1 DEF Return, Kept, TimeOK, TypeOK
  <2>2. CASE c # d
    BY <1>0, <1>9, <2>2, LeftAloneKept DEF Return, TimeOK, TypeOK
  <2>3. QED
    BY <2>1, <2>2
<1>10. ASSUME NEW c \in Check, Cancel(c) PROVE Kept(d)'
  <2>1. CASE c = d
    BY <1>10, <2>1 DEF Cancel, Kept, Live, TimeOK, TypeOK
  <2>2. CASE c # d
    BY <1>0, <1>10, <2>2, LeftAloneKept DEF Cancel, TimeOK, TypeOK
  <2>3. QED
    BY <2>1, <2>2
<1>11. CASE Crash
  BY <1>11 DEF Crash, Kept
<1>12. CASE Tick
  BY <1>0, <1>12, LeftAloneKept DEF Tick
<1>13. CASE UNCHANGED vars
  BY <1>0, <1>13, LeftAloneKept DEF vars
<1>14. QED
  BY <1>1, <1>2, <1>3, <1>4, <1>5, <1>6, <1>7, <1>8, <1>9, <1>10, <1>11, <1>12, <1>13
     DEF Next, Step

\* It holds of every state that can be reached.
LEMMA KeptAlways == Spec => [](TimeOK /\ KeptOK)
<1>1. Init => KeptOK
  BY DEF Init, KeptOK, Kept, Nobody
<1>2. QED
  BY <1>1, InitTime, TimeStep, KeptStep, PTL DEF Spec

\* While PostgreSQL can be read, a token with a stored verdict is answered from
\* it at worst, whichever other calls fail and however the checks overlap.
THEOREM KnownAnswered == Spec => []KnownContractsAnswered
<1>1. KeptOK => KnownContractsAnswered
  BY DEF KeptOK, Kept, KnownContractsAnswered
<1>2. QED
  BY <1>1, KeptAlways, PTL

\* A check that asks Moralis although it could read the row began when the row
\* had reached the recheck age, give or take one check.
THEOREM AskedWhenDue == Spec => AskedOnlyWhenDue
<1>1. ASSUME TimeOK, KeptOK, [Next]_vars, NEW c \in Check,
             pc[c] = "loadRow", pc'[c] = "moralis", Live(c), rowSeen[c] # None,
             "loadRow" \notin Failing
      PROVE  clock - rowSeen[c] >= Recheck - Budget
  <2>1. LoadRow(c)
    BY <1>1 DEF Next, Step, vars, control, check, GoTo, Begin, LoadMeta, LoadRow, AskMoralis,
       MoralisFails, SaveRow, SaveRowFails, SaveMeta, SaveMetaFails, Return, Cancel, Crash,
       Tick, TimeOK, TypeOK
  <2>2. Reply(c, row) = {row}
    BY <1>1 DEF Reply, Served, MayFail, Live
  <2>3. /\ row # None /\ row >= rowSeen[c] - Budget
        /\ clock \in Nat /\ row \in Nat /\ rowSeen[c] \in Nat /\ Recheck \in Nat /\ Budget \in Nat
    BY <1>1, ValidityAssumption DEF KeptOK, Kept, TimeOK, TypeOK, Verdict
  <2>4. Due(row)
    BY <1>1, <2>1, <2>2, <2>3 DEF LoadRow, GoTo, TimeOK, TypeOK
  <2>5. QED
    BY <2>3, <2>4 DEF Due
<1>2. TimeOK /\ KeptOK /\ [Next]_vars =>
        [\A c \in Check :
           pc[c] = "loadRow" /\ pc'[c] = "moralis" /\ Live(c) /\ rowSeen[c] # None
           /\ "loadRow" \notin Failing
           => clock - rowSeen[c] >= Recheck - Budget]_vars
  BY <1>1
<1>3. QED
  BY <1>2, KeptAlways, PTL DEF Spec, AskedOnlyWhenDue
=============================================================================
