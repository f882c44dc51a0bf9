------------------------ MODULE MarketPipelineProofs ------------------------
(***************************************************************************)
(* The safety of the lookup cascade, for every number of runs, keys and     *)
(* requests, every time bound and every set of failing calls; then what     *)
(* successive answers show (MarketReads).                                   *)
(***************************************************************************)
EXTENDS MarketReads, TLAPS

\* A reply to a read is a record or nothing for each key.
LEMMA ReplyType ==
  ASSUME TypeOK, NEW r \in Run
  PROVE  /\ Reply(r, store, Nothing) \subseteq [Key -> Record \cup {None}]
         /\ Reply(r, [k \in Key |-> IF redis[k] = None THEN None ELSE redis[k].record], Nothing)
              \subseteq [Key -> Record \cup {None}]
  BY DEF TypeOK, Reply, Nothing, CacheEntry

\* The keys of a request, and those found by a read, are keys; what was found
\* for them is a record.
LEMMA HitsType ==
  ASSUME TypeOK, NEW r \in Run, NEW seen \in [Key -> Record \cup {None}]
  PROVE  /\ Incomplete(r) \subseteq Key
         /\ Hits(r, seen) \subseteq Incomplete(r)
         /\ \A k \in Hits(r, seen) : seen[k] \in Record
         /\ \A k \in Expired(r, seen) : seen[k] \in Record
<1>1. DOMAIN want[r] \subseteq Key
  BY PipelineAssumption DEF TypeOK, NoRequest
<1>2. QED
  BY <1>1 DEF Hits, Expired, Matching, Incomplete

\* A request maps each of its keys to a provider ID.
LEMMA WantType ==
  ASSUME TypeOK, NEW r \in Run, NEW k \in DOMAIN want[r]
  PROVE  k \in Key /\ want[r][k] \in ID
<1>1. want[r] \in Requests \cup {NoRequest}
  BY DEF TypeOK
<1>2. want[r] # NoRequest
  BY DEF NoRequest
<1>3. DOMAIN want[r] \subseteq Key /\ want[r] \in [DOMAIN want[r] -> ID]
  BY <1>1, <1>2, PipelineAssumption
<1>4. QED
  BY <1>3

\* The two guarded writes keep the newer fetch, and store what they are given.
LEMMA UpsertKeepsNewest ==
  ASSUME NEW rec \in Record, NEW stored \in Record \cup {None}
  PROVE  /\ Upsert(stored, rec) \in Record
         /\ Upsert(stored, rec).fetchedAt >= rec.fetchedAt
         /\ stored # None => Upsert(stored, rec).fetchedAt >= stored.fetchedAt
  BY DEF Upsert, Record

\* Redis keeps the newer fetch of a live entry, and otherwise what it is given.
LEMMA CompareAndSetKeepsNewest ==
  ASSUME NEW rec \in Record, NEW entry \in CacheEntry \cup {None}, NEW expires \in Nat
  PROVE  /\ CompareAndSet(entry, rec, expires) \in CacheEntry
         /\ entry # None =>
              CompareAndSet(entry, rec, expires).record.fetchedAt >= entry.record.fetchedAt
         /\ \/ CompareAndSet(entry, rec, expires) = entry
            \/ CompareAndSet(entry, rec, expires).record = rec
  BY DEF CompareAndSet, CacheEntry, Record

\* The TTL a record is cached with is a duration.
LEMMA CacheTTLType ==
  ASSUME TypeOK, NEW r \in Run, NEW k \in Key, applied[r][k] \in Record
  PROVE  CacheTTL(r, k) \in Nat
  BY RecordAssumption DEF TypeOK, CacheTTL, RemainingTTL, Record

-----------------------------------------------------------------------------
\* What the queues of a run refer to: only keys of the request are asked about,
\* only keys with a record are saved, and between runs nothing is left over.
QueuesOK ==
  \A r \in Run :
    /\ asking[r] \subseteq DOMAIN want[r]
    /\ \A k \in writes[r] : applied[r][k] \in Record
    /\ pc[r] = "idle" => /\ asking[r] = {} /\ writes[r] = {}
                         /\ applied[r] = Nothing /\ stale[r] = Nothing

\* A provider's answer makes a record for each key of the batch.
LEMMA ReceivedType ==
  ASSUME TypeOK, QueuesOK, NEW r \in Run, NEW k \in BatchKeys(r),
         NEW answer \in [Batch(r) -> Payload]
  PROVE  k \in Key /\ Received(r, k, answer) \in Record
<1>1. k \in DOMAIN want[r] /\ want[r][k] \in Batch(r)
  BY DEF BatchKeys, QueuesOK
<1>2. k \in Key /\ want[r][k] \in ID
  BY <1>1, WantType
<1>3. QED
  BY <1>1, <1>2 DEF Received, Record, TypeOK

\* What the answer to a batch does to the run, without the choice of the answer.
Got(r, answer) == [k \in BatchKeys(r) |-> Received(r, k, answer)]
Usables(r, answer) ==
  {k \in BatchKeys(r) : /\ HasData(Got(r, answer)[k])
                        /\ Usable(kind[r], Got(r, answer)[k])}
Rest(r) == asking[r] \ BatchKeys(r)
FetchAnswered(r, answer) ==
  /\ ApplyRecords(r, Usables(r, answer), Got(r, answer))
  /\ writes' = [writes EXCEPT ![r] = Usables(r, answer)]
  /\ missed' = [missed EXCEPT ![r] = Dataless(r, Got(r, answer))]
  /\ asking' = [asking EXCEPT ![r] = Rest(r)]
  /\ pc' = [pc EXCEPT ![r] = AfterFetch(r, Dataless(r, Got(r, answer)),
                                        Usables(r, answer), Rest(r))]

\* Where the control of a run can be sent.
LEMMA ControlType ==
  ASSUME NEW r \in Run, NEW S, NEW T, NEW U, pc[r] \in Calls
  PROVE  /\ NextBatch(r, S) \in {"return", "fetch"}
         /\ Tier3(r) \in {"return", "loadMisses"}
         /\ AfterSaveCache(r) \in {"return", "fetch", "loadMisses"}
         /\ AfterFetch(r, S, T, U) \in {"return", "fetch", "saveMisses", "saveStore"}
         /\ AfterSaveMisses(r) \in {"return", "fetch", "saveStore"}
         /\ AfterSaveStore(r) \in {"return", "saveCache"}
  BY DEF NextBatch, Tier3, AfterSaveCache, AfterFetch, AfterSaveMisses, AfterSaveStore

\* The cascade starts well-formed and with nothing queued.
LEMMA InitType == Init => TypeOK /\ QueuesOK
  BY DEF Init, TypeOK, QueuesOK, Nothing

\* Every step keeps the state well-formed and the queues within the request.
LEMMA TypeStep == TypeOK /\ QueuesOK /\ [Next]_vars => TypeOK' /\ QueuesOK'
<1> SUFFICES ASSUME TypeOK, QueuesOK, [Next]_vars
             PROVE  TypeOK' /\ QueuesOK'
  OBVIOUS
<1> USE DEF shared, local, GoTo
<1>1. ASSUME NEW r \in Run, NEW caller \in Kinds, NEW request \in Requests,
             Begin(r, caller, request)
      PROVE  TypeOK' /\ QueuesOK'
  BY <1>1, PipelineAssumption DEF Begin, TypeOK, QueuesOK, Calls
<1>2. ASSUME NEW r \in Run, LoadCache(r)
      PROVE  TypeOK' /\ QueuesOK'
  <2>1. PICK seen \in [Key -> Record \cup {None}] :
          /\ ApplyRecords(r, Hits(r, seen), seen)
          /\ NoteStale(r, seen)
    BY <1>2, ReplyType DEF LoadCache, Cached
  <2>2. applied' \in [Run -> [Key -> Record \cup {None}]]
    BY <2>1, HitsType DEF ApplyRecords, TypeOK
  <2>3. stale' \in [Run -> [Key -> Record \cup {None}]]
    BY <2>1, HitsType DEF NoteStale, TypeOK, Newer
  <2>4. pc' \in [Run -> Calls \cup {"idle", "return"}]
    BY <1>2 DEF LoadCache, TypeOK, Calls
  <2>5. /\ \A s \in Run : \A k \in writes[s] : applied'[s][k] \in Record
        /\ \A s \in Run : s # r => applied'[s] = applied[s] /\ stale'[s] = stale[s]
        /\ pc'[r] # "idle" /\ \A s \in Run : s # r => pc'[s] = pc[s]
    BY <1>2, <2>1, HitsType DEF ApplyRecords, NoteStale, LoadCache, TypeOK, QueuesOK
  <2>6. QED
    BY <1>2, <2>2, <2>3, <2>4, <2>5 DEF LoadCache, TypeOK, QueuesOK
<1>3. ASSUME NEW r \in Run, LoadStore(r)
      PROVE  TypeOK' /\ QueuesOK'
  <2>1. PICK seen \in [Key -> Record \cup {None}] :
          /\ ApplyRecords(r, Hits(r, seen), seen)
          /\ NoteStale(r, seen)
          /\ writes' = [writes EXCEPT ![r] = Hits(r, seen)]
          /\ pc' = [pc EXCEPT ![r] = IF Hits(r, seen) = {} THEN Tier3(r)
                                     ELSE IF cancelled[r] THEN "return" ELSE "promote"]
    BY <1>3, ReplyType DEF LoadStore
  <2>2. applied' \in [Run -> [Key -> Record \cup {None}]]
    BY <2>1, HitsType DEF ApplyRecords, TypeOK
  <2>3. stale' \in [Run -> [Key -> Record \cup {None}]]
    BY <2>1, HitsType DEF NoteStale, TypeOK, Newer
  <2>4. pc' \in [Run -> Calls \cup {"idle", "return"}]
    BY <2>1 DEF TypeOK, Calls, Tier3
  <2>5. /\ \A s \in Run : \A k \in writes'[s] : applied'[s][k] \in Record
        /\ \A s \in Run : s # r => /\ applied'[s] = applied[s] /\ stale'[s] = stale[s]
                                   /\ writes'[s] = writes[s]
        /\ pc'[r] # "idle" /\ \A s \in Run : s # r => pc'[s] = pc[s]
    BY <2>1, HitsType DEF ApplyRecords, NoteStale, TypeOK, QueuesOK, Tier3
  <2>6. writes' \in [Run -> SUBSET Key]
    BY <2>1, HitsType DEF TypeOK
  <2>7. QED
    BY <1>3, <2>2, <2>3, <2>4, <2>5, <2>6 DEF LoadStore, TypeOK, QueuesOK
<1>4. ASSUME NEW r \in Run, SaveCache(r)
      PROVE  TypeOK' /\ QueuesOK'
  <2>1. PICK k \in writes[r] :
          /\ redis' = [redis EXCEPT ![k] =
               CompareAndSet(@, applied[r][k], clock + CacheTTL(r, k))]
          /\ writes' = [writes EXCEPT ![r] = @ \ {k}]
          /\ pc' = [pc EXCEPT ![r] = IF writes[r] = {k} THEN AfterSaveCache(r) ELSE pc[r]]
    BY <1>4 DEF SaveCache
  <2>2. k \in Key /\ applied[r][k] \in Record
    BY <2>1 DEF TypeOK, QueuesOK
  <2>3. clock + CacheTTL(r, k) \in Nat
    BY <2>2, CacheTTLType DEF TypeOK
  <2>6. CompareAndSet(redis[k], applied[r][k], clock + CacheTTL(r, k)) \in CacheEntry
    BY <2>2, <2>3, CompareAndSetKeepsNewest DEF TypeOK
  <2>7. redis' \in [Key -> CacheEntry \cup {None}]
    BY <2>1, <2>2, <2>6 DEF TypeOK
  <2>4. /\ pc' \in [Run -> Calls \cup {"idle", "return"}]
        /\ pc'[r] # "idle" /\ \A s \in Run : s # r => pc'[s] = pc[s]
    BY <2>1, <1>4, ControlType DEF TypeOK, Calls, SaveCache
  <2>5. QED
    BY <1>4, <2>1, <2>4, <2>7 DEF SaveCache, TypeOK, QueuesOK
<1>5. ASSUME NEW r \in Run, SaveCacheFails(r)
      PROVE  TypeOK' /\ QueuesOK'
  BY <1>5, ControlType DEF SaveCacheFails, TypeOK, QueuesOK, Calls
<1>6. ASSUME NEW r \in Run, LoadMisses(r)
      PROVE  TypeOK' /\ QueuesOK'
  <2>1. Incomplete(r) \subseteq Key /\ Incomplete(r) \subseteq DOMAIN want[r]
    BY WantType DEF Incomplete
  <2>2. PICK suppressed : /\ asking' = [asking EXCEPT ![r] = Incomplete(r) \ suppressed]
                          /\ pc' = [pc EXCEPT ![r] = NextBatch(r, Incomplete(r) \ suppressed)]
    BY <1>6 DEF LoadMisses
  <2>3. /\ pc' \in [Run -> Calls \cup {"idle", "return"}]
        /\ pc'[r] # "idle" /\ \A s \in Run : s # r => pc'[s] = pc[s]
    BY <2>2 DEF TypeOK, NextBatch, Calls
  <2>4. QED
    BY <1>6, <2>1, <2>2, <2>3 DEF LoadMisses, TypeOK, QueuesOK
<1>7. ASSUME NEW r \in Run, Fetch(r)
      PROVE  TypeOK' /\ QueuesOK'
  <2>1. PICK answer \in [Batch(r) -> Payload] : FetchAnswered(r, answer)
    BY <1>7 DEF Fetch, FetchAnswered, Got, Usables, Rest
  <2>2. \A k \in BatchKeys(r) : k \in Key /\ Received(r, k, answer) \in Record
    BY <2>1, ReceivedType
  <2>3. Usables(r, answer) \subseteq BatchKeys(r) /\ BatchKeys(r) \subseteq asking[r]
    BY DEF Usables, BatchKeys
  <2>4. applied' \in [Run -> [Key -> Record \cup {None}]]
    BY <2>1, <2>2, <2>3 DEF FetchAnswered, Got, ApplyRecords, TypeOK
  <2>5. /\ \A s \in Run : \A k \in writes'[s] : applied'[s][k] \in Record
        /\ \A s \in Run : s # r => applied'[s] = applied[s] /\ writes'[s] = writes[s]
        /\ \A s \in Run : asking'[s] \subseteq asking[s]
    BY <2>1, <2>2, <2>3 DEF FetchAnswered, Got, Rest, ApplyRecords, TypeOK, QueuesOK
  <2>6. writes' \in [Run -> SUBSET Key] /\ missed' \in [Run -> SUBSET Key]
        /\ asking' \in [Run -> SUBSET Key]
    BY <2>1, <2>2, <2>3 DEF FetchAnswered, Dataless, Rest, TypeOK
  <2>7. /\ pc' \in [Run -> Calls \cup {"idle", "return"}]
        /\ pc'[r] # "idle" /\ \A s \in Run : s # r => pc'[s] = pc[s]
    BY <1>7, <2>1, ControlType DEF Fetch, FetchAnswered, TypeOK, Calls
  <2>8. QED
    BY <1>7, <2>4, <2>5, <2>6, <2>7 DEF Fetch, TypeOK, QueuesOK
<1>8. ASSUME NEW r \in Run, FetchFails(r)
      PROVE  TypeOK' /\ QueuesOK'
  BY <1>8 DEF FetchFails, TypeOK, QueuesOK, NextBatch, Calls
<1>9. ASSUME NEW r \in Run, SaveMisses(r)
      PROVE  TypeOK' /\ QueuesOK'
  <2>1. clock + MissTTL \in Nat
    BY PipelineAssumption DEF TypeOK
  <2>2. missUntil' \in [Key -> Nat] /\ missed' \in [Run -> SUBSET Key]
    BY <1>9, <2>1 DEF SaveMisses, TypeOK
  <2>3. /\ pc' \in [Run -> Calls \cup {"idle", "return"}]
        /\ pc'[r] # "idle" /\ \A s \in Run : s # r => pc'[s] = pc[s]
    BY <1>9 DEF SaveMisses, AfterSaveMisses, NextBatch, TypeOK, Calls
  <2>4. TypeOK'
    BY <1>9, <2>2, <2>3 DEF SaveMisses, TypeOK
  <2>5. QueuesOK'
    BY <1>9, <2>3 DEF SaveMisses, QueuesOK
  <2>6. QED
    BY <2>4, <2>5
<1>10. ASSUME NEW r \in Run, SaveMissesFails(r)
      PROVE  TypeOK' /\ QueuesOK'
  BY <1>10, ControlType DEF SaveMissesFails, TypeOK, QueuesOK, Calls
<1>11. ASSUME NEW r \in Run, SaveStore(r)
      PROVE  TypeOK' /\ QueuesOK'
  BY <1>11, UpsertKeepsNewest DEF SaveStore, TypeOK, QueuesOK, AfterSaveStore, Calls
<1>12. ASSUME NEW r \in Run, SaveStoreFails(r)
      PROVE  TypeOK' /\ QueuesOK'
  BY <1>12 DEF SaveStoreFails, TypeOK, QueuesOK, AfterSaveStore, Calls
<1>13. ASSUME NEW r \in Run, Return(r)
      PROVE  TypeOK' /\ QueuesOK'
  BY <1>13 DEF Return, TypeOK, QueuesOK, Nothing
<1>14. ASSUME NEW r \in Run, Cancel(r)
      PROVE  TypeOK' /\ QueuesOK'
  BY <1>14 DEF Cancel, TypeOK, QueuesOK
<1>15. CASE Crash
  BY <1>15 DEF Crash, TypeOK, QueuesOK, Nothing
<1>16. CASE Tick
  BY <1>16 DEF Tick, TypeOK, QueuesOK
<1>17. CASE UNCHANGED vars
  BY <1>17 DEF vars, TypeOK, QueuesOK
<1>18. QED
  BY <1>1, <1>2, <1>3, <1>4, <1>5, <1>6, <1>7, <1>8, <1>9, <1>10, <1>11, <1>12,
     <1>13, <1>14, <1>15, <1>16, <1>17 DEF Next, Step

\* Type correctness of the cascade: every reachable state is well-formed.
THEOREM TypeCorrect == Spec => []TypeOK
<1>1. Init => TypeOK /\ QueuesOK
  BY InitType
<1>2. TypeOK /\ QueuesOK /\ [Next]_vars => (TypeOK /\ QueuesOK)'
  BY TypeStep
<1>3. QED
  BY <1>1, <1>2, PTL DEF Spec

-----------------------------------------------------------------------------
\* Fresh is younger than the TTL, to the last instant.
LEMMA FreshWithinTTL ==
  ASSUME NEW rec \in Record, NEW t \in Nat
  PROVE  Fresh(rec, t) <=> t < rec.fetchedAt + TTL
  BY RecordAssumption DEF Fresh, RemainingTTL, Record

\* A record a run shows was judged by this run's own request and clock reading.
LEMMA HitsServed ==
  ASSUME TypeOK, NEW r \in Run, NEW seen \in [Key -> Record \cup {None}]
  PROVE  /\ \A k \in Hits(r, seen) : /\ k \in DOMAIN want[r]
                                     /\ seen[k].id = want[r][k]
                                     /\ Usable(kind[r], seen[k])
                                     /\ started[r] < seen[k].fetchedAt + TTL
         /\ \A k \in Expired(r, seen) : /\ k \in DOMAIN want[r]
                                        /\ seen[k].id = want[r][k]
                                        /\ started[r] >= seen[k].fetchedAt + TTL
<1>1. \A rec \in Record : Fresh(rec, started[r]) <=> started[r] < rec.fetchedAt + TTL
  BY FreshWithinTTL DEF TypeOK
<1>2. /\ \A k \in Hits(r, seen) : /\ k \in DOMAIN want[r]
                                  /\ seen[k].id = want[r][k]
                                  /\ Usable(kind[r], seen[k])
                                  /\ Fresh(seen[k], started[r])
      /\ \A k \in Expired(r, seen) : /\ k \in DOMAIN want[r]
                                     /\ seen[k].id = want[r][k]
                                     /\ ~Fresh(seen[k], started[r])
  BY DEF Hits, Expired, Matching, Incomplete
<1>3. /\ \A k \in Hits(r, seen) : started[r] < seen[k].fetchedAt + TTL
      /\ \A k \in Expired(r, seen) : ~(started[r] < seen[k].fetchedAt + TTL)
  BY <1>1, <1>2, HitsType
<1>4. ASSUME NEW k \in Expired(r, seen)
      PROVE  started[r] >= seen[k].fetchedAt + TTL
  <2>1. seen[k].fetchedAt \in Nat
    BY HitsType DEF Record
  <2>2. started[r] \in Nat /\ TTL \in Nat
    BY RecordAssumption DEF TypeOK
  <2>3. QED
    BY <1>3, <2>1, <2>2
<1>5. QED
  BY <1>2, <1>3, <1>4

\* The clock reading of a run lies in the past.
StartedInPast == \A r \in Run : started[r] <= clock

\* A record received during a run is fresh by the run's own reading of the clock.
LEMMA ReceivedIsFresh ==
  ASSUME TypeOK, StartedInPast, NEW r \in Run, NEW rec \in Record, rec.fetchedAt = clock
  PROVE  started[r] < rec.fetchedAt + TTL
  BY RecordAssumption DEF TypeOK, StartedInPast

\* A step of one run leaves what every other run was given alone.
LEMMA ServedStep ==
  TypeOK /\ QueuesOK /\ StartedInPast /\ ServedRecords /\ [Next]_vars
    => StartedInPast' /\ ServedRecords'
<1> SUFFICES ASSUME TypeOK, QueuesOK, StartedInPast, ServedRecords, [Next]_vars
             PROVE  StartedInPast' /\ ServedRecords'
  OBVIOUS
<1> USE DEF shared, local, GoTo
<1>1. ASSUME NEW r \in Run, NEW caller \in Kinds, NEW request \in Requests,
             Begin(r, caller, request)
      PROVE  StartedInPast' /\ ServedRecords'
  <2>1. \A k \in Key : applied[r][k] = None /\ stale[r][k] = None
    BY <1>1 DEF Begin, QueuesOK, Nothing
  <2>2. QED
    BY <1>1, <2>1 DEF Begin, TypeOK, StartedInPast, ServedRecords
<1>2. ASSUME NEW r \in Run, LoadCache(r) \/ LoadStore(r)
      PROVE  StartedInPast' /\ ServedRecords'
  <2>1. PICK seen \in [Key -> Record \cup {None}] :
          /\ ApplyRecords(r, Hits(r, seen), seen)
          /\ NoteStale(r, seen)
    BY <1>2, ReplyType DEF LoadCache, LoadStore, Cached
  <2>2. UNCHANGED <<clock, kind, want, started>>
    BY <1>2 DEF LoadCache, LoadStore, Cached
  <2>3. \A s \in Run : s # r => applied'[s] = applied[s] /\ stale'[s] = stale[s]
    BY <2>1 DEF ApplyRecords, NoteStale, TypeOK
  <2>4. \A k \in Key : \/ applied'[r][k] = applied[r][k]
                       \/ k \in Hits(r, seen) /\ applied'[r][k] = seen[k]
    BY <2>1 DEF ApplyRecords, TypeOK
  <2>5. \A k \in Key : \/ stale'[r][k] = stale[r][k]
                       \/ kind[r] = "enrich" /\ k \in Expired(r, seen) /\ stale'[r][k] = seen[k]
    BY <2>1 DEF NoteStale, TypeOK, Newer
  <2>6. QED
    BY <2>2, <2>3, <2>4, <2>5, HitsServed DEF StartedInPast, ServedRecords
<1>3. ASSUME NEW r \in Run, Fetch(r)
      PROVE  StartedInPast' /\ ServedRecords'
  <2>1. PICK answer \in [Batch(r) -> Payload] : FetchAnswered(r, answer)
    BY <1>3 DEF Fetch, FetchAnswered, Got, Usables, Rest
  <2>2. UNCHANGED <<clock, kind, want, started, stale>>
    BY <1>3 DEF Fetch
  <2>3. \A s \in Run : s # r => applied'[s] = applied[s]
    BY <2>1 DEF FetchAnswered, ApplyRecords, TypeOK
  <2>4. ASSUME NEW k \in Key, applied'[r][k] # applied[r][k]
        PROVE  /\ k \in DOMAIN want[r]
               /\ applied'[r][k].id = want[r][k]
               /\ Usable(kind[r], applied'[r][k])
               /\ started[r] < applied'[r][k].fetchedAt + TTL
    <3>1. k \in BatchKeys(r) /\ Usable(kind[r], Received(r, k, answer))
          /\ applied'[r][k] = Received(r, k, answer)
      BY <2>1, <2>4 DEF FetchAnswered, ApplyRecords, Usables, Got, TypeOK
    <3>2. Received(r, k, answer) \in Record /\ k \in DOMAIN want[r]
      BY <3>1, ReceivedType DEF BatchKeys, QueuesOK
    <3>3. Received(r, k, answer).id = want[r][k] /\ Received(r, k, answer).fetchedAt = clock
      BY DEF Received
    <3>4. QED
      BY <3>1, <3>2, <3>3, ReceivedIsFresh
  <2>5. QED
    BY <2>2, <2>3, <2>4 DEF StartedInPast, ServedRecords
<1>4. ASSUME NEW r \in Run,
             \/ SaveCache(r) \/ SaveCacheFails(r) \/ LoadMisses(r) \/ FetchFails(r)
             \/ SaveMisses(r) \/ SaveMissesFails(r) \/ SaveStore(r) \/ SaveStoreFails(r)
             \/ Cancel(r)
      PROVE  StartedInPast' /\ ServedRecords'
  <2>1. UNCHANGED <<clock, kind, want, started, applied, stale>>
    BY <1>4 DEF SaveCache, SaveCacheFails, LoadMisses, FetchFails, SaveMisses,
                SaveMissesFails, SaveStore, SaveStoreFails, Cancel
  <2>2. QED
    BY <2>1 DEF StartedInPast, ServedRecords
<1>5. ASSUME NEW r \in Run, Return(r)
      PROVE  StartedInPast' /\ ServedRecords'
  BY <1>5 DEF Return, TypeOK, StartedInPast, ServedRecords, Nothing
<1>6. CASE Crash
  BY <1>6 DEF Crash, TypeOK, StartedInPast, ServedRecords, Nothing
<1>7. CASE Tick
  BY <1>7 DEF Tick, TypeOK, StartedInPast, ServedRecords
<1>8. CASE UNCHANGED vars
  BY <1>8 DEF vars, StartedInPast, ServedRecords
<1>9. QED
  BY <1>1, <1>2, <1>3, <1>4, <1>5, <1>6, <1>7, <1>8 DEF Next, Step

\* Whoever else writes the shared stores, and under whatever provider ID, no
\* lookup ever shows a record of another ID, an unusable or an expired one.
THEOREM ServedSafe == Spec => []ServedRecords
<1>1. Init => StartedInPast /\ ServedRecords
  BY DEF Init, StartedInPast, ServedRecords, Nothing
<1>2. TypeOK /\ QueuesOK /\ StartedInPast /\ ServedRecords /\ [Next]_vars
        => (StartedInPast /\ ServedRecords)'
  BY ServedStep
<1>3. QED
  BY <1>1, <1>2, InitType, TypeStep, PTL DEF Spec

-----------------------------------------------------------------------------
\* PostgreSQL only moves forward: the guarded upsert is its only writer.
LEMMA StoreStep ==
  ASSUME TypeOK, QueuesOK, [Next]_vars, NEW k \in Key, store[k] # None
  PROVE  store'[k] # None /\ store'[k].fetchedAt >= store[k].fetchedAt
<1> USE DEF shared
<1>1. store[k] \in Record /\ store[k].fetchedAt \in Nat
  BY DEF TypeOK, Record
<1>2. ASSUME NEW r \in Run, SaveStore(r)
      PROVE  store'[k] # None /\ store'[k].fetchedAt >= store[k].fetchedAt
  <2>1. CASE k \in writes[r]
    <3>1. applied[r][k] \in Record /\ store'[k] = Upsert(store[k], applied[r][k])
      BY <1>2, <2>1 DEF SaveStore, QueuesOK
    <3>2. QED
      BY <1>1, <3>1, UpsertKeepsNewest, RecordAssumption
  <2>2. CASE k \notin writes[r]
    BY <1>1, <1>2, <2>2 DEF SaveStore
  <2>3. QED
    BY <2>1, <2>2
<1>3. CASE UNCHANGED store
  BY <1>1, <1>3
<1>4. QED
  BY <1>2, <1>3 DEF Next, Step, vars, Begin, LoadCache, LoadStore, SaveCache, SaveCacheFails,
       LoadMisses, Fetch, FetchFails, SaveMisses, SaveMissesFails, SaveStoreFails, Return,
       Cancel, Crash, Tick

\* Redis only moves forward too, until the entry expires.
LEMMA CacheStep ==
  ASSUME TypeOK, QueuesOK, [Next]_vars, NEW k \in Key, redis[k] # None
  PROVE  \/ redis'[k] = None /\ redis[k].expires <= clock'
         \/ redis'[k] # None /\ redis'[k].record.fetchedAt >= redis[k].record.fetchedAt
<1> USE DEF shared
<1>1. redis[k] \in CacheEntry /\ redis[k].record.fetchedAt \in Nat
  BY DEF TypeOK, CacheEntry, Record
<1>2. ASSUME NEW r \in Run, SaveCache(r)
      PROVE  redis'[k] # None /\ redis'[k].record.fetchedAt >= redis[k].record.fetchedAt
  <2>1. PICK j \in writes[r] :
          redis' = [redis EXCEPT ![j] =
                      CompareAndSet(@, applied[r][j], clock + CacheTTL(r, j))]
    BY <1>2 DEF SaveCache
  <2>2. j \in Key /\ applied[r][j] \in Record
    BY <2>1 DEF TypeOK, QueuesOK
  <2>3. clock + CacheTTL(r, j) \in Nat
    BY <2>2, CacheTTLType DEF TypeOK
  <2>4. CASE j = k
    <3>1. redis'[k] = CompareAndSet(redis[k], applied[r][k], clock + CacheTTL(r, k))
      BY <2>1, <2>4 DEF TypeOK
    <3>2. QED
      BY <1>1, <2>2, <2>3, <2>4, <3>1, CompareAndSetKeepsNewest, RecordAssumption
  <2>5. CASE j # k
    BY <1>1, <2>1, <2>5 DEF TypeOK
  <2>6. QED
    BY <2>4, <2>5
<1>3. CASE Tick
  BY <1>1, <1>3 DEF Tick, TypeOK
<1>4. CASE UNCHANGED redis
  BY <1>1, <1>4
<1>5. QED
  BY <1>2, <1>3, <1>4 DEF Next, Step, vars, Begin, LoadCache, LoadStore, SaveCacheFails,
       LoadMisses, Fetch, FetchFails, SaveMisses, SaveMissesFails, SaveStore, SaveStoreFails,
       Return, Cancel, Crash

\* No interleaving makes either store go back to an older fetch.
THEOREM StoresForward == Spec => StoresOnlyMoveForward
<1>1. TypeOK /\ QueuesOK /\ [Next]_vars =>
        [\A k \in Key :
           /\ store[k] # None =>
                store'[k] # None /\ store'[k].fetchedAt >= store[k].fetchedAt
           /\ redis[k] # None =>
                \/ redis'[k] = None /\ redis[k].expires <= clock'
                \/ redis'[k] # None /\ redis'[k].record.fetchedAt >= redis[k].record.fetchedAt
        ]_vars
  BY StoreStep, CacheStep
<1>2. QED
  BY <1>1, InitType, TypeStep, PTL DEF Spec, StoresOnlyMoveForward

-----------------------------------------------------------------------------
\* The inductive companion of CacheNeverAheadOfStore: what a run is about to
\* write to Redis is in PostgreSQL already, or something newer is.
SavedFirst ==
  "saveStore" \notin Failing =>
    \A r \in Run : pc[r] \in {"promote", "saveCache"} =>
      \A k \in writes[r] :
        store[k] # None /\ applied[r][k].fetchedAt <= store[k].fetchedAt

\* What a run is doing is not disturbed by the steps of another run.
LEMMA Bystander ==
  ASSUME TypeOK, NEW r \in Run, NEW s \in Run, s # r,
         Step(r) \/ Cancel(r) \/ \E caller \in Kinds, request \in Requests : Begin(r, caller, request)
  PROVE  pc'[s] = pc[s] /\ writes'[s] = writes[s] /\ applied'[s] = applied[s]
  BY DEF TypeOK, shared, GoTo, ApplyRecords, Step, Begin, LoadCache, LoadStore, SaveCache,
         SaveCacheFails, LoadMisses, Fetch, FetchFails, SaveMisses, SaveMissesFails,
         SaveStore, SaveStoreFails, Return, Cancel

\* The steps that bring a run to one of the two cache saves, or keep it there.
LEMMA SavedFirstOwnStep ==
  ASSUME TypeOK, QueuesOK, SavedFirst, "saveStore" \notin Failing, NEW r \in Run,
         Step(r), pc'[r] \in {"promote", "saveCache"}, NEW k \in writes'[r]
  PROVE  store'[k] # None /\ applied'[r][k].fetchedAt <= store'[k].fetchedAt
<1> USE DEF shared, GoTo
<1>1. CASE LoadStore(r)
  <2>1. PICK seen \in Reply(r, store, Nothing) :
          /\ ApplyRecords(r, Hits(r, seen), seen)
          /\ writes' = [writes EXCEPT ![r] = Hits(r, seen)]
    BY <1>1 DEF LoadStore
  <2>2. seen \in [Key -> Record \cup {None}] /\ k \in Hits(r, seen)
    BY <2>1, ReplyType DEF TypeOK
  <2>3. k \in Key /\ seen[k] \in Record
    BY <2>2, HitsType
  <2>4. seen = store
    BY <2>1, <2>3, RecordAssumption DEF Reply, Nothing
  <2>5. applied'[r][k] = store[k] /\ store' = store
    BY <1>1, <2>1, <2>2, <2>3, <2>4 DEF LoadStore, ApplyRecords, TypeOK
  <2>6. QED
    BY <2>3, <2>4, <2>5, RecordAssumption DEF Record
<1>2. CASE SaveStore(r)
  <2>1. k \in writes[r] /\ k \in Key /\ applied[r][k] \in Record /\ store[k] \in Record \cup {None}
    BY <1>2 DEF SaveStore, QueuesOK, TypeOK
  <2>2. store'[k] = Upsert(store[k], applied[r][k]) /\ applied' = applied
    BY <1>2, <2>1 DEF SaveStore
  <2>3. QED
    BY <2>1, <2>2, UpsertKeepsNewest, RecordAssumption DEF Record
<1>3. CASE SaveCache(r)
  <2>1. k \in writes[r] /\ pc[r] \in {"promote", "saveCache"}
    BY <1>3 DEF SaveCache, TypeOK
  <2>2. store' = store /\ applied' = applied
    BY <1>3 DEF SaveCache
  <2>3. QED
    BY <2>1, <2>2 DEF SavedFirst
<1>4. CASE SaveStoreFails(r)
  BY <1>4 DEF SaveStoreFails, MayFail, AfterSaveStore, TypeOK
<1>5. CASE \/ LoadCache(r) \/ SaveCacheFails(r) \/ LoadMisses(r) \/ FetchFails(r)
           \/ SaveMisses(r) \/ SaveMissesFails(r) \/ Fetch(r) \/ Return(r)
  BY <1>5 DEF LoadCache, SaveCacheFails, LoadMisses, FetchFails, SaveMisses, SaveMissesFails,
       Fetch, Return, TypeOK, Tier3, NextBatch, AfterSaveCache, AfterSaveMisses, AfterFetch
<1>6. QED
  BY <1>1, <1>2, <1>3, <1>4, <1>5 DEF Step

\* No step of any run brings a run to a cache save before PostgreSQL has its records.
LEMMA SavedFirstStep ==
  TypeOK /\ QueuesOK /\ SavedFirst /\ [Next]_vars => SavedFirst'
<1> SUFFICES ASSUME TypeOK, QueuesOK, SavedFirst, [Next]_vars, "saveStore" \notin Failing,
                    NEW s \in Run, pc'[s] \in {"promote", "saveCache"}, NEW k \in writes'[s]
             PROVE  store'[k] # None /\ applied'[s][k].fetchedAt <= store'[k].fetchedAt
  BY DEF SavedFirst
<1>1. ASSUME pc'[s] = pc[s], writes'[s] = writes[s], applied'[s] = applied[s]
      PROVE  store'[k] # None /\ applied'[s][k].fetchedAt <= store'[k].fetchedAt
  <2>1. /\ k \in Key /\ applied[s][k] \in Record
        /\ store[k] # None /\ applied[s][k].fetchedAt <= store[k].fetchedAt
    BY <1>1 DEF SavedFirst, QueuesOK, TypeOK
  <2>2. store'[k] # None /\ store'[k].fetchedAt >= store[k].fetchedAt
    BY <2>1, StoreStep
  <2>3. store[k] \in Record /\ store'[k] \in Record
    BY <2>1, <2>2, TypeStep DEF TypeOK
  <2>4. QED
    BY <1>1, <2>1, <2>2, <2>3 DEF Record
<1>2. ASSUME NEW r \in Run,
             Step(r) \/ Cancel(r) \/ \E caller \in Kinds, request \in Requests : Begin(r, caller, request)
      PROVE  store'[k] # None /\ applied'[s][k].fetchedAt <= store'[k].fetchedAt
  <2>1. CASE s # r
    BY <1>1, <1>2, <2>1, Bystander
  <2>2. CASE s = r /\ Step(r)
    BY <2>2, SavedFirstOwnStep
  <2>3. CASE s = r /\ Cancel(r)
    BY <1>1, <2>3 DEF Cancel, shared
  <2>4. CASE s = r /\ \E caller \in Kinds, request \in Requests : Begin(r, caller, request)
    BY <2>4 DEF Begin, GoTo, TypeOK
  <2>5. QED
    BY <1>2, <2>1, <2>2, <2>3, <2>4
<1>3. CASE Crash
  BY <1>3 DEF Crash
<1>4. CASE Tick \/ UNCHANGED vars
  BY <1>1, <1>4 DEF Tick, vars, local
<1>5. QED
  BY <1>2, <1>3, <1>4 DEF Next

\* Given that order, no step puts Redis ahead of PostgreSQL.
LEMMA CacheNeverAheadStep ==
  TypeOK /\ QueuesOK /\ SavedFirst /\ CacheNeverAheadOfStore /\ [Next]_vars
    => CacheNeverAheadOfStore'
<1> SUFFICES ASSUME TypeOK, QueuesOK, SavedFirst, CacheNeverAheadOfStore, [Next]_vars,
                    "saveStore" \notin Failing, NEW k \in Key, redis'[k] # None
             PROVE  store'[k] # None /\ redis'[k].record.fetchedAt <= store'[k].fetchedAt
  BY DEF CacheNeverAheadOfStore
<1> USE DEF shared
<1>1. store'[k] \in Record \cup {None} /\ redis'[k] \in CacheEntry
  BY TypeStep, RecordAssumption DEF TypeOK
<1>2. ASSUME redis'[k] = redis[k]
      PROVE  store'[k] # None /\ redis'[k].record.fetchedAt <= store'[k].fetchedAt
  <2>1. store[k] # None /\ redis[k].record.fetchedAt <= store[k].fetchedAt
    BY <1>2 DEF CacheNeverAheadOfStore
  <2>2. store'[k] # None /\ store'[k].fetchedAt >= store[k].fetchedAt
    BY <2>1, StoreStep
  <2>3. store[k] \in Record /\ store'[k] \in Record
    BY <1>1, <2>1, <2>2 DEF TypeOK
  <2>4. QED
    BY <1>1, <1>2, <2>1, <2>2, <2>3 DEF Record, CacheEntry
<1>3. ASSUME NEW r \in Run, SaveCache(r)
      PROVE  store'[k] # None /\ redis'[k].record.fetchedAt <= store'[k].fetchedAt
  <2>1. PICK j \in writes[r] :
          redis' = [redis EXCEPT ![j] =
                      CompareAndSet(@, applied[r][j], clock + CacheTTL(r, j))]
    BY <1>3 DEF SaveCache
  <2>2. CASE j # k
    BY <1>2, <2>1, <2>2 DEF TypeOK
  <2>3. CASE j = k
    <3>1. /\ store' = store /\ store[k] # None
          /\ applied[r][k].fetchedAt <= store[k].fetchedAt
      BY <1>3, <2>3 DEF SaveCache, SavedFirst
    <3>2. k \in Key /\ applied[r][k] \in Record /\ clock + CacheTTL(r, k) \in Nat
      BY <2>3, CacheTTLType DEF TypeOK, QueuesOK
    <3>3. redis'[k] = CompareAndSet(redis[k], applied[r][k], clock + CacheTTL(r, k))
      BY <2>1, <2>3 DEF TypeOK
    <3>4. redis'[k] = redis[k] \/ redis'[k].record = applied[r][k]
      BY <3>3 DEF CompareAndSet
    <3>5. QED
      BY <1>2, <3>1, <3>4
  <2>4. QED
    BY <2>2, <2>3
<1>4. CASE Tick
  BY <1>2, <1>4 DEF Tick, TypeOK
<1>5. CASE UNCHANGED redis
  BY <1>2, <1>5
<1>6. QED
  BY <1>3, <1>4, <1>5 DEF Next, Step, vars, Begin, LoadCache, LoadStore, SaveCacheFails,
       LoadMisses, Fetch, FetchFails, SaveMisses, SaveMissesFails, SaveStore, SaveStoreFails,
       Return, Cancel, Crash

\* As long as PostgreSQL loses no save while ctx is live, Redis never holds a
\* newer fetch than PostgreSQL: not after a deadline cut a run off between its
\* two saves, not after a crash, not through a slow promotion.
THEOREM CacheFollowsStore == Spec => []CacheNeverAheadOfStore
<1>1. Init => SavedFirst /\ CacheNeverAheadOfStore
  BY DEF Init, SavedFirst, CacheNeverAheadOfStore, Nothing
<1>2. TypeOK /\ QueuesOK /\ SavedFirst /\ CacheNeverAheadOfStore /\ [Next]_vars
        => (SavedFirst /\ CacheNeverAheadOfStore)'
  BY SavedFirstStep, CacheNeverAheadStep
<1>3. QED
  BY <1>1, <1>2, InitType, TypeStep, PTL DEF Spec
-----------------------------------------------------------------------------
\* Where a finished ctx leaves a run: it returns, except after an answered batch.
LEMMA CancelledControl ==
  ASSUME NEW r \in Run, NEW S, NEW T, NEW U, cancelled[r], pc[r] \in Calls
  PROVE  /\ NextBatch(r, S) = "return"
         /\ Tier3(r) = "return"
         /\ AfterSaveCache(r) = "return"
         /\ AfterFetch(r, S, T, U) \in {"return", "saveMisses"}
         /\ AfterSaveMisses(r) = "return"
         /\ AfterSaveStore(r) = "return"
  BY DEF NextBatch, Tier3, AfterSaveCache, AfterFetch, AfterSaveMisses, AfterSaveStore

\* No step of a run whose ctx is done issues a call, except the miss save.
LEMMA CancelStep ==
  TypeOK /\ [Next]_vars => \A r \in Run : cancelled[r] /\ Issues(r) => pc'[r] = "saveMisses"
<1> SUFFICES ASSUME TypeOK, [Next]_vars, NEW r \in Run, cancelled[r], Issues(r)
             PROVE  pc'[r] = "saveMisses"
  OBVIOUS
<1> USE DEF shared, local, GoTo
<1>1. /\ pc[r] \in Calls /\ pc'[r] \in Calls
      /\ pc'[r] # pc[r] \/ asking'[r] # asking[r]
      /\ pc[r] # "idle" /\ pc'[r] # "return" /\ pc'[r] # "idle"
  BY DEF Issues, Calls
<1>2. ASSUME NEW s \in Run, NEW caller \in Kinds, NEW request \in Requests,
             Begin(s, caller, request)
      PROVE  FALSE
  BY <1>1, <1>2 DEF Begin, TypeOK
<1>3. ASSUME NEW s \in Run, LoadCache(s)
      PROVE  FALSE
  BY <1>1, <1>3 DEF LoadCache, TypeOK
<1>4. ASSUME NEW s \in Run, LoadStore(s)
      PROVE  FALSE
  BY <1>1, <1>4, CancelledControl DEF LoadStore, TypeOK
<1>5. ASSUME NEW s \in Run, SaveCache(s) \/ SaveCacheFails(s)
      PROVE  FALSE
  BY <1>1, <1>5, CancelledControl DEF SaveCache, SaveCacheFails, TypeOK
<1>6. ASSUME NEW s \in Run, LoadMisses(s)
      PROVE  FALSE
  <2>1. PICK rest : /\ pc' = [pc EXCEPT ![s] = NextBatch(s, rest)]
                    /\ asking' = [asking EXCEPT ![s] = rest]
    BY <1>6 DEF LoadMisses
  <2>2. QED
    BY <1>1, <2>1, CancelledControl DEF TypeOK
<1>7. ASSUME NEW s \in Run, Fetch(s)
      PROVE  pc'[r] = "saveMisses"
  <2>1. PICK answer \in [Batch(s) -> Payload] : FetchAnswered(s, answer)
    BY <1>7 DEF Fetch, FetchAnswered, Got, Usables, Rest
  <2>2. s = r
    BY <1>1, <2>1 DEF FetchAnswered, TypeOK
  <2>3. pc'[r] \in {"return", "saveMisses"}
    BY <1>1, <2>1, <2>2, CancelledControl DEF FetchAnswered, TypeOK
  <2>4. QED
    BY <1>1, <2>3
<1>8. ASSUME NEW s \in Run, FetchFails(s)
      PROVE  FALSE
  BY <1>1, <1>8, CancelledControl DEF FetchFails, TypeOK
<1>9. ASSUME NEW s \in Run, SaveMisses(s) \/ SaveMissesFails(s)
      PROVE  FALSE
  BY <1>1, <1>9, CancelledControl DEF SaveMisses, SaveMissesFails, TypeOK
<1>10. ASSUME NEW s \in Run, SaveStore(s) \/ SaveStoreFails(s)
       PROVE  FALSE
  BY <1>1, <1>10, CancelledControl DEF SaveStore, SaveStoreFails, TypeOK
<1>11. ASSUME NEW s \in Run, Return(s) \/ Cancel(s)
       PROVE  FALSE
  BY <1>1, <1>11 DEF Return, Cancel, TypeOK
<1>12. CASE Crash
  BY <1>1, <1>12 DEF Crash
<1>13. CASE Tick \/ UNCHANGED vars
  BY <1>1, <1>13 DEF Tick, vars
<1>14. QED
  BY <1>2, <1>3, <1>4, <1>5, <1>6, <1>7, <1>8, <1>9, <1>10, <1>11, <1>12, <1>13
     DEF Next, Step

\* A finished ctx stops a run: no read, provider batch or save of records starts
\* any more, wherever in the cascade the deadline strikes.
THEOREM CancelStops == Spec => CancelStopsTheRun
<1>1. TypeOK /\ [Next]_vars
        => [\A r \in Run : cancelled[r] /\ Issues(r) => pc'[r] = "saveMisses"]_vars
  BY CancelStep
<1>2. QED
  BY <1>1, TypeCorrect, PTL DEF Spec, CancelStopsTheRun

-----------------------------------------------------------------------------
\* Some ID the key may resolve to has no data.
MayLackData(k) == \E q \in Requests : k \in DOMAIN q /\ "empty" \in Answers[q[k]]

\* Only such keys wait to be saved as misses, and only they are saved.
MissesOK ==
  /\ \A r \in Run : \A k \in missed[r] : MayLackData(k)
  /\ \A k \in Key : missUntil[k] > clock => MayLackData(k)

\* A failed batch, a full one or another run's never adds a miss.
LEMMA MissesStep == TypeOK /\ QueuesOK /\ MissesOK /\ [Next]_vars => MissesOK'
<1> SUFFICES ASSUME TypeOK, QueuesOK, MissesOK, [Next]_vars PROVE MissesOK'
  OBVIOUS
<1> USE DEF shared, local, GoTo
<1>1. ASSUME NEW r \in Run, Fetch(r)
      PROVE  MissesOK'
  <2>1. PICK answer \in [Batch(r) -> Payload] :
          /\ \A id \in Batch(r) : answer[id] \in Answers[id]
          /\ missed' = [missed EXCEPT ![r] =
                          Dataless(r, [k \in BatchKeys(r) |-> Received(r, k, answer)])]
    BY <1>1 DEF Fetch
  <2>2. ASSUME NEW k \in Dataless(r, [j \in BatchKeys(r) |-> Received(r, j, answer)])
        PROVE  MayLackData(k)
    <3>1. k \in BatchKeys(r) /\ Received(r, k, answer).payload = "empty"
      BY <2>2 DEF Dataless, HasData
    <3>2. k \in DOMAIN want[r] /\ want[r][k] \in Batch(r)
      BY <3>1 DEF BatchKeys, QueuesOK
    <3>3. answer[want[r][k]] = "empty"
      BY <3>1 DEF Received
    <3>4. want[r] \in Requests
      BY <3>2 DEF TypeOK, NoRequest
    <3>5. QED
      BY <2>1, <3>2, <3>3, <3>4 DEF MayLackData
  <2>3. clock' = clock /\ missUntil' = missUntil
    BY <1>1 DEF Fetch
  <2>4. QED
    BY <2>1, <2>2, <2>3 DEF MissesOK, MayLackData, TypeOK
<1>2. ASSUME NEW r \in Run, SaveMisses(r)
      PROVE  MissesOK'
  <2>1. PICK k \in missed[r] :
          /\ missUntil' = [missUntil EXCEPT ![k] = clock + MissTTL]
          /\ missed' = [missed EXCEPT ![r] = @ \ {k}]
    BY <1>2 DEF SaveMisses
  <2>2. MayLackData(k) /\ clock' = clock
    BY <1>2, <2>1 DEF MissesOK, SaveMisses
  <2>3. QED
    BY <2>1, <2>2 DEF MissesOK, MayLackData, TypeOK
<1>3. CASE Tick
  <2>1. \A k \in Key : missUntil'[k] > clock' => missUntil[k] > clock
    BY <1>3 DEF Tick, TypeOK
  <2>2. missed' = missed
    BY <1>3 DEF Tick
  <2>3. QED
    BY <2>1, <2>2 DEF MissesOK, MayLackData
<1>4. ASSUME UNCHANGED <<clock, missUntil>>, \A r \in Run : missed'[r] \subseteq missed[r]
      PROVE  MissesOK'
  BY <1>4 DEF MissesOK, MayLackData
<1>5. ASSUME NEW r \in Run, SaveMissesFails(r) \/ Return(r)
      PROVE  MissesOK'
  BY <1>4, <1>5 DEF SaveMissesFails, Return, TypeOK
<1>6. CASE Crash
  BY <1>4, <1>6 DEF Crash
<1>7. CASE UNCHANGED <<clock, missUntil, missed>>
  BY <1>4, <1>7
<1>8. QED
  BY <1>1, <1>2, <1>3, <1>5, <1>6, <1>7 DEF Next, Step, vars, Begin, LoadCache, LoadStore,
     SaveCache, SaveCacheFails, LoadMisses, FetchFails, SaveStore, SaveStoreFails, Cancel

\* Only a key whose ID was answered without data is ever suppressed: no failed
\* batch, no cut-off save and no other caller's needs make a key a miss.
THEOREM MissesJustified == Spec => []OnlyDatalessKeysAreMissed
<1>1. Init => MissesOK
  BY DEF Init, MissesOK
<1>2. MissesOK => OnlyDatalessKeysAreMissed
  BY DEF MissesOK, MayLackData, OnlyDatalessKeysAreMissed
<1>3. QED
  BY <1>1, <1>2, InitType, TypeStep, MissesStep, PTL DEF Spec
-----------------------------------------------------------------------------
\* The provider is only asked about keys no tier has completed, and the asking
\* has not begun in the first two tiers.
AskingOK ==
  \A r \in Run :
    /\ pc[r] \in {"loadCache", "loadStore", "promote", "loadMisses"} => asking[r] = {}
    /\ \A k \in asking[r] : applied[r][k] = None

\* What one step may do to a run's progress.
Degrades(r) ==
  pc[r] \in Calls /\ pc'[r] # "idle" =>
    /\ ~cancelled[r] =>
         /\ \A k \in Unasked(r) \ Unasked(r)' :
              \/ applied'[r][k] # None
              \/ pc[r] = "loadMisses" /\ missUntil[k] > clock
              \/ pc[r] = "fetch" /\ want[r][k] \in Batch(r)
         /\ pc'[r] = "return" => Unasked(r)' = {}
    /\ \A k \in Key : applied[r][k] # None => applied'[r][k] = applied[r][k]

\* The progress of a run is in these variables.
Untouched(r) ==
  pc'[r] = pc[r] /\ asking'[r] = asking[r] /\ applied'[r] = applied[r] /\ want'[r] = want[r]

\* A run that does nothing loses nothing.
LEMMA UntouchedDegrades ==
  ASSUME NEW r \in Run, Untouched(r)
  PROVE  Degrades(r)
  BY DEF Untouched, Degrades, Unasked, Incomplete, Calls

\* A step is judged by the run it belongs to.
LEMMA OnlyThisRun ==
  ASSUME AskingOK, NEW r \in Run, \A s \in Run \ {r} : Untouched(s), Degrades(r),
         pc'[r] \in {"loadCache", "loadStore", "promote", "loadMisses"} => asking'[r] = {},
         \A k \in asking'[r] : applied'[r][k] = None
  PROVE  AskingOK' /\ \A s \in Run : Degrades(s)
<1>1. \A s \in Run \ {r} : Degrades(s)
  BY UntouchedDegrades
<1>2. AskingOK'
  BY DEF AskingOK, Untouched
<1>3. QED
  BY <1>1, <1>2

\* With ctx live the control of a run only returns when nobody is left to ask.
LEMMA LiveControl ==
  ASSUME NEW r \in Run, NEW S, NEW T, NEW U, ~cancelled[r]
  PROVE  /\ NextBatch(r, S) = "return" => S = {}
         /\ Tier3(r) = "return" => Incomplete(r) = {}
         /\ AfterSaveCache(r) = "return" =>
              (pc[r] = "promote" /\ Incomplete(r) = {}) \/ asking[r] = {}
         /\ AfterFetch(r, T, U, S) = "return" => S = {}
         /\ AfterSaveMisses(r) = "return" => asking[r] = {}
         /\ AfterSaveStore(r) # "return"
  BY DEF NextBatch, Tier3, AfterSaveCache, AfterFetch, AfterSaveMisses, AfterSaveStore

\* The first two tiers lose no key: what a read completes is handed over, and the
\* run goes on with the rest.
LEMMA LoadDegrades ==
  ASSUME TypeOK, AskingOK, NEW r \in Run, LoadCache(r) \/ LoadStore(r)
  PROVE  AskingOK' /\ \A s \in Run : Degrades(s)
<1> USE DEF shared, local, GoTo
<1>1. PICK seen :
        /\ ApplyRecords(r, Hits(r, seen), seen)
        /\ \/ pc' = [pc EXCEPT ![r] = IF cancelled[r] \/ Incomplete(r) \subseteq Hits(r, seen)
                                      THEN "return" ELSE "loadStore"]
           \/ Hits(r, seen) = {} /\ pc' = [pc EXCEPT ![r] = Tier3(r)]
           \/ pc' = [pc EXCEPT ![r] = IF cancelled[r] THEN "return" ELSE "promote"]
  BY DEF LoadCache, LoadStore
<1>2. /\ asking' = asking /\ want' = want /\ asking[r] = {}
      /\ pc[r] \in {"loadCache", "loadStore"}
  BY DEF LoadCache, LoadStore, AskingOK
<1>3. /\ \A s \in Run : s # r => applied'[s] = applied[s] /\ pc'[s] = pc[s]
      /\ applied'[r] = [k \in Key |-> IF k \in Hits(r, seen) THEN seen[k] ELSE applied[r][k]]
  BY <1>1 DEF ApplyRecords, TypeOK
<1>4. /\ \A k \in Key : applied[r][k] # None => applied'[r][k] = applied[r][k]
      /\ \A k \in Hits(r, seen) : seen[k] # None
  BY <1>3 DEF Hits, Matching, Incomplete
<1>5. Incomplete(r) \subseteq Key
  BY WantType DEF Incomplete
<1>6. \A k \in Incomplete(r) : k \in Incomplete(r)' \/ applied'[r][k] # None
  BY <1>2 DEF Incomplete
<1>7. ~cancelled[r] /\ pc'[r] = "return" => \A k \in Incomplete(r) : applied'[r][k] # None
  <2>1. SUFFICES ASSUME ~cancelled[r], pc'[r] = "return" PROVE Incomplete(r) \subseteq Hits(r, seen)
    BY <1>3, <1>4, <1>5
  <2>2. Tier3(r) = "return" => Incomplete(r) = {}
    BY <2>1, LiveControl
  <2>3. QED
    BY <1>1, <2>1, <2>2 DEF TypeOK
<1>8. pc'[r] \in {"loadStore", "promote", "loadMisses", "return"}
  BY <1>1 DEF Tier3, TypeOK
<1>9. Degrades(r)
  BY <1>2, <1>4, <1>6, <1>7, <1>8 DEF Degrades, Unasked
<1>10. QED
  BY <1>2, <1>3, <1>9, OnlyThisRun DEF Untouched

\* Keys are only left out of tier 3 because of a live miss.
LEMMA LoadMissesDegrades ==
  ASSUME TypeOK, NEW r \in Run, LoadMisses(r)
  PROVE  Degrades(r)
<1>1. PICK suppressed \in Reply(r, LiveMisses(r), {}) :
        /\ asking' = [asking EXCEPT ![r] = Incomplete(r) \ suppressed]
        /\ pc' = [pc EXCEPT ![r] = NextBatch(r, Incomplete(r) \ suppressed)]
  BY DEF LoadMisses, GoTo
<1>2. \A k \in suppressed : missUntil[k] > clock
  BY DEF Reply, LiveMisses
<1>3. /\ applied' = applied /\ want' = want /\ pc[r] = "loadMisses"
      /\ asking'[r] = Incomplete(r) \ suppressed
      /\ pc'[r] = NextBatch(r, Incomplete(r) \ suppressed)
  BY <1>1 DEF LoadMisses, local, TypeOK
<1>4. NextBatch(r, Incomplete(r) \ suppressed) \in {"return", "fetch"}
  BY DEF NextBatch
<1>5. ~cancelled[r] /\ pc'[r] = "return" => asking'[r] = {}
  BY <1>3, LiveControl
<1>6. Unasked(r) = Incomplete(r) /\ Unasked(r)' = asking'[r]
  BY <1>3, <1>4 DEF Unasked
<1>7. QED
  BY <1>2, <1>3, <1>5, <1>6 DEF Degrades

\* In tier 3 the keys of one batch leave at a time.
LEMMA BatchDegrades ==
  ASSUME TypeOK, NEW r \in Run, Fetch(r) \/ FetchFails(r),
         asking'[r] = asking[r] \ BatchKeys(r),
         ~cancelled[r] /\ pc'[r] = "return" => asking'[r] = {},
         pc'[r] \in {"return", "fetch", "saveMisses", "saveStore"},
         \A k \in Key : applied[r][k] # None => applied'[r][k] = applied[r][k]
  PROVE  Degrades(r)
<1>1. pc[r] = "fetch"
  BY DEF Fetch, FetchFails
<1>2. Unasked(r) = asking[r] /\ Unasked(r)' = asking'[r]
  BY <1>1 DEF Unasked
<1>3. \A k \in BatchKeys(r) : want[r][k] \in Batch(r)
  BY DEF BatchKeys
<1>4. QED
  BY <1>1, <1>2, <1>3 DEF Degrades

\* Saves take nothing off what is left to do.
LEMMA SaveDegrades ==
  ASSUME NEW r \in Run, pc[r] \in Calls,
         asking'[r] = asking[r] /\ applied'[r] = applied[r] /\ want'[r] = want[r],
         \/ /\ pc[r] = "promote" /\ pc'[r] \in {"promote", Tier3(r)}
            /\ asking[r] = {}
         \/ /\ pc[r] \in {"saveCache", "saveMisses", "saveStore"}
            /\ pc'[r] \in {"return", "fetch", "saveMisses", "saveStore", "saveCache"}
            /\ ~cancelled[r] /\ pc'[r] = "return" => asking[r] = {}
  PROVE  Degrades(r)
<1>1. Incomplete(r)' = Incomplete(r)
  BY DEF Incomplete
<1>2. CASE pc[r] = "promote"
  <2>1. Unasked(r) = Incomplete(r)
    BY <1>2 DEF Unasked
  <2>2. CASE pc'[r] = "return"
    <3>1. ~cancelled[r] => Incomplete(r) = {}
      BY <1>2, <2>2, LiveControl
    <3>2. Unasked(r)' = {}
      BY <1>2, <2>2 DEF Unasked
    <3>3. QED
      BY <2>1, <3>1, <3>2 DEF Degrades
  <2>3. CASE pc'[r] # "return"
    <3>1. pc'[r] \in {"promote", "loadMisses"}
      BY <1>2, <2>3 DEF Tier3
    <3>2. Unasked(r)' = Incomplete(r)'
      BY <3>1 DEF Unasked
    <3>3. QED
      BY <1>1, <2>1, <2>3, <3>2 DEF Degrades
  <2>4. QED
    BY <2>2, <2>3
<1>3. CASE pc[r] # "promote"
  <2>1. Unasked(r) = asking[r] /\ Unasked(r)' = asking'[r]
    BY <1>3 DEF Unasked
  <2>2. QED
    BY <1>3, <2>1 DEF Degrades
<1>4. QED
  BY <1>2, <1>3

\* No step, of whichever run, takes a record back or gives a key up.
LEMMA DegradesStep ==
  TypeOK /\ QueuesOK /\ AskingOK /\ [Next]_vars
    => AskingOK' /\ \A r \in Run : Degrades(r)
<1> SUFFICES ASSUME TypeOK, QueuesOK, AskingOK, [Next]_vars
             PROVE  AskingOK' /\ \A r \in Run : Degrades(r)
  OBVIOUS
<1> USE DEF shared, local, GoTo
<1>1. ASSUME NEW r \in Run, NEW caller \in Kinds, NEW request \in Requests,
             Begin(r, caller, request)
      PROVE  AskingOK' /\ \A s \in Run : Degrades(s)
  <2>1. /\ \A s \in Run \ {r} : Untouched(s)
        /\ pc[r] = "idle" /\ asking'[r] = {}
    BY <1>1 DEF Begin, TypeOK, QueuesOK, Untouched
  <2>2. Degrades(r)
    BY <2>1 DEF Degrades, Calls
  <2>3. QED
    BY <2>1, <2>2, OnlyThisRun
<1>2. ASSUME NEW r \in Run, LoadCache(r) \/ LoadStore(r)
      PROVE  AskingOK' /\ \A s \in Run : Degrades(s)
  BY <1>2, LoadDegrades
<1>3. ASSUME NEW r \in Run, SaveCache(r) \/ SaveCacheFails(r)
      PROVE  AskingOK' /\ \A s \in Run : Degrades(s)
  <2>1. /\ asking' = asking /\ applied' = applied /\ want' = want
        /\ \A s \in Run \ {r} : pc'[s] = pc[s]
        /\ pc[r] \in {"promote", "saveCache"} /\ pc[r] \in Calls
        /\ pc'[r] = AfterSaveCache(r) \/ pc'[r] = pc[r]
    BY <1>3 DEF SaveCache, SaveCacheFails, TypeOK, Calls
  <2>2. CASE pc[r] = "promote"
    <3>1. asking[r] = {} /\ pc'[r] \in {"promote", Tier3(r)}
      BY <2>1, <2>2 DEF AskingOK, AfterSaveCache
    <3>2. Degrades(r)
      BY <2>1, <2>2, <3>1, SaveDegrades
    <3>3. QED
      BY <2>1, <3>1, <3>2, OnlyThisRun DEF Untouched
  <2>3. CASE pc[r] = "saveCache"
    <3>1. pc'[r] \in {"saveCache", NextBatch(r, asking[r])}
      BY <2>1, <2>3 DEF AfterSaveCache
    <3>2. /\ pc'[r] \in {"return", "fetch", "saveCache"}
          /\ ~cancelled[r] /\ pc'[r] = "return" => asking[r] = {}
      BY <3>1, LiveControl DEF NextBatch
    <3>3. Degrades(r)
      BY <2>1, <2>3, <3>2, SaveDegrades
    <3>4. QED
      BY <2>1, <3>2, <3>3, OnlyThisRun DEF Untouched, AskingOK
  <2>4. QED
    BY <2>1, <2>2, <2>3
<1>4. ASSUME NEW r \in Run, LoadMisses(r)
      PROVE  AskingOK' /\ \A s \in Run : Degrades(s)
  <2>1. PICK rest : /\ rest \subseteq Incomplete(r)
                    /\ pc' = [pc EXCEPT ![r] = NextBatch(r, rest)]
                    /\ asking' = [asking EXCEPT ![r] = rest]
    BY <1>4 DEF LoadMisses
  <2>2. applied' = applied /\ want' = want /\ \A k \in rest : applied[r][k] = None
    BY <1>4, <2>1 DEF LoadMisses, Incomplete
  <2>3. /\ asking'[r] = rest /\ pc'[r] \in {"return", "fetch"}
        /\ \A s \in Run \ {r} : Untouched(s)
    BY <2>1, <2>2 DEF TypeOK, NextBatch, Untouched
  <2>4. QED
    BY <1>4, <2>2, <2>3, LoadMissesDegrades, OnlyThisRun
<1>5. ASSUME NEW r \in Run, Fetch(r)
      PROVE  AskingOK' /\ \A s \in Run : Degrades(s)
  <2>1. PICK answer \in [Batch(r) -> Payload] : FetchAnswered(r, answer)
    BY <1>5 DEF Fetch, FetchAnswered, Got, Usables, Rest
  <2>2. Usables(r, answer) \subseteq BatchKeys(r) /\ BatchKeys(r) \subseteq asking[r]
    BY DEF Usables, BatchKeys
  <2>3. asking[r] \subseteq Key /\ \A k \in asking[r] : applied[r][k] = None
    BY DEF TypeOK, AskingOK
  <2>4. /\ \A s \in Run \ {r} : Untouched(s)
        /\ asking'[r] = Rest(r)
        /\ \A k \in Key \ Usables(r, answer) : applied'[r][k] = applied[r][k]
    BY <1>5, <2>1 DEF Fetch, FetchAnswered, ApplyRecords, TypeOK, Untouched
  <2>5. /\ ~cancelled[r] /\ pc'[r] = "return" => Rest(r) = {}
        /\ pc'[r] \in {"return", "fetch", "saveMisses", "saveStore"}
    <3>1. pc[r] \in Calls
      BY <1>5 DEF Fetch, Calls
    <3>2. QED
      BY <2>1, <3>1, LiveControl, ControlType DEF FetchAnswered, TypeOK
  <2>6. Degrades(r)
    <3>1. \A k \in Key : applied[r][k] # None => applied'[r][k] = applied[r][k]
      BY <2>2, <2>3, <2>4
    <3>2. asking'[r] = asking[r] \ BatchKeys(r)
      BY <2>4 DEF Rest
    <3>3. QED
      BY <1>5, <2>4, <2>5, <3>1, <3>2, BatchDegrades
  <2>7. \A k \in Rest(r) : applied'[r][k] = None
    BY <2>2, <2>3, <2>4 DEF Rest
  <2>8. QED
    BY <2>4, <2>5, <2>6, <2>7, OnlyThisRun
<1>6. ASSUME NEW r \in Run, FetchFails(r)
      PROVE  AskingOK' /\ \A s \in Run : Degrades(s)
  <2>1. /\ applied' = applied /\ want' = want
        /\ asking'[r] = asking[r] \ BatchKeys(r)
        /\ pc'[r] = NextBatch(r, asking[r] \ BatchKeys(r))
        /\ \A s \in Run \ {r} : Untouched(s)
    BY <1>6 DEF FetchFails, TypeOK, Untouched
  <2>2. /\ pc'[r] \in {"return", "fetch"}
        /\ ~cancelled[r] /\ pc'[r] = "return" => asking'[r] = {}
    BY <2>1, LiveControl DEF NextBatch
  <2>3. Degrades(r)
    BY <1>6, <2>1, <2>2, BatchDegrades
  <2>4. QED
    BY <2>1, <2>2, <2>3, OnlyThisRun DEF AskingOK
<1>7. ASSUME NEW r \in Run,
             \/ SaveMisses(r) \/ SaveMissesFails(r)
             \/ SaveStore(r) \/ SaveStoreFails(r)
      PROVE  AskingOK' /\ \A s \in Run : Degrades(s)
  <2>1. /\ asking' = asking /\ applied' = applied /\ want' = want
        /\ \A s \in Run \ {r} : Untouched(s)
        /\ pc[r] \in {"saveMisses", "saveStore"} /\ pc[r] \in Calls
        /\ pc'[r] \in {"saveMisses", AfterSaveMisses(r), AfterSaveStore(r)}
    BY <1>7 DEF SaveMisses, SaveMissesFails, SaveStore, SaveStoreFails, TypeOK, Calls, Untouched
  <2>2. pc'[r] \in {"return", "fetch", "saveMisses", "saveStore", "saveCache"}
    BY <2>1, ControlType
  <2>3. ~cancelled[r] /\ pc'[r] = "return" => asking[r] = {}
    BY <2>1, LiveControl
  <2>4. Degrades(r)
    BY <2>1, <2>2, <2>3, SaveDegrades
  <2>5. QED
    BY <2>1, <2>2, <2>4, OnlyThisRun DEF AskingOK
<1>8. ASSUME NEW r \in Run, Return(r)
      PROVE  AskingOK' /\ \A s \in Run : Degrades(s)
  <2>1. /\ asking'[r] = {} /\ pc'[r] = "idle"
        /\ \A s \in Run \ {r} : Untouched(s)
    BY <1>8 DEF Return, TypeOK, Untouched
  <2>2. QED
    BY <2>1, OnlyThisRun DEF Degrades
<1>9. CASE Crash
  BY <1>9 DEF Crash, AskingOK, Degrades
<1>10. ASSUME UNCHANGED <<pc, asking, applied, want>>
       PROVE  AskingOK' /\ \A s \in Run : Degrades(s)
  BY <1>10, UntouchedDegrades DEF AskingOK, Untouched
<1>11. QED
  BY <1>1, <1>2, <1>3, <1>4, <1>5, <1>6, <1>7, <1>8, <1>9, <1>10
     DEF Next, Step, vars, Cancel, Tick

\* Failures only degrade a run: with its ctx live every key it is asked for is
\* completed, suppressed by a live miss or put to the provider before it returns,
\* and what the caller was given is never replaced.
THEOREM FailuresDegrade == Spec => FailuresOnlyDegrade
<1>1. Init => AskingOK
  BY DEF Init, AskingOK
<1>2. TypeOK /\ QueuesOK /\ AskingOK /\ [Next]_vars => AskingOK' /\ [\A r \in Run : Degrades(r)]_vars
  BY DegradesStep
<1>3. [\A r \in Run : Degrades(r)]_vars <=>
        [\A r \in Run : pc[r] \in Calls /\ pc'[r] # "idle" =>
           /\ ~cancelled[r] =>
                /\ \A k \in Unasked(r) \ Unasked(r)' :
                     \/ applied'[r][k] # None
                     \/ pc[r] = "loadMisses" /\ missUntil[k] > clock
                     \/ pc[r] = "fetch" /\ want[r][k] \in Batch(r)
                /\ pc'[r] = "return" => Unasked(r)' = {}
           /\ \A k \in Key : applied[r][k] # None => applied'[r][k] = applied[r][k]]_vars
  BY DEF Degrades
<1>4. QED
  BY <1>1, <1>2, <1>3, InitType, TypeStep, PTL DEF Spec, FailuresOnlyDegrade
-----------------------------------------------------------------------------
Prompt == 2 * Budget < TTL /\ Failing \cap {"saveStore", "saveCache", "promote"} = {}

ReadsTypeOK == served \in [Key -> Nat] /\ floor \in [Run -> [Key -> Nat]]

\* What the earlier theorems say of every reachable state.
Base == /\ TypeOK /\ QueuesOK /\ StartedInPast /\ ServedRecords
        /\ SavedFirst /\ CacheNeverAheadOfStore

\* A fetch time that somebody still holds.
Known(k, time) ==
  \/ store[k] # None /\ store[k].fetchedAt = time
  \/ redis[k] # None /\ redis[k].record.fetchedAt = time
  \/ \E r \in Run : applied[r][k] # None /\ applied[r][k].fetchedAt = time

InStore(k, time) == store[k] # None /\ store[k].fetchedAt >= time

\* Redis has it or something newer, unless it has had the time to expire there.
Covered(k, time) ==
  /\ redis[k] # None => redis[k].record.fetchedAt >= time
  /\ clock < time + TTL => redis[k] # None

\* Whoever is going to save an older record began too early to outlive the
\* entry of the newer one.
Young(k, time) ==
  \A r \in Run : k \in writes[r] /\ applied[r][k].fetchedAt < time
                 => started[r] <= time + Budget

\* Runs are short, and a record is not dropped from Redis before its TTL.
ShortOK ==
  /\ \A r \in Run : pc[r] # "idle" => clock <= started[r] + Budget
  /\ \A r \in Run : ~cancelled[r] /\ pc[r] \notin {"promote", "saveMisses", "saveStore", "saveCache"}
       => writes[r] = {}
  /\ \A k \in Key : redis[k] # None => redis[k].expires >= redis[k].record.fetchedAt + TTL
  /\ \A k \in Key : store[k] # None => store[k].fetchedAt <= clock
  /\ \A r \in Run : \A k \in Key : applied[r][k] # None => applied[r][k].fetchedAt <= clock

\* A record a run holds is in PostgreSQL, or the run fetched it and has yet to
\* save it or was cut off; and it is covered by Redis once it is saved.
HeldOK ==
  \A r \in Run : \A k \in Key : applied[r][k] # None =>
    /\ \/ InStore(k, applied[r][k].fetchedAt)
       \/ /\ started[r] <= applied[r][k].fetchedAt
          /\ cancelled[r] \/ (k \in writes[r] /\ pc[r] \in {"saveMisses", "saveStore"})
    /\ cancelled[r] \/ k \in writes[r] \/ Covered(k, applied[r][k].fetchedAt)

YoungOK == \A k \in Key : \A time \in Nat : Known(k, time) => Young(k, time)

\* What was answered is stored, covered, and safe from older records.
AnsweredOK ==
  \A k \in Key : served[k] > 0 =>
    InStore(k, served[k]) /\ Covered(k, served[k]) /\ Young(k, served[k])

FloorOK ==
  \A r \in Run : \A k \in Key :
    /\ floor[r][k] <= served[k]
    /\ applied[r][k] # None => applied[r][k].fetchedAt >= floor[r][k]

ReadsOK == ShortOK /\ HeldOK /\ YoungOK /\ AnsweredOK /\ FloorOK

-----------------------------------------------------------------------------
\* What a step can do to a run and one of its keys.
Over(r) == pc'[r] = "idle" /\ applied'[r] = Nothing /\ writes'[r] = {}

Begins(r) ==
  /\ pc[r] = "idle" /\ pc'[r] = "loadCache" /\ applied'[r] = Nothing /\ writes'[r] = {}
  /\ started'[r] = clock /\ clock' = clock

GoesOn(r) == pc[r] # "idle" /\ pc'[r] # "idle" /\ started'[r] = started[r]

Saving(r) == pc[r] \in {"saveMisses", "saveStore"}

\* The record stays; while ctx is live a pending save is kept or done.
Keeps(r, k) ==
  /\ applied'[r][k] = applied[r][k]
  /\ k \in writes'[r] => k \in writes[r]
  /\ cancelled[r] => cancelled'[r]
  /\ k \in writes[r] /\ ~cancelled'[r] =>
       \/ k \in writes'[r] /\ (Saving(r) => Saving(r)' \/ InStore(k, applied[r][k].fetchedAt)')
       \/ ~Saving(r) /\ redis'[k] # None
          /\ redis'[k].record.fetchedAt >= applied[r][k].fetchedAt

TakesCached(r, k) ==
  /\ redis[k] # None /\ applied'[r][k] = redis[k].record /\ k \notin writes'[r]
  /\ UNCHANGED <<clock, redis, store>>

TakesStored(r, k) ==
  /\ store[k] # None /\ applied'[r][k] = store[k] /\ k \in writes'[r]
  /\ UNCHANGED <<clock, redis, store>>

Receives(r, k) ==
  /\ applied'[r][k] # None /\ applied'[r][k].fetchedAt = clock
  /\ k \in writes'[r] /\ (cancelled'[r] \/ Saving(r)')
  /\ UNCHANGED <<clock, redis, store>>

Change(r, k) ==
  \/ Over(r) \/ Begins(r)
  \/ GoesOn(r) /\ (Keeps(r, k) \/ TakesCached(r, k) \/ TakesStored(r, k) \/ Receives(r, k))

\* A run is not touched by the steps of the others.
LEMMA Elsewhere ==
  ASSUME TypeOK, NEW r \in Run, NEW s \in Run, s # r,
         Step(s) \/ Cancel(s) \/ \E caller \in Kinds, request \in Requests : Begin(s, caller, request)
  PROVE  /\ pc'[r] = pc[r] /\ writes'[r] = writes[r] /\ applied'[r] = applied[r]
         /\ started'[r] = started[r] /\ cancelled'[r] = cancelled[r]
  BY DEF TypeOK, shared, GoTo, ApplyRecords, Step, Begin, LoadCache, LoadStore, SaveCache,
         SaveCacheFails, LoadMisses, Fetch, FetchFails, SaveMisses, SaveMissesFails,
         SaveStore, SaveStoreFails, Return, Cancel

\* A run that is left alone keeps what it has.
LEMMA LeftAlone ==
  ASSUME TypeOK, QueuesOK, NEW r \in Run, NEW k \in Key,
         pc'[r] = pc[r], writes'[r] = writes[r], applied'[r] = applied[r],
         started'[r] = started[r], cancelled[r] => cancelled'[r]
  PROVE  Change(r, k)
<1>1. CASE pc[r] = "idle"
  BY <1>1 DEF Change, Over, QueuesOK
<1>2. CASE pc[r] # "idle"
  BY <1>2 DEF Change, GoesOn, Keeps, Saving
<1>3. QED
  BY <1>1, <1>2

\* The reads of the first two tiers.
LEMMA LoadChange ==
  ASSUME TypeOK, QueuesOK, ShortOK, NEW r \in Run, NEW k \in Key, LoadCache(r) \/ LoadStore(r)
  PROVE  Change(r, k)
<1> USE DEF shared, GoTo
<1>1. /\ UNCHANGED <<clock, redis, store, started, cancelled>>
      /\ GoesOn(r) /\ ~Saving(r) /\ (k \in writes[r] => cancelled[r])
  BY DEF LoadCache, LoadStore, GoesOn, Saving, ShortOK, TypeOK, Tier3
<1>2. CASE LoadCache(r)
  <2>1. PICK seen \in Reply(r, Cached, Nothing) : ApplyRecords(r, Hits(r, seen), seen)
    BY <1>2 DEF LoadCache
  <2>2. seen \in [Key -> Record \cup {None}] /\ writes' = writes
    BY <1>2, <2>1, ReplyType DEF LoadCache, Cached
  <2>3. CASE k \in Hits(r, seen)
    <3>1. applied[r][k] = None /\ seen[k] \in Record
      BY <2>2, <2>3, HitsType DEF Incomplete
    <3>2. seen = Cached
      BY <2>1, <3>1, RecordAssumption DEF Reply, Nothing
    <3>3. redis[k] # None /\ applied'[r][k] = redis[k].record
      BY <2>1, <2>3, <3>1, <3>2, RecordAssumption DEF Cached, ApplyRecords, TypeOK
    <3>4. k \notin writes'[r]
      BY <2>2, <3>1, RecordAssumption DEF QueuesOK
    <3>5. QED
      BY <1>1, <3>3, <3>4 DEF Change, TakesCached
  <2>4. CASE k \notin Hits(r, seen)
    <3>1. applied'[r][k] = applied[r][k]
      BY <2>1, <2>4 DEF ApplyRecords, TypeOK
    <3>2. QED
      BY <1>1, <2>2, <3>1 DEF Change, Keeps
  <2>5. QED
    BY <2>3, <2>4
<1>3. CASE LoadStore(r)
  <2>1. PICK seen \in Reply(r, store, Nothing) :
          ApplyRecords(r, Hits(r, seen), seen) /\ writes' = [writes EXCEPT ![r] = Hits(r, seen)]
    BY <1>3 DEF LoadStore
  <2>2. seen \in [Key -> Record \cup {None}] /\ writes'[r] = Hits(r, seen)
    BY <2>1, ReplyType DEF TypeOK
  <2>3. CASE k \in Hits(r, seen)
    <3>1. seen[k] \in Record
      BY <2>2, <2>3, HitsType
    <3>2. seen = store
      BY <2>1, <3>1, RecordAssumption DEF Reply, Nothing
    <3>3. store[k] # None /\ applied'[r][k] = store[k]
      BY <2>1, <2>3, <3>1, <3>2, RecordAssumption DEF ApplyRecords, TypeOK
    <3>4. QED
      BY <1>1, <2>2, <2>3, <3>3 DEF Change, TakesStored
  <2>4. CASE k \notin Hits(r, seen)
    <3>1. applied'[r][k] = applied[r][k]
      BY <2>1, <2>4 DEF ApplyRecords, TypeOK
    <3>2. QED
      BY <1>1, <2>2, <2>4, <3>1 DEF Change, Keeps
  <2>5. QED
    BY <2>3, <2>4
<1>4. QED
  BY <1>2, <1>3

\* An answered batch.
LEMMA FetchChange ==
  ASSUME TypeOK, QueuesOK, ShortOK, NEW r \in Run, NEW k \in Key, Fetch(r)
  PROVE  Change(r, k)
<1> USE DEF shared, GoTo
<1>1. PICK answer \in [Batch(r) -> Payload] : FetchAnswered(r, answer)
  BY DEF Fetch, FetchAnswered, Got, Usables, Rest
<1>2. /\ UNCHANGED <<clock, redis, store, started, cancelled>>
      /\ pc[r] = "fetch" /\ ~Saving(r) /\ (k \in writes[r] => cancelled[r])
  BY DEF Fetch, Saving, ShortOK, TypeOK
<1>3. /\ pc'[r] = AfterFetch(r, Dataless(r, Got(r, answer)), Usables(r, answer), Rest(r))
      /\ writes'[r] = Usables(r, answer)
  BY <1>1 DEF FetchAnswered, TypeOK
<1>4. GoesOn(r)
  BY <1>2, <1>3 DEF GoesOn, AfterFetch, NextBatch
<1>5. CASE k \in Usables(r, answer)
  <2>1. k \in BatchKeys(r) /\ applied'[r][k] = Received(r, k, answer)
    BY <1>1, <1>5 DEF FetchAnswered, ApplyRecords, Usables, Got, TypeOK
  <2>2. applied'[r][k] \in Record /\ applied'[r][k].fetchedAt = clock
    BY <2>1, ReceivedType DEF Received
  <2>3. cancelled'[r] \/ Saving(r)'
    BY <1>2, <1>3, <1>5 DEF AfterFetch, Saving
  <2>4. QED
    BY <1>2, <1>3, <1>4, <1>5, <2>2, <2>3, RecordAssumption DEF Change, Receives
<1>6. CASE k \notin Usables(r, answer)
  <2>1. applied'[r][k] = applied[r][k]
    BY <1>1, <1>6 DEF FetchAnswered, ApplyRecords, TypeOK
  <2>2. QED
    BY <1>2, <1>3, <1>4, <1>6, <2>1 DEF Change, Keeps
<1>7. QED
  BY <1>5, <1>6

\* The saves, done or failed.
LEMMA SaveChange ==
  ASSUME Prompt, TypeOK, QueuesOK, NEW r \in Run, NEW k \in Key,
         \/ SaveCache(r) \/ SaveCacheFails(r)
         \/ SaveMisses(r) \/ SaveMissesFails(r) \/ SaveStore(r) \/ SaveStoreFails(r)
  PROVE  Change(r, k)
<1> USE DEF shared, GoTo
<1>0. /\ UNCHANGED <<clock, started, cancelled, applied>> /\ GoesOn(r)
      /\ k \in writes[r] => applied[r][k] \in Record
  BY ControlType DEF SaveCache, SaveCacheFails, SaveMisses, SaveMissesFails, SaveStore,
     SaveStoreFails, GoesOn, QueuesOK, TypeOK, Calls
<1>1. CASE SaveCache(r)
  <2>1. PICK j \in writes[r] :
          /\ redis' = [redis EXCEPT ![j] =
                         CompareAndSet(@, applied[r][j], clock + CacheTTL(r, j))]
          /\ writes' = [writes EXCEPT ![r] = @ \ {j}]
    BY <1>1 DEF SaveCache
  <2>2. ~Saving(r) /\ writes'[r] = writes[r] \ {j}
    BY <1>1, <2>1 DEF SaveCache, Saving, TypeOK
  <2>3. CASE j = k
    <3>1. redis'[k] = CompareAndSet(redis[k], applied[r][k], clock + CacheTTL(r, k))
      BY <2>1, <2>3 DEF TypeOK
    <3>2. /\ redis[k] \in CacheEntry \cup {None} /\ applied[r][k] \in Record
          /\ clock + CacheTTL(r, k) \in Nat
      BY <1>0, <2>1, <2>3, CacheTTLType DEF TypeOK
    <3>3. redis'[k] \in CacheEntry /\ redis'[k].record.fetchedAt >= applied[r][k].fetchedAt
      BY <3>1, <3>2 DEF CompareAndSet, CacheEntry, Record
    <3>4. QED
      BY <1>0, <2>2, <3>3, RecordAssumption DEF Change, Keeps
  <2>4. CASE j # k
    BY <1>0, <2>2, <2>4 DEF Change, Keeps
  <2>5. QED
    BY <2>3, <2>4
<1>2. CASE SaveCacheFails(r)
  <2>1. cancelled[r] /\ writes'[r] = {}
    BY <1>2 DEF SaveCacheFails, MayFail, Prompt, TypeOK
  <2>2. QED
    BY <1>0, <2>1 DEF Change, Keeps
<1>3. CASE SaveMisses(r) \/ SaveMissesFails(r)
  <2>1. /\ writes' = writes
        /\ k \in writes[r] /\ ~cancelled[r] => pc'[r] \in {"saveMisses", "saveStore"}
    BY <1>3 DEF SaveMisses, SaveMissesFails, AfterSaveMisses, TypeOK
  <2>2. QED
    BY <1>0, <2>1 DEF Change, Keeps, Saving
<1>4. CASE SaveStore(r)
  <2>1. writes' = writes /\ (k \in writes[r] => store'[k] = Upsert(store[k], applied[r][k]))
    BY <1>4 DEF SaveStore
  <2>2. k \in writes[r] => InStore(k, applied[r][k].fetchedAt)'
    <3>1. store[k] \in Record \cup {None}
      BY DEF TypeOK
    <3>2. QED
      BY <1>0, <2>1, <3>1, UpsertKeepsNewest, RecordAssumption DEF InStore
  <2>3. QED
    BY <1>0, <2>1, <2>2 DEF Change, Keeps
<1>5. CASE SaveStoreFails(r)
  <2>1. cancelled[r] /\ writes' = writes
    BY <1>5 DEF SaveStoreFails, MayFail, Prompt, TypeOK
  <2>2. QED
    BY <1>0, <2>1 DEF Change, Keeps
<1>6. QED
  BY <1>1, <1>2, <1>3, <1>4, <1>5

\* Every step, for every run and key.
LEMMA RunChange ==
  ASSUME Prompt, TypeOK, QueuesOK, ShortOK, [Next]_vars, NEW r \in Run, NEW k \in Key
  PROVE  Change(r, k)
<1> USE DEF shared, local, GoTo
<1>1. ASSUME NEW s \in Run, s # r,
             Step(s) \/ Cancel(s) \/ \E caller \in Kinds, request \in Requests : Begin(s, caller, request)
      PROVE  Change(r, k)
  BY <1>1, Elsewhere, LeftAlone
<1>2. CASE \E caller \in Kinds, request \in Requests : Begin(r, caller, request)
  <2>1. /\ pc[r] = "idle" /\ pc'[r] = "loadCache" /\ started'[r] = clock
        /\ UNCHANGED <<clock, writes, applied>>
    BY <1>2 DEF Begin, TypeOK
  <2>2. QED
    BY <2>1 DEF Change, Begins, QueuesOK
<1>3. CASE Cancel(r)
  BY <1>3, LeftAlone DEF Cancel, TypeOK
<1>4. CASE Return(r)
  BY <1>4 DEF Return, TypeOK, Change, Over
<1>5. CASE LoadMisses(r) \/ FetchFails(r)
  <2>1. /\ GoesOn(r) /\ UNCHANGED <<applied, writes, cancelled>> /\ ~Saving(r)
    BY <1>5, ControlType DEF LoadMisses, FetchFails, GoesOn, Saving, NextBatch, TypeOK
  <2>2. QED
    BY <2>1 DEF Change, Keeps
<1>6. CASE Crash
  BY <1>6 DEF Crash, Change, Over
<1>7. CASE Tick \/ UNCHANGED vars
  BY <1>7, LeftAlone DEF Tick, vars
<1>8. QED
  BY <1>1, <1>2, <1>3, <1>4, <1>5, <1>6, <1>7, LoadChange, FetchChange, SaveChange
     DEF Next, Step

\* What a step can do to the entry of a key in Redis.
LEMMA CacheChange ==
  ASSUME TypeOK, QueuesOK, [Next]_vars, NEW k \in Key
  PROVE  \/ redis'[k] = redis[k] /\ clock' \in {clock, clock + 1}
         \/ redis'[k] = None /\ redis[k] # None /\ redis[k].expires <= clock'
            /\ clock' = clock + 1
         \/ clock' = clock /\ \E r \in Run :
              /\ pc[r] \in {"promote", "saveCache"} /\ k \in writes[r]
              /\ redis'[k] = CompareAndSet(redis[k], applied[r][k], clock + CacheTTL(r, k))
<1> USE DEF shared
<1>1. ASSUME NEW r \in Run, SaveCache(r)
      PROVE  \/ redis'[k] = redis[k] /\ clock' = clock
             \/ clock' = clock /\ \E s \in Run :
                  /\ pc[s] \in {"promote", "saveCache"} /\ k \in writes[s]
                  /\ redis'[k] = CompareAndSet(redis[k], applied[s][k], clock + CacheTTL(s, k))
  <2>1. PICK j \in writes[r] :
          redis' = [redis EXCEPT ![j] =
                      CompareAndSet(@, applied[r][j], clock + CacheTTL(r, j))]
    BY <1>1 DEF SaveCache
  <2>2. clock' = clock /\ pc[r] \in {"promote", "saveCache"}
    BY <1>1 DEF SaveCache
  <2>3. QED
    BY <2>1, <2>2 DEF TypeOK
<1>2. CASE Tick
  BY <1>2 DEF Tick, TypeOK
<1>3. CASE UNCHANGED <<clock, redis>>
  BY <1>3
<1>4. QED
  BY <1>1, <1>2, <1>3 DEF Next, Step, vars, Begin, LoadCache, LoadStore, SaveCacheFails,
       LoadMisses, Fetch, FetchFails, SaveMisses, SaveMissesFails, SaveStore, SaveStoreFails,
       Return, Cancel, Crash

\* PostgreSQL keeps a record or takes one that a run holds.
LEMMA StoreChange ==
  ASSUME TypeOK, QueuesOK, [Next]_vars, NEW k \in Key
  PROVE  \/ store'[k] = store[k]
         \/ clock' = clock
            /\ \E r \in Run : k \in writes[r] /\ store'[k] = applied[r][k]
<1> USE DEF shared
<1>1. ASSUME NEW r \in Run, SaveStore(r)
      PROVE  \/ store'[k] = store[k]
             \/ clock' = clock
                /\ \E s \in Run : k \in writes[s] /\ store'[k] = applied[s][k]
  BY <1>1 DEF SaveStore, Upsert
<1>2. CASE UNCHANGED store
  BY <1>2
<1>3. QED
  BY <1>1, <1>2 DEF Next, Step, vars, Begin, LoadCache, LoadStore, SaveCache, SaveCacheFails,
       LoadMisses, Fetch, FetchFails, SaveMisses, SaveMissesFails, SaveStoreFails, Return,
       Cancel, Crash, Tick

-----------------------------------------------------------------------------
\* What is stored stays stored.
LEMMA InStoreStep ==
  ASSUME TypeOK, QueuesOK, TypeOK', [Next]_vars, NEW k \in Key, NEW time \in Nat,
         InStore(k, time)
  PROVE  InStore(k, time)'
<1>1. store'[k] # None /\ store'[k].fetchedAt >= store[k].fetchedAt
  BY StoreStep DEF InStore
<1>2. store[k] \in Record /\ store'[k] \in Record
  BY <1>1 DEF InStore, TypeOK
<1>3. QED
  BY <1>1, <1>2 DEF InStore, Record

\* An entry is put into Redis for its whole TTL at least.
LEMMA ExpiresLate ==
  ASSUME TypeOK, QueuesOK, StartedInPast, ServedRecords, ShortOK,
         NEW r \in Run, NEW k \in writes[r]
  PROVE  clock + CacheTTL(r, k) >= applied[r][k].fetchedAt + TTL
<1>1. /\ k \in Key /\ applied[r][k] # None /\ applied[r][k].fetchedAt \in Nat
      /\ started[r] \in Nat /\ clock \in Nat /\ TTL \in Nat /\ started[r] <= clock
  BY RecordAssumption DEF TypeOK, QueuesOK, StartedInPast, Record
<1>2. applied[r][k].fetchedAt <= clock /\ started[r] < applied[r][k].fetchedAt + TTL
  BY <1>1 DEF ShortOK, ServedRecords
<1>3. QED
  BY <1>1, <1>2 DEF Fresh, RemainingTTL, CacheTTL

\* Time only passes while every run has some of its budget left.
LEMMA TimeStep ==
  ASSUME TypeOK, [Next]_vars
  PROVE  /\ clock \in Nat /\ clock' \in {clock, clock + 1}
         /\ \A r \in Run : pc'[r] # "idle" =>
              \/ pc[r] = "idle" /\ started'[r] = clock /\ clock' = clock
              \/ /\ pc[r] # "idle" /\ started'[r] = started[r]
                 /\ clock' = clock \/ clock - started[r] < Budget
<1> USE DEF shared, local, GoTo
<1>1. clock \in Nat
  BY DEF TypeOK
<1>2. ASSUME NEW s \in Run, NEW caller \in Kinds, NEW request \in Requests,
             Begin(s, caller, request)
      PROVE  /\ clock' = clock
             /\ \A r \in Run : pc'[r] # "idle" =>
                  \/ pc[r] = "idle" /\ started'[r] = clock
                  \/ pc[r] # "idle" /\ started'[r] = started[r]
  BY <1>2 DEF Begin, TypeOK
<1>3. ASSUME NEW s \in Run, Step(s) \/ Cancel(s)
      PROVE  /\ clock' = clock
             /\ \A r \in Run : pc'[r] # "idle" => pc[r] # "idle" /\ started'[r] = started[r]
  BY <1>3 DEF TypeOK, Step, Cancel, LoadCache, LoadStore, SaveCache, SaveCacheFails, LoadMisses,
     Fetch, FetchFails, SaveMisses, SaveMissesFails, SaveStore, SaveStoreFails, Return, Calls
<1>4. CASE Crash
  BY <1>1, <1>4 DEF Crash
<1>5. CASE Tick
  BY <1>1, <1>5 DEF Tick
<1>6. CASE UNCHANGED vars
  BY <1>1, <1>6 DEF vars
<1>7. QED
  BY <1>1, <1>2, <1>3, <1>4, <1>5, <1>6 DEF Next

\* Between two saves a run whose ctx is live has nothing left to save.
LEMMA WritesStep ==
  ASSUME Prompt, TypeOK, QueuesOK, ShortOK, [Next]_vars, NEW r \in Run, ~cancelled'[r],
         pc'[r] \notin {"promote", "saveMisses", "saveStore", "saveCache"}
  PROVE  writes'[r] = {}
<1> USE DEF shared, local, GoTo
<1>1. ASSUME NEW s \in Run, s # r,
             Step(s) \/ Cancel(s) \/ \E caller \in Kinds, request \in Requests : Begin(s, caller, request)
      PROVE  writes'[r] = {}
  BY <1>1, Elsewhere DEF ShortOK
<1>2. CASE \E caller \in Kinds, request \in Requests : Begin(r, caller, request)
  BY <1>2 DEF Begin, QueuesOK, TypeOK
<1>3. CASE Cancel(r)
  BY <1>3 DEF Cancel, TypeOK
<1>4. CASE LoadCache(r) \/ LoadMisses(r) \/ FetchFails(r)
  BY <1>4 DEF LoadCache, LoadMisses, FetchFails, ShortOK
<1>5. CASE LoadStore(r)
  BY <1>5 DEF LoadStore, TypeOK
<1>6. CASE SaveCache(r)
  BY <1>6 DEF SaveCache, TypeOK
<1>7. CASE SaveCacheFails(r) \/ Return(r)
  BY <1>7 DEF SaveCacheFails, Return, TypeOK
<1>8. CASE Fetch(r)
  <2>1. PICK answer \in [Batch(r) -> Payload] : FetchAnswered(r, answer)
    BY <1>8 DEF Fetch, FetchAnswered, Got, Usables, Rest
  <2>2. /\ pc'[r] = AfterFetch(r, Dataless(r, Got(r, answer)), Usables(r, answer), Rest(r))
        /\ writes'[r] = Usables(r, answer) /\ cancelled' = cancelled
    BY <1>8, <2>1 DEF FetchAnswered, Fetch, TypeOK
  <2>3. QED
    BY <2>2 DEF AfterFetch
<1>9. CASE SaveMisses(r) \/ SaveMissesFails(r)
  BY <1>9 DEF SaveMisses, SaveMissesFails, AfterSaveMisses, TypeOK
<1>10. CASE SaveStore(r) \/ SaveStoreFails(r)
  BY <1>10 DEF SaveStore, SaveStoreFails, AfterSaveStore, TypeOK
<1>11. CASE Crash
  BY <1>11 DEF Crash
<1>12. CASE Tick \/ UNCHANGED vars
  BY <1>12 DEF Tick, vars, ShortOK
<1>13. QED
  BY <1>1, <1>2, <1>3, <1>4, <1>5, <1>6, <1>7, <1>8, <1>9, <1>10, <1>11, <1>12 DEF Next, Step

\* A step keeps runs short and entries long.
LEMMA ShortStep == Prompt /\ Base /\ Base' /\ ShortOK /\ [Next]_vars => ShortOK'
<1> SUFFICES ASSUME Prompt, Base, Base', ShortOK, [Next]_vars PROVE ShortOK'
  OBVIOUS
<1>0. /\ clock \in Nat /\ clock' \in Nat /\ clock' >= clock /\ Budget \in Nat /\ TTL \in Nat
      /\ \A r \in Run : started[r] \in Nat
  BY PipelineAssumption, RecordAssumption, TimeStep DEF Base, TypeOK
<1>1. ASSUME NEW r \in Run, pc'[r] # "idle" PROVE clock' <= started'[r] + Budget
  BY <1>0, <1>1, TimeStep DEF Base, ShortOK
<1>2. \A r \in Run :
        ~cancelled'[r] /\ pc'[r] \notin {"promote", "saveMisses", "saveStore", "saveCache"}
          => writes'[r] = {}
  BY WritesStep DEF Base
<1>3. ASSUME NEW k \in Key, redis'[k] # None
      PROVE  redis'[k].expires >= redis'[k].record.fetchedAt + TTL
  <2>1. CASE redis'[k] = redis[k]
    BY <1>3, <2>1 DEF ShortOK
  <2>2. ASSUME NEW r \in Run, k \in writes[r],
               redis'[k] = CompareAndSet(redis[k], applied[r][k], clock + CacheTTL(r, k))
        PROVE  redis'[k].expires >= redis'[k].record.fetchedAt + TTL
    <3>1. clock + CacheTTL(r, k) >= applied[r][k].fetchedAt + TTL
      BY <2>2, ExpiresLate DEF Base
    <3>2. \/ redis'[k] = redis[k]
          \/ redis'[k] = [record |-> applied[r][k], expires |-> clock + CacheTTL(r, k)]
      BY <2>2 DEF CompareAndSet
    <3>3. QED
      BY <2>1, <3>1, <3>2
  <2>3. QED
    BY <1>3, <2>1, <2>2, CacheChange DEF Base
<1>4. ASSUME NEW k \in Key, NEW r \in Run, applied'[r][k] # None
      PROVE  applied'[r][k].fetchedAt <= clock'
  <2>1. /\ \A s \in Run : applied[s][k] # None =>
             applied[s][k].fetchedAt \in Nat /\ applied[s][k].fetchedAt <= clock
        /\ store[k] # None => store[k].fetchedAt \in Nat /\ store[k].fetchedAt <= clock
    BY DEF Base, TypeOK, Record, ShortOK
  <2>2. redis[k] # None => redis[k].record.fetchedAt \in Nat /\ redis[k].record.fetchedAt <= clock
    <3>1. redis[k] # None => redis[k].record.fetchedAt \in Nat
      BY DEF Base, TypeOK, CacheEntry, Record
    <3>2. redis[k] # None => store[k] # None /\ redis[k].record.fetchedAt <= store[k].fetchedAt
      BY DEF Base, Prompt, CacheNeverAheadOfStore
    <3>3. QED
      BY <1>0, <2>1, <3>1, <3>2
  <2>3. Change(r, k)
    BY RunChange DEF Base
  <2>4. QED
    BY <1>0, <1>4, <2>1, <2>2, <2>3
       DEF Change, Over, Begins, Keeps, TakesCached, TakesStored, Receives, Nothing
<1>5. ASSUME NEW k \in Key, store'[k] # None PROVE store'[k].fetchedAt <= clock'
  <2>1. /\ \A s \in Run : k \in writes[s] =>
             applied[s][k].fetchedAt \in Nat /\ applied[s][k].fetchedAt <= clock
        /\ store[k] # None => store[k].fetchedAt \in Nat /\ store[k].fetchedAt <= clock
    BY RecordAssumption DEF Base, TypeOK, Record, ShortOK, QueuesOK
  <2>2. QED
    BY <1>0, <1>5, <2>1, StoreChange DEF Base
<1>6. QED
  BY <1>1, <1>2, <1>3, <1>4, <1>5 DEF ShortOK

-----------------------------------------------------------------------------
\* Times and durations are numbers.
LEMMA Times ==
  ASSUME TypeOK, QueuesOK, NEW k \in Key
  PROVE  /\ clock \in Nat /\ TTL \in Nat /\ Budget \in Nat
         /\ store[k] # None => store[k].fetchedAt \in Nat
         /\ redis[k] # None => redis[k].record.fetchedAt \in Nat /\ redis[k].expires \in Nat
         /\ \A r \in Run : started[r] \in Nat
         /\ \A r \in Run : applied[r][k] # None => applied[r][k].fetchedAt \in Nat
         /\ \A r \in Run : k \in writes[r] => applied[r][k] # None /\ applied[r][k] \in Record
<1>1. store[k] # None => store[k].fetchedAt \in Nat
  BY DEF TypeOK, Record
<1>2. redis[k] # None => redis[k].record.fetchedAt \in Nat /\ redis[k].expires \in Nat
  BY DEF TypeOK, CacheEntry, Record
<1>3. \A r \in Run : applied[r][k] # None => applied[r][k].fetchedAt \in Nat
  BY DEF TypeOK, Record
<1>4. \A r \in Run : k \in writes[r] => applied[r][k] # None /\ applied[r][k] \in Record
  BY RecordAssumption DEF QueuesOK
<1>5. QED
  BY <1>1, <1>2, <1>3, <1>4, PipelineAssumption, RecordAssumption DEF TypeOK

\* A known fetch lies in the past; it is stored, or its run is still under way.
LEMMA KnownOld ==
  ASSUME Prompt, Base, ShortOK, HeldOK, NEW k \in Key, NEW time \in Nat, Known(k, time)
  PROVE  /\ time <= clock
         /\ \/ InStore(k, time)
            \/ \E a \in Run : pc[a] # "idle" /\ started[a] <= time
<1> USE Times DEF Base
<1>1. CASE store[k] # None /\ store[k].fetchedAt = time
  BY <1>1 DEF InStore, ShortOK
<1>2. CASE redis[k] # None /\ redis[k].record.fetchedAt = time
  <2>1. store[k] # None /\ time <= store[k].fetchedAt
    BY <1>2 DEF Prompt, CacheNeverAheadOfStore
  <2>2. QED
    BY <2>1 DEF InStore, ShortOK
<1>3. ASSUME NEW r \in Run, applied[r][k] # None, applied[r][k].fetchedAt = time
      PROVE  /\ time <= clock
             /\ \/ InStore(k, time)
                \/ \E a \in Run : pc[a] # "idle" /\ started[a] <= time
  <2>1. pc[r] # "idle"
    BY <1>3 DEF QueuesOK, Nothing
  <2>2. InStore(k, time) \/ started[r] <= time
    BY <1>3 DEF HeldOK
  <2>3. QED
    BY <1>3, <2>1, <2>2 DEF ShortOK
<1>4. QED
  BY <1>1, <1>2, <1>3 DEF Known

\* Only what is received now becomes known by a step.
LEMMA KnownStep ==
  ASSUME Prompt, Base, ShortOK, [Next]_vars, NEW k \in Key, NEW time \in Nat, Known(k, time)'
  PROVE  Known(k, time) \/ (time = clock /\ clock' = clock)
<1> USE Times DEF Base
<1>1. ASSUME store'[k] # None, store'[k].fetchedAt = time PROVE Known(k, time)
  BY <1>1, StoreChange DEF Known
<1>2. ASSUME redis'[k] # None, redis'[k].record.fetchedAt = time PROVE Known(k, time)
  <2>1. CASE redis'[k] = redis[k]
    BY <1>2, <2>1 DEF Known
  <2>2. ASSUME NEW r \in Run, k \in writes[r],
               redis'[k] = CompareAndSet(redis[k], applied[r][k], clock + CacheTTL(r, k))
        PROVE  Known(k, time)
    <3>1. redis'[k] = redis[k] \/ redis'[k].record = applied[r][k]
      BY <2>2 DEF CompareAndSet
    <3>2. QED
      BY <1>2, <2>1, <2>2, <3>1 DEF Known
  <2>3. QED
    BY <1>2, <2>1, <2>2, CacheChange
<1>3. ASSUME NEW r \in Run, applied'[r][k] # None, applied'[r][k].fetchedAt = time
      PROVE  Known(k, time) \/ (time = clock /\ clock' = clock)
  <2>1. Change(r, k)
    BY RunChange
  <2>2. QED
    BY <1>3, <2>1 DEF Change, Over, Begins, Keeps, TakesCached, TakesStored, Receives,
       Nothing, Known
<1>4. QED
  BY <1>1, <1>2, <1>3 DEF Known

\* Nobody takes on the saving of an older record too late.
LEMMA YoungStep ==
  ASSUME Prompt, Base, ShortOK, [Next]_vars, NEW k \in Key, NEW time \in Nat,
         time <= clock, Young(k, time),
         InStore(k, time) \/ \E a \in Run : pc[a] # "idle" /\ started[a] <= time
  PROVE  Young(k, time)'
<1> SUFFICES ASSUME NEW r \in Run, k \in writes'[r], applied'[r][k].fetchedAt < time
             PROVE  started'[r] <= time + Budget
  BY DEF Young
<1> USE Times DEF Base
<1>1. Change(r, k)
  BY RunChange
<1>2. CASE Over(r) \/ Begins(r)
  BY <1>2 DEF Over, Begins
<1>3. ASSUME GoesOn(r) PROVE started'[r] = started[r] /\ started[r] <= clock
  BY <1>3 DEF GoesOn, StartedInPast
<1>4. CASE GoesOn(r) /\ Keeps(r, k)
  BY <1>3, <1>4 DEF Keeps, Young
<1>5. CASE GoesOn(r) /\ TakesStored(r, k)
  <2>1. ~InStore(k, time)
    BY <1>5 DEF TakesStored, InStore
  <2>2. clock <= time + Budget
    BY <2>1 DEF ShortOK
  <2>3. QED
    BY <1>3, <1>5, <2>2
<1>6. CASE TakesCached(r, k) \/ Receives(r, k)
  BY <1>6 DEF TakesCached, Receives
<1>7. QED
  BY <1>1, <1>2, <1>4, <1>5, <1>6 DEF Change

\* What Redis covers stays covered.
LEMMA CoveredStep ==
  ASSUME Prompt, Base, ShortOK, [Next]_vars, NEW k \in Key, NEW time \in Nat,
         Covered(k, time), Young(k, time)
  PROVE  Covered(k, time)'
<1> USE Times DEF Base
<1>1. CASE redis'[k] = redis[k] /\ clock' \in {clock, clock + 1}
  BY <1>1 DEF Covered
<1>2. CASE redis'[k] = None /\ redis[k] # None /\ redis[k].expires <= clock' /\ clock' = clock + 1
  <2>1. redis[k].expires >= redis[k].record.fetchedAt + TTL /\ redis[k].record.fetchedAt >= time
    BY <1>2 DEF ShortOK, Covered
  <2>2. QED
    BY <1>2, <2>1 DEF Covered
<1>3. ASSUME NEW r \in Run, clock' = clock, pc[r] \in {"promote", "saveCache"}, k \in writes[r],
             redis'[k] = CompareAndSet(redis[k], applied[r][k], clock + CacheTTL(r, k))
      PROVE  Covered(k, time)'
  <2>1. redis[k] \in CacheEntry \cup {None} /\ applied[r][k] \in Record
    BY <1>3 DEF TypeOK
  <2>2. clock + CacheTTL(r, k) \in Nat
    BY <2>1, CacheTTLType
  <2>3. redis'[k] \in CacheEntry
    BY <1>3, <2>1, <2>2, CompareAndSetKeepsNewest
  <2>4. redis'[k].record.fetchedAt >= time
    <3>1. CASE redis[k] # None
      <4>1. redis'[k].record.fetchedAt >= redis[k].record.fetchedAt
        BY <1>3, <2>1, <2>2, <3>1, CompareAndSetKeepsNewest
      <4>2. redis'[k].record.fetchedAt \in Nat
        BY <2>3 DEF CacheEntry, Record
      <4>3. QED
        BY <3>1, <4>1, <4>2 DEF Covered
    <3>2. CASE redis[k] = None
      <4>1. clock >= time + TTL
        BY <3>2 DEF Covered
      <4>2. clock <= started[r] + Budget
        BY <1>3 DEF ShortOK
      <4>3. applied[r][k].fetchedAt < time => started[r] <= time + Budget
        BY <1>3 DEF Young
      <4>4. applied[r][k].fetchedAt >= time
        BY <1>3, <4>1, <4>2, <4>3 DEF Prompt
      <4>5. redis'[k].record = applied[r][k]
        BY <1>3, <3>2 DEF CompareAndSet
      <4>6. QED
        BY <4>4, <4>5
    <3>3. QED
      BY <3>1, <3>2
  <2>5. QED
    BY <2>3, <2>4, RecordAssumption DEF Covered
<1>4. QED
  BY <1>1, <1>2, <1>3, CacheChange

\* Who holds a record keeps it saved, to be saved, or cut off.
LEMMA HeldStep ==
  ASSUME Prompt, Base, Base', ShortOK, HeldOK, YoungOK, [Next]_vars
  PROVE  HeldOK'
<1> SUFFICES ASSUME NEW r \in Run, NEW k \in Key, NEW at \in Nat,
                    applied'[r][k] # None, applied'[r][k].fetchedAt = at
             PROVE  /\ \/ InStore(k, at)'
                       \/ /\ started'[r] <= at
                          /\ cancelled'[r] \/ (k \in writes'[r] /\ Saving(r)')
                    /\ cancelled'[r] \/ k \in writes'[r] \/ Covered(k, at)'
  <2>1. \A r \in Run : \A k \in Key : applied'[r][k] # None => applied'[r][k].fetchedAt \in Nat
    BY DEF Base, TypeOK, Record
  <2>2. QED
    BY <2>1 DEF HeldOK, Saving
<1> USE Times DEF Base
<1>1. Change(r, k)
  BY RunChange
<1>2. CASE Over(r) \/ Begins(r)
  BY <1>2 DEF Over, Begins, Nothing
<1>3. CASE GoesOn(r) /\ Keeps(r, k)
  <2>1. applied[r][k] # None /\ applied[r][k].fetchedAt = at /\ started'[r] = started[r]
    BY <1>3 DEF Keeps, GoesOn
  <2>2. /\ InStore(k, at) \/ started[r] <= at
        /\ InStore(k, at) \/ cancelled[r] \/ (k \in writes[r] /\ Saving(r))
        /\ cancelled[r] \/ k \in writes[r] \/ Covered(k, at)
    BY <2>1 DEF HeldOK, Saving
  <2>3. InStore(k, at) => InStore(k, at)'
    BY InStoreStep
  <2>4. Covered(k, at) => Covered(k, at)'
    <3>1. Young(k, at)
      BY <2>1 DEF YoungOK, Known
    <3>2. QED
      BY <3>1, CoveredStep
  <2>5. k \in writes[r] /\ ~cancelled'[r] =>
          \/ k \in writes'[r] /\ (Saving(r) => Saving(r)' \/ InStore(k, at)')
          \/ ~Saving(r) /\ redis'[k] # None /\ redis'[k].record.fetchedAt >= at
    BY <1>3, <2>1 DEF Keeps, InStore
  <2>6. cancelled[r] => cancelled'[r]
    BY <1>3 DEF Keeps
  <2>7. redis'[k] # None /\ redis'[k].record.fetchedAt >= at => Covered(k, at)'
    BY DEF Covered
  <2>8. QED
    BY <2>1, <2>2, <2>3, <2>4, <2>5, <2>6, <2>7
<1>4. CASE GoesOn(r) /\ TakesCached(r, k)
  <2>1. /\ store[k] # None /\ redis[k].record.fetchedAt <= store[k].fetchedAt
        /\ redis'[k] # None /\ redis'[k].record.fetchedAt = at /\ store'[k] = store[k]
    BY <1>4 DEF TakesCached, Prompt, CacheNeverAheadOfStore
  <2>2. InStore(k, at)' /\ Covered(k, at)'
    BY <1>4, <2>1 DEF TakesCached, InStore, Covered
  <2>3. QED
    BY <2>2
<1>5. CASE GoesOn(r) /\ TakesStored(r, k)
  <2>1. InStore(k, at)' /\ k \in writes'[r]
    BY <1>5 DEF TakesStored, InStore
  <2>2. QED
    BY <2>1
<1>6. CASE GoesOn(r) /\ Receives(r, k)
  BY <1>6 DEF GoesOn, Receives, StartedInPast
<1>7. QED
  BY <1>1, <1>2, <1>3, <1>4, <1>5, <1>6 DEF Change

\* Whoever still has something older to save began early enough.
LEMMA YoungOKStep ==
  ASSUME Prompt, Base, Base', ShortOK, HeldOK, YoungOK, [Next]_vars
  PROVE  YoungOK'
<1> SUFFICES ASSUME NEW k \in Key, NEW time \in Nat, Known(k, time)'
             PROVE  Young(k, time)'
  BY DEF YoungOK
<1>1. CASE Known(k, time)
  BY <1>1, KnownOld, YoungStep DEF YoungOK
<1>2. CASE time = clock /\ clock' = clock
  <2>1. clock' \in Nat /\ Budget \in Nat /\ \A r \in Run : started'[r] \in Nat /\ started'[r] <= clock'
    BY PipelineAssumption DEF Base, TypeOK, StartedInPast
  <2>2. QED
    BY <1>2, <2>1 DEF Young
<1>3. QED
  BY <1>1, <1>2, KnownStep

\* An answer is remembered when it is newer than the newest so far.
LEMMA ServedChange ==
  ASSUME TypeOK, ReadsTypeOK, ReadsNext, NEW k \in Key
  PROVE  \/ served'[k] = served[k]
         \/ \E r \in Run : /\ AnswersNow(r) /\ applied[r][k] # None
                           /\ served'[k] = applied[r][k].fetchedAt
                           /\ served'[k] > served[k]
<1>1. CASE ~\E r \in Run : /\ AnswersNow(r)
                           /\ applied[r][k] # None
                           /\ applied[r][k].fetchedAt > served[k]
  BY <1>1 DEF ReadsNext
<1>2. ASSUME NEW r \in Run, AnswersNow(r), applied[r][k] # None,
             applied[r][k].fetchedAt > served[k]
      PROVE  served'[k] = applied[r][k].fetchedAt
  <2>1. ASSUME NEW q \in Run, AnswersNow(q) PROVE q = r
    <3>1. pc[q] = "return" /\ pc' = [pc EXCEPT ![q] = "idle"]
      BY <2>1 DEF AnswersNow, Return, GoTo
    <3>2. pc[r] = "return" /\ pc' = [pc EXCEPT ![r] = "idle"]
      BY <1>2 DEF AnswersNow, Return, GoTo
    <3>3. QED
      BY <3>1, <3>2 DEF TypeOK
  <2>2. (CHOOSE q \in Run : AnswersNow(q)) = r
    BY <1>2, <2>1
  <2>3. served'[k] = applied[CHOOSE q \in Run : AnswersNow(q)][k].fetchedAt
    BY <1>2 DEF ReadsNext
  <2>4. QED
    BY <2>2, <2>3
<1>3. QED
  BY <1>1, <1>2

\* What is answered is stored and covered by Redis from then on.
LEMMA AnsweredStep ==
  ASSUME Prompt, Base, Base', ReadsTypeOK, ReadsOK, ReadsNext
  PROVE  AnsweredOK'
<1> SUFFICES ASSUME NEW k \in Key, NEW time \in Nat, served'[k] = time, time > 0
             PROVE  InStore(k, time)' /\ Covered(k, time)' /\ Young(k, time)'
  <2>1. \A k \in Key : served'[k] \in Nat
    BY ServedChange, Times DEF ReadsTypeOK, Base
  <2>2. QED
    BY <2>1 DEF AnsweredOK
<1> USE Times DEF Base
<1>0. [Next]_vars /\ ShortOK
  BY DEF ReadsNext, ReadsOK
<1>1. InStore(k, time) /\ Covered(k, time) /\ Young(k, time)
  <2>1. CASE served[k] = time
    BY <2>1 DEF ReadsOK, AnsweredOK
  <2>2. ASSUME NEW r \in Run, AnswersNow(r), applied[r][k] # None,
               applied[r][k].fetchedAt = time
        PROVE  InStore(k, time) /\ Covered(k, time) /\ Young(k, time)
    <3>1. ~cancelled[r] /\ writes[r] = {}
      BY <1>0, <2>2 DEF AnswersNow, Return, ShortOK
    <3>2. InStore(k, time) /\ Covered(k, time)
      BY <2>2, <3>1 DEF ReadsOK, HeldOK
    <3>3. Young(k, time)
      BY <2>2 DEF ReadsOK, YoungOK, Known
    <3>4. QED
      BY <3>2, <3>3
  <2>3. QED
    BY <2>1, <2>2, ServedChange
<1>2. time <= clock
  BY <1>0, <1>1 DEF InStore, ShortOK
<1>3. QED
  BY <1>0, <1>1, <1>2, InStoreStep, CoveredStep, YoungStep

\* A lookup is only given what is at least as new as what was answered before.
LEMMA FloorStep ==
  ASSUME Prompt, Base, ReadsTypeOK, ReadsOK, ReadsNext
  PROVE  FloorOK'
<1> USE Times DEF Base
<1>1. ASSUME NEW r \in Run, NEW k \in Key
      PROVE  floor'[r][k] <= served'[k]
  <2>1. served[k] \in Nat /\ floor[r][k] \in Nat /\ floor[r][k] <= served[k]
    BY DEF ReadsTypeOK, ReadsOK, FloorOK
  <2>2. served'[k] \in Nat /\ served'[k] >= served[k]
    BY <2>1, ServedChange
  <2>3. floor'[r][k] \in {served[k], floor[r][k], 0}
    BY DEF ReadsNext, ReadsTypeOK
  <2>4. QED
    BY <2>1, <2>2, <2>3
<1>2. ASSUME NEW r \in Run, NEW k \in Key, applied'[r][k] # None
      PROVE  applied'[r][k].fetchedAt >= floor'[r][k]
  <2>1. Change(r, k)
    BY RunChange DEF ReadsNext, ReadsOK
  <2>2. CASE Over(r) \/ Begins(r)
    BY <1>2, <2>2 DEF Over, Begins, Nothing
  <2>3. ASSUME GoesOn(r)
        PROVE  /\ floor'[r][k] = floor[r][k] /\ floor[r][k] \in Nat
               /\ served[k] \in Nat /\ floor[r][k] <= served[k]
    BY <2>3 DEF GoesOn, ReadsNext, ReadsTypeOK, ReadsOK, FloorOK
  <2>4. CASE GoesOn(r) /\ Keeps(r, k)
    BY <1>2, <2>3, <2>4 DEF Keeps, ReadsOK, FloorOK
  <2>5. CASE GoesOn(r) /\ TakesCached(r, k)
    <3>1. redis[k].record.fetchedAt >= served[k]
      BY <2>3, <2>5 DEF TakesCached, ReadsOK, AnsweredOK, Covered
    <3>2. QED
      BY <2>3, <2>5, <3>1 DEF TakesCached
  <2>6. store[k] # None \/ served[k] > 0 => store[k] # None /\ store[k].fetchedAt >= served[k]
    BY DEF ReadsOK, ReadsTypeOK, AnsweredOK, InStore
  <2>7. CASE GoesOn(r) /\ TakesStored(r, k)
    BY <2>3, <2>6, <2>7 DEF TakesStored
  <2>8. CASE GoesOn(r) /\ Receives(r, k)
    <3>1. clock >= served[k]
      BY <2>3, <2>6, <2>8 DEF ReadsOK, ShortOK
    <3>2. QED
      BY <2>3, <2>8, <3>1 DEF Receives
  <2>9. QED
    BY <2>1, <2>2, <2>4, <2>5, <2>7, <2>8 DEF Change
<1>3. QED
  BY <1>1, <1>2 DEF FloorOK

\* The history variables hold times.
LEMMA ReadsTypeStep ==
  ASSUME TypeOK, QueuesOK, ReadsTypeOK, ReadsNext
  PROVE  ReadsTypeOK'
<1>1. \A k \in Key : served'[k] \in Nat
  BY ServedChange, Times DEF ReadsTypeOK
<1>2. served' \in [Key -> Nat]
  BY <1>1 DEF ReadsNext
<1>3. floor' \in [Run -> [Key -> Nat]]
  BY DEF ReadsNext, ReadsTypeOK
<1>4. QED
  BY <1>2, <1>3 DEF ReadsTypeOK

\* A step of the cascade keeps what the earlier theorems rest on.
LEMMA BaseStep == Base /\ [Next]_vars => Base'
  BY TypeStep, ServedStep, SavedFirstStep, CacheNeverAheadStep DEF Base

-----------------------------------------------------------------------------
\* As long as the saves that are tried succeed and a lookup takes less than half
\* the TTL, a lookup that begins after another one answered never answers with
\* an older fetch: once answered, a record stays in Redis, or newer ones do,
\* for longer than any run that is still going to write an older one.
THEOREM NeverGoBack == ReadsSpec => []ReadsNeverGoBack
<1> DEFINE I == Base /\ ReadsTypeOK /\ (Prompt => ReadsOK)
<1>1. ReadsInit => I
  <2> SUFFICES ASSUME ReadsInit PROVE I
    OBVIOUS
  <2>1. TypeOK /\ QueuesOK
    BY InitType DEF ReadsInit
  <2>2. StartedInPast /\ ServedRecords /\ SavedFirst /\ CacheNeverAheadOfStore
    BY DEF ReadsInit, Init, StartedInPast, ServedRecords, SavedFirst, CacheNeverAheadOfStore, Nothing
  <2>3. ReadsTypeOK
    BY DEF ReadsInit, ReadsTypeOK
  <2>4. ReadsOK
    <3>1. ShortOK
      BY PipelineAssumption DEF ReadsInit, Init, ShortOK, Nothing
    <3>2. HeldOK /\ YoungOK /\ AnsweredOK /\ FloorOK
      BY DEF ReadsInit, Init, HeldOK, YoungOK, Known, AnsweredOK, FloorOK, Nothing
    <3>3. QED
      BY <3>1, <3>2 DEF ReadsOK
  <2>5. QED
    BY <2>1, <2>2, <2>3, <2>4 DEF Base
<1>2. I /\ [ReadsNext]_readVars => I'
  <2>1. ASSUME I, ReadsNext PROVE I'
    <3>1. [Next]_vars
      BY <2>1 DEF ReadsNext
    <3>2. Base' /\ ReadsTypeOK'
      BY <2>1, <3>1, BaseStep, ReadsTypeStep DEF Base
    <3>3. Prompt => ReadsOK'
      <4> SUFFICES ASSUME Prompt PROVE ReadsOK'
        OBVIOUS
      <4>1. ReadsOK /\ Base /\ ReadsTypeOK
        BY <2>1
      <4>2. ShortOK /\ HeldOK /\ YoungOK
        BY <4>1 DEF ReadsOK
      <4>3. ShortOK' /\ HeldOK' /\ YoungOK'
        BY <3>1, <3>2, <4>1, <4>2, ShortStep, HeldStep, YoungOKStep
      <4>4. AnsweredOK' /\ FloorOK'
        BY <2>1, <3>2, <4>1, AnsweredStep, FloorStep
      <4>5. QED
        BY <4>3, <4>4 DEF ReadsOK
    <3>4. QED
      BY <3>2, <3>3 DEF Prompt
  <2>2. ASSUME I, UNCHANGED readVars PROVE I'
    <3>1. [Next]_vars /\ UNCHANGED <<served, floor>> /\ UNCHANGED vars
      BY <2>2 DEF readVars
    <3>2. Base'
      BY <2>2, <3>1, BaseStep
    <3>3. ReadsTypeOK'
      BY <2>2, <3>1 DEF ReadsTypeOK
    <3>4. Prompt => ReadsOK'
      BY <2>2, <3>1 DEF vars, shared, local, ReadsOK, ShortOK, HeldOK, YoungOK, AnsweredOK,
         FloorOK, InStore, Covered, Young, Known
    <3>5. QED
      BY <3>2, <3>3, <3>4 DEF Prompt
  <2>3. QED
    BY <2>1, <2>2
<1>3. I => ReadsNeverGoBack
  BY DEF Prompt, ReadsOK, FloorOK, ReadsNeverGoBack
<1>4. QED
  BY <1>1, <1>2, <1>3, PTL DEF ReadsSpec
=============================================================================
