--------------------------- MODULE MarketPipeline ---------------------------
(***************************************************************************)
(* The lookup cascade Redis -> PostgreSQL -> provider, run concurrently by  *)
(* several requests over one provider's namespace (CoinGecko and           *)
(* CoinMarketCap have disjoint ones, so each is an instance of this        *)
(* module).  A run is one call of marketpipeline.Run; every network call   *)
(* it makes is a step of its own: pc[r] names the call in flight, the step *)
(* is the moment the other side serves it together with the local code up  *)
(* to the next call.  The check of ctx that precedes a call is therefore   *)
(* made at the end of the step before it.                                  *)
(***************************************************************************)
EXTENDS MarketRecord, FiniteSets

CONSTANTS
  Key,         \* token keys (chain, token key)
  Run,         \* request slots: each performs one lookup after another
  Requests,    \* resolved requests: functions from some keys to provider IDs
  Kinds,       \* callers present: "lookup" (comparison route), "enrich"
  Answers,     \* for each ID, the payload classes the provider can return
  BatchLimit,  \* IDs per provider call
  MissTTL,     \* lifetime of a negative-cache entry
  Failing,     \* calls that may fail even though ctx is live
  Budget,      \* longest a run lasts: its deadline, and the call in flight then
  MaxTime      \* bound on the clock

Calls == {"loadCache", "loadStore", "promote", "loadMisses", "fetch",
          "saveMisses", "saveStore", "saveCache"}

ASSUME PipelineAssumption ==
  /\ \A q \in Requests : /\ DOMAIN q \subseteq Key
                         /\ q \in [DOMAIN q -> ID]
  /\ Kinds \subseteq {"lookup", "enrich"}
  /\ Answers \in [ID -> SUBSET Payload]
  /\ BatchLimit \in Nat \ {0}
  /\ MissTTL \in Nat \ {0}
  /\ Failing \subseteq Calls
  /\ Budget \in Nat
  /\ MaxTime \in Nat

VARIABLES
  clock,
  redis,      \* the market namespace of Redis
  missUntil,  \* the negative cache: expiry time of each miss, 0 when absent
  store,      \* the market table of PostgreSQL
  pc,         \* the call a run has in flight, "return" when it ended, "idle" between runs
  kind,       \* which caller the run serves
  want,       \* the request: the provider ID expected for each key
  started,    \* the clock reading every freshness test of the run uses
  cancelled,  \* ctx.Err() # nil
  applied,    \* the records the caller was given, one per completed key
  stale,      \* the newest expired record seen for each key
  asking,     \* keys the provider has still to be asked about
  missed,     \* keys whose miss is still to be saved
  writes      \* keys whose applied record is still to be saved

shared == <<redis, missUntil, store>>
local  == <<pc, kind, want, started, cancelled, applied, stale, asking, missed, writes>>
vars   == <<clock, shared, local>>

NoRequest == [k \in {} |-> None]
Nothing   == [k \in Key |-> None]

TypeOK ==
  /\ clock \in Nat
  /\ redis \in [Key -> CacheEntry \cup {None}]
  /\ missUntil \in [Key -> Nat]
  /\ store \in [Key -> Record \cup {None}]
  /\ pc \in [Run -> Calls \cup {"idle", "return"}]
  /\ kind \in [Run -> {"lookup", "enrich"}]
  /\ want \in [Run -> Requests \cup {NoRequest}]
  /\ started \in [Run -> Nat]
  /\ cancelled \in [Run -> BOOLEAN]
  /\ applied \in [Run -> [Key -> Record \cup {None}]]
  /\ stale \in [Run -> [Key -> Record \cup {None}]]
  /\ asking \in [Run -> SUBSET Key]
  /\ missed \in [Run -> SUBSET Key]
  /\ writes \in [Run -> SUBSET Key]

Init ==
  /\ clock = 0
  /\ redis = Nothing
  /\ missUntil = [k \in Key |-> 0]
  /\ store = Nothing
  /\ pc = [r \in Run |-> "idle"]
  /\ kind = [r \in Run |-> "lookup"]
  /\ want = [r \in Run |-> NoRequest]
  /\ started = [r \in Run |-> 0]
  /\ cancelled = [r \in Run |-> FALSE]
  /\ applied = [r \in Run |-> Nothing]
  /\ stale = [r \in Run |-> Nothing]
  /\ asking = [r \in Run |-> {}]
  /\ missed = [r \in Run |-> {}]
  /\ writes = [r \in Run |-> {}]
-----------------------------------------------------------------------------
\* Keys no tier has completed yet.
Incomplete(r) == {k \in DOMAIN want[r] : applied[r][k] = None}

\* A call fails when its ctx is done or its peer is down.
MayFail(r) == cancelled[r] \/ pc[r] \in Failing

\* What a read returns: the data, or nothing at all when the read fails.
Reply(r, data, nothing) == {data} \cup (IF MayFail(r) THEN {nothing} ELSE {})

\* Mutation of Matching: the provider ID of a loaded record is not compared.
MatchingAnyID(r, seen) == {k \in Incomplete(r) : seen[k] # None}

\* A loaded record counts only under the ID the request expects for its key.
Matching(r, seen) ==
  {k \in Incomplete(r) : seen[k] # None /\ seen[k].id = want[r][k]}

Hits(r, seen) ==
  {k \in Matching(r, seen) : Fresh(seen[k], started[r]) /\ Usable(kind[r], seen[k])}

Expired(r, seen) == {k \in Matching(r, seen) : ~Fresh(seen[k], started[r])}

\* Hand the caller the records found for these keys (and publish them).
ApplyRecords(r, keys, found) ==
  applied' = [applied EXCEPT ![r] =
                [k \in Key |-> IF k \in keys THEN found[k] ELSE applied[r][k]]]

\* Only the enrichment installs a stale hook.
NoteStale(r, seen) ==
  stale' = [stale EXCEPT ![r] =
              [k \in Key |-> IF kind[r] = "enrich" /\ k \in Expired(r, seen)
                             THEN Newer(stale[r][k], seen[k])
                             ELSE stale[r][k]]]

GoTo(r, call) == pc' = [pc EXCEPT ![r] = call]

\* The next batch, unless every ID was asked about or ctx is done.
NextBatch(r, rest) == IF cancelled[r] \/ rest = {} THEN "return" ELSE "fetch"

\* The misses are loaded next, unless there is nothing left to look up.
Tier3(r) == IF cancelled[r] \/ Incomplete(r) = {} THEN "return" ELSE "loadMisses"
-----------------------------------------------------------------------------
\* A request arrives: Run captures the time and starts the Redis read.  The
\* freshness of everything the run sees is judged against this one reading.
\* (An empty request returns at once and makes no call.)
Begin(r, caller, request) ==
  /\ pc[r] = "idle" /\ DOMAIN request # {}
  /\ GoTo(r, "loadCache")
  /\ kind' = [kind EXCEPT ![r] = caller]
  /\ want' = [want EXCEPT ![r] = request]
  /\ started' = [started EXCEPT ![r] = clock]
  /\ UNCHANGED <<clock, shared, cancelled, applied, stale, asking, missed, writes>>

\* What one MGET of the market namespace returns.
Cached == [k \in Key |-> IF redis[k] = None THEN None ELSE redis[k].record]

\* Tier 1: one MGET; fresh usable records complete their keys.
LoadCache(r) ==
  /\ pc[r] = "loadCache"
  /\ \E seen \in Reply(r, Cached, Nothing) :
       /\ ApplyRecords(r, Hits(r, seen), seen)
       /\ NoteStale(r, seen)
       /\ GoTo(r, IF cancelled[r] \/ Incomplete(r) \subseteq Hits(r, seen)
                  THEN "return" ELSE "loadStore")
  /\ UNCHANGED <<clock, shared, kind, want, started, cancelled, asking, missed, writes>>

\* Tier 2: the incomplete keys from PostgreSQL; what it completes is promoted.
LoadStore(r) ==
  /\ pc[r] = "loadStore"
  /\ \E seen \in Reply(r, store, Nothing) :
       /\ ApplyRecords(r, Hits(r, seen), seen)
       /\ NoteStale(r, seen)
       /\ writes' = [writes EXCEPT ![r] = Hits(r, seen)]
       /\ GoTo(r, IF Hits(r, seen) = {} THEN Tier3(r)
                  ELSE IF cancelled[r] THEN "return" ELSE "promote")
  /\ UNCHANGED <<clock, shared, kind, want, started, cancelled, asking, missed>>

\* A promoted record keeps what is left of its TTL, a fetched one gets it all.
CacheTTL(r, k) ==
  IF pc[r] = "promote" THEN RemainingTTL(applied[r][k].fetchedAt, started[r]) ELSE TTL

AfterSaveCache(r) ==
  IF pc[r] = "promote" THEN Tier3(r) ELSE NextBatch(r, asking[r])

\* The pipelined Lua writes reach Redis one by one.
SaveCache(r) ==
  /\ pc[r] \in {"promote", "saveCache"}
  /\ \E k \in writes[r] :
       /\ redis' = [redis EXCEPT ![k] =
                      CompareAndSet(@, applied[r][k], clock + CacheTTL(r, k))]
       /\ writes' = [writes EXCEPT ![r] = @ \ {k}]
       /\ GoTo(r, IF writes[r] = {k} THEN AfterSaveCache(r) ELSE pc[r])
  /\ UNCHANGED <<clock, missUntil, store, kind, want, started, cancelled, applied,
                 stale, asking, missed>>

\* The rest of the pipeline is lost; the error is logged and the run goes on.
SaveCacheFails(r) ==
  /\ pc[r] \in {"promote", "saveCache"} /\ MayFail(r)
  /\ writes' = [writes EXCEPT ![r] = {}]
  /\ GoTo(r, AfterSaveCache(r))
  /\ UNCHANGED <<clock, shared, kind, want, started, cancelled, applied, stale,
                 asking, missed>>
-----------------------------------------------------------------------------
\* The keys whose miss Redis still holds.
LiveMisses(r) == {k \in Incomplete(r) : missUntil[k] > clock}

\* Mutation of LoadMisses: when the misses cannot be read nobody is asked.
LoadMissesOrGiveUp(r) ==
  /\ pc[r] = "loadMisses"
  /\ \E suppressed \in Reply(r, LiveMisses(r), Incomplete(r)) :
       LET rest == Incomplete(r) \ suppressed
       IN  /\ asking' = [asking EXCEPT ![r] = rest]
           /\ GoTo(r, NextBatch(r, rest))
  /\ UNCHANGED <<clock, shared, kind, want, started, cancelled, applied, stale,
                 missed, writes>>

\* Tier 3 starts: keys with a live miss are not asked about.  When the misses
\* cannot be read nothing is suppressed.
LoadMisses(r) ==
  /\ pc[r] = "loadMisses"
  /\ \E suppressed \in Reply(r, LiveMisses(r), {}) :
       LET rest == Incomplete(r) \ suppressed
       IN  /\ asking' = [asking EXCEPT ![r] = rest]
           /\ GoTo(r, NextBatch(r, rest))
  /\ UNCHANGED <<clock, shared, kind, want, started, cancelled, applied, stale,
                 missed, writes>>

\* The IDs still to be asked about, one for each group of keys.
AskIDs(r) == {want[r][k] : k \in asking[r]}

\* Mutation of Batch: the slice ends one ID too early.
BatchTooShort(r) ==
  {id \in AskIDs(r) : Cardinality({j \in AskIDs(r) : j < id}) < BatchLimit - 1}

\* The first BatchLimit of them, in order, and the keys they serve.
Batch(r) ==
  {id \in AskIDs(r) : Cardinality({j \in AskIDs(r) : j < id}) < BatchLimit}

BatchKeys(r) == {k \in asking[r] : want[r][k] \in Batch(r)}

\* Mutation of Received: the record is built without its provider ID.
ReceivedUnlabelled(r, k, answer) ==
  [id |-> None, fetchedAt |-> clock, payload |-> answer[want[r][k]]]

\* The record for key k in a response received now.
Received(r, k, answer) ==
  [id |-> want[r][k], fetchedAt |-> clock, payload |-> answer[want[r][k]]]

\* Mutation of Dataless: what this caller cannot render counts as a miss.
DatalessForCaller(r, got) == {k \in BatchKeys(r) : ~Usable(kind[r], got[k])}

Dataless(r, got) == {k \in BatchKeys(r) : ~HasData(got[k])}

AfterFetch(r, dataless, usable, rest) ==
  IF usable # {} /\ cancelled[r] THEN "return"
  ELSE IF dataless # {} THEN "saveMisses"
  ELSE IF usable # {} THEN "saveStore"
  ELSE NextBatch(r, rest)

\* The provider answers a batch; records are stamped with the time of receipt.
\* An ID the response leaves out is answered "empty".  When nothing usable
\* came back, ctx is not looked at before the misses are saved.
Fetch(r) ==
  /\ pc[r] = "fetch"
  /\ \E answer \in [Batch(r) -> Payload] :
       /\ \A id \in Batch(r) : answer[id] \in Answers[id]
       /\ LET got == [k \in BatchKeys(r) |-> Received(r, k, answer)]
              usable == {k \in BatchKeys(r) : HasData(got[k]) /\ Usable(kind[r], got[k])}
              rest == asking[r] \ BatchKeys(r)
          IN  /\ ApplyRecords(r, usable, got)
              /\ writes' = [writes EXCEPT ![r] = usable]
              /\ missed' = [missed EXCEPT ![r] = Dataless(r, got)]
              /\ asking' = [asking EXCEPT ![r] = rest]
              /\ GoTo(r, AfterFetch(r, Dataless(r, got), usable, rest))
  /\ UNCHANGED <<clock, shared, kind, want, started, cancelled, stale>>

\* A failed batch is skipped: no miss is recorded, later batches still run.
FetchFails(r) ==
  /\ pc[r] = "fetch" /\ MayFail(r)
  /\ asking' = [asking EXCEPT ![r] = @ \ BatchKeys(r)]
  /\ GoTo(r, NextBatch(r, asking[r] \ BatchKeys(r)))
  /\ UNCHANGED <<clock, shared, kind, want, started, cancelled, applied, stale,
                 missed, writes>>

AfterSaveMisses(r) ==
  IF writes[r] # {} /\ ~cancelled[r] THEN "saveStore" ELSE NextBatch(r, asking[r])

\* The pipelined SETs of the misses reach Redis one by one.
SaveMisses(r) ==
  /\ pc[r] = "saveMisses"
  /\ \E k \in missed[r] :
       /\ missUntil' = [missUntil EXCEPT ![k] = clock + MissTTL]
       /\ missed' = [missed EXCEPT ![r] = @ \ {k}]
       /\ GoTo(r, IF missed[r] = {k} THEN AfterSaveMisses(r) ELSE pc[r])
  /\ UNCHANGED <<clock, redis, store, kind, want, started, cancelled, applied,
                 stale, asking, writes>>

SaveMissesFails(r) ==
  /\ pc[r] = "saveMisses" /\ MayFail(r)
  /\ missed' = [missed EXCEPT ![r] = {}]
  /\ GoTo(r, AfterSaveMisses(r))
  /\ UNCHANGED <<clock, shared, kind, want, started, cancelled, applied, stale,
                 asking, writes>>

\* Mutation of AfterSaveStore: ctx is not looked at between the two saves.
AfterSaveStoreUnchecked(r) == "saveCache"

AfterSaveStore(r) == IF cancelled[r] THEN "return" ELSE "saveCache"

\* The batch of guarded upserts is one implicit transaction.
SaveStore(r) ==
  /\ pc[r] = "saveStore"
  /\ store' = [k \in Key |-> IF k \in writes[r] THEN Upsert(store[k], applied[r][k])
                             ELSE store[k]]
  /\ GoTo(r, AfterSaveStore(r))
  /\ UNCHANGED <<clock, redis, missUntil, kind, want, started, cancelled, applied,
                 stale, asking, missed, writes>>

\* The save is lost; the caller keeps the records and Redis is still written.
SaveStoreFails(r) ==
  /\ pc[r] = "saveStore" /\ MayFail(r)
  /\ GoTo(r, AfterSaveStore(r))
  /\ UNCHANGED <<clock, shared, kind, want, started, cancelled, applied, stale,
                 asking, missed, writes>>
-----------------------------------------------------------------------------
\* The run ends and its caller answers: completed keys show their record; the
\* enrichment shows the reduced stale record for the keys it has nothing else for.
Shown(r, k) == IF applied[r][k] # None THEN applied[r][k] ELSE stale[r][k]

\* With the answer given, everything the run knew is dropped.
Return(r) ==
  /\ pc[r] = "return"
  /\ GoTo(r, "idle")
  /\ kind' = [kind EXCEPT ![r] = "lookup"]
  /\ want' = [want EXCEPT ![r] = NoRequest]
  /\ started' = [started EXCEPT ![r] = 0]
  /\ cancelled' = [cancelled EXCEPT ![r] = FALSE]
  /\ applied' = [applied EXCEPT ![r] = Nothing]
  /\ stale' = [stale EXCEPT ![r] = Nothing]
  /\ asking' = [asking EXCEPT ![r] = {}]
  /\ missed' = [missed EXCEPT ![r] = {}]
  /\ writes' = [writes EXCEPT ![r] = {}]
  /\ UNCHANGED <<clock, shared>>

\* The deadline of the request expires or its client goes away.
Cancel(r) ==
  /\ pc[r] \in Calls /\ ~cancelled[r]
  /\ cancelled' = [cancelled EXCEPT ![r] = TRUE]
  /\ UNCHANGED <<clock, shared, pc, kind, want, started, applied, stale, asking,
                 missed, writes>>

\* The process dies and is started again: every run is forgotten.
Crash ==
  /\ \E r \in Run : pc[r] # "idle"
  /\ pc' = [r \in Run |-> "idle"]
  /\ kind' = [r \in Run |-> "lookup"]
  /\ want' = [r \in Run |-> NoRequest]
  /\ started' = [r \in Run |-> 0]
  /\ cancelled' = [r \in Run |-> FALSE]
  /\ applied' = [r \in Run |-> Nothing]
  /\ stale' = [r \in Run |-> Nothing]
  /\ asking' = [r \in Run |-> {}]
  /\ missed' = [r \in Run |-> {}]
  /\ writes' = [r \in Run |-> {}]
  /\ UNCHANGED <<clock, shared>>

\* Time passes, and Redis drops the entries whose time has come.
Tick ==
  /\ clock < MaxTime
  /\ \A r \in Run : pc[r] # "idle" => clock - started[r] < Budget
  /\ clock' = clock + 1
  /\ redis' = [k \in Key |-> IF redis[k] # None /\ redis[k].expires <= clock'
                             THEN None ELSE redis[k]]
  /\ missUntil' = [k \in Key |-> IF missUntil[k] <= clock' THEN 0 ELSE missUntil[k]]
  /\ UNCHANGED <<store, local>>

\* A step of the run itself: the call in flight is served or fails.
Step(r) ==
  \/ LoadCache(r)
  \/ LoadStore(r)
  \/ SaveCache(r)
  \/ SaveCacheFails(r)
  \/ LoadMisses(r)
  \/ Fetch(r)
  \/ FetchFails(r)
  \/ SaveMisses(r)
  \/ SaveMissesFails(r)
  \/ SaveStore(r)
  \/ SaveStoreFails(r)
  \/ Return(r)

Next ==
  \/ \E r \in Run : \/ \E caller \in Kinds, request \in Requests : Begin(r, caller, request)
                    \/ Step(r)
                    \/ Cancel(r)
  \/ Crash
  \/ Tick

Spec == Init /\ [][Next]_vars

\* Every call returns: the clients have timeouts and each run has a deadline.
FairSpec == Spec /\ \A r \in Run : WF_vars(Step(r))
-----------------------------------------------------------------------------
(***************************************************************************)
(* Properties.                                                              *)
(***************************************************************************)

\* Whatever tier a record came from, and whoever wrote it there under whatever
\* provider ID, the caller is only given one that carries the ID its own request
\* resolved, that it can render, and that was younger than the TTL when its lookup
\* began.  Only
\* the enrichment falls back on an expired one, again under its own ID.
ServedRecords ==
  \A r \in Run : \A k \in Key :
    /\ applied[r][k] # None =>
         /\ k \in DOMAIN want[r]
         /\ applied[r][k].id = want[r][k]
         /\ Usable(kind[r], applied[r][k])
         /\ started[r] < applied[r][k].fetchedAt + TTL
    /\ stale[r][k] # None =>
         /\ kind[r] = "enrich"
         /\ k \in DOMAIN want[r]
         /\ stale[r][k].id = want[r][k]
         /\ started[r] >= stale[r][k].fetchedAt + TTL

\* A fetched batch goes to PostgreSQL before Redis and a promotion copies what
\* PostgreSQL holds, so as long as PostgreSQL itself does not lose a save Redis
\* never runs ahead of it: a run whose save was cut off by its deadline must
\* not go on to Redis, and a crash between the two saves costs nothing.
CacheNeverAheadOfStore ==
  "saveStore" \notin Failing =>
    \A k \in Key : redis[k] # None =>
      store[k] # None /\ redis[k].record.fetchedAt <= store[k].fetchedAt

\* Only keys whose provider ID may really be answered without data are ever
\* suppressed: failed batches, answers this caller cannot render, deadlines and
\* crashes never enter a covered token in the negative cache.
OnlyDatalessKeysAreMissed ==
  \A k \in Key : missUntil[k] > clock =>
    \E q \in Requests : k \in DOMAIN q /\ "empty" \in Answers[q[k]]

\* No interleaving of slow savers, promotions and restarts makes PostgreSQL
\* forget a newer fetch, or Redis replace a live entry by an older fetch.
StoresOnlyMoveForward ==
  [][\A k \in Key :
       /\ store[k] # None =>
            store'[k] # None /\ store'[k].fetchedAt >= store[k].fetchedAt
       /\ redis[k] # None =>
            \/ redis'[k] = None /\ redis[k].expires <= clock'
            \/ redis'[k] # None /\ redis'[k].record.fetchedAt >= redis[k].record.fetchedAt
    ]_vars

\* The call in flight changed hands: the run issued another one.
Issues(r) == pc[r] \in Calls /\ pc'[r] \in Calls /\ (pc'[r] # pc[r] \/ asking'[r] # asking[r])

\* Once ctx is done a run issues no read, no provider batch and no save of
\* market records any more; the one call it may still issue is saving misses.
CancelStopsTheRun ==
  [][\A r \in Run : cancelled[r] /\ Issues(r) => pc'[r] = "saveMisses"]_vars

\* The stronger promise of the specification documents: nothing at all starts.
NothingStartsAfterCancel ==
  [][\A r \in Run : ~(cancelled[r] /\ Issues(r))]_vars

\* The keys the provider may still be asked about: until the misses are loaded,
\* all that are incomplete.
Unasked(r) ==
  IF pc[r] \in {"loadCache", "loadStore", "promote", "loadMisses"}
  THEN Incomplete(r) ELSE asking[r]

\* Neither a failed read, nor a lost promotion or save, nor a failed batch ends a
\* run early: while its ctx is live, a key is only given up when it is completed,
\* or Redis holds a live miss for it as the misses are loaded, or its ID was in the
\* batch the provider was asked; the run returns when that holds of every key.  Nor
\* does it take back what the caller already has.
FailuresOnlyDegrade ==
  [][\A r \in Run : pc[r] \in Calls /\ pc'[r] # "idle" =>
       /\ ~cancelled[r] =>
            /\ \A k \in Unasked(r) \ Unasked(r)' :
                 \/ applied'[r][k] # None
                 \/ pc[r] = "loadMisses" /\ missUntil[k] > clock
                 \/ pc[r] = "fetch" /\ want[r][k] \in Batch(r)
            /\ pc'[r] = "return" => Unasked(r)' = {}
       /\ \A k \in Key : applied[r][k] # None => applied'[r][k] = applied[r][k]
    ]_vars

\* The stores hold only what the comparison route can render.
OnlyRenderableStored ==
  \A k \in Key : store[k] # None => store[k].payload = "priced"

\* Batches come to an end whatever fails, so every lookup returns.
EveryRunEnds == \A r \in Run : pc[r] # "idle" ~> pc[r] = "idle"
=============================================================================
