# Verification of wallet-api

TLA+ models of `wallet-api`, a Go service that answers the token portfolio, the
market data and the transfers of one Ethereum wallet from Alchemy, LI.FI,
Moralis, CoinGecko and CoinMarketCap, with Redis and PostgreSQL in between.
The models are checked by TLC on small instances; the results that matter most
are proved by TLAPS for every value of the constants. All source paths below are
relative to `src/`.

## The system

| component | code | state it keeps | operations | what makes it correct |
|---|---|---|---|---|
| Market lookup cascade | `internal/marketpipeline`, `marketkey` | none of its own; per run: completed keys, stale records, pending batches | `Run` | only fresh, usable records of the requested ID are given to a caller; failures degrade one tier or batch; a finished ctx stops it; it ends |
| CoinGecko and CoinMarketCap services | `internal/marketdata/service.go`, `internal/cmcmarket/service.go` | none | `LookupFresh…`, `EnrichTokens`, `resolve` | keys resolve to the catalog's ID; the enrichment falls back on the newest expired record |
| Redis | `internal/rediscache` | market records, misses, token list, Moralis verdicts, each with an expiry | batch load, compare-and-set save, miss load and save | a live entry is never replaced by an older fetch |
| PostgreSQL | `internal/store` | wallet snapshot, transaction pages, market records, catalogs, token list, verdicts | load, guarded upsert, replace in a transaction | newer is never replaced by older; a snapshot is whole |
| Wallet service | `internal/wallet` | none | `GetTokens`, `GetWalletTokens`, `GetTokenMarkets`, `GetNativeTokens`, `GetTransactions` | the answer is one portfolio, filtered by list and verdict |
| Provider comparison | `internal/marketcompare` | two progress snapshots per request | `Compare` | answers by its deadline with the latest pre-deadline snapshots, which nothing changes afterwards |
| Token validity | `internal/tokenvalidity` | none | `Validate` | a verdict at most the recheck age old, plus the Redis TTL; an outage falls back to the stale verdict |
| Market catalogs | `internal/marketcatalog`, `marketdata/catalog.go`, `cmcmarket/catalog.go`, the two `refresher.go` | the installed catalog (atomic pointer) | bootstrap, refresh, resolve | a catalog is saved before it is used and never followed by an older one; a failure keeps the prior one; ambiguous contracts resolve to nothing |
| LI.FI token list | `internal/tokenlist`, `lifi` | the installed snapshot (atomic pointer) | bootstrap, refresh, lookup | never empty once served; a failure keeps the prior one |
| HTTP clients | `alchemy`, `coingecko`, `coinmarketcap`, `moralis`, `lifi` | none | one method per remote call | bounded retries, never after the deadline |
| API, configuration, start-up | `internal/api`, `config`, `cmd/server` | none | routing, parsing | |

Every HTTP request is a goroutine.  Requests share nothing in memory but the two
catalogs and the token list, which refreshers replace by an atomic pointer swap;
they meet in Redis and PostgreSQL.  A `GET …/markets` request runs two cascades
side by side under one deadline; an address request runs one (the enrichment)
under its own.  The two callers of CoinGecko share one Redis namespace and one
table; CoinMarketCap has its own.

The hard behaviour is therefore in the shared stores: overlapping requests that
read, fetch and save in any order, saves cut off by a deadline, by an error or by
the end of the process, and entries that expire in between.  `PROJECT.json`
lists these hazards at the line where each bites.

## Modules

### MarketRecord: records, freshness and the two guarded writes

A market record is abstracted to the provider ID it was fetched under, the time of
the provider's answer and the class of its payload: `priced` (a price or a change),
`capOnly` (only market cap or update time), `empty`.  These are the distinctions
`HasData` and the two `Apply` methods make; `Usable(kind, rec)` is both `Apply`
methods.  `Fresh` and `RemainingTTL` are those of `marketkey`.  `Upsert` is the
`ON CONFLICT … WHERE EXCLUDED.fetched_at >=` of PostgreSQL, `CompareAndSet` the end
of the Lua script.

### MarketPipeline: concurrent runs of the cascade

One instance of this module is one provider's namespace.  Each `r \in Run` is a
request slot that performs one `marketpipeline.Run` after another.

| state | code |
|---|---|
| `redis`, `missUntil`, `store` | the `market` keys, the `miss` keys, the market table |
| `pc[r]` | the network call the run has in flight |
| `kind[r]`, `want[r]` | which provider adapter runs; `Request.ExpectedID` |
| `started[r]` | `now`, read once in `Run` |
| `cancelled[r]` | `ctx.Err() != nil` |
| `applied[r]`, `stale[r]` | `complete` with the caller's output; the caller's `stale` map |
| `asking[r]`, `missed[r]`, `writes[r]` | the rest of `groups`, `misses`, and `fetched` or `promotions` |

A step is the moment the other side serves a call, with the local code up to the
next call; the check of ctx before a call is therefore made at the end of the
preceding step, and a cancellation between the two is a call that starts on a live
ctx and fails.  Actions: `Begin`, `LoadCache`, `LoadStore`, `SaveCache` (the
promotion and the save after a fetch, one Lua script at a time),
`LoadMisses`, `Fetch`, `SaveMisses`, `SaveStore`, their failures, `Return`,
`Cancel`, `Crash` (the process dies; Redis and PostgreSQL stay) and `Tick`.  A
batch upsert is one implicit transaction, hence one step; the pipelined Redis
writes are one step each, and a failure may fall between any two.  A save that
took effect although the client saw an error is the save followed by the same
control, so it needs no action of its own.

A read may fail when `Failing` names it or ctx is done; it then yields nothing, as
in `load`.  `Requests` are functions from keys to IDs: what `resolve` returns under
whatever catalog was installed, so two requests may disagree about a key (a remap)
and two keys may share an ID.

### MarketReads: what successive answers show

Adds two history variables to MarketPipeline: `served`, the newest fetch time a
lookup has answered for a key, and `floor`, its value when each run began.

### WalletSnapshots and PortfolioTable: the portfolio snapshot in PostgreSQL

The requests `getTokens` (`readFresh`) and `GetTokenMarkets` (`readLatest`) for one
wallet and network, statement by statement.  `rows` and `meta` are the committed
contents of `wallet_tokens` and `token_fetch_meta`; `deleted[r]` and `inserted[r]`
are what an open `SaveTokens` transaction holds.  At READ COMMITTED a DELETE sees
the rows committed when it started and waits for those another transaction has
deleted; an INSERT waits for an uncommitted row of the same key and fails on a
committed one; the upsert of the fetch time waits for the other's.  `BreakDeadlock`
is PostgreSQL's deadlock detection.  A DELETE that waits is taken to hold no lock
itself; the two orders of failure this merges have the same result.  The server's and
the database's clocks are taken to agree.  Filtering and market data, which follow
the read, change none of this state.

`PortfolioTable` is the abstract specification: "replaces the token snapshot … in one
transaction" (`internal/store/store.go:60`), with the transaction as a single step that puts one
whole portfolio in, takes whole ones out and sets the fetch time.  The committed tables
implement it (`SavesAreAtomic`), the statements of a save being stutters up to its commit.

### MarketCompare and DeadlineAnswer: two providers, one deadline

| variable | code |
|---|---|
| `stage[p]` | where the lookup goroutine of `Compare` is; `done` is its closed channel |
| `result[p]` | the slice `lookupFresh` fills and hands to the hook |
| `slot[p]` | `progressState.values`, by reference: a copy, or `Live`, the slice itself |
| `waiting`, `reading` | the channels not yet nil; the select loop is left |
| `reply[p]` | what `snapshot` returned |
| `expired` | `lookupCtx.Err() != nil` |

A lookup is a MarketPipeline run reduced to what it shows here.  The check of ctx
and the publication it guards are two steps, and so are the two reads, because the
deadline and the other goroutines run in between.  `DeadlineAnswer` is the abstract
specification: sources find results and make them known, a deadline passes, and one
answer is given.  `KeepsPromise` is that specification under the mapping `answer <-`
the merged reply once both slots are read; `found` and `known` are history variables.
A result completed before the deadline but not published may be in the answer or not:
that is the freedom `DeadlineAnswer` leaves.

### TokenValidity: checks of one unlisted contract

| variable | code |
|---|---|
| `pc[c]`, `started[c]` | the call `Validate` has in flight; when the check began |
| `ctx[c]` | of the request: `live`, `ending` while the call in flight may still be served, `over` |
| `stale[c]`, `answer[c]` | the local `stale`; the record `validationFromRecord` turns into the answer |
| `redis`, `row` | the `tokenmeta:` key with its expiry; the row of `token_metadata` |

A verdict is the time it was given; nothing on the way looks at its content.
`SaveMeta` is the one `SaveTokenMeta` at the end of each of the three ways to an
answer.  A check returns an error, and hides the token, when `answer[c]` is `None` in
"return".  Contracts do not meet, so one is enough.

### MarketCatalog: the coin catalog of a provider

One instance is one provider's catalog; `provider` says which, and decides whether the
list comes at once or in pages and how a token is resolved.  A mapping row is
abstracted to its coin, and a coin to one contract on the service's chain or to a
native token; `Usable` are the coins `BuildMappings` keeps.

| variable | code |
|---|---|
| `listed` | what the provider lists, sorted by ID; `ListChanges` is the provider's |
| `table`, `memory` | the mappings table; `Holder.ptr` |
| `phase`, `booting` | the call `Bootstrap` or `Refresh` has in flight; `Run` between two ticks is "ready" |
| `attempt` | the number of the fetch, in the place of `now()` |
| `start`, `got`, `twice` | `Fetch`'s loop variable, the coins appended so far, whether one came twice |
| `tokens`, `position`, `given` | the loop of `resolve`: its tokens, its index, the IDs found |
| `held` | the catalog CoinGecko's `lookupFresh` read once; CoinMarketCap's reads `memory` for each token |

Each call of the refresher is a step that succeeds or fails; the replacing transaction
also succeeds without its answer arriving (`ReplaceUnconfirmed`).  TRUNCATE, COPY and
COMMIT are one step because readers only see them together.  COPY fails on the primary
key when a coin was read twice.  A crash empties memory and the requests.

### TokenList and DecimalBalance: the LI.FI list and the requests that filter with it

| variable | code |
|---|---|
| `postgresList`, `redisList` | the row of `lifi_token_lists`; the `lifi:tokens:` key |
| `holder` | `Holder.ptr` |
| `listPhase`, `starting`, `inHand` | the call of `Bootstrap` or `refresh` in flight, and the list fetched |
| `wallet`, `at`, `answer` | `filterTokens`: the tokens, the loop index, `out.Tokens` (`Dropped` for those left out) |
| `asking` | `Validate` is under way: the list may be swapped meanwhile |

A list is what the filter looks at: its addresses and their decimals.  Entries without an
address (`NoAddress`) make a list useful, since the code counts before it drops them, but no
lookup finds them.  The two saves of
`persist` may each fail silently, Redis may lose its copy, and a restart may find LI.FI
down; `dead` is `log.Fatalf`.  `DecimalBalance` is `ScaleBalance` with a number written
as its whole part and the digits after the point.

### MarketEnvelope and PriceFetch: a batch of prices into Redis

`MarketEnvelope` is the Lua script, function by function, on sequences of digits, as
the script works on strings: Redis' numbers are doubles, so the digits are the point.
Its second part is the Go side, `time.Time` written out as JSON and as nanoseconds; it
counts the calendar day by day instead of by the script's formulas.

`PriceFetch` is `GetPrices` of the two price clients (`tries` is `attempt`; a call, a
pause, the call again), the time stamp `fetchRecords` and `Fetch` put on the answer, and the save
through the script, with `ctx` as in TokenValidity.  Several batches for one key
overlap, the clocks of two replicas need not agree (a record found at the start may be
ahead), and the key may hold an envelope the script must not trust.

### TransferHistory: the two calls to Alchemy and their page

`chain` and `mined` are the transfers of the address that will happen and how many
have; `row` and `fresh` the row of `tx_cache`; `step`, `paged`, `page` a request's call in
flight, whether it has a `pageKey`, and what it has fetched.  `known` and `seen` of a page
are history: how much had happened at the first and at the second call.  A request with a
`pageKey` (`paged[r]`) skips the cache and is otherwise served like any other.

Properties that hold and their hazards are stated in the modules, above each
definition.

## Runs

| run | instance | checks |
|---|---|---|
| `pipeline` | 1 run at a time, 2 keys, 2 IDs, one key remapped so that both share an ID, both callers, batches of 1, TTL and miss TTL 1, clock up to 1; every call but the first Redis read may fail on a live ctx, all of them on a finished one | `TypeOK`, `ServedRecords`, `OnlyDatalessKeysAreMissed`, `CancelStopsTheRun`, `FailuresOnlyDegrade`, `EveryRunEnds` |
| `reads` | 2 concurrent runs, 1 remapped key, TTL 3, clock up to 4, runs of at most 1 unit, PostgreSQL reads may fail on a live ctx and every call on a finished one | `ReadsNeverGoBack`, `CacheNeverAheadOfStore`, `StoresOnlyMoveForward` |
| `snapshots` | 2 concurrent requests, 3 tokens, 5 portfolios (two orders of the same tokens, a part, a disjoint one, none), 3 fetches | `TypeOK`, `SnapshotIsWhole`, `SavesAreAtomic`, `EveryRequestEnds` |
| `validity` | 2 overlapping checks, recheck age 2, Redis TTL 1, checks of at most 1 unit, clock up to 4; Moralis and the row's save may fail on a live ctx, every call on a finished one | `TypeOK`, `OldVerdictsNeedAnOutage`, `KnownContractsAnswered`, `AskedOnlyWhenDue`, `RowNearlyInOrder`, `EveryCheckEnds` |
| `reference` | a catalog of 4 coins (two of one contract, one unusable, one native) in pages of 2, the list changing twice, 3 fetches, 1 request of 2 tokens; or a token list out of 4 (one empty, one whose only entry has no address), 2 portfolios of 2 tokens, 3 fetches, 1 request | `CatalogTypeOK`, `NeverGoesBack`, `NothingListedIsLost`, `NeverGuessed`, `NothingKnownIsSkipped`, `EveryRefreshEnds`; `ListTypeOK`, `ServesSavedList`, `ShownWhenListedOrValid`, `BalanceFitsDecimals`, `EveryRequestIsAnswered` |
| `provider` | 2 overlapping price batches of up to 4 attempts, 6 readings of the clock between 1969 and 2025, 5 untrustworthy envelopes; or 2 overlapping history requests, 2 chains of 5 transfers, a limit of 2; or one comparison of 2 tokens, each provider missing, working or hanging, the deadline at any moment | `PriceTypeOK`, `CacheHoldsNewest`, `EveryFetchEnds`; `TransferTypeOK`, `PagesAreMostRecent`; `CompareTypeOK`, `AllInWhenInTime`, `KeepsPromise`, `AlwaysAnswers` |
| `cancelled_miss_save`, `shared_namespace` | the instance of `pipeline` with enough clock | findings, below |
| `snapshot_goes_back`, `snapshot_torn` | the instance of `snapshots` with wallets that always hold the native token | findings, below |
| `asked_twice` | the instance of `validity`, nothing fails | finding, below |
| `page_key_ignored` | the instance of `provider` | finding, below |

Why the bounds are enough.  One run with two keys meets every path of the cascade:
two batches, a batch with two keys, promotion of one key while the other is
fetched, and successive runs leave records, misses and half-finished saves of one
another in the stores; TTL 1 puts the records on both sides of the freshness
boundary.  The first Redis read does not fail on a live ctx there, because the run goes on as
after an empty one, which is in the instance; the theorems cover it.  The interleaving properties
concern one key at a time, since every
store operation treats keys separately, and two actors at a time, since each is
violated by one actor overtaking another.  TTL 3 with runs of at most one unit is
the smallest instance of `2 * Budget < TTL` in which time passes during a run; a clock
of 4 lets the first record expire and be replaced.  Half the TTL is the right bound: with
TTL 3, runs of up to 2 units and the hypothesis weakened to `Budget < TTL`, TLC finds a
lookup that loads a record just before a newer one is saved and promotes it just after
the newer one has expired in Redis, where a third lookup finds it.  In a comparison two tokens allow a
lookup two publications, so that a slot can change between two looks at it.  In `validity` a verdict can be
four units old, which is past the bound of three that holds without an outage; each
bound of its properties is tight: one unit less is violated.  In `snapshots` three fetches
let a third save meet what two overlapping ones left behind.  In `reference` a
list of three or four coins in pages of two has a full and a partial page, and a full
last page followed by an empty one; two changes can add a coin in front of the page just
read, remove one, or put it back; three fetches let a crash follow a refresh that
followed a bootstrap, with every combination of failed saves.  One request is enough:
requests only read.  In `provider` two batches are the overtaker and the overtaken, and
four attempts are the code's own number; a limit of two is exceeded by each direction
and by both together, and a transfer may be in both.  In both runs several components share
one configuration: `scene` lets one of them work while the others rest.  They share no
state and no call, so the product would add only states in which each is as it is here.
`MCReference` also checks `ScaleBalance` on every balance up to 1200 with up to 5 decimals,
and `MCProvider` the script on 64 instants from 1901 to 2038, pairwise, and in several
time zones: that it trusts what the Go side writes and orders it like the clock.  TLC's
integers have 32 bits, hence those years; the code's seconds are exact far beyond.

The bounds are the
constants `MaxAttempts`, `MaxChanges` and `MaxFetches` (guards of the refreshers' ticks, of
`ListChanges` and of the restarts), `MaxTime` (guard of `Tick`, and of `Begin` in WalletSnapshots and TokenValidity), `Budget`
(guard of `Tick`) and the finite sets of the `.cfg` files.

`Budget` states that a lookup is over, or cut off by its deadline, before that much
time has passed.  The code justifies it: the enrichment and comparison timeouts are
seconds, and the market TTL is minutes, so a lookup is also over within half of it.  In TokenValidity it stands for the timeouts
of the Redis, PostgreSQL and Moralis clients, against windows of a day and a week; the
properties name it, so a longer check only makes the bounds longer.

### Fairness

`FairSpec` of MarketPipeline is weak fairness of each run's own steps: every call
returns, because the enrichment and the comparison run under a context deadline
and the HTTP clients have timeouts.  Nothing is assumed of `Begin`, `Cancel`,
`Crash` or `Tick`.  WalletSnapshots assumes that PostgreSQL and Alchemy answer and
that deadlocks are found; a request there has no deadline of its own, and no
failure is assumed to come to the rescue.  MarketCompare assumes only that the request
goroutine runs; the lookups may hang for ever, and `AlwaysAnswers` speaks of a request whose
deadline has passed or whose lookups are both done.  TokenValidity
assumes that each call of a check returns, as the client timeouts have it.  So do
MarketCatalog and TokenList of the refreshers' calls and of the validator's, and
PriceFetch of a call to the provider or to Redis; its pause ends because it is a timer.
No fairness is assumed of a deadline, so `EveryFetchEnds` holds of a request without one,
nor of ticks, of requests that arrive, or of changes at a provider.  TransferHistory
states no liveness.  The `Spec` of a run with scenes restates the fairness of its parts.

## What disagrees with the documents

* `cancelled_miss_save`: after a batch in which nothing was usable, ctx is not
  looked at before the misses are saved, so that one call still starts after
  cancellation.  It fails at once; `CancelStopsTheRun` shows that it is the only one.
* `shared_namespace`: the enrichment stores records with neither price nor change in
  the tables the specification keeps them out of.  They never reach the comparison
  route (`ServedRecords`).
* `snapshot_goes_back`: `SaveTokens` has no guard on the fetch time, so the older of two
  overlapping fetches can replace the newer.
* `snapshot_torn`: fetch time and rows are read in two statements, so a read that
  overlaps a save may pair the new tokens with the old time.

* `page_key_ignored`: README.md:18 and `handlers.go:141` of the repository and the 2026-06-23 design
  (line 148) page through the history with `pageKey`.  `alchemy.GetTransfers` neither sends the
  key nor returns one: a request with a key bypasses the cache and gets the first page,
  fetched anew (`PageKeyPages` is violated), and `nextPageKey` is always empty.

* `asked_twice`: two overlapping checks both ask Moralis, against "at most once per
  week".  `AskedOnlyWhenDue` is what holds instead: nobody asks while the row seen at
  the start was young, but for the length of a check.

## Proofs

Every safety property that a passing run checks is a theorem, for every value of the constants.
`CountingLemmas` holds what the proofs of several components cite: the least element of
a set of numbers, induction and definition by recursion, and the place of an element
in a finite total order.  They are stated of sets and functions instead of operators
(`Induct` of a set of numbers, `Recursion` of a function of steps), because the library's
theorems take an operator as a parameter, which the provers cannot instantiate.  The
models are written to fit: a power of ten is a recursive function, and filtering and
sorting are one operator, `Arrange` of TransferHistory, on indices and their ranks.

`MarketPipelineProofs` proves, from the named assumptions `RecordAssumption` and
`PipelineAssumption` alone:

* `TypeCorrect`: `Spec => []TypeOK`.  `TypeOK` alone is not inductive: a run that saves
  must have a record for each queued key and an idle run must have nothing.
  `QueuesOK` says so and is proved with it, one step for each action.
* `ServedSafe`: `Spec => []ServedRecords`.  The stores may hold anything; the argument is that
  each record is tested on arrival (`HitsServed`) against this run's own request, and
  that a fetched record is fresh because a run's reading of the clock lies in the
  past (`StartedInPast`, `ReceivedIsFresh`).  The property compares the record's age with the TTL
  itself, not by the model's `Fresh`; `FreshWithinTTL` connects the two.
* `StoresForward`: `Spec => StoresOnlyMoveForward`, from the two guarded writes
  (`UpsertKeepsNewest`, `CompareAndSetKeepsNewest`), which are the only writers.
* `CacheFollowsStore`: `Spec => []CacheNeverAheadOfStore`.  The inductive companion is
  `SavedFirst`: what a run is about to write to Redis is already in PostgreSQL, or
  something newer is.  It survives the other runs because PostgreSQL only moves
  forward, and it is what fails when ctx is not tested between the two saves.

* `CancelStops`: `Spec => CancelStopsTheRun`, from what a finished ctx leaves of each
  control decision (`CancelledControl`); only the one after a fetch is not "return".
* `MissesJustified`: `Spec => []OnlyDatalessKeysAreMissed`.  `MissesOK` adds that misses on
  their way to Redis are justified too.
* `FailuresDegrade`: `Spec => FailuresOnlyDegrade`.  `Unasked` of a run are its incomplete keys
  that neither have a live miss nor have been put to the provider.  On a live ctx a key leaves
  it only by being completed, by a live miss that `LoadMisses` found or in
  a batch just fetched, so a failed read, promotion, batch or save drops none, and no run on a live ctx returns while a key is left.  `AskingOK` says that
  the keys still to be asked about are incomplete, so no answer overwrites a record, and that
  a run in the first two tiers has not begun to ask.

Of MarketReads, which composes runs into successive lookups, it proves from these
results and the same two assumptions:

* `NeverGoBack`: `ReadsSpec => []ReadsNeverGoBack`.  The invariant `ReadsOK` follows an
  answered fetch time through the stores: PostgreSQL has it or something newer
  (`InStore`); Redis has it or something newer until it has had the time to expire there
  (`Covered`); and whoever is still going to save something older began no later than one
  run after it (`Young`), so it will not outlive the entry.  `ShortOK` is where the length of
  a run comes in, `HeldOK` says the same of what runs hold before they answer.

`MarketCompareProofs` proves, from `CompareAssumption`:

* `TypeCorrect`: `CompareSpec => []CompareTypeOK`.

* `Refinement`: `CompareSpec => KeepsPromise`, each step a step of DeadlineAnswer or a stutter.
  The invariant it needs says that a slot lies between what was known and what was
  found (`HistoryOK`), that it still does after being read, and that a request that
  goes on before the deadline has both lookups behind it (`RequestOK`).
* `CompleteInTime`: `CompareSpec => []AllInWhenInTime`, from the same invariant.

`WalletSnapshotsProofs` proves, from `SnapshotAssumption`, for any finite number of requests:

* `TypeCorrect`: `Spec => []TypeOK`.
* `SnapshotWhole`: `Spec => []SnapshotIsWhole`.  The invariant says what the row locks
  achieve: no row is deleted by two transactions and no key inserted by two (`LocksOK`),
  so transactions delete and commit whole fetches (`RowsOK`), each under a time of its
  own (`TimesOK`; `RoomOK` says that the bounded clock has one left for every request
  that may still fetch).
* `SavesRefine`: `Spec => SavesAreAtomic`, from the same invariant: what a transaction about
  to commit has deleted are all the rows of some fetches, what it has inserted is the
  whole of its own (`WholePortfolio`), and the two do not meet.  Every other statement, failure or
  broken deadlock is a stutter.

`TokenValidityProofs` proves, from `ValidityAssumption`:

* `TypeCorrect`: `Spec => []TypeOK`, with `TimeOK`: nothing is ahead of the clock.

* `AgeBounded`: `Spec => []OldVerdictsNeedAnOutage`.  The invariant follows a verdict's
  backing: what a check may still save was young or excused by an outage during this
  check (`Backed`), hence what Redis holds was when it was saved (`EntryOK`), hence
  what a later check takes from there (`BackedByRedis`).
* `RowOrdered`: `Spec => RowNearlyInOrder`, because a saved verdict was given during the
  check that saves it.
* `KnownAnswered`: `Spec => []KnownContractsAnswered`, and `AskedWhenDue`: `Spec =>
  AskedOnlyWhenDue`.  Both follow the row a check found when it began (`KeptOK`): it is only
  ever replaced by verdicts of checks, each at most one `Budget` older.

`MarketCatalogProofs` proves, from `CatalogAssumption`:

* `CatalogTypeCorrect`: `CatalogSpec => []CatalogTypeOK`, with `ResultsOK`: a request has found
  as many results as it has passed tokens, so each result has its token.
* `CatalogNeverGoesBack`: `CatalogSpec => []NeverGoesBack`.  `SavedFirst` says that what is
  published, or about to be, is in the table already (`DurableOK`) and that the table holds
  nothing older than what was ever published (`MemoryOK`); this is what a bootstrap after
  a crash relies on.
* `CatalogNeverGuesses`: `CatalogSpec => []NeverGuessed`, since what a request looks into is one
  of the catalogs published during it (`LooksIntoServed`).
* `CatalogSkipsNothingKnown`: `CatalogSpec => []NothingKnownIsSkipped`, from `AllFound`: with one
  catalog all through, an earlier token of the key got the same coin, so CoinMarketCap's
  test for another one never strikes.
* `CatalogLosesNothingListed`: `CatalogSpec => []NothingListedIsLost`.  `PagesRead` follows the
  fetch through the changing list: while nothing is removed, a steady coin is either read
  or ranks behind the last page (`RanksGrow`: insertions only move it back), so a page that
  is not full ends the fetch with all of them read (`ShortPageIsLast`).

`TokenListProofs` proves, from `TokenListAssumption`:

* `ListIsSaved`: `ListSpec => []ServesSavedList`.  The invariant bounds each place a list is
  in from below by the newest list both stores took (`StoresOK`), which is why asking Redis
  first does no harm.
* `ScaleBalanceIsExact`: for every raw balance and every number of decimals, `ScaleBalance`
  writes the exact quotient, without trailing zeros.  Padding to one digit for each
  decimal loses nothing (`ReadingPadded`, by induction on the digits read), and the zeros cut
  off are the factors of ten the shorter text is worth less (`TrimRightKeeps`).
* `ListTypeCorrect`: `ListSpec => []ListTypeOK`, `ListHidesNothingListed`: `ListSpec =>
  []ShownWhenListedOrValid` and `ListBalancesAreExact`: `ListSpec => []BalanceFitsDecimals`.
  One invariant, `RequestOK`, says of a filtering request that each decision so far was
  taken with a list it has seen, and each balance scaled with the decimals given.

`ProviderProofs` proves, from `PriceFetchAssumption` and `ScriptAssumption`:

* `PriceTypeCorrect`: `PriceSpec => []PriceTypeOK`; the attempts are bounded because a batch
  that sleeps has not used the last one.
* `NewestIsKept`: `PriceSpec => []CacheHoldsNewest`.  `ScriptAssumption` is what the script
  does with the envelopes at hand; it is a closed statement that TLC evaluates in `provider`
  for the readings of the clock there, and `MCProvider` checks more of them.  The
  theorem adds the interleavings, for any number of batches.

and, from `TransferAssumption`:

* `TransferTypeCorrect`: `TransferSpec => []TransferTypeOK`, and `TransfersAreMostRecent`:
  `TransferSpec => []PagesAreMostRecent`.  Between the calls a request has the latest
  outgoing transfers that had happened at the first (`Latest`); `Merged` is the heart of it: a
  transfer that an answer lacks, or that the merged page cuts off, leaves `Limit` different
  ones that outrank it (`Outranked`, by counting), and what deduplication drops is there
  already.  The rest of `HistoryOK` carries finished pages through the cache.  The property speaks of
  requests without a `pageKey` and of the row; what is shown of a request with one is that its page is the first, too.

Only model-checked:

* liveness, which is out of the prover's reach: `EveryRunEnds`, `EveryRequestEnds`,
  `AlwaysAnswers`, `EveryCheckEnds`, `EveryRefreshEnds`, `EveryRequestIsAnswered`,
  `EveryFetchEnds`;
* `ScriptAssumption` and `EnvelopesAreTrusted`: what the Lua script and Go make of one
  instant is computed by recursive operators over digits, which the provers cannot unfold.

## Not modelled

* HTTP, JSON and SQL text, logging and its redaction, configuration, the OpenAPI
  document, and the wiring in `main`: text and constants, no state.  Start-up is modelled
  where it has behaviour, in the bootstraps of MarketCatalog and TokenList; that the three
  share one deadline of 30 seconds shows there as calls that fail.
* `GetNativeTokens` reads the current list once and adds market data by a cascade.
* Transfers that `dedupeTransfers` cannot tell apart (one transaction, the same parties,
  asset and value) are one transfer in TransferHistory.  Block numbers that do not
  parse sort last in the code; Alchemy's always do.  `filterTransfers` hides transfers by
  symbol after the page is cut and cached; it changes no state.
* The row locks of the market upserts: each upsert is one atomic statement here, so two batches
  that lock the same rows in different orders cannot wait for each other in the model.
* A token list swapped while a request filters: the answer may be decided token by token with
  two lists; the code promises nothing else, and the model permits it.
* Balances that are no numbers or are negative: `ScaleBalance` refuses them, and the whole
  request fails (`Fail` of WalletSnapshots).
* Names, symbols and logos that the list or Moralis overlay on a token: assignments that
  nothing else depends on.
* A provider list that grows for ever faster than its pages are read: `Coin` is finite, so
  `EveryRefreshEnds` does not speak of it.
