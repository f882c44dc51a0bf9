------------------------- MODULE MarketCatalogProofs -------------------------
(***************************************************************************)
(* For any catalog, any page size and any number of requests: what is       *)
(* published never goes back, no coin is guessed, and none that stays       *)
(* listed is lost between the pages.                                        *)
(***************************************************************************)
EXTENDS MarketCatalog, CountingLemmas

-----------------------------------------------------------------------------
\* A request has one result for each token behind it.
ResultsOK ==
  \A q \in Lookup : IF position[q] = 0 THEN given[q] = <<>> ELSE Len(given[q]) = position[q] - 1

CatalogOK == CatalogTypeOK /\ ResultsOK

\* A set of candidates settles on one of them, if it settles.
LEMMA UniqueMember ==
  ASSUME NEW ids, ids \subseteq Coin, Unique(ids) # NoCoin
  PROVE  ids = {Unique(ids)}
<1>1. Cardinality(ids) = 1
  BY DEF Unique
<1>2. IsFiniteSet(ids)
  BY CatalogAssumption, FS_Subset
<1>3. PICK c : ids = {c}
  BY <1>1, <1>2, FS_Singleton
<1> QED
  BY <1>1, <1>3 DEF Unique

\* Only the provider's coins, and the configured ones, are candidates.
LEMMA CandidatesAreCoins ==
  ASSUME NEW t, NEW coins, coins \subseteq Coin
  PROVE  ResolveCoinGecko(t, coins) \subseteq Coin /\ ResolveCoinMarketCap(t, coins) \subseteq Coin
<1>1. ResolveCoinGecko(t, coins) \subseteq Coin
  BY DEF ResolveCoinGecko
<1>2. {c \in coins : ContractOf[c] = t.contract} \subseteq Coin
  OBVIOUS
<1>3. ResolveCoinMarketCap(t, coins) \subseteq Coin
  BY <1>2, CatalogAssumption, Zenon DEF ResolveCoinMarketCap
<1> QED
  BY <1>1, <1>3

\* The coins a request looks into are usable.
LEMMA CoinsAreCoins ==
  ASSUME CatalogTypeOK, NEW q \in Lookup
  PROVE  CoinsOf(held[q]) \subseteq Coin /\ CoinsOf(memory) \subseteq Coin
<1>1. held[q] \in CatalogOrNone /\ memory \in CatalogOrNone
  BY DEF CatalogTypeOK
<1>2. \A c \in CatalogOrNone : CoinsOf(c) \subseteq Coin
  BY CatalogAssumption DEF CatalogOrNone, Catalog, CoinsOf
<1> QED
  BY <1>1, <1>2

LEMMA ResolveIsCoin ==
  ASSUME CatalogTypeOK, NEW q \in Lookup, NEW t
  PROVE  Resolve(q, t) \in Coin \cup {NoCoin}
<1> DEFINE ids == IF provider = "coingecko" THEN ResolveCoinGecko(t, CoinsOf(held[q]))
                  ELSE ResolveCoinMarketCap(t, CoinsOf(memory))
<1>1. ids \subseteq Coin
  BY CoinsAreCoins, CandidatesAreCoins
<1>2. Resolve(q, t) = Unique(ids)
  BY DEF Resolve
<1> HIDE DEF ids
<1> QED
  BY <1>1, <1>2, UniqueMember

\* The coin a key has been given before is one of the results.
LEMMA GivenIsCoin ==
  ASSUME CatalogOK, NEW q \in Lookup, position[q] # 0, NEW id \in Coin \cup {NoCoin}
  PROVE  Given(q, id) \in Coin \cup {NoCoin}
<1>1. Prior(q) \subseteq 1..(position[q] - 1)
  BY DEF Prior
<1>2. given[q] \in Seq(Coin \cup {NoCoin}) /\ Len(given[q]) = position[q] - 1
  BY DEF CatalogOK, CatalogTypeOK, ResultsOK
<1>3. \A i \in Prior(q) : given[q][i] \in Coin \cup {NoCoin}
  BY <1>1, <1>2
<1> QED
  BY <1>3 DEF Given

\* What is handed over is a catalog of usable coins.
LEMMA MappingsType == CatalogTypeOK => Mappings \in Catalog
  BY CatalogAssumption DEF CatalogTypeOK, Mappings, Catalog

LEMMA PublishType ==
  ASSUME CatalogTypeOK, NEW c \in Catalog, Publish(c)
  PROVE  memory' \in CatalogOrNone /\ newest' \in Nat /\ served' \in [Lookup -> SUBSET CatalogOrNone]
  BY DEF CatalogTypeOK, Publish, Catalog, CatalogOrNone

\* No request is at work.
LEMMA NoRequestsType ==
  /\ Idle \in [Lookup -> TokenLists \cup {<<>>}]
  /\ Idle \in [Lookup -> Seq(Coin \cup {NoCoin})]
  /\ [q \in Lookup |-> 0] \in [Lookup -> Nat]
  /\ [q \in Lookup |-> NoCatalog] \in [Lookup -> CatalogOrNone]
  /\ [q \in Lookup |-> {}] \in [Lookup -> SUBSET CatalogOrNone]
<1>1. Idle \in [Lookup -> Seq(Coin \cup {NoCoin})]
  BY DEF Idle
<1> QED
  BY <1>1 DEF Idle, CatalogOrNone

LEMMA InitCatalog == CatalogInit => CatalogOK
<1> SUFFICES ASSUME CatalogInit PROVE CatalogTypeOK /\ ResultsOK
  BY DEF CatalogOK
<1>1. listed \subseteq Coin
  BY CatalogAssumption DEF CatalogInit, NewProcess
<1>2. CatalogTypeOK
  BY <1>1, NoRequestsType DEF CatalogInit, NewProcess, CatalogTypeOK, CatalogOrNone
<1> QED
  BY <1>2 DEF CatalogInit, NewProcess, ResultsOK, Idle

\* The refresher's steps leave the requests alone but for the history of what is
\* published.
LEMMA RefresherType == CatalogOK /\ RefresherStep => CatalogOK'
<1> SUFFICES ASSUME CatalogTypeOK, ResultsOK, RefresherStep
             PROVE  CatalogTypeOK' /\ ResultsOK'
  BY DEF CatalogOK
<1> USE CatalogAssumption DEF CatalogTypeOK, ResultsOK, fetch, upstream, requests, published, Forget, GiveUp
<1>1. CASE FetchPage
  <2>1. Page \subseteq Coin
    BY DEF Page
  <2>2. CASE LastPage /\ Useless
    <3>1. GiveUp /\ UNCHANGED <<provider, upstream, table, published, attempt, requests>>
      BY <1>1, <2>2, Zenon DEF FetchPage
    <3> QED
      BY <3>1
  <2>3. CASE ~(LastPage /\ Useless)
    <3>1. got' \subseteq Coin /\ twice' \in BOOLEAN
      BY <1>1, <2>1, <2>3 DEF FetchPage
    <3>2. start' \in Nat /\ phase' \in {"fetch", "replace"}
      BY <1>1, <2>3 DEF FetchPage
    <3> QED
      BY <1>1, <2>3, <3>1, <3>2 DEF FetchPage
  <2> QED
    BY <2>2, <2>3
<1>2. CASE FetchFails
  BY <1>2 DEF FetchFails
<1>3. CASE Replace
  BY <1>3, MappingsType DEF Replace, CatalogOrNone
<1>4. CASE ReplaceUnconfirmed
  BY <1>4, MappingsType DEF ReplaceUnconfirmed, CatalogOrNone
<1>5. CASE ReplaceFails
  BY <1>5 DEF ReplaceFails, AfterReplaceFails
<1>6. CASE Install
  BY <1>6, MappingsType, PublishType DEF Install
<1>7. CASE Load
  <2>1. CASE table = NoCatalog
    BY <1>7, <2>1 DEF Load
  <2>2. CASE table # NoCatalog
    <3>1. table \in Catalog
      BY <2>2 DEF CatalogOrNone
    <3> QED
      BY <1>7, <2>2, <3>1, PublishType DEF Load
  <2> QED
    BY <2>1, <2>2
<1>8. CASE LoadFails
  BY <1>8 DEF LoadFails
<1> QED
  BY <1>1, <1>2, <1>3, <1>4, <1>5, <1>6, <1>7, <1>8 DEF RefresherStep

\* Every step keeps the types.
LEMMA CatalogStepType == CatalogOK /\ [CatalogNext]_catalogVars => CatalogOK'
<1> SUFFICES ASSUME CatalogTypeOK, ResultsOK, [CatalogNext]_catalogVars
             PROVE  CatalogTypeOK' /\ ResultsOK'
  BY DEF CatalogOK
<1> USE CatalogAssumption DEF fetch, upstream, requests, published, NewFetch, Idle
<1>1. CASE ListChanges
  BY <1>1 DEF ListChanges, CatalogTypeOK, ResultsOK
<1>2. CASE BeginRefresh
  <2>1. attempt' \in Nat /\ phase' = "fetch" /\ UNCHANGED <<position, given>>
    BY <1>2 DEF BeginRefresh, CatalogTypeOK
  <2>2. CatalogTypeOK'
    BY <1>2, <2>1 DEF BeginRefresh, CatalogTypeOK
  <2> QED
    BY <2>1, <2>2 DEF ResultsOK
<1>3. CASE RefresherStep
  BY <1>3, RefresherType DEF CatalogOK
<1>4. CASE CatalogCrash
  <2>1. attempt' \in Nat /\ phase' = "fetch"
    BY <1>4 DEF CatalogCrash, CatalogTypeOK
  <2>2. memory' \in CatalogOrNone
    BY <1>4 DEF CatalogCrash, CatalogOrNone
  <2>3. CatalogTypeOK'
    BY <1>4, <2>1, <2>2, NoRequestsType DEF CatalogCrash, CatalogTypeOK
  <2> QED
    BY <1>4, <2>3 DEF CatalogCrash, ResultsOK
<1>5. ASSUME NEW q \in Lookup, NEW list \in TokenLists, BeginLookup(q, list)
      PROVE  CatalogTypeOK' /\ ResultsOK'
  <2>1. CatalogTypeOK'
    BY <1>5 DEF BeginLookup, CatalogTypeOK, CatalogOrNone
  <2>2. given[q] = <<>>
    BY <1>5 DEF BeginLookup, ResultsOK
  <2> QED
    BY <1>5, <2>1, <2>2 DEF BeginLookup, CatalogTypeOK, ResultsOK
<1>6. ASSUME NEW q \in Lookup, ResolveToken(q) PROVE CatalogTypeOK' /\ ResultsOK'
  <2> DEFINE result == Given(q, Resolve(q, tokens[q][position[q]]))
  <2>1. position[q] # 0 /\ position[q] \in Nat
    BY <1>6 DEF ResolveToken
  <2>2. result \in Coin \cup {NoCoin}
    BY <2>1, ResolveIsCoin, GivenIsCoin DEF CatalogOK
  <2>3. given' = [given EXCEPT ![q] = Append(given[q], result)]
    BY <1>6 DEF ResolveToken
  <2> HIDE DEF result
  <2>4. given' \in [Lookup -> Seq(Coin \cup {NoCoin})]
    BY <2>2, <2>3 DEF CatalogTypeOK
  <2>5. CatalogTypeOK'
    BY <1>6, <2>4 DEF ResolveToken, CatalogTypeOK
  <2>6. Len(given'[q]) = position'[q] - 1
    BY <1>6, <2>1, <2>2, <2>3 DEF ResolveToken, CatalogTypeOK, ResultsOK
  <2> QED
    BY <1>6, <2>3, <2>5, <2>6 DEF ResolveToken, CatalogTypeOK, ResultsOK
<1>7. ASSUME NEW q \in Lookup, Resolved(q) PROVE CatalogTypeOK' /\ ResultsOK'
  BY <1>7 DEF Resolved, CatalogTypeOK, ResultsOK, CatalogOrNone
<1>8. CASE UNCHANGED catalogVars
  BY <1>8 DEF catalogVars, CatalogTypeOK, ResultsOK
<1> QED
  BY <1>1, <1>2, <1>3, <1>4, <1>5, <1>6, <1>7, <1>8 DEF CatalogNext

\* The catalogs, the calls and the requests stay within their types, however the
\* provider's list changes, calls fail and the process dies.
THEOREM CatalogTypeCorrect == CatalogSpec => []CatalogTypeOK
<1>1. CatalogOK => CatalogTypeOK
  BY DEF CatalogOK
<1> QED
  BY InitCatalog, CatalogStepType, <1>1, PTL DEF CatalogSpec
-----------------------------------------------------------------------------
\* Whatever was published, PostgreSQL has it or something newer: a catalog is
\* saved before it is installed, and nothing installed is newer than the row.
SavedFirst ==
  /\ table # NoCatalog => table.coins # {} /\ table.fetchedAt <= attempt
  /\ newest > 0 => table # NoCatalog /\ newest <= table.fetchedAt
  /\ phase = "install" => table = Mappings
  /\ phase = "replace" => got \cap Usable # {}

\* What memory holds, and when it holds nothing.
MemoryOK ==
  /\ memory # NoCatalog => memory.coins # {} /\ memory.fetchedAt = newest
  /\ booting => memory = NoCatalog
  /\ phase = "load" => booting
  /\ phase = "ready" => ~booting
  /\ ~booting /\ memory = NoCatalog => newest = 0 \/ unread

DurableOK == CatalogOK /\ SavedFirst /\ MemoryOK

LEMMA DurableHolds == DurableOK => NeverGoesBack
  BY DEF DurableOK, MemoryOK, CatalogOK, CatalogTypeOK, NeverGoesBack

LEMMA InitDurable == CatalogInit => DurableOK
  BY InitCatalog DEF CatalogInit, NewProcess, DurableOK, SavedFirst, MemoryOK

\* A catalog is a record, and NoCatalog is none.
LEMMA MappingsIsCatalog ==
  CatalogTypeOK => Mappings # NoCatalog /\ Mappings.coins = got \cap Usable /\ Mappings.fetchedAt = attempt
<1> SUFFICES ASSUME CatalogTypeOK PROVE Mappings # NoCatalog
  BY DEF Mappings
<1> QED
  BY MappingsType, CatalogAssumption

\* An attempt that ends without a new catalog.
LEMMA GiveUpDurable ==
  ASSUME DurableOK, GiveUp, UNCHANGED published, UNCHANGED attempt,
         \/ UNCHANGED table
         \/ table' = Mappings /\ got \cap Usable # {}
  PROVE  SavedFirst' /\ MemoryOK'
<1>1. attempt \in Nat /\ newest \in Nat
  BY DEF DurableOK, CatalogOK, CatalogTypeOK
<1>2. MemoryOK'
  BY DEF DurableOK, MemoryOK, GiveUp, published
<1>3. newest <= attempt
  <2>1. CASE newest > 0
    <3>1. table \in Catalog
      BY <2>1 DEF DurableOK, SavedFirst, CatalogOK, CatalogTypeOK, CatalogOrNone
    <3> QED
      BY <1>1, <2>1, <3>1 DEF DurableOK, SavedFirst, Catalog
  <2> QED
    BY <1>1, <2>1
<1>4. phase' \in {"load", "ready"}
  BY DEF GiveUp
<1>5. newest' = newest /\ attempt' = attempt
  BY DEF published
<1>6. CASE table' = table
  BY <1>2, <1>4, <1>5, <1>6 DEF DurableOK, SavedFirst
<1>7. CASE table' = Mappings /\ got \cap Usable # {}
  <2>1. table' # NoCatalog /\ table'.coins # {} /\ table'.fetchedAt = attempt
    BY <1>7, MappingsIsCatalog DEF DurableOK, CatalogOK
  <2> QED
    BY <1>1, <1>2, <1>3, <1>4, <1>5, <2>1 DEF SavedFirst
<1> QED
  BY <1>6, <1>7

LEMMA RefresherDurable == DurableOK /\ RefresherStep => SavedFirst' /\ MemoryOK'
<1> SUFFICES ASSUME DurableOK, RefresherStep PROVE SavedFirst' /\ MemoryOK'
  OBVIOUS
<1>0. CatalogTypeOK /\ attempt \in Nat /\ newest \in Nat
  BY DEF DurableOK, CatalogOK, CatalogTypeOK
<1>1. CASE FetchPage
  <2>1. CASE LastPage /\ Useless
    <3>1. GiveUp /\ UNCHANGED <<provider, upstream, table, published, attempt, requests>>
      BY <1>1, <2>1, Zenon DEF FetchPage
    <3> QED
      BY <3>1, GiveUpDurable
  <2>2. CASE ~(LastPage /\ Useless)
    <3>1. phase' = "replace" => got' \cap Usable # {}
      BY <1>1, <2>2 DEF FetchPage, Useless
    <3>2. phase' \in {"fetch", "replace"}
      BY <1>1, <2>2 DEF FetchPage
    <3>3. UNCHANGED <<table, memory, newest, unread, attempt, booting>>
      BY <1>1, <2>2, Zenon DEF FetchPage, published
    <3> QED
      BY <3>1, <3>2, <3>3 DEF DurableOK, SavedFirst, MemoryOK
  <2> QED
    BY <2>1, <2>2
<1>2. CASE FetchFails
  <2>1. GiveUp /\ UNCHANGED <<table, published, attempt>>
    BY <1>2 DEF FetchFails
  <2> QED
    BY <2>1, GiveUpDurable
<1>3. CASE Replace
  <2>1. Mappings' = Mappings
    BY <1>3 DEF Replace, fetch, Mappings
  <2>2. newest <= attempt
    <3>1. CASE newest > 0
      <4>1. table \in Catalog
        BY <1>0, <3>1 DEF DurableOK, SavedFirst, CatalogTypeOK, CatalogOrNone
      <4> QED
        BY <1>0, <3>1, <4>1 DEF DurableOK, SavedFirst, Catalog
    <3> QED
      BY <1>0, <3>1
  <2> QED
    BY <1>0, <1>3, <2>1, <2>2, MappingsIsCatalog
       DEF Replace, DurableOK, SavedFirst, MemoryOK, published
<1>4. CASE ReplaceUnconfirmed
  <2>1. /\ GiveUp /\ UNCHANGED <<published, attempt>>
        /\ table' = Mappings /\ got \cap Usable # {}
    BY <1>4 DEF ReplaceUnconfirmed, DurableOK, SavedFirst
  <2> QED
    BY <2>1, GiveUpDurable
<1>5. CASE ReplaceFails
  <2>1. GiveUp /\ UNCHANGED <<table, published, attempt>>
    BY <1>5 DEF ReplaceFails, AfterReplaceFails
  <2> QED
    BY <2>1, GiveUpDurable
<1>6. CASE Install
  <2>1. table = Mappings /\ table.coins # {} /\ table # NoCatalog
    BY <1>0, <1>6, MappingsIsCatalog DEF Install, DurableOK, SavedFirst
  <2>2. memory' = Mappings /\ newest' = attempt
    BY <1>0, <1>6, <2>1, MappingsIsCatalog DEF Install, Publish, DurableOK, SavedFirst
  <2> QED
    BY <1>0, <1>6, <2>1, <2>2, MappingsIsCatalog DEF Install, DurableOK, SavedFirst, MemoryOK
<1>7. CASE Load
  <2>1. CASE table = NoCatalog
    BY <1>0, <1>7, <2>1 DEF Load, DurableOK, SavedFirst, MemoryOK
  <2>2. CASE table # NoCatalog
    <3>1. table.fetchedAt \in Nat
      BY <1>0, <2>2 DEF CatalogTypeOK, CatalogOrNone, Catalog
    <3>2. memory' = table /\ newest' = table.fetchedAt
      BY <1>0, <1>7, <2>2, <3>1 DEF Load, Publish, DurableOK, SavedFirst
    <3> QED
      BY <1>0, <1>7, <2>2, <3>1, <3>2 DEF Load, DurableOK, SavedFirst, MemoryOK
  <2> QED
    BY <2>1, <2>2
<1>8. CASE LoadFails
  BY <1>8 DEF LoadFails, DurableOK, SavedFirst, MemoryOK
<1> QED
  BY <1>1, <1>2, <1>3, <1>4, <1>5, <1>6, <1>7, <1>8 DEF RefresherStep

\* Nothing else writes a catalog; a crash empties memory.
LEMMA DurableStep == DurableOK /\ [CatalogNext]_catalogVars => DurableOK'
<1> SUFFICES ASSUME DurableOK, [CatalogNext]_catalogVars PROVE SavedFirst' /\ MemoryOK'
  BY CatalogStepType DEF DurableOK
<1>0. attempt \in Nat /\ newest \in Nat /\ table \in CatalogOrNone
  BY DEF DurableOK, CatalogOK, CatalogTypeOK
<1>1. CASE RefresherStep
  BY <1>1, RefresherDurable
<1>2. CASE BeginRefresh \/ CatalogCrash
  <2>1. attempt' = attempt + 1 /\ phase' = "fetch" /\ UNCHANGED <<table, newest>>
    BY <1>2 DEF BeginRefresh, CatalogCrash, NewFetch, published
  <2>2. SavedFirst'
    <3>1. table # NoCatalog => table.fetchedAt \in Nat
      BY <1>0 DEF CatalogOrNone, Catalog
    <3> QED
      BY <1>0, <2>1, <3>1 DEF DurableOK, SavedFirst
  <2>3. MemoryOK'
    BY <1>2 DEF BeginRefresh, CatalogCrash, NewFetch, DurableOK, MemoryOK, published
  <2> QED
    BY <2>2, <2>3
<1>3. ASSUME UNCHANGED <<table, memory, newest, unread, phase, booting, attempt, got>>
      PROVE  SavedFirst' /\ MemoryOK'
  BY <1>3 DEF DurableOK, SavedFirst, MemoryOK, Mappings
<1>4. CASE ListChanges
  BY <1>3, <1>4 DEF ListChanges, published
<1>5. ASSUME NEW q \in Lookup, NEW list \in TokenLists, BeginLookup(q, list)
      PROVE  SavedFirst' /\ MemoryOK'
  BY <1>3, <1>5 DEF BeginLookup, published, fetch
<1>6. ASSUME NEW q \in Lookup, ResolveToken(q) \/ Resolved(q) PROVE SavedFirst' /\ MemoryOK'
  BY <1>3, <1>6 DEF ResolveToken, Resolved, published, fetch
<1>7. CASE UNCHANGED catalogVars
  BY <1>3, <1>7 DEF catalogVars, published, fetch
<1> QED
  BY <1>1, <1>2, <1>4, <1>5, <1>6, <1>7 DEF CatalogNext

\* A catalog is never followed by an older or an empty one, and by none only when
\* neither the provider nor PostgreSQL could be read.
THEOREM CatalogNeverGoesBack == CatalogSpec => []NeverGoesBack
  BY InitDurable, DurableStep, DurableHolds, PTL DEF CatalogSpec
-----------------------------------------------------------------------------
\* The catalogs a request may look into are among those published since it began.
LooksIntoServed ==
  \A q \in Lookup : position[q] # 0 =>
    memory \in served[q] /\ (provider = "coingecko" => held[q] \in served[q])

ResolutionOK == CatalogOK /\ LooksIntoServed /\ NeverGuessed

LEMMA InitResolution == CatalogInit => ResolutionOK
  BY InitCatalog DEF CatalogInit, NewProcess, ResolutionOK, LooksIntoServed, NeverGuessed, Idle

\* CoinGecko's service takes the only coin there is.
LEMMA CoinGeckoJustified ==
  ASSUME CatalogTypeOK, NEW q \in Lookup, NEW t, NEW catalog \in served[q],
         NEW c, c \in CoinsOf(catalog), provider = "coingecko",
         ResolveCoinGecko(t, CoinsOf(catalog)) = {c}
  PROVE  Justified(q, t, c)
<1>1. catalog # NoCatalog /\ CoinsOf(catalog) = catalog.coins
  BY DEF CoinsOf
<1>2. c \in ResolveCoinGecko(t, CoinsOf(catalog))
  OBVIOUS
<1>3. CASE t.contract = Native
  BY <1>2, <1>3 DEF ResolveCoinGecko, Justified
<1>4. CASE t.contract # Native
  <2>1. \A d \in catalog.coins : ContractOf[d] = t.contract => d = c
    BY <1>1, <1>4 DEF ResolveCoinGecko
  <2>2. Meant(t, c, catalog)
    BY <1>1, <1>2, <2>1 DEF ResolveCoinGecko, Meant
  <2> QED
    BY <1>1, <2>2 DEF Justified
<1> QED
  BY <1>3, <1>4

\* CoinMarketCap's takes the only one, or the only one with the token's symbol.
LEMMA CoinMarketCapJustified ==
  ASSUME CatalogTypeOK, NEW q \in Lookup, NEW t, memory \in served[q],
         NEW c, provider = "coinmarketcap",
         ResolveCoinMarketCap(t, CoinsOf(memory)) = {c}
  PROVE  Justified(q, t, c)
<1> DEFINE candidates == {d \in CoinsOf(memory) : ContractOf[d] = t.contract}
<1>1. CASE t.contract = Native
  BY <1>1 DEF ResolveCoinMarketCap, Justified
<1>2. ASSUME t.contract # Native, NEW d, d \in candidates
      PROVE  memory # NoCatalog /\ CoinsOf(memory) = memory.coins
  BY <1>2 DEF CoinsOf
<1>3. CASE t.contract # Native /\ candidates = {c}
  <2>1. Meant(t, c, memory)
    BY <1>2, <1>3 DEF Meant
  <2> QED
    BY <1>2, <1>3, <2>1 DEF Justified
<1>4. CASE t.contract # Native /\ candidates # {c}
  <2>1. c \in candidates /\ {c} = {d \in candidates : t.symbol = NoSymbol \/ SymbolOf[d] = t.symbol}
    BY <1>4 DEF ResolveCoinMarketCap
  <2>2. t.symbol # NoSymbol
    BY <1>4, <2>1
  <2>3. SymbolOf[c] = t.symbol /\ \A d \in candidates \ {c} : SymbolOf[d] # t.symbol
    BY <2>1, <2>2
  <2>4. Meant(t, c, memory)
    BY <1>2, <1>4, <2>1, <2>3 DEF Meant
  <2> QED
    BY <1>2, <1>4, <2>1, <2>4 DEF Justified
<1> QED
  BY <1>1, <1>3, <1>4

LEMMA ResolveJustified ==
  ASSUME CatalogTypeOK, LooksIntoServed, NEW q \in Lookup, position[q] # 0, NEW t
  PROVE  Justified(q, t, Resolve(q, t))
<1> DEFINE c == Resolve(q, t)
<1>1. CASE c = NoCoin
  BY <1>1 DEF Justified
<1>2. CASE c # NoCoin /\ provider = "coingecko"
  <2>1. ResolveCoinGecko(t, CoinsOf(held[q])) = {c}
    BY <1>2, CoinsAreCoins, CandidatesAreCoins, UniqueMember DEF Resolve
  <2>2. c \in CoinsOf(held[q])
    BY <2>1 DEF ResolveCoinGecko
  <2>3. held[q] \in served[q]
    BY <1>2 DEF LooksIntoServed
  <2> HIDE DEF c
  <2>4. Justified(q, t, c)
    BY <1>2, <2>1, <2>2, <2>3, CoinGeckoJustified
  <2> QED
    BY <2>4 DEF c
<1>3. CASE c # NoCoin /\ provider # "coingecko"
  <2>1. provider = "coinmarketcap"
    BY <1>3 DEF CatalogTypeOK
  <2>2. ResolveCoinMarketCap(t, CoinsOf(memory)) = {c}
    BY <1>3, CoinsAreCoins, CandidatesAreCoins, UniqueMember DEF Resolve
  <2>3. memory \in served[q]
    BY DEF LooksIntoServed
  <2> HIDE DEF c
  <2>4. Justified(q, t, c)
    BY <2>1, <2>2, <2>3, CoinMarketCapJustified
  <2> QED
    BY <2>4 DEF c
<1> QED
  BY <1>1, <1>2, <1>3

\* Tokens of one key have the same contract, and native ones the same symbol.
LEMMA KeyDecides ==
  ASSUME NEW t \in Token, NEW u \in Token, KeyOf(t) = KeyOf(u)
  PROVE  t.contract = u.contract
  BY DEF Token, KeyOf

\* What justifies a coin for one token of a key does so for the others, of
\* CoinGecko, where the symbol plays no part.
LEMMA GivenJustified ==
  ASSUME ResolutionOK, NEW q \in Lookup, position[q] \in 1..Len(tokens[q]),
         NEW id, Justified(q, tokens[q][position[q]], id)
  PROVE  Justified(q, tokens[q][position[q]], Given(q, id))
<1> DEFINE t == tokens[q][position[q]]
<1>1. position[q] \in Nat /\ tokens[q] \in Seq(Token) /\ Len(given[q]) = position[q] - 1
      /\ given[q] \in Seq(Coin \cup {NoCoin})
  <2>1. tokens[q] \in TokenLists \cup {<<>>} /\ position[q] \in Nat
    BY DEF ResolutionOK, CatalogOK, CatalogTypeOK
  <2> QED
    BY <2>1, CatalogAssumption DEF ResolutionOK, CatalogOK, CatalogTypeOK, ResultsOK
<1>2. CASE Given(q, id) = id
  BY <1>2
<1>3. CASE Given(q, id) = NoCoin
  BY <1>3 DEF Justified
<1>4. CASE Given(q, id) # id /\ Given(q, id) # NoCoin
  <2> DEFINE i == CHOOSE j \in Prior(q) : TRUE
  <2>1. Prior(q) # {}
    BY <1>4 DEF Given
  <2>2. i \in Prior(q)
    BY <2>1
  <2>3. Given(q, id) = given[q][i] /\ provider # "coinmarketcap"
    BY <1>4, <2>1 DEF Given
  <2> HIDE DEF i
  <2>4. i \in 1..(position[q] - 1) /\ KeyOf(tokens[q][i]) = KeyOf(t)
    BY <2>2 DEF Prior
  <2>5. tokens[q][i] \in Token /\ t \in Token /\ i \in DOMAIN given[q]
    BY <1>1, <2>4
  <2>6. tokens[q][i].contract = t.contract
    BY <2>4, <2>5, KeyDecides
  <2>7. Justified(q, tokens[q][i], given[q][i])
    BY <2>5 DEF ResolutionOK, NeverGuessed
  <2> HIDE DEF t
  <2>8. Justified(q, t, given[q][i])
    BY <2>3, <2>6, <2>7 DEF Justified, Meant
  <2> QED
    BY <2>3, <2>8 DEF t
<1> QED
  BY <1>2, <1>3, <1>4

\* While a request is at work the catalogs it may have seen only become more.
LEMMA ServedGrows ==
  ASSUME ResolutionOK, UNCHANGED <<provider, tokens, position, held, given>>,
         \/ UNCHANGED <<memory, served>>
         \/ \E c \in Catalog : Publish(c)
  PROVE  LooksIntoServed' /\ NeverGuessed'
<1>1. \A q \in Lookup : position[q] # 0 => served[q] \subseteq served'[q] /\ memory' \in served'[q]
  BY DEF ResolutionOK, LooksIntoServed, Publish
<1>2. LooksIntoServed'
  BY <1>1 DEF ResolutionOK, LooksIntoServed
<1>3. ASSUME NEW q \in Lookup, NEW i \in DOMAIN given[q]
      PROVE  Justified(q, tokens[q][i], given[q][i])'
  <2>1. position[q] # 0
    BY <1>3 DEF ResolutionOK, CatalogOK, ResultsOK
  <2>2. Justified(q, tokens[q][i], given[q][i])
    BY <1>3 DEF ResolutionOK, NeverGuessed
  <2> QED
    BY <1>1, <2>1, <2>2 DEF Justified, Meant
<1> QED
  BY <1>2, <1>3 DEF NeverGuessed

LEMMA ResolutionStep == ResolutionOK /\ [CatalogNext]_catalogVars => ResolutionOK'
<1> SUFFICES ASSUME ResolutionOK, [CatalogNext]_catalogVars
             PROVE  LooksIntoServed' /\ NeverGuessed'
  BY CatalogStepType DEF ResolutionOK
<1> USE DEF requests, published
<1>1. CASE ListChanges \/ BeginRefresh
  BY <1>1, ServedGrows DEF ListChanges, BeginRefresh
<1>2. CASE RefresherStep
  <2>1. CASE FetchPage \/ FetchFails
    BY <2>1, ServedGrows DEF FetchPage, FetchFails
  <2>2. CASE Replace \/ ReplaceUnconfirmed \/ ReplaceFails \/ LoadFails
    BY <2>2, ServedGrows DEF Replace, ReplaceUnconfirmed, ReplaceFails, LoadFails
  <2>3. CASE Install
    <3>1. Mappings \in Catalog
      BY MappingsType DEF ResolutionOK, CatalogOK
    <3> QED
      BY <2>3, <3>1, ServedGrows DEF Install
  <2>4. CASE Load
    <3>1. table # NoCatalog => table \in Catalog
      BY DEF ResolutionOK, CatalogOK, CatalogTypeOK, CatalogOrNone
    <3> QED
      BY <2>4, <3>1, ServedGrows DEF Load
  <2> QED
    BY <1>2, <2>1, <2>2, <2>3, <2>4 DEF RefresherStep
<1>3. CASE CatalogCrash
  BY <1>3 DEF CatalogCrash, LooksIntoServed, NeverGuessed, Idle
<1>4. ASSUME NEW q \in Lookup, NEW list \in TokenLists, BeginLookup(q, list)
      PROVE  LooksIntoServed' /\ NeverGuessed'
  <2>1. LooksIntoServed'
    BY <1>4 DEF BeginLookup, ResolutionOK, LooksIntoServed, CatalogOK, CatalogTypeOK
  <2>2. given[q] = <<>>
    BY <1>4 DEF BeginLookup, ResolutionOK, CatalogOK, ResultsOK
  <2>3. ASSUME NEW r \in Lookup, NEW i \in DOMAIN given[r]
        PROVE  Justified(r, tokens[r][i], given[r][i])'
    <3>1. r # q
      BY <2>2, <2>3
    <3>2. Justified(r, tokens[r][i], given[r][i])
      BY <2>3 DEF ResolutionOK, NeverGuessed
    <3> QED
      BY <1>4, <3>1, <3>2 DEF BeginLookup, ResolutionOK, CatalogOK, CatalogTypeOK, Justified, Meant
  <2>4. NeverGuessed'
    BY <1>4, <2>3 DEF BeginLookup, NeverGuessed
  <2> QED
    BY <2>1, <2>4
<1>5. ASSUME NEW q \in Lookup, ResolveToken(q) PROVE LooksIntoServed' /\ NeverGuessed'
  <2> DEFINE t == tokens[q][position[q]]
             c == Given(q, Resolve(q, t))
  <2>1. position[q] \in 1..Len(tokens[q]) /\ position[q] # 0
    BY <1>5 DEF ResolveToken
  <2>2. Justified(q, t, c)
    BY <2>1, ResolveJustified, GivenJustified DEF ResolutionOK, CatalogOK
  <2>3. given' = [given EXCEPT ![q] = Append(given[q], c)]
        /\ UNCHANGED <<provider, memory, tokens, held, served>>
    BY <1>5 DEF ResolveToken
  <2>4. \A r \in Lookup : position'[r] # 0 => position[r] # 0
    BY <1>5, <2>1 DEF ResolveToken, ResolutionOK, CatalogOK, CatalogTypeOK
  <2>5. LooksIntoServed'
    BY <2>3, <2>4 DEF ResolutionOK, LooksIntoServed
  <2> HIDE DEF c
  <2>6. given \in [Lookup -> Seq(Coin \cup {NoCoin})] /\ Len(given[q]) = position[q] - 1
    BY <2>1 DEF ResolutionOK, CatalogOK, CatalogTypeOK, ResultsOK
  <2>7. ASSUME NEW r \in Lookup, NEW i \in DOMAIN given'[r]
        PROVE  Justified(r, tokens[r][i], given'[r][i])
    <3>1. CASE i \in DOMAIN given[r] /\ given'[r][i] = given[r][i]
      BY <3>1 DEF ResolutionOK, NeverGuessed
    <3>2. CASE r = q /\ i = position[q] /\ given'[r][i] = c
      BY <2>2, <3>2
    <3>3. \/ i \in DOMAIN given[r] /\ given'[r][i] = given[r][i]
          \/ r = q /\ i = Len(given[q]) + 1 /\ given'[r][i] = c
      BY <2>3, <2>6, <2>7
    <3>4. Len(given[q]) + 1 = position[q]
      BY <2>1, <2>6
    <3> QED
      BY <3>1, <3>2, <3>3, <3>4
  <2>8. NeverGuessed'
    BY <2>3, <2>7 DEF NeverGuessed, Justified, Meant
  <2> QED
    BY <2>5, <2>8
<1>6. ASSUME NEW q \in Lookup, Resolved(q) PROVE LooksIntoServed' /\ NeverGuessed'
  <2>1. LooksIntoServed'
    BY <1>6 DEF Resolved, ResolutionOK, LooksIntoServed, CatalogOK, CatalogTypeOK
  <2>2. ASSUME NEW r \in Lookup, NEW i \in DOMAIN given'[r]
        PROVE  Justified(r, tokens[r][i], given[r][i])'
    <3>1. r # q /\ given'[r] = given[r]
      BY <1>6, <2>2 DEF Resolved, ResolutionOK, CatalogOK, CatalogTypeOK
    <3>2. Justified(r, tokens[r][i], given[r][i])
      BY <2>2, <3>1 DEF ResolutionOK, NeverGuessed
    <3> QED
      BY <1>6, <3>1, <3>2 DEF Resolved, ResolutionOK, CatalogOK, CatalogTypeOK, Justified, Meant
  <2> QED
    BY <2>1, <2>2 DEF NeverGuessed
<1>7. CASE UNCHANGED catalogVars
  BY <1>7, ServedGrows DEF catalogVars
<1> QED
  BY <1>1, <1>2, <1>3, <1>4, <1>5, <1>6, <1>7 DEF CatalogNext

\* Whatever catalogs are swapped in while a request is resolved, no token gets a
\* coin that is not the only one its catalog offers.
THEOREM CatalogNeverGuesses == CatalogSpec => []NeverGuessed
<1>1. ResolutionOK => NeverGuessed
  BY DEF ResolutionOK
<1> QED
  BY InitResolution, ResolutionStep, <1>1, PTL DEF CatalogSpec
-----------------------------------------------------------------------------
\* A token of a contract with one coin has it, as long as q sees one catalog.
Found(q, contract, c) ==
  \A catalog \in served[q] \ {NoCatalog} :
    served[q] = {catalog} /\ contract # Native /\ Cardinality(Same(catalog, contract)) = 1
    => c \in Same(catalog, contract)

AllFound == \A q \in Lookup : \A i \in DOMAIN given[q] : Found(q, tokens[q][i].contract, given[q][i])

FoundOK == ResolutionOK /\ AllFound

LEMMA FoundHolds == FoundOK => NothingKnownIsSkipped
  BY DEF FoundOK, AllFound, Found, NothingKnownIsSkipped

LEMMA InitFound == CatalogInit => FoundOK
  BY InitResolution DEF CatalogInit, NewProcess, FoundOK, AllFound, Idle

\* One coin of the contract is the coin.
LEMMA ResolveFinds ==
  ASSUME CatalogTypeOK, LooksIntoServed, NEW q \in Lookup, position[q] # 0, NEW t
  PROVE  Found(q, t.contract, Resolve(q, t))
<1> SUFFICES ASSUME NEW catalog \in served[q] \ {NoCatalog}, served[q] = {catalog},
                    t.contract # Native, Cardinality(Same(catalog, t.contract)) = 1
             PROVE  Resolve(q, t) \in Same(catalog, t.contract)
  BY DEF Found
<1>1. memory = catalog /\ (provider = "coingecko" => held[q] = catalog)
  BY DEF LooksIntoServed
<1>2. CoinsOf(catalog) = catalog.coins
  BY DEF CoinsOf
<1>3. \/ Resolve(q, t) = Unique(ResolveCoinGecko(t, catalog.coins))
      \/ Resolve(q, t) = Unique(ResolveCoinMarketCap(t, catalog.coins))
  BY <1>1, <1>2 DEF Resolve
<1>4. ResolveCoinGecko(t, catalog.coins) = Same(catalog, t.contract)
  BY DEF ResolveCoinGecko, Same
<1>5. ResolveCoinMarketCap(t, catalog.coins) = Same(catalog, t.contract)
  BY DEF ResolveCoinMarketCap, Same
<1>6. Resolve(q, t) = Unique(Same(catalog, t.contract))
  BY <1>3, <1>4, <1>5
<1>7. Same(catalog, t.contract) # {}
  BY FS_EmptySet
<1> QED
  BY <1>6, <1>7 DEF Unique

\* An earlier token of the key has the same coin.
LEMMA GivenFound ==
  ASSUME FoundOK, NEW q \in Lookup, position[q] \in 1..Len(tokens[q]),
         NEW id, Found(q, tokens[q][position[q]].contract, id)
  PROVE  Found(q, tokens[q][position[q]].contract, Given(q, id))
<1> DEFINE t == tokens[q][position[q]]
<1>1. position[q] \in Nat /\ tokens[q] \in Seq(Token) /\ Len(given[q]) = position[q] - 1
      /\ given[q] \in Seq(Coin \cup {NoCoin})
  <2>1. tokens[q] \in TokenLists \cup {<<>>} /\ position[q] \in Nat
    BY DEF FoundOK, ResolutionOK, CatalogOK, CatalogTypeOK
  <2> QED
    BY <2>1, CatalogAssumption DEF FoundOK, ResolutionOK, CatalogOK, CatalogTypeOK, ResultsOK
<1>2. SUFFICES ASSUME NEW catalog \in served[q] \ {NoCatalog}, served[q] = {catalog},
                      t.contract # Native, Cardinality(Same(catalog, t.contract)) = 1
               PROVE  Given(q, id) \in Same(catalog, t.contract)
  BY DEF Found
<1>3. id \in Same(catalog, t.contract)
  BY <1>2 DEF Found
<1>4. CASE Given(q, id) = id
  BY <1>3, <1>4
<1>5. CASE Given(q, id) # id
  <2> DEFINE i == CHOOSE j \in Prior(q) : TRUE
  <2>1. Prior(q) # {}
    BY <1>5 DEF Given
  <2>2. i \in Prior(q)
    BY <2>1
  <2>3. Given(q, id) = given[q][i] \/ (Given(q, id) = NoCoin /\ given[q][i] # id)
    BY <1>5, <2>1 DEF Given
  <2> HIDE DEF i
  <2>4. i \in 1..(position[q] - 1) /\ KeyOf(tokens[q][i]) = KeyOf(t)
    BY <2>2 DEF Prior
  <2>5. tokens[q][i] \in Token /\ t \in Token /\ i \in DOMAIN given[q]
    BY <1>1, <2>4
  <2>6. tokens[q][i].contract = t.contract
    BY <2>4, <2>5, KeyDecides
  <2> HIDE DEF t
  <2>7. given[q][i] \in Same(catalog, t.contract)
    BY <1>2, <2>5, <2>6 DEF FoundOK, AllFound, Found
  <2>8. IsFiniteSet(Same(catalog, t.contract))
    <3>1. catalog.coins \subseteq Coin
      <4>1. served[q] \subseteq CatalogOrNone
        BY DEF FoundOK, ResolutionOK, CatalogOK, CatalogTypeOK
      <4> QED
        BY <1>2, <4>1, CatalogAssumption DEF CatalogOrNone, Catalog
    <3>2. Same(catalog, t.contract) \subseteq Coin
      BY <3>1 DEF Same
    <3> QED
      BY <3>2, CatalogAssumption, FS_Subset
  <2>9. given[q][i] = id
    <3>1. PICK c : Same(catalog, t.contract) = {c}
      BY <1>2, <2>8, FS_Singleton
    <3> QED
      BY <1>3, <2>7, <3>1
  <2> QED
    BY <1>5, <2>3, <2>9
<1> QED
  BY <1>4, <1>5

\* A second catalog leaves nothing to find.
LEMMA ServedGrowsFound ==
  ASSUME FoundOK, UNCHANGED <<provider, tokens, position, held, given>>,
         \/ UNCHANGED <<memory, served>>
         \/ \E c \in Catalog : Publish(c)
  PROVE  AllFound'
<1> SUFFICES ASSUME NEW q \in Lookup, NEW i \in DOMAIN given[q]
             PROVE  Found(q, tokens[q][i].contract, given[q][i])'
  BY DEF AllFound
<1>1. position[q] # 0
  BY DEF FoundOK, ResolutionOK, CatalogOK, ResultsOK
<1>2. Found(q, tokens[q][i].contract, given[q][i])
  BY DEF FoundOK, AllFound
<1>3. served[q] \subseteq served'[q] /\ served[q] # {}
  BY <1>1 DEF FoundOK, ResolutionOK, LooksIntoServed, Publish
<1> QED
  BY <1>2, <1>3 DEF Found, Same

LEMMA FoundStep == FoundOK /\ [CatalogNext]_catalogVars => FoundOK'
<1> SUFFICES ASSUME FoundOK, [CatalogNext]_catalogVars PROVE AllFound'
  BY ResolutionStep DEF FoundOK
<1> USE DEF requests, published
<1>1. CASE ListChanges \/ BeginRefresh
  BY <1>1, ServedGrowsFound DEF ListChanges, BeginRefresh
<1>2. CASE RefresherStep
  <2>1. CASE FetchPage \/ FetchFails
    BY <2>1, ServedGrowsFound DEF FetchPage, FetchFails
  <2>2. CASE Replace \/ ReplaceUnconfirmed \/ ReplaceFails \/ LoadFails
    BY <2>2, ServedGrowsFound DEF Replace, ReplaceUnconfirmed, ReplaceFails, LoadFails
  <2>3. CASE Install
    <3>1. Mappings \in Catalog
      BY MappingsType DEF FoundOK, ResolutionOK, CatalogOK
    <3> QED
      BY <2>3, <3>1, ServedGrowsFound DEF Install
  <2>4. CASE Load
    <3>1. table # NoCatalog => table \in Catalog
      BY DEF FoundOK, ResolutionOK, CatalogOK, CatalogTypeOK, CatalogOrNone
    <3> QED
      BY <2>4, <3>1, ServedGrowsFound DEF Load
  <2> QED
    BY <1>2, <2>1, <2>2, <2>3, <2>4 DEF RefresherStep
<1>3. CASE CatalogCrash
  BY <1>3 DEF CatalogCrash, AllFound, Idle
<1>4. ASSUME NEW q \in Lookup, NEW list \in TokenLists, BeginLookup(q, list) PROVE AllFound'
  <2>1. given[q] = <<>>
    BY <1>4 DEF BeginLookup, FoundOK, ResolutionOK, CatalogOK, ResultsOK
  <2> SUFFICES ASSUME NEW r \in Lookup, NEW i \in DOMAIN given[r]
               PROVE  Found(r, tokens[r][i].contract, given[r][i])'
    BY <1>4 DEF BeginLookup, AllFound
  <2>2. r # q
    BY <2>1
  <2>3. Found(r, tokens[r][i].contract, given[r][i])
    BY DEF FoundOK, AllFound
  <2> QED
    BY <1>4, <2>2, <2>3 DEF BeginLookup, FoundOK, ResolutionOK, CatalogOK, CatalogTypeOK, Found
<1>5. ASSUME NEW q \in Lookup, ResolveToken(q) PROVE AllFound'
  <2> DEFINE t == tokens[q][position[q]]
             c == Given(q, Resolve(q, t))
  <2>1. position[q] \in 1..Len(tokens[q]) /\ position[q] # 0
    BY <1>5 DEF ResolveToken
  <2>2. Found(q, t.contract, c)
    BY <2>1, ResolveFinds, GivenFound DEF FoundOK, ResolutionOK, CatalogOK
  <2>3. given' = [given EXCEPT ![q] = Append(given[q], c)] /\ UNCHANGED <<tokens, served>>
    BY <1>5 DEF ResolveToken
  <2> HIDE DEF c
  <2>4. given \in [Lookup -> Seq(Coin \cup {NoCoin})] /\ Len(given[q]) = position[q] - 1
    BY <2>1 DEF FoundOK, ResolutionOK, CatalogOK, CatalogTypeOK, ResultsOK
  <2>5. Len(given[q]) + 1 = position[q]
    BY <2>1, <2>4
  <2>6. ASSUME NEW r \in Lookup, NEW i \in DOMAIN given'[r]
        PROVE  Found(r, tokens[r][i].contract, given'[r][i])
    <3>1. CASE i \in DOMAIN given[r] /\ given'[r][i] = given[r][i]
      BY <3>1 DEF FoundOK, AllFound
    <3>2. CASE r = q /\ i = position[q] /\ given'[r][i] = c
      BY <2>2, <3>2
    <3>3. \/ i \in DOMAIN given[r] /\ given'[r][i] = given[r][i]
          \/ r = q /\ i = Len(given[q]) + 1 /\ given'[r][i] = c
      BY <2>3, <2>4, <2>6
    <3> QED
      BY <2>5, <3>1, <3>2, <3>3
  <2> QED
    BY <2>3, <2>6 DEF AllFound, Found
<1>6. ASSUME NEW q \in Lookup, Resolved(q) PROVE AllFound'
  <2> SUFFICES ASSUME NEW r \in Lookup, NEW i \in DOMAIN given'[r]
               PROVE  Found(r, tokens[r][i].contract, given[r][i])'
    BY DEF AllFound
  <2>1. r # q /\ given'[r] = given[r]
    BY <1>6 DEF Resolved, FoundOK, ResolutionOK, CatalogOK, CatalogTypeOK
  <2>2. Found(r, tokens[r][i].contract, given[r][i])
    BY <2>1 DEF FoundOK, AllFound
  <2> QED
    BY <1>6, <2>1, <2>2 DEF Resolved, FoundOK, ResolutionOK, CatalogOK, CatalogTypeOK, Found
<1>7. CASE UNCHANGED catalogVars
  BY <1>7, ServedGrowsFound DEF catalogVars
<1> QED
  BY <1>1, <1>2, <1>3, <1>4, <1>5, <1>6, <1>7 DEF CatalogNext

\* A token whose contract has one coin is not skipped, unless a catalog is swapped
\* in while its request is being resolved.
THEOREM CatalogSkipsNothingKnown == CatalogSpec => []NothingKnownIsSkipped
  BY InitFound, FoundStep, FoundHolds, PTL DEF CatalogSpec
-----------------------------------------------------------------------------
\* What a fetch that lost no coin has read: of the coins listed ever since it
\* began, every one whose place is before the next page, and in the end all.  A
\* coin that is added moves the others back, never forward, so none is skipped.
PagesRead ==
  /\ start >= 1
  /\ phase = "fetch" /\ ~shrank
     => /\ steady \subseteq listed
        /\ \A c \in steady : Rank(c) < start => c \in got
  /\ phase \in {"replace", "install"} /\ ~shrank => steady \subseteq got

FetchOK == CatalogTypeOK /\ PagesRead

LEMMA FetchHolds == FetchOK => NothingListedIsLost
  BY DEF FetchOK, PagesRead, NothingListedIsLost, Mappings

\* The coins up to each coin of the list.
UpTo == [c \in listed |-> {d \in listed : d <= c}]

\* The places of the listed coins are 1, 2, 3... without a gap.
LEMMA RanksOfTheList ==
  ASSUME CatalogTypeOK
  PROVE  /\ IsFiniteSet(listed)
         /\ \A c \in listed : Rank(c) \in 1..Cardinality(listed)
         /\ \A k \in 1..Cardinality(listed) : \E c \in listed : Rank(c) = k
<1>1. IsFiniteSet(listed) /\ listed \subseteq Nat
  BY CatalogAssumption, FS_Subset DEF CatalogTypeOK
<1>2. UpTo \in [listed -> SUBSET listed] /\ Chain(listed, UpTo)
  <2>1. UpTo \in [listed -> SUBSET listed]
    BY DEF UpTo
  <2>2. \A c, d \in listed : d \in UpTo[c] <=> d <= c
    BY DEF UpTo
  <2>3. ASSUME NEW c \in listed, NEW d \in listed, d <= c PROVE UpTo[d] \subseteq UpTo[c]
    <3> SUFFICES ASSUME NEW e \in listed, e <= d PROVE e <= c
      BY <2>3 DEF UpTo
    <3>1. c \in Nat /\ d \in Nat /\ e \in Nat
      BY <1>1
    <3> QED
      BY <2>3, <3>1
  <2>4. \A c, d \in listed : c <= c /\ (c <= d \/ d <= c) /\ (c <= d /\ d <= c => c = d)
    BY <1>1
  <2> QED
    BY <2>1, <2>2, <2>3, <2>4 DEF Chain
<1>3. \A c \in listed : Rank(c) = Cardinality(UpTo[c])
  BY DEF UpTo, Rank
<1>4. /\ \A c \in listed : Cardinality(UpTo[c]) \in 1..Cardinality(listed)
      /\ \A k \in 1..Cardinality(listed) : \E c \in listed : Cardinality(UpTo[c]) = k
  BY <1>1, <1>2, Places
<1> QED
  BY <1>1, <1>3, <1>4

\* A coin that is added leaves no other coin's place smaller.
LEMMA RanksGrow ==
  ASSUME CatalogTypeOK, CatalogTypeOK', listed \subseteq listed', NEW c \in listed
  PROVE  Rank(c) <= Rank(c)'
<1>1. {d \in listed : d <= c} \subseteq {d \in listed' : d <= c}
  OBVIOUS
<1>2. IsFiniteSet(listed')
  BY CatalogAssumption, FS_Subset DEF CatalogTypeOK
<1>3. IsFiniteSet({d \in listed' : d <= c})
  BY <1>2, FS_Subset
<1> QED
  BY <1>1, <1>3, CountGrows DEF Rank

\* A page of CoinMarketCap that is not full reaches the end of the list.
LEMMA ShortPageIsLast ==
  ASSUME CatalogTypeOK, start >= 1, provider # "coingecko", LastPage, NEW c \in listed
  PROVE  Rank(c) < start + PageLimit
<1> DEFINE size == Cardinality(listed)
           places == start..(start + PageLimit - 1)
           place == [d \in Page |-> Rank(d)]
<1>0. start \in Nat /\ PageLimit \in Nat \ {0}
  BY CatalogAssumption DEF CatalogTypeOK
<1>1. IsFiniteSet(Page) /\ Page = {d \in listed : Rank(d) \in places}
  BY RanksOfTheList, FS_Subset DEF Page
<1>2. CASE size >= start + PageLimit - 1
  <2>1. \A k \in places : \E d \in Page : place[d] = k
    <3> SUFFICES ASSUME NEW k \in places PROVE \E d \in Page : Rank(d) = k
      BY <1>1
    <3>1. size \in Nat
      BY RanksOfTheList, FS_CardinalityType
    <3>2. k \in 1..size
      BY <1>0, <1>2, <3>1
    <3>3. PICK d \in listed : Rank(d) = k
      BY <3>2, RanksOfTheList
    <3> QED
      BY <1>1, <3>3
  <2>2. place \in Surjection(Page, places)
    <3>1. place \in [Page -> places]
      BY <1>1
    <3> HIDE DEF place, places
    <3> QED
      BY <2>1, <3>1 DEF Surjection
  <2>3. Cardinality(places) <= Cardinality(Page)
    <3> HIDE DEF place, places
    <3> QED
      BY <1>1, <2>2, FS_Surjection
  <2>4. Cardinality(places) = PageLimit
    <3>1. start \in Int /\ start + PageLimit - 1 \in Int /\ ~(start > start + PageLimit - 1)
      BY <1>0
    <3>2. Cardinality(places) = (start + PageLimit - 1) - start + 1
      BY <3>1, FS_Interval
    <3> QED
      BY <1>0, <3>2
  <2>5. Cardinality(Page) < PageLimit
    BY DEF LastPage
  <2>6. Cardinality(Page) \in Nat
    BY <1>1, FS_CardinalityType
  <2> QED
    BY <1>0, <2>3, <2>4, <2>5, <2>6
<1>3. CASE size < start + PageLimit - 1
  <2>1. Rank(c) \in 1..size /\ size \in Nat
    BY RanksOfTheList, FS_CardinalityType
  <2> QED
    BY <1>0, <1>3, <2>1
<1>4. size \in Nat
  BY RanksOfTheList, FS_CardinalityType
<1> HIDE DEF size
<1> QED
  BY <1>0, <1>2, <1>3, <1>4

LEMMA InitFetch == CatalogInit => FetchOK
<1> SUFFICES ASSUME CatalogInit PROVE FetchOK
  OBVIOUS
<1>1. CatalogTypeOK /\ start = 1 /\ steady = listed /\ phase = "fetch"
  BY InitCatalog DEF CatalogOK, CatalogInit, NewProcess
<1>2. \A c \in steady : ~(Rank(c) < start)
  BY <1>1, RanksOfTheList
<1> QED
  BY <1>1, <1>2 DEF FetchOK, PagesRead

\* A fetch that has just begun has not passed any coin.
LEMMA NewFetchRead ==
  ASSUME CatalogTypeOK, NewFetch, UNCHANGED listed
  PROVE  PagesRead'
<1>1. start' = 1 /\ steady' = listed /\ phase' = "fetch"
  BY DEF NewFetch
<1>2. \A c \in listed : Rank(c)' = Rank(c)
  BY DEF Rank
<1>3. \A c \in listed : Rank(c) \in Nat /\ Rank(c) >= 1
  BY RanksOfTheList
<1> QED
  BY <1>1, <1>2, <1>3 DEF PagesRead

LEMMA FetchPageRead ==
  ASSUME FetchOK, FetchPage, ~(LastPage /\ Useless)
  PROVE  PagesRead'
<1>0. /\ phase = "fetch" /\ got' = got \cup Page /\ UNCHANGED <<listed, steady, shrank>>
      /\ start \in Nat /\ start >= 1 /\ PageLimit \in Nat \ {0} /\ steady \subseteq Coin
  BY CatalogAssumption DEF FetchPage, FetchOK, PagesRead, CatalogTypeOK, upstream
<1>1. CASE LastPage
  <2>1. phase' = "replace" /\ start' = start
    BY <1>1 DEF FetchPage
  <2>2. ASSUME ~shrank, NEW c \in steady PROVE c \in got'
    <3>1. c \in listed /\ (Rank(c) < start => c \in got)
      BY <1>0, <2>2 DEF FetchOK, PagesRead
    <3>2. CASE provider = "coingecko"
      BY <1>0, <3>1, <3>2 DEF Page
    <3>3. CASE provider # "coingecko"
      <4>1. Rank(c) < start + PageLimit /\ Rank(c) \in Nat
        BY <1>0, <1>1, <3>1, <3>3, ShortPageIsLast, RanksOfTheList DEF FetchOK
      <4>2. Rank(c) < start \/ Rank(c) \in start..(start + PageLimit - 1)
        BY <1>0, <4>1
      <4> QED
        BY <1>0, <3>1, <3>3, <4>2 DEF Page
    <3> QED
      BY <3>2, <3>3
  <2> QED
    BY <1>0, <2>1, <2>2 DEF PagesRead
<1>2. CASE ~LastPage
  <2>1. phase' = "fetch" /\ start' = start + PageLimit
    BY <1>0, <1>2 DEF FetchPage
  <2>2. ASSUME ~shrank PROVE steady \subseteq listed
    BY <1>0, <2>2 DEF FetchOK, PagesRead
  <2>3. ASSUME ~shrank, NEW c \in steady, Rank(c) < start + PageLimit PROVE c \in got'
    <3>1. c \in listed /\ (Rank(c) < start => c \in got)
      BY <1>0, <2>3 DEF FetchOK, PagesRead
    <3>2. Rank(c) \in Nat
      BY <3>1, RanksOfTheList DEF FetchOK
    <3>3. Rank(c) < start \/ Rank(c) \in start..(start + PageLimit - 1)
      BY <1>0, <2>3, <3>2
    <3>4. provider # "coingecko"
      BY <1>2 DEF LastPage
    <3> QED
      BY <1>0, <3>1, <3>3, <3>4 DEF Page
  <2>4. \A c \in steady : Rank(c)' = Rank(c)
    BY <1>0 DEF Rank
  <2> QED
    BY <1>0, <2>1, <2>2, <2>3, <2>4 DEF PagesRead
<1> QED
  BY <1>1, <1>2

LEMMA FetchStep == FetchOK /\ CatalogTypeOK' /\ [CatalogNext]_catalogVars => FetchOK'
<1> SUFFICES ASSUME FetchOK, CatalogTypeOK', [CatalogNext]_catalogVars PROVE PagesRead'
  BY DEF FetchOK
<1>0. CatalogTypeOK /\ start >= 1
  BY DEF FetchOK, PagesRead
<1>1. CASE ListChanges
  <2>1. /\ UNCHANGED <<phase, start, got>>
        /\ shrank' = (shrank \/ (phase = "fetch" /\ ~(listed \subseteq listed')))
        /\ steady' = (IF phase = "fetch" THEN steady \cap listed' ELSE steady)
    BY <1>1 DEF ListChanges
  <2>2. CASE phase = "fetch" /\ ~shrank'
    <3>1. ~shrank /\ listed \subseteq listed' /\ steady \subseteq listed /\ steady' = steady
      BY <2>1, <2>2 DEF FetchOK, PagesRead
    <3>2. ASSUME NEW c \in steady, Rank(c)' < start PROVE c \in got
      <4>1. c \in listed /\ Rank(c) <= Rank(c)'
        BY <1>0, <3>1, RanksGrow
      <4>2. Rank(c) \in Nat /\ Rank(c)' \in Nat /\ start \in Nat
        <5>1. Rank(c) \in Nat
          BY <1>0, <4>1, RanksOfTheList
        <5>2. IsFiniteSet(listed')
          BY CatalogAssumption, FS_Subset DEF CatalogTypeOK
        <5>3. IsFiniteSet({d \in listed' : d <= c})
          BY <5>2, FS_Subset
        <5>4. Rank(c)' \in Nat
          BY <5>3, FS_CardinalityType DEF Rank
        <5> QED
          BY <1>0, <5>1, <5>4 DEF CatalogTypeOK
      <4>3. Rank(c) < start
        BY <3>2, <4>1, <4>2
      <4> QED
        BY <2>2, <3>1, <4>3 DEF FetchOK, PagesRead
    <3> QED
      BY <1>0, <2>1, <2>2, <3>1, <3>2 DEF PagesRead
  <2>3. CASE phase # "fetch"
    BY <1>0, <2>1, <2>3 DEF FetchOK, PagesRead
  <2>4. CASE shrank'
    BY <1>0, <2>1, <2>4 DEF PagesRead
  <2> QED
    BY <2>2, <2>3, <2>4
<1>2. CASE BeginRefresh \/ CatalogCrash
  BY <1>0, <1>2, NewFetchRead DEF BeginRefresh, CatalogCrash, upstream
<1>3. ASSUME GiveUp PROVE PagesRead'
  BY <1>3 DEF GiveUp, Forget, PagesRead
<1>4. CASE FetchPage
  <2>1. CASE LastPage /\ Useless
    <3>1. GiveUp
      BY <1>4, <2>1, Zenon DEF FetchPage
    <3> QED
      BY <1>3, <3>1
  <2>2. CASE ~(LastPage /\ Useless)
    BY <1>4, <2>2, FetchPageRead
  <2> QED
    BY <2>1, <2>2
<1>5. CASE FetchFails \/ ReplaceUnconfirmed \/ ReplaceFails
  BY <1>3, <1>5 DEF FetchFails, ReplaceUnconfirmed, ReplaceFails, AfterReplaceFails
<1>6. CASE Replace
  BY <1>0, <1>6 DEF Replace, fetch, FetchOK, PagesRead
<1>7. CASE Install \/ Load \/ LoadFails
  <2>1. phase' = "ready" /\ (start' = 1 \/ start' = start)
    BY <1>7 DEF Install, Load, LoadFails, Forget, fetch
  <2> QED
    BY <1>0, <2>1 DEF PagesRead
<1>8. ASSUME UNCHANGED <<listed, phase, fetch>> PROVE PagesRead'
  <2>1. \A c \in steady : Rank(c)' = Rank(c)
    BY <1>8 DEF Rank
  <2> QED
    BY <1>8, <2>1 DEF FetchOK, PagesRead, fetch
<1>9. ASSUME NEW q \in Lookup, NEW list \in TokenLists,
             BeginLookup(q, list) \/ ResolveToken(q) \/ Resolved(q)
      PROVE  PagesRead'
  BY <1>8, <1>9 DEF BeginLookup, ResolveToken, Resolved, upstream
<1>10. ASSUME NEW q \in Lookup, ResolveToken(q) \/ Resolved(q) PROVE PagesRead'
  BY <1>8, <1>10 DEF ResolveToken, Resolved, upstream
<1>11. CASE UNCHANGED catalogVars
  BY <1>8, <1>11 DEF catalogVars, upstream
<1> QED
  BY <1>1, <1>2, <1>4, <1>5, <1>6, <1>7, <1>9, <1>10, <1>11 DEF CatalogNext, RefresherStep

\* A fetch whose list lost no coin installs every usable coin that was listed
\* throughout, however many coins were added between two of its pages.
THEOREM CatalogLosesNothingListed == CatalogSpec => []NothingListedIsLost
<1>1. CatalogOK => CatalogTypeOK
  BY DEF CatalogOK
<1> QED
  BY InitCatalog, CatalogStepType, <1>1, InitFetch, FetchStep, FetchHolds, PTL DEF CatalogSpec
=============================================================================
