--------------------------- MODULE MarketCatalog ---------------------------
(***************************************************************************)
(* The coin catalog of one market provider: fetched (by CoinMarketCap page  *)
(* by page, from a list that changes meanwhile), saved in PostgreSQL, and   *)
(* only then published to the requests, which resolve their tokens with it  *)
(* while it may be swapped under them.  The process crashes and bootstraps. *)
(*                                                                          *)
(* A mapping row is abstracted to its coin: a coin stands for one contract  *)
(* on the service's chain, or for a native token.                           *)
(***************************************************************************)
EXTENDS Integers, FiniteSets, Sequences

CONSTANTS
  Coin,         \* the provider's coins, by ID
  Usable,       \* the ones BuildMappings keeps: active, on a supported platform
  ContractOf,   \* the contract of each coin
  SymbolOf,     \* and its symbol
  Native,       \* the contract of a coin, or of a token, that has none
  NoSymbol,     \* a token without a symbol
  NativeIDs,    \* the IDs configured for native tokens
  NoCatalog,    \* nothing published, or an empty table
  NoCoin,       \* the token is not resolved
  FirstLists,   \* what the provider lists at first
  PageLimit,    \* coins per page of CoinMarketCap's list
  Lookup,       \* concurrent requests
  TokenLists,   \* what they may ask for: sequences of tokens
  MaxAttempts,  \* bound on the fetches begun
  MaxChanges    \* bound on the changes of the provider's list

Token == [contract : {ContractOf[c] : c \in Coin} \cup {Native},
          symbol : {SymbolOf[c] : c \in Coin} \cup {NoSymbol}]

Catalog == [coins : SUBSET Usable, fetchedAt : Nat]

ASSUME CatalogAssumption ==
  /\ Coin \subseteq Nat \ {0} /\ IsFiniteSet(Coin)
  /\ Usable \subseteq Coin /\ NativeIDs \subseteq Coin
  /\ FirstLists \subseteq SUBSET Coin
  /\ PageLimit \in Nat \ {0} /\ MaxAttempts \in Nat /\ MaxChanges \in Nat
  /\ TokenLists \subseteq Seq(Token)
  /\ NoCatalog \notin Catalog
  /\ NoCoin \notin Coin

VARIABLES
  provider,   \* which of the two this catalog is of
  listed,     \* the coins on the provider's list, which is sorted by ID
  changes,    \* how often it has changed
  table,      \* the catalog in PostgreSQL
  memory,     \* the published catalog
  phase,      \* the call the refresher has in flight, or "ready" between two ticks
  booting,    \* it is Bootstrap's
  attempt,    \* fetches begun: the time of the fetch in hand
  start,      \* the position the next page starts at
  got,        \* the coins read so far
  twice,      \* a usable coin was read twice
  steady,     \* history: the coins listed ever since the fetch began
  shrank,     \* history: a coin left the list since then
  newest,     \* history: the fetch time of the newest catalog ever published
  unread,     \* history: the last bootstrap could not read PostgreSQL either
  tokens,     \* what each request still has to resolve and has resolved
  position,   \* the token it resolves next, 0 between two requests
  held,       \* CoinGecko: the catalog the request works with
  given,      \* the coin it has found for each token
  served      \* history: the catalogs published since the request began

fetch    == <<start, got, twice, steady, shrank>>
upstream == <<listed, changes>>
requests == <<tokens, position, held, given, served>>
published == <<memory, newest, unread>>
catalogVars == <<provider, upstream, table, published, phase, booting, attempt, fetch, requests>>

CatalogOrNone == Catalog \cup {NoCatalog}

CatalogTypeOK ==
  /\ provider \in {"coingecko", "coinmarketcap"}
  /\ listed \subseteq Coin /\ changes \in Nat
  /\ table \in CatalogOrNone /\ memory \in CatalogOrNone
  /\ phase \in {"ready", "fetch", "replace", "install", "load"}
  /\ booting \in BOOLEAN
  /\ attempt \in Nat /\ start \in Nat /\ newest \in Nat
  /\ got \subseteq Coin /\ steady \subseteq Coin
  /\ twice \in BOOLEAN /\ shrank \in BOOLEAN /\ unread \in BOOLEAN
  /\ tokens \in [Lookup -> TokenLists \cup {<<>>}]
  /\ position \in [Lookup -> Nat]
  /\ held \in [Lookup -> CatalogOrNone]
  /\ given \in [Lookup -> Seq(Coin \cup {NoCoin})]
  /\ served \in [Lookup -> SUBSET CatalogOrNone]

Idle == [q \in Lookup |-> <<>>]

\* A process that has just started; Bootstrap begins with a fetch.
NewProcess ==
  /\ provider \in {"coingecko", "coinmarketcap"}
  /\ listed \in FirstLists /\ changes = 0
  /\ table = NoCatalog /\ memory = NoCatalog
  /\ booting = TRUE
  /\ attempt = 1 /\ start = 1 /\ newest = 0
  /\ got = {} /\ steady = listed
  /\ twice = FALSE /\ shrank = FALSE /\ unread = FALSE
  /\ tokens = Idle /\ given = Idle
  /\ position = [q \in Lookup |-> 0]
  /\ held = [q \in Lookup |-> NoCatalog]
  /\ served = [q \in Lookup |-> {}]

CatalogInit == NewProcess /\ phase = "fetch"
-----------------------------------------------------------------------------
\* The provider lists or delists a coin.
ListChanges ==
  /\ changes < MaxChanges
  /\ changes' = changes + 1
  /\ \E c \in Coin : listed' = IF c \in listed THEN listed \ {c} ELSE listed \cup {c}
  /\ steady' = IF phase = "fetch" THEN steady \cap listed' ELSE steady
  /\ shrank' = (shrank \/ (phase = "fetch" /\ ~(listed \subseteq listed')))
  /\ UNCHANGED <<provider, table, published, phase, booting, attempt, start, got, twice, requests>>

Rank(c) == Cardinality({d \in listed : d <= c})

\* CoinGecko answers with the whole list at once.
Page == IF provider = "coingecko" THEN listed
        ELSE {c \in listed : Rank(c) \in start..(start + PageLimit - 1)}

\* Mutation of LastPage: the first page is taken for the whole list.
LastPageAtFirst == TRUE

LastPage == provider = "coingecko" \/ Cardinality(Page) < PageLimit

\* Mutation of Mappings: BuildMappings keeps every coin.
MappingsAll == [coins |-> got, fetchedAt |-> attempt]

\* What Fetch returns: the coins BuildMappings keeps.
Mappings == [coins |-> got \cap Usable, fetchedAt |-> attempt]

Forget == start' = 1 /\ got' = {} /\ twice' = FALSE /\ steady' = {} /\ shrank' = FALSE

\* Mutation of GiveUp: a failed attempt starts all over at once.
GiveUpRetries == phase' = "fetch" /\ UNCHANGED booting /\ Forget

\* A failed refresh keeps the catalog it has, a failed bootstrap has none yet.
GiveUp == phase' = (IF booting THEN "load" ELSE "ready") /\ UNCHANGED booting /\ Forget

NewFetch == /\ phase' = "fetch" /\ attempt' = attempt + 1
            /\ start' = 1 /\ got' = {} /\ twice' = FALSE /\ steady' = listed /\ shrank' = FALSE

\* A tick of the refresher.
BeginRefresh ==
  /\ phase = "ready" /\ attempt < MaxAttempts
  /\ NewFetch
  /\ UNCHANGED <<provider, upstream, table, published, booting, requests>>

\* Fetch ends with an error when BuildMappings keeps nothing.
Useless == (got \cup Page) \cap Usable = {}

\* The pages are appended, so a coin can come twice.
FetchPage ==
  /\ phase = "fetch"
  /\ IF LastPage /\ Useless THEN GiveUp
     ELSE /\ got' = got \cup Page
          /\ twice' = (twice \/ got \cap Page \cap Usable # {})
          /\ IF LastPage THEN phase' = "replace" /\ UNCHANGED start
             ELSE start' = start + PageLimit /\ UNCHANGED phase
          /\ UNCHANGED <<booting, steady, shrank>>
  /\ UNCHANGED <<provider, upstream, table, published, attempt, requests>>

FetchFails ==
  /\ phase = "fetch"
  /\ GiveUp
  /\ UNCHANGED <<provider, upstream, table, published, attempt, requests>>

\* TRUNCATE, COPY and COMMIT are one transaction; the primary key admits a
\* coin once.
Replace ==
  /\ phase = "replace" /\ ~twice
  /\ table' = Mappings
  /\ phase' = "install"
  /\ UNCHANGED <<provider, upstream, published, booting, attempt, fetch, requests>>

\* The commit took place, but ctx or the connection ended before it was known.
ReplaceUnconfirmed ==
  /\ phase = "replace" /\ ~twice
  /\ table' = Mappings
  /\ GiveUp
  /\ UNCHANGED <<provider, upstream, published, attempt, requests>>

\* Mutation of AfterReplaceFails: the fetched catalog is published unsaved.
AfterReplaceFailsInstalls == phase' = "install" /\ UNCHANGED <<booting, fetch>>

AfterReplaceFails == GiveUp

ReplaceFails ==
  /\ phase = "replace"
  /\ AfterReplaceFails
  /\ UNCHANGED <<provider, upstream, table, published, attempt, requests>>

\* The requests at work see the catalog from now on.
Publish(catalog) ==
  /\ memory' = catalog
  /\ newest' = IF catalog.fetchedAt > newest THEN catalog.fetchedAt ELSE newest
  /\ served' = [q \in Lookup |-> IF position[q] = 0 THEN served[q]
                                 ELSE served[q] \cup {catalog}]

Install ==
  /\ phase = "install"
  /\ Publish(Mappings)
  /\ phase' = "ready" /\ booting' = FALSE /\ Forget
  /\ UNCHANGED <<provider, upstream, table, unread, attempt, tokens, position, held, given>>

\* Bootstrap's fallback, under a deadline of its own.
Load ==
  /\ phase = "load"
  /\ IF table = NoCatalog THEN UNCHANGED <<memory, newest, served>> ELSE Publish(table)
  /\ phase' = "ready" /\ booting' = FALSE /\ unread' = FALSE
  /\ UNCHANGED <<provider, upstream, table, attempt, fetch, tokens, position, held, given>>

LoadFails ==
  /\ phase = "load"
  /\ phase' = "ready" /\ booting' = FALSE /\ unread' = TRUE
  /\ UNCHANGED <<provider, upstream, table, memory, newest, attempt, fetch, requests>>

\* The process dies and bootstraps again.
CatalogCrash ==
  /\ attempt < MaxAttempts
  /\ memory' = NoCatalog /\ booting' = TRUE /\ unread' = FALSE
  /\ NewFetch
  /\ tokens' = Idle /\ given' = Idle
  /\ position' = [q \in Lookup |-> 0]
  /\ held' = [q \in Lookup |-> NoCatalog]
  /\ served' = [q \in Lookup |-> {}]
  /\ UNCHANGED <<provider, upstream, table, newest>>
-----------------------------------------------------------------------------
\* Native tokens are keyed by symbol, the others by contract alone.
KeyOf(t) == IF t.contract = Native THEN t ELSE [t EXCEPT !.symbol = NoSymbol]

\* CoinGecko wants one candidate, among its native ones a configured one.
ResolveCoinGecko(t, coins) ==
  {c \in coins : /\ ContractOf[c] = t.contract
                 /\ t.contract = Native => c \in NativeIDs /\ SymbolOf[c] = t.symbol}

\* Mutation of ResolveCoinMarketCap: the symbol always has to match.
ResolveCoinMarketCapBySymbol(t, coins) ==
  IF t.contract = Native THEN NativeIDs
  ELSE {c \in coins : ContractOf[c] = t.contract /\ SymbolOf[c] = t.symbol}

\* CoinMarketCap looks at the symbol when the contract alone is ambiguous; its
\* native coin is configured.
ResolveCoinMarketCap(t, coins) ==
  LET candidates == {c \in coins : ContractOf[c] = t.contract}
  IN IF t.contract = Native THEN NativeIDs
     ELSE IF Cardinality(candidates) <= 1 THEN candidates
     ELSE {c \in candidates : t.symbol = NoSymbol \/ SymbolOf[c] = t.symbol}

Unique(ids) == IF Cardinality(ids) = 1 THEN CHOOSE c \in ids : TRUE ELSE NoCoin

CoinsOf(catalog) == IF catalog = NoCatalog THEN {} ELSE catalog.coins

\* CoinMarketCap reads the published catalog again for every token.
Resolve(q, t) ==
  Unique(IF provider = "coingecko" THEN ResolveCoinGecko(t, CoinsOf(held[q]))
         ELSE ResolveCoinMarketCap(t, CoinsOf(memory)))

\* A request arrives; without a catalog CoinGecko's service looks nothing up.
BeginLookup(q, list) ==
  /\ position[q] = 0 /\ ~booting
  /\ provider = "coingecko" => memory # NoCatalog
  /\ tokens' = [tokens EXCEPT ![q] = list]
  /\ position' = [position EXCEPT ![q] = 1]
  /\ held' = [held EXCEPT ![q] = IF provider = "coingecko" THEN memory ELSE NoCatalog]
  /\ served' = [served EXCEPT ![q] = {memory}]
  /\ UNCHANGED <<provider, upstream, table, published, phase, booting, attempt, fetch, given>>

\* The earlier tokens of the request that have the same key and were resolved.
Prior(q) ==
  {i \in 1..(position[q] - 1) : /\ KeyOf(tokens[q][i]) = KeyOf(tokens[q][position[q]])
                                /\ given[q][i] # NoCoin}

\* Mutation of Given: the coin of an earlier token of the key is taken over.
GivenFirst(q, id) ==
  IF id = NoCoin \/ Prior(q) = {} THEN id ELSE given[q][CHOOSE i \in Prior(q) : TRUE]

\* A key has one ID: CoinMarketCap's service skips a token that resolves to
\* another one, CoinGecko's (whose tokens of one key cannot differ) joins it.
Given(q, id) ==
  IF id = NoCoin \/ Prior(q) = {} THEN id
  ELSE LET prior == given[q][CHOOSE i \in Prior(q) : TRUE]
       IN IF provider = "coinmarketcap" /\ prior # id THEN NoCoin ELSE prior

ResolveToken(q) ==
  /\ position[q] \in 1..Len(tokens[q])
  /\ LET id == Resolve(q, tokens[q][position[q]])
     IN given' = [given EXCEPT ![q] = Append(given[q], Given(q, id))]
  /\ position' = [position EXCEPT ![q] = position[q] + 1]
  /\ UNCHANGED <<provider, upstream, table, published, phase, booting, attempt, fetch,
                 tokens, held, served>>

\* The resolved request goes to the cascade (MarketPipeline).
Resolved(q) ==
  /\ position[q] = Len(tokens[q]) + 1
  /\ tokens' = [tokens EXCEPT ![q] = <<>>] /\ given' = [given EXCEPT ![q] = <<>>]
  /\ position' = [position EXCEPT ![q] = 0]
  /\ held' = [held EXCEPT ![q] = NoCatalog] /\ served' = [served EXCEPT ![q] = {}]
  /\ UNCHANGED <<provider, upstream, table, published, phase, booting, attempt, fetch>>
-----------------------------------------------------------------------------
RefresherStep ==
  \/ FetchPage \/ FetchFails
  \/ Replace \/ ReplaceUnconfirmed \/ ReplaceFails
  \/ Install \/ Load \/ LoadFails

CatalogNext ==
  \/ ListChanges \/ BeginRefresh \/ RefresherStep \/ CatalogCrash
  \/ \E q \in Lookup : \/ \E list \in TokenLists : BeginLookup(q, list)
                       \/ ResolveToken(q) \/ Resolved(q)

CatalogSpec == CatalogInit /\ [][CatalogNext]_catalogVars

\* The clients have timeouts: every call of the refresher returns.
FairCatalogSpec == CatalogSpec /\ WF_catalogVars(RefresherStep)
-----------------------------------------------------------------------------
\* PostgreSQL is written before memory, so whatever is lost, unconfirmed or
\* crashes, a catalog is never followed by an older or an empty one, and by none at
\* all only when a bootstrap could read neither the provider nor PostgreSQL.
NeverGoesBack ==
  ~booting /\ newest > 0
  => IF memory = NoCatalog THEN unread ELSE memory.fetchedAt = newest /\ memory.coins # {}

\* A coin that left the list shifts the pages and may hide another one from
\* the fetch; otherwise a fetch installs every usable coin that was listed
\* throughout, however many were added in the middle.
NothingListedIsLost ==
  phase = "install" /\ ~shrank => steady \cap Usable \subseteq Mappings.coins

\* Coin c of this catalog could only have been meant by the token.
Meant(t, c, catalog) ==
  /\ c \in catalog.coins /\ ContractOf[c] = t.contract
  /\ \A d \in catalog.coins \ {c} :
       ContractOf[d] = t.contract
       => provider = "coinmarketcap" /\ SymbolOf[c] = t.symbol /\ SymbolOf[d] # t.symbol

\* The result c for a token of request q needs no guess.
Justified(q, t, c) ==
  \/ c = NoCoin
  \/ t.contract = Native /\ c \in NativeIDs
  \/ \E catalog \in served[q] \ {NoCatalog} : Meant(t, c, catalog)

\* The coin a token is priced by belongs to its contract in a catalog that was
\* published while the request was being resolved, and no other coin could have
\* been meant: of two coins of a contract CoinGecko's service takes none and
\* CoinMarketCap's only the one that has the token's symbol.
NeverGuessed ==
  \A q \in Lookup : \A i \in DOMAIN given[q] : Justified(q, tokens[q][i], given[q][i])

\* The coins of a catalog that have the contract.
Same(catalog, contract) == {c \in catalog.coins : ContractOf[c] = contract}

\* While the catalog stays the same, every token of a contract with one coin gets
\* that coin, the second and third token of the contract included.
NothingKnownIsSkipped ==
  \A q \in Lookup : \A catalog \in served[q] \ {NoCatalog} : \A i \in DOMAIN given[q] :
    LET contract == tokens[q][i].contract
    IN served[q] = {catalog} /\ contract # Native /\ Cardinality(Same(catalog, contract)) = 1
       => given[q][i] \in Same(catalog, contract)

\* A bootstrap and a refresh come to an end, however the list changes.
EveryRefreshEnds == phase # "ready" ~> phase = "ready"
=============================================================================
