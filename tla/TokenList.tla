----------------------------- MODULE TokenList -----------------------------
(***************************************************************************)
(* LI.FI's token list and the requests that filter a wallet with it.  The   *)
(* refresher fetches the list, saves it in PostgreSQL and in Redis (either  *)
(* save may fail without anybody caring), and swaps it in; a restart looks  *)
(* for a list at LI.FI, in Redis and in PostgreSQL, in this order.  A       *)
(* request looks up its tokens one by one in whatever list is current.      *)
(***************************************************************************)
EXTENDS DecimalBalance

CONSTANTS
  Address,         \* token addresses
  NativeAddress,   \* the address that stands for the chain's own coin
  NoAddress,       \* of an entry that has none
  Lists,           \* what LI.FI may answer: the decimals of each listed address
  Portfolios,      \* sequences of tokens as Alchemy reports them
  ValidDecimals,   \* the decimals Moralis may report of an unlisted contract
  NoList,
  Dropped,         \* the token is left out of the answer
  Filter,          \* concurrent requests
  MaxFetches       \* bound on the fetches begun

Snapshot == [tokens : Lists, fetchedAt : Nat]
Reported == [address : Address, raw : Nat, decimals : Nat]
Shown    == [address : Address, raw : Nat, decimals : Nat, balance : Scaled]

ASSUME TokenListAssumption ==
  /\ \A list \in Lists : /\ DOMAIN list \subseteq Address \cup {NoAddress}
                          /\ list \in [DOMAIN list -> Nat]
  /\ NativeAddress \in Address /\ NoAddress \notin Address
  /\ Portfolios \subseteq Seq(Reported)
  /\ ValidDecimals \subseteq Nat
  /\ MaxFetches \in Nat
  /\ NoList \notin Snapshot /\ Dropped \notin Shown

VARIABLES
  postgresList,  \* the list in PostgreSQL
  redisList,     \* the list in Redis
  holder,        \* the current list
  listPhase,     \* the refresher's call in flight; "ready", or "dead" after log.Fatalf
  starting,      \* it is Bootstrap's
  fetches,       \* fetches begun: the time of the one in hand
  inHand,        \* the list fetched
  savedPG,       \* history: PostgreSQL took the list in hand
  safe,          \* history: fetch time of the newest list both stores took
  wallet,        \* each request's tokens
  at,            \* the token it looks at, 0 between two requests
  asking,        \* it waits for the verdict on this token
  answer,        \* the tokens of the answer so far, in order
  seen,          \* history: the lists current since the request began
  approved       \* history: the tokens Moralis called valid

disk        == <<postgresList, redisList>>
refresh     == <<listPhase, starting, fetches, inHand, savedPG>>
filtering   == <<wallet, at, asking, answer, seen, approved>>
listVars    == <<disk, holder, refresh, safe, filtering>>

ListTypeOK ==
  /\ {postgresList, redisList, holder, inHand} \subseteq Snapshot \cup {NoList}
  /\ listPhase \in {"fetch", "savePG", "saveRedis", "set", "loadRedis", "loadPG", "ready", "dead"}
  /\ starting \in BOOLEAN /\ savedPG \in BOOLEAN
  /\ fetches \in Nat /\ safe \in Nat
  /\ wallet \in [Filter -> Seq(Shown)]
  /\ at \in [Filter -> Nat]
  /\ asking \in [Filter -> BOOLEAN]
  /\ answer \in [Filter -> Seq(Shown \cup {Dropped})]
  /\ seen \in [Filter -> SUBSET Snapshot]
  /\ approved \in [Filter -> SUBSET Nat]

NoRequests ==
  [wallet |-> [f \in Filter |-> <<>>], at |-> [f \in Filter |-> 0], asking |-> [f \in Filter |-> FALSE],
   answer |-> [f \in Filter |-> <<>>], seen |-> [f \in Filter |-> {}], approved |-> [f \in Filter |-> {}]]

ListInit ==
  /\ postgresList = NoList /\ redisList = NoList /\ holder = NoList
  /\ listPhase = "fetch" /\ starting = TRUE
  /\ fetches = 1 /\ inHand = NoList /\ savedPG = FALSE /\ safe = 0
  /\ wallet = NoRequests.wallet /\ at = NoRequests.at /\ asking = NoRequests.asking
  /\ answer = NoRequests.answer /\ seen = NoRequests.seen /\ approved = NoRequests.approved
-----------------------------------------------------------------------------
\* Mutation of Useful: an empty list is taken for an answer.
UsefulAny(list) == TRUE

\* An empty list would hide every token.  Entries without an address count here,
\* though no snapshot indexes them and no token finds them.
Useful(list) == DOMAIN list # {}

\* A tick of the refresher.
BeginFetch ==
  /\ listPhase = "ready" /\ fetches < MaxFetches
  /\ listPhase' = "fetch" /\ fetches' = fetches + 1
  /\ UNCHANGED <<disk, holder, starting, inHand, savedPG, safe, filtering>>

FetchList ==
  /\ listPhase = "fetch"
  /\ \E list \in Lists :
       /\ Useful(list)
       /\ inHand' = [tokens |-> list, fetchedAt |-> fetches]
  /\ listPhase' = "savePG"
  /\ UNCHANGED <<disk, holder, starting, fetches, savedPG, safe, filtering>>

\* An error, or an empty list: a refresh keeps what it has.
FetchListFails ==
  /\ listPhase = "fetch"
  /\ listPhase' = IF starting THEN "loadRedis" ELSE "ready"
  /\ UNCHANGED <<disk, holder, starting, fetches, inHand, savedPG, safe, filtering>>

SaveListPG ==
  /\ listPhase = "savePG"
  /\ \/ postgresList' = inHand /\ savedPG' = TRUE
     \/ UNCHANGED <<postgresList, savedPG>>
  /\ listPhase' = "saveRedis"
  /\ UNCHANGED <<redisList, holder, starting, fetches, inHand, safe, filtering>>

SaveListRedis ==
  /\ listPhase = "saveRedis"
  /\ \/ redisList' = inHand /\ safe' = (IF savedPG THEN fetches ELSE safe)
     \/ UNCHANGED <<redisList, safe>>
  /\ listPhase' = "set"
  /\ UNCHANGED <<postgresList, holder, starting, fetches, inHand, savedPG, filtering>>

\* The swap; the requests at work look into the new list from now on.
Swap(list) ==
  /\ holder' = list
  /\ seen' = [f \in Filter |-> IF at[f] = 0 THEN seen[f] ELSE seen[f] \cup {list}]
  /\ listPhase' = "ready" /\ starting' = FALSE
  /\ inHand' = NoList /\ savedPG' = FALSE
  /\ UNCHANGED <<disk, fetches, safe, wallet, at, asking, answer, approved>>

SetList == listPhase = "set" /\ Swap(inHand)

\* Redis is asked first although PostgreSQL may hold a newer list.
LoadListRedis == listPhase = "loadRedis" /\ redisList # NoList /\ Swap(redisList)

\* The entry expired, or Redis does not answer.
LoadListRedisFails ==
  /\ listPhase = "loadRedis"
  /\ listPhase' = "loadPG"
  /\ UNCHANGED <<disk, holder, starting, fetches, inHand, savedPG, safe, filtering>>

LoadListPG == listPhase = "loadPG" /\ postgresList # NoList /\ Swap(postgresList)

\* Nothing to serve with: the process ends.
LoadListPGFails ==
  /\ listPhase = "loadPG"
  /\ listPhase' = "dead"
  /\ UNCHANGED <<disk, holder, starting, fetches, inHand, savedPG, safe, filtering>>

RedisListExpires ==
  /\ redisList # NoList
  /\ redisList' = NoList
  /\ UNCHANGED <<postgresList, holder, refresh, safe, filtering>>

\* The process ends, wherever it is, and is started again.
Restart ==
  /\ fetches < MaxFetches
  /\ listPhase' = "fetch" /\ starting' = TRUE /\ fetches' = fetches + 1
  /\ inHand' = NoList /\ savedPG' = FALSE /\ holder' = NoList
  /\ wallet' = NoRequests.wallet /\ at' = NoRequests.at /\ asking' = NoRequests.asking
  /\ answer' = NoRequests.answer /\ seen' = NoRequests.seen /\ approved' = NoRequests.approved
  /\ UNCHANGED <<disk, safe>>
-----------------------------------------------------------------------------
\* Mutation of Normalize: the balance is left to the enrichment.
NormalizeRaw(t) == t

\* normalizeTokens, before the snapshot is stored.
Normalize(t) == [address |-> t.address, raw |-> t.raw, decimals |-> t.decimals,
                 balance |-> ScaleBalance(t.raw, t.decimals)]

\* Mutation of Enrich: the balance stays as it was scaled before.
EnrichDecimalsOnly(t, decimals) == IF decimals > 0 THEN [t EXCEPT !.decimals = decimals] ELSE t

\* Other decimals than Alchemy's rescale the balance, from the raw one.
Enrich(t, decimals) ==
  IF decimals > 0 /\ decimals # t.decimals
  THEN [t EXCEPT !.decimals = decimals, !.balance = ScaleBalance(t.raw, decimals)]
  ELSE t

LookupByAddress(list, address) == list # NoList /\ address \in DOMAIN list.tokens

BeginFilter(f, portfolio) ==
  /\ at[f] = 0 /\ listPhase # "dead" /\ ~starting
  /\ wallet' = [wallet EXCEPT ![f] = [i \in DOMAIN portfolio |-> Normalize(portfolio[i])]]
  /\ at' = [at EXCEPT ![f] = 1]
  /\ seen' = [seen EXCEPT ![f] = {holder}]
  /\ UNCHANGED <<disk, holder, refresh, safe, asking, answer, approved>>

\* The token at hand is settled.
Settle(f, result) ==
  /\ answer' = [answer EXCEPT ![f] = Append(answer[f], result)]
  /\ at' = [at EXCEPT ![f] = at[f] + 1]
  /\ asking' = [asking EXCEPT ![f] = FALSE]
  /\ UNCHANGED <<disk, holder, refresh, safe, wallet, seen>>

AtToken(f) == at[f] \in 1..Len(wallet[f])

\* Mutation of Unlisted: a native token is looked up like any other.
UnlistedNative(f) == ~LookupByAddress(holder, wallet[f][at[f]].address)

\* The token is in no way exempt: the validator has to be asked.
Unlisted(f) == LET a == wallet[f][at[f]].address
               IN a # NativeAddress /\ ~LookupByAddress(holder, a)

FilterToken(f) ==
  /\ AtToken(f) /\ ~asking[f] /\ ~Unlisted(f)
  /\ LET t == wallet[f][at[f]]
     IN Settle(f, IF LookupByAddress(holder, t.address)
                  THEN Enrich(t, holder.tokens[t.address]) ELSE t)
  /\ UNCHANGED approved

AskValidator(f) ==
  /\ AtToken(f) /\ ~asking[f] /\ Unlisted(f)
  /\ asking' = [asking EXCEPT ![f] = TRUE]
  /\ UNCHANGED <<disk, holder, refresh, safe, wallet, at, answer, seen, approved>>

\* Mutation of Verdict: an unknown contract is asked about until it is known.
VerdictRetries(f) ==
  /\ AtToken(f) /\ asking[f]
  /\ asking' = [asking EXCEPT ![f] = FALSE]
  /\ UNCHANGED <<disk, holder, refresh, safe, wallet, at, answer, seen, approved>>

\* The verdict: enriched from Moralis when valid; invalid or unknown hides it.
Verdict(f) ==
  /\ AtToken(f) /\ asking[f]
  /\ \/ /\ \E d \in ValidDecimals : Settle(f, Enrich(wallet[f][at[f]], d))
        /\ approved' = [approved EXCEPT ![f] = approved[f] \cup {at[f]}]
     \/ Settle(f, Dropped) /\ UNCHANGED approved

AnswerWallet(f) ==
  /\ at[f] = Len(wallet[f]) + 1
  /\ wallet' = [wallet EXCEPT ![f] = <<>>]
  /\ at' = [at EXCEPT ![f] = 0]
  /\ answer' = [answer EXCEPT ![f] = <<>>]
  /\ seen' = [seen EXCEPT ![f] = {}]
  /\ approved' = [approved EXCEPT ![f] = {}]
  /\ UNCHANGED <<disk, holder, refresh, safe, asking>>
-----------------------------------------------------------------------------
ListStep ==
  \/ FetchList \/ FetchListFails
  \/ SaveListPG \/ SaveListRedis \/ SetList
  \/ LoadListRedis \/ LoadListRedisFails \/ LoadListPG \/ LoadListPGFails

FilterStep(f) == FilterToken(f) \/ AskValidator(f) \/ Verdict(f) \/ AnswerWallet(f)

ListNext ==
  \/ BeginFetch \/ ListStep \/ RedisListExpires \/ Restart
  \/ \E f \in Filter : FilterStep(f) \/ \E p \in Portfolios : BeginFilter(f, p)

ListSpec == ListInit /\ [][ListNext]_listVars

\* Every call of the refresher and of the validator returns.
FairListSpec ==
  ListSpec /\ WF_listVars(ListStep) /\ \A f \in Filter : WF_listVars(FilterStep(f))
-----------------------------------------------------------------------------
\* Requests are only served with a list, never one without entries, and never one
\* older than the newest that both stores took (the one about to be swapped in
\* apart): whichever saves are lost, Redis drops its copy or the process restarts
\* during an outage of LI.FI.
ServesSavedList ==
  listPhase # "dead" /\ ~starting
  => /\ holder # NoList /\ DOMAIN holder.tokens # {}
     /\ holder.fetchedAt >= safe \/ (listPhase = "set" /\ safe = inHand.fetchedAt)

\* However the list is swapped during a request, a token is left out only when
\* some list of that time did not have it and the validator did not vouch for it,
\* and shown only when some list had it or the validator vouched for it; a native
\* one is always shown.
ShownWhenListedOrValid ==
  \A f \in Filter : \A i \in DOMAIN answer[f] :
    LET a == wallet[f][i].address
        native == a = NativeAddress
    IN IF answer[f][i] = Dropped
       THEN ~native /\ i \notin approved[f] /\ \E list \in seen[f] : a \notin DOMAIN list.tokens
       ELSE native \/ i \in approved[f] \/ \E list \in seen[f] : a \in DOMAIN list.tokens

\* Whoever supplied the decimals, the balance shown is the raw one divided by
\* them, exactly and without trailing zeros.
BalanceFitsDecimals ==
  \A f \in Filter : \A i \in DOMAIN answer[f] :
    answer[f][i] # Dropped
    => Writes(answer[f][i].balance, wallet[f][i].raw, answer[f][i].decimals)

\* Every request is answered, whatever Moralis says of its tokens.
EveryRequestIsAnswered == \A f \in Filter : at[f] # 0 ~> at[f] = 0
=============================================================================
