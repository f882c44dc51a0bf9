--------------------------- MODULE TransferHistory ---------------------------
(***************************************************************************)
(* The transfer history of an address: two calls to Alchemy, outgoing and   *)
(* incoming, merged into one page of the most recent transfers, and the     *)
(* page cached in PostgreSQL.  The chain grows between the two calls and    *)
(* several requests overlap.                                                *)
(*                                                                          *)
(* A transfer is what dedupeTransfers tells apart (key), its block and      *)
(* whether it leaves the address, reaches it or does both.  Requests with a *)
(* pageKey bypass the cache; the client ignores the key itself.             *)
(***************************************************************************)
EXTENDS Naturals, SequencesExt

CONSTANTS
  Request,
  Chains,      \* transfers of the address, oldest first: the possible futures
  Limit,       \* of the request, at least one
  NoPage

Transfer == [key : Nat, block : Nat \ {0}, way : {"fromAddress", "toAddress", "both"}]

\* known and seen are history: what had happened at the first and second call.
Page == [transfers : Seq(Transfer), known : Nat, seen : Nat]

ASSUME TransferAssumption ==
  /\ Limit \in Nat \ {0}
  /\ NoPage \notin Page
  /\ \A chain \in Chains : /\ chain \in Seq(Transfer)
                           /\ \A i, j \in DOMAIN chain : i < j =>
                                /\ chain[i].block <= chain[j].block
                                /\ chain[i].key # chain[j].key

VARIABLES
  chain,
  mined,       \* how many of its transfers have happened
  row,         \* of tx_cache: NoPage, or a page
  fresh,       \* whether the row is younger than the TTL
  step,        \* the call of a request in flight
  paged,       \* whether it has a pageKey
  page         \* what it has fetched

requests     == <<step, paged, page>>
transferVars == <<chain, mined, row, fresh, requests>>

\* A page holds no more than it was asked for.
TransferTypeOK ==
  /\ chain \in Chains /\ mined \in 0..Len(chain)
  /\ row = NoPage \/ (row \in Page /\ Len(row.transfers) <= Limit)
  /\ fresh \in BOOLEAN /\ (fresh => row # NoPage)
  /\ step \in [Request -> {"idle", "outgoing", "incoming", "save", "answer"}]
  /\ paged \in [Request -> BOOLEAN]
  /\ \A r \in Request : CASE step[r] \in {"idle", "outgoing"} -> page[r] = NoPage
                          [] step[r] = "incoming" -> page[r] \in Page
                          [] OTHER -> page[r] \in Page /\ Len(page[r].transfers) <= Limit

TransferInit ==
  /\ chain \in Chains /\ mined \in 0..Len(chain)
  /\ row = NoPage /\ fresh = FALSE
  /\ step = [r \in Request |-> "idle"] /\ paged = [r \in Request |-> FALSE]
  /\ page = [r \in Request |-> NoPage]
-----------------------------------------------------------------------------
Newest(transfers) == IF Len(transfers) > Limit THEN SubSeq(transfers, 1, Limit) ELSE transfers

\* The members of s at some indices, each at the place that the indices up to it
\* (itself included) count to.
Arrange(s, upTo) ==
  [k \in 1..Cardinality(DOMAIN upTo) |-> s[CHOOSE i \in DOMAIN upTo : Cardinality(upTo[i]) = k]]

\* Those indices only, in the order of s.
Keep(s, indices) == Arrange(s, [i \in indices |-> {j \in indices : j <= i}])

\* alchemy_getAssetTransfers, order desc, maxCount Limit.
FetchTransfers(direction) ==
  LET latest == Reverse(SubSeq(chain, 1, mined))
  IN Newest(Keep(latest, {i \in DOMAIN latest : latest[i].way \in {direction, "both"}}))

\* The first of each key.
DedupeTransfers(in) ==
  Keep(in, {i \in DOMAIN in : \A j \in 1..(i - 1) : in[j].key # in[i].key})

\* sort.SliceStable by blockNumValue, the highest block first.
ByBlock(transfers) ==
  Arrange(transfers,
          [i \in DOMAIN transfers |->
             {j \in DOMAIN transfers :
                \/ transfers[j].block > transfers[i].block
                \/ transfers[j].block = transfers[i].block /\ j <= i}])

\* Mutation of Merge: the page is cut before it is sorted.
MergeCutFirst(outgoing, incoming) == ByBlock(Newest(DedupeTransfers(outgoing \o incoming)))

\* Mutation of Merge: both answers are kept.
MergeUncut(outgoing, incoming) == ByBlock(DedupeTransfers(outgoing \o incoming))

Merge(outgoing, incoming) == Newest(ByBlock(DedupeTransfers(outgoing \o incoming)))

Finish(r) ==
  /\ step' = [step EXCEPT ![r] = "idle"]
  /\ paged' = [paged EXCEPT ![r] = FALSE] /\ page' = [page EXCEPT ![r] = NoPage]

\* GetFreshTransactions, unless there is a pageKey.
BeginTransactions(r, withKey) ==
  /\ step[r] = "idle"
  /\ step' = [step EXCEPT ![r] = IF fresh /\ ~withKey THEN "answer" ELSE "outgoing"]
  /\ page' = [page EXCEPT ![r] = IF fresh /\ ~withKey THEN row ELSE NoPage]
  /\ paged' = [paged EXCEPT ![r] = withKey]
  /\ UNCHANGED <<chain, mined, row, fresh>>

FetchOutgoing(r) ==
  /\ step[r] = "outgoing"
  /\ step' = [step EXCEPT ![r] = "incoming"]
  /\ page' = [page EXCEPT ![r] = [transfers |-> FetchTransfers("fromAddress"),
                                  known |-> mined, seen |-> mined]]
  /\ UNCHANGED <<chain, mined, row, fresh, paged>>

FetchIncoming(r) ==
  /\ step[r] = "incoming"
  /\ step' = [step EXCEPT ![r] = IF paged[r] THEN "answer" ELSE "save"]
  /\ page' = [page EXCEPT ![r].transfers = Merge(@, FetchTransfers("toAddress")),
                          ![r].seen = mined]
  /\ UNCHANGED <<chain, mined, row, fresh, paged>>

SaveTransactions(r) ==
  /\ step[r] = "save"
  /\ row' = page[r] /\ fresh' = TRUE
  /\ step' = [step EXCEPT ![r] = "answer"]
  /\ UNCHANGED <<chain, mined, paged, page>>

\* A call fails, or the save does or its answer is lost: the request gets an error.
TransactionsFail(r) ==
  /\ step[r] \in {"outgoing", "incoming", "save"}
  /\ Finish(r)
  /\ \/ UNCHANGED <<row, fresh>>
     \/ step[r] = "save" /\ row' = page[r] /\ fresh' = TRUE
  /\ UNCHANGED <<chain, mined>>

\* filterTransfers only hides transfers.
AnswerTransactions(r) ==
  /\ step[r] = "answer"
  /\ Finish(r)
  /\ UNCHANGED <<chain, mined, row, fresh>>

TransferHappens ==
  /\ mined < Len(chain)
  /\ mined' = mined + 1
  /\ UNCHANGED <<chain, row, fresh, requests>>

RowAges ==
  /\ fresh
  /\ fresh' = FALSE
  /\ UNCHANGED <<chain, mined, row, requests>>

TransferNext ==
  \/ \E r \in Request :
       \/ \E withKey \in BOOLEAN : BeginTransactions(r, withKey)
       \/ FetchOutgoing(r) \/ FetchIncoming(r) \/ SaveTransactions(r)
       \/ TransactionsFail(r) \/ AnswerTransactions(r)
  \/ TransferHappens \/ RowAges

TransferSpec == TransferInit /\ [][TransferNext]_transferVars
-----------------------------------------------------------------------------
\* The transfers of the first n that rank no lower than the i-th.
Before(i, n) == {j \in 1..n : j # i /\ chain[j].block >= chain[i].block}

\* "the most recent limit transfers (both directions)": newest block first, none
\* twice, and whatever the chain did between the two calls, no transfer that had
\* happened at the first one is missing unless Limit others outrank it.
MostRecent(p) ==
  LET shown == p.transfers
  IN /\ \A k, l \in DOMAIN shown : k < l => /\ shown[k].block >= shown[l].block
                                            /\ shown[k].key # shown[l].key
     /\ \A i \in 1..p.known :
          chain[i] \in Range(shown) \/ Cardinality(Before(i, p.seen)) >= Limit

\* Without a pageKey the page answered, and the one cached for others, is the
\* most recent one, whichever request fetched it.
PagesAreMostRecent ==
  /\ \A r \in Request : step[r] \in {"save", "answer"} /\ ~paged[r] => MostRecent(page[r])
  /\ row # NoPage => MostRecent(row)

\* "paginated via limit & pageKey": with a pageKey, when the history is longer than
\* a page, the answer goes on where a first page ends, that is behind transfers
\* that fill one.
PageKeyPages ==
  \A r \in Request :
    paged[r] /\ step[r] = "answer" /\ page[r].known > Limit =>
      \A i \in 1..page[r].seen :
        chain[i] \in Range(page[r].transfers) => Cardinality(Before(i, page[r].seen)) >= Limit
=============================================================================
