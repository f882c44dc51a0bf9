-------------------------- MODULE WalletSnapshots --------------------------
(***************************************************************************)
(* The token snapshot of one wallet: the requests that serve it from        *)
(* PostgreSQL or fetch it from Alchemy, and the transaction that replaces   *)
(* it.  Every statement is a step of its own, at READ COMMITTED: it sees    *)
(* what was committed when it started, a row another transaction has        *)
(* deleted or inserted and not yet committed makes it wait, and a cycle of  *)
(* waiting transactions is broken by failing one of them.                   *)
(*                                                                          *)
(* A row is abstracted to its token key and the fetch it came from.  Every  *)
(* fetch has a clock reading of its own.                                    *)
(***************************************************************************)
EXTENDS Integers, FiniteSets, Sequences

CONSTANTS
  Token,       \* token keys: "native" and lower-case contract addresses
  Request,     \* request slots
  Routes,      \* routes in use: "tokens" and "markets"
  Portfolios,  \* what Alchemy can answer: sequences of token keys
  TTL,         \* how long a snapshot is served without asking Alchemy
  None,        \* no snapshot, no reply
  MaxTime      \* bound on the clock

ASSUME SnapshotAssumption ==
  /\ IsFiniteSet(Request)
  /\ Portfolios \subseteq Seq(Token)
  /\ Routes \subseteq {"tokens", "markets"}
  /\ TTL \in Nat \ {0}
  /\ MaxTime \in Nat
  /\ None \notin Nat

VARIABLES
  clock,
  rows,       \* committed rows of wallet_tokens
  meta,       \* committed fetched_at of token_fetch_meta
  pc,         \* the statement or call a request has in flight
  fetched,    \* the fetch time the request read or stamped
  tokens,     \* what is left to insert of the portfolio it saves
  seen,       \* the rows its waiting DELETE found
  deleted,    \* rows its transaction has deleted
  inserted,   \* rows its transaction has inserted
  reply,      \* the snapshot it answers with
  answered    \* history: the token keys of the answer fetched at each time

held == <<deleted, inserted>>
vars == <<clock, rows, meta, pc, fetched, tokens, seen, held, reply, answered>>

Row == [key : Token, at : Nat]
Calls == {"readFresh", "readLatest", "readRows", "fetch", "delete", "deleteWaits",
          "insert", "saveMeta", "commit"}

TypeOK ==
  /\ clock \in Nat
  /\ rows \in SUBSET Row
  /\ meta \in Nat \cup {None}
  /\ pc \in [Request -> Calls \cup {"idle", "answer"}]
  /\ fetched \in [Request -> Nat]
  /\ tokens \in [Request -> Seq(Token)]
  /\ seen \in [Request -> SUBSET Row]
  /\ deleted \in [Request -> SUBSET Row]
  /\ inserted \in [Request -> SUBSET Row]
  /\ reply \in [Request -> [at : Nat, rows : SUBSET Row] \cup {None}]
  /\ answered \in [0..MaxTime -> SUBSET Token]

Init ==
  /\ clock = 0
  /\ rows = {}
  /\ meta = None
  /\ pc = [r \in Request |-> "idle"]
  /\ fetched = [r \in Request |-> 0]
  /\ tokens = [r \in Request |-> <<>>]
  /\ seen = [r \in Request |-> {}]
  /\ deleted = [r \in Request |-> {}]
  /\ inserted = [r \in Request |-> {}]
  /\ reply = [r \in Request |-> None]
  /\ answered = [t \in 0..MaxTime |-> {}]
-----------------------------------------------------------------------------
GoTo(r, call) == pc' = [pc EXCEPT ![r] = call]

KeysOf(records) == {row.key : row \in records}

\* The rows of the portfolio fetched at this time.
RowsOf(time) == {[key |-> k, at |-> time] : k \in answered[time]}

\* Bound: every request that may still fetch can do so at a time of its own.
RoomForFetch ==
  clock + Cardinality({r \in Request : pc[r] \in {"readFresh", "fetch"}}) < MaxTime

\* GetTokens starts with a freshness test, GetTokenMarkets without one.
Begin(r, route) ==
  /\ pc[r] = "idle" /\ (route = "tokens" => RoomForFetch)
  /\ GoTo(r, IF route = "tokens" THEN "readFresh" ELSE "readLatest")
  /\ UNCHANGED <<clock, rows, meta, fetched, tokens, seen, held, reply, answered>>

\* GetFreshTokens, first statement: an expired snapshot counts as none.
ReadFresh(r) ==
  /\ pc[r] = "readFresh"
  /\ IF meta # None /\ meta > clock - TTL
     THEN GoTo(r, "readRows") /\ fetched' = [fetched EXCEPT ![r] = meta]
     ELSE GoTo(r, "fetch") /\ UNCHANGED fetched
  /\ UNCHANGED <<clock, rows, meta, tokens, seen, held, reply, answered>>

\* GetLatestTokens, first statement: a wallet never saved is answered 404.
ReadLatest(r) ==
  /\ pc[r] = "readLatest"
  /\ IF meta # None
     THEN GoTo(r, "readRows") /\ fetched' = [fetched EXCEPT ![r] = meta]
     ELSE GoTo(r, "idle") /\ UNCHANGED fetched
  /\ UNCHANGED <<clock, rows, meta, tokens, seen, held, reply, answered>>

\* loadTokens: the second statement of both, outside any transaction.
ReadRows(r) ==
  /\ pc[r] = "readRows"
  /\ reply' = [reply EXCEPT ![r] = [at |-> fetched[r], rows |-> rows]]
  /\ GoTo(r, "answer")
  /\ UNCHANGED <<clock, rows, meta, fetched, tokens, seen, held, answered>>

\* Alchemy answers; the portfolio is stamped when its answer has arrived.
Fetch(r) ==
  /\ pc[r] = "fetch"
  /\ clock' = clock + 1
  /\ \E portfolio \in Portfolios :
       /\ tokens' = [tokens EXCEPT ![r] = portfolio]
       /\ answered' = [answered EXCEPT ![clock'] =
                         {portfolio[i] : i \in DOMAIN portfolio}]
  /\ fetched' = [fetched EXCEPT ![r] = clock']
  /\ GoTo(r, "delete")
  /\ UNCHANGED <<rows, meta, seen, held, reply>>
-----------------------------------------------------------------------------
\* Mutation of NewRow: the row is written before the portfolio is stamped.
NewRowUnstamped(r) == [key |-> Head(tokens[r]), at |-> None]

\* The row the INSERT in flight writes.
NewRow(r) == [key |-> Head(tokens[r]), at |-> fetched[r]]

\* The statement that follows once these tokens are left to insert.
InsertNext(r, left) == GoTo(r, IF left = <<>> THEN "saveMeta" ELSE "insert")

\* Mutation of Clashes: the INSERT skips a key that is already there.
ClashesIgnored(r) == FALSE

\* The primary key (address, network, token_key): one row for each token.
Clashes(r) == NewRow(r).key \in KeysOf((rows \ deleted[r]) \cup inserted[r])

\* The transactions whose end the statement in flight has to wait for.
Blockers(r) ==
  {q \in Request \ {r} :
     \/ pc[r] = "delete" /\ deleted[q] \cap rows # {}
     \/ pc[r] = "deleteWaits" /\ deleted[q] \cap seen[r] # {}
     \/ pc[r] = "insert" /\ NewRow(r).key \in KeysOf(inserted[q] \cup deleted[q])
     \/ pc[r] = "saveMeta" /\ pc[q] = "commit"}

\* The DELETE that opens the transaction removes the rows it found, once the
\* transactions that have deleted some of them are over; rows committed in
\* the meantime it does not see.
DeleteWaits(r) ==
  /\ pc[r] = "delete" /\ Blockers(r) # {}
  /\ seen' = [seen EXCEPT ![r] = rows]
  /\ GoTo(r, "deleteWaits")
  /\ UNCHANGED <<clock, rows, meta, fetched, tokens, held, reply, answered>>

\* Mutation of Delete: it runs on the pool instead of the transaction.
DeleteOnPool(r) ==
  /\ pc[r] \in {"delete", "deleteWaits"} /\ Blockers(r) = {}
  /\ rows' = rows \ (IF pc[r] = "delete" THEN rows ELSE seen[r])
  /\ seen' = [seen EXCEPT ![r] = {}]
  /\ InsertNext(r, tokens[r])
  /\ UNCHANGED <<clock, meta, fetched, tokens, held, reply, answered>>

Delete(r) ==
  /\ pc[r] \in {"delete", "deleteWaits"} /\ Blockers(r) = {}
  /\ deleted' = [deleted EXCEPT ![r] =
                   IF pc[r] = "delete" THEN rows ELSE seen[r] \cap rows]
  /\ seen' = [seen EXCEPT ![r] = {}]
  /\ InsertNext(r, tokens[r])
  /\ UNCHANGED <<clock, rows, meta, fetched, tokens, inserted, reply, answered>>

\* One INSERT for each token, in Alchemy's order.
Insert(r) ==
  /\ pc[r] = "insert" /\ Blockers(r) = {} /\ ~Clashes(r)
  /\ inserted' = [inserted EXCEPT ![r] = @ \cup {NewRow(r)}]
  /\ tokens' = [tokens EXCEPT ![r] = Tail(@)]
  /\ InsertNext(r, Tail(tokens[r]))
  /\ UNCHANGED <<clock, rows, meta, fetched, seen, deleted, reply, answered>>

\* The upsert of the fetch time keeps the last writer's, whichever is later.
SaveMeta(r) ==
  /\ pc[r] = "saveMeta" /\ Blockers(r) = {}
  /\ GoTo(r, "commit")
  /\ UNCHANGED <<clock, rows, meta, fetched, tokens, seen, held, reply, answered>>

\* Mutation of Rollback: the failed transaction is left open.
RollbackForgotten(r) == UNCHANGED held

\* The deferred rollback, or the server noticing that the connection is gone.
Rollback(r) ==
  /\ deleted' = [deleted EXCEPT ![r] = {}]
  /\ inserted' = [inserted EXCEPT ![r] = {}]

\* What the request knew is dropped.
Forget(r) ==
  /\ fetched' = [fetched EXCEPT ![r] = 0]
  /\ tokens' = [tokens EXCEPT ![r] = <<>>]
  /\ seen' = [seen EXCEPT ![r] = {}]
  /\ reply' = [reply EXCEPT ![r] = None]

Apply(r) ==
  /\ rows' = (rows \ deleted[r]) \cup inserted[r]
  /\ meta' = fetched[r]
  /\ deleted' = [deleted EXCEPT ![r] = {}]
  /\ inserted' = [inserted EXCEPT ![r] = {}]

\* The portfolio is answered once its transaction has committed.
Commit(r) ==
  /\ pc[r] = "commit"
  /\ Apply(r)
  /\ reply' = [reply EXCEPT ![r] = [at |-> fetched[r], rows |-> inserted[r]]]
  /\ GoTo(r, "answer")
  /\ UNCHANGED <<clock, fetched, tokens, seen, answered>>

\* The commit took effect but its confirmation was lost: answered 500.
CommitUnconfirmed(r) ==
  /\ pc[r] = "commit"
  /\ Apply(r)
  /\ GoTo(r, "idle")
  /\ Forget(r)
  /\ UNCHANGED <<clock, answered>>

\* Any call fails, the client goes away or the process dies: the error ends
\* the request and the transaction is rolled back.
Fail(r) ==
  /\ pc[r] \in Calls
  /\ Rollback(r)
  /\ GoTo(r, "idle")
  /\ Forget(r)
  /\ UNCHANGED <<clock, rows, meta, answered>>

\* The INSERT fails on the primary key.
InsertFails(r) ==
  /\ pc[r] = "insert" /\ Blockers(r) = {} /\ Clashes(r)
  /\ Fail(r)

\* Everyone in a cycle waits for another member of it.
InCycle(r) ==
  \E cycle \in SUBSET Request :
    /\ r \in cycle
    /\ \A q \in cycle : /\ Blockers(q) \cap cycle # {}
                        /\ \E p \in cycle : q \in Blockers(p)

\* PostgreSQL notices the cycle and fails the statement of one member.
BreakDeadlock(r) == InCycle(r) /\ Fail(r)

Return(r) ==
  /\ pc[r] = "answer"
  /\ GoTo(r, "idle")
  /\ Forget(r)
  /\ UNCHANGED <<clock, rows, meta, held, answered>>

Tick ==
  /\ RoomForFetch
  /\ clock' = clock + 1
  /\ UNCHANGED <<rows, meta, pc, fetched, tokens, seen, held, reply, answered>>

\* A step of the request that needs no failure.
Step(r) ==
  \/ ReadFresh(r)
  \/ ReadLatest(r)
  \/ ReadRows(r)
  \/ Fetch(r)
  \/ DeleteWaits(r)
  \/ Delete(r)
  \/ Insert(r)
  \/ InsertFails(r)
  \/ SaveMeta(r)
  \/ Commit(r)
  \/ Return(r)

Next ==
  \/ \E r \in Request : \/ \E route \in Routes : Begin(r, route)
                        \/ Step(r)
                        \/ CommitUnconfirmed(r)
                        \/ Fail(r)
                        \/ BreakDeadlock(r)
  \/ Tick

Spec == Init /\ [][Next]_vars

\* PostgreSQL and Alchemy answer and deadlocks are found; nobody has to fail.
FairSpec ==
  Spec /\ \A r \in Request : WF_vars(Step(r)) /\ WF_vars(BreakDeadlock(r))
-----------------------------------------------------------------------------
\* The committed snapshot holds the whole portfolio its fetch time names.
\* Overlapping saves may leave rows of another fetch beside it, but only of a
\* portfolio without a single token in common with this one: as soon as two
\* portfolios share a token the primary key fails the later save.
SnapshotIsWhole ==
  IF meta = None THEN rows = {}
  ELSE /\ RowsOf(meta) \subseteq rows
       /\ \A row \in rows : row.at # meta => answered[row.at] \cap answered[meta] = {}

\* A save is one step, whatever its statements overlap with: the whole portfolio of
\* one fetch goes in and whole ones go out, and the fetch time changes with them.
\* Failed saves, waiting statements and broken deadlocks leave the tables alone.
Table == INSTANCE PortfolioTable WITH table <- rows, latest <- meta

SavesAreAtomic == Table!Spec

\* Savers that wait for each other's rows, in whatever order Alchemy lists the
\* tokens, all come to an end: no failed save leaves anyone waiting.
EveryRequestEnds == \A r \in Request : pc[r] # "idle" ~> pc[r] = "idle"

\* The promise of the TokenStore interface: the newest snapshot is kept.
NewestSnapshotKept == [][meta # None => meta' >= meta]_vars

\* The promise of the market route: the snapshot and the time it was fetched.
ServedUnderItsFetchTime ==
  \A r \in Request : reply[r] # None =>
    \A row \in reply[r].rows : row.at = reply[r].at
=============================================================================
