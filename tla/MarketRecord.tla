---------------------------- MODULE MarketRecord ----------------------------
(***************************************************************************)
(* The market-record vocabulary shared by every provider and every store:  *)
(* when a record is fresh, who can use it, and the two guarded writes that  *)
(* decide which of two records a shared store keeps.                        *)
(*                                                                          *)
(* A record is abstracted to the provider ID it was fetched under, the time *)
(* the provider's answer was received and the class of its payload:         *)
(*   "priced"   a price or a 24h change is present                          *)
(*   "capOnly"  only a market cap or the provider's update time is present  *)
(*   "empty"    every field is absent                                       *)
(***************************************************************************)
EXTENDS Integers

CONSTANTS
  ID,     \* provider IDs (CoinGecko strings, CoinMarketCap integers), ordered
  TTL,    \* how long a record stays fresh, in clock units
  None    \* no record, no cache entry

Payload == {"priced", "capOnly", "empty"}

Record == [id : ID, fetchedAt : Nat, payload : Payload]

\* A Redis value with the absolute time at which Redis drops it.
CacheEntry == [record : Record, expires : Nat]

ASSUME RecordAssumption ==
  /\ ID \subseteq Nat
  /\ TTL \in Nat \ {0}
  /\ None \notin Record
  /\ None \notin CacheEntry

-----------------------------------------------------------------------------
\* What is left of the TTL; zero at and beyond the boundary.
RemainingTTL(fetchedAt, now) ==
  LET left == TTL - (now - fetchedAt)
  IN  IF left <= 0 THEN 0 ELSE left

Fresh(rec, now) == RemainingTTL(rec.fetchedAt, now) > 0

\* The provider returned something at all; its absence is a miss.
HasData(rec) == rec.payload # "empty"

\* What a caller can render: the comparison lookup needs a price or a 24h
\* change, the enrichment of wallet tokens also renders the other two fields.
Usable(kind, rec) ==
  \/ rec.payload = "priced"
  \/ kind = "enrich" /\ rec.payload = "capOnly"

\* The later of two expired records; the first one wins a tie.
Newer(current, candidate) ==
  IF current = None \/ candidate.fetchedAt > current.fetchedAt
  THEN candidate ELSE current

-----------------------------------------------------------------------------
\* Mutations of Upsert and CompareAndSet: the last writer wins.
UpsertUnguarded(stored, rec) == rec
SetUnguarded(entry, rec, expires) == [record |-> rec, expires |-> expires]

\* PostgreSQL: INSERT ... ON CONFLICT DO UPDATE ... WHERE EXCLUDED.fetched_at >=
Upsert(stored, rec) ==
  IF stored = None \/ rec.fetchedAt >= stored.fetchedAt THEN rec ELSE stored

\* Redis: the Lua compare-and-set refuses a fetch older than the live value.
CompareAndSet(entry, rec, expires) ==
  IF entry # None /\ rec.fetchedAt < entry.record.fetchedAt
  THEN entry
  ELSE [record |-> rec, expires |-> expires]
=============================================================================
