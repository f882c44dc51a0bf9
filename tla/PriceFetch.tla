----------------------------- MODULE PriceFetch -----------------------------
(***************************************************************************)
(* One batch of prices from a provider into Redis: the price clients' retry *)
(* loop under the caller's deadline, the time stamp on the answer, and the  *)
(* save through the Lua script.  Several batches for the same token overlap *)
(* and reach Redis in any order, on top of whatever is there.               *)
(***************************************************************************)
EXTENDS MarketEnvelope

CONSTANTS
  Fetcher,      \* batches under way
  MarketKey,    \* the Redis key of the token
  NoEnvelope,
  Leftovers,    \* envelopes the script must not trust: of an older release, of another
                \*   token, without an ID, with two times that disagree
  Instants,     \* the readings of the clock, in order
  MaxTries      \* maxPriceAttempts, maxAttempts

Failures == {"transport", "garbled", "tooMany", "serverError", "refused", "envelopeError"}

ASSUME PriceFetchAssumption == MaxTries \in Nat \ {0} /\ Len(Instants) \in Nat \ {0}

\* What SaveMarketData sends for prices received at each reading.
Written == [n \in 1..Len(Instants) |-> Envelope(MarketKey, Instants[n], 0)]

\* The script trusts what SaveMarketData sends, puts it in the order of the clock,
\* and trusts no leftover.
ASSUME ScriptAssumption ==
  /\ \A n \in 1..Len(Instants) : Written[n] # NoEnvelope /\ ValidEnvelope(Written[n], MarketKey)
  /\ \A m, n \in 1..Len(Instants) :
       CompareDecimals(Written[m].unixNano, Written[n].unixNano) = -1 <=> m < n
  /\ \A e \in Leftovers : ~ValidEnvelope(e, MarketKey)

\* What the key may hold.
Held == Leftovers \cup {NoEnvelope} \cup {Written[n] : n \in 1..Len(Instants)}

\* What the script leaves there when each record is saved.
Saved == [old \in Held |-> [n \in 1..Len(Instants) |-> Script(old, NoEnvelope, Written[n], MarketKey)]]

VARIABLES
  now,     \* the clock, as a position in Instants
  cell,    \* what Redis holds under the key
  pc,      \* the call of a batch in flight, or the pause before the next one
  ctx,     \* of its request: live, ended under the call in flight, or over
  tries,   \* how often it has asked the provider
  stamp,   \* when it got the prices, 0 before
  best     \* history: the newest record saved since the key was last empty

batch     == <<pc, ctx, tries, stamp>>
priceVars == <<now, cell, batch, best>>

PriceTypeOK ==
  /\ now \in 1..Len(Instants)
  /\ cell \in Held
  /\ pc \in [Fetcher -> {"idle", "call", "sleep", "save"}]
  /\ ctx \in [Fetcher -> {"live", "ending", "over"}]
  /\ tries \in [Fetcher -> 0..MaxTries]
  /\ stamp \in [Fetcher -> 0..now]
  /\ best \in 0..Len(Instants)

PriceInit ==
  /\ now = 1
  /\ cell \in Held
  /\ best = IF cell \in Leftovers \cup {NoEnvelope} THEN 0
            ELSE CHOOSE n \in 1..Len(Instants) : cell = Written[n]
  /\ pc = [w \in Fetcher |-> "idle"] /\ ctx = [w \in Fetcher |-> "live"]
  /\ tries = [w \in Fetcher |-> 0] /\ stamp = [w \in Fetcher |-> 0]
-----------------------------------------------------------------------------
\* GetPrices returns an error, or the records have been dealt with.
Done(w) ==
  /\ pc' = [pc EXCEPT ![w] = "idle"] /\ ctx' = [ctx EXCEPT ![w] = "live"]
  /\ tries' = [tries EXCEPT ![w] = 0]
  /\ stamp' = [stamp EXCEPT ![w] = 0]

\* Mutation of Ask: an attempt is not counted.
AskUncounted(w) == pc' = [pc EXCEPT ![w] = "call"] /\ UNCHANGED tries

Ask(w) ==
  /\ pc' = [pc EXCEPT ![w] = "call"]
  /\ tries' = [tries EXCEPT ![w] = tries[w] + 1]

BeginPrices(w) ==
  /\ pc[w] = "idle"
  /\ Ask(w)
  /\ UNCHANGED <<now, cell, ctx, stamp, best>>

\* The records are stamped on receipt; a run whose ctx has ended saves nothing
\* (MarketPipeline).
Answered(w) ==
  /\ pc[w] = "call" /\ ctx[w] # "over"
  /\ IF ctx[w] = "live"
     THEN /\ pc' = [pc EXCEPT ![w] = "save"] /\ stamp' = [stamp EXCEPT ![w] = now]
          /\ tries' = [tries EXCEPT ![w] = 0]
          /\ UNCHANGED ctx
     ELSE Done(w)
  /\ UNCHANGED <<now, cell, best>>

\* Other status codes and the error code of CoinMarketCap's envelope are final.
\* When the HTTP client itself times out CoinMarketCap's asks again (transport),
\* while CoinGecko's takes it for a deadline and gives up (refused).
Retryable(failure) == failure \in {"transport", "garbled", "tooMany", "serverError"}

\* Mutation of Another: the limit is compared after one attempt too many.
AnotherOnce(w, failure) == Retryable(failure) /\ tries[w] # MaxTries + 1

\* Whether the loop goes on; the limit is reached exactly.
Another(w, failure) == Retryable(failure) /\ tries[w] # MaxTries

CallFails(w, failure) ==
  /\ pc[w] = "call"
  /\ IF ctx[w] = "live" /\ Another(w, failure)
     THEN /\ pc' = [pc EXCEPT ![w] = "sleep"]
          /\ UNCHANGED <<ctx, tries, stamp>>
     ELSE Done(w)
  /\ UNCHANGED <<now, cell, best>>

\* The pause is over.  When ctx ends at the same moment the select may still
\* choose the timer: the next call then fails without reaching the provider.
Wake(w) ==
  /\ pc[w] = "sleep"
  /\ Ask(w)
  /\ UNCHANGED <<now, cell, ctx, stamp, best>>

WakeCancelled(w) ==
  /\ pc[w] = "sleep" /\ ctx[w] # "live"
  /\ Done(w)
  /\ UNCHANGED <<now, cell, best>>

\* Redis runs the script; a save whose answer is lost is one that took place.
Save(w) ==
  /\ pc[w] = "save"
  /\ cell' = Saved[cell][stamp[w]]
  /\ best' = IF stamp[w] > best THEN stamp[w] ELSE best
  /\ Done(w)
  /\ UNCHANGED now

SaveLost(w) ==
  /\ pc[w] = "save"
  /\ Done(w)
  /\ UNCHANGED <<now, cell, best>>

\* The deadline, or the client, ends the request.
CancelPrices(w) ==
  /\ pc[w] \in {"call", "sleep"} /\ ctx[w] = "live"
  /\ ctx' = [ctx EXCEPT ![w] = IF pc[w] = "call" THEN "ending" ELSE "over"]
  /\ UNCHANGED <<now, cell, pc, tries, stamp, best>>

EnvelopeExpires ==
  /\ cell # NoEnvelope
  /\ cell' = NoEnvelope /\ best' = 0
  /\ UNCHANGED <<now, batch>>

ClockTicks ==
  /\ now < Len(Instants)
  /\ now' = now + 1
  /\ UNCHANGED <<cell, batch, best>>

PriceStep(w) ==
  \/ Answered(w) \/ (\E failure \in Failures : CallFails(w, failure))
  \/ Wake(w) \/ WakeCancelled(w)
  \/ Save(w) \/ SaveLost(w)

PriceNext ==
  \/ \E w \in Fetcher : BeginPrices(w) \/ PriceStep(w) \/ CancelPrices(w)
  \/ EnvelopeExpires \/ ClockTicks

PriceSpec == PriceInit /\ [][PriceNext]_priceVars

\* The HTTP client and Redis have timeouts, and the pause is a second.
FairPriceSpec == PriceSpec /\ \A w \in Fetcher : WF_priceVars(PriceStep(w))
-----------------------------------------------------------------------------
\* Saves arrive in any order, with time stamps of any length and sign, on top of
\* anything, a record of a replica whose clock is ahead included: afterwards
\* Redis holds the newest record saved since the key was last empty, and nothing
\* the script must not trust stays in the way.
CacheHoldsNewest == best # 0 => cell = Written[best]

\* Every batch ends, with a provider that fails for ever and without a deadline.
EveryFetchEnds == \A w \in Fetcher : pc[w] # "idle" ~> pc[w] = "idle"
=============================================================================
