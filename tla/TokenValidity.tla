--------------------------- MODULE TokenValidity ---------------------------
(***************************************************************************)
(* Checks of one unlisted contract: Redis, then PostgreSQL, then Moralis.   *)
(* Any number of requests check the contract at once; they meet only in     *)
(* the two stores, and neither store compares what it replaces.             *)
(*                                                                          *)
(* A verdict is abstracted to the time Moralis gave it: what it says of the *)
(* contract is never looked at on the way, only how old it is.  A failing   *)
(* check hides the token.                                                   *)
(***************************************************************************)
EXTENDS Integers

CONSTANTS
  Check,     \* concurrent requests that check the contract
  None,      \* no verdict
  Recheck,   \* age at which a stored verdict has to be asked for again
  RedisTTL,  \* how long Redis keeps a verdict, whatever its age
  Failing,   \* the calls that may fail although ctx is live
  Budget,    \* a check is over before this much time has passed
  MaxTime    \* bound on the clock

Calls == {"loadMeta", "loadRow", "moralis", "saveRow", "saveMeta"}

CacheEntry == [fetchedAt : Nat, expires : Nat]

ASSUME ValidityAssumption ==
  /\ Recheck \in Nat \ {0} /\ RedisTTL \in Nat \ {0}
  /\ Budget \in Nat /\ MaxTime \in Nat
  /\ None \notin Nat /\ None \notin CacheEntry

VARIABLES
  clock,
  redis,    \* the cached verdict, with the time it is dropped
  row,      \* the row of token_metadata: when its verdict was given
  pc,       \* the call a check has in flight
  started,  \* when it began
  ctx,      \* of its request: live, ending under the call in flight, or over
  stale,    \* the stored verdict it found too old
  answer,   \* the verdict it is going to return
  rowSeen,  \* history: the row when the check began, until it has a verdict
  outage    \* history: when Moralis last failed a live check

stores  == <<redis, row>>
check   == <<started, stale, answer, rowSeen>>
control == <<pc, ctx>>
vars    == <<clock, stores, control, check, outage>>

Verdict == Nat \cup {None}

TypeOK ==
  /\ clock \in Nat
  /\ redis \in CacheEntry \cup {None}
  /\ row \in Verdict
  /\ pc \in [Check -> Calls \cup {"idle", "return"}]
  /\ started \in [Check -> Nat]
  /\ ctx \in [Check -> {"live", "ending", "over"}]
  /\ stale \in [Check -> Verdict]
  /\ answer \in [Check -> Verdict]
  /\ rowSeen \in [Check -> Verdict]
  /\ outage \in Verdict

Nobody == [c \in Check |-> None]

Init ==
  /\ clock = 0
  /\ redis = None
  /\ row = None
  /\ pc = [c \in Check |-> "idle"]
  /\ started = [c \in Check |-> 0]
  /\ ctx = [c \in Check |-> "live"]
  /\ stale = Nobody
  /\ answer = Nobody
  /\ rowSeen = Nobody
  /\ outage = None
-----------------------------------------------------------------------------
\* Validate never looks at ctx itself: once the request is gone each call it
\* still makes fails, and only the one in flight may have been served.
GoTo(c, call) ==
  /\ pc' = [pc EXCEPT ![c] = call]
  /\ ctx' = IF ctx[c] = "ending" THEN [ctx EXCEPT ![c] = "over"] ELSE ctx

Live(c)    == ctx[c] = "live"
Served(c)  == ctx[c] # "over"
MayFail(c) == ~Live(c) \/ pc[c] \in Failing

\* What a read yields; a failed read counts as nothing found.
Reply(c, data) == (IF Served(c) THEN {data} ELSE {}) \cup (IF MayFail(c) THEN {None} ELSE {})

\* Mutation of Due: the age is computed the wrong way round, and never reached.
DueNever(verdict) == verdict - clock >= Recheck

\* Mutation of Due: the comparison is turned round.
DueSwapped(verdict) == clock - verdict < Recheck

Due(verdict) == clock - verdict >= Recheck

\* What Validate will return; what it kept in reserve is forgotten.
Found(c, verdict) ==
  /\ answer' = [answer EXCEPT ![c] = verdict]
  /\ stale' = [stale EXCEPT ![c] = None]
  /\ rowSeen' = IF verdict = None THEN rowSeen ELSE [rowSeen EXCEPT ![c] = None]

Begin(c) ==
  /\ pc[c] = "idle" /\ clock < MaxTime
  /\ GoTo(c, "loadMeta")
  /\ started' = [started EXCEPT ![c] = clock]
  /\ rowSeen' = [rowSeen EXCEPT ![c] = row]
  /\ UNCHANGED <<clock, stores, stale, answer, outage>>

\* Tier 1: what Redis holds is taken as it is.
LoadMeta(c) ==
  /\ pc[c] = "loadMeta"
  /\ \E seen \in Reply(c, redis) :
       IF seen = None
       THEN GoTo(c, "loadRow") /\ UNCHANGED <<stale, answer, rowSeen>>
       ELSE GoTo(c, "return") /\ Found(c, seen.fetchedAt)
  /\ UNCHANGED <<clock, stores, started, outage>>

\* Tier 2: a young enough row is the answer, an older one is kept in reserve.
LoadRow(c) ==
  /\ pc[c] = "loadRow"
  /\ \E seen \in Reply(c, row) :
       IF seen # None /\ ~Due(seen)
       THEN GoTo(c, "saveMeta") /\ Found(c, seen)
       ELSE /\ GoTo(c, "moralis")
            /\ stale' = [stale EXCEPT ![c] = seen]
            /\ UNCHANGED <<answer, rowSeen>>
  /\ UNCHANGED <<clock, stores, started, outage>>

\* Tier 3: the verdict is stamped with the time of receipt.
AskMoralis(c) ==
  /\ pc[c] = "moralis" /\ Served(c)
  /\ Found(c, clock)
  /\ GoTo(c, "saveRow")
  /\ UNCHANGED <<clock, stores, started, outage>>

\* Mutation of Fallback: a failing Moralis hides the token.
FallbackClosed(c) == None

Fallback(c) == stale[c]

\* Mutation of AfterOutage: the stale verdict is saved in both stores.
AfterOutageBoth(c) == IF Fallback(c) = None THEN "return" ELSE "saveRow"

\* Mutation of AfterOutage: what is not known is saved too.
AfterOutageBlind(c) == "saveMeta"

AfterOutage(c) == IF Fallback(c) = None THEN "return" ELSE "saveMeta"

\* Moralis has no answer: the old verdict stands, for another RedisTTL.
MoralisFails(c) ==
  /\ pc[c] = "moralis" /\ MayFail(c)
  /\ Found(c, Fallback(c))
  /\ GoTo(c, AfterOutage(c))
  /\ outage' = IF Live(c) THEN clock ELSE outage
  /\ UNCHANGED <<clock, stores, started>>

\* The upsert has no guard on the time of the verdict it replaces.
SaveRow(c) ==
  /\ pc[c] = "saveRow" /\ Served(c)
  /\ row' = answer[c]
  /\ GoTo(c, "saveMeta")
  /\ UNCHANGED <<clock, redis, check, outage>>

SaveRowFails(c) ==
  /\ pc[c] = "saveRow" /\ MayFail(c)
  /\ GoTo(c, "saveMeta")
  /\ UNCHANGED <<clock, stores, check, outage>>

\* A plain SET, after each of the three ways to a verdict.
SaveMeta(c) ==
  /\ pc[c] = "saveMeta" /\ Served(c)
  /\ redis' = [fetchedAt |-> answer[c], expires |-> clock + RedisTTL]
  /\ GoTo(c, "return")
  /\ UNCHANGED <<clock, row, check, outage>>

\* Mutation of SaveMetaFails: the failure is retried for ever.
SaveMetaFailsRetries(c) ==
  /\ pc[c] = "saveMeta" /\ MayFail(c)
  /\ UNCHANGED vars

SaveMetaFails(c) ==
  /\ pc[c] = "saveMeta" /\ MayFail(c)
  /\ GoTo(c, "return")
  /\ UNCHANGED <<clock, stores, check, outage>>

\* filterTokens keeps or drops the token; the check is forgotten.
Return(c) ==
  /\ pc[c] = "return"
  /\ pc' = [pc EXCEPT ![c] = "idle"]
  /\ ctx' = [ctx EXCEPT ![c] = "live"]
  /\ started' = [started EXCEPT ![c] = 0]
  /\ stale' = [stale EXCEPT ![c] = None]
  /\ answer' = [answer EXCEPT ![c] = None]
  /\ rowSeen' = [rowSeen EXCEPT ![c] = None]
  /\ UNCHANGED <<clock, stores, outage>>

\* The client goes away.
Cancel(c) ==
  /\ pc[c] \in Calls /\ Live(c)
  /\ ctx' = [ctx EXCEPT ![c] = "ending"]
  /\ UNCHANGED <<clock, stores, pc, started, stale, answer, rowSeen, outage>>

\* The process dies and is started again.
Crash ==
  /\ \E c \in Check : pc[c] # "idle"
  /\ pc' = [c \in Check |-> "idle"]
  /\ started' = [c \in Check |-> 0]
  /\ ctx' = [c \in Check |-> "live"]
  /\ stale' = Nobody
  /\ answer' = Nobody
  /\ rowSeen' = Nobody
  /\ UNCHANGED <<clock, stores, outage>>

Tick ==
  /\ clock < MaxTime
  /\ \A c \in Check : pc[c] # "idle" => clock - started[c] < Budget
  /\ clock' = clock + 1
  /\ redis' = IF redis # None /\ redis.expires <= clock' THEN None ELSE redis
  /\ UNCHANGED <<row, control, check, outage>>

Step(c) ==
  \/ LoadMeta(c) \/ LoadRow(c)
  \/ AskMoralis(c) \/ MoralisFails(c)
  \/ SaveRow(c) \/ SaveRowFails(c)
  \/ SaveMeta(c) \/ SaveMetaFails(c)
  \/ Return(c)

Next ==
  \/ \E c \in Check : Begin(c) \/ Step(c) \/ Cancel(c)
  \/ Crash
  \/ Tick

Spec == Init /\ [][Next]_vars

\* Every call returns: the clients of the three peers have timeouts.
FairSpec == Spec /\ \A c \in Check : WF_vars(Step(c))
-----------------------------------------------------------------------------
\* Promotion restarts the Redis clock of an old verdict, so a verdict can outlive
\* the recheck age by RedisTTL and the time two checks take; but an older one is
\* only ever answered when Moralis failed within the last RedisTTL or so, however
\* the checks overlap and whichever saves are lost.
OldVerdictsNeedAnOutage ==
  \A c \in Check :
    /\ answer[c] # None /\ Live(c)
    /\ clock - answer[c] > (Recheck - 1) + (RedisTTL - 1) + 2 * Budget
    => outage # None /\ clock - outage <= (RedisTTL - 1) + 2 * Budget

\* Overlapping checks may all ask, and a slow one may put its older verdict over
\* a newer one; even so a check asks Moralis only when the row it could have seen
\* when it began had reached the recheck age, give or take one check.
AskedOnlyWhenDue ==
  [][\A c \in Check :
       pc[c] = "loadRow" /\ pc'[c] = "moralis" /\ Live(c) /\ rowSeen[c] # None
       /\ "loadRow" \notin Failing
       => clock - rowSeen[c] >= Recheck - Budget]_vars

\* A replaced row loses at most the length of one check.
RowNearlyInOrder == [][row # None => row' # None /\ row' >= row - Budget]_vars

\* A token with a stored verdict is not hidden by an outage of Moralis or Redis.
KnownContractsAnswered ==
  \A c \in Check :
    /\ pc[c] = "return" /\ Live(c) /\ answer[c] = None
    /\ "loadRow" \notin Failing
    => rowSeen[c] = None

\* Every check comes to an end.
EveryCheckEnds == \A c \in Check : pc[c] # "idle" ~> pc[c] = "idle"

\* What the design document promises: Moralis is not asked again while
\* PostgreSQL holds a verdict younger than the recheck age.
AskedOnceARecheck ==
  [][\A c \in Check : pc[c] = "moralis" /\ pc'[c] = "saveRow" => row = None \/ Due(row)]_vars
=============================================================================
