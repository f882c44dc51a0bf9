----------------------------- MODULE MarketReads -----------------------------
(***************************************************************************)
(* The lookup cascade with two history variables that remember what earlier *)
(* lookups answered, to state what successive requests see of one token.    *)
(***************************************************************************)
EXTENDS MarketPipeline

VARIABLES
  served,  \* newest fetch time an undisturbed lookup has answered with, 0 if none
  floor    \* for each run, the value of served when it began

readVars == <<vars, served, floor>>

ReadsInit ==
  /\ Init
  /\ served = [k \in Key |-> 0]
  /\ floor = [r \in Run |-> [k \in Key |-> 0]]

\* The run hands over its answer before its ctx is done.
AnswersNow(r) == Return(r) /\ ~cancelled[r]

ReadsNext ==
  /\ Next
  /\ served' = [k \in Key |->
       IF \E r \in Run : /\ AnswersNow(r)
                         /\ applied[r][k] # None
                         /\ applied[r][k].fetchedAt > served[k]
       THEN LET r == CHOOSE r \in Run : AnswersNow(r) IN applied[r][k].fetchedAt
       ELSE served[k]]
  /\ floor' = [r \in Run |-> IF pc[r] = "idle" /\ pc'[r] # "idle" THEN served
                             ELSE IF pc'[r] = "idle" THEN [k \in Key |-> 0]
                             ELSE floor[r]]

ReadsSpec == ReadsInit /\ [][ReadsNext]_readVars

\* As long as the saves that are tried succeed and a lookup takes less than half
\* the TTL, one that begins after another one answered never answers with an older
\* fetch, whatever slow savers, promotions, cut-off lookups, catalog changes,
\* expiring entries and restarts lie between the two.
ReadsNeverGoBack ==
  2 * Budget < TTL /\ Failing \cap {"saveStore", "saveCache", "promote"} = {} =>
    \A r \in Run : \A k \in Key :
      applied[r][k] # None => applied[r][k].fetchedAt >= floor[r][k]
=============================================================================
