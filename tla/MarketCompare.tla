--------------------------- MODULE MarketCompare ---------------------------
(***************************************************************************)
(* One comparison of the two market providers: two lookup goroutines, the   *)
(* progress slot each of them publishes into, and the request goroutine     *)
(* that answers when both are done or their common deadline has passed.     *)
(*                                                                          *)
(* A lookup is a run of MarketPipeline, here reduced to what it shows: it   *)
(* completes tokens in the slice it returns, calls its progress hook after  *)
(* each group of them, and returns at last, or hangs.  Slices are modelled  *)
(* by reference, Live being the slice a lookup is still writing to, so      *)
(* that sharing one would show.                                             *)
(***************************************************************************)
EXTENDS Naturals, Sequences

CONSTANTS
  Token,  \* the tokens of the portfolio
  Live,   \* the slice a lookup is writing to
  None    \* not read yet

Provider == {"cg", "cmc"}

\* The order in which merge is given the two slots.
ReadOrder == <<"cg", "cmc">>

\* Live and None are no slices.
ASSUME CompareAssumption ==
  /\ None # Live
  /\ \A slice \in SUBSET Token : slice # Live /\ slice # None

VARIABLES
  expired,   \* lookupCtx.Err() # nil
  stage,     \* where each lookup goroutine is
  result,    \* the tokens it has completed in its slice
  slot,      \* its progress slot: a slice, never the live one
  waiting,   \* the done channels the request goroutine still waits for
  reading,   \* it has left the select
  reply,     \* the slices it has read from the slots
  found,     \* history: what was completed before the deadline
  known      \* history: what was published before the deadline

lookups == <<stage, result, slot>>
request == <<waiting, reading, reply>>
history == <<found, known>>
compareVars == <<expired, lookups, request, history>>

Stages == {"working", "progress", "publish", "returned", "publishFinal", "close", "done"}

\* Neither a slot nor the reply ever shares the slice a lookup writes to.
CompareTypeOK ==
  /\ \A p \in Provider : slot[p] # Live /\ reply[p] # Live
  /\ expired \in BOOLEAN
  /\ stage \in [Provider -> Stages]
  /\ result \in [Provider -> SUBSET Token]
  /\ slot \in [Provider -> SUBSET Token]
  /\ waiting \in SUBSET Provider
  /\ reading \in BOOLEAN
  /\ reply \in [Provider -> (SUBSET Token) \cup {None}]
  /\ found \in [Provider -> SUBSET Token]
  /\ known \in [Provider -> SUBSET Token]

\* A provider that is not configured has its channel closed at once.
CompareInit ==
  /\ expired = FALSE
  /\ stage \in [Provider -> {"working", "done"}]
  /\ result = [p \in Provider |-> {}]
  /\ slot = [p \in Provider |-> {}]
  /\ waiting = Provider
  /\ reading = FALSE
  /\ reply = [p \in Provider |-> None]
  /\ found = [p \in Provider |-> {}]
  /\ known = [p \in Provider |-> {}]
-----------------------------------------------------------------------------
GoTo(p, next) == stage' = [stage EXCEPT ![p] = next]

\* What a slice holds now.
Value(p, slice) == IF slice = Live THEN result[p] ELSE slice

\* Mutation of Clone: the copy shares its elements with the original.
CloneShared(p, slice) == slice

Clone(p, slice) == Value(p, slice)

\* A cache tier or a provider batch completes tokens.
Complete(p) ==
  /\ stage[p] = "working"
  /\ \E more \in (SUBSET (Token \ result[p])) \ {{}} :
       /\ result' = [result EXCEPT ![p] = @ \cup more]
       /\ found' = IF expired THEN found ELSE [found EXCEPT ![p] = @ \cup more]
  /\ GoTo(p, "progress")
  /\ UNCHANGED <<expired, slot, request, known>>

\* The lookup returns: all is found, a call failed, or its ctx is done.
LookupReturns(p) ==
  /\ stage[p] = "working"
  /\ GoTo(p, "returned")
  /\ UNCHANGED <<expired, result, slot, request, history>>

\* Mutation of CheckDeadline: the hook publishes without looking at ctx.
CheckDeadlineSkipped(p) ==
  /\ stage[p] \in {"progress", "returned"}
  /\ GoTo(p, IF stage[p] = "progress" THEN "publish" ELSE "publishFinal")
  /\ UNCHANGED <<expired, result, slot, request, history>>

\* The hook, and the goroutine after the lookup, publish only on a live ctx.
CheckDeadline(p) ==
  /\ stage[p] \in {"progress", "returned"}
  /\ GoTo(p, IF stage[p] = "progress"
             THEN IF expired THEN "working" ELSE "publish"
             ELSE IF expired THEN "close" ELSE "publishFinal")
  /\ UNCHANGED <<expired, result, slot, request, history>>

\* The deadline may pass between the check and the publication.
Publish(p) ==
  /\ stage[p] \in {"publish", "publishFinal"}
  /\ slot' = [slot EXCEPT ![p] = Clone(p, Live)]
  /\ known' = IF expired THEN known ELSE [known EXCEPT ![p] = result[p]]
  /\ GoTo(p, IF stage[p] = "publish" THEN "working" ELSE "close")
  /\ UNCHANGED <<expired, result, request, found>>

Close(p) ==
  /\ stage[p] = "close"
  /\ GoTo(p, "done")
  /\ UNCHANGED <<expired, result, slot, request, history>>
-----------------------------------------------------------------------------
\* Mutation of LeaveLoop: the select is not repeated for the second channel.
LeaveLoopAtFirst(left) == TRUE

LeaveLoop(left) == left = {}

\* The select receives from a closed channel, which is then set to nil.
ReceiveDone(p) ==
  /\ ~reading /\ p \in waiting /\ stage[p] = "done"
  /\ waiting' = waiting \ {p}
  /\ reading' = LeaveLoop(waiting \ {p})
  /\ UNCHANGED <<expired, lookups, reply, history>>

\* Mutation of ReceiveDeadline: the select has no case for the deadline.
ReceiveDeadlineMissing == FALSE

\* The select receives from lookupCtx.Done().
ReceiveDeadline ==
  /\ ~reading /\ expired
  /\ reading' = TRUE
  /\ UNCHANGED <<expired, lookups, waiting, reply, history>>

Unread == {i \in DOMAIN ReadOrder : reply[ReadOrder[i]] = None}
BothRead == Unread = {}

\* The slots are read one after the other, each under its own mutex.  (The
\* deferred cancel finds both lookups done or the ctx done already.)
ReadSlot ==
  /\ reading
  /\ \E i \in Unread :
       /\ \A j \in Unread : i <= j
       /\ reply' = [reply EXCEPT ![ReadOrder[i]] =
                      Clone(ReadOrder[i], slot[ReadOrder[i]])]
  /\ UNCHANGED <<expired, lookups, waiting, reading, history>>

\* The budget is used up, or the client has gone.
Expire ==
  /\ ~expired
  /\ expired' = TRUE
  /\ UNCHANGED <<lookups, request, history>>

Respond == (\E p \in Provider : ReceiveDone(p)) \/ ReceiveDeadline \/ ReadSlot

CompareNext ==
  \/ \E p \in Provider : \/ Complete(p)
                         \/ LookupReturns(p)
                         \/ CheckDeadline(p)
                         \/ Publish(p)
                         \/ Close(p)
  \/ Respond
  \/ Expire

CompareSpec == CompareInit /\ [][CompareNext]_compareVars

\* The request goroutine is scheduled.  The lookups may hang.
FairCompareSpec == CompareSpec /\ WF_compareVars(Respond)
-----------------------------------------------------------------------------
\* The answer is given when the second slot has been read.
Answer == IF BothRead THEN [p \in Provider |-> Value(p, reply[p])] ELSE None

Promise == INSTANCE DeadlineAnswer WITH
  Source   <- Provider,
  Result   <- Token,
  found    <- found,
  known    <- known,
  finished <- {p \in Provider : stage[p] = "done"},
  expired  <- expired,
  answer   <- Answer

\* The goroutines, the race between check and publication, the two separate
\* reads and the late publications amount to one answer that holds all that was
\* published by the deadline, nothing completed after it, and never changes.
KeepsPromise == Promise!Spec

\* When both lookups finish within the budget nothing is left out: the final
\* results are published before the channels are closed.
AllInWhenInTime ==
  BothRead /\ ~expired => \A p \in Provider : Value(p, reply[p]) = result[p]

\* Once the deadline has passed, or both lookups are over, the request is
\* answered: a provider that hangs cannot hold back the answer of the other.
AlwaysAnswers == (expired \/ \A p \in Provider : stage[p] = "done") ~> BothRead
=============================================================================
