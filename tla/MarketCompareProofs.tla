------------------------- MODULE MarketCompareProofs -------------------------
(***************************************************************************)
(* The answer of a comparison, for any number of tokens: it implements      *)
(* DeadlineAnswer, whatever the deadline meets.                             *)
(***************************************************************************)
EXTENDS MarketCompare, TLAPS

-----------------------------------------------------------------------------
\* What history records: before the deadline everything completed was found in
\* time, and after it nothing is added.
HistoryOK ==
  \A p \in Provider :
    /\ known[p] \subseteq slot[p] /\ slot[p] \subseteq found[p]
    /\ ~expired => found[p] = result[p]
    /\ stage[p] \in {"publish", "publishFinal"} => found[p] = result[p]
    /\ ~expired /\ stage[p] \in {"close", "done"} => known[p] = result[p]

\* The request goroutine goes on when both lookups are done or the deadline is
\* over, and what it has read lies between the two histories.
RequestOK ==
  /\ \A p \in Provider : p \notin waiting => stage[p] = "done"
  /\ reading => expired \/ waiting = {}
  /\ \A p \in Provider :
       reply[p] # None => /\ reading
                          /\ known[p] \subseteq reply[p]
                          /\ reply[p] \subseteq found[p]

Inv == CompareTypeOK /\ HistoryOK /\ RequestOK

\* The invariant holds of the first state.
LEMMA InitInv == CompareInit => Inv
  BY CompareAssumption DEF CompareInit, Inv, CompareTypeOK, HistoryOK, RequestOK, Stages, Provider

\* Cloning copies the value of a slice, so it shares nothing.
LEMMA CloneType ==
  ASSUME CompareTypeOK, NEW p \in Provider
  PROVE  /\ Clone(p, Live) = result[p]
         /\ \A slice \in SUBSET Token : Clone(p, slice) = slice
  BY CompareAssumption DEF Clone, Value

\* Reading a slot fills in one reply, and no other.
LEMMA ReadOne ==
  ASSUME CompareTypeOK, ReadSlot
  PROVE  \E p \in Provider : reply[p] = None /\ reply' = [reply EXCEPT ![p] = slot[p]]
<1>1. PICK i \in Unread : reply' = [reply EXCEPT ![ReadOrder[i]] =
                                      Clone(ReadOrder[i], slot[ReadOrder[i]])]
  BY DEF ReadSlot
<1>2. ReadOrder[i] \in Provider /\ reply[ReadOrder[i]] = None
  BY DEF Unread, ReadOrder, Provider
<1>3. slot[ReadOrder[i]] \in SUBSET Token
  BY <1>2 DEF CompareTypeOK
<1>4. Clone(ReadOrder[i], slot[ReadOrder[i]]) = slot[ReadOrder[i]]
  BY <1>2, <1>3, CloneType
<1>5. QED
  BY <1>1, <1>2, <1>4

\* Every step keeps every variable in its type; in particular nothing that was
\* published or read is the slice a lookup goes on writing to.
LEMMA TypeStep == CompareTypeOK /\ [CompareNext]_compareVars => CompareTypeOK'
<1> SUFFICES ASSUME CompareTypeOK, [CompareNext]_compareVars PROVE CompareTypeOK'
  OBVIOUS
<1> USE DEF lookups, request, history
<1>1. ASSUME NEW p \in Provider, Complete(p) PROVE CompareTypeOK'
  BY <1>1 DEF CompareTypeOK, Complete, GoTo, Stages
<1>2. ASSUME NEW p \in Provider, LookupReturns(p) PROVE CompareTypeOK'
  BY <1>2 DEF CompareTypeOK, LookupReturns, GoTo, Stages
<1>3. ASSUME NEW p \in Provider, CheckDeadline(p) PROVE CompareTypeOK'
  BY <1>3 DEF CompareTypeOK, CheckDeadline, GoTo, Stages
<1>4. ASSUME NEW p \in Provider, Publish(p) PROVE CompareTypeOK'
  BY <1>4, CloneType, CompareAssumption DEF CompareTypeOK, Publish, GoTo, Stages
<1>5. ASSUME NEW p \in Provider, Close(p) PROVE CompareTypeOK'
  BY <1>5 DEF CompareTypeOK, Close, GoTo, Stages
<1>6. ASSUME NEW p \in Provider, ReceiveDone(p) PROVE CompareTypeOK'
  BY <1>6 DEF CompareTypeOK, ReceiveDone, LeaveLoop
<1>7. CASE ReceiveDeadline
  BY <1>7 DEF CompareTypeOK, ReceiveDeadline
<1>8. CASE ReadSlot
  BY <1>8, ReadOne, CompareAssumption DEF CompareTypeOK, ReadSlot
<1>9. CASE Expire
  BY <1>9 DEF CompareTypeOK, Expire
<1>10. CASE UNCHANGED compareVars
  BY <1>10 DEF CompareTypeOK, compareVars
<1>11. QED
  BY <1>1, <1>2, <1>3, <1>4, <1>5, <1>6, <1>7, <1>8, <1>9, <1>10 DEF CompareNext, Respond

\* Every step keeps the histories on both sides of what is published.
LEMMA HistoryStep == CompareTypeOK /\ HistoryOK /\ [CompareNext]_compareVars => HistoryOK'
<1> SUFFICES ASSUME CompareTypeOK, HistoryOK, [CompareNext]_compareVars PROVE HistoryOK'
  OBVIOUS
<1> USE DEF lookups, request, history
<1>1. ASSUME NEW p \in Provider, Complete(p) PROVE HistoryOK'
  <2> SUFFICES ASSUME NEW q \in Provider
               PROVE  /\ known'[q] \subseteq slot'[q] /\ slot'[q] \subseteq found'[q]
                      /\ ~expired' => found'[q] = result'[q]
                      /\ stage'[q] \in {"publish", "publishFinal"} => found'[q] = result'[q]
                      /\ ~expired' /\ stage'[q] \in {"close", "done"} => known'[q] = result'[q]
    BY DEF HistoryOK
  <2>1. /\ known' = known /\ slot' = slot /\ expired' = expired
        /\ found[q] \subseteq found'[q]
        /\ ~expired => found'[q] = result'[q] \/ (found'[q] = found[q] /\ result'[q] = result[q])
    <3>1. PICK more \in SUBSET Token :
            /\ result' = [result EXCEPT ![p] = result[p] \cup more]
            /\ found' = IF expired THEN found
                        ELSE [found EXCEPT ![p] = found[p] \cup more]
      BY <1>1 DEF Complete
    <3>2. ~expired => found[p] = result[p]
      BY DEF HistoryOK
    <3>3. QED
      BY <1>1, <3>1, <3>2 DEF CompareTypeOK, Complete
  <2>2. CASE q = p
    <3>1. stage'[q] = "progress"
      BY <1>1, <2>2 DEF CompareTypeOK, Complete, GoTo
    <3>2. QED
      BY <2>1, <3>1 DEF HistoryOK
  <2>3. CASE q # p
    <3>1. stage'[q] = stage[q] /\ result'[q] = result[q] /\ found'[q] = found[q]
      BY <1>1, <2>3 DEF CompareTypeOK, Complete, GoTo
    <3>2. QED
      BY <2>1, <3>1 DEF HistoryOK
  <2>4. QED
    BY <2>2, <2>3
<1>2. ASSUME NEW p \in Provider, LookupReturns(p) PROVE HistoryOK'
  BY <1>2 DEF CompareTypeOK, HistoryOK, LookupReturns, GoTo
<1>3. ASSUME NEW p \in Provider, CheckDeadline(p) PROVE HistoryOK'
  BY <1>3 DEF CompareTypeOK, HistoryOK, CheckDeadline, GoTo
<1>4. ASSUME NEW p \in Provider, Publish(p) PROVE HistoryOK'
  BY <1>4, CloneType DEF CompareTypeOK, HistoryOK, Publish, GoTo
<1>5. ASSUME NEW p \in Provider, Close(p) PROVE HistoryOK'
  BY <1>5 DEF CompareTypeOK, HistoryOK, Close, GoTo
<1>6. CASE Respond
  <2>1. UNCHANGED <<expired, stage, result, slot, found, known>>
    BY <1>6 DEF Respond, ReceiveDone, ReceiveDeadline, ReadSlot
  <2>2. QED
    BY <2>1 DEF HistoryOK
<1>7. CASE Expire
  BY <1>7 DEF HistoryOK, Expire
<1>8. CASE UNCHANGED compareVars
  BY <1>8 DEF HistoryOK, compareVars
<1>9. QED
  BY <1>1, <1>2, <1>3, <1>4, <1>5, <1>6, <1>7, <1>8 DEF CompareNext

\* Once a slot is read no more is made known for it: a lookup that is done
\* publishes nothing, and after the deadline nothing counts as known.
LEMMA RequestStep == Inv /\ [CompareNext]_compareVars => RequestOK'
<1> SUFFICES ASSUME CompareTypeOK, HistoryOK, RequestOK, [CompareNext]_compareVars PROVE RequestOK'
  BY DEF Inv
<1> USE DEF lookups, request, history
<1>1. ASSUME NEW p \in Provider, Complete(p) PROVE RequestOK'
  BY <1>1 DEF CompareTypeOK, RequestOK, Complete, GoTo
<1>2. ASSUME NEW p \in Provider, LookupReturns(p) PROVE RequestOK'
  BY <1>2 DEF CompareTypeOK, RequestOK, LookupReturns, GoTo
<1>3. ASSUME NEW p \in Provider, CheckDeadline(p) PROVE RequestOK'
  BY <1>3 DEF CompareTypeOK, RequestOK, CheckDeadline, GoTo
<1>4. ASSUME NEW p \in Provider, Publish(p) PROVE RequestOK'
  BY <1>4 DEF CompareTypeOK, RequestOK, Publish, GoTo
<1>5. ASSUME NEW p \in Provider, Close(p) PROVE RequestOK'
  BY <1>5 DEF CompareTypeOK, RequestOK, Close, GoTo
<1>6. ASSUME NEW p \in Provider, ReceiveDone(p) PROVE RequestOK'
  BY <1>6 DEF CompareTypeOK, RequestOK, ReceiveDone, LeaveLoop
<1>7. CASE ReceiveDeadline
  BY <1>7 DEF CompareTypeOK, RequestOK, ReceiveDeadline
<1>8. CASE ReadSlot
  BY <1>8, ReadOne DEF CompareTypeOK, HistoryOK, RequestOK, ReadSlot
<1>9. CASE Expire
  BY <1>9 DEF CompareTypeOK, RequestOK, Expire
<1>10. CASE UNCHANGED compareVars
  BY <1>10 DEF RequestOK, compareVars
<1>11. QED
  BY <1>1, <1>2, <1>3, <1>4, <1>5, <1>6, <1>7, <1>8, <1>9, <1>10 DEF CompareNext, Respond

\* The invariant holds of every state that can be reached.
THEOREM Invariant == CompareSpec => []Inv
<1>1. Inv /\ [CompareNext]_compareVars => Inv'
  BY TypeStep, HistoryStep, RequestStep DEF Inv
<1>2. QED
  BY InitInv, <1>1, PTL DEF CompareSpec

\* The types, for any number of tokens: no goroutine ever shares a slice with
\* another one.
THEOREM TypeCorrect == CompareSpec => []CompareTypeOK
  BY Invariant, PTL DEF Inv

\* When both lookups end within the budget the answer leaves nothing out.
THEOREM CompleteInTime == CompareSpec => []AllInWhenInTime
<1>1. Inv => AllInWhenInTime
  <2> SUFFICES ASSUME Inv, BothRead, ~expired, NEW p \in Provider
               PROVE  Value(p, reply[p]) = result[p]
    BY DEF AllInWhenInTime
  <2>1. reply[p] # None
    BY DEF BothRead, Unread, ReadOrder, Provider
  <2>2. known[p] = result[p] /\ found[p] = result[p]
    BY <2>1 DEF Inv, HistoryOK, RequestOK
  <2>3. QED
    BY <2>1, <2>2, CompareAssumption DEF Inv, CompareTypeOK, RequestOK, Value
<1>2. QED
  BY <1>1, Invariant, PTL
-----------------------------------------------------------------------------
\* The answer given once the last slot is read.
LEMMA AnswerType ==
  Inv /\ BothRead => Answer = reply /\ reply \in [Provider -> SUBSET Token]
<1> SUFFICES ASSUME Inv, BothRead
             PROVE  Answer = reply /\ reply \in [Provider -> SUBSET Token]
  OBVIOUS
<1>1. \A p \in Provider : reply[p] # None
  BY DEF BothRead, Unread, ReadOrder, Provider
<1>2. reply \in [Provider -> SUBSET Token]
  BY <1>1 DEF Inv, CompareTypeOK
<1>3. \A p \in Provider : Value(p, reply[p]) = reply[p]
  BY <1>2, CompareAssumption DEF Value
<1>4. QED
  BY <1>2, <1>3 DEF Answer

\* The same of the next state.
LEMMA AnswerTypeNext ==
  (Inv /\ BothRead => Answer = reply /\ reply \in [Provider -> SUBSET Token])'
  BY AnswerType, PTL

\* What the lookups and the deadline do leaves the answer alone.
LEMMA AnswerKept ==
  ASSUME Inv, Inv', reply' = reply
  PROVE  Answer' = Answer
<1>1. BothRead' = BothRead
  BY DEF BothRead, Unread
<1>2. CASE BothRead
  BY <1>1, <1>2, AnswerType, AnswerTypeNext
<1>3. CASE ~BothRead
  BY <1>1, <1>3 DEF Answer
<1>4. QED
  BY <1>2, <1>3

\* A step of the code is a step of DeadlineAnswer, or none.
LEMMA StepKeepsPromise == Inv /\ Inv' /\ [CompareNext]_compareVars => [Promise!Next]_Promise!vars
<1> SUFFICES ASSUME Inv, Inv', [CompareNext]_compareVars PROVE Promise!Next \/ UNCHANGED Promise!vars
  OBVIOUS
<1> USE DEF lookups, request, history
<1> DEFINE Finished == {p \in Provider : stage[p] = "done"}
<1>1. ASSUME NEW p \in Provider, Complete(p)
      PROVE  Promise!Next \/ UNCHANGED Promise!vars
  <2>1. Finished' = Finished /\ p \notin Finished
    BY <1>1 DEF Inv, CompareTypeOK, Complete, GoTo
  <2>2. Answer' = Answer
    BY <1>1, AnswerKept DEF Complete
  <2>3. CASE expired
    BY <1>1, <2>1, <2>2, <2>3 DEF Complete, Promise!vars
  <2>4. CASE ~expired
    <3>1. Promise!Find(p)
      BY <1>1, <2>1, <2>2, <2>4 DEF Complete, Promise!Find
    <3>2. QED
      BY <3>1 DEF Promise!Next
  <2>5. QED
    BY <2>3, <2>4
<1>2. ASSUME NEW p \in Provider, LookupReturns(p) \/ CheckDeadline(p)
      PROVE  UNCHANGED Promise!vars
  <2>1. Finished' = Finished
    BY <1>2 DEF Inv, CompareTypeOK, LookupReturns, CheckDeadline, GoTo
  <2>2. UNCHANGED <<expired, reply, found, known>>
    BY <1>2 DEF LookupReturns, CheckDeadline
  <2>3. QED
    BY <2>1, <2>2, AnswerKept DEF Promise!vars
<1>3. ASSUME NEW p \in Provider, Publish(p)
      PROVE  Promise!Next \/ UNCHANGED Promise!vars
  <2>1. Finished' = Finished /\ p \notin Finished
    BY <1>3 DEF Inv, CompareTypeOK, Publish, GoTo
  <2>2. Answer' = Answer
    BY <1>3, AnswerKept DEF Publish
  <2>3. CASE expired
    BY <1>3, <2>1, <2>2, <2>3 DEF Publish, Promise!vars
  <2>4. CASE ~expired
    <3>1. found[p] = result[p]
      BY <2>4 DEF Inv, HistoryOK
    <3>2. Promise!MakeKnown(p)
      BY <1>3, <2>1, <2>2, <2>4, <3>1 DEF Publish, Promise!MakeKnown
    <3>3. QED
      BY <3>2 DEF Promise!Next
  <2>5. QED
    BY <2>3, <2>4
<1>4. ASSUME NEW p \in Provider, Close(p)
      PROVE  Promise!Next
  <2>1. Finished' = Finished \cup {p} /\ p \notin Finished
    BY <1>4 DEF Inv, CompareTypeOK, Close, GoTo
  <2>2. ~expired => known[p] = found[p]
    BY <1>4 DEF Inv, HistoryOK, Close
  <2>3. Answer' = Answer
    BY <1>4, AnswerKept DEF Close
  <2>4. Promise!Finish(p)
    BY <1>4, <2>1, <2>2, <2>3 DEF Close, Promise!Finish
  <2>5. QED
    BY <2>4 DEF Promise!Next
<1>5. ASSUME \/ \E p \in Provider : ReceiveDone(p)
             \/ ReceiveDeadline
             \/ UNCHANGED compareVars
      PROVE  UNCHANGED Promise!vars
  <2>1. UNCHANGED <<expired, stage, reply, found, known>>
    BY <1>5 DEF ReceiveDone, ReceiveDeadline, compareVars
  <2>2. QED
    BY <2>1, AnswerKept DEF Promise!vars
<1>6. CASE ReadSlot
  <2>1. ~BothRead /\ UNCHANGED <<expired, stage, found, known>> /\ reading
    BY <1>6 DEF ReadSlot, BothRead
  <2>2. Answer = None
    BY <2>1 DEF Answer
  <2>3. CASE BothRead'
    <3>1. Answer' = reply' /\ reply' \in [Provider -> SUBSET Token]
      BY <2>3, AnswerTypeNext
    <3>2. \A p \in Provider : known[p] \subseteq reply'[p] /\ reply'[p] \subseteq found[p]
      <4>1. \A p \in Provider : reply'[p] # None
        BY <2>3 DEF BothRead, Unread, ReadOrder, Provider
      <4>2. QED
        BY <2>1, <4>1 DEF Inv, RequestOK
    <3>3. expired \/ Finished = Provider
      BY <2>1 DEF Inv, RequestOK
    <3>4. Promise!Answer
      BY <2>1, <2>2, <3>1, <3>2, <3>3 DEF Promise!Answer
    <3>5. QED
      BY <3>4 DEF Promise!Next
  <2>4. CASE ~BothRead'
    BY <2>1, <2>2, <2>4 DEF Answer, Promise!vars
  <2>5. QED
    BY <2>3, <2>4
<1>7. CASE Expire
  <2>1. Answer' = Answer
    BY <1>7, AnswerKept DEF Expire
  <2>2. Promise!Expire
    BY <1>7, <2>1 DEF Expire, Promise!Expire
  <2>3. QED
    BY <2>2 DEF Promise!Next
<1>8. QED
  BY <1>1, <1>2, <1>3, <1>4, <1>5, <1>6, <1>7 DEF CompareNext, Respond

\* A comparison implements DeadlineAnswer: the answer holds everything that was
\* published by the deadline and nothing completed later, and never changes.
THEOREM Refinement == CompareSpec => KeepsPromise
<1>1. CompareInit => Promise!Init
  <2> SUFFICES ASSUME CompareInit PROVE Promise!Init
    OBVIOUS
  <2>1. Answer = None
    BY DEF CompareInit, Answer, BothRead, Unread, ReadOrder, Provider
  <2>2. QED
    BY <2>1 DEF CompareInit, Promise!Init
<1>2. QED
  BY <1>1, Invariant, StepKeepsPromise, PTL DEF CompareSpec, KeepsPromise, Promise!Spec
=============================================================================
