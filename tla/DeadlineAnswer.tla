--------------------------- MODULE DeadlineAnswer ---------------------------
(***************************************************************************)
(* What a comparison of providers promises, without saying how.  Several    *)
(* sources find results while a deadline runs; one answer is given, either  *)
(* when every source has finished or when the deadline has passed.  It      *)
(* holds everything a source had made known by the deadline, nothing found  *)
(* after it, and it never changes once given.                               *)
(***************************************************************************)
EXTENDS FiniteSets

CONSTANTS
  Source,   \* where results come from
  Result,   \* what can be found
  None      \* no answer yet

VARIABLES
  found,     \* by the deadline: the results each source has found
  known,     \* by the deadline: those it has made known
  finished,  \* the sources that have nothing more to find
  expired,   \* the deadline has passed
  answer     \* the results answered for each source

vars == <<found, known, finished, expired, answer>>

Init ==
  /\ found = [s \in Source |-> {}]
  /\ known = [s \in Source |-> {}]
  /\ finished \in SUBSET Source
  /\ expired = FALSE
  /\ answer = None

Find(s) ==
  /\ ~expired /\ s \notin finished
  /\ \E more \in SUBSET Result : found' = [found EXCEPT ![s] = @ \cup more]
  /\ UNCHANGED <<known, finished, expired, answer>>

MakeKnown(s) ==
  /\ ~expired /\ s \notin finished
  /\ known' = [known EXCEPT ![s] = found[s]]
  /\ UNCHANGED <<found, finished, expired, answer>>

\* A source that finishes in time has made everything known.
Finish(s) ==
  /\ s \notin finished
  /\ ~expired => known[s] = found[s]
  /\ finished' = finished \cup {s}
  /\ UNCHANGED <<found, known, expired, answer>>

Expire ==
  /\ ~expired
  /\ expired' = TRUE
  /\ UNCHANGED <<found, known, finished, answer>>

Answer ==
  /\ answer = None
  /\ expired \/ finished = Source
  /\ \E given \in [Source -> SUBSET Result] :
       /\ \A s \in Source : known[s] \subseteq given[s] /\ given[s] \subseteq found[s]
       /\ answer' = given
  /\ UNCHANGED <<found, known, finished, expired>>

Next ==
  \/ \E s \in Source : Find(s) \/ MakeKnown(s) \/ Finish(s)
  \/ Expire
  \/ Answer

Spec == Init /\ [][Next]_vars
=============================================================================
