--------------------------- MODULE PortfolioTable ---------------------------
(***************************************************************************)
(* What "replaces the token snapshot in one transaction" promises of the    *)
(* tables, without saying how.  Portfolios are fetched, each at a time of   *)
(* its own.  A save puts the whole of one into the table, in place of whole *)
(* others, and names it the latest; nothing else changes the table, and no  *)
(* token is there twice.                                                    *)
(***************************************************************************)
EXTENDS Naturals

CONSTANTS
  Token,
  None,     \* nothing saved yet
  MaxTime   \* bound on the clock

VARIABLES
  clock,
  answered,  \* the tokens of the portfolio fetched at each time
  table,     \* rows: a token and the time it was fetched at
  latest     \* the portfolio saved last

vars == <<clock, answered, table, latest>>

Portfolio(t) == {[key |-> k, at |-> t] : k \in answered[t]}

Init ==
  /\ clock = 0
  /\ answered = [t \in 0..MaxTime |-> {}]
  /\ table = {}
  /\ latest = None

Tick ==
  /\ clock' = clock + 1
  /\ UNCHANGED <<answered, table, latest>>

Fetch ==
  /\ clock' = clock + 1
  /\ \E tokens \in SUBSET Token : answered' = [answered EXCEPT ![clock'] = tokens]
  /\ UNCHANGED <<table, latest>>

\* The portfolio of time t, not there yet, replaces those of the times in gone.
Save(t, gone) ==
  LET kept == {x \in table : x.at \notin gone}
  IN /\ t # latest
     /\ \A x \in table : x.at # t
     /\ \A x \in kept : x.key \notin answered[t]
     /\ table' = kept \cup Portfolio(t)
     /\ latest' = t
     /\ UNCHANGED <<clock, answered>>

Next ==
  \/ Tick
  \/ Fetch
  \/ \E t \in 0..clock, gone \in SUBSET (0..clock) : Save(t, gone)

Spec == Init /\ [][Next]_vars
=============================================================================
