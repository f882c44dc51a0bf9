----------------------------- MODULE MCProvider -----------------------------
(***************************************************************************)
(* What is done with the answers of the providers, on small instances:      *)
(* prices into Redis, transfers into PostgreSQL, and the comparison of the  *)
(* two market providers.  The three share neither state nor calls, so       *)
(* nothing is lost by letting one of them work (the scene) while the others *)
(* rest.                                                                    *)
(***************************************************************************)
EXTENDS PriceFetch, TransferHistory, MarketCompare

CONSTANTS t1, t2

VARIABLE scene

At(day, second, nano) == [day |-> day, second |-> second, nano |-> nano]

\* Around the epoch, ten digits of seconds (2001-09-09), a leap day, a new year.
MCInstants ==
  << At(-1, 86399, 5), At(0, 0, 0), At(11574, 6399, 999999999), At(11574, 6400, 0),
     At(19782, 86399, 120), At(20088, 1, 0) >>

\* Far in the future, were it to be trusted.
Stale == Envelope(MarketKey, At(20500, 0, 0), 0)
MCLeftovers ==
  { [Stale EXCEPT !.unixNano = NoTime],
    [Stale EXCEPT !.unixNano = UnixNano(At(20501, 0, 0))],
    [Stale EXCEPT !.key = "other"], [Stale EXCEPT !.hasID = FALSE],
    [Stale EXCEPT !.fetchedAt.day = 31, !.fetchedAt.month = 2] }

\* More instants than the clock shows, and time zones: the script trusts what the
\* Go side writes and orders it like the clock.
Samples ==
  {At(day, second, nano) : day \in {-24854, -366, -1, 0, 59, 11016, 19782, 24854},
                           second \in {0, 86399}, nano \in {0, 1, 500000000, 999999999}}
ASSUME EnvelopesAreTrusted ==
  LET written == [i \in Samples |-> Envelope(MarketKey, i, 0)]
  IN /\ \A i \in Samples : ValidEnvelope(written[i], MarketKey)
     /\ \A i \in {At(0, 0, 1), At(19782, 86399, 120)}, offset \in {-720, 330, 840} :
          ValidEnvelope(Envelope(MarketKey, i, offset), MarketKey)
     /\ \A i, j \in Samples : NotBefore(i, j)
          <=> CompareDecimals(written[i].unixNano, written[j].unixNano) # -1

T(key, block, way) == [key |-> key, block |-> block, way |-> way]
MCChains ==
  { << T(1, 1, "toAddress"), T(2, 1, "fromAddress"), T(3, 2, "both"), T(4, 2, "toAddress"),
       T(5, 3, "fromAddress") >>,
    << T(1, 1, "fromAddress"), T(2, 2, "fromAddress"), T(3, 2, "fromAddress"),
       T(4, 3, "both"), T(5, 3, "toAddress") >> }

vars == <<scene, priceVars, transferVars, compareVars>>

PriceScene    == scene = "price" /\ UNCHANGED <<scene, transferVars, compareVars>>
TransferScene == scene = "transfer" /\ UNCHANGED <<scene, priceVars, compareVars>>
CompareScene  == scene = "compare" /\ UNCHANGED <<scene, priceVars, transferVars>>

PriceRests    == PriceInit /\ cell = NoEnvelope
TransferRests == TransferInit /\ mined = 0 /\ chain = CHOOSE c \in MCChains : TRUE
CompareRests  == CompareInit /\ stage = [p \in Provider |-> "working"]

Init ==
  \/ scene = "price" /\ PriceInit /\ TransferRests /\ CompareRests
  \/ scene = "transfer" /\ PriceRests /\ TransferInit /\ CompareRests
  \/ scene = "compare" /\ PriceRests /\ TransferRests /\ CompareInit

\* A comparison ends, the other two go on for ever.
CompareOver ==
  /\ BothRead /\ expired /\ \A p \in Provider : stage[p] = "done"
  /\ UNCHANGED compareVars

Next ==
  \/ PriceScene /\ PriceNext
  \/ TransferScene /\ TransferNext
  \/ CompareScene /\ (CompareNext \/ CompareOver)

Spec ==
  /\ Init /\ [][Next]_vars
  /\ \A w \in Fetcher : WF_vars(PriceScene /\ PriceStep(w))
  /\ WF_vars(CompareScene /\ Respond)
=============================================================================
