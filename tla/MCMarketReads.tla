---------------------------- MODULE MCMarketReads ----------------------------
(* Two lookups of one token, concurrent and in succession, for TLC. *)
EXTENDS MarketReads, TLC

CONSTANTS k1

\* The catalogs seen by different lookups disagree about the token's ID.
RemappedKey == {(k1 :> 1), (k1 :> 2)}

AlwaysPriced == (1 :> {"priced"}) @@ (2 :> {"priced"})

RunSymmetry == Permutations(Run)
=============================================================================
