-------------------------- MODULE MCMarketPipeline --------------------------
(* Lookups of two tokens, one after another, for TLC. *)
EXTENDS MarketPipeline, TLC

CONSTANTS k1, k2

\* Key k1 resolves to ID 1; the catalogs seen by different lookups disagree
\* about k2.  With BatchLimit 1 the first request takes two batches; in the
\* second one both keys share an ID.
RemappedKeys == {(k1 :> 1) @@ (k2 :> 2), (k1 :> 1) @@ (k2 :> 1)}

\* ID 1 is always covered, ID 2 is sometimes answered without data.
CoverageById == (1 :> {"priced", "capOnly"}) @@ (2 :> {"priced", "empty"})
=============================================================================
