---------------------------- MODULE MCReference ----------------------------
(***************************************************************************)
(* The two kinds of reference data, on small instances.  A coin catalog and *)
(* the token list share neither state nor calls, so nothing is lost by      *)
(* letting one of them work (the scene) while the other one rests.          *)
(***************************************************************************)
EXTENDS MarketCatalog, TokenList

CONSTANTS cx, cy, symA, symB, ta, tb

VARIABLE scene

\* Coins 1 and 3 share a contract; 2 is not usable and only takes up room on
\* the pages; 4 is the native one.
MCContractOf == [c \in Coin |-> CASE c \in {1, 3} -> cx [] c = 2 -> cy [] OTHER -> Native]
MCSymbolOf == [c \in Coin |-> IF c = 3 THEN symB ELSE symA]
MCFirstLists == {{2, 3, 4}, {1, 2, 3, 4}}
MCTokenLists == {<<[contract |-> cx, symbol |-> symA], [contract |-> cx, symbol |-> symB]>>,
                 <<[contract |-> Native, symbol |-> symA], [contract |-> cx, symbol |-> NoSymbol]>>}

\* ta and tb take turns, the native coin is not always listed, and the one entry
\* of a list may have no address.
MCLists == {[t \in {} |-> 0], [t \in {NoAddress} |-> 0],
            [t \in {NativeAddress, ta} |-> IF t = ta THEN 2 ELSE 4],
            [t \in {tb} |-> 0]}
MCPortfolios ==
  {<<[address |-> NativeAddress, raw |-> 1050, decimals |-> 3], [address |-> ta, raw |-> 70, decimals |-> 1]>>,
   <<[address |-> tb, raw |-> 1200, decimals |-> 4], [address |-> ta, raw |-> 5, decimals |-> 0]>>}

\* Far more balances than the portfolios hold.
ASSUME BalancesAreExact ==
  \A raw \in 0..1200, decimals \in 0..5 : Writes(ScaleBalance(raw, decimals), raw, decimals)

vars == <<scene, catalogVars, listVars>>

CatalogScene == scene = "catalog" /\ UNCHANGED <<scene, listVars>>
ListScene    == scene = "list" /\ UNCHANGED <<scene, catalogVars>>

Init ==
  \/ scene = "catalog" /\ CatalogInit /\ ListInit
  \/ /\ scene = "list" /\ ListInit
     /\ NewProcess /\ phase = "ready" /\ provider = "coingecko" /\ listed = Coin

Next == \/ CatalogScene /\ CatalogNext
        \/ ListScene /\ ListNext

Spec ==
  /\ Init /\ [][Next]_vars
  /\ WF_vars(CatalogScene /\ RefresherStep)
  /\ WF_vars(ListScene /\ ListStep)
  /\ \A f \in Filter : WF_vars(ListScene /\ FilterStep(f))
=============================================================================
