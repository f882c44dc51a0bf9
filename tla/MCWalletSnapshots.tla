------------------------- MODULE MCWalletSnapshots -------------------------
(* Overlapping requests for the snapshot of one wallet, for TLC. *)
EXTENDS WalletSnapshots, TLC

CONSTANTS native, usdc, dai

\* Two orders of the same tokens, one part of them, a portfolio that shares no
\* token with the others and the empty wallet.
OverlappingOrNot == {<<native, usdc>>, <<usdc, native>>, <<native>>, <<dai>>, <<>>}

\* Wallets that always hold the native token.
AlwaysNative == {<<native>>, <<native, usdc>>}

RequestSymmetry == Permutations(Request)
=============================================================================
