------------------------- MODULE MCWalletTransfers -------------------------
(* A wallet in XAF and one in USD, and rates and fees of either sign.      *)
EXTENDS WalletTransfers, TLC
CONSTANTS xaf, usd, r1, r2

SomeRates == {-2, 0, 2}
SomePercentages == {-50, 50}
Negative == -1
RequestSymmetry == Permutations(Requests)
=============================================================================
