------------------------- MODULE MCWalletWithdrawal -------------------------
(* Values for model checking WalletWithdrawal. *)
EXTENDS WalletWithdrawal, TLC

AmountTwo == [c \in Calls |-> 2]
FeeOne == [c \in Calls |-> 1]
PayoutFour == [p \in Pockets |-> IF p = "PAYOUT" THEN 4 ELSE 2]
CallSymmetry == Permutations(Calls)
=============================================================================
