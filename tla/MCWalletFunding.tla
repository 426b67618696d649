-------------------------- MODULE MCWalletFunding --------------------------
(* Values for model checking WalletFunding. *)
EXTENDS WalletFunding, TLC

CONSTANTS t1, t2, w1, h1, h2

OneWallet == [t \in Trx |-> w1]
OneAmount == [t \in Trx |-> 2]
OpeningOne == [w \in Wallets |-> 1]
Symmetric == Permutations(Handlers)
=============================================================================
