--------------------------- MODULE MCCardFunding ---------------------------
(* Values for model checking CardFunding. *)
EXTENDS CardFunding, TLC

CONSTANT k1

OneCard == [o \in Ops |-> k1]
SumTwo == [o \in Ops |-> 2]
OpSymmetry == Permutations(Fundings) \cup Permutations(Withdrawals)
=============================================================================
