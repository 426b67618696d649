---------------------- MODULE MCPendingWithdrawalQueue ----------------------
(* Values for model checking PendingWithdrawalQueue. *)
EXTENDS PendingWithdrawalQueue

QueueCalls == Items \X (1..MaxTries)
QueueAmount == [c \in QueueCalls |-> 2]
QueueFee == [c \in QueueCalls |-> 1]
QueuePocket == [p \in Pockets |-> IF p = "PAYOUT" THEN 7 ELSE 0]
=============================================================================
