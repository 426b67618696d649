-------------------------- MODULE MCCardLifecycle --------------------------
(* Values for model checking CardLifecycle together with SudoWebhooks. *)
EXTENDS SudoWebhooks, TLC

SlotSymmetry == Permutations(Handlers) \cup Permutations(Deliveries)
=============================================================================
