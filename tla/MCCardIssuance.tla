--------------------------- MODULE MCCardIssuance ---------------------------
(* Values for model checking CardIssuance. *)
EXTENDS CardIssuance, TLC
=============================================================================
