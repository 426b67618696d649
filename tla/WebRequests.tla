---------------------------- MODULE WebRequests ----------------------------
(***************************************************************************)
(* What the models of the company's own API share: the requests that are   *)
(* under way, each a record with a program counter, and the bounds of a    *)
(* check on the requests made and on the troubles met.                     *)
(***************************************************************************)
EXTENDS Naturals

CONSTANTS
    Requests,       \* requests that can be under way at once
    MaxCalls,       \* bound: requests, and changes made by hand
    MaxTroubles     \* bound: failed calls, crashes and restarts

ASSUME RequestsAssumption == MaxCalls \in Nat /\ MaxTroubles \in Nat

VARIABLES req, calls, troubles

Goto(r, pc) == req' = [req EXCEPT ![r].pc = pc]

\* A call to the database, the provider or the mail server fails, or the
\* process ends.
Trouble == troubles < MaxTroubles /\ troubles' = troubles + 1
=============================================================================
