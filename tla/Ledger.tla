------------------------------- MODULE Ledger -------------------------------
(***************************************************************************)
(* What transfers between wallets promise: each request books at most one  *)
(* entry, which takes its debit from one account and gives its credit to   *)
(* another in a single step, and accounts change in no other way.  A debit *)
(* is an amount; a credit is what a rate makes of it, and may be negative. *)
(***************************************************************************)
EXTENDS Integers

CONSTANTS
    Accounts,   \* wallets
    Requests    \* requests for a transfer, each made once

VARIABLES
    account,    \* what entries have made of each account, from 0
    journal     \* the entry of each request

lvars == <<account, journal>>

NoEntry == [from |-> "nobody", to |-> "nobody", debit |-> 0, credit |-> 0]
Entries == [from : Accounts, to : Accounts, debit : Nat \ {0},
            credit : Int]

LedgerTypeOK ==
    /\ account \in [Accounts -> Int]
    /\ journal \in [Requests -> Entries \cup {NoEntry}]

LedgerInit ==
    /\ account = [a \in Accounts |-> 0]
    /\ journal = [r \in Requests |-> NoEntry]

\* What entry e does to account a.
Effect(e, a) == (IF a = e.to THEN e.credit ELSE 0)
              - (IF a = e.from THEN e.debit ELSE 0)

Book(r, e) ==
    /\ e \in Entries
    /\ journal[r] = NoEntry
    /\ journal' = [journal EXCEPT ![r] = e]
    /\ account' = [a \in Accounts |-> account[a] + Effect(e, a)]

\* Some request books the entry that is its own from then on.
LedgerNext == \E r \in Requests : Book(r, journal'[r])

LedgerSpec == LedgerInit /\ [][LedgerNext]_lvars
=============================================================================
