-------------------------- MODULE WalletWithdrawal --------------------------
(***************************************************************************)
(* The pockets of one wallet, transfers between them, and withdrawals to   *)
(* mobile money.                                                           *)
(*                                                                         *)
(* A call reads the wallet and checks the source pocket, then changes it   *)
(* in a database transaction of increments and decrements.  A withdrawal   *)
(* asks the provider for its float in between, and for the payout after    *)
(* the debit; when that request throws, the debit is reverted.  Calls on   *)
(* the same wallet interleave at every await.                              *)
(***************************************************************************)
EXTENDS Integers, FiniteSets, Functions

CONSTANTS
    Calls,         \* executions of the three endpoints
    AmountOf,      \* Calls -> the amount asked for
    FeeOf,         \* Calls -> the withdrawal fee (2%, or what the settings
                   \* hold, which may be any number)
    OpeningPocket, \* what the pockets hold at the start
    MaxDeaths      \* bound: crashes of the server process

Pockets == {"MAIN", "PAYIN", "PAYOUT"}

ASSUME WithdrawalAssumption ==
    /\ IsFiniteSet(Calls)
    /\ AmountOf \in [Calls -> Nat \ {0}]
    /\ FeeOf \in [Calls -> Int]
    /\ OpeningPocket \in [Pockets -> Nat]
    /\ MaxDeaths \in Nat

VARIABLES
    pocket,   \* balance, payin_balance, payout_balance
    counted,  \* payin_amount, payout_amount: what was moved in all
    call,     \* the executions
    row,      \* the EXTERNAL_WITHDRAW rows of the transactions table
    takenOut, \* calls with a PAYOUT_TO_WITHDRAW row
    record,   \* balances written down with each change
    payout,   \* what the provider holds for each call
    deaths,   \* crashes so far
    late,     \* history: calls that wrote a pocket changed since their check
    lost,     \* history: payouts accepted whose answer never came
    stranded  \* history: withdrawals cut between debit and payout or revert

wvars == <<pocket, counted, call, row, takenOut, record, payout, deaths,
           late, lost, stranded>>

Total(c) == AmountOf[c] + FeeOf[c]

\* Routes of transferInternalAdvanced, which refuses any other; transferInternal
\* knows the two between PAYIN and PAYOUT, and takes any other word as well.
AdvancedRoutes ==
    {<<"MAIN", "PAYIN">>, <<"MAIN", "PAYOUT">>, <<"PAYIN", "MAIN">>,
     <<"PAYIN", "PAYOUT">>, <<"PAYOUT", "PAYIN">>, <<"PAYOUT", "MAIN">>,
     <<"PAYOUT", "WITHDRAW">>}
InternalRoutes == {<<"PAYIN", "PAYOUT">>, <<"PAYOUT", "PAYIN">>}
Destinations == Pockets \cup {"WITHDRAW"}

NoCall == [pc |-> "idle", via |-> "direct", from |-> "PAYOUT",
           to |-> "WITHDRAW", seen |-> OpeningPocket, answer |-> "none"]
NoWithdrawal == [status |-> "NONE", ref |-> "local", orderId |-> FALSE]

Call == [pc : {"idle", "move", "take", "read", "funds", "debit", "pay",
               "revert", "done", "dead"},
         via : {"internal", "unknown", "advanced", "direct"},
         from : Pockets, to : Destinations,
         seen : [Pockets -> Int], answer : {"none", "success", "failure"}]
Withdrawal == [status : {"NONE", "PENDING", "FAILED", "SUCCESS"},
               ref : {"local", "provider"}, orderId : BOOLEAN]
Record == [of : Pockets, old : Int, new : Int, change : Int]
PayoutStatus == {"none", "ACCEPTED", "COMPLETED", "FAILED"}

WithdrawalTypeOK ==
    /\ pocket \in [Pockets -> Int]
    /\ counted \in [{"PAYIN", "PAYOUT"} -> Int]
    /\ call \in [Calls -> Call]
    /\ row \in [Calls -> Withdrawal]
    /\ takenOut \in SUBSET Calls
    /\ \A c \in Calls : record[c] \subseteq Record
    /\ payout \in [Calls -> PayoutStatus]
    /\ deaths \in Nat
    /\ late \in SUBSET Calls
    /\ lost \in SUBSET Calls
    /\ stranded \in SUBSET Calls

WithdrawalInit ==
    /\ pocket = OpeningPocket
    /\ counted = [p \in {"PAYIN", "PAYOUT"} |-> 0]
    /\ call = [c \in Calls |-> NoCall]
    /\ row = [c \in Calls |-> NoWithdrawal]
    /\ takenOut = {}
    /\ record = [c \in Calls |-> {}]
    /\ payout = [c \in Calls |-> "none"]
    /\ deaths = 0
    /\ late = {}
    /\ lost = {}
    /\ stranded = {}

Goto(c, pc) == call' = [call EXCEPT ![c].pc = pc]
Answer(c, answer) ==
    call' = [call EXCEPT ![c].pc = "done", ![c].answer = answer]

\* A write of c to some pockets came after another write to them.
MarkLate(c, ps) ==
    late' = IF \E p \in ps : pocket[p] # call[c].seen[p]
            THEN late \cup {c} ELSE late

(***************************************************************************)
(* The three endpoints: transferInternal, transferInternalAdvanced and     *)
(* processWithdrawal                                                       *)
(***************************************************************************)

\* The wallet is read; an inactive one, a bad amount, a route that is not
\* allowed, a missing phone number or a source pocket that is too small ends
\* the call.
Transfer(c, via, from, to) ==
    /\ call[c].pc = "idle"
    /\ <<from, to>> \in (IF via = "advanced" THEN AdvancedRoutes
                         ELSE InternalRoutes)
    /\ \/ /\ pocket[from] >= AmountOf[c]
          /\ call' = [call EXCEPT
                        ![c] = [pc |-> IF to = "WITHDRAW" THEN "take"
                                       ELSE "move",
                                via |-> via, from |-> from, to |-> to,
                                seen |-> pocket, answer |-> "none"]]
       \/ Answer(c, "failure")
    /\ UNCHANGED <<pocket, counted, row, takenOut, record, payout, deaths,
                   late, lost, stranded>>

\* transferInternal with a direction other than the two: the body of the
\* request is not validated, neither check applies, and the update takes the
\* branch of PAYOUT to PAYIN.
TransferUnknown(c) ==
    /\ call[c].pc = "idle"
    /\ \/ call' = [call EXCEPT
                     ![c] = [pc |-> "move", via |-> "unknown",
                             from |-> "PAYOUT", to |-> "PAYIN",
                             seen |-> pocket, answer |-> "none"]]
       \/ Answer(c, "failure")
    /\ UNCHANGED <<pocket, counted, row, takenOut, record, payout, deaths,
                   late, lost, stranded>>

Withdraw(c) ==
    /\ call[c].pc = "idle"
    /\ Goto(c, "read")
    /\ UNCHANGED <<pocket, counted, row, takenOut, record, payout, deaths,
                   late, lost, stranded>>

\* A database transaction fails: nothing is written, the call says so.
TransactionFails(c) ==
    /\ call[c].pc \in {"move", "take", "debit"}
    /\ Answer(c, IF call[c].pc = "debit" /\ call[c].via = "advanced"
                 THEN "success" ELSE "failure")
    /\ UNCHANGED <<pocket, counted, row, takenOut, record, payout, deaths,
                   late, lost, stranded>>

\* The total moved is counted for some of the routes only.
CountedFor(c, k) ==
    LET r == <<call[c].from, call[c].to>> IN
    CASE r = <<"PAYIN", "PAYOUT">> -> k = "PAYOUT"
      [] r \in {<<"PAYOUT", "PAYIN">>, <<"PAYIN", "MAIN">>} -> k = "PAYIN"
      [] OTHER -> FALSE

\* Mutant: the values that were read are written back, changed.
MoveAbsolute(c) ==
    LET from == call[c].from
        to == call[c].to
        new == [pocket EXCEPT ![from] = call[c].seen[from] - AmountOf[c],
                              ![to] = call[c].seen[to] + AmountOf[c]]
    IN
    /\ call[c].pc = "move"
    /\ pocket' = new
    /\ counted' = [k \in DOMAIN counted |->
                     counted[k] + IF CountedFor(c, k) THEN AmountOf[c] ELSE 0]
    /\ record' = [record EXCEPT ![c] =
         {[of |-> from, old |-> call[c].seen[from], new |-> new[from],
           change |-> -AmountOf[c]],
          [of |-> to, old |-> call[c].seen[to], new |-> new[to],
           change |-> AmountOf[c]]}]
    /\ Answer(c, "success")
    /\ MarkLate(c, {from, to})
    /\ UNCHANGED <<row, takenOut, payout, deaths, lost, stranded>>

\* From pocket to pocket: both change together, with two records that take
\* the old balance from the read and the new one from the update.
Move(c) ==
    LET from == call[c].from
        to == call[c].to
        new == [pocket EXCEPT ![from] = @ - AmountOf[c],
                              ![to] = @ + AmountOf[c]]
    IN
    /\ call[c].pc = "move"
    /\ pocket' = new
    /\ counted' = [k \in DOMAIN counted |->
                     counted[k] + IF CountedFor(c, k) THEN AmountOf[c] ELSE 0]
    /\ record' = [record EXCEPT ![c] =
         {[of |-> from, old |-> call[c].seen[from], new |-> new[from],
           change |-> -AmountOf[c]],
          [of |-> to, old |-> call[c].seen[to], new |-> new[to],
           change |-> AmountOf[c]]}]
    /\ Answer(c, "success")
    /\ MarkLate(c, {from, to})
    /\ UNCHANGED <<row, takenOut, payout, deaths, lost, stranded>>

\* PAYOUT to WITHDRAW: the amount leaves the pocket before processWithdrawal
\* is called, which takes it again.
TakeOut(c) ==
    LET new == [pocket EXCEPT !["PAYOUT"] = @ - AmountOf[c]] IN
    /\ call[c].pc = "take"
    /\ pocket' = new
    /\ takenOut' = takenOut \cup {c}
    /\ record' = [record EXCEPT ![c] =
         {[of |-> "PAYOUT", old |-> call[c].seen["PAYOUT"],
           new |-> new["PAYOUT"], change |-> -AmountOf[c]]}]
    /\ Goto(c, "read")
    /\ MarkLate(c, {"PAYOUT"})
    /\ UNCHANGED <<counted, row, payout, deaths, lost, stranded>>

(***************************************************************************)
(* processWithdrawal                                                       *)
(***************************************************************************)

\* What the endpoint answers when processWithdrawal refuses: the advanced
\* transfer does not look at its result.
Refused(c) == Answer(c, IF call[c].via = "advanced" THEN "success"
                        ELSE "failure")

\* Mutant: the fee is not part of what the pocket must hold.
ReadWalletIgnoringFee(c) ==
    /\ call[c].pc = "read"
    /\ \/ /\ pocket["PAYOUT"] >= AmountOf[c]
          /\ call' = [call EXCEPT ![c].pc = "funds", ![c].seen = pocket]
       \/ Refused(c)
    /\ UNCHANGED <<pocket, counted, row, takenOut, record, payout, deaths,
                   late, lost, stranded>>

\* The wallet is read again; too little for amount and fee, an inactive
\* wallet or a failed read ends it.
ReadPayoutBalance(c) ==
    /\ call[c].pc = "read"
    /\ \/ /\ pocket["PAYOUT"] >= Total(c)
          /\ call' = [call EXCEPT ![c].pc = "funds", ![c].seen = pocket]
       \/ Refused(c)
    /\ UNCHANGED <<pocket, counted, row, takenOut, record, payout, deaths,
                   late, lost, stranded>>

\* checkAfribapayBalance throws, and getAfribapayBalance reads zero.
BalanceUnknown(c) == Refused(c)

\* getAfribapayBalance: the float is enough, or it is not, or is not known.
CheckProviderFunds(c) ==
    /\ call[c].pc = "funds"
    /\ Goto(c, "debit") \/ Refused(c) \/ BalanceUnknown(c)
    /\ UNCHANGED <<pocket, counted, row, takenOut, record, payout, deaths,
                   late, lost, stranded>>

\* One transaction: the pocket, payout_amount and the row, with the balance
\* before (as read) and after.  The reference of the row is made up locally; order_id is left empty.
Debit(c) ==
    LET new == [pocket EXCEPT !["PAYOUT"] = @ - Total(c)] IN
    /\ call[c].pc = "debit"
    /\ pocket' = new
    /\ counted' = [counted EXCEPT !["PAYOUT"] = @ + AmountOf[c]]
    /\ row' = [row EXCEPT ![c] = [status |-> "PENDING", ref |-> "local",
                                  orderId |-> FALSE]]
    /\ record' = [record EXCEPT ![c] = @ \cup
         {[of |-> "PAYOUT", old |-> call[c].seen["PAYOUT"],
           new |-> new["PAYOUT"], change |-> -Total(c)]}]
    /\ Goto(c, "pay")
    /\ MarkLate(c, {"PAYOUT"})
    /\ UNCHANGED <<takenOut, payout, deaths, lost, stranded>>

\* generateAfribapayToken throws before anything is asked of the provider.
NoToken(c) ==
    /\ call[c].pc = "pay"
    /\ Goto(c, "revert")
    /\ UNCHANGED <<pocket, counted, row, takenOut, record, payout, deaths,
                   late, lost, stranded>>

\* Mutant: a request that throws is taken for one that was accepted.
InitiatePayoutNoRevert(c) ==
    /\ call[c].pc = "pay"
    /\ \/ /\ payout' = [payout EXCEPT ![c] = "ACCEPTED"]
          /\ Answer(c, "success")
          /\ UNCHANGED lost
       \/ /\ payout' = [payout EXCEPT ![c] = "ACCEPTED"]
          /\ Answer(c, "success")
          /\ lost' = lost \cup {c}
       \/ /\ Answer(c, "success")
          /\ UNCHANGED <<payout, lost>>
    /\ UNCHANGED <<pocket, counted, row, takenOut, record, deaths, late,
                   stranded>>

\* Mutant: the debit is reverted when the answer is not yet a payment.
InitiatePayoutRevertsAccepted(c) ==
    /\ call[c].pc = "pay"
    /\ Goto(c, "revert")
    /\ payout' = [payout EXCEPT ![c] = "ACCEPTED"]
    /\ UNCHANGED <<pocket, counted, row, takenOut, record, deaths, late, lost,
                   stranded>>

\* initiateAfribapayPayout: accepted; accepted and the answer is lost, which
\* throws like a refusal; refused.
InitiatePayout(c) ==
    /\ call[c].pc = "pay"
    /\ \/ /\ payout' = [payout EXCEPT ![c] = "ACCEPTED"]
          /\ Answer(c, "success")
          /\ UNCHANGED lost
       \/ /\ payout' = [payout EXCEPT ![c] = "ACCEPTED"]
          /\ Goto(c, "revert")
          /\ lost' = lost \cup {c}
       \/ /\ Goto(c, "revert")
          /\ UNCHANGED <<payout, lost>>
    /\ UNCHANGED <<pocket, counted, row, takenOut, record, deaths, late,
                   stranded>>

\* The debit is undone and the row marked FAILED, together; the answer says
\* "initiated" all the same.
Revert(c) ==
    /\ call[c].pc = "revert"
    /\ pocket' = [pocket EXCEPT !["PAYOUT"] = @ + Total(c)]
    /\ counted' = [counted EXCEPT !["PAYOUT"] = @ - AmountOf[c]]
    /\ row' = [row EXCEPT ![c].status = "FAILED"]
    /\ Answer(c, "success")
    /\ UNCHANGED <<takenOut, record, payout, deaths, late, lost, stranded>>

\* The revert fails: it is logged and forgotten.
RevertFails(c) ==
    /\ call[c].pc = "revert"
    /\ stranded' = stranded \cup {c}
    /\ Answer(c, "success")
    /\ UNCHANGED <<pocket, counted, row, takenOut, record, payout, deaths,
                   late, lost>>

(***************************************************************************)
(* The provider (outside the repository), its webhook, and crashes         *)
(***************************************************************************)

ProviderPays(c) ==
    /\ payout[c] = "ACCEPTED"
    /\ \E s \in {"COMPLETED", "FAILED"} : payout' = [payout EXCEPT ![c] = s]
    /\ UNCHANGED <<pocket, counted, call, row, takenOut, record, deaths, late,
                   lost, stranded>>

\* handleAfribapayWebhook: by the provider's reference, or by the order id
\* (the row's own id, sent with the payout) in the order_id column.
FoundByWebhook(c) ==
    /\ row[c].status \in {"PENDING", "FAILED"}
    /\ row[c].ref = "provider" \/ row[c].orderId

\* updateTransactionStatus has no branch for EXTERNAL_WITHDRAW that touches
\* the wallet: only the row changes, when it is found.
PayoutWebhook(c) ==
    /\ payout[c] \in {"COMPLETED", "FAILED"}
    /\ row' = [row EXCEPT
                 ![c].status = IF ~FoundByWebhook(c) THEN @
                               ELSE IF payout[c] = "COMPLETED"
                                    THEN "SUCCESS" ELSE "FAILED"]
    /\ UNCHANGED <<pocket, counted, call, takenOut, record, payout, deaths,
                   late, lost, stranded>>

InProgress(c) == call[c].pc \notin {"idle", "done", "dead"}

\* The process dies: no call in progress goes on, none is picked up again.
Die ==
    /\ deaths < MaxDeaths
    /\ deaths' = deaths + 1
    /\ call' = [c \in Calls |-> IF InProgress(c)
                                THEN [call[c] EXCEPT !.pc = "dead"]
                                ELSE call[c]]
    /\ stranded' = stranded \cup
                     {c \in Calls : call[c].pc \in {"pay", "revert"}}
    /\ UNCHANGED <<pocket, counted, row, takenOut, record, payout, late, lost>>

ProcessWithdrawal(c) == ReadPayoutBalance(c) \/ CheckProviderFunds(c)
                        \/ Debit(c) \/ NoToken(c) \/ InitiatePayout(c)
                        \/ Revert(c)
                        \/ RevertFails(c)

WithdrawalNext ==
    \/ \E c \in Calls : \/ \E r \in AdvancedRoutes :
                              Transfer(c, "advanced", r[1], r[2])
                        \/ \E r \in InternalRoutes :
                              Transfer(c, "internal", r[1], r[2])
                        \/ TransferUnknown(c) \/ Withdraw(c)
                        \/ Move(c) \/ TakeOut(c)
                        \/ TransactionFails(c) \/ ProcessWithdrawal(c)
                        \/ ProviderPays(c) \/ PayoutWebhook(c)
    \/ Die

WithdrawalSpec == WithdrawalInit /\ [][WithdrawalNext]_wvars

(***************************************************************************)
(* Properties                                                              *)
(***************************************************************************)

Sum(S, value) == SumFunctionOnSet(value, S)
Debited == {c \in Calls : row[c].status \in {"PENDING", "SUCCESS"}}
Moved == {c \in Calls : /\ call[c].pc = "done" /\ call[c].answer = "success"
                        /\ CountedFor(c, "PAYOUT")}

\* Whatever interleaves, fails or dies, the pockets hold the opening total
\* less what the rows say was taken out: the whole of each withdrawal that
\* was not reverted, and each amount moved to the withdraw pipeline; and
\* payout_amount counts what left net of fees.
BooksBalance ==
    /\ Sum(Pockets, pocket) =
          Sum(Pockets, OpeningPocket) - Sum(takenOut, AmountOf)
             - Sum(Debited, [c \in Calls |-> Total(c)])
    /\ counted["PAYOUT"] = Sum(Debited \cup Moved, AmountOf)

\* Moves that no check went before.
Unchecked == {c \in Calls : /\ call[c].via = "unknown"
                            /\ call[c].answer = "success"}

\* Every write so far came on a check of the pocket as it was, and no fee of
\* the settings gives back more than the amount (its revert would take).
InOrder == late = {} /\ Unchecked = {} /\ \A c \in Calls : Total(c) >= 0

\* A pocket is overdrawn only after a call wrote it that had checked it before
\* another call's write, or that was let through with no check at all for its
\* unknown direction.
OverdrawnOnlyByLateWrites == InOrder => \A p \in Pockets : pocket[p] >= 0

\* The wallet stays debited for a payout the provider took, unless the
\* provider's answer was lost.
PayoutStaysDebited ==
    \A c \in Calls : payout[c] # "none" /\ c \notin lost
       => row[c].status \in {"PENDING", "SUCCESS"}

\* A withdrawal whose call is over and whose wallet stays debited was taken
\* by the provider, unless the process died or the revert failed.
DebitedIsTakenUnlessStranded ==
    \A c \in Debited \ stranded :
       ~InProgress(c) => payout[c] # "none"
=============================================================================
