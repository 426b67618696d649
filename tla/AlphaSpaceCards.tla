-------------------------- MODULE AlphaSpaceCards --------------------------
(***************************************************************************)
(* One AlphaSpace card of a company and its USD wallet: funding the card,  *)
(* drawing on it, freezing, unfreezing and terminating it, taking a fee,   *)
(* and asking for a further card, which is never made.  Every request to   *)
(* the provider needs the token of AlphaSpaceToken first.  The card is     *)
(* used at AlphaSpace meanwhile, of which nothing here is told.            *)
(*                                                                         *)
(* Balances move by increments here; statuses, and the balance of a card   *)
(* that is terminated, are written as computed from an earlier read.  A    *)
(* request that is refused before it has changed anything is no step.      *)
(* One action below is the code between two awaits.                        *)
(***************************************************************************)
EXTENDS AlphaSpaceToken

CONSTANTS
    Amount,         \* what a funding or a withdrawal moves
    Fee,            \* what collectPaymentFee asks for
    OpeningWallet,  \* payin_balance of the company's USD wallet at the start
    OpeningCard,    \* what the card holds at the start, here and there
    MaxCalls,       \* bound: requests, and payments with the card
    MaxTroubles     \* bound: failed database calls, lost answers, expiries of
                    \* the token and crashes of the process, together

ASSUME AlphaSpaceAssumption ==
    /\ {Amount, Fee} \subseteq Nat \ {0}
    /\ {OpeningWallet, OpeningCard} \subseteq Nat
    /\ {MaxCalls, MaxTroubles} \subseteq Nat
    /\ IsFiniteSet(Handlers)

VARIABLES
    card,       \* Card.status and Card.balance
    provider,   \* the same of the card at AlphaSpace
    wallet,     \* payin_balance; balance always moves with it here
    op,         \* the requests: where they are and what they have done
    over,       \* what the requests that are over have done and answered
    cardFees,   \* fees taken from Card.balance, which AlphaSpace never sees,
                \* less what a termination writes off
    spent,      \* history: what was spent with the card
    returned,   \* history: what the card held when AlphaSpace terminated it
    refunded,   \* history: what terminations paid into the wallet
    disturbed,  \* history: the two copies of the card were put apart
    calls, troubles

avars == <<card, provider, wallet, op, over, cardFees, spent, returned,
           refunded, disturbed, calls, troubles, tvars>>

CardStatus == {"ACTIVE", "FROZEN", "TERMINATED"}
RowStatus == {"none", "PENDING", "SUCCESS", "FAILED"}
Managed == {"freeze", "unfreeze", "terminate"}
Money == {"fund", "withdraw", "fee"}
Kinds == Managed \cup Money \cup {"issue"}
Sources == {"card", "wallet", "debt"}
TokenSteps == {"verify", "call", "holder", "issue"}
Steps == TokenSteps \cup
    {"idle", "wallet", "balance", "initrow", "writecard", "credit", "complete",
     "fundrow", "log", "failrow", "refund", "refundrow", "status", "feecard",
     "feecardtake", "feecardrow", "feewallet", "feewallettake",
     "feewalletrow", "debt", "debtrow"}

\* there: AlphaSpace has carried it out; here: the card's row follows;
\* paid: the wallet has been credited; took: where the fee was taken from;
\* broken: a call failed that should not have.
Request == [call : Kinds \cup {"none"}, pc : Steps, seen : Int,
            row : RowStatus, there : BOOLEAN, here : BOOLEAN, paid : BOOLEAN,
            took : SUBSET Sources, broken : BOOLEAN]
Outcome == [call : Kinds, ok : BOOLEAN, row : RowStatus, there : BOOLEAN,
            paid : BOOLEAN, took : SUBSET Sources, broken : BOOLEAN]

Idle == [call |-> "none", pc |-> "idle", seen |-> 0, row |-> "none",
         there |-> FALSE, here |-> FALSE, paid |-> FALSE, took |-> {},
         broken |-> FALSE]

AlphaSpaceTypeOK ==
    /\ TokenTypeOK
    /\ card \in [status : CardStatus, balance : Int]
    /\ provider \in [status : CardStatus, balance : Nat]
    /\ wallet \in Int
    /\ op \in [Handlers -> Request]
    /\ over \subseteq Outcome
    /\ cardFees \in Int /\ spent \in Nat /\ returned \in Nat
    /\ refunded \in Int
    /\ disturbed \in BOOLEAN
    /\ calls \in 0..MaxCalls /\ troubles \in 0..MaxTroubles

AlphaSpaceInit ==
    /\ TokenInit
    /\ card = [status |-> "ACTIVE", balance |-> OpeningCard]
    /\ provider = card
    /\ wallet = OpeningWallet
    /\ op = [h \in Handlers |-> Idle]
    /\ over = {}
    /\ cardFees = 0 /\ spent = 0 /\ returned = 0 /\ refunded = 0
    /\ disturbed = FALSE
    /\ calls = 0 /\ troubles = 0

-----------------------------------------------------------------------------
Goto(h, pc) == op' = [op EXCEPT ![h].pc = pc]

Finish(h, r, ok) ==
    /\ op' = [op EXCEPT ![h] = Idle]
    /\ over' = over \cup {[call |-> r.call, ok |-> ok, row |-> r.row,
                           there |-> r.there, paid |-> r.paid,
                           took |-> r.took, broken |-> r.broken]}

\* Where an error leads from here: to the catch block of the withdrawal, to
\* the next source of the fee, or out of the request.
ErrorLeadsTo(r) ==
    IF r.call = "withdraw" /\ r.row # "none" THEN "failrow"
    ELSE IF r.pc \in {"feecard", "feecardtake", "feecardrow"} THEN "feewallet"
    ELSE IF r.pc \in {"feewallet", "feewallettake", "feewalletrow"} THEN "debt"
    ELSE "idle"

\* The request, in the form it has now, goes on after an error.
Fails(h, r) ==
    /\ disturbed' = (disturbed \/ (r.there /\ ~r.here))
    /\ IF ErrorLeadsTo(r) = "idle" THEN Finish(h, r, FALSE)
       ELSE /\ op' = [op EXCEPT ![h] = [r EXCEPT !.pc = ErrorLeadsTo(r)]]
            /\ UNCHANGED over

Trouble == troubles < MaxTroubles /\ troubles' = troubles + 1

money == <<card, provider, wallet, cardFees, spent, returned, refunded>>
ledger == <<over, disturbed, troubles>>

\* A database call of the request fails and has changed nothing.
DatabaseFails(h) ==
    /\ op[h].pc \in Steps \ (TokenSteps \cup {"idle", "failrow"})
    /\ Trouble
    /\ Fails(h, [op[h] EXCEPT !.broken = TRUE])
    /\ UNCHANGED <<money, calls, tvars>>

\* Two requests that write what each has read before the other wrote.
Conflicting(a, b) ==
    \/ {a, b} \subseteq Managed
    \/ "terminate" \in {a, b} /\ {a, b} \cap Money # {}

\* The checks of a request on the card; a new card may be asked for without
\* an amount, and then no balance is looked at.
FundingAllowed == card.status \notin {"FROZEN", "TERMINATED"}
WithdrawalAllowed == card.status \notin {"FROZEN", "TERMINATED"}
FreezeAllowed == card.status \notin {"FROZEN", "TERMINATED"}
UnfreezeAllowed == card.status = "FROZEN"
TerminateAllowed == card.status # "TERMINATED"

Allowed(call) ==
    /\ call = "fund" => FundingAllowed
    /\ call = "withdraw" => WithdrawalAllowed
    /\ call = "freeze" => FreezeAllowed
    /\ call = "unfreeze" => UnfreezeAllowed
    /\ call = "terminate" => TerminateAllowed

FirstStep(call) ==
    CASE call = "fund" -> "wallet"
      [] call = "withdraw" -> "balance"
      [] call \in Managed -> "call"
      [] call = "issue" -> "holder"
      [] call = "fee" -> "feecard"

Start(h, call) ==
    /\ op[h].pc = "idle"
    /\ calls < MaxCalls
    /\ calls' = calls + 1
    /\ Allowed(call)
    /\ op' = [op EXCEPT ![h] = [Idle EXCEPT !.call = call,
                                            !.pc = FirstStep(call),
                                            !.seen = card.balance]]
    /\ disturbed' = \/ disturbed
                    \/ \E g \in Handlers : op[g].call # "none"
                                           /\ Conflicting(call, op[g].call)
    /\ UNCHANGED <<money, over, troubles, tvars>>

\* A request that needs the token asks for it ...
AskToken(h) ==
    /\ op[h].pc \in TokenSteps
    /\ GetValidAccessToken(h)
    /\ UNCHANGED <<money, calls, ledger, op>>

\* ... and fails if its own login failed.
LoginRefused(h) ==
    /\ op[h].pc \in TokenSteps
    /\ ask[h] = "failed"
    /\ Reply(h, "no")
    /\ Fails(h, op[h])
    /\ UNCHANGED <<money, calls, troubles, token, authenticating, let_down>>

\* The request at pc may go to the provider, and gives its token up.
Calls(h, pc) ==
    /\ op[h].pc = pc
    /\ MayCall(h)
    /\ Reply(h, "no")
    /\ UNCHANGED <<token, authenticating, let_down, calls>>

\* AlphaSpace refuses, or cannot be reached.
ProviderRefuses(h) ==
    /\ \E pc \in {"verify", "call", "holder"} : Calls(h, pc)
    /\ Fails(h, op[h])
    /\ UNCHANGED <<money, troubles>>

\* What AlphaSpace is asked to do with the card; a terminated one is only
\* terminated again, and gives back what it holds.
Funded == [provider EXCEPT !.balance = @ + Amount]
Withdrawn == [provider EXCEPT !.balance = @ - Amount]
Frozen == [provider EXCEPT !.status = "FROZEN"]
Unfrozen == [provider EXCEPT !.status = "ACTIVE"]
Terminated == [status |-> "TERMINATED", balance |-> 0]
DetailsFromAlphaSpace == provider

\* AlphaSpace carries the call out; its answer may be lost.
CarriesOut(h, call, after, next) ==
    LET r == [op[h] EXCEPT !.there = TRUE]
    IN  /\ r.call = call
        /\ Calls(h, "call")
        /\ provider' = after
        /\ \/ /\ op' = [op EXCEPT ![h] = [r EXCEPT !.pc = next]]
              /\ UNCHANGED ledger
           \/ /\ Trouble
              /\ Fails(h, [r EXCEPT !.broken = TRUE])
        /\ UNCHANGED <<card, wallet, cardFees, spent, refunded>>

Alive == provider.status # "TERMINATED"

FundCardViaAlphaSpace(h) ==
    Alive /\ CarriesOut(h, "fund", Funded, "writecard") /\ UNCHANGED returned

WithdrawViaAlphaSpace(h) ==
    /\ Alive
    /\ provider.balance >= Amount
    /\ CarriesOut(h, "withdraw", Withdrawn, "writecard")
    /\ UNCHANGED returned

FreezeAlphaSpaceCard(h) ==
    Alive /\ CarriesOut(h, "freeze", Frozen, "status") /\ UNCHANGED returned

UnfreezeAlphaSpaceCard(h) ==
    Alive /\ CarriesOut(h, "unfreeze", Unfrozen, "status") /\ UNCHANGED returned

\* The balance read at the start decides whether there is a refund to pay.
TerminateAlphaSpaceCard(h) ==
    /\ CarriesOut(h, "terminate", Terminated,
                  IF op[h].seen > 0 THEN "refund" ELSE "status")
    /\ returned' = returned + provider.balance

CallProvider(h) ==
    \/ FundCardViaAlphaSpace(h) \/ WithdrawViaAlphaSpace(h)
    \/ FreezeAlphaSpaceCard(h) \/ UnfreezeAlphaSpaceCard(h)
    \/ TerminateAlphaSpaceCard(h)

(***************************************************************************)
(* fundCard and withdrawFromCard                                           *)
(***************************************************************************)
\* checkWalletBalance.  Nothing is reserved after it.
CheckWallet(h) ==
    /\ op[h].pc = "wallet"
    /\ IF wallet >= Amount THEN Goto(h, "call") /\ UNCHANGED over
                           ELSE Finish(h, op[h], FALSE)
    /\ UNCHANGED <<money, calls, disturbed, troubles, tvars>>

\* getCardForWithdrawal reads the card again, for its balance.
CheckBalance(h) ==
    /\ op[h].pc = "balance"
    /\ IF card.balance >= Amount THEN Goto(h, "verify") /\ UNCHANGED over
                                 ELSE Finish(h, op[h], FALSE)
    /\ UNCHANGED <<money, calls, disturbed, troubles, tvars>>

\* verifyAlphaSpaceBalance.
VerifyBalance(h) ==
    /\ Calls(h, "verify")
    /\ IF DetailsFromAlphaSpace.balance >= Amount
       THEN Goto(h, "initrow") /\ UNCHANGED over
       ELSE Finish(h, op[h], FALSE)
    /\ UNCHANGED <<money, disturbed, troubles>>

InitializeWithdrawalTransaction(h) ==
    /\ op[h].pc = "initrow"
    /\ op' = [op EXCEPT ![h].row = "PENDING", ![h].pc = "call"]
    /\ UNCHANGED <<money, calls, ledger, tvars>>

\* Mutant: the balance is written as it was read when the request began.
UpdateCardBalanceSeen(h) ==
    LET r == op[h]
    IN  /\ r.pc = "writecard"
        /\ card' = [card EXCEPT !.balance = IF r.call = "fund"
                                            THEN r.seen + Amount
                                            ELSE r.seen - Amount]
        /\ op' = [op EXCEPT ![h].here = TRUE,
                    ![h].pc = IF r.call = "fund" THEN "fundrow" ELSE "credit"]
        /\ UNCHANGED <<provider, wallet, cardFees, spent, returned, refunded,
                       calls, ledger, tvars>>

\* updateCardBalance, by an increment.
UpdateCardBalance(h) ==
    LET r == op[h]
    IN  /\ r.pc = "writecard"
        /\ card' = [card EXCEPT !.balance = IF r.call = "fund" THEN @ + Amount
                                                               ELSE @ - Amount]
        /\ op' = [op EXCEPT ![h].here = TRUE,
                    ![h].pc = IF r.call = "fund" THEN "fundrow" ELSE "credit"]
        /\ UNCHANGED <<provider, wallet, cardFees, spent, returned, refunded,
                       calls, ledger, tvars>>

CreateFundingTransaction(h) ==
    /\ op[h].pc = "fundrow"
    /\ op' = [op EXCEPT ![h].row = "SUCCESS", ![h].pc = "log"]
    /\ UNCHANGED <<money, calls, ledger, tvars>>

\* Mutant: the row is completed before the wallet is credited.
CompleteUnpaid(h) ==
    /\ op[h].pc = "credit"
    /\ op' = [op EXCEPT ![h].row = "SUCCESS", ![h].pc = "log"]
    /\ UNCHANGED <<money, calls, ledger, tvars>>

CreditWallet(h) ==
    /\ op[h].pc = "credit"
    /\ wallet' = wallet + Amount
    /\ op' = [op EXCEPT ![h].paid = TRUE, ![h].pc = "complete"]
    /\ UNCHANGED <<card, provider, cardFees, spent, returned, refunded,
                   calls, ledger, tvars>>

CompleteWithdrawalTransaction(h) ==
    /\ op[h].pc = "complete"
    /\ op' = [op EXCEPT ![h].row = "SUCCESS", ![h].pc = "log"]
    /\ UNCHANGED <<money, calls, ledger, tvars>>

\* The log of what succeeded is the last step, and can fail like any other.
LogSuccess(h, logged) ==
    /\ op[h].pc = "log"
    /\ op[h].call \in logged
    /\ Finish(h, op[h], TRUE)
    /\ UNCHANGED <<money, calls, disturbed, troubles, tvars>>

LogFundingSuccess(h) == LogSuccess(h, {"fund"})
LogWithdrawalSuccess(h) == LogSuccess(h, {"withdraw"})
LogCardManagementAction(h) == LogSuccess(h, Managed)

\* handleWithdrawalFailure; its own update may fail, which is caught.
HandleWithdrawalFailure(h) ==
    /\ op[h].pc = "failrow"
    /\ \/ Finish(h, [op[h] EXCEPT !.row = "FAILED"], FALSE) /\ UNCHANGED troubles
       \/ Finish(h, [op[h] EXCEPT !.broken = TRUE], FALSE) /\ Trouble
    /\ UNCHANGED <<money, calls, disturbed, tvars>>

(***************************************************************************)
(* freezeCard, unfreezeCard and terminateCard                              *)
(***************************************************************************)
\* processTerminationRefund: the balance read at the start is paid.
ProcessTerminationRefund(h) ==
    /\ op[h].pc = "refund"
    /\ wallet' = wallet + op[h].seen
    /\ refunded' = refunded + op[h].seen
    /\ op' = [op EXCEPT ![h].paid = TRUE, ![h].pc = "refundrow"]
    /\ UNCHANGED <<card, provider, cardFees, spent, returned, calls, ledger,
                   tvars>>

RefundTransaction(h) ==
    /\ op[h].pc = "refundrow"
    /\ Goto(h, "status")
    /\ UNCHANGED <<money, calls, ledger, tvars>>

\* A terminated card has no balance, and what it lacked is written off.
UpdateLocalCardStatus(h) ==
    /\ op[h].pc = "status"
    /\ card' = CASE op[h].call = "freeze" -> [card EXCEPT !.status = "FROZEN"]
                 [] op[h].call = "unfreeze" -> [card EXCEPT !.status = "ACTIVE"]
                 [] op[h].call = "terminate" ->
                       [status |-> "TERMINATED", balance |-> 0]
    /\ cardFees' = IF op[h].call = "terminate" /\ card.balance < 0
                   THEN cardFees + card.balance ELSE cardFees
    /\ op' = [op EXCEPT ![h].here = TRUE, ![h].pc = "log"]
    /\ UNCHANGED <<provider, wallet, spent, returned, refunded, calls, ledger,
                   tvars>>

(***************************************************************************)
(* createCard                                                              *)
(***************************************************************************)
CreateCardholder(h) ==
    /\ Calls(h, "holder")
    /\ Goto(h, "issue")
    /\ UNCHANGED <<money, ledger>>

\* issueAlphaSpaceCard names axios, which card.issuance.service.ts does not
\* import: the call throws before anything is sent, and createCard fails.
IssueCard(h) ==
    /\ Calls(h, "issue")
    /\ Fails(h, op[h])
    /\ UNCHANGED <<money, troubles>>

(***************************************************************************)
(* collectPaymentFee                                                       *)
(***************************************************************************)
Took(h, source) ==
    op' = [op EXCEPT ![h].took = @ \cup {source},
             ![h].pc = IF source = "card" THEN "feecardrow"
                       ELSE IF source = "wallet" THEN "feewalletrow"
                       ELSE "debtrow"]

ReadFeeSource(h) ==
    /\ \/ /\ op[h].pc = "feecard"
          /\ Goto(h, IF card.balance >= Fee THEN "feecardtake"
                                            ELSE "feewallet")
       \/ /\ op[h].pc = "feewallet"
          /\ Goto(h, IF wallet >= Fee THEN "feewallettake" ELSE "debt")
    /\ UNCHANGED <<money, calls, ledger, tvars>>

TakeFeeFromCard(h) ==
    /\ op[h].pc = "feecardtake"
    /\ card' = [card EXCEPT !.balance = @ - Fee]
    /\ cardFees' = cardFees + Fee
    /\ Took(h, "card")
    /\ UNCHANGED <<provider, wallet, spent, returned, refunded, calls,
                   ledger, tvars>>

TakeFeeFromWallet(h) ==
    /\ op[h].pc = "feewallettake"
    /\ wallet' = wallet - Fee
    /\ Took(h, "wallet")
    /\ UNCHANGED <<card, provider, cardFees, spent, returned, refunded,
                   calls, ledger, tvars>>

CreatePaymentDebt(h) ==
    /\ op[h].pc = "debt"
    /\ Took(h, "debt")
    /\ UNCHANGED <<money, calls, ledger, tvars>>

\* recordFeeTransaction and logFeeDeduction.  When they fail, the fee that
\* was just taken counts as not taken, and the next source is tried.
RecordFee(h) ==
    /\ op[h].pc \in {"feecardrow", "feewalletrow", "debtrow"}
    /\ Finish(h, op[h], TRUE)
    /\ UNCHANGED <<money, calls, disturbed, troubles, tvars>>

-----------------------------------------------------------------------------
AwaitToken(h) == TokenStep(h) /\ UNCHANGED <<money, calls, ledger, op>>

Expire ==
    /\ Trouble
    /\ TokenExpires
    /\ UNCHANGED <<money, over, disturbed, op, calls>>

\* The process dies: the requests and the token are gone.
Crash ==
    /\ Trouble
    /\ ForgetToken
    /\ op' = [h \in Handlers |-> Idle]
    /\ disturbed' = \/ disturbed
                    \/ \E h \in Handlers : op[h].there /\ ~op[h].here
    /\ UNCHANGED <<money, over, calls>>

\* The holder pays with the card.
CardIsUsed ==
    \E n \in 1..provider.balance :
       /\ provider.status = "ACTIVE"
       /\ calls < MaxCalls
       /\ calls' = calls + 1
       /\ provider' = [provider EXCEPT !.balance = @ - n]
       /\ spent' = spent + n
       /\ UNCHANGED <<card, wallet, op, over, cardFees, returned, refunded,
                      disturbed, troubles, tvars>>

FundOrWithdraw(h) ==
    \/ CheckWallet(h) \/ CheckBalance(h) \/ VerifyBalance(h)
    \/ InitializeWithdrawalTransaction(h) \/ UpdateCardBalance(h)
    \/ CreateFundingTransaction(h) \/ CreditWallet(h)
    \/ CompleteWithdrawalTransaction(h) \/ HandleWithdrawalFailure(h)
    \/ LogFundingSuccess(h) \/ LogWithdrawalSuccess(h)

Manage(h) ==
    \/ ProcessTerminationRefund(h) \/ RefundTransaction(h)
    \/ UpdateLocalCardStatus(h) \/ LogCardManagementAction(h)

Issue(h) ==
    CreateCardholder(h) \/ IssueCard(h)

CollectFee(h) ==
    \/ ReadFeeSource(h) \/ TakeFeeFromCard(h) \/ TakeFeeFromWallet(h)
    \/ CreatePaymentDebt(h) \/ RecordFee(h)

GoesOn(h) ==
    \/ AskToken(h) \/ LoginRefused(h) \/ AwaitToken(h) \/ CallProvider(h)
    \/ ProviderRefuses(h) \/ FundOrWithdraw(h) \/ Manage(h) \/ Issue(h)
    \/ CollectFee(h)

AlphaSpaceNext ==
    \/ \E h \in Handlers : GoesOn(h) \/ DatabaseFails(h)
    \/ \E h \in Handlers, call \in Kinds : Start(h, call)
    \/ Expire
    \/ Crash
    \/ CardIsUsed

AlphaSpaceSpec == AlphaSpaceInit /\ [][AlphaSpaceNext]_avars

\* Node runs every continuation and timer, and a request to AlphaSpace is
\* answered or times out.
AlphaSpaceFairSpec ==
    AlphaSpaceSpec /\ \A h \in Handlers : WF_avars(GoesOn(h))

-----------------------------------------------------------------------------
\* Between AlphaSpace's step and the write of the copy.
UnderWay == {h \in Handlers : op[h].there /\ ~op[h].here}

\* The row of the card, the fees taken from it and the refunds account for
\* what AlphaSpace holds, what it gave back and what was spent with the card,
\* of which this program is not told: whatever fundings, withdrawals and fees
\* overlap, their increments add up, a termination pays its refund once, and
\* the status is the provider's, unless an answer or a write was lost, or a
\* termination, freezing or unfreezing overlapped another request on the card
\* (card.fund.service.ts:596, card.management.service.ts:246, :712).
AlphaCardFollowsProvider ==
    (~disturbed /\ UnderWay = {}) =>
        /\ card.status = provider.status
        /\ card.balance + cardFees + refunded
              = provider.balance + spent + returned

\* What a withdrawal or a fee did is what its row or its answer tells.  The
\* wallet is never credited for what AlphaSpace did not pay out; if nothing
\* failed, everything paid out is credited and the row says SUCCESS, and a
\* fee is taken from exactly one source.  A write that fails after the
\* deduction makes the cascade take the fee again (fee-management.service.ts:
\* 385-450), and a failing log makes a completed withdrawal FAILED
\* (card.withdraw.service.ts:150).
OutcomeIsTold ==
    \A o \in over :
        /\ o.call = "withdraw" =>
              /\ o.paid => o.there
              /\ o.row = "SUCCESS" => o.paid
              /\ ~o.broken => o.there = (o.row = "SUCCESS")
        /\ o.call = "fee" =>
              /\ ~o.broken => Cardinality(o.took) = 1 /\ o.ok
              /\ o.ok => o.took # {}

\* Every request ends: none waits for ever for the token of a login that
\* failed (alphaspace-auth.service.ts:87, isAuthenticating is reset in
\* finally).
RequestsEnd ==
    \A h \in Handlers : op[h].call # "none" ~> op[h].call = "none"
============================================================================
