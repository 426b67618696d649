# Verification of the Cartevo backend

TLA+ models of the parts of this NestJS backend that move money, the TLC
configurations that check them on small instances, and TLAPS proofs of what
matters most for instances of any size. The backend keeps company wallets,
funds them, moves money between them and pays out of them by mobile money
(Afribapay), issues and funds cards at a provider (Maplerad, AlphaSpace), and
admits the companies and people that use it. Paths below are under
`src/src/` of the repository.

The style is the same in all modules. The server is one Node process: code
runs undisturbed from one `await` to the next, and anything may happen at an
`await`. So **one action is the code between two awaits**; an execution (a
request, a cron run, a webhook handler) is a record with a program counter and
the values it has read; the database, the provider and the executions are the
variables. Variables called *history* in the modules record what happened
(who overlapped, whose answer was lost) so that a property can say when it
holds; no action reads them in a guard.

## 1. Inventory

| Component | State it keeps | Operations | What is hard about it |
|---|---|---|---|
| **Wallet funding** (`services/wallet/walletFunding.service.ts`, `updateTransactionStatus.ts`, `transactionStatus.ts`, `modules/webhook/webhook.service.afribapay.ts`, `modules/wallet/walletTransactions.service.ts`) | `Wallet.balance`, the FUND rows of `Transaction` | `fundWallet`; settling by webhook, by listing | independent handlers over one row, each 4-5 database calls; money is collected before the row exists; lost and repeated webhooks; the poller (`services/scheduler/walletFundingPoller.service.ts`) is a provider of no module and never runs |
| **Withdrawal and internal transfer** (`walletWithdrawal.service.ts`, `walletInternalTransfer.service.ts`) | the pockets `balance`, `payin_balance`, `payout_balance`, counters, rows, audit records | `processWithdrawal`, `transferInternal`, `transferInternalAdvanced`, payout webhook | check before a transaction, provider call after it, revert on an error; a direction nobody validates |
| **Pending withdrawal queue** (`pendingWithdrawalQueue.service.ts`, `withdrawalProcessor.service.ts`) | `PendingWithdrawal` rows | `addToQueue`, `processQueue` from cron and by hand | overlapping runs over snapshots, counting attempts, runs cut short |
| **Maplerad card funding and withdrawal** (`modules/maplerad/services/card.fund.service.ts`, `card.withdraw.service.ts`) | `Card.balance`, `Wallet.balance`, CARD rows | `fundCard`, `withdrawFromCard` | absolute writes of stale reads, errors returned and ignored, refund or keep |
| **Maplerad card issuance** (`card.issuance.service.ts`, `webhook-waiting.service.ts`) | cards, rows, customer mapping, listeners in memory | `issueRetailCard`, `waitForWebhook`, `notifyWebhookReceived`, `fallbackPolling` | the limit of cards is checked long before the card is stored; no notification arrives; polling adopts any card of the customer |
| **Maplerad card management** (`card.management.service.ts`) | `Card.status`, balances | freeze, unfreeze, terminate and refund | refund before the status is written |
| **Maplerad webhooks** (`controllers/webhook.controller.ts`, `maplerad-webhook.service.ts`, `webhook-security.service.ts`, `webhook-event-router.service.ts`, `handlers/*`) | none that a delivery reaches | verify, hand on, verify again | the second verification is not given the headers and refuses every delivery |
| **Sudo webhooks** (`modules/webhook/webhook.service.sudo.ts`) | rows, `Card.status`, `Wallet.balance` | payment, declined authorization, refund, card updated, card terminated | repeated deliveries, lookups and writes that fail one by one, a `Decimal` added to a number |
| **Maplerad sync** (`card.sync.service.ts`, `card.sync.transaction.service.ts`, `customer.sync.service.ts`) | cards, rows, mappings, sync metadata | sync of cards, transactions, customers | termination refund by whoever sees it first; a card is stored when it was not there a read ago; customers are matched by e-mail |
| **AlphaSpace cards** (`modules/alphaspace/services/card.*.service.ts`) | cards, wallets, rows | fund, withdraw, freeze, terminate, collect a fee; issuing, which always fails | reservations that only log; payments that are only logged and refunds from the local balance; a fee that cascades to a debt |
| **AlphaSpace authentication** (`alphaspace-auth.service.ts`) | token in memory | `authenticate`, `getValidAccessToken` | requests that wait for another's login |
| **AlphaSpace webhooks** (`webhook-security.service.ts`) | deliveries seen, in memory | deduplication, expiry | restart forgets |
| **Transfers between wallets, fees** (`walletTransferBetween.service.ts`, `transferFeeCalculation.service.ts`, `models/prisma/transactionFeeModel.ts`) | two balances, rows, records, fees, rates | `transferBetween`; choice of fee and rate; their administration | check outside the transaction; what was read may be gone; rates without sign or bound |
| **Wallet administration, deposit** (`modules/wallet/wallet.service.ts`, `wallet-test.service.ts`) | wallets | update, disable, delete, `depositToWallet`, `creditTestWallet` | two absolute writes with no transaction; a rollback to the balance read at the start |
| **Authentication and sessions** (`modules/auth`, `services/token-blacklist.service.ts`) | user's code, its expiry, blacklist in memory, claims in the token | login, code, reset, company, logout | one column for two purposes, stale claims |
| **Users, invitations, onboarding** (`modules/user`, `modules/company`, `modules/auth`) | status, step and KYC/KYB of users and companies | register, invite, accept, complete | several writes with no transaction; a second step the database refuses |
| **Provider router** (`services/providers/provider-router.service.ts`) | health and performance in memory | `routeOperation` with failover | repeats what may have succeeded |
| Mode restriction, models and schema, customers, mail, controllers | | | supporting; see section 7 |

How they interact: the queue calls `processWithdrawal`; so does
`transferInternalAdvanced`. The Afribapay webhook settles the rows of funding
and is meant to settle those of withdrawal. All wallet services write
`Wallet.balance` of the same rows, the card services as values computed from an
earlier read, the transfer services as increments. Card issuance waits for an
event that the Maplerad webhooks are to emit in the same process, which never
arrives, so that it always polls; it enrols customers through the customer
sync. Sync and management change the same cards as funding does, and the
webhooks of Sudo write the wallet that their refunds go to. A login depends on
the status of user and company that onboarding and its reviews write; the mode
in its token decides which limits funding applies.

What makes each correct: a wallet holds what was paid in, less what left it;
nothing is credited that was not paid; a row tells what the provider did; a
payout or card is paid for once; whatever is interrupted ends, is refunded or
can be told from the rest; a company has an owner and one wallet per currency;
what is approved was looked at; a code opens one session. Every hazard, at its line, is in `PROJECT.json`
under `hazards` with the properties that cover it.

## 2. Modules

| Module | Extends | Models |
|---|---|---|
| `WalletFunding` | | funding of wallets and the settling of its rows |
| `WalletWithdrawal` | | pockets of one wallet, transfers, withdrawals |
| `PendingWithdrawalQueue` | `WalletWithdrawal` | the queue, **composed** with the withdrawals it starts |
| `CardFunding` | | wallet, cards and provider while cards are funded and drawn on |
| `CardIssuance` | | issuing cards to one customer |
| `CardLifecycle` | | freezing, unfreezing, terminating and syncing Maplerad cards |
| `SudoWebhooks` | `CardLifecycle` | the webhooks of Sudo cards, **composed** with the refunds to the same wallet |
| `CardSync` | | customers, their mapping, and storing the provider's missing cards |
| `AlphaSpaceToken` | | the provider token all requests share |
| `AlphaSpaceCards` | `AlphaSpaceToken` | cards, wallet and fees at AlphaSpace, **composed** with the token they need |
| `Ledger` | | abstract: accounts that change only by entries booked whole |
| `WalletTransfers` | | transfers between wallets, fees, rates, deposits, test credits; **implements** `Ledger` |
| `WebRequests` | | the requests under way and the bounds that the next two share |
| `Sessions` | `WebRequests` | codes, passwords, tokens and their modes |
| `Onboarding` | `WebRequests` | registration, invitations, KYC and KYB, onboarding steps |
| `MC...` | the module | constants, symmetry sets |
| `SumLemmas` | | lemmas about sums over finite sets |
| `WalletProofs` | `WalletFunding`, `PendingWithdrawalQueue` | theorems about funding, withdrawals and the queue |
| `CardFundingAndSyncProofs` | `CardFunding`, `CardSync` | theorems about them |
| `CardIssuanceProofs` | `CardIssuance` | theorems about it |
| `CardLifecycleProofs` | `SudoWebhooks` | theorems about Maplerad and Sudo cards |
| `AlphaSpaceCardsProofs` | `AlphaSpaceCards` | theorems about it and its token |
| `WalletTransfersProofs` | `WalletTransfers` | theorems about it, and the refinement of `Ledger` |
| `AccessProofs` | `Sessions`, `Onboarding` | theorems about them |

Operators marked *Mutant* in the modules are wrong variants of the action
they precede (a dropped guard, a missing reset, a swapped outcome). No
specification uses them: each is put in the action's place to show that the
property it is listed with notices.

### WalletFunding
`trx` is the `Transaction` table (status, whether the provider's reference is
stored, the balances before and after), `wallet` the balances, `req` the
`fundWallet` calls, `provider` and `hooks` the collection at Afribapay and the
statuses it has announced, `job` the handler executions.
`fundWallet` is `FundCheck` (validation, fee, preproduction limit),
`FundCollect` (with `InitiateAfribapayCollect`, the provider's call; its answer
may be lost), `FundCreate`,
`FundSetReference`. A handler starts with `Webhook`, or with `ReadFetch` then
`ReadAnswered` when somebody lists the transactions, and goes through
`updateTransactionStatus`: `ReadInitial`, `WriteStatus` (with `MustCredit`, the
condition of line 122 with its catch-up), `ReadWallet`, `CreditWallet`,
`StampBalances`; `HandlerFails` is a model's error that is thrown,
`StatusCallFails` a status call without an answer, `Crash` the death of the
process. `WalletFundingPollerService` would be a third way in, every 30
seconds; no module of the application provides it, so that Nest never makes it
and its interval never fires. It is no part of the model: a row whose webhooks
are lost and that nobody lists stays PENDING, which is why `ListedRowSettles`
speaks of listed rows only.

### WalletWithdrawal
`pocket` and `counted` are the columns of the wallet, `row` the
EXTERNAL_WITHDRAW rows, `takenOut` and `record` the other rows and audit
records, `payout` the provider's side. `Transfer` is the checked read of both
transfer services. `TransferUnknown` is `transferInternal` with any other
direction: the controller takes its body as it is
(`wallet.controller.ts:326-343`), the balance is checked for two directions
only, and the update takes every other one for PAYOUT to PAYIN. `Move` is their
database transaction, `TakeOut` and `Refused`
the route to WITHDRAW, which debits and then starts a withdrawal of its own;
`Withdraw`, `ReadPayoutBalance`, `CheckProviderFunds`, `Debit`, `NoToken`,
`InitiatePayout` and `Revert` are `processWithdrawal`. `TransactionFails`,
`RevertFails` and `Die` are what can go wrong; `ProviderPays` and
`PayoutWebhook` what comes afterwards.

### PendingWithdrawalQueue
`item` is the table, `run` the executions of `processQueue` with the items
left of their snapshot, `faults` the writes that failed. `AddToQueue`,
`TakeSnapshot`, then for each item `BeginItem` (PROCESSING), `CheckFunds`
(the float; the attempt starts a call of `WalletWithdrawal`, whose actions then
interleave with everything else), `ResetItem`, `MarkOutcome`, and the catch
block `CatchFailure`. Its other half is inherited: an attempt is a pair
`<<item, n>>` in `Calls`.

### CardFunding
`wallet`, `card` and `onCard` (the provider's own balance) move through
`fundCard` (`ReadReserve`, `WriteReserve`, `FundAtProvider`,
`ReadFundedCard`, `WriteFundedCard`, `WriteFundedWallet`,
`CreateFundingRow`, or `ReadRefund` and `WriteRefund`) and `withdrawFromCard`
(`CheckCard`, `CreateWithdrawalRow`, `DrawAtProvider`, `ReadDrawnCard`,
`ReadDrawnWallet`, `WriteDrawnCard`, `WriteDrawnWallet`, `ReadCredit`,
`WriteCredit`, `UpdateWithSuccess` or `FailWithdrawal`). The model classes
return errors instead of throwing them and most results are ignored: `Fault`
goes on where the code goes on.

### CardIssuance
`op` are the executions of `issueRetailCard`, `held` the cards the customer has
had before, `made` and `order` the provider's cards and their age, `local` the
stored card of each issuance, `rows` its transactions, `enrolled` and `mapped`
the customer here and there. `ValidateRetailCardRequest` counts the customer's
cards against the limit (a count that fails reads as none); `ReadReserve` and
`WriteReserve` take the price; `LookUpCustomer`, `EnrolCustomer`,
`MapCustomer`, `SyncCustomers` are `ensureMapleradCustomer`; `CreateCard` asks
the provider; `LogCreation` writes the log before the listener exists.
`Listening` and `Resolve` are `waitForWebhook`. A delivery is `HandleWebhook`:
the controller verifies it by its headers, hands on the payload alone
(`webhook.controller.ts:175`), and `ProcessWebhookEvent`, which verifies it
again, refuses it; `Notified` is what the listener would have been told. So
each wait ends in `WaitTimesOut`; `PollCards`, `CompareCards` and `Adopt` are
`fallbackPolling` and `checkForNewCustomerCards`; `SaveCard`, `CreateFeeRow`,
`CreateFundingRow` finish; `ReadRefund` and `WriteRefund` undo.

### CardLifecycle
`card` is the local copy (status, balance), `provider` the card at Maplerad,
`wallet` the USD wallet, `fresh` the sync metadata of the company, `job` the
handler executions, `refunds` and `recorded` the TERMINATION_REFUND rows.
`FreezeCard`, `UnfreezeCard` and `TerminateCard` are `Begin` (read and check),
`AskProvider` or `ProviderRefuses`, for a termination with a balance
`RefundRead`, `RefundWrite`, `RefundRow`, then `UpdateLocalCardStatus`.
`syncCard` is `SyncCard`, `IsSyncNeeded`, `FetchCardFromMaplerad` (with
`IsCardNewlyTerminated` and the amount) or `GetCardFails`, the same three
refund steps, `ApplyCardChanges` and `UpdateSyncMetadata`; `HourPasses` makes
the metadata old. Two things of the code are worth knowing when reading it: the
updates that name a termination date are refused by the database, because the
cards table has no such column; and the sync pays refunds in cents (`Cents`).
`CardIsUsed` and `ProviderTerminates` are what happens at the provider; the
words it uses for a frozen and a terminated card are constants, since the code
looks for some that the declared type does not list, and the other way round.

### SudoWebhooks
`sudoCard` is the status of a card from the time before Maplerad, `statement`
and `closings` its rows, `hook` the deliveries being worked on, `acked` the
payments of which one was answered without an error, after which Sudo need not
repeat it. `ProcessSudoWebhook` reads card and customer;
`HandleTransactionCreated` and `HandleAuthorizationDeclined` (refunds differ
only in the type of the row) are `FindTransaction`, in which a lookup that
fails reads as "no such row", and `CreateTransaction`; `HandleCardUpdated`
writes a status, of which one is no value of the column;
`HandleCardTerminated`, `CreditTermination` and `CreateTerminationRow` pay out
what was left: its card update is refused, and `wallet.balance` is a `Decimal`,
so that adding a number appends its digits (`Append`). The wallet is the one of
`CardLifecycle`: the two run side by side in `card_lifecycle`.

### CardSync
`email` and `mapping` are the customers and the table of provider customers,
`enrolled`, `holder` and `shown`
the provider's customers, its cards and which of them it lists with a number,
`issuing` the cards an issuance has made and not stored, `rows` the table of
cards, `recent` the sync metadata, `job` the syncs. `syncCustomerCards` is
`SyncCustomerCards` (the mapping), `FetchCards` (an error is an empty list),
`ReadLocalCards`, `CreateMissingCard` for one card after the other, and
`FinishCards`; `syncCompanyCards` starts it for several customers at once.
`syncCustomers`, which two services hold with the same code, is
`SyncCustomers`, `AskCustomers` (an error ends it without a record),
`ReadLocalCustomers`, `SyncCustomerMappings` (`MapOneCustomer` or
`FailOneCustomer` for one after the other) and `RecordCustomers`; the lists of
customers and of cards start it (`FindAllByCompany`, `GetCompanyCards` and so
on), as does an enrolment that is refused (`SyncAlreadyEnrolled`).
`CreateCustomer` and `ChangeEmail` are `customer.service.ts`: an address is
unique in a company as it was typed, so that two customers may share one in
lower case, which is how the sync compares them.
`EnsureMapleradCustomer`, `MakeCard` and `StoreIssued` are what it meets of
`CardIssuance`; what it does to a stored card is `CardLifecycle`. The one
constraint on the table of cards is that `Card.number` is unique (`Taken`). A
sync stores the number as it is listed, base64 being no secret, or three stars
when it is not listed, and an issuance stores it in a token signed at the
second. So two syncs cannot store one card twice, an issuance and a sync can,
and of all cards without a listed number one has a place.

### AlphaSpaceToken and AlphaSpaceCards
`AlphaSpaceToken` is `getValidAccessToken`: a request with a fresh token goes
on, one logs in, the others wait for it and return whatever the token is then,
which is null after a failed login; the call then goes out with the token of
the environment. `AlphaSpaceCards` holds one token in front of every request
to the provider. `card` and `provider` are the card here and there, `wallet` the
company's wallet, `op` the requests, `over` what they have done and answered.
`CardIsUsed` is the holder paying with the card at AlphaSpace: the row is not
told, since the webhooks only log it, so that the row's balance drifts from the
card's by what was `spent`, and a termination refunds the row's. Each request is its checks
(`FundingAllowed` and the like), its token, its call (`FundCardViaAlphaSpace`,
`WithdrawViaAlphaSpace`, `FreezeAlphaSpaceCard` and so on, or
`ProviderRefuses`) and its writes.
Funding never debits the wallet, because confirming and rolling back a
reservation only log (`card.fund.service.ts:575`). `createCard` makes the
cardholder and then always fails: `card.issuance.service.ts:390` names `axios`,
which the file does not import, so that nothing is sent (`IssueCard`) and the
code after it is not reached. `Init` therefore has a card of an earlier row.
The fee of a
withdrawal goes to the card, the wallet or a debt. The webhook handlers only
log, bulk calls are loops over the single ones, and `AppModule` does not yet
import the module. `processDebtCollection` has no caller.

### Ledger and WalletTransfers
`Ledger` promises that accounts change only by entries: each request books at
most one, which takes its debit from one account and gives its credit to
another in a single step. `WalletTransfers` has `transferBetween` as the code
runs it: the reads of wallets, fee and rate, the check, then the database
transaction (`Post`), which reads nothing again. Meanwhile wallets are deleted,
disabled and updated, fees and rates are changed, a deposit writes its two
wallets one by one, and a test credit (`CreditTestWallet`) is written
before Maplerad is asked for it and taken back (`TestRollback`) by the balance
that was read before, when Maplerad refuses.
The fee is chosen by `CalculateFee`, and by `GetCurrencyPairFee` where there is
no active row. The code's own ideas of a fee are kept: a FIXED fee's value is not
used, a disabled fee of the pair is still charged, and USD to XAF without a
rate is one to one. Neither the tables nor the routes keep a rate or a
percentage from being 0 or negative (`company.controller.ts:335-440`,
`dto/company.dto.ts:1473`), and any user of a company may store one: `Rates`
and `Percentages` are of either sign. Of a direct rate of 0 the
transfer makes the amount itself (`walletTransferBetween.service.ts:115`); the
inverse of 0, which registration stores for most currencies
(`company.service.ts:192-196`), is infinite and the database refuses it; and at
a negative rate the destination loses what it should get. `depositToWallet` ignores the errors of its writes and adds
to a `Decimal` by appending digits; `createWallet` names a column the table
does not have and is always refused.

### Sessions
`user` is the row of one user: password hash and how often it was hashed, the
column that holds a login code or the token of a reset link, its status and
approvals. `inbox` and `links` are what was mailed, `tokens` the sessions with
the company and mode in their claims, `blacklist` the set in memory that a
restart forgets. A request is read, then writes: `Login`, `StoreCode`,
`MailCode`, `ClearCode` and so on are the code between two awaits of
`auth.service.ts`. Codes have six characters and links are signed tokens, so
neither passes for the other, but one column holds both. Membership and roles
of a user never change, since the database refuses their update and deletion
by a composite key; `registerWithInvitation` is always refused, and the token
of `acceptInvitation` names no mode.

### Onboarding
`companies` holds the rows with their step, wallets, prices and onboarding
steps, `users`, `members` and `roleRows` the people, `papers` the KYC and KYB
status with the documents handed in, `req` the requests. The transaction of
the registrations is commented out, so `CreateCompany`, `CreateUser`,
`ReadRole`, `CreateRole`, `CreateMember`, `CreateWallets` and `CreatePrices`
are actions, and `CutShort` and `Crash` may come between any two. A retry after
a registration that was cut short leaves a company without owner.
The second step, `registerBusinessInfo`, always ends at its first write
(`WriteBusinessInfo`): `country_of_operation`, which its DTO requires, goes into
the update of the company (`company.service.ts:606`), whose table has no such
column, the database refuses it and line 623 throws. What follows it, the
owner's step, wallets and prices, is not reached: only a company registered at
once has wallets. In the same way `completeKyb` is refused when it brings a
business registration number (`RefuseKyb`, line 1537), which is optional.
`completeKyc` concerns the first user of the company. A company
without onboarding steps is told that all of them are done. A person has one
identity number.

## 3. Runs

Passing runs:

| Run | Question and answer |
|---|---|
| `wallet_funding` | One funding, two handler slots, one webhook, one crash, any failing call. `CreditIsPaidFor`: no stale or repeated message credits what was not paid. `SuccessIsCredited`: a SUCCESS row was credited, is being credited or lost its handler. `CreditedOnceUnlessRaced`, `BalanceExactUnlessCrossed`: twice, or a wrong balance, only when executions overlap on the row or the wallet: the exact extent of the race in the code. `ListedRowSettles`: a row that goes on being listed settles, although webhooks are lost and status calls and updates fail. |
| `wallet_withdrawal` | Three calls of any kind and route, one crash. `BooksBalance`: pockets, rows and counters always add up. `OverdrawnOnlyByLateWrites`: an overdraft needs a call that wrote after its check was stale, or a direction nobody checks. `PayoutStaysDebited`, `DebitedIsTakenUnlessStranded`: debit and payout go together unless an answer was lost, a revert failed or the process died. |
| `withdrawal_queue` | One item, the cron and the manual run at once, four failing writes, a crash. `PaidOnceUnlessContended`: twice only when both runs had it or its outcome could not be stored. `WaitingIsServed`: every waiting item is served, or was shared or dropped by a run that was cut short. |
| `card_funding` | Two fundings and a withdrawal on one card, one failing database call, one crash. `WalletFollowsProvider`, `CardFollowsProvider`: undisturbed, the card is the provider's, a reservation stands for exactly the fundings that went through, and the wallet is credited for the withdrawals the provider carried out and for no other (each of them twice, see below). `RowTellsOutcome`. |
| `card_issuance` | Two issuances for a customer who is one or two cards below the limit, refused deliveries, one failing database call, one crash. `WalletPaysForAccepted`, `IssuedOrRefunded`; `AdoptedOnceUnlessTogether`: polling never stores one provider card twice, and `WithinLimitUnlessTogether`: the limit holds although it is checked long before the card is stored, both unless the issuances overlap; `IssuanceEnds`. |
| `card_lifecycle` | One Maplerad card, one Sudo card, two requests and two deliveries at a time, three in all, two moves of the provider, one failure, one crash. `RefundOnlyWhenTerminated`: nobody is refunded for a card that can still be used. `RefundedOncePerPath`: `terminateCard` refunds a card once whatever happens, the syncs together once unless they overlap or their update is refused. `RefundsReachWallet`: the wallet has what the rows say unless two refunds cross, one is cut short, or a Sudo termination has written over the balance. `StatementShowsPayments`: a payment Sudo was told of as taken is on the statement, and once unless two deliveries were worked on together or the lookup failed. |
| `card_sync` | Two syncs of cards or customers, two customers, who are created at any time, two cards, two addresses, one change of address, one failure or crash. `FoundIsStoredOnce`: a card that an undisturbed sync found is stored, unless its number is not listed and the one place for such cards is taken; it is stored twice only when a sync met its issuance or its holder at the provider has stood for two customers. `RecentMeansMapped`: while the metadata keeps further syncs away, every customer the provider knew is mapped, unless storing it failed. |
| `alphaspace_cards` | Three requests or payments, two requests at once, over one card, and the token they share; one failure or crash. `AlphaCardFollowsProvider`: the row of the card, the fees and the refunds account for what AlphaSpace holds, gave back and what was spent, unless a write failed, an answer was lost or two writes crossed. `OutcomeIsTold`: the row of a withdrawal and the answer to a fee tell what was done. `TokenlessOnlyAfterFailure`; `RequestsEnd`: nobody waits for a login for ever. |
| `wallet_transfers` | Two transfers, deposits or test credits, one change of wallets, fees or rates of either sign, one failure or crash. `OverdrawnTogetherOrByRate`: a negative balance needs two executions that overlapped, a balance that was set, a lost write, or a transfer that converted at a negative rate. `LastRowShowsBalance`: the newest row of a wallet shows its balance, unless two wrote it at once, a write was lost, or an administrator or a test credit set it; a test credit that was refused has left no trace. `TransfersAreBooked`: the detailed specification implements `Ledger`. |
| `sessions` | Two requests at a time, three mails, four calls, one failure or restart. `CodeOpensOnce`, `MailedCodeWorks`: a mailed code opens one session, and works until it is used or replaced. `ProdOnlyFromBefore`: a token in production mode without both approvals was read before one of them was withdrawn. |
| `onboarding` | Two people, two requests at a time of three, one failure or crash. `OwnerUnlessParted`, `AtOnceIsWhole`, `ApprovedWasReviewed`: a company without owner, one registered at once without its wallets and prices, or one approved on documents nobody saw, each comes only of the overlaps and failures its property names. |

One run ends in a violation (`findings` in `PROJECT.json`):

| Run | What it shows |
|---|---|
| `password_reset` | `auth.service.ts:686` "Password reset successfully": the password is hashed by the service and again by the model, and no login accepts it. |

Other places where code and comment or message part. They are no properties of
a run: most happen whenever the code is reached, and where a property has to do
with one, it is said how.

- `card.withdraw.service.ts:78`, "Full amount credited to wallet": the wallet
  is credited at line 417 (`WriteDrawnWallet`) and again at line 609
  (`WriteCredit`), of every withdrawal the provider carries out.
  `WalletFollowsProvider` counts the credits made and says for which
  withdrawals; it does not say that two are right.
- `walletFundingPoller.service.ts:14`, "Poll every 30 seconds": no module
  provides the service, and it never runs.
- `company.service.ts:742`, "Vous pouvez maintenant vous connecter": the second
  step of a registration is refused by the database at line 606
  (`WriteBusinessInfo`), its company gets no wallets and its step stays 1.
- AlphaSpace `card.management.service.ts:260`, "if card has remaining balance":
  what a termination refunds is the balance of the row (line 246), which
  payments with the card do not lower. A card that was spent is refunded in
  full; `AlphaCardFollowsProvider` has what was `spent` on its other side.
- `walletFunding.service.ts:430`, "Keep as pending until webhook confirms": the
  second write puts a row that a webhook has settled back to PENDING, one of
  the overlaps `CreditedOnceUnlessRaced` excepts.
- `walletWithdrawal.service.ts:214`, "until webhook updates": the webhook looks
  a payout up by a reference its row does not have; in every behaviour of
  `WalletWithdrawal` the row stays PENDING.
- `walletInternalTransfer.service.ts:398`, "Withdraw initiated successfully":
  answered when the withdrawal was refused and the pocket stays debited
  (`TakeOut`, `Refused`).
- `card.issuance.service.ts:1242`, "Card creation may still be processing": the
  placeholder is stored as an ACTIVE card with the full balance (`SaveCard`).
- `card.management.service.ts:262`, "Zero out balance after refund": the update
  is refused and the card stays open to a second refund, which
  `RefundedOncePerPath` counts by path.
- `wallet.service.ts:451`, "Use transaction to ensure atomicity": the deposit
  has none, which `LastRowShowsBalance` excepts.
- `company.service.ts:414`, "Use database transaction for atomicity": it is
  commented out, which is what `OwnerUnlessParted` is about.
- `webhook.controller.ts:191`, the answer says `processed: true`: the delivery
  was refused for want of the headers (`HandleWebhook`), and no listener of
  `CardIssuance` is ever told.
- `card.sync.transaction.service.ts:668`: the options of the read that is to
  find existing rows are passed as relations to include, which Prisma refuses,
  so that every transaction would count as new. Nothing calls that sync.

The double spending of two withdrawals (`walletWithdrawal.service.ts:154`), of
two fundings of cards (`card.fund.service.ts:303`) and of two transfers
(`walletTransferBetween.service.ts:118`) are the same kind of race; the models
reach them, and `OverdrawnOnlyByLateWrites`, the `overlapped` exception of
`WalletFollowsProvider` and `OverdrawnTogetherOrByRate` say exactly when. What
two issuances for one customer do to the limit and to the adopted card while
they overlap is excepted by `WithinLimitUnlessTogether` and
`AdoptedOnceUnlessTogether`, which hold of all the rest.

Each module has a type invariant. The one of `WalletFunding` is listed in its
run; those of the other modules hold in the same instances. All are proved for
any instance, as part of the invariants of section 4.

**Bounds.** `MaxWebhooks`: deliveries of Afribapay; one webhook beside two
listings is every kind of handler on one row, and a second one starts in the
same states as a listing does. `MaxCrashes`, `MaxDeaths`,
`MaxStops`: one crash, since after it all executions are gone and the state is
a start state again with other rows. `MaxFaults`: failing database calls; one
shows each single failure at each place, four use up the three attempts of a
queue item and one more. `MaxTries`: attempts of one item that reach the
wallet. `MaxCalls`, `MaxMoves`: what is done to one card
and what the provider does of its own accord; three and two let a termination,
a sync and a delivery of Sudo, or one delivery and its two repetitions, meet.
`CardLimit` is two instead of five, with one or none of them left at the start:
enough for two issuances to pass the count together, or one after the other.
`SudoBalance` has one digit, which is what `Append` appends. `MaxPolls`: polls before the placeholder; two show "found later" and
"never". `Handlers`, `Runs`, `Calls`, `Issues`, `Fundings`: executions that can
overlap; two show every race of a pair, and three calls on one wallet show a
race beside a third writer. `MaxMails`, `MaxTroubles`, `MaxChanges`,
`MaxCompanies`: a code, its replacement and a link; one failure or crash; one
change of address, enough for two to come to share one; a company
that is cut short, its retry and one more. `onboarding` also holds with four
calls, `card_sync` was searched with three syncs as far as time allows. Amounts are chosen so that a second or third
execution exceeds what is left. Symmetry is used only in runs without
liveness. Deadlock is not checked where all executions may simply be over.

**Fairness.** `wallet_funding`: Node runs each continuation (WF) and the
provider ends every collection; nobody has to list the transactions, and
`ListedRowSettles` speaks of rows that are listed again and again. Of
infinitely many status calls for one row some bring the state the collection
is in, and of the updates that follow those some are written (SF): neither the
provider nor the database fails for ever. `withdrawal_queue`: the cron job starts runs for ever, a run
goes on after each await, and the float is not short for ever.
`card_issuance`: Node runs continuations and timers; nothing is assumed of the
provider. `alphaspace_cards`: Node runs continuations, and a call to the
provider, which has a timeout, is answered or fails. `RequestsEnd` needs
nothing more, since the flag that makes others wait is cleared on every path.

**Refinement.** `TransfersAreBooked` is the specification of `Ledger` under
`Accounts <- Wallets`, `account <- ByTransfers`, `journal <- booked`:
`ByTransfers` is what transfers have made of each balance, that is, the balance
less the opening balance and less `apart`, where deposits, test credits and
administrators book what they do; `booked` holds the entry of each request. The
two increments, the two rows and their records in one `$transaction` (`Post`)
are one `Book` step of `Ledger`, with its debit and its credit; everything
before and after, deposits, test credits and administration are stutters, and
a step that changed a balance without accounting for it would be none.

## 4. Proofs

TLAPS checks each theorem below for any values of the constants that satisfy
the named assumption of the module: any number of executions, wallets, cards,
customers or companies, any amounts and any bounds.

| Module proved about | Theorem | States |
|---|---|---|
| `WalletFunding` | `TypeCorrect` | `TypeOK` |
| | `CreditsArePaidFor` | `CreditIsPaidFor` |
| | `SuccessesAreCredited` | `SuccessIsCredited` |
| | `CreditedAtMostOnceUnlessRaced` | `CreditedOnceUnlessRaced` |
| | `BalanceIsExact` | `BalanceExactUnlessCrossed` |
| `WalletWithdrawal` | `OnlyLateWritesOverdraw` | `OverdrawnOnlyByLateWrites` |
| | `TakenPayoutStaysDebited` | `PayoutStaysDebited` |
| | `DebitedIsTaken` | `DebitedIsTakenUnlessStranded` |
| | `BooksAlwaysBalance` | `BooksBalance` |
| `PendingWithdrawalQueue` | `QueueImplementsWithdrawal` | `QueueSpec => WithdrawalSpec` |
| | `ItemsArePaidOnce` | `PaidOnceUnlessContended` |
| `CardFunding` | `RowsTellOutcomes` | `RowTellsOutcome` |
| | `WalletFollows` | `WalletFollowsProvider` |
| | `CardsFollow` | `CardFollowsProvider` |
| `CardSync` | `FoundAreStoredOnce` | `FoundIsStoredOnce` |
| | `RecentAreMapped` | `RecentMeansMapped` |
| `CardIssuance` | `IssuancesAreWhole` | `IssuedOrRefunded` |
| | `AcceptedArePaid` | `WalletPaysForAccepted` |
| | `AdoptedOnce` | `AdoptedOnceUnlessTogether` |
| | `CardsWithinLimit` | `WithinLimitUnlessTogether` |
| `CardLifecycle`, `SudoWebhooks` | `RefundsFollowTermination` | `RefundOnlyWhenTerminated` |
| | `RefundsAreNotRepeated` | `RefundedOncePerPath` |
| | `RefundsAreReceived` | `RefundsReachWallet` |
| | `PaymentsAreShown` | `StatementShowsPayments` |
| `AlphaSpaceToken`, `AlphaSpaceCards` | `TokenlessHaveBeenLetDown` | `TokenlessOnlyAfterFailure` |
| | `OutcomesAreTold` | `OutcomeIsTold` |
| | `AlphaRowFollows` | `AlphaCardFollowsProvider` |
| `WalletTransfers` | `TransfersImplementLedger` | `TransfersAreBooked` |
| | `OverdrawnNeedsTwoOrARate` | `OverdrawnTogetherOrByRate` |
| | `RowsShowBalances` | `LastRowShowsBalance` |
| `Sessions` | `CodesOpenOnce` | `CodeOpensOnce` |
| | `MailedCodesWork` | `MailedCodeWorks` |
| | `ProdWasBefore` | `ProdOnlyFromBefore` |
| `Onboarding` | `OwnersUnlessParted` | `OwnerUnlessParted` |
| | `RegisteredAtOnceAreWhole` | `AtOnceIsWhole` |
| | `ApprovedWereReviewed` | `ApprovedWasReviewed` |

The type invariants of the modules are theorems too (`CardTypeCorrect`,
`SyncTypeCorrect`, `IssuanceTypeCorrect`, `CardsTypeCorrect`,
`AlphaSpaceTypeCorrect`, `AlwaysTInv`, `SessionsTypeCorrect`,
`OnboardingTypeCorrect`).

Hardly any of these is inductive: what it says depends on executions that are
under way and on what they have read. Each proof therefore has a first
invariant, of types and of what an execution holds at each step (`Stands`,
`Place`, `Fate`, `Proper`), and a second one that relates the state to the
executions. Both are proved over the actions one by one, one lemma per action
and part, and `PTL` makes the temporal step. Which relation it is:

- **WalletFunding.** `PaidInv`: every announcement, payload and handler that
  says COMPLETED says it of a collection that is COMPLETED at the provider.
  `CoveredInv`: a handler between the SUCCESS of the row and the credit is
  recorded as such, so that a row that is SUCCESS and not credited has its
  handler, or is in `abandoned`. `OnceInv`: on a row that was never raced at
  most one execution is at work (`Alone`), and its stage determines how many
  credits the row has had (`Stage`). `BalanceInv`: on a wallet that was not
  crossed, a handler about to write has read the balance as it is, and is the
  only one.
- **WalletWithdrawal.** `Checked`: as long as nobody wrote late or unchecked
  (`InOrder`), a call about to debit a pocket has found enough in it. `Stands`: where a call is decides whether its row is written
  and the provider has its payout; no webhook finds the row, which has neither
  reference nor order id. `Booked`: each write of a pocket moves one call into
  or out of the set whose amounts were taken, so that the sum over the set
  changes by what was written.
- **PendingWithdrawalQueue.** Every step of a run that touches the wallet, the
  rows or the provider is a step of a withdrawal (`QueueStepIsWithdrawalStep`),
  so that the theorems above hold of the withdrawals the queue makes.
  `QueueInv`: a withdrawal in progress is one a run waits for, and an item that
  no two runs had and whose outcome was stored (`Served`) is held by one run,
  is marked before the wallet is asked, and does not wait again once it is
  paid.
- **CardFunding.** `Fate`: the place of an execution tells whether the provider
  has carried it out. `WalletInv` and `CardInv`: undisturbed, whoever has read
  a balance and is to write it holds it as it is (`Held`, `HoldsCard`), and the
  balances differ from the provider's by what is on its way (`Charged`,
  `Unwritten`).
- **CardIssuance.** `Answered`: whether the provider has made the card follows
  from where the issuance is. `WalletInv` as above, with the price from its
  reservation until it is given back. `CardsInv`: two issuances under way are
  known to have overlapped, a card about to be adopted is stored by nobody
  else, and while nothing overlapped the one issuance under way has room.
- **CardLifecycle and SudoWebhooks.** `Grounds`: whoever is between the check
  and the refund works on a card the provider has terminated, which it stays.
  `TerminateInv`: only one termination gets there. `SyncInv`: once a sync has
  refunded, it is about to write the status, or everybody who works on the card
  knows it. `WalletInv`: the wallet is ahead of the rows by what has no row yet
  (`Owed`). `StatementInv`: a payment about to be stored is not stored.
- **CardSync.** `Stood`: whom a customer is mapped to, and the holder of a card
  that is being issued to it, has stood for it. `RowsInv`: so has the holder of
  a stored card, an unsigned row says what the provider shows, and a signed row
  beside it belongs to a card that was met in its issuance. `CardRun`: a card a
  sync is still to store has no signed row of the customer unless it was met,
  and one it is done with is stored. `CustomerRun`: while customers are being
  mapped, one the provider knew is still to come or mapped. All of it rests on
  what never goes back (`Grows`).
- **AlphaSpace.** `TokenInv`: the flag is up exactly while one request logs in,
  and a request that waits while nobody does finds a token or has been let
  down. `RequestInv`: what a request has done and written follows from where it
  is (`Place`, `Story`). `Together`: as long as nothing has put the copies
  apart, at most one order is on its way, the row lacks just what is due
  (`Owed`), and row, fees and refunds add up to what the card held, gave back
  and spent.
- **WalletTransfers.** The refinement is proved step by step: `Post` is a
  `Book` step of `Ledger`, a write of a deposit, test credit or administrator
  leaves balance less `apart` as it was, and the rest leaves the money alone
  (`SameMoneyKeepsLedger`). `OverdrawnInv` and `RowsInv`: on a wallet on which
  no two requests worked, what a request has read of it is what it holds, and
  only one request owes it a row; a balance that was checked stays at least 0
  but for a credit that is negative (`Drained`).
- **Sessions.** `Made`: a code being made is in no other request and has opened
  nothing. `Used`: only one request uses a code that is not disturbed, before
  it has opened anything. `MailInv`: a code that is neither replaced nor used
  is in the column or on its way there. `ModeInv`: a token in production mode
  says what the approvals are, or was read before one was withdrawn.
- **Onboarding.** `OwnerInv`: requests about one address overlap only when that
  is recorded (`Sole`), who signs up is not there yet (`SignsUp`), a user is in
  a company or about to be (`Settled`), and a company has someone in it or
  about to be (`Owned`). `AtOnceInv`, as long as nothing has failed: how far a
  registration at once has come tells what its company has (`AsFar`), only one
  registration works on it (`OnceEach`), its founder is in no company before,
  so that it is not ended by a membership that exists (`Furnishes`), and a
  company nobody works on has everything (`Whole`). `ApprovedWasReviewed` is
  inductive once types are known.

**Sums.** Balances are sums over the executions (`SumFunctionOnSet` of the
community modules). `SumLemmas` proves what the proofs need of them: that a sum
changes by what one summand changes, or by the summand of an element that comes
or goes, that it is a number, and that it leaves out zeros. An induction over
finite sets would need a theorem about every predicate; instead each lemma
takes a minimal counterexample, which exists because the subsets of a finite
set are well-founded (`MinimalSubset`).

**Assumptions.** Amounts are positive, balances and bounds are numbers, and the
values that stand for nothing (`NoTrx`, `NoCard`, `Nobody`) are none of the
things they stand for. `Trx`, `Calls`, `Fundings`, `Withdrawals`, `Issues`,
`Handlers` and `Customers` are finite where the model sums over them or counts
them: only finitely many requests are made and rows exist.
`FeeOf` may have any sign, since a fee of the settings may. `SudoAssumption` has the balance of one
digit that `Append` is about, and the words for frozen and terminated cards are
those the code compares with (`LifecycleAssumption`). A percentage of the
amount is a whole number (`TransfersAssumption`), as amounts are integers here,
and less than the amount, as the column of the percentage has one digit before
its point. Rates are any integers; the inverse of one is rounded as the column
rounds it.

**Only model-checked.** The liveness properties `ListedRowSettles`,
`WaitingIsServed`, `IssuanceEnds` and `RequestsEnd`: fairness and ENABLED are
outside what the provers reason about. That the password of a reset does not
work (`password_reset`) is a counterexample, which only TLC can give.

## 5. What the models leave out inside their components
Wording of answers, logs, notifications, the remembered phone numbers and
customer logs, none of which the modelled code reads back. Amounts are
integers: the `Decimal` columns and their rounding to two digits are not
modelled. An amount is a number: where the controller takes a body as it is,
a client may send a string, which JavaScript compares and adds differently;
that is not modelled. A database call is atomic, and a `$transaction` block is one action,
as PostgreSQL's default isolation makes increments commute. Provider calls may
be refused, carried out, or carried out with the answer lost.

## 6. Plan

Every safety property the runs check, and the refinement of `Ledger`, is
proved for any instance. What is left, in order of importance:

1. The safety half of the liveness properties, as theorems: that an issuance or
   a request to AlphaSpace that is not over can always take its next step
   without the provider (a state predicate in place of ENABLED), and that the
   measure by which it ends goes down.
2. More abstract specifications, beside `Ledger`: one of an item of the queue
   (waiting, in hand, paid or given up), of which the queue is the refinement
   that `PaidOnceUnlessContended` only samples.
3. `ProviderRouter`, once its calls are more than placeholders.

## 7. Not modelled, and why
Reads and listings change nothing, except where they start a sync. Mail and
push notifications are output; that a mail fails is modelled where it stops a
request. Controllers, DTOs and configuration have no state. The rate limit of
Maplerad's webhooks stands behind the verification no delivery passes, and so
do the router and its handlers. An administrator's `update-company` writes
any columns of a company by hand (`admin.controller.ts:264`), its step and
`kyb_status` among them: what the properties of `Onboarding` say is what holds
as long as nobody does. A developer's routes that simulate a delivery
are not part of the system. The code of a 3-D Secure authorization is only
passed on. The preproduction limit of customers is a count before a create.
The AlphaSpace webhooks only log, behind a memory of deliveries that protects
no state. Not reachable, and so no part of any
behaviour: `walletInternalTransfer.service.ts` from line 549, the transaction
sync and `syncCustomerMapping` of the Maplerad sync,
`WalletFundingPollerService`, what follows line 623 in `registerBusinessInfo`
and line 390 in the AlphaSpace `card.issuance.service.ts`,
`createWithdrawalTransactions` and `reverseLocalBalanceChanges` of the card
withdrawal, the bulk operations of AlphaSpace, `walletTransferBetween.controller.ts`,
`processDebtCollection`. Always refused: `createWallet` and `addBankingInfo`,
which name columns the tables do not have; `deleteUser`, `updateUser` with a
role, the role of `acceptInvitation`, which name a membership by a key it does
not have; `registerUser`, which names no user; `registerWithInvitation`, which
takes every user for one that exists already.
