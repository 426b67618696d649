--------------------------- MODULE WalletFunding ---------------------------
(***************************************************************************)
(* Funding of a wallet by mobile money (provider Afribapay).               *)
(*                                                                         *)
(* A request (fundWallet) asks the provider to collect the money, creates  *)
(* the PENDING transaction row and stores the provider's reference in a    *)
(* second write.  Two kinds of handlers then settle the row, each on its   *)
(* own and at any time: the provider's webhook, and the check made         *)
(* whenever transactions are listed.  Both end in updateTransactionStatus, *)
(* which is four or five separate database calls.  One action below is the *)
(* code between two awaits.  WalletFundingPollerService, which should ask  *)
(* for every PENDING row each 30 seconds, is a provider of no module of    *)
(* the application: its interval is never registered and it does not run.  *)
(***************************************************************************)
EXTENDS Integers, FiniteSets, Functions

CONSTANTS
    Trx,           \* funding attempts; each becomes at most one row
    Wallets,
    Handlers,      \* handler executions that may be in flight at one time
    NoTrx,         \* no transaction: what an idle handler works on
    WalletOf,      \* Trx -> Wallets
    Amount,        \* Trx -> amount the wallet is to receive
    Opening,       \* Wallets -> balance at the start
    Preprod,       \* TRUE when the user is in preprod mode
    PreprodLimit,  \* balance a preprod wallet may not exceed
    MaxWebhooks,   \* bound: webhook deliveries
    MaxCrashes     \* bound: crashes of the server process

ASSUME FundingAssumption ==
    /\ IsFiniteSet(Trx)
    /\ NoTrx \notin Trx
    /\ WalletOf \in [Trx -> Wallets]
    /\ Amount \in [Trx -> Nat \ {0}]
    /\ Opening \in [Wallets -> Nat]
    /\ Preprod \in BOOLEAN
    /\ PreprodLimit \in Nat
    /\ MaxWebhooks \in Nat
    /\ MaxCrashes \in Nat

VARIABLES
    wallet,     \* Wallet.balance
    trx,        \* the transactions table
    req,        \* the fundWallet call of each attempt
    provider,   \* what Afribapay holds for each attempt
    hooks,      \* statuses the provider has announced by webhook
    job,        \* the handler executions
    delivered,  \* webhook deliveries so far
    crashes,    \* crashes so far
    credits,    \* history: how often each row was added to its wallet
    raced,      \* history: rows on which two executions overlapped
    abandoned,  \* history: rows whose crediting handler died
    crossed     \* history: wallets that two handlers had read to credit

vars == <<wallet, trx, req, provider, hooks, job, delivered, crashes,
          credits, raced, abandoned, crossed>>
history == <<credits, raced, abandoned, crossed>>

RowStatus == {"PENDING", "SUCCESS", "FAILED", "EXPIRED"}
ProviderStatus == {"PENDING", "COMPLETED", "FAILED", "EXPIRED"}
\* NOTFOUND is an answer of the status call only; KEEP is `undefined`, the
\* value for which Prisma leaves the column alone.
PayloadStatus == ProviderStatus \cup {"SUCCESS", "NOTFOUND"}

NoRow == [status |-> "NONE", ref |-> FALSE, before |-> 0, after |-> 0]
NoJob == [pc |-> "idle", trx |-> NoTrx, via |-> "read",
          status |-> "PENDING", init |-> "NONE", bal |-> 0]

Row == [status : RowStatus \cup {"NONE"}, ref : BOOLEAN,
        before : Int, after : Int]
Job == [pc : {"idle", "read", "init", "update", "wallet", "credit", "stamp"},
        trx : Trx \cup {NoTrx}, via : {"webhook", "read"},
        status : PayloadStatus, init : RowStatus \cup {"NONE"}, bal : Int]
Request == [pc : {"idle", "checked", "collected", "created", "done", "error"},
            bal : Int]

TypeOK ==
    /\ wallet \in [Wallets -> Int]
    /\ trx \in [Trx -> Row]
    /\ req \in [Trx -> Request]
    /\ provider \in [Trx -> ProviderStatus \cup {"NONE"}]
    /\ hooks \in [Trx -> SUBSET ProviderStatus]
    /\ job \in [Handlers -> Job]
    /\ delivered \in Nat
    /\ crashes \in Nat
    /\ credits \in [Trx -> Nat]
    /\ raced \in SUBSET Trx
    /\ abandoned \in SUBSET Trx
    /\ crossed \in SUBSET Wallets

Init ==
    /\ wallet = Opening
    /\ trx = [t \in Trx |-> NoRow]
    /\ req = [t \in Trx |-> [pc |-> "idle", bal |-> 0]]
    /\ provider = [t \in Trx |-> "NONE"]
    /\ hooks = [t \in Trx |-> {}]
    /\ job = [h \in Handlers |-> NoJob]
    /\ delivered = 0
    /\ crashes = 0
    /\ credits = [t \in Trx |-> 0]
    /\ raced = {}
    /\ abandoned = {}
    /\ crossed = {}

InFlight(t) == {h \in Handlers : job[h].trx = t}
Exists(t) == trx[t].status # "NONE"

(***************************************************************************)
(* fundWallet                                                              *)
(***************************************************************************)

WithinPreprodLimit(t) ==
    Preprod => wallet[WalletOf[t]] + Amount[t] <= PreprodLimit

\* Validation, ownership, currency and the fee: a request that passes keeps
\* the wallet it read; one that does not ends with no effect.
FundCheck(t) ==
    /\ req[t].pc = "idle"
    /\ \/ /\ WithinPreprodLimit(t)
          /\ req' = [req EXCEPT
                       ![t] = [pc |-> "checked", bal |-> wallet[WalletOf[t]]]]
       \/ req' = [req EXCEPT ![t].pc = "error"]
    /\ UNCHANGED <<wallet, trx, provider, hooks, job, delivered, crashes,
                   history>>

\* The provider takes the collection in, and announces it.
InitiateAfribapayCollect(t) ==
    /\ provider' = [provider EXCEPT ![t] = "PENDING"]
    /\ hooks' = [hooks EXCEPT ![t] = @ \cup {"PENDING"}]

\* processAfribapayFunding: the provider accepts and answers 200; or it
\* accepts and the answer is lost; or it refuses.
FundCollect(t) ==
    /\ req[t].pc = "checked"
    /\ \/ /\ InitiateAfribapayCollect(t)
          /\ \E to \in {"collected", "error"} :
                req' = [req EXCEPT ![t].pc = to]
       \/ /\ req' = [req EXCEPT ![t].pc = "error"]
          /\ UNCHANGED <<provider, hooks>>
    /\ UNCHANGED <<wallet, trx, job, delivered, crashes, history>>

\* createFundingTransaction: both balances are the one read in FundCheck.
FundCreate(t) ==
    /\ req[t].pc = "collected"
    /\ \/ /\ trx' = [trx EXCEPT
                       ![t] = [status |-> "PENDING", ref |-> FALSE,
                               before |-> req[t].bal, after |-> req[t].bal]]
          /\ req' = [req EXCEPT ![t].pc = "created"]
       \/ /\ req' = [req EXCEPT ![t].pc = "error"]
          /\ UNCHANGED trx
    /\ UNCHANGED <<wallet, provider, hooks, job, delivered, crashes, history>>

\* The second write of fundWallet stores the reference, and PENDING again.
\* Its result is not looked at, so a failed write also ends the request.
FundSetReference(t) ==
    /\ req[t].pc = "created"
    /\ req' = [req EXCEPT ![t].pc = "done"]
    /\ \/ /\ trx' = [trx EXCEPT ![t].ref = TRUE, ![t].status = "PENDING"]
          /\ raced' = IF trx[t].status # "PENDING" \/ InFlight(t) # {}
                      THEN raced \cup {t} ELSE raced
       \/ UNCHANGED <<trx, raced>>
    /\ UNCHANGED <<wallet, provider, hooks, job, delivered, crashes, credits,
                   abandoned, crossed>>

(***************************************************************************)
(* The provider (outside the repository): a collection ends once, except   *)
(* that one reported FAILED may still be paid, which is why the webhook    *)
(* accepts rows that are FAILED.  Webhooks are announced for every status, *)
(* and may be lost, repeated, late or out of order.                        *)
(***************************************************************************)
ProviderSettles(t) ==
    /\ \/ /\ provider[t] = "PENDING"
          /\ \E s \in {"COMPLETED", "FAILED", "EXPIRED"} :
                /\ provider' = [provider EXCEPT ![t] = s]
                /\ hooks' = [hooks EXCEPT ![t] = @ \cup {s}]
       \/ /\ provider[t] = "FAILED"
          /\ provider' = [provider EXCEPT ![t] = "COMPLETED"]
          /\ hooks' = [hooks EXCEPT ![t] = @ \cup {"COMPLETED"}]
    /\ UNCHANGED <<wallet, trx, req, job, delivered, crashes, history>>

(***************************************************************************)
(* The two ways into updateTransactionStatus                               *)
(***************************************************************************)

Start(h, t, pc, via, status) ==
    /\ job[h].pc = "idle"
    /\ job' = [job EXCEPT ![h] = [pc |-> pc, trx |-> t, via |-> via,
                                  status |-> status, init |-> "NONE",
                                  bal |-> 0]]
    /\ raced' = IF InFlight(t) # {} THEN raced \cup {t} ELSE raced

End(h) == job' = [job EXCEPT ![h] = NoJob]

\* handleAfribapayWebhook: the row is found by its reference, or by the
\* order id when the payload carries one; no row is answered 404, and a row
\* that is neither PENDING nor FAILED is left alone.
Webhook(h, t, s) ==
    /\ delivered < MaxWebhooks
    /\ delivered' = delivered + 1
    /\ s \in hooks[t]
    /\ Exists(t)
    /\ trx[t].status \in {"PENDING", "FAILED"}
    /\ Start(h, t, "init", "webhook", s)
    /\ UNCHANGED <<wallet, trx, req, provider, hooks, crashes, credits,
                   abandoned, crossed>>

\* getWalletTransactions and getWalletTransactionById: every PENDING row is
\* checked; without a reference there is nothing to ask.
ReadFetch(h, t) ==
    /\ trx[t].status = "PENDING" /\ trx[t].ref
    /\ Start(h, t, "read", "read", "PENDING")
    /\ UNCHANGED <<wallet, trx, req, provider, hooks, delivered, crashes,
                   credits, abandoned, crossed>>

\* Mutant: an expired collection is taken for one still pending.
ReadAnsweredNoExpiry(h) ==
    /\ job[h].pc = "read"
    /\ \E answer \in {provider[job[h].trx], "NOTFOUND"} :
          IF answer \notin {"PENDING", "EXPIRED"}
          THEN job' = [job EXCEPT ![h].pc = "init", ![h].status = answer]
          ELSE End(h)
    /\ UNCHANGED <<wallet, trx, req, provider, hooks, delivered, crashes,
                   history>>

\* checkAndUpdatePendingWalletTransactionStatus: any answer but PENDING is
\* passed on, NOTFOUND included (the branch that turns it into FAILED is
\* never reached).
ReadAnswered(h) ==
    /\ job[h].pc = "read"
    /\ \E answer \in {provider[job[h].trx], "NOTFOUND"} :
          IF answer # "PENDING"
          THEN job' = [job EXCEPT ![h].pc = "init", ![h].status = answer]
          ELSE End(h)
    /\ UNCHANGED <<wallet, trx, req, provider, hooks, delivered, crashes,
                   history>>

\* The status call fails: the handler gives up and leaves the row as it is.
StatusCallFails(h) ==
    /\ job[h].pc = "read"
    /\ End(h)
    /\ UNCHANGED <<wallet, trx, req, provider, hooks, delivered, crashes,
                   history>>

(***************************************************************************)
(* updateTransactionStatus                                                 *)
(***************************************************************************)

\* Mutant: whatever is not a failure is a success.
NewStatusOptimistic(s) ==
    IF s \in {"FAILED", "EXPIRED"} THEN s ELSE "SUCCESS"

\* The status words it recognises; any other leaves the column as it is.
NewStatus(s) ==
    CASE s = "FAILED" -> "FAILED"
      [] s \in {"SUCCESS", "COMPLETED"} -> "SUCCESS"
      [] s = "EXPIRED" -> "EXPIRED"
      [] OTHER -> "KEEP"

ReadInitial(h) ==
    /\ job[h].pc = "init"
    /\ job' = [job EXCEPT ![h].pc = "update",
                          ![h].init = trx[job[h].trx].status]
    /\ UNCHANGED <<wallet, trx, req, provider, hooks, delivered, crashes,
                   history>>

\* Mutant: the mapped status is written even when it is undefined.
UpdatedAlways(h) ==
    [trx[job[h].trx] EXCEPT !.ref = TRUE, !.status = NewStatus(job[h].status)]

\* Mutant: only the reference is written.
UpdatedReferenceOnly(h) == [trx[job[h].trx] EXCEPT !.ref = TRUE]

\* The row as the update leaves it: status, and always the reference.
Updated(h) ==
    LET row == trx[job[h].trx]
        new == NewStatus(job[h].status)
    IN [row EXCEPT !.ref = TRUE,
                   !.status = IF new = "KEEP" THEN @ ELSE new]

\* A row that reads SUCCESS but whose two balances are still the same.
NeedsCatchUp(row) == row.status = "SUCCESS" /\ row.before = row.after

\* Mutant: only a row that was PENDING is credited.
MustCreditPending(h) ==
    NewStatus(job[h].status) = "SUCCESS" /\ job[h].init = "PENDING"

\* The decision to credit is taken on the status read before the update.
MustCredit(h) ==
    \/ NewStatus(job[h].status) = "SUCCESS" /\ job[h].init # "SUCCESS"
    \/ NeedsCatchUp(Updated(h))

WriteStatus(h) ==
    /\ job[h].pc = "update"
    /\ trx' = [trx EXCEPT ![job[h].trx] = Updated(h)]
    /\ IF MustCredit(h)
       THEN job' = [job EXCEPT ![h].pc = "wallet"]
       ELSE End(h)
    /\ UNCHANGED <<wallet, req, provider, hooks, delivered, crashes, history>>

\* Mutant: the balance is taken from the row, where the request put it.
ReadWalletFromRow(h) ==
    LET t == job[h].trx
        w == WalletOf[t]
    IN
    /\ job[h].pc = "wallet"
    /\ job' = [job EXCEPT ![h].pc = "credit", ![h].bal = trx[t].before]
    /\ crossed' = IF \E g \in Handlers : /\ job[g].pc = "credit"
                                         /\ WalletOf[job[g].trx] = w
                  THEN crossed \cup {w} ELSE crossed
    /\ UNCHANGED <<wallet, trx, req, provider, hooks, delivered, crashes,
                   credits, raced, abandoned>>

ReadWallet(h) ==
    LET w == WalletOf[job[h].trx] IN
    /\ job[h].pc = "wallet"
    /\ job' = [job EXCEPT ![h].pc = "credit", ![h].bal = wallet[w]]
    /\ crossed' = IF \E g \in Handlers : /\ job[g].pc = "credit"
                                         /\ WalletOf[job[g].trx] = w
                  THEN crossed \cup {w} ELSE crossed
    /\ UNCHANGED <<wallet, trx, req, provider, hooks, delivered, crashes,
                   credits, raced, abandoned>>

\* The new balance is computed from the one read, and written as a value.
CreditWallet(h) ==
    LET t == job[h].trx
        w == WalletOf[t]
    IN
    /\ job[h].pc = "credit"
    /\ wallet' = [wallet EXCEPT ![w] = job[h].bal + Amount[t]]
    /\ job' = [job EXCEPT ![h].pc = "stamp"]
    /\ credits' = [credits EXCEPT ![t] = @ + 1]
    /\ UNCHANGED <<trx, req, provider, hooks, delivered, crashes, raced,
                   abandoned, crossed>>

StampBalances(h) ==
    LET t == job[h].trx IN
    /\ job[h].pc = "stamp"
    /\ trx' = [trx EXCEPT ![t].before = job[h].bal,
                          ![t].after = job[h].bal + Amount[t]]
    /\ End(h)
    /\ UNCHANGED <<wallet, req, provider, hooks, delivered, crashes, history>>

Crediting(h) == job[h].pc \in {"wallet", "credit"}

\* A database call of updateTransactionStatus fails: it throws.
HandlerFails(h) ==
    /\ job[h].pc \in {"init", "update", "wallet", "credit", "stamp"}
    /\ End(h)
    /\ abandoned' = IF Crediting(h)
                    THEN abandoned \cup {job[h].trx} ELSE abandoned
    /\ UNCHANGED <<wallet, trx, req, provider, hooks, delivered, crashes,
                   credits, raced, crossed>>

\* The process dies: requests and handlers in flight are gone.
Crash ==
    /\ crashes < MaxCrashes
    /\ crashes' = crashes + 1
    /\ job' = [h \in Handlers |-> NoJob]
    /\ req' = [t \in Trx |->
                 IF req[t].pc \in {"checked", "collected", "created"}
                 THEN [req[t] EXCEPT !.pc = "error"] ELSE req[t]]
    /\ abandoned' = abandoned \cup
                      {job[h].trx : h \in {g \in Handlers : Crediting(g)}}
    /\ UNCHANGED <<wallet, trx, provider, hooks, delivered, credits, raced,
                   crossed>>

Fund(t) == FundCheck(t) \/ FundCollect(t) \/ FundCreate(t)
           \/ FundSetReference(t)

Arrive(h, t) == ReadFetch(h, t) \/ \E s \in ProviderStatus : Webhook(h, t, s)

Settle(h) == ReadInitial(h) \/ WriteStatus(h) \/ ReadWallet(h)
             \/ CreditWallet(h) \/ StampBalances(h)

Next ==
    \/ \E t \in Trx : Fund(t) \/ ProviderSettles(t)
    \/ \E h \in Handlers, t \in Trx : Arrive(h, t)
    \/ \E h \in Handlers : \/ ReadAnswered(h) \/ StatusCallFails(h)
                           \/ HandlerFails(h) \/ Settle(h)
    \/ Crash

Spec == Init /\ [][Next]_vars

(***************************************************************************)
(* Fairness.  Node runs every continuation whose call returned (WF on the  *)
(* steps of a handler), and the provider ends every collection.  Nothing   *)
(* obliges anyone to list the transactions, and a webhook may be lost, so  *)
(* neither is fair.  Of infinitely many status calls for one row some      *)
(* bring the state the collection is in, and of the updates that follow    *)
(* those some are written (SF): provider and database do not fail for ever.*)
(***************************************************************************)
ListingOf(h, t) == job[h].trx = t /\ job[h].via = "read"
Current(h, t) == ListingOf(h, t) /\ job[h].status = provider[t]

Fairness ==
    /\ \A t \in Trx : WF_vars(ProviderSettles(t))
    /\ \A h \in Handlers :
          /\ WF_vars(Settle(h) \/ ReadAnswered(h) \/ StatusCallFails(h))
          /\ \A t \in Trx :
                /\ SF_vars(ReadAnswered(h) /\ ListingOf(h, t)
                           /\ job'[h].status = provider[t])
                /\ SF_vars(ReadInitial(h) /\ Current(h, t))
                /\ SF_vars(WriteStatus(h) /\ Current(h, t))

LiveSpec == Spec /\ Fairness

(***************************************************************************)
(* Properties                                                              *)
(***************************************************************************)

\* A row is SUCCESS, or was ever added to a wallet, only when the provider
\* holds the money: no late, repeated or stale webhook or answer can
\* credit a collection that was not paid (updateTransactionStatus 32-43).
CreditIsPaidFor ==
    \A t \in Trx : trx[t].status = "SUCCESS" \/ credits[t] > 0
                      => provider[t] = "COMPLETED"

\* Whoever finds a row already SUCCESS leaves the crediting to the handler
\* that made it so: that handler has credited the wallet, is about to, or
\* died on the way (the guard on initTrans.status, line 122).
SuccessIsCredited ==
    \A t \in Trx : trx[t].status = "SUCCESS"
                      => \/ credits[t] > 0
                         \/ \E h \in Handlers : job[h].trx = t /\ Crediting(h)
                         \/ t \in abandoned

\* A row is added to its wallet twice only if two handlers worked on it at
\* once, or fundWallet's second write fell on a row being settled.
CreditedOnceUnlessRaced ==
    \A t \in Trx \ raced : credits[t] <= 1

TrxOf(w) == {t \in Trx : WalletOf[t] = w}
Credited == [t \in Trx |-> credits[t] * Amount[t]]

\* The balance is the opening one plus the amount (never the fee) of every
\* credit, unless two handlers were between reading and writing the same
\* wallet at the same time.
BalanceExactUnlessCrossed ==
    \A w \in Wallets \ crossed :
       wallet[w] = Opening[w] + SumFunctionOnSet(Credited, TrxOf(w))

Unsettled(t) == trx[t].status = "PENDING" /\ trx[t].ref
Listed(t) == \E h \in Handlers : job[h].trx = t /\ job[h].pc = "read"

\* A PENDING row that is listed again and again does not stay PENDING,
\* whatever webhooks are lost and however often status calls fail: the check
\* of the listing carries the provider's last word to the row.
ListedRowSettles ==
    \A t \in Trx : []<>Listed(t) => (Unsettled(t) ~> ~Unsettled(t))
=============================================================================
