-------------------------- MODULE WalletTransfers --------------------------
(***************************************************************************)
(* Transfers between the wallets of a company with their fees and rates,   *)
(* deposits from one wallet to another, and what administrators change in  *)
(* the meantime: wallets, fees and exchange rates.                         *)
(*                                                                         *)
(* transferBetween moves balance by increments inside one database         *)
(* transaction, after checks on earlier reads.  depositToWallet writes the *)
(* two wallets and its two rows one after the other, each as computed from *)
(* its first reads, and looks at none of the results; so does              *)
(* creditTestWallet, which credits a wallet without a row and takes the    *)
(* credit back when Maplerad refuses.  A request that is refused on its    *)
(* first reads is no step.                                                 *)
(***************************************************************************)
EXTENDS Integers, FiniteSets

CONSTANTS
    Wallets,
    Dollar,         \* the wallets in USD; the others share one currency
    Requests,       \* transfers, deposits and test credits, each made once
    Amount,         \* what a request asks for
    Surcharge,      \* fee a deposit names by itself
    Percentages,    \* values of fee_percentage
    Rates,          \* rates of exchange rate rows, of either sign or 0
    OpeningBalance,
    Adjusted,       \* a balance an administrator sets
    PreprodLimit,   \* PREPROD_WALLET_LIMITS
    MaxChanges,     \* bound: changes by administrators
    MaxTroubles     \* bound: failed database calls and crashes

\* No column and no validation keeps a rate or a percentage from being 0 or
\* negative; fee_percentage is less than 10 either way, so that a fee never
\* takes away the amount.
ASSUME TransfersAssumption ==
    /\ Dollar \subseteq Wallets
    /\ Amount \in Nat \ {0} /\ Adjusted \in Int
    /\ Rates \subseteq Int /\ Percentages \subseteq Int
    /\ \A p \in Percentages : /\ (Amount * p) % 100 = 0
                              /\ Amount + ((Amount * p) \div 100) > 0
    /\ {Surcharge, OpeningBalance, PreprodLimit, MaxChanges,
        MaxTroubles} \subseteq Nat

VARIABLES
    wallets,    \* Wallet: there, is_active, balance
    lastRow,    \* wallet_balance_after of the latest row of each wallet
    fees,       \* TransactionFee of each currency
    rates,      \* ExchangeRate of each direction
    req,        \* the requests
    booked,     \* the rows a transfer has created
    apart,      \* history: what all but transfers made of balances
    disturbed,  \* history: wallets two have written at once, or one in part
    changes, troubles

wvars == <<wallets, lastRow, fees, rates, req, booked, apart, disturbed,
           changes, troubles>>

Currencies == {"USD", "XAF"}
CurrencyOf(w) == IF w \in Dollar THEN "USD" ELSE "XAF"
Directions == {"XAFtoUSD", "USDtoXAF"}
NoRow == [there |-> FALSE, active |-> FALSE, value |-> 0]
Table(values) == [there : BOOLEAN, active : BOOLEAN, value : values \cup {0}]
Kinds == {"transfer", "deposit", "test"}
Steps == {"new", "fee", "pairfee", "rate", "reverse", "infinite", "post", "read",
          "source", "dest", "debit", "credit", "add", "test", "takeback", "done"}
Balances == Int

NewRequest == [kind |-> "transfer", pc |-> "new", from |-> "nobody",
               to |-> "nobody", fee |-> 0, gets |-> 0, seenFrom |-> 0,
               seenTo |-> 0, mode |-> "prod"]
Request == [kind : Kinds, pc : Steps, from : Wallets \cup {"nobody"},
            to : Wallets \cup {"nobody"}, fee : Int, gets : Int,
            seenFrom : Balances, seenTo : Balances, mode : {"prod", "preprod"}]
NoEntry == [from |-> "nobody", to |-> "nobody", debit |-> 0, credit |-> 0]

TransfersTypeOK ==
    /\ wallets \in [Wallets -> [there : BOOLEAN, active : BOOLEAN,
                                balance : Balances]]
    /\ lastRow \in [Wallets -> Balances]
    /\ fees \in [Currencies -> Table(Percentages)]
    /\ rates \in [Directions -> Table(Rates)]
    /\ req \in [Requests -> Request]
    /\ booked \in [Requests -> [from : Wallets, to : Wallets, debit : Nat,
                                credit : Int] \cup {NoEntry}]
    /\ apart \in [Wallets -> Balances]
    /\ disturbed \subseteq Wallets
    /\ changes \in 0..MaxChanges /\ troubles \in 0..MaxTroubles

\* A fee is configured and a rate, of the direction that registration stores
\* or of the other; the opening balances come with a row.
TransfersInit ==
    /\ wallets = [w \in Wallets |-> [there |-> TRUE, active |-> TRUE,
                                     balance |-> OpeningBalance]]
    /\ lastRow = [w \in Wallets |-> OpeningBalance]
    /\ \E p \in Percentages :
          fees = [c \in Currencies |-> IF c = "XAF"
                     THEN [there |-> TRUE, active |-> TRUE, value |-> p]
                     ELSE NoRow]
    /\ \E known \in Directions, rate \in Rates :
          rates = [d \in Directions |-> IF d = known
                     THEN [there |-> TRUE, active |-> TRUE, value |-> rate]
                     ELSE NoRow]
    /\ req = [r \in Requests |-> NewRequest]
    /\ booked = [r \in Requests |-> NoEntry]
    /\ apart = [w \in Wallets |-> 0]
    /\ disturbed = {}
    /\ changes = 0 /\ troubles = 0

-----------------------------------------------------------------------------
tables == <<fees, rates, changes>>
money == <<wallets, lastRow, booked, apart>>

Open(r) == req[r].pc \notin {"new", "done"}
\* Wallets that requests other than r are working on.
Shared(r) == UNION {{req[q].from, req[q].to} : q \in {q \in Requests \ {r} :
                                                      Open(q)}}
Goto(r, pc) == req' = [req EXCEPT ![r].pc = pc]
Trouble == troubles < MaxTroubles /\ troubles' = troubles + 1

(***************************************************************************)
(* transferBetween                                                         *)
(***************************************************************************)
\* The two wallets are read together and must be active.  Only transfers
\* that do not go to dollars pay a fee.
TransferBetween(r, from, to) ==
    /\ req[r].pc = "new"
    /\ \A w \in {from, to} : wallets[w].there /\ wallets[w].active
    /\ req' = [req EXCEPT ![r] =
          [NewRequest EXCEPT !.from = from, !.to = to, !.gets = Amount,
             !.seenFrom = wallets[from].balance, !.seenTo = wallets[to].balance,
             !.pc = IF to \notin Dollar THEN "fee"
                    ELSE IF from \in Dollar THEN "post" ELSE "rate"]]
    /\ UNCHANGED <<money, tables, disturbed, troubles>>

Charged(r, row) == [req EXCEPT ![r].fee = (Amount * row.value) \div 100,
                               ![r].pc = "post"]

\* getTransactionFee finds a row that is active.
GetTransactionFee(c) == {row \in {fees[c]} : row.there /\ row.active}

\* calculateFee takes a row that is active.  Of a FIXED fee, whose percentage
\* is 0, nothing is charged.
CalculateFee(r) ==
    LET found == GetTransactionFee(CurrencyOf(req[r].from))
    IN  /\ req[r].pc = "fee"
        /\ \/ \E row \in found : req' = Charged(r, row)
           \/ found = {} /\ Goto(r, "pairfee")
        /\ UNCHANGED <<money, tables, disturbed, troubles>>

\* getCurrencyPairFee takes any row, active or not.
GetCurrencyPairFee(r) ==
    LET row == fees[CurrencyOf(req[r].from)]
    IN  /\ req[r].pc = "pairfee"
        /\ req' = Charged(r, row)
        /\ UNCHANGED <<money, tables, disturbed, troubles>>

\* getExchangeRate: the direct row if it is active; of what comes to 0 the
\* transfer makes the amount itself ...
GetExchangeRate(r) ==
    LET row == rates["XAFtoUSD"]
    IN  /\ req[r].pc = "rate"
        /\ req' = IF row.there /\ row.active
                  THEN [req EXCEPT ![r].gets = IF row.value = 0 THEN Amount
                                               ELSE Amount * row.value,
                                   ![r].pc = "post"]
                  ELSE [req EXCEPT ![r].pc = "reverse"]
        /\ UNCHANGED <<money, tables, disturbed, troubles>>

\* The amount at the inverse of rate v, as the column rounds it.
AtInverse(v) == IF v > 0 THEN Amount \div v ELSE -(Amount \div (-v))

\* ... or the inverse of the reverse one, or the transfer is refused.  The
\* inverse of 0 is infinite.
GetReverseRate(r) ==
    LET row == rates["USDtoXAF"]
    IN  /\ req[r].pc = "reverse"
        /\ req' = IF ~(row.there /\ row.active)
                  THEN [req EXCEPT ![r].pc = "done"]
                  ELSE IF row.value = 0
                  THEN [req EXCEPT ![r].pc = "infinite"]
                  ELSE [req EXCEPT ![r].gets = AtInverse(row.value),
                                   ![r].pc = "post"]
        /\ UNCHANGED <<money, tables, disturbed, troubles>>

\* Mutant: the fee is left out of the check.
CoversAmount(r) == req[r].seenFrom >= Amount

Covers(r) == req[r].seenFrom >= Amount + req[r].fee

InsufficientBalance(r) ==
    /\ req[r].pc \in {"post", "infinite"}
    /\ ~Covers(r)
    /\ Goto(r, "done")
    /\ UNCHANGED <<money, tables, disturbed, troubles>>

\* Mutant: the destination gets what it had when it was read, and more.
AfterAbsolute(r, w) ==
    IF w = req[r].to THEN req[r].seenTo + req[r].gets
    ELSE wallets[w].balance - (IF w = req[r].from THEN Amount + req[r].fee
                                                  ELSE 0)

\* Increment and decrement.
After(r, w) ==
    wallets[w].balance + (IF w = req[r].to THEN req[r].gets ELSE 0)
                       - (IF w = req[r].from THEN Amount + req[r].fee ELSE 0)

\* Mutant: the row of the source shows its balance without the fee.
RowWithoutFee(r, w) == After(r, w) + (IF w = req[r].from THEN req[r].fee ELSE 0)

RowShows(r, w) == After(r, w)

\* The database transaction: both wallets, their rows and their records.
Post(r) ==
    LET q == req[r]
    IN  /\ q.pc = "post" /\ Covers(r)
        /\ \A w \in {q.from, q.to} : wallets[w].there
        /\ wallets' = [w \in Wallets |-> [wallets[w] EXCEPT !.balance = After(r, w)]]
        /\ lastRow' = [w \in Wallets |-> IF w \in {q.from, q.to}
                                         THEN RowShows(r, w) ELSE lastRow[w]]
        /\ booked' = [booked EXCEPT ![r] = [from |-> q.from, to |-> q.to,
                        debit |-> Amount + q.fee, credit |-> q.gets]]
        /\ disturbed' = disturbed \cup ({q.from, q.to} \cap Shared(r))
        /\ Goto(r, "done")
        /\ UNCHANGED <<apart, tables, troubles>>

\* The transaction fails, always so if a wallet is gone or what to give is
\* infinite: nothing is changed.
PostFails(r) ==
    /\ req[r].pc \in {"post", "infinite"} /\ Covers(r)
    /\ IF req[r].pc = "post" /\ \A w \in {req[r].from, req[r].to} : wallets[w].there
       THEN Trouble ELSE UNCHANGED troubles
    /\ Goto(r, "done")
    /\ UNCHANGED <<money, tables, disturbed>>

(***************************************************************************)
(* depositToWallet and creditTestWallet                                    *)
(***************************************************************************)
\* A Decimal to which a number is added becomes a string, and the number's
\* digits follow its own.  Amounts of one digit are enough here.
Append(balance, number) ==
    IF balance < 0 THEN balance * 10 - number ELSE balance * 10 + number

\* What leaves the source, and what arrives, is what the request says.
DepositToWallet(r, from, to, mode) ==
    /\ req[r].pc = "new"
    /\ wallets[from].there
    /\ req' = [req EXCEPT ![r] =
          [NewRequest EXCEPT !.kind = "deposit", !.pc = "read", !.from = from,
             !.to = to, !.fee = Surcharge, !.gets = Amount, !.mode = mode,
             !.seenFrom = wallets[from].balance]]
    /\ UNCHANGED <<money, tables, disturbed, troubles>>

\* The destination is read; balance and limit are checked.
CheckDeposit(r) ==
    LET q == req[r]
        b == wallets[q.to].balance
    IN  /\ q.pc = "read"
        /\ req' = IF /\ wallets[q.to].there
                     /\ Covers(r)
                     /\ q.mode = "preprod" => Append(b, q.gets) <= PreprodLimit
                  THEN [req EXCEPT ![r].seenTo = b, ![r].pc = "source"]
                  ELSE [req EXCEPT ![r].pc = "done"]
        /\ UNCHANGED <<money, tables, disturbed, troubles>>

\* creditTestWallet reads the active wallet in dollars.
CreditTestWallet(r, w) ==
    /\ req[r].pc = "new"
    /\ w \in Dollar /\ wallets[w].there /\ wallets[w].active
    /\ req' = [req EXCEPT ![r] =
          [NewRequest EXCEPT !.kind = "test", !.pc = "add", !.to = w,
             !.gets = Amount, !.seenTo = wallets[w].balance]]
    /\ UNCHANGED <<money, tables, disturbed, troubles>>

\* Mutant: the credit is not taken back.
TestRollbackForgotten(r) == req[r].seenTo + req[r].gets

\* What it writes first, and what it goes back to when Maplerad refuses.
TestCredit(r) == req[r].seenTo + req[r].gets
TestRollback(r) == req[r].seenTo

\* Maplerad credits its own test wallet, or refuses; nothing but the balance
\* tells of a test credit that succeeded.
CreditMapleradTestWallet(r) ==
    /\ req[r].pc = "test"
    /\ \/ Goto(r, "done") /\ disturbed' = disturbed \cup {req[r].to}
       \/ Goto(r, "takeback") /\ UNCHANGED disturbed
    /\ UNCHANGED <<money, tables, troubles>>

\* What a deposit or a test credit writes at each of its steps.
Writes(r) ==
    CASE req[r].pc \in {"source", "debit"} ->
            [at |-> req[r].from, balance |-> req[r].seenFrom - Amount - req[r].fee]
      [] req[r].pc \in {"dest", "credit"} ->
            [at |-> req[r].to, balance |-> Append(req[r].seenTo, req[r].gets)]
      [] req[r].pc = "add" -> [at |-> req[r].to, balance |-> TestCredit(r)]
      [] OTHER -> [at |-> req[r].to, balance |-> TestRollback(r)]

AfterStep == [source |-> "dest", dest |-> "debit", debit |-> "credit",
              credit |-> "done", add |-> "test", takeback |-> "done"]

WriteBalance(r) ==
    LET w == Writes(r).at
    IN  /\ req[r].pc \in {"source", "dest", "add", "takeback"}
        /\ wallets[w].there
        /\ wallets' = [wallets EXCEPT ![w].balance = Writes(r).balance]
        /\ apart' = [apart EXCEPT ![w] = @ + Writes(r).balance
                                           - wallets[w].balance]
        /\ disturbed' = disturbed \cup ({w} \cap Shared(r))
        /\ Goto(r, AfterStep[req[r].pc])
        /\ UNCHANGED <<lastRow, booked, tables, troubles>>

WriteRow(r) ==
    LET w == Writes(r).at
    IN  /\ req[r].pc \in {"debit", "credit"}
        /\ wallets[w].there
        /\ lastRow' = [lastRow EXCEPT ![w] = Writes(r).balance]
        /\ Goto(r, AfterStep[req[r].pc])
        /\ UNCHANGED <<wallets, booked, apart, tables, disturbed, troubles>>

\* A write fails, or the wallet is gone: the request goes on all the same.
WriteIgnored(r) ==
    LET w == Writes(r).at
    IN  /\ req[r].pc \in DOMAIN AfterStep
        /\ IF wallets[w].there THEN Trouble ELSE UNCHANGED troubles
        /\ disturbed' = disturbed \cup {w}
        /\ Goto(r, AfterStep[req[r].pc])
        /\ UNCHANGED <<money, tables>>

(***************************************************************************)
(* Administration                                                          *)
(***************************************************************************)
Change == changes < MaxChanges /\ changes' = changes + 1

\* updateWallet with a balance; createWallet names a column that is not
\* there, and never creates one.
UpdateWallet(w) ==
    /\ Change
    /\ wallets[w].there
    /\ wallets' = [wallets EXCEPT ![w].balance = Adjusted]
    /\ apart' = [apart EXCEPT ![w] = @ + Adjusted - wallets[w].balance]
    /\ disturbed' = disturbed \cup {w}
    /\ UNCHANGED <<lastRow, fees, rates, req, booked, troubles>>

DisableOrDelete(w) ==
    /\ Change
    /\ wallets[w].there
    /\ \/ wallets[w].active /\ wallets' = [wallets EXCEPT ![w].active = FALSE]
       \/ wallets' = [wallets EXCEPT ![w].there = FALSE]
    /\ UNCHANGED <<lastRow, fees, rates, req, booked, apart, disturbed,
                   troubles>>

\* A row of either table is created, updated or deleted.
Altered(row, values) ==
    IF row.there THEN {NoRow} \cup [there : {TRUE}, active : BOOLEAN,
                                    value : values]
    ELSE [there : {TRUE}, active : BOOLEAN, value : values]

ChangeFee(c) ==
    /\ Change
    /\ \E row \in Altered(fees[c], Percentages) :
          row # fees[c] /\ fees' = [fees EXCEPT ![c] = row]
    /\ UNCHANGED <<money, rates, req, disturbed, troubles>>

\* Any user may, and any number will do.
ChangeRate(d) ==
    /\ Change
    /\ \E row \in Altered(rates[d], Rates) :
          row # rates[d] /\ rates' = [rates EXCEPT ![d] = row]
    /\ UNCHANGED <<money, fees, req, disturbed, troubles>>

\* The process dies: requests are cut short.
Crash ==
    /\ Trouble
    /\ \E r \in Requests : Open(r)
    /\ disturbed' = disturbed \cup {w \in Wallets : \E r \in Requests :
          /\ w \in {req[r].from, req[r].to}
          /\ req[r].pc \in {"dest", "debit", "credit", "test", "takeback"}}
    /\ req' = [r \in Requests |-> IF Open(r) THEN [req[r] EXCEPT !.pc = "done"]
                                            ELSE req[r]]
    /\ UNCHANGED <<money, tables>>

Transfer(r) ==
    \/ CalculateFee(r) \/ GetCurrencyPairFee(r) \/ GetExchangeRate(r)
    \/ GetReverseRate(r) \/ InsufficientBalance(r) \/ Post(r) \/ PostFails(r)

DepositOrTest(r) ==
    \/ CheckDeposit(r) \/ CreditMapleradTestWallet(r)
    \/ WriteBalance(r) \/ WriteRow(r) \/ WriteIgnored(r)

TransfersNext ==
    \/ \E r \in Requests : Transfer(r) \/ DepositOrTest(r)
    \/ \E r \in Requests, from, to \in Wallets : TransferBetween(r, from, to)
    \/ \E r \in Requests, from, to \in Wallets, mode \in {"prod", "preprod"} :
          DepositToWallet(r, from, to, mode)
    \/ \E r \in Requests, w \in Wallets : CreditTestWallet(r, w)
    \/ \E w \in Wallets : UpdateWallet(w) \/ DisableOrDelete(w)
    \/ \E c \in Currencies : ChangeFee(c)
    \/ \E d \in Directions : ChangeRate(d)
    \/ Crash

TransfersSpec == TransfersInit /\ [][TransfersNext]_wvars

-----------------------------------------------------------------------------
\* The part of a balance that transfers made.
ByTransfers == [w \in Wallets |-> wallets[w].balance - OpeningBalance - apart[w]]

Book == INSTANCE Ledger WITH
    Accounts <- Wallets, account <- ByTransfers, journal <- booked

\* Transfers implement Ledger: a transfer changes the balances at most once,
\* its debit and its credit in one step with the rows that show them, whatever
\* else is read, written, deleted or lost meanwhile
\* (walletTransferBetween.service.ts:128).
TransfersAreBooked == Book!LedgerSpec

\* A wallet is overdrawn only if two requests worked on it at once, a balance
\* was set or a write lost, or if a transfer into it converted at a negative
\* rate: the source is checked for the amount and the fee, of either sign,
\* before the transaction that debits it (walletTransferBetween.service.ts:120),
\* and the destination for nothing before it is incremented (:139).
Drained(w) == \E r \in Requests : booked[r].to = w /\ booked[r].credit < 0

OverdrawnTogetherOrByRate ==
    \A w \in Wallets : wallets[w].balance < 0 => w \in disturbed \/ Drained(w)

\* The latest row of a wallet shows its balance, once no request is working
\* on it, unless two have written it at once, an administrator or a test credit
\* set it, or a write was lost (wallet.service.ts:466,
\* walletTransferBetween.service.ts:160).  A test credit that Maplerad refused
\* has left no trace (wallet-test.service.ts:147).
LastRowShowsBalance ==
    \A w \in Wallets \ disturbed :
        (\A r \in Requests : Open(r) => w \notin {req[r].from, req[r].to}) =>
            wallets[w].balance = lastRow[w]
=============================================================================
