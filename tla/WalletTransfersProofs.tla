----------------------- MODULE WalletTransfersProofs -----------------------
(***************************************************************************)
(* Proofs about WalletTransfers, for any wallets, requests, amounts and    *)
(* bounds: transfers implement Ledger, an overdraft needs two requests at  *)
(* once or a negative rate, and the rows show the balances.                *)
(***************************************************************************)
EXTENDS WalletTransfers, TLAPS

(***************************************************************************)
(* The invariant                                                           *)
(***************************************************************************)
TransferSteps == {"fee", "pairfee", "rate", "reverse", "infinite", "post"}
DepositSteps == {"read", "source", "dest", "debit", "credit"}
TestSteps == {"add", "test", "takeback"}

\* A request that is under way names its wallets; one that has not posted its
\* transfer has no entry, and takes something; a deposit and a test credit give
\* no less than nothing.
RequestOK(r) ==
    /\ req[r].pc \in TransferSteps \cup DepositSteps =>
          req[r].from \in Wallets /\ req[r].to \in Wallets
    /\ req[r].pc \in TestSteps => req[r].to \in Wallets
    /\ req[r].pc \in TransferSteps => Amount + req[r].fee > 0
    /\ req[r].pc \in DepositSteps \cup TestSteps => req[r].gets >= 0
    /\ req[r].pc \in TransferSteps \cup {"new"} => booked[r] = NoEntry

TInv == /\ TransfersTypeOK
        /\ \A r \in Requests : RequestOK(r)

\* What r has read of w and not written over is what w still holds.
SeenSource(r) ==
    req[r].pc \in TransferSteps \cup {"read", "source"} =>
        \/ req[r].from \in disturbed
        \/ req[r].seenFrom = wallets[req[r].from].balance

\* What a test credit is about to add to is what the wallet holds.
SeenTarget(r) ==
    req[r].pc = "add" => \/ req[r].to \in disturbed
                         \/ req[r].seenTo = wallets[req[r].to].balance

\* No request writes less than nothing: a transfer and a deposit have been
\* checked, and what is added to a balance is added to what was read.
Unspent(r) ==
    /\ req[r].pc = "source" => Covers(r)
    /\ (req[r].pc \in {"source", "dest"} \cup TestSteps /\ req[r].seenTo < 0)
          => req[r].to \in disturbed \/ Drained(req[r].to)

OverdrawnInv ==
    /\ OverdrawnTogetherOrByRate
    /\ \A r \in Requests : SeenSource(r) /\ Unspent(r)

\* r has written the balance of w, and not the row that shows it.
Pending(r, w) ==
    \/ req[r].from = w /\ req[r].pc \in {"dest", "debit"}
    \/ req[r].to = w /\ req[r].pc \in {"debit", "credit", "test", "takeback"}

\* What r has written is what w holds, and what the row will show; a test
\* credit shows in no row.
WrittenSource(r) ==
    (req[r].pc \in {"dest", "debit"} /\ req[r].from \notin disturbed
        /\ (req[r].pc = "debit" => req[r].from # req[r].to)) =>
        wallets[req[r].from].balance = req[r].seenFrom - Amount - req[r].fee

WrittenTarget(r) ==
    (req[r].pc \in {"debit", "credit"} /\ req[r].to \notin disturbed) =>
        wallets[req[r].to].balance = Append(req[r].seenTo, req[r].gets)

WrittenTest(r) ==
    (req[r].pc \in {"test", "takeback"} /\ req[r].to \notin disturbed) =>
        lastRow[req[r].to] = req[r].seenTo

Written(r) == WrittenSource(r) /\ WrittenTarget(r) /\ WrittenTest(r)

\* Whoever has written a wallet alone is the only one to owe it a row.
RowsInv ==
    /\ \A r \in Requests : SeenTarget(r) /\ Written(r)
    /\ \A w \in Wallets \ disturbed :
          /\ \A r, q \in Requests : Pending(r, w) /\ Pending(q, w) => r = q
          /\ (\A r \in Requests : ~Pending(r, w))
                => wallets[w].balance = lastRow[w]

-----------------------------------------------------------------------------
(***************************************************************************)
(* Arithmetic and what a step changes                                      *)
(***************************************************************************)
LEMMA Constants ==
    /\ Amount \in Nat /\ Amount > 0
    /\ Surcharge \in Nat /\ OpeningBalance \in Nat /\ Adjusted \in Int
    /\ MaxChanges \in Nat /\ MaxTroubles \in Nat
  BY TransfersAssumption

\* What is charged may be a rebate, but leaves something to be taken.
LEMMA ChargedFees ==
  ASSUME NEW v \in Percentages \cup {0}
  PROVE  /\ (Amount * v) \div 100 \in Int
         /\ Amount + ((Amount * v) \div 100) > 0
<1>1. Amount \in Nat /\ Amount > 0
  BY Constants
<1>2. CASE v = 0
  <2>1. Amount * v = 0
    BY <1>1, <1>2
  <2>2. QED
    BY <1>1, <2>1
<1>3. CASE v \in Percentages
  <2>1. Amount * v \in Int
    BY <1>1, <1>3, TransfersAssumption
  <2>2. QED
    BY <1>3, <2>1, TransfersAssumption
<1>4. QED
  BY <1>2, <1>3

\* Any rate gives a number, of either sign.
LEMMA Rated ==
  ASSUME NEW v \in Rates \cup {0}
  PROVE  /\ Amount * v \in Int
         /\ v # 0 => AtInverse(v) \in Int
<1>1. Amount \in Nat /\ v \in Int
  BY TransfersAssumption
<1>2. Amount * v \in Int
  BY <1>1
<1>3. CASE v > 0
  BY <1>1, <1>2, <1>3 DEF AtInverse
<1>4. CASE v < 0
  <2>1. -v \in Nat \ {0} /\ AtInverse(v) = -(Amount \div (-v))
    BY <1>1, <1>4 DEF AtInverse
  <2>2. Amount \div (-v) \in Int
    BY <1>1, <2>1
  <2>3. QED
    BY <1>2, <2>1, <2>2
<1>5. QED
  BY <1>1, <1>2, <1>3, <1>4

LEMMA NewRequestType ==
    /\ NewRequest \in Request
    /\ NewRequest.pc = "new"
  BY DEF NewRequest, Request, Kinds, Steps, Balances

\* Request r becomes q, and the others are left alone.
Becomes(r, q) ==
    /\ q \in Request
    /\ req' \in [Requests -> Request]
    /\ req'[r] = q
    /\ \A p \in Requests \ {r} : req'[p] = req[p]

LEMMA Becoming ==
  ASSUME TInv, NEW r \in Requests, NEW q \in Request,
         req' = [req EXCEPT ![r] = q]
  PROVE  Becomes(r, q)
  BY DEF TInv, TransfersTypeOK, Becomes

\* Only the step of r, and what a step says besides, is changed.
SameButPc(q, p) ==
    /\ q.kind = p.kind /\ q.from = p.from /\ q.to = p.to /\ q.mode = p.mode
    /\ q.fee = p.fee /\ q.gets = p.gets
    /\ q.seenFrom = p.seenFrom /\ q.seenTo = p.seenTo

LEMMA GoingTo ==
  ASSUME TInv, NEW r \in Requests, NEW pc \in Steps, Goto(r, pc)
  PROVE  /\ Becomes(r, req'[r])
         /\ req'[r].pc = pc
         /\ SameButPc(req'[r], req[r])
<1> DEFINE q == [req[r] EXCEPT !.pc = pc]
<1>1. req[r] \in Request
  BY DEF TInv, TransfersTypeOK
<1>2. q \in Request /\ q.pc = pc /\ SameButPc(q, req[r])
  BY <1>1 DEF Request, SameButPc
<1>3. req' = [req EXCEPT ![r] = q]
  BY DEF Goto
<1>4. Becomes(r, q)
  BY <1>2, <1>3, Becoming
<1>5. QED
  BY <1>2, <1>4 DEF Becomes

-----------------------------------------------------------------------------
(***************************************************************************)
(* What each action does, as the proofs below use it                       *)
(***************************************************************************)
MoneyKept == UNCHANGED <<wallets, lastRow, booked, apart>>

\* A request starts.
Starts(r) ==
    /\ req[r].pc = "new"
    /\ Becomes(r, req'[r])
    /\ \/ /\ req'[r].pc \in {"fee", "rate", "post", "read"}
          /\ req'[r].from \in Wallets /\ req'[r].to \in Wallets
          /\ req'[r].seenFrom = wallets[req'[r].from].balance
       \/ /\ req'[r].pc = "add" /\ req'[r].to \in Wallets
          /\ req'[r].seenTo = wallets[req'[r].to].balance
    /\ req'[r].gets = Amount /\ req'[r].fee \in Nat
    /\ MoneyKept /\ UNCHANGED <<tables, disturbed, troubles>>

LEMMA TransferStarts ==
  ASSUME TInv, NEW r \in Requests, NEW from \in Wallets, NEW to \in Wallets,
         TransferBetween(r, from, to)
  PROVE  Starts(r)
<1> DEFINE q == [NewRequest EXCEPT
             !.from = from, !.to = to, !.gets = Amount,
             !.seenFrom = wallets[from].balance, !.seenTo = wallets[to].balance,
             !.pc = IF to \notin Dollar THEN "fee"
                    ELSE IF from \in Dollar THEN "post" ELSE "rate"]
<1>1. wallets[from].balance \in Balances /\ wallets[to].balance \in Balances
  BY DEF TInv, TransfersTypeOK
<1>2. /\ q.pc \in {"fee", "rate", "post"} /\ q.from = from /\ q.to = to
      /\ q.seenFrom = wallets[from].balance /\ q.gets = Amount
      /\ q.fee \in Nat
  BY Constants DEF NewRequest
<1>0. Amount \in Int /\ Surcharge \in Int
  BY Constants
<1>3. q \in Request
  BY <1>0, <1>1, NewRequestType DEF Request, Steps, NewRequest, Kinds
<1>4. Becomes(r, q)
  BY <1>3, Becoming DEF TransferBetween
<1>5. QED
  BY <1>2, <1>4 DEF TransferBetween, Starts, MoneyKept, money, Becomes

LEMMA DepositStarts ==
  ASSUME TInv, NEW r \in Requests, NEW from \in Wallets, NEW to \in Wallets,
         NEW mode \in {"prod", "preprod"}, DepositToWallet(r, from, to, mode)
  PROVE  Starts(r)
<1> DEFINE q == [NewRequest EXCEPT !.kind = "deposit", !.pc = "read",
             !.from = from, !.to = to, !.fee = Surcharge, !.gets = Amount,
             !.mode = mode, !.seenFrom = wallets[from].balance]
<1>1. wallets[from].balance \in Balances
  BY DEF TInv, TransfersTypeOK
<1>2. /\ q.pc = "read" /\ q.from = from /\ q.to = to
      /\ q.seenFrom = wallets[from].balance /\ q.gets = Amount
      /\ q.fee \in Nat
  BY Constants DEF NewRequest
<1>0. Amount \in Int /\ Surcharge \in Int
  BY Constants
<1>3. q \in Request
  BY <1>0, <1>1, NewRequestType DEF Request, Steps, NewRequest, Kinds
<1>4. Becomes(r, q)
  BY <1>3, Becoming DEF DepositToWallet
<1>5. QED
  BY <1>2, <1>4 DEF DepositToWallet, Starts, MoneyKept, money, Becomes

LEMMA TestStarts ==
  ASSUME TInv, NEW r \in Requests, NEW w \in Wallets, CreditTestWallet(r, w)
  PROVE  Starts(r)
<1> DEFINE q == [NewRequest EXCEPT !.kind = "test", !.pc = "add", !.to = w,
             !.gets = Amount, !.seenTo = wallets[w].balance]
<1>1. wallets[w].balance \in Balances
  BY DEF TInv, TransfersTypeOK
<1>2. /\ q.pc = "add" /\ q.to = w
      /\ q.seenTo = wallets[w].balance /\ q.gets = Amount
      /\ q.fee \in Nat
  BY Constants DEF NewRequest
<1>0. Amount \in Int /\ Surcharge \in Int
  BY Constants
<1>3. q \in Request
  BY <1>0, <1>1, NewRequestType DEF Request, Steps, NewRequest, Kinds
<1>4. Becomes(r, q)
  BY <1>3, Becoming DEF CreditTestWallet
<1>5. QED
  BY <1>2, <1>4 DEF CreditTestWallet, Starts, MoneyKept, money, Becomes

\* A transfer computes its fee or what it gives, or ends without effect.
Computes(r) ==
    /\ req[r].pc \in TransferSteps
    /\ Becomes(r, req'[r])
    /\ req'[r].pc \in TransferSteps \cup {"done"}
    /\ req'[r].from = req[r].from /\ req'[r].to = req[r].to
    /\ req'[r].seenFrom = req[r].seenFrom
    /\ Amount + req'[r].fee > 0
    /\ MoneyKept /\ UNCHANGED <<tables, disturbed>>
    /\ troubles' \in 0..MaxTroubles

LEMMA ChargedComputes ==
  ASSUME TInv, NEW r \in Requests, NEW row, row \in Table(Percentages),
         req[r].pc \in {"fee", "pairfee"}, req' = Charged(r, row),
         UNCHANGED <<money, tables, disturbed, troubles>>
  PROVE  Computes(r)
<1> DEFINE q == [req[r] EXCEPT !.fee = (Amount * row.value) \div 100,
                               !.pc = "post"]
<1>1. req[r] \in Request
  BY DEF TInv, TransfersTypeOK
<1>2. row.value \in Percentages \cup {0}
  BY DEF Table
<1>3. /\ (Amount * row.value) \div 100 \in Int
      /\ Amount + ((Amount * row.value) \div 100) > 0
  BY <1>2, ChargedFees
<1>4. /\ q \in Request /\ q.pc = "post" /\ q.from = req[r].from
      /\ q.to = req[r].to /\ q.seenFrom = req[r].seenFrom
      /\ q.fee = (Amount * row.value) \div 100
  BY <1>1, <1>3 DEF Request, Steps
<1>5. req' = [req EXCEPT ![r] = q]
  BY DEF Charged, TInv, TransfersTypeOK
<1>6. Becomes(r, q)
  BY <1>4, <1>5, Becoming
<1>7. QED
  BY <1>1, <1>3, <1>4, <1>6 DEF Computes, Becomes, MoneyKept, money,
     TransferSteps, TInv, TransfersTypeOK

LEMMA FeesAndRates ==
  ASSUME TInv
  PROVE  /\ \A c \in Currencies : fees[c] \in Table(Percentages)
         /\ \A d \in Directions : rates[d].value \in Rates \cup {0}
         /\ \A w \in Wallets : CurrencyOf(w) \in Currencies
         /\ "XAFtoUSD" \in Directions /\ "USDtoXAF" \in Directions
  BY DEF TInv, TransfersTypeOK, Table, CurrencyOf, Currencies, Directions

\* What a transfer gives is Amount, or what a rate makes of it.
LEMMA RatedComputes ==
  ASSUME TInv, NEW r \in Requests, NEW g \in Int,
         req[r].pc \in {"rate", "reverse"},
         req' = [req EXCEPT ![r].gets = g, ![r].pc = "post"],
         UNCHANGED <<money, tables, disturbed, troubles>>
  PROVE  Computes(r)
<1> DEFINE q == [req[r] EXCEPT !.gets = g, !.pc = "post"]
<1>1. req[r] \in Request /\ Amount + req[r].fee > 0
  BY DEF TInv, TransfersTypeOK, RequestOK, TransferSteps
<1>2. /\ q \in Request /\ q.pc = "post" /\ q.from = req[r].from
      /\ q.to = req[r].to /\ q.seenFrom = req[r].seenFrom
      /\ q.fee = req[r].fee
  BY <1>1 DEF Request, Steps
<1>3. req' = [req EXCEPT ![r] = q]
  BY DEF TInv, TransfersTypeOK
<1>4. Becomes(r, q)
  BY <1>2, <1>3, Becoming
<1>5. QED
  BY <1>1, <1>2, <1>4 DEF Computes, Becomes, MoneyKept, money, TransferSteps,
     TInv, TransfersTypeOK

\* A transfer that goes on, or ends, changes nothing but its step.
LEMMA GoingToComputes ==
  ASSUME TInv, NEW r \in Requests, NEW pc \in TransferSteps \cup {"done"},
         req[r].pc \in TransferSteps, Goto(r, pc),
         UNCHANGED <<money, tables, disturbed>>, troubles' \in 0..MaxTroubles
  PROVE  Computes(r)
<1>1. pc \in Steps /\ Amount + req[r].fee > 0
  BY DEF TransferSteps, Steps, TInv, RequestOK
<1>2. QED
  BY <1>1, GoingTo DEF Computes, MoneyKept, money, SameButPc

LEMMA TransferComputes ==
  ASSUME TInv, NEW r \in Requests, Transfer(r), ~Post(r)
  PROVE  Computes(r)
<1>1. CASE CalculateFee(r)
  <2>1. req[r].pc = "fee" /\ req[r].from \in Wallets
    BY <1>1 DEF CalculateFee, TInv, RequestOK, TransferSteps
  <2>2. fees[CurrencyOf(req[r].from)] \in Table(Percentages)
    BY <2>1, FeesAndRates
  <2>3. ASSUME NEW row \in GetTransactionFee(CurrencyOf(req[r].from)),
               req' = Charged(r, row)
        PROVE  Computes(r)
    BY <1>1, <2>1, <2>2, <2>3, ChargedComputes
       DEF CalculateFee, GetTransactionFee
  <2>4. CASE Goto(r, "pairfee")
    BY <1>1, <2>1, <2>4, GoingToComputes
       DEF CalculateFee, TransferSteps, TInv, TransfersTypeOK
  <2>5. QED
    BY <1>1, <2>3, <2>4 DEF CalculateFee
<1>2. CASE GetCurrencyPairFee(r)
  <2>1. req[r].pc = "pairfee" /\ req[r].from \in Wallets
    BY <1>2 DEF GetCurrencyPairFee, TInv, RequestOK, TransferSteps
  <2>2. fees[CurrencyOf(req[r].from)] \in Table(Percentages)
    BY <2>1, FeesAndRates
  <2>3. QED
    BY <1>2, <2>1, <2>2, ChargedComputes DEF GetCurrencyPairFee
<1>3. CASE GetExchangeRate(r)
  <2>1. CASE rates["XAFtoUSD"].there /\ rates["XAFtoUSD"].active
    <3> DEFINE v == rates["XAFtoUSD"].value
               g == IF v = 0 THEN Amount ELSE Amount * v
    <3>1. g \in Int
      BY FeesAndRates, Rated, Constants
    <3>2. req' = [req EXCEPT ![r].gets = g, ![r].pc = "post"]
      BY <1>3, <2>1 DEF GetExchangeRate
    <3> HIDE DEF g
    <3>3. QED
      BY <1>3, <3>1, <3>2, RatedComputes DEF GetExchangeRate
  <2>2. CASE ~(rates["XAFtoUSD"].there /\ rates["XAFtoUSD"].active)
    BY <1>3, <2>2, GoingToComputes
       DEF GetExchangeRate, Goto, TransferSteps, TInv, TransfersTypeOK
  <2>3. QED
    BY <2>1, <2>2
<1>4. CASE GetReverseRate(r)
  <2> DEFINE v == rates["USDtoXAF"].value
  <2>1. ASSUME v # 0, req' = [req EXCEPT ![r].gets = AtInverse(v),
                                         ![r].pc = "post"]
        PROVE  Computes(r)
    <3>1. AtInverse(v) \in Int
      BY <2>1, FeesAndRates, Rated
    <3>2. QED
      BY <1>4, <2>1, <3>1, RatedComputes DEF GetReverseRate
  <2>2. ASSUME NEW pc \in {"infinite", "done"},
               req' = [req EXCEPT ![r].pc = pc]
        PROVE  Computes(r)
    BY <1>4, <2>2, GoingToComputes
       DEF GetReverseRate, Goto, TransferSteps, TInv, TransfersTypeOK
  <2>3. QED
    BY <1>4, <2>1, <2>2 DEF GetReverseRate
<1>5. CASE InsufficientBalance(r)
  BY <1>5, GoingToComputes
     DEF InsufficientBalance, TransferSteps, TInv, TransfersTypeOK
<1>6. CASE PostFails(r)
  <2>1. troubles' \in 0..MaxTroubles
    BY <1>6, TransfersAssumption DEF PostFails, Trouble, TInv, TransfersTypeOK
  <2>2. QED
    BY <1>6, <2>1, GoingToComputes DEF PostFails, TransferSteps
<1>7. QED
  BY <1>1, <1>2, <1>3, <1>4, <1>5, <1>6 DEF Transfer

\* A transfer is posted.
LEMMA Posting ==
  ASSUME TInv, NEW r \in Requests, Post(r)
  PROVE  /\ req[r].pc = "post" /\ Covers(r) /\ booked[r] = NoEntry
         /\ req[r].from \in Wallets /\ req[r].to \in Wallets
         /\ req[r].gets \in Int /\ req[r].fee \in Int
         /\ Amount + req[r].fee > 0
         /\ Becomes(r, req'[r]) /\ req'[r].pc = "done"
         /\ SameButPc(req'[r], req[r])
         /\ \A w \in Wallets : After(r, w) \in Int
         /\ wallets' \in [Wallets -> [there : BOOLEAN, active : BOOLEAN,
                                      balance : Balances]]
         /\ \A w \in Wallets : wallets'[w].balance = After(r, w)
         /\ lastRow' \in [Wallets -> Balances]
         /\ \A w \in Wallets : lastRow'[w] = IF w \in {req[r].from, req[r].to}
                                     THEN After(r, w) ELSE lastRow[w]
<1>1. /\ req[r].pc = "post" /\ Covers(r) /\ booked[r] = NoEntry
      /\ req[r].from \in Wallets /\ req[r].to \in Wallets
      /\ req[r].gets \in Int /\ req[r].fee \in Int
      /\ Amount + req[r].fee > 0
  BY DEF Post, TInv, RequestOK, TransferSteps, TransfersTypeOK, Request
<1>2. Becomes(r, req'[r]) /\ req'[r].pc = "done" /\ SameButPc(req'[r], req[r])
  BY GoingTo DEF Post, Steps
<1>3. ASSUME NEW w \in Wallets
      PROVE  /\ After(r, w) \in Int
             /\ wallets[w] \in [there : BOOLEAN, active : BOOLEAN,
                                balance : Balances]
             /\ [wallets[w] EXCEPT !.balance = After(r, w)] \in
                    [there : BOOLEAN, active : BOOLEAN, balance : Balances]
             /\ [wallets[w] EXCEPT !.balance = After(r, w)].balance
                    = After(r, w)
  <2>1. wallets[w] \in [there : BOOLEAN, active : BOOLEAN, balance : Balances]
    BY DEF TInv, TransfersTypeOK
  <2>2. After(r, w) \in Int
    BY <1>1, <2>1, Constants DEF After, Balances
  <2>3. QED
    BY <2>1, <2>2 DEF Balances
<1>4. wallets' = [w \in Wallets |-> [wallets[w] EXCEPT !.balance = After(r, w)]]
  BY DEF Post
<1>5. /\ wallets' \in [Wallets -> [there : BOOLEAN, active : BOOLEAN,
                                   balance : Balances]]
      /\ \A w \in Wallets : wallets'[w].balance = After(r, w)
  BY <1>3, <1>4
<1>6. /\ lastRow' \in [Wallets -> Balances]
      /\ \A w \in Wallets : lastRow'[w] = IF w \in {req[r].from, req[r].to}
                                          THEN After(r, w) ELSE lastRow[w]
  BY <1>3 DEF Post, RowShows, TInv, TransfersTypeOK, Balances
<1>7. QED
  BY <1>1, <1>2, <1>3, <1>5, <1>6

\* A deposit has been checked, or ends.
LEMMA Checking ==
  ASSUME TInv, NEW r \in Requests, CheckDeposit(r)
  PROVE  /\ req[r].pc = "read"
         /\ req[r].from \in Wallets /\ req[r].to \in Wallets
         /\ Becomes(r, req'[r])
         /\ req'[r].from = req[r].from /\ req'[r].to = req[r].to
         /\ req'[r].fee = req[r].fee /\ req'[r].gets = req[r].gets
         /\ req'[r].seenFrom = req[r].seenFrom
         /\ \/ req'[r].pc = "done"
            \/ /\ req'[r].pc = "source" /\ Covers(r)
               /\ req'[r].seenTo = wallets[req[r].to].balance
<1> DEFINE b == wallets[req[r].to].balance
           q == [req[r] EXCEPT !.seenTo = b, !.pc = "source"]
<1>1. /\ req[r].pc = "read" /\ req[r] \in Request
      /\ req[r].from \in Wallets /\ req[r].to \in Wallets
  BY DEF CheckDeposit, TInv, RequestOK, DepositSteps, TransfersTypeOK
<1>2. CASE req' = [req EXCEPT ![r].seenTo = b, ![r].pc = "source"] /\ Covers(r)
  <2>1. b \in Balances
    BY <1>1 DEF TInv, TransfersTypeOK
  <2>2. /\ q \in Request /\ q.pc = "source" /\ q.seenTo = b
        /\ q.from = req[r].from /\ q.to = req[r].to /\ q.fee = req[r].fee
        /\ q.gets = req[r].gets /\ q.seenFrom = req[r].seenFrom
    BY <1>1, <2>1 DEF Request, Steps
  <2>3. req' = [req EXCEPT ![r] = q]
    BY <1>2 DEF TInv, TransfersTypeOK
  <2>4. Becomes(r, q)
    BY <2>2, <2>3, Becoming
  <2>5. QED
    BY <1>1, <1>2, <2>2, <2>4 DEF Becomes
<1>3. CASE req' = [req EXCEPT ![r].pc = "done"]
  BY <1>1, <1>3, GoingTo DEF Goto, Steps, SameButPc
<1>4. QED
  BY <1>2, <1>3 DEF CheckDeposit

\* What a deposit or a test credit writes, at each of its steps.
LEMMA Writing ==
  ASSUME TInv, NEW r \in Requests, req[r].pc \in DOMAIN AfterStep
  PROVE  /\ Writes(r).at \in Wallets /\ Writes(r).balance \in Int
         /\ req[r].to \in Wallets
         /\ req[r].pc \in DepositSteps => req[r].from \in Wallets
         /\ req[r].pc \in {"source", "debit"} =>
               /\ Writes(r).at = req[r].from
               /\ Writes(r).balance = req[r].seenFrom - Amount - req[r].fee
         /\ req[r].pc \in {"dest", "credit"} =>
               /\ Writes(r).at = req[r].to
               /\ Writes(r).balance = Append(req[r].seenTo, req[r].gets)
         /\ req[r].pc = "add" =>
               /\ Writes(r).at = req[r].to
               /\ Writes(r).balance = req[r].seenTo + req[r].gets
         /\ req[r].pc = "takeback" =>
               Writes(r).at = req[r].to /\ Writes(r).balance = req[r].seenTo
         /\ req[r].pc \in {"source", "dest", "debit", "credit", "add",
                           "takeback"}
         /\ AfterStep[req[r].pc] \in Steps
         /\ req[r].pc = "source" => AfterStep[req[r].pc] = "dest"
         /\ req[r].pc = "dest" => AfterStep[req[r].pc] = "debit"
         /\ req[r].pc = "debit" => AfterStep[req[r].pc] = "credit"
         /\ req[r].pc = "credit" => AfterStep[req[r].pc] = "done"
         /\ req[r].pc = "add" => AfterStep[req[r].pc] = "test"
         /\ req[r].pc = "takeback" => AfterStep[req[r].pc] = "done"
<1>1. req[r] \in Request
  BY DEF TInv, TransfersTypeOK
<1>2. /\ req[r].seenFrom \in Int /\ req[r].seenTo \in Int /\ req[r].fee \in Int
      /\ req[r].gets \in Int /\ Amount \in Nat
  BY <1>1, Constants DEF Request, Balances
<1>3. req[r].pc \in {"source", "dest", "debit", "credit", "add", "takeback"}
  BY DEF AfterStep
<1>4. /\ req[r].to \in Wallets
      /\ req[r].pc \in DepositSteps => req[r].from \in Wallets
  BY <1>3 DEF TInv, RequestOK, DepositSteps, TestSteps
<1>5. /\ AfterStep["source"] = "dest" /\ AfterStep["dest"] = "debit"
      /\ AfterStep["debit"] = "credit" /\ AfterStep["credit"] = "done"
      /\ AfterStep["add"] = "test" /\ AfterStep["takeback"] = "done"
  BY DEF AfterStep
<1>6. CASE req[r].pc \in {"source", "debit"}
  BY <1>2, <1>4, <1>5, <1>6 DEF Writes, DepositSteps, Steps
<1>7. CASE req[r].pc \in {"dest", "credit"}
  <2>1. Append(req[r].seenTo, req[r].gets) \in Int
    BY <1>2 DEF Append
  <2>2. Writes(r) = [at |-> req[r].to,
                     balance |-> Append(req[r].seenTo, req[r].gets)]
    BY <1>7 DEF Writes
  <2>3. QED
    BY <1>4, <1>5, <1>7, <2>1, <2>2 DEF Steps
<1>8. CASE req[r].pc = "add"
  <2>1. Writes(r) = [at |-> req[r].to, balance |-> TestCredit(r)]
    BY <1>8 DEF Writes
  <2>2. QED
    BY <1>2, <1>4, <1>5, <1>8, <2>1 DEF TestCredit, Steps
<1>9. CASE req[r].pc = "takeback"
  <2>1. Writes(r) = [at |-> req[r].to, balance |-> TestRollback(r)]
    BY <1>9 DEF Writes
  <2>2. QED
    BY <1>2, <1>4, <1>5, <1>9, <2>1 DEF TestRollback, Steps
<1>10. QED
  BY <1>3, <1>6, <1>7, <1>8, <1>9

\* The step after a write, done or lost.
LEMMA AfterWrite ==
  ASSUME TInv, NEW r \in Requests, req[r].pc \in DOMAIN AfterStep,
         Goto(r, AfterStep[req[r].pc])
  PROVE  /\ Becomes(r, req'[r])
         /\ req'[r].pc = AfterStep[req[r].pc]
         /\ SameButPc(req'[r], req[r])
  BY Writing, GoingTo

\* The balance of a wallet is set, and the others are left alone.
BalanceSet(w, b) ==
    /\ wallets' \in [Wallets -> [there : BOOLEAN, active : BOOLEAN,
                                 balance : Balances]]
    /\ wallets'[w].balance = b
    /\ \A v \in Wallets \ {w} : wallets'[v].balance = wallets[v].balance
    /\ apart' \in [Wallets -> Balances]
    /\ apart'[w] = apart[w] + b - wallets[w].balance
    /\ \A v \in Wallets \ {w} : apart'[v] = apart[v]
    /\ UNCHANGED <<lastRow, booked>>

LEMMA SettingBalance ==
  ASSUME TInv, NEW w \in Wallets, NEW b \in Int,
         wallets' = [wallets EXCEPT ![w].balance = b],
         apart' = [apart EXCEPT ![w] = @ + b - wallets[w].balance],
         UNCHANGED <<lastRow, booked>>
  PROVE  BalanceSet(w, b)
<1> DEFINE new == [wallets[w] EXCEPT !.balance = b]
<1>1. wallets[w] \in [there : BOOLEAN, active : BOOLEAN, balance : Balances]
  BY DEF TInv, TransfersTypeOK
<1>2. /\ new \in [there : BOOLEAN, active : BOOLEAN, balance : Balances]
      /\ new.balance = b
  BY <1>1 DEF Balances
<1>3. wallets' = [wallets EXCEPT ![w] = new]
  BY DEF TInv, TransfersTypeOK
<1>4. apart[w] + b - wallets[w].balance \in Balances
  BY <1>1 DEF TInv, TransfersTypeOK, Balances
<1>5. QED
  BY <1>2, <1>3, <1>4 DEF BalanceSet, TInv, TransfersTypeOK

LEMMA BalanceWritten ==
  ASSUME TInv, NEW r \in Requests, WriteBalance(r)
  PROVE  /\ req[r].pc \in {"source", "dest", "add", "takeback"}
         /\ req[r].pc \in DOMAIN AfterStep
         /\ Becomes(r, req'[r]) /\ req'[r].pc = AfterStep[req[r].pc]
         /\ SameButPc(req'[r], req[r])
         /\ BalanceSet(Writes(r).at, Writes(r).balance)
         /\ disturbed' = disturbed \cup ({Writes(r).at} \cap Shared(r))
<1>1. req[r].pc \in {"source", "dest", "add", "takeback"}
  BY DEF WriteBalance
<1>2. req[r].pc \in DOMAIN AfterStep
  BY <1>1 DEF AfterStep
<1>3. QED
  BY <1>1, <1>2, Writing, AfterWrite, SettingBalance DEF WriteBalance

LEMMA RowWritten ==
  ASSUME TInv, NEW r \in Requests, WriteRow(r)
  PROVE  /\ req[r].pc \in {"debit", "credit"}
         /\ req[r].pc \in DOMAIN AfterStep
         /\ Becomes(r, req'[r]) /\ req'[r].pc = AfterStep[req[r].pc]
         /\ SameButPc(req'[r], req[r])
         /\ lastRow' \in [Wallets -> Balances]
         /\ lastRow'[Writes(r).at] = Writes(r).balance
         /\ \A v \in Wallets \ {Writes(r).at} : lastRow'[v] = lastRow[v]
         /\ UNCHANGED <<wallets, booked, apart, tables, disturbed, troubles>>
<1>1. req[r].pc \in {"debit", "credit"}
  BY DEF WriteRow
<1>2. req[r].pc \in DOMAIN AfterStep
  BY <1>1 DEF AfterStep
<1>3. /\ Writes(r).at \in Wallets /\ Writes(r).balance \in Balances
      /\ lastRow \in [Wallets -> Balances]
      /\ lastRow' = [lastRow EXCEPT ![Writes(r).at] = Writes(r).balance]
  BY <1>2, Writing DEF WriteRow, TInv, TransfersTypeOK, Balances
<1>4. QED
  BY <1>1, <1>2, <1>3, AfterWrite DEF WriteRow

LEMMA WriteLost ==
  ASSUME TInv, NEW r \in Requests, WriteIgnored(r)
  PROVE  /\ req[r].pc \in DOMAIN AfterStep
         /\ Becomes(r, req'[r]) /\ req'[r].pc = AfterStep[req[r].pc]
         /\ SameButPc(req'[r], req[r])
         /\ disturbed' = disturbed \cup {Writes(r).at}
         /\ troubles' \in 0..MaxTroubles
         /\ MoneyKept /\ UNCHANGED tables
<1>1. req[r].pc \in DOMAIN AfterStep
  BY DEF WriteIgnored
<1>2. troubles' \in 0..MaxTroubles
  BY TransfersAssumption
     DEF WriteIgnored, Trouble, TInv, TransfersTypeOK
<1>3. QED
  BY <1>1, <1>2, AfterWrite DEF WriteIgnored, MoneyKept, money

\* Maplerad has answered a test credit.
LEMMA TestAnswered ==
  ASSUME TInv, NEW r \in Requests, CreditMapleradTestWallet(r)
  PROVE  /\ req[r].pc = "test" /\ req[r].to \in Wallets
         /\ Becomes(r, req'[r]) /\ SameButPc(req'[r], req[r])
         /\ \/ req'[r].pc = "done" /\ disturbed' = disturbed \cup {req[r].to}
            \/ req'[r].pc = "takeback" /\ disturbed' = disturbed
         /\ MoneyKept /\ UNCHANGED <<tables, troubles>>
<1>1. req[r].pc = "test" /\ req[r].to \in Wallets
  BY DEF CreditMapleradTestWallet, TInv, RequestOK, TestSteps
<1>2. CASE Goto(r, "done") /\ disturbed' = disturbed \cup {req[r].to}
  BY <1>1, <1>2, GoingTo
     DEF CreditMapleradTestWallet, Steps, MoneyKept, money
<1>3. CASE Goto(r, "takeback") /\ UNCHANGED disturbed
  BY <1>1, <1>3, GoingTo
     DEF CreditMapleradTestWallet, Steps, MoneyKept, money
<1>4. QED
  BY <1>2, <1>3 DEF CreditMapleradTestWallet

LEMMA WalletUpdated ==
  ASSUME TInv, NEW w \in Wallets, UpdateWallet(w)
  PROVE  BalanceSet(w, Adjusted)
<1>1. Adjusted \in Int
  BY Constants
<1>2. /\ wallets' = [wallets EXCEPT ![w].balance = Adjusted]
      /\ apart' = [apart EXCEPT ![w] = @ + Adjusted - wallets[w].balance]
      /\ UNCHANGED <<lastRow, booked>>
  BY DEF UpdateWallet
<1>3. QED
  BY <1>1, <1>2, SettingBalance

LEMMA WalletDisabled ==
  ASSUME TInv, NEW w \in Wallets, DisableOrDelete(w)
  PROVE  /\ wallets' \in [Wallets -> [there : BOOLEAN, active : BOOLEAN,
                                      balance : Balances]]
         /\ \A v \in Wallets : wallets'[v].balance = wallets[v].balance
<1>1. /\ wallets[w] \in [there : BOOLEAN, active : BOOLEAN,
                         balance : Balances]
      /\ wallets \in [Wallets -> [there : BOOLEAN, active : BOOLEAN,
                                  balance : Balances]]
  BY DEF TInv, TransfersTypeOK
<1>2. CASE wallets' = [wallets EXCEPT ![w].active = FALSE]
  BY <1>1, <1>2
<1>3. CASE wallets' = [wallets EXCEPT ![w].there = FALSE]
  BY <1>1, <1>3
<1>4. QED
  BY <1>2, <1>3 DEF DisableOrDelete

LEMMA CrashEnds ==
  ASSUME TInv, Crash
  PROVE  /\ req' \in [Requests -> Request]
         /\ \A r \in Requests :
               /\ req'[r].pc \in {"new", "done"}
               /\ req'[r].pc = "new" <=> req[r].pc = "new"
               /\ SameButPc(req'[r], req[r])
         /\ troubles' \in 0..MaxTroubles
         /\ disturbed' = disturbed \cup {w \in Wallets : \E r \in Requests :
               /\ w \in {req[r].from, req[r].to}
               /\ req[r].pc \in {"dest", "debit", "credit", "test",
                                 "takeback"}}
         /\ MoneyKept /\ UNCHANGED tables
<1>1. ASSUME NEW r \in Requests
      PROVE  /\ req'[r] \in Request /\ SameButPc(req'[r], req[r])
             /\ req'[r].pc \in {"new", "done"}
             /\ req'[r].pc = "new" <=> req[r].pc = "new"
  <2>1. /\ req[r] \in Request
        /\ req'[r] = IF Open(r) THEN [req[r] EXCEPT !.pc = "done"] ELSE req[r]
    BY DEF Crash, TInv, TransfersTypeOK
  <2>2. CASE Open(r)
    BY <2>1, <2>2 DEF Request, Steps, SameButPc, Open
  <2>3. CASE ~Open(r)
    BY <2>1, <2>3 DEF SameButPc, Open
  <2>4. QED
    BY <2>2, <2>3
<1>2. req' \in [Requests -> Request]
  BY <1>1 DEF Crash
<1>3. troubles' \in 0..MaxTroubles
  BY TransfersAssumption DEF Crash, Trouble, TInv, TransfersTypeOK
<1>4. QED
  BY <1>1, <1>2, <1>3 DEF Crash, MoneyKept, money

-----------------------------------------------------------------------------
(***************************************************************************)
(* Type correctness                                                        *)
(***************************************************************************)
LEMMA InitTInv == TransfersInit => TInv
<1> SUFFICES ASSUME TransfersInit PROVE TInv
  OBVIOUS
<1>1. /\ OpeningBalance \in Int
      /\ MaxChanges \in Nat /\ MaxTroubles \in Nat
  BY Constants, TransfersAssumption
<1>2. fees \in [Currencies -> Table(Percentages)]
      /\ rates \in [Directions -> Table(Rates)]
  BY DEF TransfersInit, Table, NoRow
<1>3. /\ wallets \in [Wallets -> [there : BOOLEAN, active : BOOLEAN,
                                  balance : Balances]]
      /\ lastRow \in [Wallets -> Balances] /\ apart \in [Wallets -> Balances]
  BY <1>1 DEF TransfersInit, Balances
<1>6. req \in [Requests -> Request]
  BY NewRequestType DEF TransfersInit
<1>7. booked \in [Requests -> [from : Wallets, to : Wallets, debit : Nat,
                              credit : Int] \cup {NoEntry}]
  <2> DEFINE Booked == [from : Wallets, to : Wallets, debit : Nat,
                        credit : Int] \cup {NoEntry}
  <2>1. NoEntry \in Booked
    BY Zenon
  <2>2. booked = [r \in Requests |-> NoEntry]
    BY DEF TransfersInit
  <2> HIDE DEF Booked
  <2>3. booked \in [Requests -> Booked]
    BY <2>1, <2>2
  <2>4. QED
    BY <2>3 DEF Booked
<1>8. TransfersTypeOK
  <2>1. /\ disturbed \subseteq Wallets /\ changes \in 0..MaxChanges
        /\ troubles \in 0..MaxTroubles
    BY <1>1 DEF TransfersInit
  <2>2. QED
    BY <1>2, <1>3, <1>6, <1>7, <2>1 DEF TransfersTypeOK
<1>5. \A r \in Requests : RequestOK(r)
  BY NewRequestType
     DEF TransfersInit, RequestOK, TransferSteps, DepositSteps, TestSteps
<1>9. QED
  BY <1>5, <1>8 DEF TInv

\* A step of one request that books nothing.
LEMMA RequestTInv ==
  ASSUME TInv, NEW r \in Requests, Becomes(r, req'[r]), RequestOK(r)',
         wallets' \in [Wallets -> [there : BOOLEAN, active : BOOLEAN,
                                   balance : Balances]],
         lastRow' \in [Wallets -> Balances], apart' \in [Wallets -> Balances],
         disturbed' \subseteq Wallets, troubles' \in 0..MaxTroubles,
         booked' = booked, UNCHANGED tables
  PROVE  TInv'
<1>1. TransfersTypeOK'
  BY DEF TInv, TransfersTypeOK, Becomes, tables
<1>2. \A p \in Requests : RequestOK(p)'
  BY DEF TInv, RequestOK, Becomes
<1>3. QED
  BY <1>1, <1>2 DEF TInv

\* A change by an administrator, which no request takes part in.
LEMMA AdminTInv ==
  ASSUME TInv, UNCHANGED <<req, booked, lastRow, troubles>>,
         wallets' \in [Wallets -> [there : BOOLEAN, active : BOOLEAN,
                                   balance : Balances]],
         apart' \in [Wallets -> Balances], disturbed' \subseteq Wallets,
         fees' \in [Currencies -> Table(Percentages)],
         rates' \in [Directions -> Table(Rates)], Change
  PROVE  TInv'
<1>1. changes' \in 0..MaxChanges
  BY TransfersAssumption DEF Change, TInv, TransfersTypeOK
<1>2. TransfersTypeOK'
  BY <1>1 DEF TInv, TransfersTypeOK
<1>3. \A p \in Requests : RequestOK(p)'
  BY DEF TInv, RequestOK
<1>4. QED
  BY <1>2, <1>3 DEF TInv

LEMMA AlteredType ==
  ASSUME NEW row, NEW values, NEW new \in Altered(row, values)
  PROVE  new \in Table(values)
<1>1. CASE new = NoRow
  BY <1>1 DEF Table, NoRow
<1>2. CASE new \in [there : {TRUE}, active : BOOLEAN, value : values]
  BY <1>2 DEF Table
<1>3. QED
  BY <1>1, <1>2 DEF Altered

LEMMA NextTInv == TInv /\ [TransfersNext]_wvars => TInv'
<1> SUFFICES ASSUME TInv, [TransfersNext]_wvars PROVE TInv'
  OBVIOUS
<1> USE DEF TransferSteps, DepositSteps, TestSteps
<1>0. /\ wallets \in [Wallets -> [there : BOOLEAN, active : BOOLEAN,
                                  balance : Balances]]
      /\ lastRow \in [Wallets -> Balances] /\ apart \in [Wallets -> Balances]
      /\ disturbed \subseteq Wallets /\ troubles \in 0..MaxTroubles
      /\ fees \in [Currencies -> Table(Percentages)]
      /\ rates \in [Directions -> Table(Rates)]
      /\ \A r \in Requests : RequestOK(r)
  BY DEF TInv, TransfersTypeOK
<1>1. ASSUME NEW r \in Requests, Starts(r) PROVE TInv'
  <2>1. RequestOK(r)'
    BY <1>0, <1>1, Constants DEF Starts, RequestOK, MoneyKept
  <2>2. QED
    BY <1>0, <1>1, <2>1, RequestTInv DEF Starts, MoneyKept, tables
<1>2. ASSUME NEW r \in Requests, Computes(r) PROVE TInv'
  <2>1. RequestOK(r)'
    BY <1>0, <1>2 DEF Computes, RequestOK, MoneyKept
  <2>2. QED
    BY <1>0, <1>2, <2>1, RequestTInv DEF Computes, MoneyKept, tables
<1>3. ASSUME NEW r \in Requests, Post(r) PROVE TInv'
  <2> DEFINE e == [from |-> req[r].from, to |-> req[r].to,
                   debit |-> Amount + req[r].fee, credit |-> req[r].gets]
             Entry == [from : Wallets, to : Wallets, debit : Nat, credit : Int]
             Booked == Entry \cup {NoEntry}
  <2>0. /\ req[r].from \in Wallets /\ req[r].to \in Wallets
        /\ req[r].gets \in Int /\ Amount + req[r].fee \in Nat
        /\ booked' = [booked EXCEPT ![r] = e]
    <3>1. /\ req[r].from \in Wallets /\ req[r].to \in Wallets
          /\ req[r].gets \in Int /\ req[r].fee \in Int
          /\ Amount + req[r].fee > 0
      BY <1>3, Posting
    <3>2. Amount + req[r].fee \in Nat
      BY <3>1, Constants
    <3>3. booked' = [booked EXCEPT ![r] = e]
      BY <1>3 DEF Post
    <3>4. QED
      BY <3>1, <3>2, <3>3
  <2>9. e \in Entry
    BY <2>0
  <2>1. e \in Booked /\ booked' = [booked EXCEPT ![r] = e]
    <3> HIDE DEF e, Entry
    <3>1. QED
      BY <2>0, <2>9 DEF e
  <2>2. /\ booked' \in [Requests -> Booked]
        /\ \A p \in Requests \ {r} : booked'[p] = booked[p]
    <3>1. booked \in [Requests -> Booked]
      BY DEF TInv, TransfersTypeOK
    <3> HIDE DEF e, Booked
    <3>2. QED
      BY <2>1, <3>1
  <2>7. /\ req' \in [Requests -> Request]
        /\ wallets' \in [Wallets -> [there : BOOLEAN, active : BOOLEAN,
                                     balance : Balances]]
        /\ lastRow' \in [Wallets -> Balances]
    BY <1>3, Posting DEF Becomes
  <2>8. /\ disturbed' \subseteq Wallets
        /\ UNCHANGED <<apart, fees, rates, changes, troubles>>
    BY <1>0, <1>3, <2>0, Zenon DEF Post, tables
  <2>3. TransfersTypeOK'
    BY <2>2, <2>7, <2>8 DEF TInv, TransfersTypeOK
  <2>4. \A p \in Requests : RequestOK(p)'
    BY <1>0, <1>3, <2>2, Posting DEF RequestOK, Becomes
  <2>6. QED
    BY <2>3, <2>4 DEF TInv
<1>4. ASSUME NEW r \in Requests, CheckDeposit(r) PROVE TInv'
  <2>1. RequestOK(r)'
    BY <1>0, <1>4, Checking DEF RequestOK
  <2>2. QED
    BY <1>0, <1>4, <2>1, Checking, RequestTInv DEF CheckDeposit, money, tables
<1>5. ASSUME NEW r \in Requests, CreditMapleradTestWallet(r) PROVE TInv'
  <2>1. RequestOK(r)'
    BY <1>0, <1>5, TestAnswered DEF RequestOK, SameButPc
  <2>2. disturbed' \subseteq Wallets
    BY <1>0, <1>5, TestAnswered
  <2>3. QED
    BY <1>0, <1>5, <2>1, <2>2, TestAnswered, RequestTInv DEF MoneyKept, tables
<1>6. ASSUME NEW r \in Requests, WriteBalance(r) PROVE TInv'
  <2>1. /\ req[r].pc \in DOMAIN AfterStep /\ Writes(r).at \in Wallets
        /\ req[r].to \in Wallets
        /\ req[r].pc \in DepositSteps => req[r].from \in Wallets
        /\ req[r].pc \in {"source", "dest", "add", "takeback"}
    BY <1>6, BalanceWritten, Writing
  <2>2. RequestOK(r)'
    BY <1>0, <1>6, <2>1, BalanceWritten, Writing DEF RequestOK, SameButPc
  <2>3. disturbed' \subseteq Wallets
    BY <1>0, <1>6, <2>1, BalanceWritten
  <2>4. QED
    BY <1>0, <1>6, <2>2, <2>3, BalanceWritten, RequestTInv
       DEF WriteBalance, BalanceSet, tables
<1>7. ASSUME NEW r \in Requests, WriteRow(r) PROVE TInv'
  <2>1. /\ req[r].pc \in DOMAIN AfterStep
        /\ req[r].to \in Wallets
        /\ req[r].pc \in DepositSteps => req[r].from \in Wallets
        /\ req[r].pc \in {"debit", "credit"}
    BY <1>7, RowWritten, Writing
  <2>2. RequestOK(r)'
    BY <1>0, <1>7, <2>1, RowWritten, Writing DEF RequestOK, SameButPc
  <2>3. QED
    BY <1>0, <1>7, <2>2, RowWritten, RequestTInv DEF tables
<1>8. ASSUME NEW r \in Requests, WriteIgnored(r) PROVE TInv'
  <2>1. /\ req[r].pc \in DOMAIN AfterStep /\ Writes(r).at \in Wallets
        /\ req[r].to \in Wallets
        /\ req[r].pc \in DepositSteps => req[r].from \in Wallets
    BY <1>8, WriteLost, Writing
  <2>2. RequestOK(r)'
    BY <1>0, <1>8, <2>1, WriteLost, Writing DEF RequestOK, SameButPc
  <2>3. disturbed' \subseteq Wallets
    BY <1>0, <1>8, <2>1, WriteLost
  <2>4. QED
    BY <1>0, <1>8, <2>2, <2>3, WriteLost, RequestTInv DEF MoneyKept, tables
<1>9. ASSUME NEW w \in Wallets, UpdateWallet(w) PROVE TInv'
  BY <1>0, <1>9, WalletUpdated, AdminTInv DEF UpdateWallet, BalanceSet
<1>10. ASSUME NEW w \in Wallets, DisableOrDelete(w) PROVE TInv'
  BY <1>0, <1>10, WalletDisabled, AdminTInv DEF DisableOrDelete
<1>11. ASSUME NEW c \in Currencies, ChangeFee(c) PROVE TInv'
  <2>1. PICK row \in Altered(fees[c], Percentages) :
           fees' = [fees EXCEPT ![c] = row]
    BY <1>11 DEF ChangeFee
  <2>2. row \in Table(Percentages)
    BY <2>1, AlteredType
  <2>3. fees' \in [Currencies -> Table(Percentages)]
    BY <1>0, <2>1, <2>2
  <2>4. QED
    BY <1>0, <1>11, <2>3, AdminTInv DEF ChangeFee, money
<1>12. ASSUME NEW d \in Directions, ChangeRate(d) PROVE TInv'
  <2>1. PICK row \in Altered(rates[d], Rates) :
           rates' = [rates EXCEPT ![d] = row]
    BY <1>12 DEF ChangeRate
  <2>2. row \in Table(Rates)
    BY <2>1, AlteredType
  <2>3. rates' \in [Directions -> Table(Rates)]
    BY <1>0, <2>1, <2>2
  <2>4. QED
    BY <1>0, <1>12, <2>3, AdminTInv DEF ChangeRate, money
<1>13. CASE Crash
  <2>1. TransfersTypeOK'
    BY <1>0, <1>13, CrashEnds DEF TInv, TransfersTypeOK, MoneyKept, tables
  <2>2. \A p \in Requests : RequestOK(p)'
    BY <1>0, <1>13, CrashEnds DEF RequestOK, MoneyKept, SameButPc
  <2>3. QED
    BY <2>1, <2>2 DEF TInv
<1>14. CASE UNCHANGED wvars
  BY <1>0, <1>14 DEF wvars, TInv, TransfersTypeOK, RequestOK
<1>15. QED
  BY <1>1, <1>2, <1>3, <1>4, <1>5, <1>6, <1>7, <1>8, <1>9, <1>10, <1>11,
     <1>12, <1>13, <1>14, TransferStarts, DepositStarts, TestStarts,
     TransferComputes
     DEF TransfersNext, DepositOrTest, Transfer

\* Every wallet, table, request and row has its type at any time, and a
\* transfer that has not been posted has booked nothing.
THEOREM AlwaysTInv == TransfersSpec => []TInv
<1>1. TransfersInit => TInv
  BY InitTInv
<1>2. TInv /\ [TransfersNext]_wvars => TInv'
  BY NextTInv
<1>3. QED
  BY <1>1, <1>2, PTL DEF TransfersSpec

-----------------------------------------------------------------------------
(***************************************************************************)
(* Transfers implement Ledger: the refinement maps the wallets to what      *)
(* transfers have made of their balances, and only Post changes that.      *)
(***************************************************************************)
LEMMA BalanceTypes ==
  ASSUME TInv, NEW w \in Wallets
  PROVE  /\ wallets[w].balance \in Int /\ apart[w] \in Int
         /\ lastRow[w] \in Int /\ OpeningBalance \in Int
  BY Constants DEF TInv, TransfersTypeOK, Balances

\* What is written apart from transfers is counted apart from them.
LEMMA ApartKeepsLedger ==
  ASSUME TInv, NEW w \in Wallets, NEW b \in Int, BalanceSet(w, b)
  PROVE  UNCHANGED <<ByTransfers, booked>>
<1>1. ASSUME NEW v \in Wallets
      PROVE  wallets'[v].balance - OpeningBalance - apart'[v]
                = wallets[v].balance - OpeningBalance - apart[v]
  <2>1. CASE v = w
    BY <2>1, BalanceTypes DEF BalanceSet
  <2>2. CASE v # w
    BY <2>2 DEF BalanceSet
  <2>3. QED
    BY <2>1, <2>2
<1>2. ByTransfers' = ByTransfers
  BY <1>1 DEF ByTransfers
<1>3. QED
  BY <1>2 DEF BalanceSet

LEMMA SameMoneyKeepsLedger ==
  ASSUME UNCHANGED <<apart, booked>>,
         \A v \in Wallets : wallets'[v].balance = wallets[v].balance
  PROVE  UNCHANGED <<ByTransfers, booked>>
  BY DEF ByTransfers

LEMMA PostBooks ==
  ASSUME TInv, NEW r \in Requests, Post(r)
  PROVE  Book!LedgerNext
<1> DEFINE e == [from |-> req[r].from, to |-> req[r].to,
                 debit |-> Amount + req[r].fee, credit |-> req[r].gets]
<1>1. /\ req[r].from \in Wallets /\ req[r].to \in Wallets
      /\ req[r].gets \in Int /\ req[r].fee \in Int
      /\ Amount + req[r].fee > 0 /\ booked[r] = NoEntry
      /\ \A w \in Wallets : wallets'[w].balance = After(r, w)
  BY Posting
<1>2. Amount + req[r].fee \in Nat \ {0} /\ Amount \in Nat
  BY <1>1, Constants
<1>3. e \in Book!Entries
  BY <1>1, <1>2 DEF Book!Entries
<1>4. booked' = [booked EXCEPT ![r] = e] /\ apart' = apart
  BY DEF Post
<1>5. booked'[r] = e
  BY <1>4 DEF TInv, TransfersTypeOK
<1>6. ASSUME NEW w \in Wallets
      PROVE  ByTransfers'[w] = ByTransfers[w] + Book!Effect(e, w)
  <2>1. /\ ByTransfers[w] = wallets[w].balance - OpeningBalance - apart[w]
        /\ ByTransfers'[w] = After(r, w) - OpeningBalance - apart[w]
    BY <1>1, <1>4 DEF ByTransfers
  <2>2. Book!Effect(e, w) = (IF w = req[r].to THEN req[r].gets ELSE 0)
                     - (IF w = req[r].from THEN Amount + req[r].fee ELSE 0)
    BY DEF Book!Effect
  <2>3. QED
    BY <1>1, <1>2, <2>1, <2>2, BalanceTypes DEF After
<1>7. ByTransfers' = [w \in Wallets |-> ByTransfers[w] + Book!Effect(e, w)]
  <2>1. ByTransfers' = [w \in Wallets |-> ByTransfers'[w]]
    BY DEF ByTransfers
  <2> HIDE DEF e
  <2>2. QED
    BY <1>6, <2>1
<1>8. booked[r] = Book!NoEntry
  BY <1>1 DEF NoEntry, Book!NoEntry
<1>9. Book!Book(r, booked'[r])
  BY <1>3, <1>4, <1>5, <1>7, <1>8 DEF Book!Book
<1>10. QED
  BY <1>9 DEF Book!LedgerNext

LEMMA NextBooks ==
  TInv /\ [TransfersNext]_wvars => [Book!LedgerNext]_<<ByTransfers, booked>>
<1> SUFFICES ASSUME TInv, [TransfersNext]_wvars
             PROVE  Book!LedgerNext \/ UNCHANGED <<ByTransfers, booked>>
  OBVIOUS
<1>1. ASSUME NEW r \in Requests, Starts(r) \/ Computes(r)
      PROVE  UNCHANGED <<ByTransfers, booked>>
  BY <1>1, SameMoneyKeepsLedger DEF Starts, Computes, MoneyKept
<1>2. ASSUME NEW r \in Requests, Post(r) PROVE Book!LedgerNext
  BY <1>2, PostBooks
<1>3. ASSUME NEW r \in Requests, CheckDeposit(r)
      PROVE  UNCHANGED <<ByTransfers, booked>>
  BY <1>3, SameMoneyKeepsLedger DEF CheckDeposit, money
<1>4. ASSUME NEW r \in Requests, CreditMapleradTestWallet(r)
      PROVE  UNCHANGED <<ByTransfers, booked>>
  BY <1>4, SameMoneyKeepsLedger DEF CreditMapleradTestWallet, money
<1>5. ASSUME NEW r \in Requests, WriteBalance(r)
      PROVE  UNCHANGED <<ByTransfers, booked>>
  BY <1>5, BalanceWritten, Writing, ApartKeepsLedger
<1>6. ASSUME NEW r \in Requests, WriteRow(r) \/ WriteIgnored(r)
      PROVE  UNCHANGED <<ByTransfers, booked>>
  BY <1>6, SameMoneyKeepsLedger DEF WriteRow, WriteIgnored, money
<1>7. ASSUME NEW w \in Wallets, UpdateWallet(w)
      PROVE  UNCHANGED <<ByTransfers, booked>>
  BY <1>7, WalletUpdated, ApartKeepsLedger, Constants
<1>8. ASSUME NEW w \in Wallets, DisableOrDelete(w)
      PROVE  UNCHANGED <<ByTransfers, booked>>
  BY <1>8, WalletDisabled, SameMoneyKeepsLedger DEF DisableOrDelete
<1>9. ASSUME NEW c \in Currencies, ChangeFee(c)
      PROVE  UNCHANGED <<ByTransfers, booked>>
  BY <1>9, SameMoneyKeepsLedger DEF ChangeFee, money
<1>10. ASSUME NEW d \in Directions, ChangeRate(d)
       PROVE  UNCHANGED <<ByTransfers, booked>>
  BY <1>10, SameMoneyKeepsLedger DEF ChangeRate, money
<1>11. CASE Crash
  BY <1>11, SameMoneyKeepsLedger DEF Crash, money
<1>12. CASE UNCHANGED wvars
  BY <1>12, SameMoneyKeepsLedger DEF wvars
<1>13. QED
  BY <1>1, <1>2, <1>3, <1>4, <1>5, <1>6, <1>7, <1>8, <1>9, <1>10, <1>11,
     <1>12, TransferStarts, DepositStarts, TestStarts, TransferComputes
     DEF TransfersNext, DepositOrTest

LEMMA InitBooks == TransfersInit => Book!LedgerInit
<1> SUFFICES ASSUME TransfersInit PROVE Book!LedgerInit
  OBVIOUS
<1>1. ByTransfers = [w \in Wallets |-> 0]
  BY Constants DEF TransfersInit, ByTransfers
<1>2. booked = [r \in Requests |-> Book!NoEntry]
  BY DEF TransfersInit, NoEntry, Book!NoEntry
<1>3. QED
  BY <1>1, <1>2 DEF Book!LedgerInit

\* Every behaviour of the transfers is one of the ledger: a balance changes,
\* but for what is counted apart, only when a request books its one entry, and
\* by that entry (walletTransferBetween.service.ts:128).
THEOREM TransfersImplementLedger == TransfersSpec => TransfersAreBooked
<1>1. TransfersInit => Book!LedgerInit
  BY InitBooks
<1>2. TInv /\ [TransfersNext]_wvars => [Book!LedgerNext]_Book!lvars
  BY NextBooks DEF Book!lvars
<1>3. QED
  BY <1>1, <1>2, AlwaysTInv, PTL
     DEF TransfersSpec, TransfersAreBooked, Book!LedgerSpec

-----------------------------------------------------------------------------
(***************************************************************************)
(* A wallet is overdrawn only if two requests worked on it at once, or by a *)
(* negative rate: what a request has read of a wallet changes only by the   *)
(* step of another, which then finds the wallet shared.                    *)
(***************************************************************************)
LEMMA SharedWith ==
  ASSUME NEW r \in Requests, NEW q \in Requests \ {r}, Open(q),
         NEW w \in {req[q].from, req[q].to}
  PROVE  w \in Shared(r)
  BY DEF Shared

\* A wallet that a transfer drained stays one that a transfer drained.
LEMMA Draining ==
  ASSUME TInv, [TransfersNext]_wvars, NEW w \in Wallets, Drained(w)
  PROVE  Drained(w)'
<1>1. \A r \in Requests : booked[r] # NoEntry => booked'[r] = booked[r]
  <2>1. ASSUME NEW r \in Requests, Post(r)
        PROVE  \A q \in Requests : booked[q] # NoEntry => booked'[q] = booked[q]
    <3>1. booked[r] = NoEntry
      BY <2>1, Posting
    <3>2. \A q \in Requests \ {r} : booked'[q] = booked[q]
      BY <2>1 DEF Post, TInv, TransfersTypeOK
    <3>3. QED
      BY <3>1, <3>2
  <2>2. CASE \A r \in Requests : ~Post(r)
    <3>1. ASSUME NEW r \in Requests, DepositOrTest(r)
          PROVE  booked' = booked
      BY <3>1 DEF DepositOrTest, CheckDeposit, CreditMapleradTestWallet,
         WriteBalance, WriteRow, WriteIgnored, money
    <3>2. ASSUME NEW r \in Requests, Transfer(r) PROVE booked' = booked
      BY <2>2, <3>2, TransferComputes DEF Computes, MoneyKept
    <3>3. CASE Crash
      BY <3>3 DEF Crash, money
    <3>4. ASSUME NEW v \in Wallets, UpdateWallet(v) \/ DisableOrDelete(v)
          PROVE  booked' = booked
      BY <3>4 DEF UpdateWallet, DisableOrDelete
    <3>5. ASSUME NEW r \in Requests, Starts(r) PROVE booked' = booked
      BY <3>5 DEF Starts, MoneyKept
    <3>6. ASSUME NEW c \in Currencies, ChangeFee(c) PROVE booked' = booked
      BY <3>6 DEF ChangeFee, money
    <3>7. ASSUME NEW d \in Directions, ChangeRate(d) PROVE booked' = booked
      BY <3>7 DEF ChangeRate, money
    <3>8. CASE UNCHANGED wvars
      BY <3>8 DEF wvars
    <3>9. QED
      BY <3>1, <3>2, <3>3, <3>4, <3>5, <3>6, <3>7, <3>8, TransferStarts,
         DepositStarts, TestStarts DEF TransfersNext
  <2>3. QED
    BY <2>1, <2>2
<1>2. PICK r \in Requests : booked[r].to = w /\ booked[r].credit < 0
  BY DEF Drained
<1>3. booked[r] # NoEntry
  BY <1>2 DEF NoEntry
<1>4. QED
  BY <1>1, <1>2, <1>3 DEF Drained

LEMMA Disturbing == TInv /\ [TransfersNext]_wvars => disturbed \subseteq disturbed'
<1> SUFFICES ASSUME TInv, [TransfersNext]_wvars PROVE disturbed \subseteq disturbed'
  OBVIOUS
<1>1. ASSUME NEW r \in Requests, DepositOrTest(r)
      PROVE  disturbed \subseteq disturbed'
  BY <1>1 DEF DepositOrTest, CheckDeposit, CreditMapleradTestWallet,
     WriteBalance, WriteRow, WriteIgnored
<1>2. ASSUME NEW r \in Requests, Transfer(r) PROVE disturbed \subseteq disturbed'
  BY <1>2, TransferComputes DEF Post, Computes
<1>3. CASE Crash
  BY <1>3 DEF Crash
<1>4. ASSUME NEW w \in Wallets, UpdateWallet(w) \/ DisableOrDelete(w)
      PROVE  disturbed \subseteq disturbed'
  BY <1>4 DEF UpdateWallet, DisableOrDelete
<1>5. QED
  BY <1>1, <1>2, <1>3, <1>4, TransferStarts, DepositStarts, TestStarts
     DEF TransfersNext, Starts, ChangeFee, ChangeRate, wvars

\* What the others have read stays so when r changes shared wallets only as
\* it disturbs them.
LEMMA OthersSee ==
  ASSUME TInv, NEW r \in Requests, Becomes(r, req'[r]),
         disturbed \subseteq disturbed',
         \A w \in Wallets : Drained(w) => Drained(w)',
         \A w \in Wallets : w \in Shared(r) /\ w \notin disturbed'
                               => wallets'[w].balance = wallets[w].balance,
         NEW q \in Requests \ {r}, SeenSource(q), Unspent(q)
  PROVE  SeenSource(q)' /\ Unspent(q)'
<1>1. req'[q] = req[q]
  BY DEF Becomes
<1>2. CASE Open(q)
  <2>1. req[q].from \in Shared(r)
    BY <1>2, SharedWith
  <2>2. req[q].pc \in TransferSteps \cup {"read", "source"}
           => req[q].from \in Wallets
    BY DEF TInv, RequestOK, DepositSteps
  <2>3. SeenSource(q)'
    BY <1>1, <2>1, <2>2 DEF SeenSource
  <2>4. req[q].pc \in {"source", "dest"} \cup TestSteps => req[q].to \in Wallets
    BY DEF TInv, RequestOK, DepositSteps
  <2>5. \A d : d = req[q].to /\ d \in Wallets /\ Drained(d) => Drained(d)'
    OBVIOUS
  <2>6. QED
    BY <1>1, <2>3, <2>4, <2>5 DEF Unspent, Covers
<1>3. CASE ~Open(q)
  BY <1>1, <1>3 DEF Open, SeenSource, Unspent, TransferSteps, TestSteps
<1>4. QED
  BY <1>2, <1>3

\* A step of r that changes no balance.
LEMMA QuietOverdrawn ==
  ASSUME TInv, OverdrawnInv, NEW r \in Requests, Becomes(r, req'[r]),
         disturbed \subseteq disturbed',
         \A w \in Wallets : Drained(w) => Drained(w)',
         \A w \in Wallets : wallets'[w].balance = wallets[w].balance,
         SeenSource(r)', Unspent(r)'
  PROVE  OverdrawnInv'
<1>1. ASSUME NEW q \in Requests PROVE SeenSource(q)' /\ Unspent(q)'
  BY OthersSee DEF OverdrawnInv
<1>2. OverdrawnTogetherOrByRate'
  BY DEF OverdrawnInv, OverdrawnTogetherOrByRate
<1>3. QED
  BY <1>1, <1>2 DEF OverdrawnInv

LEMMA SignOfAppend ==
  ASSUME NEW b \in Int, NEW n \in Nat
  PROVE  Append(b, n) \in Int /\ (b >= 0 => Append(b, n) >= 0)
  BY DEF Append

\* Nobody is at work when an administrator acts, and the process dies.
LEMMA AllQuietOverdrawn ==
  ASSUME TInv, OverdrawnInv, disturbed \subseteq disturbed',
         \A w \in Wallets : Drained(w) => Drained(w)',
         \A w \in Wallets \ disturbed' : wallets'[w].balance = wallets[w].balance,
         \A r \in Requests : \/ req'[r] = req[r]
                             \/ req'[r].pc = "done"
  PROVE  OverdrawnInv'
<1>1. ASSUME NEW q \in Requests PROVE SeenSource(q)' /\ Unspent(q)'
  <2>1. CASE req'[q] = req[q]
    <3>1. SeenSource(q)'
      BY <2>1 DEF OverdrawnInv, SeenSource, TInv, RequestOK, DepositSteps
    <3>2. Unspent(q)'
      <4>1. req[q].pc \in {"source", "dest"} \cup TestSteps
               => req[q].to \in Wallets
        BY DEF TInv, RequestOK, DepositSteps
      <4>2. \A d : d = req[q].to /\ d \in Wallets /\ Drained(d) => Drained(d)'
        OBVIOUS
      <4>3. QED
        BY <2>1, <4>1, <4>2 DEF OverdrawnInv, Unspent, Covers
    <3>3. QED
      BY <3>1, <3>2
  <2>2. CASE req'[q].pc = "done"
    BY <2>2 DEF SeenSource, Unspent, TransferSteps, TestSteps
  <2>3. QED
    BY <2>1, <2>2
<1>2. OverdrawnTogetherOrByRate'
  BY DEF OverdrawnInv, OverdrawnTogetherOrByRate
<1>3. QED
  BY <1>1, <1>2 DEF OverdrawnInv

LEMMA PostOverdrawn ==
  ASSUME TInv, OverdrawnInv, NEW r \in Requests, Post(r),
         \A w \in Wallets : Drained(w) => Drained(w)'
  PROVE  OverdrawnInv'
<1>1. /\ req[r].pc = "post" /\ Covers(r)
      /\ req[r].from \in Wallets /\ req[r].to \in Wallets
      /\ req[r].gets \in Int /\ req[r].fee \in Int /\ Amount \in Nat
      /\ req[r].seenFrom \in Int
      /\ Becomes(r, req'[r]) /\ req'[r].pc = "done"
      /\ \A w \in Wallets : wallets'[w].balance = After(r, w)
  BY Posting, Constants DEF TInv, TransfersTypeOK, Request, Balances
<1>2. disturbed' = disturbed \cup ({req[r].from, req[r].to} \cap Shared(r))
  BY DEF Post
<1>3. ASSUME NEW w \in Wallets, w \notin {req[r].from, req[r].to}
      PROVE  wallets'[w].balance = wallets[w].balance
  BY <1>1, <1>3, BalanceTypes DEF After
<1>4. ASSUME NEW q \in Requests PROVE SeenSource(q)' /\ Unspent(q)'
  <2>1. CASE q = r
    BY <1>1, <2>1 DEF SeenSource, Unspent, TransferSteps, TestSteps
  <2>2. CASE q # r
    BY <1>1, <1>2, <1>3, <2>2, OthersSee DEF OverdrawnInv
  <2>3. QED
    BY <2>1, <2>2
\* A negative credit drains the destination.
<1>5. req[r].gets < 0 => \A w : w = req[r].to => Drained(w)'
  <2>1. booked'[r].to = req[r].to /\ booked'[r].credit = req[r].gets
    BY DEF Post, TInv, TransfersTypeOK
  <2>2. QED
    BY <2>1 DEF Drained
<1>6. ASSUME NEW w \in Wallets, wallets'[w].balance < 0, w \notin disturbed,
             ~Drained(w)'
      PROVE  FALSE
  <2>1. wallets[w].balance \in Int /\ wallets[w].balance >= 0
    BY <1>6, BalanceTypes DEF OverdrawnInv, OverdrawnTogetherOrByRate
  <2>2. w = req[r].from => req[r].seenFrom = wallets[w].balance
    BY <1>1, <1>6 DEF OverdrawnInv, SeenSource, TransferSteps
  <2>3. w = req[r].from => wallets[w].balance >= Amount + req[r].fee
    BY <1>1, <2>2 DEF Covers
  <2>4. w = req[r].to => req[r].gets >= 0
    BY <1>1, <1>5, <1>6
  <2>5. After(r, w) >= 0
    BY <1>1, <2>1, <2>3, <2>4 DEF After
  <2>6. QED
    BY <1>1, <1>6, <2>1, <2>5 DEF After
<1>7. OverdrawnTogetherOrByRate'
  BY <1>2, <1>6 DEF OverdrawnTogetherOrByRate
<1>8. QED
  BY <1>4, <1>7 DEF OverdrawnInv

LEMMA WriteOverdrawn ==
  ASSUME TInv, OverdrawnInv, NEW r \in Requests, WriteBalance(r),
         \A w \in Wallets : Drained(w) => Drained(w)'
  PROVE  OverdrawnInv'
<1> DEFINE w == Writes(r).at
           b == Writes(r).balance
<1>1. /\ req[r].pc \in {"source", "dest", "add", "takeback"}
      /\ Becomes(r, req'[r]) /\ req'[r].pc = AfterStep[req[r].pc]
      /\ SameButPc(req'[r], req[r])
      /\ BalanceSet(w, b)
      /\ disturbed' = disturbed \cup ({w} \cap Shared(r))
      /\ w \in Wallets /\ b \in Int /\ req[r].to \in Wallets
      /\ req'[r].pc \in {"dest", "debit", "test", "done"}
      /\ req'[r].pc = "dest" => req[r].pc = "source"
      /\ req'[r].pc = "test" => req[r].pc = "add"
  BY BalanceWritten, Writing
<1>2. /\ req[r].seenFrom \in Int /\ req[r].seenTo \in Int
      /\ req[r].fee \in Int /\ req[r].gets \in Nat /\ Amount \in Nat
  <2>1. req[r] \in Request /\ Amount \in Nat
    BY Constants DEF TInv, TransfersTypeOK
  <2>2. req[r].gets >= 0
    BY <1>1 DEF TInv, RequestOK, DepositSteps, TestSteps
  <2>3. QED
    BY <2>1, <2>2 DEF Request, Balances
<1>3. Unspent(r)
  BY DEF OverdrawnInv
<1>4. w \notin disturbed /\ ~Drained(w) => b >= 0
  <2>1. CASE req[r].pc = "source"
    BY <1>2, <1>3, <2>1, BalanceWritten, Writing DEF Unspent, Covers
  <2>2. CASE req[r].pc # "source"
    <3>1. w = req[r].to
      BY <1>1, <2>2, BalanceWritten, Writing
    <3>2. w \notin disturbed /\ ~Drained(w) => req[r].seenTo >= 0
      BY <1>1, <1>2, <1>3, <2>2, <3>1 DEF Unspent, TestSteps
    <3>3. \/ b = Append(req[r].seenTo, req[r].gets)
          \/ b = req[r].seenTo + req[r].gets
          \/ b = req[r].seenTo
      BY <1>1, <2>2, BalanceWritten, Writing
    <3>4. req[r].seenTo >= 0 => Append(req[r].seenTo, req[r].gets) >= 0
      BY <1>2, SignOfAppend
    <3> HIDE DEF b
    <3>5. QED
      BY <1>2, <3>2, <3>3, <3>4
  <2>3. QED
    BY <2>1, <2>2
<1> HIDE DEF w, b
<1>5. ASSUME NEW q \in Requests PROVE SeenSource(q)' /\ Unspent(q)'
  <2>1. CASE q = r
    <3>1. SeenSource(q)'
      BY <1>1, <2>1 DEF SeenSource, TransferSteps
    <3>2. \A d : d = req[r].to /\ Drained(d) => Drained(d)'
      BY <1>1
    <3>3. Unspent(q)'
      BY <1>1, <1>3, <2>1, <3>2 DEF Unspent, SameButPc, TestSteps
    <3>4. QED
      BY <3>1, <3>3
  <2>2. CASE q # r
    BY <1>1, <2>2, OthersSee DEF OverdrawnInv, BalanceSet
  <2>3. QED
    BY <2>1, <2>2
<1>6. OverdrawnTogetherOrByRate'
  <2>1. \A d \in Wallets : Drained(d) => Drained(d)'
    OBVIOUS
  <2>2. ASSUME NEW d \in Wallets, wallets'[d].balance < 0, d \notin disturbed'
        PROVE  Drained(d)
    BY <1>1, <1>4, <2>2, BalanceTypes
       DEF OverdrawnInv, OverdrawnTogetherOrByRate, BalanceSet
  <2>3. QED
    BY <2>1, <2>2 DEF OverdrawnTogetherOrByRate
<1>7. QED
  BY <1>5, <1>6 DEF OverdrawnInv

LEMMA InitOverdrawn == TransfersInit => OverdrawnInv
<1> SUFFICES ASSUME TransfersInit PROVE OverdrawnInv
  OBVIOUS
<1>1. \A r \in Requests : req[r].pc = "new"
  BY NewRequestType DEF TransfersInit
<1>2. \A r \in Requests : SeenSource(r) /\ Unspent(r)
  BY <1>1 DEF SeenSource, Unspent, TransferSteps, TestSteps
<1>3. OverdrawnTogetherOrByRate
  BY Constants DEF TransfersInit, OverdrawnTogetherOrByRate
<1>4. QED
  BY <1>2, <1>3 DEF OverdrawnInv

LEMMA NextOverdrawn ==
  TInv /\ OverdrawnInv /\ [TransfersNext]_wvars => OverdrawnInv'
<1> SUFFICES ASSUME TInv, OverdrawnInv, [TransfersNext]_wvars
             PROVE  OverdrawnInv'
  OBVIOUS
<1>0. /\ disturbed \subseteq disturbed'
      /\ \A w \in Wallets : Drained(w) => Drained(w)'
  BY Disturbing, Draining
<1>13. ASSUME NEW r \in Requests, Unspent(r), Becomes(r, req'[r]),
              SameButPc(req'[r], req[r]),
              req'[r].pc \notin {"source", "add"},
              req'[r].pc \in {"dest"} \cup TestSteps =>
                 req[r].pc \in {"source", "dest"} \cup TestSteps
       PROVE  Unspent(r)'
  <2>1. req[r].pc \in {"source", "dest"} \cup TestSteps => req[r].to \in Wallets
    BY DEF TInv, RequestOK, DepositSteps
  <2>2. \A d : d = req[r].to /\ d \in Wallets /\ Drained(d) => Drained(d)'
    BY <1>0
  <2>3. QED
    BY <1>0, <1>13, <2>1, <2>2 DEF Unspent, SameButPc, TestSteps
<1>1. ASSUME NEW r \in Requests, Starts(r) PROVE OverdrawnInv'
  <2>1. SeenSource(r)'
    BY <1>1 DEF Starts, MoneyKept, SeenSource, TransferSteps
  <2>2. Unspent(r)'
    <3>1. /\ req'[r].pc \in {"fee", "rate", "post", "read", "add"}
          /\ req'[r].pc = "add" =>
                /\ req'[r].to \in Wallets
                /\ req'[r].seenTo = wallets[req'[r].to].balance
          /\ disturbed' = disturbed
      BY <1>1 DEF Starts
    <3>2. \A d \in Wallets : d = req'[r].to /\ wallets[d].balance < 0
             => d \in disturbed \/ Drained(d)'
      BY <1>0 DEF OverdrawnInv, OverdrawnTogetherOrByRate
    <3>3. QED
      BY <3>1, <3>2 DEF Unspent, TestSteps
  <2>3. QED
    BY <1>0, <1>1, <2>1, <2>2, QuietOverdrawn DEF Starts, MoneyKept
<1>2. ASSUME NEW r \in Requests, Computes(r) PROVE OverdrawnInv'
  <2>1. SeenSource(r)'
    BY <1>2 DEF Computes, MoneyKept, SeenSource, TransferSteps, OverdrawnInv
  <2>2. Unspent(r)'
    BY <1>2 DEF Computes, Unspent, TestSteps, TransferSteps
  <2>3. QED
    BY <1>0, <1>2, <2>1, <2>2, QuietOverdrawn DEF Computes, MoneyKept
<1>3. ASSUME NEW r \in Requests, Post(r) PROVE OverdrawnInv'
  BY <1>0, <1>3, PostOverdrawn
<1>4. ASSUME NEW r \in Requests, CheckDeposit(r) PROVE OverdrawnInv'
  <2>1. UNCHANGED <<wallets, disturbed>>
    BY <1>4 DEF CheckDeposit, money
  <2>2. SeenSource(r)'
    BY <1>4, <2>1, Checking DEF OverdrawnInv, SeenSource, TransferSteps
  <2>3. Unspent(r)'
    <3>1. CASE req'[r].pc = "done"
      BY <3>1 DEF Unspent, TestSteps
    <3>2. CASE req'[r].pc = "source"
      <4>1. /\ req[r].to \in Wallets /\ req'[r].to = req[r].to /\ Covers(r)'
            /\ req'[r].seenTo = wallets[req[r].to].balance
        BY <1>4, <3>2, Checking DEF Covers
      <4>2. \A d \in Wallets : d = req[r].to /\ wallets[d].balance < 0
               => d \in disturbed \/ Drained(d)'
        BY <1>0 DEF OverdrawnInv, OverdrawnTogetherOrByRate
      <4>3. QED
        BY <2>1, <3>2, <4>1, <4>2 DEF Unspent
    <3>3. QED
      BY <1>4, <3>1, <3>2, Checking
  <2>4. QED
    BY <1>0, <1>4, <2>1, <2>2, <2>3, Checking, QuietOverdrawn
<1>5. ASSUME NEW r \in Requests, CreditMapleradTestWallet(r)
      PROVE  OverdrawnInv'
  <2>1. SeenSource(r)' /\ UNCHANGED wallets
    BY <1>5, TestAnswered DEF SeenSource, TransferSteps, MoneyKept
  <2>2. Unspent(r)'
    BY <1>5, <1>13, TestAnswered DEF OverdrawnInv, TestSteps
  <2>3. QED
    BY <1>0, <1>5, <2>1, <2>2, TestAnswered, QuietOverdrawn
<1>6. ASSUME NEW r \in Requests, WriteBalance(r) PROVE OverdrawnInv'
  BY <1>0, <1>6, WriteOverdrawn
<1>7. ASSUME NEW r \in Requests, WriteRow(r) PROVE OverdrawnInv'
  <2>1. /\ Becomes(r, req'[r]) /\ req'[r].pc \in {"credit", "done"}
        /\ UNCHANGED wallets
    BY <1>7, RowWritten, Writing
  <2>2. SeenSource(r)' /\ Unspent(r)'
    BY <2>1 DEF SeenSource, Unspent, TransferSteps, TestSteps
  <2>3. QED
    BY <1>0, <2>1, <2>2, QuietOverdrawn
<1>8. ASSUME NEW r \in Requests, WriteIgnored(r) PROVE OverdrawnInv'
  <2>1. /\ Becomes(r, req'[r]) /\ SameButPc(req'[r], req[r])
        /\ req'[r].pc \in {"dest", "debit", "credit", "test", "done"}
        /\ req'[r].pc = "dest" => req[r].pc = "source"
        /\ req'[r].pc = "test" => req[r].pc = "add"
        /\ UNCHANGED wallets
    BY <1>8, WriteLost, Writing DEF MoneyKept
  <2>2. SeenSource(r)'
    BY <2>1 DEF SeenSource, TransferSteps
  <2>3. Unspent(r)'
    BY <1>13, <2>1 DEF OverdrawnInv, TestSteps
  <2>4. QED
    BY <1>0, <2>1, <2>2, <2>3, QuietOverdrawn
<1>9. ASSUME NEW w \in Wallets, UpdateWallet(w) PROVE OverdrawnInv'
  BY <1>0, <1>9, WalletUpdated, AllQuietOverdrawn DEF UpdateWallet, BalanceSet
<1>10. ASSUME NEW w \in Wallets, DisableOrDelete(w) PROVE OverdrawnInv'
  BY <1>0, <1>10, WalletDisabled, AllQuietOverdrawn DEF DisableOrDelete
<1>11. CASE Crash
  <2>1. \A r \in Requests : req'[r] = req[r] \/ req'[r].pc = "done"
    BY <1>11 DEF Crash, TInv, TransfersTypeOK
  <2>2. QED
    BY <1>0, <1>11, <2>1, AllQuietOverdrawn DEF Crash, money
<1>12. CASE \/ \E c \in Currencies : ChangeFee(c)
            \/ \E d \in Directions : ChangeRate(d)
            \/ UNCHANGED wvars
  BY <1>0, <1>12, AllQuietOverdrawn DEF ChangeFee, ChangeRate, money, wvars
<1>14. QED
  BY <1>1, <1>2, <1>3, <1>4, <1>5, <1>6, <1>7, <1>8, <1>9, <1>10, <1>11,
     <1>12, TransferStarts, DepositStarts, TestStarts, TransferComputes
     DEF TransfersNext, DepositOrTest

\* A wallet is overdrawn only if two requests worked on it at once, a balance
\* was set or a write lost, or if a transfer into it converted at a negative
\* rate, whatever the rates and percentages
\* (walletTransferBetween.service.ts:120, :139).
THEOREM OverdrawnNeedsTwoOrARate == TransfersSpec => []OverdrawnTogetherOrByRate
<1>1. TransfersInit => OverdrawnInv
  BY InitOverdrawn
<1>2. TInv /\ OverdrawnInv /\ [TransfersNext]_wvars => OverdrawnInv'
  BY NextOverdrawn
<1>3. OverdrawnInv => OverdrawnTogetherOrByRate
  BY DEF OverdrawnInv
<1>4. QED
  BY <1>1, <1>2, <1>3, AlwaysTInv, PTL DEF TransfersSpec

-----------------------------------------------------------------------------
(***************************************************************************)
(* The latest row of a wallet shows its balance: of the requests that write *)
(* a wallet and then its row, one at most is in between, unless the wallet *)
(* is disturbed, and it then writes the row of what it has written.        *)
(***************************************************************************)
LEMMA PendingIsOpen ==
  ASSUME NEW r \in Requests, NEW w, Pending(r, w)
  PROVE  Open(r) /\ w \in {req[r].from, req[r].to}
  BY DEF Pending, Open

LEMMA RowsStep ==
  ASSUME TInv, RowsInv, NEW r \in Requests, Becomes(r, req'[r]),
         disturbed \subseteq disturbed',
         \A w \in Wallets \ disturbed' :
            w \in Shared(r) => wallets'[w].balance = wallets[w].balance,
         \A w \in Wallets \ disturbed' : \A q \in Requests \ {r} :
            Pending(q, w) => lastRow'[w] = lastRow[w],
         \A w \in Wallets \ disturbed' :
            Pending(r, w)' => Pending(r, w) \/ w \notin Shared(r),
         \A w \in Wallets \ disturbed' :
            ~Pending(r, w)' => \/ wallets'[w].balance = lastRow'[w]
                               \/ /\ ~Pending(r, w)
                                  /\ wallets'[w].balance = wallets[w].balance
                                  /\ lastRow'[w] = lastRow[w],
         SeenTarget(r)', Written(r)'
  PROVE  RowsInv'
<1>1. ASSUME NEW q \in Requests \ {r}
      PROVE  /\ req'[q] = req[q]
             /\ \A w : Pending(q, w)' <=> Pending(q, w)
             /\ \A w : Pending(q, w) => w \in Shared(r)
  <2>1. req'[q] = req[q]
    BY DEF Becomes
  <2>2. \A w : Pending(q, w)' <=> Pending(q, w)
    BY <2>1 DEF Pending
  <2>3. QED
    BY <2>1, <2>2, PendingIsOpen, SharedWith
<1>2. ASSUME NEW q \in Requests \ {r} PROVE SeenTarget(q)' /\ Written(q)'
  <2>1. /\ req'[q] = req[q]
        /\ SeenTarget(q) /\ Written(q)
    BY <1>1 DEF RowsInv
  <2>2. CASE Open(q)
    <3>1. req[q].from \in Shared(r) /\ req[q].to \in Shared(r)
      BY <2>2, SharedWith
    <3>2. /\ req[q].pc \in DepositSteps
               => req[q].from \in Wallets /\ req[q].to \in Wallets
          /\ req[q].pc \in TestSteps => req[q].to \in Wallets
      BY DEF TInv, RequestOK
    <3>3. SeenTarget(q)'
      BY <2>1, <3>1, <3>2 DEF SeenTarget, TestSteps
    <3>4. WrittenSource(q)'
      BY <2>1, <3>1, <3>2 DEF Written, WrittenSource, DepositSteps
    <3>5. WrittenTarget(q)'
      BY <2>1, <3>1, <3>2 DEF Written, WrittenTarget, DepositSteps
    <3>6. WrittenTest(q)'
      <4>1. SUFFICES ASSUME req[q].pc \in {"test", "takeback"},
                            req[q].to \notin disturbed'
                     PROVE  lastRow'[req[q].to] = req[q].seenTo
        BY <2>1 DEF WrittenTest
      <4>2. Pending(q, req[q].to) /\ req[q].to \in Wallets
        BY <3>2, <4>1 DEF Pending, TestSteps
      <4>3. QED
        BY <2>1, <4>1, <4>2 DEF Written, WrittenTest
    <3>7. QED
      BY <3>3, <3>4, <3>5, <3>6 DEF Written
  <2>3. CASE ~Open(q)
    BY <2>1, <2>3 DEF Open, SeenTarget, Written, WrittenSource, WrittenTarget,
       WrittenTest
  <2>4. QED
    BY <2>2, <2>3
<1>3. ASSUME NEW w \in Wallets \ disturbed', NEW p \in Requests,
             NEW q \in Requests, Pending(p, w)', Pending(q, w)'
      PROVE  p = q
  <2>1. w \in Wallets \ disturbed
    OBVIOUS
  <2>2. CASE p # r /\ q # r
    BY <1>1, <1>3, <2>1, <2>2 DEF RowsInv
  <2>3. ASSUME NEW s \in Requests \ {r}, Pending(s, w)', Pending(r, w)'
        PROVE  FALSE
    <3>1. Pending(s, w) /\ w \in Shared(r)
      BY <1>1, <2>3
    <3>2. Pending(r, w)
      BY <2>3, <3>1
    <3>3. QED
      BY <2>1, <3>1, <3>2 DEF RowsInv
  <2>4. QED
    BY <1>3, <2>2, <2>3
<1>4. ASSUME NEW w \in Wallets \ disturbed',
             \A q \in Requests : ~Pending(q, w)'
      PROVE  wallets'[w].balance = lastRow'[w]
  <2>1. w \in Wallets \ disturbed
    OBVIOUS
  <2>2. \A q \in Requests \ {r} : ~Pending(q, w)
    BY <1>1, <1>4
  <2>3. CASE ~Pending(r, w)
    BY <1>4, <2>1, <2>2, <2>3 DEF RowsInv
  <2>4. CASE Pending(r, w)
    BY <1>4, <2>4
  <2>5. QED
    BY <2>3, <2>4
<1>5. QED
  BY <1>2, <1>3, <1>4 DEF RowsInv

\* A step of r that writes nothing, and leaves nothing to be written.
LEMMA QuietRows ==
  ASSUME TInv, RowsInv, NEW r \in Requests, Becomes(r, req'[r]),
         disturbed \subseteq disturbed', wallets' = wallets, lastRow' = lastRow,
         req[r].pc \notin {"dest", "debit", "credit", "test", "takeback"},
         req'[r].pc \notin {"dest", "debit", "credit", "test", "takeback"},
         SeenTarget(r)'
  PROVE  RowsInv'
<1>1. Written(r)'
  BY DEF Written, WrittenSource, WrittenTarget, WrittenTest
<1>2. \A w : ~Pending(r, w) /\ ~Pending(r, w)'
  BY DEF Pending
<1>3. QED
  BY <1>1, <1>2, RowsStep

LEMMA PostRows ==
  ASSUME TInv, RowsInv, NEW r \in Requests, Post(r)
  PROVE  RowsInv'
<1>1. /\ req[r].pc = "post" /\ Becomes(r, req'[r]) /\ req'[r].pc = "done"
      /\ req[r].gets \in Int /\ req[r].fee \in Int /\ Amount \in Nat
      /\ \A w \in Wallets : wallets'[w].balance = After(r, w)
      /\ \A w \in Wallets : lastRow'[w] = IF w \in {req[r].from, req[r].to}
                                          THEN After(r, w) ELSE lastRow[w]
  BY Posting, Constants
<1>2. disturbed' = disturbed \cup ({req[r].from, req[r].to} \cap Shared(r))
  BY DEF Post
<1>3. ASSUME NEW w \in Wallets, w \notin {req[r].from, req[r].to}
      PROVE  wallets'[w].balance = wallets[w].balance /\ lastRow'[w] = lastRow[w]
  BY <1>1, <1>3, BalanceTypes DEF After
<1>4. ASSUME NEW w \in Wallets, w \in {req[r].from, req[r].to}
      PROVE  wallets'[w].balance = lastRow'[w]
  BY <1>1, <1>4
<1>5. \A w : ~Pending(r, w) /\ ~Pending(r, w)'
  BY <1>1 DEF Pending
<1>6. SeenTarget(r)' /\ Written(r)'
  BY <1>1 DEF SeenTarget, Written, WrittenSource, WrittenTarget, WrittenTest
<1>7. \A w \in Wallets \ disturbed' : \A q \in Requests \ {r} :
         Pending(q, w) => lastRow'[w] = lastRow[w]
  BY <1>2, <1>3, PendingIsOpen, SharedWith
<1>8. \A w \in Wallets \ disturbed' :
         w \in Shared(r) => wallets'[w].balance = wallets[w].balance
  BY <1>2, <1>3
<1>9. QED
  BY <1>1, <1>2, <1>3, <1>4, <1>5, <1>6, <1>7, <1>8, RowsStep

\* Writing a balance.
LEMMA WriteRows ==
  ASSUME TInv, RowsInv, NEW r \in Requests, WriteBalance(r)
  PROVE  RowsInv'
<1> DEFINE w == Writes(r).at
           b == Writes(r).balance
<1>1. /\ req[r].pc \in {"source", "dest", "add", "takeback"}
      /\ Becomes(r, req'[r])
      /\ SameButPc(req'[r], req[r])
      /\ wallets'[w].balance = b
      /\ \A v \in Wallets \ {w} : wallets'[v].balance = wallets[v].balance
      /\ lastRow' = lastRow
      /\ disturbed' = disturbed \cup ({w} \cap Shared(r))
      /\ w \in Wallets
      /\ req[r].to \in Wallets
      /\ req[r].pc \in {"source", "dest"} => req[r].from \in Wallets
  BY BalanceWritten, Writing DEF BalanceSet, DepositSteps
<1>2. /\ req[r].pc = "source" =>
            /\ req'[r].pc = "dest" /\ w = req[r].from
            /\ b = req[r].seenFrom - Amount - req[r].fee
      /\ req[r].pc = "dest" =>
            /\ req'[r].pc = "debit" /\ w = req[r].to
            /\ b = Append(req[r].seenTo, req[r].gets)
      /\ req[r].pc = "add" => req'[r].pc = "test" /\ w = req[r].to
      /\ req[r].pc = "takeback" =>
            req'[r].pc = "done" /\ w = req[r].to /\ b = req[r].seenTo
  BY BalanceWritten, Writing
<1>3. SeenTarget(r) /\ Written(r)
  BY DEF RowsInv
<1> HIDE DEF w, b
<1>4. SeenTarget(r)'
  BY <1>1, <1>2 DEF SeenTarget
<1>5. WrittenSource(r)'
  BY <1>1, <1>2, <1>3 DEF Written, WrittenSource, SameButPc
<1>6. WrittenTarget(r)'
  BY <1>1, <1>2 DEF WrittenTarget, SameButPc
<1>7. WrittenTest(r)'
  <2>1. SUFFICES ASSUME req[r].pc = "add", w \notin disturbed'
                 PROVE  lastRow[w] = req[r].seenTo
    BY <1>1, <1>2 DEF WrittenTest, SameButPc
  <2>2. w \notin disturbed /\ w \notin Shared(r)
    BY <1>1, <2>1
  <2>3. \A q \in Requests : ~Pending(q, w)
    BY <1>1, <2>1, <2>2, PendingIsOpen, SharedWith DEF Pending
  <2>4. wallets[w].balance = lastRow[w]
    BY <1>1, <2>2, <2>3 DEF RowsInv
  <2>5. QED
    BY <1>2, <1>3, <2>1, <2>2, <2>4 DEF SeenTarget
<1>8. Written(r)'
  BY <1>5, <1>6, <1>7 DEF Written
<1>9. ASSUME NEW v \in Wallets \ disturbed', Pending(r, v)'
      PROVE  Pending(r, v) \/ v \notin Shared(r)
  BY <1>1, <1>2, <1>9 DEF Pending, SameButPc
<1>10. ASSUME NEW v \in Wallets \ disturbed', ~Pending(r, v)'
       PROVE  \/ wallets'[v].balance = lastRow'[v]
              \/ /\ ~Pending(r, v)
                 /\ wallets'[v].balance = wallets[v].balance
                 /\ lastRow'[v] = lastRow[v]
  <2>1. CASE req[r].pc = "takeback"
    BY <1>1, <1>2, <1>3, <1>10, <2>1
       DEF Pending, SameButPc, Written, WrittenTest
  <2>2. CASE req[r].pc # "takeback"
    BY <1>1, <1>2, <1>10, <2>2 DEF Pending, SameButPc
  <2>3. QED
    BY <2>1, <2>2
<1>11. \A v \in Wallets \ disturbed' :
          v \in Shared(r) => wallets'[v].balance = wallets[v].balance
  BY <1>1
<1>12. QED
  BY <1>1, <1>4, <1>8, <1>9, <1>10, <1>11, RowsStep

\* Writing a row.
LEMMA RowRows ==
  ASSUME TInv, RowsInv, NEW r \in Requests, WriteRow(r)
  PROVE  RowsInv'
<1> DEFINE w == Writes(r).at
           b == Writes(r).balance
<1>1. /\ req[r].pc \in {"debit", "credit"}
      /\ Becomes(r, req'[r])
      /\ SameButPc(req'[r], req[r])
      /\ lastRow'[w] = b
      /\ \A v \in Wallets \ {w} : lastRow'[v] = lastRow[v]
      /\ wallets' = wallets /\ disturbed' = disturbed
      /\ w \in Wallets
      /\ req[r].to \in Wallets /\ req[r].from \in Wallets
  BY RowWritten, Writing DEF DepositSteps
<1>2. /\ req[r].pc = "debit" =>
            /\ req'[r].pc = "credit" /\ w = req[r].from
            /\ b = req[r].seenFrom - Amount - req[r].fee
      /\ req[r].pc = "credit" =>
            /\ req'[r].pc = "done" /\ w = req[r].to
            /\ b = Append(req[r].seenTo, req[r].gets)
  BY RowWritten, Writing
<1>3. Written(r) /\ Pending(r, w)
  BY <1>1, <1>2 DEF RowsInv, Pending
<1> HIDE DEF w, b
<1>4. SeenTarget(r)' /\ Written(r)'
  BY <1>1, <1>2, <1>3
     DEF SeenTarget, Written, WrittenSource, WrittenTarget, WrittenTest,
         SameButPc
<1>5. \A v \in Wallets \ disturbed' : \A q \in Requests \ {r} :
         Pending(q, v) => lastRow'[v] = lastRow[v]
  BY <1>1, <1>3 DEF RowsInv
<1>6. \A v : Pending(r, v)' => Pending(r, v)
  BY <1>1, <1>2 DEF Pending, SameButPc
<1>7. ASSUME NEW v \in Wallets \ disturbed', ~Pending(r, v)'
      PROVE  \/ wallets'[v].balance = lastRow'[v]
             \/ /\ ~Pending(r, v)
                /\ wallets'[v].balance = wallets[v].balance
                /\ lastRow'[v] = lastRow[v]
  <2>1. CASE v = w
    BY <1>1, <1>2, <1>3, <1>7, <2>1
       DEF Pending, SameButPc, Written, WrittenSource, WrittenTarget
  <2>2. CASE v # w
    BY <1>1, <1>2, <1>7, <2>2 DEF Pending, SameButPc
  <2>3. QED
    BY <2>1, <2>2
<1>8. QED
  BY <1>1, <1>4, <1>5, <1>6, <1>7, RowsStep

\* A write that is lost disturbs what it should have written.
LEMMA LostRows ==
  ASSUME TInv, RowsInv, NEW r \in Requests, WriteIgnored(r)
  PROVE  RowsInv'
<1> DEFINE w == Writes(r).at
<1>1. /\ Becomes(r, req'[r])
      /\ SameButPc(req'[r], req[r])
      /\ wallets' = wallets /\ lastRow' = lastRow
      /\ disturbed' = disturbed \cup {w}
      /\ req[r].pc \in {"source", "dest", "debit", "credit", "add",
                        "takeback"}
  BY WriteLost, Writing DEF MoneyKept
<1>2. /\ req[r].pc = "source" => req'[r].pc = "dest" /\ w = req[r].from
      /\ req[r].pc = "dest" => req'[r].pc = "debit" /\ w = req[r].to
      /\ req[r].pc = "debit" => req'[r].pc = "credit" /\ w = req[r].from
      /\ req[r].pc = "credit" => req'[r].pc = "done" /\ w = req[r].to
      /\ req[r].pc = "add" => req'[r].pc = "test" /\ w = req[r].to
      /\ req[r].pc = "takeback" => req'[r].pc = "done" /\ w = req[r].to
  BY WriteLost, Writing
<1>3. Written(r)
  BY DEF RowsInv
<1> HIDE DEF w
<1>4. SeenTarget(r)' /\ WrittenTest(r)'
  BY <1>1, <1>2 DEF SeenTarget, WrittenTest, SameButPc
<1>5. WrittenSource(r)' /\ WrittenTarget(r)'
  BY <1>1, <1>2, <1>3
     DEF Written, WrittenSource, WrittenTarget, SameButPc
<1>6. \A v \in Wallets \ disturbed' : Pending(r, v)' <=> Pending(r, v)
  BY <1>1, <1>2 DEF Pending, SameButPc
<1>7. QED
  BY <1>1, <1>4, <1>5, <1>6, RowsStep DEF Written

LEMMA AnsweredRows ==
  ASSUME TInv, RowsInv, NEW r \in Requests, CreditMapleradTestWallet(r)
  PROVE  RowsInv'
<1>1. /\ req[r].pc = "test"
      /\ Becomes(r, req'[r]) /\ SameButPc(req'[r], req[r])
      /\ wallets' = wallets /\ lastRow' = lastRow
      /\ \/ req'[r].pc = "done" /\ disturbed' = disturbed \cup {req[r].to}
         \/ req'[r].pc = "takeback" /\ disturbed' = disturbed
  BY TestAnswered DEF MoneyKept
<1>2. Written(r)
  BY DEF RowsInv
<1>3. SeenTarget(r)' /\ Written(r)'
  BY <1>1, <1>2 DEF SeenTarget, Written, WrittenSource, WrittenTarget,
     WrittenTest, SameButPc
<1>4. \A v \in Wallets \ disturbed' : Pending(r, v)' <=> Pending(r, v)
  BY <1>1 DEF Pending, SameButPc
<1>5. QED
  BY <1>1, <1>3, <1>4, RowsStep

\* No request moves.
LEMMA AdminRows ==
  ASSUME RowsInv, TInv, req' = req, disturbed \subseteq disturbed',
         \A w \in Wallets \ disturbed' : wallets'[w].balance = wallets[w].balance,
         lastRow' = lastRow
  PROVE  RowsInv'
<1>1. ASSUME NEW q \in Requests PROVE SeenTarget(q)' /\ Written(q)'
  <2>1. SeenTarget(q) /\ Written(q)
    BY DEF RowsInv
  <2>2. /\ req[q].pc \in DepositSteps
             => req[q].from \in Wallets /\ req[q].to \in Wallets
        /\ req[q].pc \in TestSteps => req[q].to \in Wallets
    BY DEF TInv, RequestOK
  <2>3. QED
    BY <2>1, <2>2 DEF SeenTarget, Written, WrittenSource, WrittenTarget,
       WrittenTest, DepositSteps, TestSteps
<1>2. \A q \in Requests, w \in Wallets : Pending(q, w)' <=> Pending(q, w)
  BY DEF Pending
<1>3. QED
  BY <1>1, <1>2 DEF RowsInv

LEMMA CrashRows == ASSUME TInv, RowsInv, Crash PROVE RowsInv'
<1>1. \A r \in Requests : req'[r].pc \in {"new", "done"}
  BY CrashEnds
<1>2. ASSUME NEW q \in Requests PROVE SeenTarget(q)' /\ Written(q)'
  BY <1>1 DEF SeenTarget, Written, WrittenSource, WrittenTarget, WrittenTest
<1>3. \A q \in Requests, w \in Wallets : ~Pending(q, w)'
  BY <1>1 DEF Pending
<1>4. \A w \in Wallets \ disturbed' : \A q \in Requests : ~Pending(q, w)
  BY CrashEnds DEF Pending
<1>5. disturbed \subseteq disturbed' /\ wallets' = wallets /\ lastRow' = lastRow
  BY CrashEnds DEF MoneyKept
<1>6. QED
  BY <1>2, <1>3, <1>4, <1>5 DEF RowsInv

LEMMA InitRows == TransfersInit => RowsInv
<1> SUFFICES ASSUME TransfersInit PROVE RowsInv
  OBVIOUS
<1>1. \A r \in Requests : req[r].pc = "new"
  BY NewRequestType DEF TransfersInit
<1>2. \A r \in Requests : SeenTarget(r) /\ Written(r)
  BY <1>1 DEF SeenTarget, Written, WrittenSource, WrittenTarget, WrittenTest
<1>3. \A r \in Requests, w \in Wallets : ~Pending(r, w)
  BY <1>1 DEF Pending
<1>4. \A w \in Wallets : wallets[w].balance = lastRow[w]
  BY DEF TransfersInit
<1>5. QED
  BY <1>2, <1>3, <1>4 DEF RowsInv

LEMMA NextRows == TInv /\ RowsInv /\ [TransfersNext]_wvars => RowsInv'
<1> SUFFICES ASSUME TInv, RowsInv, [TransfersNext]_wvars PROVE RowsInv'
  OBVIOUS
<1>0. disturbed \subseteq disturbed'
  BY Disturbing
<1>1. ASSUME NEW r \in Requests, Starts(r) PROVE RowsInv'
  <2>1. SeenTarget(r)'
    BY <1>1 DEF Starts, MoneyKept, SeenTarget
  <2>2. QED
    BY <1>0, <1>1, <2>1, QuietRows DEF Starts, MoneyKept
<1>2. ASSUME NEW r \in Requests, Computes(r) PROVE RowsInv'
  <2>1. SeenTarget(r)'
    BY <1>2 DEF Computes, SeenTarget, TransferSteps
  <2>2. QED
    BY <1>0, <1>2, <2>1, QuietRows DEF Computes, MoneyKept, TransferSteps
<1>3. ASSUME NEW r \in Requests, CheckDeposit(r) PROVE RowsInv'
  <2>1. SeenTarget(r)' /\ wallets' = wallets /\ lastRow' = lastRow
    BY <1>3, Checking DEF CheckDeposit, money, SeenTarget
  <2>2. QED
    BY <1>0, <1>3, <2>1, Checking, QuietRows
<1>4. ASSUME NEW w \in Wallets, UpdateWallet(w) PROVE RowsInv'
  BY <1>0, <1>4, WalletUpdated, AdminRows DEF UpdateWallet, BalanceSet
<1>5. ASSUME NEW w \in Wallets, DisableOrDelete(w) PROVE RowsInv'
  BY <1>0, <1>5, WalletDisabled, AdminRows DEF DisableOrDelete
<1>6. CASE \/ \E c \in Currencies : ChangeFee(c)
           \/ \E d \in Directions : ChangeRate(d)
           \/ UNCHANGED wvars
  BY <1>0, <1>6, AdminRows DEF ChangeFee, ChangeRate, money, wvars
<1>7. QED
  BY <1>1, <1>2, <1>3, <1>4, <1>5, <1>6, PostRows, WriteRows, RowRows,
     LostRows, AnsweredRows, CrashRows, TransferStarts, DepositStarts,
     TestStarts, TransferComputes DEF TransfersNext, DepositOrTest

\* The latest row of a wallet shows its balance, once no request is working on
\* it, unless two have written it at once, an administrator or a test credit
\* set it, or a write was lost (wallet.service.ts:466).
THEOREM RowsShowBalances == TransfersSpec => []LastRowShowsBalance
<1>1. TransfersInit => RowsInv
  BY InitRows
<1>2. TInv /\ RowsInv /\ [TransfersNext]_wvars => RowsInv'
  BY NextRows
<1>3. RowsInv => LastRowShowsBalance
  BY PendingIsOpen DEF RowsInv, LastRowShowsBalance
<1>4. QED
  BY <1>1, <1>2, <1>3, AlwaysTInv, PTL DEF TransfersSpec
=============================================================================
