----------------------- MODULE AlphaSpaceCardsProofs -----------------------
(***************************************************************************)
(* Proofs about AlphaSpaceToken and AlphaSpaceCards, for any handlers,     *)
(* amounts, opening balances and bounds: who goes to the provider without  *)
(* a token, that the row of the card and the refunds follow the provider   *)
(* but for what is spent, and that what a request did is what it tells.    *)
(***************************************************************************)
EXTENDS AlphaSpaceCards, SumLemmas, TLAPS

(***************************************************************************)
(* The token                                                               *)
(***************************************************************************)

\* A request that waits while nobody logs in finds a token, or the login it
\* waited for has failed.
WaitersAreServed ==
    \A h \in Handlers :
       /\ ask[h] = "none" => h \in let_down
       /\ ask[h] = "wait" /\ ~authenticating
             => token # "none" \/ h \in let_down

\* The flag is up exactly while one request logs in.
OneLogsIn ==
    /\ \A g, h \in Handlers : ask[g] = "login" /\ ask[h] = "login" => g = h
    /\ authenticating <=> \E h \in Handlers : ask[h] = "login"

TokenInv == TokenTypeOK /\ WaitersAreServed /\ OneLogsIn

\* What a step can do to the token.
GivesUp(h) ==
    /\ ask[h] \in {"have", "none", "failed"}
    /\ Reply(h, "no")
    /\ UNCHANGED <<token, authenticating, let_down>>

TokenMoves ==
    \/ \E h \in Handlers : \/ GetValidAccessToken(h) \/ Authenticate(h)
                           \/ StopWaiting(h) \/ GivesUp(h)
    \/ TokenExpires \/ ForgetToken \/ UNCHANGED tvars

LEMMA InitToken == TokenInit => TokenInv
  BY DEF TokenInit, TokenInv, TokenTypeOK, TokenStates, Asking,
         WaitersAreServed, OneLogsIn

\* Where a reply leaves the requests.
LEMMA Replies ==
  ASSUME TokenInv, NEW h \in Handlers, NEW answer \in Asking, Reply(h, answer)
  PROVE  /\ ask' \in [Handlers -> Asking] /\ ask'[h] = answer
         /\ \A g \in Handlers \ {h} : ask'[g] = ask[g]
  BY DEF TokenInv, TokenTypeOK, Reply

LEMMA StepToken ==
  ASSUME TokenInv, TokenMoves
  PROVE  TokenInv'
<1>1. /\ token \in TokenStates /\ authenticating \in BOOLEAN
      /\ ask \in [Handlers -> Asking] /\ let_down \subseteq Handlers
      /\ WaitersAreServed /\ OneLogsIn
  BY DEF TokenInv, TokenTypeOK
<1>2. ASSUME NEW h \in Handlers, GetValidAccessToken(h) PROVE TokenInv'
  <2>1. ask[h] = "no" /\ token' = token /\ let_down' = let_down \ {h}
    BY <1>2 DEF GetValidAccessToken
  <2>2. CASE token = "valid"
    <3>1. Reply(h, "have")
      BY <1>2, <2>2 DEF GetValidAccessToken
    <3>2. /\ ask' \in [Handlers -> Asking] /\ ask'[h] = "have"
          /\ \A g \in Handlers \ {h} : ask'[g] = ask[g]
      BY <3>1, Replies DEF Asking
    <3>3. authenticating' \in BOOLEAN /\ (authenticating' <=> authenticating)
      BY <1>1, <1>2, <2>2 DEF GetValidAccessToken
    <3>4. QED
      BY <1>1, <2>1, <3>2, <3>3
         DEF TokenInv, TokenTypeOK, WaitersAreServed, OneLogsIn
  <2>3. CASE token # "valid" /\ authenticating
    <3>1. Reply(h, "wait")
      BY <1>2, <2>3 DEF GetValidAccessToken
    <3>2. /\ ask' \in [Handlers -> Asking] /\ ask'[h] = "wait"
          /\ \A g \in Handlers \ {h} : ask'[g] = ask[g]
      BY <3>1, Replies DEF Asking
    <3>3. authenticating' \in BOOLEAN /\ authenticating'
      BY <1>1, <1>2, <2>3 DEF GetValidAccessToken
    <3>4. QED
      BY <1>1, <2>1, <2>3, <3>2, <3>3
         DEF TokenInv, TokenTypeOK, WaitersAreServed, OneLogsIn
  <2>4. CASE token # "valid" /\ ~authenticating
    <3>1. Reply(h, "login")
      BY <1>2, <2>4 DEF GetValidAccessToken
    <3>2. /\ ask' \in [Handlers -> Asking] /\ ask'[h] = "login"
          /\ \A g \in Handlers \ {h} : ask'[g] = ask[g]
      BY <3>1, Replies DEF Asking
    <3>3. authenticating' \in BOOLEAN /\ authenticating'
      BY <1>1, <1>2, <2>4 DEF GetValidAccessToken
    <3>4. QED
      BY <1>1, <2>1, <2>4, <3>2, <3>3
         DEF TokenInv, TokenTypeOK, WaitersAreServed, OneLogsIn
  <2>5. QED
    BY <2>2, <2>3, <2>4
<1>3. ASSUME NEW h \in Handlers, Authenticate(h) PROVE TokenInv'
  <2>1. ask[h] = "login" /\ authenticating' = FALSE
    BY <1>3 DEF Authenticate
  <2>2. PICK answer \in {"have", "failed"} :
           /\ Reply(h, answer)
           /\ \/ token' = "valid" /\ let_down' = let_down
              \/ /\ token' = "none"
                 /\ let_down' = let_down \cup
                                  {g \in Handlers : ask[g] = "wait"}
    BY <1>3 DEF Authenticate
  <2>3. /\ ask' \in [Handlers -> Asking] /\ ask'[h] = answer
        /\ \A g \in Handlers \ {h} : ask'[g] = ask[g]
    BY <2>2, Replies DEF Asking
  <2>4. token' \in TokenStates /\ let_down' \subseteq Handlers
    BY <1>1, <2>2 DEF TokenStates
  <2>5. WaitersAreServed'
    BY <1>1, <2>2, <2>3 DEF WaitersAreServed
  <2>6. OneLogsIn'
    BY <1>1, <2>1, <2>2, <2>3 DEF OneLogsIn
  <2>7. QED
    BY <2>1, <2>3, <2>4, <2>5, <2>6 DEF TokenInv, TokenTypeOK
<1>4. ASSUME NEW h \in Handlers, StopWaiting(h) PROVE TokenInv'
  <2>1. PICK answer \in {"have", "none"} :
           Reply(h, answer) /\ (answer = "none" <=> token = "none")
    BY <1>4 DEF StopWaiting
  <2>2. /\ ask' \in [Handlers -> Asking] /\ ask'[h] = answer
        /\ \A g \in Handlers \ {h} : ask'[g] = ask[g]
    BY <2>1, Replies DEF Asking
  <2>3. /\ ask[h] = "wait" /\ ~authenticating /\ token' = token
        /\ authenticating' = authenticating /\ let_down' = let_down
    BY <1>4 DEF StopWaiting
  <2>4. QED
    BY <1>1, <2>1, <2>2, <2>3
       DEF TokenInv, TokenTypeOK, WaitersAreServed, OneLogsIn
<1>5. ASSUME NEW h \in Handlers, GivesUp(h) PROVE TokenInv'
  <2>1. /\ ask' \in [Handlers -> Asking] /\ ask'[h] = "no"
        /\ \A g \in Handlers \ {h} : ask'[g] = ask[g]
    BY <1>5, Replies DEF Asking, GivesUp
  <2>2. /\ ask[h] # "login" /\ token' = token
        /\ authenticating' = authenticating /\ let_down' = let_down
    BY <1>5 DEF GivesUp
  <2>3. QED
    BY <1>1, <2>1, <2>2
       DEF TokenInv, TokenTypeOK, WaitersAreServed, OneLogsIn
<1>6. CASE TokenExpires
  BY <1>1, <1>6 DEF TokenExpires, TokenStates, TokenInv, TokenTypeOK,
     WaitersAreServed, OneLogsIn
<1>7. CASE ForgetToken
  BY <1>7 DEF ForgetToken, TokenStates, Asking, TokenInv, TokenTypeOK,
     WaitersAreServed, OneLogsIn
<1>8. CASE UNCHANGED tvars
  BY <1>1, <1>8 DEF tvars, TokenInv, TokenTypeOK, WaitersAreServed, OneLogsIn
<1>9. QED
  BY <1>2, <1>3, <1>4, <1>5, <1>6, <1>7, <1>8 DEF TokenMoves

\* What the steps of the requests do to the token is one of these.
LEMMA CardsMoveToken ==
  ASSUME [AlphaSpaceNext]_avars
  PROVE  TokenMoves
<1>1. ASSUME NEW h \in Handlers, GoesOn(h) \/ DatabaseFails(h)
      PROVE  TokenMoves
  <2>1. CASE AskToken(h) \/ AwaitToken(h)
    BY <2>1 DEF AskToken, AwaitToken, TokenStep, TokenMoves
  <2>2. CASE LoginRefused(h) \/ ProviderRefuses(h)
    BY <2>2 DEF LoginRefused, ProviderRefuses, Calls, MayCall, GivesUp,
       TokenMoves
  <2>3. CASE CallProvider(h)
    <3>1. MayCall(h) /\ Reply(h, "no")
          /\ UNCHANGED <<token, authenticating, let_down>>
      BY <2>3 DEF CallProvider, FundCardViaAlphaSpace, WithdrawViaAlphaSpace,
         FreezeAlphaSpaceCard, UnfreezeAlphaSpaceCard,
         TerminateAlphaSpaceCard, CarriesOut, Calls
    <3>2. QED
      BY <3>1 DEF MayCall, GivesUp, TokenMoves
  <2>4. CASE FundOrWithdraw(h) \/ Manage(h) \/ CollectFee(h)
             \/ DatabaseFails(h)
    <3>1. UNCHANGED tvars \/ VerifyBalance(h)
      BY <2>4 DEF FundOrWithdraw, Manage, CollectFee, DatabaseFails,
         CheckWallet, CheckBalance, InitializeWithdrawalTransaction,
         UpdateCardBalance, CreateFundingTransaction, CreditWallet,
         CompleteWithdrawalTransaction, HandleWithdrawalFailure,
         LogFundingSuccess, LogWithdrawalSuccess, LogCardManagementAction,
         LogSuccess, ProcessTerminationRefund, RefundTransaction,
         UpdateLocalCardStatus, ReadFeeSource, TakeFeeFromCard,
         TakeFeeFromWallet, CreatePaymentDebt, RecordFee
    <3>2. QED
      BY <3>1 DEF VerifyBalance, Calls, MayCall, GivesUp, TokenMoves
  <2>5. CASE Issue(h)
    BY <2>5 DEF Issue, CreateCardholder, IssueCard, Calls, MayCall, GivesUp,
       TokenMoves
  <2>6. QED
    BY <1>1, <2>1, <2>2, <2>3, <2>4, <2>5 DEF GoesOn
<1>2. QED
  BY <1>1 DEF AlphaSpaceNext, Start, Expire, Crash, CardIsUsed, avars,
     TokenMoves

LEMMA AlwaysTokenInv == AlphaSpaceSpec => []TokenInv
<1>1. AlphaSpaceInit => TokenInv
  BY InitToken DEF AlphaSpaceInit
<1>2. TokenInv /\ [AlphaSpaceNext]_avars => TokenInv'
  BY CardsMoveToken, StepToken
<1>3. QED
  BY <1>1, <1>2, PTL DEF AlphaSpaceSpec

\* A request goes to the provider without a token only if a login failed
\* while it waited for one, and at most one login is under way
\* (AlphaSpaceAuthService.getValidAccessToken).
THEOREM TokenlessHaveBeenLetDown ==
  AlphaSpaceSpec => []TokenlessOnlyAfterFailure
<1>1. TokenInv => TokenlessOnlyAfterFailure
  <2> SUFFICES ASSUME TokenInv PROVE TokenlessOnlyAfterFailure
    OBVIOUS
  <2> DEFINE In == {h \in Handlers : ask[h] = "login"}
  <2>1. \A h \in Handlers : ask[h] = "none" => h \in let_down
    BY DEF TokenInv, WaitersAreServed
  <2>2. Cardinality(In) = IF authenticating THEN 1 ELSE 0
    <3>1. CASE authenticating
      <4>1. PICK h \in Handlers : In = {h}
        BY <3>1 DEF TokenInv, OneLogsIn
      <4>2. QED
        BY <3>1, <4>1, FS_Singleton
    <3>2. CASE ~authenticating
      <4>1. In = {}
        BY <3>2 DEF TokenInv, OneLogsIn
      <4>2. QED
        BY <3>2, <4>1, FS_EmptySet
    <3>3. QED
      BY <3>1, <3>2
  <2>3. QED
    BY <2>1, <2>2 DEF TokenlessOnlyAfterFailure
<1>2. QED
  BY <1>1, AlwaysTokenInv, PTL

-----------------------------------------------------------------------------
(***************************************************************************)
(* The requests                                                            *)
(***************************************************************************)
FeeSteps == {"feecard", "feecardtake", "feecardrow", "feewallet",
             "feewallettake", "feewalletrow", "debt", "debtrow"}

\* AlphaSpace has carried the request out, and the row of the card does not
\* follow yet; ... and the row follows.
Pending == {"writecard", "refund", "refundrow", "status"}
Followed == {"fundrow", "credit", "complete", "log"}

\* The steps a request goes through, and what it has done on the way.
Place(r) ==
    /\ r.call = "none" <=> r.pc = "idle"
    /\ r.call = "fund" =>
          r.pc \in {"wallet", "call", "writecard", "fundrow", "log"}
    /\ r.call = "withdraw" =>
          r.pc \in {"balance", "verify", "initrow", "call", "writecard",
                    "credit", "complete", "log", "failrow"}
    /\ r.call \in {"freeze", "unfreeze"} => r.pc \in {"call", "status", "log"}
    /\ r.call = "terminate" =>
          r.pc \in {"call", "refund", "refundrow", "status", "log"}
    /\ r.call = "issue" => r.pc \in {"holder", "issue"}
    /\ r.call = "fee" => r.pc \in FeeSteps
    /\ r.pc \in Pending => r.there /\ ~r.here
    /\ r.pc \in Followed => r.there /\ r.here
    /\ r.pc \notin Pending \cup Followed \cup {"failrow"}
          => ~r.there /\ ~r.here

\* What a withdrawal has written so far, and which source a fee came from.
Story(r) ==
    /\ r.call = "withdraw" =>
          /\ r.pc \in {"balance", "verify", "initrow"} => r.row = "none"
          /\ r.pc \in {"call", "writecard", "credit", "complete"}
                => r.row = "PENDING"
          /\ r.pc = "complete" => r.paid
          /\ r.pc = "log" => r.row = "SUCCESS"
          /\ r.pc = "failrow" => /\ r.row \in {"PENDING", "SUCCESS"}
                                 /\ r.there => r.broken
          /\ r.paid => r.there
          /\ r.row = "SUCCESS" => r.paid
    /\ r.call = "fee" =>
          /\ r.pc \in {"feecardrow", "feewalletrow", "debtrow"} => r.took # {}
          /\ ~r.broken => r.took = IF r.pc = "feecardrow" THEN {"card"}
                                   ELSE IF r.pc = "feewalletrow"
                                   THEN {"wallet"}
                                   ELSE IF r.pc = "debtrow" THEN {"debt"}
                                   ELSE {}

Told(o) ==
    /\ o.call = "withdraw" =>
          /\ o.paid => o.there
          /\ o.row = "SUCCESS" => o.paid
          /\ ~o.broken => o.there = (o.row = "SUCCESS")
    /\ o.call = "fee" =>
          /\ ~o.broken => Cardinality(o.took) = 1 /\ o.ok
          /\ o.ok => o.took # {}

RequestInv ==
    /\ op \in [Handlers -> Request]
    /\ over \subseteq Outcome
    /\ \A h \in Handlers : Place(op[h]) /\ Story(op[h])
    /\ \A o \in over : Told(o)

\* The request h is another one now, and what is over is told.
Becomes(h, r) == r \in Request /\ op' = [op EXCEPT ![h] = r]
Tells == \A o \in over' \ over : o \in Outcome /\ Told(o)
GoodRequest(r) == Place(r) /\ Story(r)

LEMMA StepNames ==
  Steps = {"verify", "call", "holder", "issue", "idle", "wallet", "balance",
           "initrow", "writecard", "credit", "complete", "fundrow", "log",
           "failrow", "refund", "refundrow", "status", "feecard",
           "feecardtake", "feecardrow", "feewallet", "feewallettake",
           "feewalletrow", "debt", "debtrow"}
  BY DEF Steps, TokenSteps

LEMMA Calling == Kinds = {"freeze", "unfreeze", "terminate", "fund",
                          "withdraw", "fee", "issue"}
  BY DEF Kinds, Managed, Money

LEMMA IdleRequest == Idle \in Request /\ GoodRequest(Idle)
  BY StepNames DEF Idle, Request, RowStatus, GoodRequest, Place, Story,
     Pending, Followed

\* A request that ends leaves its outcome.
OutcomeOf(r, ok) == [call |-> r.call, ok |-> ok, row |-> r.row,
                     there |-> r.there, paid |-> r.paid, took |-> r.took,
                     broken |-> r.broken]

LEMMA Ending ==
  ASSUME NEW h \in Handlers, NEW r \in Request, r.call # "none",
         NEW ok \in BOOLEAN, Told(OutcomeOf(r, ok)), Finish(h, r, ok)
  PROVE  Becomes(h, Idle) /\ Tells
<1>1. OutcomeOf(r, ok) \in Outcome
  BY Calling DEF OutcomeOf, Outcome, Request
<1>2. over' = over \cup {OutcomeOf(r, ok)}
  BY DEF Finish, OutcomeOf
<1>3. QED
  BY <1>1, <1>2, IdleRequest DEF Finish, Becomes, Tells

\* The form a request has when it fails.
Failing(p, r) ==
    /\ r \in Request
    /\ r.call = p.call /\ r.pc = p.pc /\ r.row = p.row /\ r.took = p.took
    /\ r.paid = p.paid /\ r.here = p.here
    /\ p.there => r.there
    /\ r.there => p.there \/ p.pc = "call"
    /\ r.there => r.broken
    /\ r.call = "fee" => r.broken
    /\ r.pc \notin {"failrow", "idle"}

LEMMA FailureMoves ==
  ASSUME RequestInv, NEW h \in Handlers, NEW r, Failing(op[h], r), Fails(h, r)
  PROVE  \E q : /\ Becomes(h, q) /\ GoodRequest(q) /\ Tells
                /\ q.pc \in {"idle", "failrow", "feewallet", "debt"}
                /\ q.call \in {r.call, "none"}
                /\ q.pc = "failrow" => q.there = r.there /\ q.here = r.here
<1> DEFINE p == op[h]
<1>1. /\ p \in Request /\ r \in Request /\ Place(p) /\ Story(p)
      /\ op \in [Handlers -> Request]
  BY DEF RequestInv, Failing
<1>2. r.call # "none"
  BY <1>1 DEF Failing, Place
<1>3. CASE ErrorLeadsTo(r) = "idle"
  <2>1. Finish(h, r, FALSE)
    BY <1>3 DEF Fails
  <2>2. /\ r.call = "withdraw" => r.row = "none"
        /\ r.pc \notin {"feecard", "feecardtake", "feecardrow", "feewallet",
                        "feewallettake", "feewalletrow"}
    BY <1>3 DEF ErrorLeadsTo
  <2>3. r.call = "withdraw" => r.pc \in {"balance", "verify", "initrow"}
    BY <1>1, <2>2 DEF Failing, Place, Story
  <2>4. r.call = "withdraw" => ~r.there /\ ~r.paid
    BY <1>1, <2>3 DEF Failing, Place, Story, Pending, Followed
  <2>5. r.call = "fee" => r.broken
    BY DEF Failing
  <2>6. Told(OutcomeOf(r, FALSE))
    <3>1. r.call = "withdraw" => ~r.there /\ ~r.paid /\ r.row # "SUCCESS"
      BY <2>2, <2>4
    <3> DEFINE o == OutcomeOf(r, FALSE)
    <3>2. /\ o.call = r.call /\ o.row = r.row /\ o.there = r.there
          /\ o.paid = r.paid /\ o.broken = r.broken /\ o.ok = FALSE
      BY DEF OutcomeOf
    <3>3. o.call = "withdraw" =>
             /\ ~o.paid /\ o.row # "SUCCESS"
             /\ o.there = FALSE
      BY <1>1, <3>1, <3>2 DEF Request
    <3> HIDE DEF o
    <3>4. Told(o)
      BY <2>5, <3>2, <3>3 DEF Told
    <3>5. QED
      BY <3>4 DEF o
  <2>7. Becomes(h, Idle) /\ Tells
    BY <1>1, <1>2, <2>1, <2>6, Ending
  <2>8. Idle.pc = "idle" /\ Idle.call = "none"
    BY DEF Idle
  <2>9. QED
    BY <2>7, <2>8, IdleRequest
<1>4. CASE ErrorLeadsTo(r) # "idle"
  <2> DEFINE pc == ErrorLeadsTo(r)
             q == [r EXCEPT !.pc = pc]
  <2>1. op' = [op EXCEPT ![h] = q] /\ over' = over
    BY <1>4 DEF Fails
  <2>2. /\ pc \in {"failrow", "feewallet", "debt"}
        /\ pc = "failrow" => r.call = "withdraw" /\ r.row # "none"
        /\ pc = "feewallet" => r.pc \in {"feecard", "feecardtake",
                                         "feecardrow"}
        /\ pc = "debt" => r.pc \in {"feewallet", "feewallettake",
                                    "feewalletrow"}
    BY <1>4 DEF ErrorLeadsTo
  <2> HIDE DEF pc
  <2>3. /\ q \in Request /\ q.pc = pc /\ q.call = r.call /\ q.row = r.row
        /\ q.there = r.there /\ q.here = r.here /\ q.paid = r.paid
        /\ q.took = r.took /\ q.broken = r.broken
    BY <1>1, <2>2, StepNames DEF Request
  <2> HIDE DEF q
  <2>4. pc # "failrow" => r.call = "fee" /\ ~r.there /\ ~r.here
    <3>1. pc # "failrow" => p.pc \in FeeSteps
      BY <2>2 DEF Failing, FeeSteps
    <3>2. p.pc \in FeeSteps => p.call = "fee" /\ ~p.there /\ ~p.here
      BY <1>1, Calling DEF Place, FeeSteps, Pending, Followed, Request
    <3>3. p.pc \in FeeSteps => p.pc # "call"
      BY DEF FeeSteps
    <3>4. QED
      BY <3>1, <3>2, <3>3 DEF Failing
  <2>5. Place(q)
    BY <2>2, <2>3, <2>4 DEF Place, FeeSteps, Pending, Followed
  <2>6. Story(q)
    <3>1. CASE pc = "failrow"
      <4>1. r.call = "withdraw" /\ r.row # "none"
        BY <2>2, <3>1
      <4>2. r.row \in {"PENDING", "SUCCESS"}
        BY <1>1, <4>1 DEF Failing, Place, Story
      <4>3. r.there => r.broken
        BY <4>1 DEF Failing
      <4>4. (r.paid => r.there) /\ (r.row = "SUCCESS" => r.paid)
        BY <1>1, <4>1 DEF Failing, Story
      <4>5. QED
        BY <2>3, <3>1, <4>1, <4>2, <4>3, <4>4 DEF Story
    <3>2. CASE pc # "failrow"
      BY <2>2, <2>3, <2>4, <3>2 DEF Failing, Story
    <3>3. QED
      BY <3>1, <3>2
  <2>7. Becomes(h, q) /\ Tells
    BY <2>1, <2>3 DEF Becomes, Tells
  <2>8. QED
    BY <2>2, <2>3, <2>5, <2>6, <2>7 DEF GoodRequest
<1>5. QED
  BY <1>3, <1>4

-----------------------------------------------------------------------------
(***************************************************************************)
(* What a step does to the request, to the card and to its copy            *)
(***************************************************************************)
CardKept == /\ card' = card /\ provider' = provider /\ cardFees' = cardFees
            /\ spent' = spent /\ returned' = returned
            /\ refunded' = refunded

\* The card and what is told of it stay as they are.
Aside(h, q) ==
    /\ CardKept
    /\ q.call \in {op[h].call, "none"}
    /\ op[h].pc \in Pending \/ q.pc \in Pending
          => /\ op[h].pc = "refundrow" /\ q.pc = "status"
             /\ q.call = op[h].call /\ q.seen = op[h].seen
    /\ q.pc = "failrow" => (q.there => q.here)
    /\ ~(q.call = "terminate" /\ q.pc = "call")

Started(h, q) ==
    /\ CardKept
    /\ op[h].call = "none" /\ q.pc \notin Pending \cup {"failrow"}
    /\ q.seen = card.balance
    /\ \A g \in Handlers :
          op[g].call # "none" => ~Conflicting(q.call, op[g].call)

\* AlphaSpace carries the request out.
Carried(h, q) ==
    /\ op[h].pc = "call" /\ q.call = op[h].call /\ q.seen = op[h].seen
    /\ card' = card /\ cardFees' = cardFees /\ refunded' = refunded
    /\ \/ q.call = "fund" /\ q.pc = "writecard" /\ provider' = Funded
       \/ q.call = "withdraw" /\ q.pc = "writecard" /\ provider' = Withdrawn
       \/ q.call = "freeze" /\ q.pc = "status" /\ provider' = Frozen
       \/ q.call = "unfreeze" /\ q.pc = "status" /\ provider' = Unfrozen
       \/ /\ q.call = "terminate" /\ provider' = Terminated
          /\ q.pc = IF op[h].seen > 0 THEN "refund" ELSE "status"
    /\ spent' = spent
    /\ returned' = IF q.call = "terminate" THEN returned + provider.balance
                   ELSE returned

\* The row of the card follows a funding, a withdrawal or an order.
Booked(h, q) ==
    /\ op[h].pc = "writecard" /\ q.call = op[h].call
    /\ q.pc \in {"fundrow", "credit"}
    /\ card' = [card EXCEPT !.balance = IF q.call = "fund" THEN @ + Amount
                                                           ELSE @ - Amount]
    /\ provider' = provider /\ cardFees' = cardFees /\ spent' = spent
    /\ returned' = returned /\ refunded' = refunded

Ordered(h, q) ==
    /\ op[h].pc = "status" /\ q.call = op[h].call /\ q.pc = "log"
    /\ \/ /\ q.call = "freeze" /\ cardFees' = cardFees
          /\ card' = [card EXCEPT !.status = "FROZEN"]
       \/ /\ q.call = "unfreeze" /\ cardFees' = cardFees
          /\ card' = [card EXCEPT !.status = "ACTIVE"]
       \/ /\ q.call = "terminate"
          /\ cardFees' = IF card.balance < 0 THEN cardFees + card.balance
                         ELSE cardFees
          /\ card' = [status |-> "TERMINATED", balance |-> 0]
    /\ provider' = provider /\ spent' = spent /\ returned' = returned
    /\ refunded' = refunded

PaidBack(h, q) ==
    /\ op[h].pc = "refund" /\ q.call = op[h].call /\ q.pc = "refundrow"
    /\ q.seen = op[h].seen
    /\ refunded' = refunded + op[h].seen
    /\ card' = card /\ provider' = provider /\ cardFees' = cardFees
    /\ spent' = spent /\ returned' = returned

FeeTaken(h, q) ==
    /\ op[h].call = "fee" /\ q.call = "fee"
    /\ op[h].pc \notin Pending /\ q.pc \notin Pending \cup {"failrow"}
    /\ card' = [card EXCEPT !.balance = @ - Fee]
    /\ cardFees' = cardFees + Fee
    /\ provider' = provider /\ spent' = spent /\ returned' = returned
    /\ refunded' = refunded

Effect(h, q) ==
    \/ Aside(h, q) \/ Started(h, q) \/ Carried(h, q) \/ Booked(h, q)
    \/ Ordered(h, q) \/ PaidBack(h, q) \/ FeeTaken(h, q)

\* One step of one request, seen as an effect unless it puts the copies apart.
Proceeds(h) ==
    \E q : /\ Becomes(h, q) /\ GoodRequest(q) /\ Tells
           /\ disturbed' \/ (~disturbed /\ Effect(h, q))

LEMMA FailureProceeds ==
  ASSUME RequestInv, disturbed \in BOOLEAN, NEW h \in Handlers,
         NEW r, Failing(op[h], r), Fails(h, r),
         CardKept \/ (r.there /\ ~r.here)
  PROVE  Proceeds(h)
<1>1. PICK q : /\ Becomes(h, q) /\ GoodRequest(q) /\ Tells
               /\ q.pc \in {"idle", "failrow", "feewallet", "debt"}
               /\ q.call \in {r.call, "none"}
               /\ q.pc = "failrow" => q.there = r.there /\ q.here = r.here
  BY FailureMoves
<1>2. CASE disturbed \/ (r.there /\ ~r.here)
  <2>1. disturbed' = TRUE
    BY <1>2 DEF Fails
  <2>2. QED
    BY <1>1, <2>1 DEF Proceeds
<1>3. CASE ~disturbed /\ ~(r.there /\ ~r.here)
  <2>1. Place(op[h]) /\ Place(q) /\ op[h] \in Request
    BY <1>1 DEF RequestInv, GoodRequest
  <2>2. op[h].pc \notin Pending
    <3>1. op[h].pc \in Pending => r.there /\ ~r.here
      BY <2>1 DEF Failing, Place, Pending
    <3>2. QED
      BY <1>3, <3>1 DEF Failing
  <2>3. q.pc = "failrow" => (q.there => q.here)
    BY <1>1, <1>3
  <2>4. q.pc \notin Pending /\ q.pc # "call"
    BY <1>1 DEF Pending
  <2>5. CardKept
    BY <1>3
  <2>6. Aside(h, q)
    BY <1>1, <1>3, <2>2, <2>3, <2>4, <2>5 DEF Aside, Failing
  <2>7. QED
    BY <1>1, <1>3, <2>6 DEF Proceeds, Effect
<1>4. QED
  BY <1>2, <1>3

LEMMA EndProceeds ==
  ASSUME RequestInv, disturbed \in BOOLEAN, disturbed' = disturbed, CardKept,
         NEW h \in Handlers, op[h].pc \notin Pending \cup {"idle"},
         NEW r \in Request, r.call = op[h].call,
         NEW ok \in BOOLEAN, Told(OutcomeOf(r, ok)), Finish(h, r, ok)
  PROVE  Proceeds(h)
<1>1. Place(op[h])
  BY DEF RequestInv
<1>2. r.call # "none"
  BY <1>1 DEF Place
<1>3. Becomes(h, Idle) /\ Tells
  BY <1>2, Ending
<1>4. Aside(h, Idle)
  BY DEF Aside, Idle, Pending
<1>5. QED
  BY <1>3, <1>4, IdleRequest DEF Proceeds, Effect

LEMMA MoveProceeds ==
  ASSUME RequestInv, disturbed \in BOOLEAN, disturbed' = disturbed,
         over' = over, NEW h \in Handlers,
         NEW r \in Request, op' = [op EXCEPT ![h] = r], GoodRequest(r),
         \/ /\ CardKept /\ r.call = op[h].call
            /\ \/ /\ op[h].pc \notin Pending
                  /\ r.pc \notin Pending \cup {"failrow"}
                  /\ ~(r.call = "terminate" /\ r.pc = "call")
               \/ /\ op[h].pc = "refundrow" /\ r.pc = "status"
                  /\ r.seen = op[h].seen
         \/ Effect(h, r)
  PROVE  Proceeds(h)
<1>1. Becomes(h, r) /\ Tells
  BY DEF Becomes, Tells
<1>2. Effect(h, r)
  BY DEF Effect, Aside
<1>3. QED
  BY <1>1, <1>2 DEF Proceeds

-----------------------------------------------------------------------------
(***************************************************************************)
(* The steps, one by one                                                   *)
(***************************************************************************)
MoneyTypeOK ==
    /\ card \in [status : CardStatus, balance : Int]
    /\ provider \in [status : CardStatus, balance : Nat]
    /\ wallet \in Int
    /\ cardFees \in Int /\ spent \in Nat /\ returned \in Nat
    /\ refunded \in Int
    /\ disturbed \in BOOLEAN
    /\ calls \in 0..MaxCalls /\ troubles \in 0..MaxTroubles

StepInv == RequestInv /\ MoneyTypeOK

LEMMA Constants ==
  /\ Amount \in Nat \ {0} /\ Fee \in Nat \ {0}
  /\ OpeningWallet \in Nat /\ OpeningCard \in Nat
  /\ MaxCalls \in Nat /\ MaxTroubles \in Nat
  /\ IsFiniteSet(Handlers)
  BY AlphaSpaceAssumption

LEMMA Known ==
  ASSUME StepInv, NEW h \in Handlers
  PROVE  /\ RequestInv /\ disturbed \in BOOLEAN
         /\ op \in [Handlers -> Request] /\ op[h] \in Request
         /\ Place(op[h]) /\ Story(op[h])
  BY DEF StepInv, MoneyTypeOK, RequestInv

LEMMA CheckWalletProceeds ==
  ASSUME StepInv, NEW h \in Handlers, CheckWallet(h)
  PROVE  Proceeds(h)
<1>1. CardKept /\ disturbed' = disturbed /\ op[h].pc = "wallet"
  BY DEF CheckWallet, money, CardKept
<1>2. op[h].call = "fund" /\ ~op[h].there /\ ~op[h].here
  BY <1>1, Known, Calling DEF Place, Pending, Followed, FeeSteps, Request
<1>3. CASE Goto(h, "call") /\ over' = over
  <2> DEFINE r == [op[h] EXCEPT !.pc = "call"]
  <2>1. op' = [op EXCEPT ![h] = r]
    BY <1>3, Known DEF Goto
  <2>2. /\ r \in Request /\ r.call = "fund" /\ r.pc = "call"
        /\ ~r.there /\ ~r.here
    BY <1>2, Known, StepNames DEF Request
  <2> HIDE DEF r
  <2>3. GoodRequest(r)
    BY <2>2 DEF GoodRequest, Place, Story, Pending, Followed
  <2>4. QED
    BY <1>1, <1>2, <1>3, <2>1, <2>2, <2>3, Known, MoveProceeds
       DEF Pending
<1>4. CASE Finish(h, op[h], FALSE)
  <2>1. Told(OutcomeOf(op[h], FALSE))
    BY <1>2 DEF Told, OutcomeOf
  <2>2. QED
    BY <1>1, <1>2, <1>4, <2>1, Known, EndProceeds DEF Pending
<1>5. QED
  BY <1>3, <1>4 DEF CheckWallet

LEMMA CheckBalanceProceeds ==
  ASSUME StepInv, NEW h \in Handlers, CheckBalance(h)
  PROVE  Proceeds(h)
<1>1. CardKept /\ disturbed' = disturbed /\ op[h].pc = "balance"
  BY DEF CheckBalance, money, CardKept
<1>2. /\ op[h].call = "withdraw" /\ ~op[h].there /\ ~op[h].here
      /\ op[h].row = "none" /\ ~op[h].paid
  BY <1>1, Known, Calling
     DEF Place, Story, Pending, Followed, FeeSteps, Request
<1>3. CASE Goto(h, "verify") /\ over' = over
  <2> DEFINE r == [op[h] EXCEPT !.pc = "verify"]
  <2>1. op' = [op EXCEPT ![h] = r]
    BY <1>3, Known DEF Goto
  <2>2. /\ r \in Request /\ r.call = "withdraw" /\ r.pc = "verify"
        /\ ~r.there /\ ~r.here /\ r.row = "none" /\ ~r.paid
    BY <1>2, Known, StepNames DEF Request
  <2> HIDE DEF r
  <2>3. GoodRequest(r)
    BY <2>2 DEF GoodRequest, Place, Story, Pending, Followed
  <2>4. QED
    BY <1>1, <1>2, <1>3, <2>1, <2>2, <2>3, Known, MoveProceeds
       DEF Pending
<1>4. CASE Finish(h, op[h], FALSE)
  <2>1. op[h].there = FALSE
    BY <1>2, Known DEF Request
  <2>2. Told(OutcomeOf(op[h], FALSE))
    BY <1>2, <2>1 DEF Told, OutcomeOf
  <2>3. QED
    BY <1>1, <1>4, <2>2, Known, EndProceeds DEF Pending
<1>5. QED
  BY <1>3, <1>4 DEF CheckBalance

LEMMA VerifyBalanceProceeds ==
  ASSUME StepInv, NEW h \in Handlers, VerifyBalance(h)
  PROVE  Proceeds(h)
<1>1. CardKept /\ disturbed' = disturbed /\ op[h].pc = "verify"
  BY DEF VerifyBalance, Calls, money, CardKept
<1>2. /\ op[h].call = "withdraw" /\ ~op[h].there /\ ~op[h].here
      /\ op[h].row = "none" /\ ~op[h].paid
  BY <1>1, Known, Calling
     DEF Place, Story, Pending, Followed, FeeSteps, Request
<1>3. CASE Goto(h, "initrow") /\ over' = over
  <2> DEFINE r == [op[h] EXCEPT !.pc = "initrow"]
  <2>1. op' = [op EXCEPT ![h] = r]
    BY <1>3, Known DEF Goto
  <2>2. /\ r \in Request /\ r.call = "withdraw" /\ r.pc = "initrow"
        /\ ~r.there /\ ~r.here /\ r.row = "none" /\ ~r.paid
    BY <1>2, Known, StepNames DEF Request
  <2> HIDE DEF r
  <2>3. GoodRequest(r)
    BY <2>2 DEF GoodRequest, Place, Story, Pending, Followed
  <2>4. QED
    BY <1>1, <1>2, <1>3, <2>1, <2>2, <2>3, Known, MoveProceeds
       DEF Pending
<1>4. CASE Finish(h, op[h], FALSE)
  <2>1. op[h].there = FALSE
    BY <1>2, Known DEF Request
  <2>2. Told(OutcomeOf(op[h], FALSE))
    BY <1>2, <2>1 DEF Told, OutcomeOf
  <2>3. QED
    BY <1>1, <1>4, <2>2, Known, EndProceeds DEF Pending
<1>5. QED
  BY <1>3, <1>4 DEF VerifyBalance

LEMMA InitializeProceeds ==
  ASSUME StepInv, NEW h \in Handlers, InitializeWithdrawalTransaction(h)
  PROVE  Proceeds(h)
<1>1. CardKept /\ disturbed' = disturbed /\ over' = over
      /\ op[h].pc = "initrow"
  BY DEF InitializeWithdrawalTransaction, money, ledger, CardKept
<1>2. /\ op[h].call = "withdraw" /\ ~op[h].there /\ ~op[h].here
      /\ ~op[h].paid
  BY <1>1, Known, Calling
     DEF Place, Story, Pending, Followed, FeeSteps, Request
<1> DEFINE r == [op[h] EXCEPT !.row = "PENDING", !.pc = "call"]
<1>3. op' = [op EXCEPT ![h] = r]
  BY Known DEF InitializeWithdrawalTransaction
<1>4. /\ r \in Request /\ r.call = "withdraw" /\ r.pc = "call"
      /\ ~r.there /\ ~r.here /\ r.row = "PENDING" /\ ~r.paid
  BY <1>2, Known, StepNames DEF Request, RowStatus
<1> HIDE DEF r
<1>5. GoodRequest(r)
  BY <1>4 DEF GoodRequest, Place, Story, Pending, Followed
<1>6. QED
  BY <1>1, <1>2, <1>3, <1>4, <1>5, Known, MoveProceeds DEF Pending

LEMMA UpdateCardBalanceProceeds ==
  ASSUME StepInv, NEW h \in Handlers, UpdateCardBalance(h)
  PROVE  Proceeds(h)
<1>1. /\ disturbed' = disturbed /\ over' = over /\ op[h].pc = "writecard"
      /\ provider' = provider /\ cardFees' = cardFees /\ spent' = spent
      /\ returned' = returned /\ refunded' = refunded
  BY DEF UpdateCardBalance, ledger
<1>2. /\ op[h].call \in {"fund", "withdraw"} /\ op[h].there
      /\ op[h].call = "withdraw" => op[h].row = "PENDING"
  BY <1>1, Known, Calling
     DEF Place, Story, Pending, Followed, FeeSteps, Request
<1> DEFINE pc == IF op[h].call = "fund" THEN "fundrow" ELSE "credit"
           r == [op[h] EXCEPT !.here = TRUE, !.pc = pc]
<1>3. op' = [op EXCEPT ![h] = r]
  BY Known DEF UpdateCardBalance
<1>4. /\ r \in Request /\ r.call = op[h].call /\ r.pc = pc
      /\ r.there /\ r.here /\ r.row = op[h].row
      /\ r.paid = op[h].paid
  BY <1>2, Known, StepNames DEF Request
<1>5. card' = [card EXCEPT !.balance = IF r.call = "fund" THEN @ + Amount
                                                          ELSE @ - Amount]
  BY <1>4 DEF UpdateCardBalance
<1> HIDE DEF r
<1>6. GoodRequest(r)
  BY <1>2, <1>4 DEF GoodRequest, Place, Story, Pending, Followed
<1>7. Booked(h, r)
  BY <1>1, <1>4, <1>5 DEF Booked
<1>8. QED
  BY <1>1, <1>3, <1>4, <1>6, <1>7, Known, MoveProceeds DEF Effect

LEMMA CreateFundingProceeds ==
  ASSUME StepInv, NEW h \in Handlers, CreateFundingTransaction(h)
  PROVE  Proceeds(h)
<1>1. CardKept /\ disturbed' = disturbed /\ over' = over
      /\ op[h].pc = "fundrow"
  BY DEF CreateFundingTransaction, money, ledger, CardKept
<1>2. op[h].call = "fund" /\ op[h].there /\ op[h].here
  BY <1>1, Known, Calling
     DEF Place, Story, Pending, Followed, FeeSteps, Request
<1> DEFINE r == [op[h] EXCEPT !.row = "SUCCESS", !.pc = "log"]
<1>3. op' = [op EXCEPT ![h] = r]
  BY Known DEF CreateFundingTransaction
<1>4. r \in Request /\ r.call = "fund" /\ r.pc = "log" /\ r.there /\ r.here
  BY <1>2, Known, StepNames DEF Request, RowStatus
<1> HIDE DEF r
<1>5. GoodRequest(r)
  BY <1>4 DEF GoodRequest, Place, Story, Pending, Followed
<1>6. QED
  BY <1>1, <1>2, <1>3, <1>4, <1>5, Known, MoveProceeds DEF Pending

LEMMA CreditWalletProceeds ==
  ASSUME StepInv, NEW h \in Handlers, CreditWallet(h)
  PROVE  Proceeds(h)
<1>1. CardKept /\ disturbed' = disturbed /\ over' = over
      /\ op[h].pc = "credit"
  BY DEF CreditWallet, ledger, CardKept
<1>2. /\ op[h].call = "withdraw" /\ op[h].there /\ op[h].here
      /\ op[h].row = "PENDING"
  BY <1>1, Known, Calling
     DEF Place, Story, Pending, Followed, FeeSteps, Request
<1> DEFINE r == [op[h] EXCEPT !.paid = TRUE, !.pc = "complete"]
<1>3. op' = [op EXCEPT ![h] = r]
  BY Known DEF CreditWallet
<1>4. /\ r \in Request /\ r.call = "withdraw" /\ r.pc = "complete"
      /\ r.there /\ r.here /\ r.row = "PENDING" /\ r.paid
  BY <1>2, Known, StepNames DEF Request
<1> HIDE DEF r
<1>5. GoodRequest(r)
  BY <1>4 DEF GoodRequest, Place, Story, Pending, Followed
<1>6. QED
  BY <1>1, <1>2, <1>3, <1>4, <1>5, Known, MoveProceeds DEF Pending

LEMMA CompleteProceeds ==
  ASSUME StepInv, NEW h \in Handlers, CompleteWithdrawalTransaction(h)
  PROVE  Proceeds(h)
<1>1. CardKept /\ disturbed' = disturbed /\ over' = over
      /\ op[h].pc = "complete"
  BY DEF CompleteWithdrawalTransaction, money, ledger, CardKept
<1>2. /\ op[h].call = "withdraw" /\ op[h].there /\ op[h].here /\ op[h].paid
  BY <1>1, Known, Calling
     DEF Place, Story, Pending, Followed, FeeSteps, Request
<1> DEFINE r == [op[h] EXCEPT !.row = "SUCCESS", !.pc = "log"]
<1>3. op' = [op EXCEPT ![h] = r]
  BY Known DEF CompleteWithdrawalTransaction
<1>4. /\ r \in Request /\ r.call = "withdraw" /\ r.pc = "log"
      /\ r.there /\ r.here /\ r.row = "SUCCESS" /\ r.paid
  BY <1>2, Known, StepNames DEF Request, RowStatus
<1> HIDE DEF r
<1>5. GoodRequest(r)
  BY <1>4 DEF GoodRequest, Place, Story, Pending, Followed
<1>6. QED
  BY <1>1, <1>2, <1>3, <1>4, <1>5, Known, MoveProceeds DEF Pending

LEMMA LogProceeds ==
  ASSUME StepInv, NEW h \in Handlers, NEW logged, LogSuccess(h, logged)
  PROVE  Proceeds(h)
<1>1. CardKept /\ disturbed' = disturbed /\ op[h].pc = "log"
      /\ Finish(h, op[h], TRUE)
  BY DEF LogSuccess, money, CardKept
<1>2. /\ op[h].call # "fee" /\ op[h].there
      /\ op[h].call = "withdraw" => op[h].row = "SUCCESS" /\ op[h].paid
  BY <1>1, Known DEF Place, Story, Pending, Followed, FeeSteps
<1>3. op[h].there = TRUE
  BY <1>2, Known DEF Request
<1>4. Told(OutcomeOf(op[h], TRUE))
  BY <1>2, <1>3 DEF Told, OutcomeOf
<1>5. QED
  BY <1>1, <1>4, Known, EndProceeds DEF Pending

LEMMA WithdrawalFailureProceeds ==
  ASSUME StepInv, NEW h \in Handlers, HandleWithdrawalFailure(h)
  PROVE  Proceeds(h)
<1>1. CardKept /\ disturbed' = disturbed /\ op[h].pc = "failrow"
  BY DEF HandleWithdrawalFailure, money, CardKept
<1>2. /\ op[h].call = "withdraw"
      /\ op[h].there => op[h].broken
      /\ op[h].paid => op[h].there
      /\ op[h].row = "SUCCESS" => op[h].paid
  BY <1>1, Known, Calling
     DEF Place, Story, Pending, Followed, FeeSteps, Request
<1>3. CASE Finish(h, [op[h] EXCEPT !.row = "FAILED"], FALSE)
  <2> DEFINE r == [op[h] EXCEPT !.row = "FAILED"]
  <2>1. /\ r \in Request /\ r.call = "withdraw" /\ r.row = "FAILED"
        /\ r.there = op[h].there /\ r.paid = op[h].paid
        /\ r.broken = op[h].broken
    BY <1>2, Known DEF Request, RowStatus
  <2> HIDE DEF r
  <2>2. ~r.broken => r.there = FALSE
    BY <1>2, <2>1 DEF Request
  <2>3. Told(OutcomeOf(r, FALSE))
    BY <1>2, <2>1, <2>2 DEF Told, OutcomeOf
  <2>4. QED
    BY <1>1, <1>2, <1>3, <2>1, <2>3, Known, EndProceeds DEF Pending, r
<1>4. CASE Finish(h, [op[h] EXCEPT !.broken = TRUE], FALSE)
  <2> DEFINE r == [op[h] EXCEPT !.broken = TRUE]
  <2>1. /\ r \in Request /\ r.call = "withdraw" /\ r.row = op[h].row
        /\ r.there = op[h].there /\ r.paid = op[h].paid /\ r.broken
    BY <1>2, Known DEF Request
  <2> HIDE DEF r
  <2>2. Told(OutcomeOf(r, FALSE))
    BY <1>2, <2>1 DEF Told, OutcomeOf
  <2>3. QED
    BY <1>1, <1>2, <1>4, <2>1, <2>2, Known, EndProceeds DEF Pending, r
<1>5. QED
  BY <1>3, <1>4 DEF HandleWithdrawalFailure

\* The steps that fail without having changed the card.
LEMMA RefusalProceeds ==
  ASSUME StepInv, NEW h \in Handlers,
         LoginRefused(h) \/ ProviderRefuses(h) \/ IssueCard(h)
  PROVE  Proceeds(h)
<1>1. CardKept /\ Fails(h, op[h])
  BY DEF LoginRefused, ProviderRefuses, IssueCard, money, CardKept
<1>2. op[h].pc \in {"verify", "call", "holder", "issue"}
  BY DEF LoginRefused, ProviderRefuses, IssueCard, Calls, TokenSteps
<1>3. ~op[h].there /\ op[h].call # "fee"
  BY <1>2, Known, Calling
     DEF Place, Pending, Followed, FeeSteps, Request
<1>4. Failing(op[h], op[h])
  BY <1>2, <1>3, Known DEF Failing
<1>5. QED
  BY <1>1, <1>4, Known, FailureProceeds

LEMMA DatabaseFailureProceeds ==
  ASSUME StepInv, NEW h \in Handlers, DatabaseFails(h)
  PROVE  Proceeds(h)
<1> DEFINE r == [op[h] EXCEPT !.broken = TRUE]
<1>1. /\ CardKept /\ Fails(h, r)
      /\ op[h].pc \notin {"idle", "failrow"}
  BY DEF DatabaseFails, money, CardKept
<1>2. /\ r \in Request /\ r.call = op[h].call /\ r.pc = op[h].pc
      /\ r.row = op[h].row /\ r.took = op[h].took /\ r.paid = op[h].paid
      /\ r.here = op[h].here /\ r.there = op[h].there /\ r.broken
  BY Known DEF Request
<1> HIDE DEF r
<1>3. Failing(op[h], r)
  BY <1>1, <1>2 DEF Failing
<1>4. QED
  BY <1>1, <1>3, Known, FailureProceeds

\* AlphaSpace has carried the request out, and its answer comes or is lost.
LEMMA CarriedProceeds ==
  ASSUME StepInv, NEW h \in Handlers, NEW call, NEW after, NEW next,
         CarriesOut(h, call, after, next),
         \/ call = "fund" /\ next = "writecard" /\ after = Funded
         \/ call = "withdraw" /\ next = "writecard" /\ after = Withdrawn
         \/ call = "freeze" /\ next = "status" /\ after = Frozen
         \/ call = "unfreeze" /\ next = "status" /\ after = Unfrozen
         \/ /\ call = "terminate" /\ after = Terminated
            /\ next = IF op[h].seen > 0 THEN "refund" ELSE "status",
         returned' = IF call = "terminate" THEN returned + provider.balance
                     ELSE returned
  PROVE  Proceeds(h)
<1>1. /\ op[h].pc = "call" /\ op[h].call = call
      /\ provider' = after /\ card' = card /\ cardFees' = cardFees
      /\ spent' = spent /\ refunded' = refunded
  BY Known DEF CarriesOut, Calls, Request
<1>2. /\ ~op[h].there /\ ~op[h].here
      /\ op[h].call = "withdraw" => op[h].row = "PENDING"
  BY <1>1, Known DEF Place, Story, Pending, Followed
<1> DEFINE r == [op[h] EXCEPT !.there = TRUE]
           q == [r EXCEPT !.pc = next]
           f == [r EXCEPT !.broken = TRUE]
<1>3. CASE op' = [op EXCEPT ![h] = q] /\ UNCHANGED ledger
  <2>1. next \in {"writecard", "refund", "status"}
    OBVIOUS
  <2>2. /\ q \in Request /\ q.call = call /\ q.pc = next /\ q.there /\ ~q.here
        /\ q.seen = op[h].seen /\ q.row = op[h].row /\ q.paid = op[h].paid
    BY <1>1, <1>2, <2>1, Known, StepNames DEF Request
  <2> HIDE DEF q
  <2>3. GoodRequest(q)
    BY <1>1, <1>2, <2>1, <2>2
       DEF GoodRequest, Place, Story, Pending, Followed
  <2>4. Carried(h, q)
    BY <1>1, <2>2 DEF Carried
  <2>5. over' = over /\ disturbed' = disturbed
    BY <1>3 DEF ledger
  <2>6. QED
    BY <1>3, <2>2, <2>3, <2>4, <2>5, Known, MoveProceeds DEF Effect
<1>4. CASE Fails(h, f)
  <2>1. /\ f \in Request /\ f.call = op[h].call /\ f.pc = op[h].pc
        /\ f.row = op[h].row /\ f.took = op[h].took /\ f.paid = op[h].paid
        /\ f.here = op[h].here /\ f.there /\ f.broken
    BY Known DEF Request
  <2> HIDE DEF f
  <2>2. Failing(op[h], f)
    BY <1>1, <2>1 DEF Failing
  <2>3. ~f.here
    BY <1>1, <1>2, <2>1
  <2>4. QED
    BY <1>4, <2>1, <2>2, <2>3, Known, FailureProceeds
<1>5. QED
  BY <1>3, <1>4 DEF CarriesOut

LEMMA CallProviderProceeds ==
  ASSUME StepInv, NEW h \in Handlers, CallProvider(h)
  PROVE  Proceeds(h)
<1>1. CASE FundCardViaAlphaSpace(h)
  BY <1>1, CarriedProceeds DEF FundCardViaAlphaSpace
<1>2. CASE WithdrawViaAlphaSpace(h)
  BY <1>2, CarriedProceeds DEF WithdrawViaAlphaSpace
<1>3. CASE FreezeAlphaSpaceCard(h)
  BY <1>3, CarriedProceeds DEF FreezeAlphaSpaceCard
<1>4. CASE UnfreezeAlphaSpaceCard(h)
  BY <1>4, CarriedProceeds DEF UnfreezeAlphaSpaceCard
<1>5. CASE TerminateAlphaSpaceCard(h)
  BY <1>5, CarriedProceeds DEF TerminateAlphaSpaceCard
<1>6. QED
  BY <1>1, <1>2, <1>3, <1>4, <1>5 DEF CallProvider

LEMMA RefundProceeds ==
  ASSUME StepInv, NEW h \in Handlers, ProcessTerminationRefund(h)
  PROVE  Proceeds(h)
<1>1. /\ disturbed' = disturbed /\ over' = over /\ op[h].pc = "refund"
      /\ card' = card /\ provider' = provider /\ cardFees' = cardFees
      /\ spent' = spent /\ returned' = returned
      /\ refunded' = refunded + op[h].seen
  BY DEF ProcessTerminationRefund, ledger
<1>2. op[h].call = "terminate" /\ op[h].there /\ ~op[h].here
  BY <1>1, Known, Calling
     DEF Place, Pending, Followed, FeeSteps, Request
<1> DEFINE r == [op[h] EXCEPT !.paid = TRUE, !.pc = "refundrow"]
<1>3. op' = [op EXCEPT ![h] = r]
  BY Known DEF ProcessTerminationRefund
<1>4. /\ r \in Request /\ r.call = "terminate" /\ r.pc = "refundrow"
      /\ r.there /\ ~r.here /\ r.seen = op[h].seen
  BY <1>2, Known, StepNames DEF Request
<1> HIDE DEF r
<1>5. GoodRequest(r)
  BY <1>4 DEF GoodRequest, Place, Story, Pending, Followed
<1>6. PaidBack(h, r)
  BY <1>1, <1>2, <1>4 DEF PaidBack
<1>7. QED
  BY <1>1, <1>3, <1>4, <1>5, <1>6, Known, MoveProceeds DEF Effect

LEMMA RefundRowProceeds ==
  ASSUME StepInv, NEW h \in Handlers, RefundTransaction(h)
  PROVE  Proceeds(h)
<1>1. CardKept /\ disturbed' = disturbed /\ over' = over
      /\ op[h].pc = "refundrow"
  BY DEF RefundTransaction, money, ledger, CardKept
<1>2. op[h].call = "terminate" /\ op[h].there /\ ~op[h].here
  BY <1>1, Known, Calling
     DEF Place, Pending, Followed, FeeSteps, Request
<1> DEFINE r == [op[h] EXCEPT !.pc = "status"]
<1>3. op' = [op EXCEPT ![h] = r]
  BY Known DEF RefundTransaction, Goto
<1>4. /\ r \in Request /\ r.call = "terminate" /\ r.pc = "status"
      /\ r.there /\ ~r.here /\ r.seen = op[h].seen
  BY <1>2, Known, StepNames DEF Request
<1> HIDE DEF r
<1>5. GoodRequest(r)
  BY <1>4 DEF GoodRequest, Place, Story, Pending, Followed
<1>6. QED
  BY <1>1, <1>2, <1>3, <1>4, <1>5, Known, MoveProceeds

LEMMA UpdateStatusProceeds ==
  ASSUME StepInv, NEW h \in Handlers, UpdateLocalCardStatus(h)
  PROVE  Proceeds(h)
<1>1. /\ disturbed' = disturbed /\ over' = over /\ op[h].pc = "status"
      /\ provider' = provider /\ spent' = spent /\ returned' = returned
      /\ refunded' = refunded
  BY DEF UpdateLocalCardStatus, ledger
<1>2. /\ op[h].call \in {"freeze", "unfreeze", "terminate"}
      /\ op[h].there /\ ~op[h].here
  BY <1>1, Known, Calling
     DEF Place, Pending, Followed, FeeSteps, Request
<1> DEFINE r == [op[h] EXCEPT !.here = TRUE, !.pc = "log"]
<1>3. op' = [op EXCEPT ![h] = r]
  BY Known DEF UpdateLocalCardStatus
<1>4. /\ r \in Request /\ r.call = op[h].call /\ r.pc = "log"
      /\ r.there /\ r.here
  BY <1>2, Known, StepNames DEF Request
<1> HIDE DEF r
<1>5. GoodRequest(r)
  BY <1>2, <1>4 DEF GoodRequest, Place, Story, Pending, Followed
<1>6. Ordered(h, r)
  BY <1>1, <1>2, <1>4 DEF UpdateLocalCardStatus, Ordered
<1>7. QED
  BY <1>1, <1>3, <1>4, <1>5, <1>6, Known, MoveProceeds DEF Effect

LEMMA IssueProceeds ==
  ASSUME StepInv, NEW h \in Handlers, Issue(h)
  PROVE  Proceeds(h)
<1>1. CASE IssueCard(h)
  BY <1>1, RefusalProceeds
<1>2. CASE CreateCardholder(h)
  <2>1. CardKept /\ disturbed' = disturbed /\ over' = over
        /\ op[h].pc = "holder"
    BY <1>2 DEF CreateCardholder, Calls, money, ledger, CardKept
  <2>2. op[h].call = "issue" /\ ~op[h].there /\ ~op[h].here
    BY <2>1, Known, Calling
       DEF Place, Pending, Followed, FeeSteps, Request
  <2> DEFINE r == [op[h] EXCEPT !.pc = "issue"]
  <2>3. op' = [op EXCEPT ![h] = r]
    BY <1>2, Known DEF CreateCardholder, Goto
  <2>4. /\ r \in Request /\ r.call = "issue" /\ r.pc = "issue"
        /\ ~r.there /\ ~r.here
    BY <2>2, Known, StepNames DEF Request
  <2> HIDE DEF r
  <2>5. GoodRequest(r)
    BY <2>4 DEF GoodRequest, Place, Story, Pending, Followed
  <2>6. QED
    BY <2>1, <2>2, <2>3, <2>4, <2>5, Known, MoveProceeds DEF Pending
<1>3. QED
  BY <1>1, <1>2 DEF Issue

\* Where collectPaymentFee stands.
LEMMA FeePlace ==
  ASSUME StepInv, NEW h \in Handlers, op[h].pc \in FeeSteps
  PROVE  /\ op[h].call = "fee" /\ ~op[h].there /\ ~op[h].here
         /\ op[h].pc \notin Pending \cup {"idle"}
<1>1. op[h].call = "fee"
  BY Known, Calling DEF Place, FeeSteps, Request
<1>2. QED
  BY <1>1, Known DEF Place, FeeSteps, Pending, Followed

LEMMA ReadSourceProceeds ==
  ASSUME StepInv, NEW h \in Handlers, ReadFeeSource(h)
  PROVE  Proceeds(h)
<1>1. /\ CardKept /\ disturbed' = disturbed /\ over' = over
      /\ op[h].pc \in {"feecard", "feewallet"}
  BY DEF ReadFeeSource, money, ledger, CardKept
<1>2. PICK pc \in {"feecardtake", "feewallet", "feewallettake", "debt"} :
         Goto(h, pc)
  BY DEF ReadFeeSource
<1>3. /\ op[h].call = "fee" /\ ~op[h].there /\ ~op[h].here
      /\ op[h].pc \notin Pending
  BY <1>1, FeePlace DEF FeeSteps
<1>4. ~op[h].broken => op[h].took = {}
  BY <1>1, <1>3, Known DEF Story
<1> DEFINE r == [op[h] EXCEPT !.pc = pc]
<1>5. op' = [op EXCEPT ![h] = r]
  BY <1>2, Known DEF Goto
<1>6. /\ r \in Request /\ r.call = "fee" /\ r.pc = pc
      /\ ~r.there /\ ~r.here /\ r.broken = op[h].broken
      /\ r.took = op[h].took
  BY <1>3, Known, StepNames DEF Request
<1> HIDE DEF r
<1>7. Place(r)
  BY <1>6 DEF Place, FeeSteps, Pending, Followed
<1>8. Story(r)
  BY <1>4, <1>6 DEF Story
<1>9. QED
  BY <1>1, <1>3, <1>5, <1>6, <1>7, <1>8, Known, MoveProceeds
     DEF Pending, GoodRequest

\* A source is taken; only the card's changes the card.
LEMMA TakingProceeds ==
  ASSUME StepInv, NEW h \in Handlers,
         disturbed' = disturbed, over' = over,
         NEW source \in Sources, Took(h, source),
         op[h].pc = IF source = "card" THEN "feecardtake"
                    ELSE IF source = "wallet" THEN "feewallettake" ELSE "debt",
         \/ CardKept
         \/ /\ card' = [card EXCEPT !.balance = @ - Fee]
            /\ cardFees' = cardFees + Fee
            /\ provider' = provider /\ spent' = spent
            /\ returned' = returned /\ refunded' = refunded
  PROVE  Proceeds(h)
<1>1. source \in {"card", "wallet", "debt"}
  BY DEF Sources
<1>2. /\ op[h].call = "fee" /\ ~op[h].there /\ ~op[h].here
      /\ op[h].pc \notin Pending
  BY <1>1, FeePlace DEF FeeSteps
<1>3. ~op[h].broken => op[h].took = {}
  BY <1>1, <1>2, Known DEF Story
<1> DEFINE pc == IF source = "card" THEN "feecardrow"
                 ELSE IF source = "wallet" THEN "feewalletrow" ELSE "debtrow"
           r == [op[h] EXCEPT !.took = @ \cup {source}, !.pc = pc]
<1>4. op' = [op EXCEPT ![h] = r]
  BY Known DEF Took
<1>5. pc \in Steps
  BY StepNames
<1>6. /\ r \in Request /\ r.call = "fee" /\ r.pc = pc
      /\ ~r.there /\ ~r.here /\ r.broken = op[h].broken
      /\ r.took = op[h].took \cup {source}
  BY <1>2, <1>5, Known DEF Request
<1> HIDE DEF r
<1>7. Place(r)
  BY <1>6 DEF Place, FeeSteps, Pending, Followed
<1>8. Story(r)
  BY <1>1, <1>3, <1>6 DEF Story
<1>9. Effect(h, r)
  BY <1>2, <1>6 DEF Effect, Aside, FeeTaken, Pending
<1>10. QED
  BY <1>4, <1>6, <1>7, <1>8, <1>9, Known, MoveProceeds DEF GoodRequest

LEMMA CollectFeeProceeds ==
  ASSUME StepInv, NEW h \in Handlers, CollectFee(h)
  PROVE  Proceeds(h)
<1>1. CASE ReadFeeSource(h)
  BY <1>1, ReadSourceProceeds
<1>2. CASE TakeFeeFromCard(h)
  BY <1>2, TakingProceeds DEF TakeFeeFromCard, ledger, Sources
<1>3. CASE TakeFeeFromWallet(h)
  BY <1>3, TakingProceeds DEF TakeFeeFromWallet, ledger, Sources, CardKept
<1>4. CASE CreatePaymentDebt(h)
  BY <1>4, TakingProceeds DEF CreatePaymentDebt, money, ledger, Sources,
     CardKept
<1>5. CASE RecordFee(h)
  <2>1. /\ CardKept /\ disturbed' = disturbed /\ Finish(h, op[h], TRUE)
        /\ op[h].pc \in {"feecardrow", "feewalletrow", "debtrow"}
    BY <1>5 DEF RecordFee, money, CardKept
  <2>2. op[h].call = "fee" /\ op[h].pc \notin Pending \cup {"idle"}
    BY <2>1, FeePlace DEF FeeSteps
  <2>3. /\ op[h].took # {}
        /\ ~op[h].broken => \E source : op[h].took = {source}
    BY <2>1, <2>2, Known DEF Story
  <2>4. ~op[h].broken => Cardinality(op[h].took) = 1
    BY <2>3, FS_Singleton
  <2>5. Told(OutcomeOf(op[h], TRUE))
    BY <2>2, <2>3, <2>4 DEF Told, OutcomeOf
  <2>6. QED
    BY <2>1, <2>2, <2>5, Known, EndProceeds
<1>6. QED
  BY <1>1, <1>2, <1>3, <1>4, <1>5 DEF CollectFee

LEMMA StartProceeds ==
  ASSUME StepInv, NEW h \in Handlers, NEW call \in Kinds, Start(h, call)
  PROVE  Proceeds(h)
<1>1. /\ op[h].pc = "idle" /\ over' = over /\ CardKept
      /\ disturbed' = \/ disturbed
                      \/ \E g \in Handlers : op[g].call # "none"
                                             /\ Conflicting(call, op[g].call)
  BY DEF Start, money, CardKept
<1>2. op[h].call = "none"
  BY <1>1, Known DEF Place
<1> DEFINE r == [Idle EXCEPT !.call = call, !.pc = FirstStep(call),
                             !.seen = card.balance]
<1>3. op' = [op EXCEPT ![h] = r]
  BY DEF Start
<1>4. FirstStep(call) \in {"wallet", "balance", "call", "holder", "feecard"}
  BY Calling DEF FirstStep, Managed
<1>5. card.balance \in Int
  BY DEF StepInv, MoneyTypeOK
<1>6. /\ r \in Request /\ r.call = call /\ r.pc = FirstStep(call)
      /\ r.seen = card.balance /\ ~r.there /\ ~r.here /\ r.row = "none"
      /\ ~r.paid /\ r.took = {}
  BY <1>4, <1>5, StepNames DEF Idle, Request, RowStatus
<1> HIDE DEF r
<1>7. /\ call = "fund" => r.pc = "wallet"
      /\ call = "withdraw" => r.pc = "balance"
      /\ call \in {"freeze", "unfreeze", "terminate"} => r.pc = "call"
      /\ call = "issue" => r.pc = "holder"
      /\ call = "fee" => r.pc = "feecard"
  BY <1>6 DEF FirstStep, Managed
<1>8. Place(r)
  BY <1>6, <1>7, Calling DEF Place, FeeSteps, Pending, Followed
<1>9. Story(r)
  BY <1>6, <1>7 DEF Story
<1>10. Becomes(h, r) /\ Tells
  BY <1>1, <1>3, <1>6 DEF Becomes, Tells
<1>11. CASE disturbed \/ \E g \in Handlers :
                op[g].call # "none" /\ Conflicting(call, op[g].call)
  <2>1. disturbed'
    BY <1>1, <1>11
  <2>2. QED
    BY <1>8, <1>9, <1>10, <2>1 DEF Proceeds, GoodRequest
<1>12. CASE ~(disturbed \/ \E g \in Handlers :
                op[g].call # "none" /\ Conflicting(call, op[g].call))
  <2>1. r.pc \notin Pending \cup {"failrow"}
    BY <1>4, <1>6 DEF Pending
  <2>2. Started(h, r)
    BY <1>1, <1>2, <1>6, <1>12, <2>1 DEF Started
  <2>3. QED
    BY <1>8, <1>9, <1>10, <1>12, <2>2 DEF Proceeds, GoodRequest, Effect
<1>13. QED
  BY <1>11, <1>12

\* A step that leaves the requests and the card alone.
Still == CardKept /\ op' = op /\ over' = over /\ disturbed' = disturbed

LEMMA NextCases ==
  ASSUME StepInv, [AlphaSpaceNext]_avars
  PROVE  (\E h \in Handlers : Proceeds(h)) \/ Still \/ Crash \/ CardIsUsed
<1>1. ASSUME NEW h \in Handlers, GoesOn(h) PROVE Proceeds(h) \/ Still
  <2>1. CASE AskToken(h) \/ AwaitToken(h)
    BY <2>1 DEF AskToken, AwaitToken, money, ledger, Still, CardKept
  <2>2. CASE LoginRefused(h) \/ ProviderRefuses(h)
    BY <2>2, RefusalProceeds
  <2>3. CASE FundOrWithdraw(h)
    BY <2>3, CheckWalletProceeds, CheckBalanceProceeds,
       VerifyBalanceProceeds, InitializeProceeds, UpdateCardBalanceProceeds,
       CreateFundingProceeds, CreditWalletProceeds, CompleteProceeds,
       LogProceeds, WithdrawalFailureProceeds
       DEF FundOrWithdraw, LogFundingSuccess, LogWithdrawalSuccess
  <2>4. CASE Manage(h)
    BY <2>4, RefundProceeds, RefundRowProceeds, UpdateStatusProceeds,
       LogProceeds DEF Manage, LogCardManagementAction
  <2>5. CASE CallProvider(h) \/ Issue(h) \/ CollectFee(h)
    BY <2>5, CallProviderProceeds, IssueProceeds, CollectFeeProceeds
  <2>6. QED
    BY <1>1, <2>1, <2>2, <2>3, <2>4, <2>5 DEF GoesOn
<1>2. Expire \/ UNCHANGED avars => Still
  BY DEF Expire, avars, money, Still, CardKept
<1>3. QED
  BY <1>1, <1>2, DatabaseFailureProceeds, StartProceeds DEF AlphaSpaceNext

LEMMA RequestsKept ==
  ASSUME StepInv, [AlphaSpaceNext]_avars
  PROVE  RequestInv'
<1>1. RequestInv
  BY DEF StepInv
<1>2. ASSUME NEW h \in Handlers, Proceeds(h) PROVE RequestInv'
  <2>1. PICK q : Becomes(h, q) /\ GoodRequest(q) /\ Tells
    BY <1>2 DEF Proceeds
  <2>2. op' \in [Handlers -> Request]
    BY <1>1, <2>1 DEF Becomes, RequestInv
  <2>3. \A g \in Handlers : Place(op'[g]) /\ Story(op'[g])
    BY <1>1, <2>1 DEF Becomes, RequestInv, GoodRequest
  <2>4. over' \subseteq Outcome /\ \A o \in over' : Told(o)
    BY <1>1, <2>1 DEF Tells, RequestInv
  <2>5. QED
    BY <2>2, <2>3, <2>4 DEF RequestInv, Place, Story
<1>3. CASE Still
  BY <1>1, <1>3 DEF Still, RequestInv
<1>4. CASE Crash
  <2>1. over' = over /\ op' = [h \in Handlers |-> Idle]
    BY <1>4 DEF Crash
  <2>2. QED
    BY <1>1, <2>1, IdleRequest DEF RequestInv, GoodRequest
<1>5. CASE CardIsUsed
  BY <1>1, <1>5 DEF CardIsUsed, RequestInv
<1>6. QED
  BY <1>2, <1>3, <1>4, <1>5, NextCases

LEMMA Troubles ==
  ASSUME MoneyTypeOK, Trouble \/ troubles' = troubles
  PROVE  troubles' \in 0..MaxTroubles
  BY Constants DEF MoneyTypeOK, Trouble

LEMMA FailureTypes ==
  ASSUME MoneyTypeOK, NEW h, NEW r, Fails(h, r)
  PROVE  disturbed' \in BOOLEAN
  BY DEF Fails

\* The variables a step may change, by what they have to be.
LEMMA TypesKept ==
  ASSUME MoneyTypeOK,
         card' \in [status : CardStatus, balance : Int],
         provider' \in [status : CardStatus, balance : Nat],
         wallet' \in Int, cardFees' \in Int, spent' \in Nat,
         returned' \in Nat, refunded' \in Int,
         disturbed' \in BOOLEAN, calls' \in 0..MaxCalls,
         troubles' \in 0..MaxTroubles
  PROVE  MoneyTypeOK'
  BY DEF MoneyTypeOK

LEMMA Balances ==
  ASSUME MoneyTypeOK
  PROVE  /\ card.balance \in Int /\ provider.balance \in Nat
         /\ wallet \in Int /\ cardFees \in Int /\ spent \in Nat
         /\ returned \in Nat /\ refunded \in Int
         /\ \A n \in Int : [card EXCEPT !.balance = n]
                              \in [status : CardStatus, balance : Int]
         /\ \A s \in CardStatus : [card EXCEPT !.status = s]
                                     \in [status : CardStatus, balance : Int]
         /\ \A n \in Nat : [provider EXCEPT !.balance = n]
                              \in [status : CardStatus, balance : Nat]
         /\ \A s \in CardStatus : [provider EXCEPT !.status = s]
                                     \in [status : CardStatus, balance : Nat]
         /\ [status |-> "TERMINATED", balance |-> 0]
               \in [status : CardStatus, balance : Nat]
  BY DEF MoneyTypeOK, CardStatus

LEMMA MoneyStays ==
  ASSUME MoneyTypeOK, UNCHANGED <<money, calls>>,
         Trouble \/ troubles' = troubles, disturbed' \in BOOLEAN
  PROVE  MoneyTypeOK'
  BY Troubles DEF MoneyTypeOK, money

LEMMA StepTypes ==
  ASSUME StepInv, [AlphaSpaceNext]_avars
  PROVE  MoneyTypeOK'
<1>1. MoneyTypeOK /\ disturbed \in BOOLEAN
  BY DEF StepInv, MoneyTypeOK
<1>2. ASSUME NEW h \in Handlers, FundOrWithdraw(h) PROVE MoneyTypeOK'
  <2>1. CASE UpdateCardBalance(h)
    <3>1. /\ provider' = provider /\ wallet' = wallet /\ spent' = spent
          /\ cardFees' = cardFees /\ returned' = returned
          /\ refunded' = refunded /\ calls' = calls
          /\ disturbed' = disturbed /\ troubles' = troubles
      BY <2>1 DEF UpdateCardBalance, ledger
    <3>2. card.balance + Amount \in Int /\ card.balance - Amount \in Int
      BY <1>1, Balances, Constants
    <3>3. PICK n \in Int : card' = [card EXCEPT !.balance = n]
      BY <1>1, <2>1, <3>2 DEF UpdateCardBalance
    <3>4. card' \in [status : CardStatus, balance : Int]
      BY <1>1, <3>3, Balances
    <3>5. QED
      BY <1>1, <3>1, <3>4 DEF MoneyTypeOK
  <2>2. CASE CreditWallet(h)
    <3>1. wallet' \in Int
      BY <1>1, <2>2, Balances, Constants DEF CreditWallet
    <3>2. QED
      BY <1>1, <2>2, <3>1 DEF CreditWallet, ledger, MoneyTypeOK
  <2>3. CASE ~UpdateCardBalance(h) /\ ~CreditWallet(h)
    <3>1. /\ UNCHANGED <<money, calls>> /\ disturbed' = disturbed
          /\ Trouble \/ troubles' = troubles
      BY <1>2, <2>3 DEF FundOrWithdraw, CheckWallet, CheckBalance,
         VerifyBalance, Calls, InitializeWithdrawalTransaction,
         CreateFundingTransaction, CompleteWithdrawalTransaction,
         HandleWithdrawalFailure, LogFundingSuccess, LogWithdrawalSuccess,
         LogSuccess, ledger
    <3>2. QED
      BY <1>1, <3>1, MoneyStays
  <2>4. QED
    BY <2>1, <2>2, <2>3
<1>3. ASSUME NEW h \in Handlers, Manage(h) PROVE MoneyTypeOK'
  <2>1. CASE ProcessTerminationRefund(h)
    <3>1. op[h].seen \in Int
      BY Known DEF Request
    <3>2. wallet' \in Int /\ refunded' \in Int
      BY <1>1, <2>1, <3>1, Balances DEF ProcessTerminationRefund
    <3>3. QED
      BY <1>1, <2>1, <3>2 DEF ProcessTerminationRefund, ledger, MoneyTypeOK
  <2>2. CASE UpdateLocalCardStatus(h)
    <3>1. /\ provider' = provider /\ wallet' = wallet /\ spent' = spent
          /\ returned' = returned /\ refunded' = refunded /\ calls' = calls
          /\ disturbed' = disturbed /\ troubles' = troubles
      BY <2>2 DEF UpdateLocalCardStatus, ledger
    <3>2. op[h].call \in {"freeze", "unfreeze", "terminate"}
      BY <2>2, Known, Calling
         DEF UpdateLocalCardStatus, Place, FeeSteps, Request
    <3>3. \/ \E s \in CardStatus : card' = [card EXCEPT !.status = s]
          \/ card' = [status |-> "TERMINATED", balance |-> 0]
      BY <2>2, <3>2 DEF UpdateLocalCardStatus, CardStatus
    <3>4. card' \in [status : CardStatus, balance : Int]
      BY <1>1, <3>3, Balances
    <3>5. cardFees' \in Int
      BY <1>1, <2>2, Balances DEF UpdateLocalCardStatus
    <3>6. QED
      BY <1>1, <3>1, <3>4, <3>5 DEF MoneyTypeOK
  <2>3. CASE RefundTransaction(h) \/ LogCardManagementAction(h)
    <3>1. /\ UNCHANGED <<money, calls>> /\ disturbed' = disturbed
          /\ troubles' = troubles
      BY <2>3 DEF RefundTransaction, LogCardManagementAction, LogSuccess,
         ledger
    <3>2. QED
      BY <1>1, <3>1, MoneyStays
  <2>4. QED
    BY <1>3, <2>1, <2>2, <2>3 DEF Manage
<1>4. ASSUME NEW h \in Handlers, Issue(h) PROVE MoneyTypeOK'
  <2>1. /\ UNCHANGED <<money, calls>> /\ troubles' = troubles
        /\ disturbed' = disturbed \/ \E r : Fails(h, r)
    BY <1>4 DEF Issue, CreateCardholder, IssueCard, Calls, ledger
  <2>2. disturbed' \in BOOLEAN
    BY <1>1, <2>1, FailureTypes
  <2>3. QED
    BY <1>1, <2>1, <2>2, MoneyStays
<1>5. ASSUME NEW h \in Handlers, CollectFee(h) PROVE MoneyTypeOK'
  <2>1. CASE TakeFeeFromCard(h)
    <3>1. card.balance - Fee \in Int /\ cardFees + Fee \in Int
      BY <1>1, Balances, Constants
    <3>2. card' = [card EXCEPT !.balance = card.balance - Fee]
      BY <2>1 DEF TakeFeeFromCard
    <3>3. card' \in [status : CardStatus, balance : Int]
      BY <1>1, <3>1, <3>2, Balances
    <3>4. QED
      BY <1>1, <2>1, <3>1, <3>3 DEF TakeFeeFromCard, ledger, MoneyTypeOK
  <2>2. CASE TakeFeeFromWallet(h)
    <3>1. wallet' \in Int
      BY <1>1, <2>2, Balances, Constants DEF TakeFeeFromWallet
    <3>2. QED
      BY <1>1, <2>2, <3>1 DEF TakeFeeFromWallet, ledger, MoneyTypeOK
  <2>3. CASE ReadFeeSource(h) \/ CreatePaymentDebt(h) \/ RecordFee(h)
    <3>1. /\ UNCHANGED <<money, calls>> /\ disturbed' = disturbed
          /\ troubles' = troubles
      BY <2>3 DEF ReadFeeSource, CreatePaymentDebt, RecordFee, ledger
    <3>2. QED
      BY <1>1, <3>1, MoneyStays
  <2>4. QED
    BY <1>5, <2>1, <2>2, <2>3 DEF CollectFee
<1>6. ASSUME NEW h \in Handlers, CallProvider(h) PROVE MoneyTypeOK'
  <2>1. /\ card' = card /\ wallet' = wallet /\ spent' = spent
        /\ cardFees' = cardFees /\ refunded' = refunded /\ calls' = calls
        /\ Trouble \/ troubles' = troubles
        /\ disturbed' = disturbed \/ \E r : Fails(h, r)
    BY <1>6 DEF CallProvider, FundCardViaAlphaSpace, WithdrawViaAlphaSpace,
       FreezeAlphaSpaceCard, UnfreezeAlphaSpaceCard,
       TerminateAlphaSpaceCard, CarriesOut, Calls, ledger
  <2>2. \/ provider' = Funded
        \/ provider' = Withdrawn /\ provider.balance >= Amount
        \/ provider' = Frozen \/ provider' = Unfrozen
        \/ provider' = Terminated
    BY <1>6 DEF CallProvider, FundCardViaAlphaSpace, WithdrawViaAlphaSpace,
       FreezeAlphaSpaceCard, UnfreezeAlphaSpaceCard,
       TerminateAlphaSpaceCard, CarriesOut
  <2>3. \/ \E n \in Nat : provider' = [provider EXCEPT !.balance = n]
        \/ \E s \in CardStatus : provider' = [provider EXCEPT !.status = s]
        \/ provider' = [status |-> "TERMINATED", balance |-> 0]
    <3>1. /\ provider.balance + Amount \in Nat
          /\ provider.balance >= Amount => provider.balance - Amount \in Nat
      BY <1>1, Balances, Constants
    <3>2. QED
      BY <2>2, <3>1 DEF Funded, Withdrawn, Frozen, Unfrozen, Terminated,
         CardStatus
  <2>4. provider' \in [status : CardStatus, balance : Nat]
    BY <1>1, <2>3, Balances
  <2>5. returned' \in {returned, returned + provider.balance}
    BY <1>6 DEF CallProvider, FundCardViaAlphaSpace, WithdrawViaAlphaSpace,
       FreezeAlphaSpaceCard, UnfreezeAlphaSpaceCard, TerminateAlphaSpaceCard
  <2>6. returned' \in Nat
    BY <1>1, <2>5, Balances
  <2>7. disturbed' \in BOOLEAN /\ troubles' \in 0..MaxTroubles
    BY <1>1, <2>1, FailureTypes, Troubles
  <2>8. QED
    BY <1>1, <2>1, <2>4, <2>6, <2>7 DEF MoneyTypeOK
<1>7. ASSUME NEW h \in Handlers,
             \/ AskToken(h) \/ AwaitToken(h) \/ LoginRefused(h)
             \/ ProviderRefuses(h) \/ DatabaseFails(h)
      PROVE  MoneyTypeOK'
  <2>1. /\ UNCHANGED <<money, calls>>
        /\ Trouble \/ troubles' = troubles
        /\ disturbed' = disturbed \/ \E r : Fails(h, r)
    BY <1>7 DEF AskToken, AwaitToken, LoginRefused, ProviderRefuses, Calls,
       DatabaseFails, ledger
  <2>2. disturbed' \in BOOLEAN
    BY <1>1, <2>1, FailureTypes
  <2>3. QED
    BY <1>1, <2>1, <2>2, MoneyStays
<1>8. ASSUME NEW h \in Handlers, NEW call \in Kinds, Start(h, call)
      PROVE  MoneyTypeOK'
  <2>1. calls' \in 0..MaxCalls
    BY <1>1, <1>8, Constants DEF Start, MoneyTypeOK
  <2>2. disturbed' \in BOOLEAN
    BY <1>8 DEF Start
  <2>3. QED
    BY <1>1, <1>8, <2>1, <2>2 DEF Start, money, MoneyTypeOK
<1>9. CASE Expire \/ Crash
  <2>1. UNCHANGED <<money, calls>> /\ Trouble
    BY <1>9 DEF Expire, Crash
  <2>2. disturbed' \in BOOLEAN
    BY <1>1, <1>9 DEF Expire, Crash
  <2>3. QED
    BY <1>1, <2>1, <2>2, MoneyStays
<1>10. CASE UNCHANGED avars
  BY <1>1, <1>10 DEF avars, MoneyTypeOK
<1>11. CASE CardIsUsed
  <2>1. PICK n \in 1..provider.balance :
               /\ provider' = [provider EXCEPT !.balance = @ - n]
               /\ spent' = spent + n
    BY <1>11 DEF CardIsUsed
  <2>2. provider.balance - n \in Nat /\ spent' \in Nat
    BY <1>1, <2>1, Balances
  <2>3. provider' \in [status : CardStatus, balance : Nat]
    BY <1>1, <2>1, <2>2, Balances
  <2>4. calls' \in 0..MaxCalls
    BY <1>1, <1>11, Constants DEF CardIsUsed, MoneyTypeOK
  <2>5. QED
    BY <1>1, <1>11, <2>2, <2>3, <2>4 DEF CardIsUsed, MoneyTypeOK
<1>12. QED
  BY <1>2, <1>3, <1>4, <1>5, <1>6, <1>7, <1>8, <1>9, <1>10, <1>11
     DEF AlphaSpaceNext, GoesOn

LEMMA InitStep == AlphaSpaceInit => StepInv
<1> SUFFICES ASSUME AlphaSpaceInit PROVE StepInv
  OBVIOUS
<1>1. RequestInv
  BY IdleRequest DEF AlphaSpaceInit, RequestInv, GoodRequest
<1>2. MoneyTypeOK
  <2>1. /\ card = [status |-> "ACTIVE", balance |-> OpeningCard]
        /\ provider = card /\ wallet = OpeningWallet
        /\ cardFees = 0 /\ spent = 0 /\ returned = 0 /\ refunded = 0
        /\ calls = 0 /\ troubles = 0
    BY DEF AlphaSpaceInit
  <2>2. disturbed \in BOOLEAN
    BY DEF AlphaSpaceInit
  <2>3. "ACTIVE" \in CardStatus /\ OpeningCard \in Nat
    BY Constants DEF CardStatus
  <2>4. card \in [status : CardStatus, balance : Nat]
    BY <2>1, <2>3
  <2>5. card \in [status : CardStatus, balance : Int]
    BY <2>1, <2>3
  <2>6. QED
    BY <2>1, <2>2, <2>4, <2>5, Constants DEF MoneyTypeOK
<1>3. QED
  BY <1>1, <1>2 DEF StepInv

LEMMA AlwaysStepInv == AlphaSpaceSpec => []StepInv
<1>1. AlphaSpaceInit => StepInv
  BY InitStep
<1>2. StepInv /\ [AlphaSpaceNext]_avars => StepInv'
  BY RequestsKept, StepTypes DEF StepInv
<1>3. QED
  BY <1>1, <1>2, PTL DEF AlphaSpaceSpec

\* Every variable keeps its type, whatever requests overlap or fail.
THEOREM AlphaSpaceTypeCorrect == AlphaSpaceSpec => []AlphaSpaceTypeOK
<1>1. TokenInv /\ StepInv => AlphaSpaceTypeOK
  BY DEF TokenInv, StepInv, RequestInv, MoneyTypeOK, AlphaSpaceTypeOK
<1>2. QED
  BY <1>1, AlwaysTokenInv, AlwaysStepInv, PTL

\* What a withdrawal or a fee did is what its row or its answer tells, once
\* it is over (card.withdraw.service.ts, fee-management.service.ts).
THEOREM OutcomesAreTold == AlphaSpaceSpec => []OutcomeIsTold
<1>1. StepInv => OutcomeIsTold
  BY DEF StepInv, RequestInv, Told, OutcomeIsTold
<1>2. QED
  BY <1>1, AlwaysStepInv, PTL

-----------------------------------------------------------------------------
(***************************************************************************)
(* The card and its copy                                                   *)
(***************************************************************************)
OrderSteps == {"refund", "refundrow", "status"}
Ordering(h) == op[h].pc \in OrderSteps
Meant(call) == IF call = "freeze" THEN "FROZEN"
               ELSE IF call = "unfreeze" THEN "ACTIVE" ELSE "TERMINATED"

\* What AlphaSpace has done to the balance and the row does not show yet.
Due(r) == IF r.pc # "writecard" THEN 0
          ELSE IF r.call = "fund" THEN Amount ELSE -Amount
Unwritten == [h \in Handlers |-> Due(op[h])]
Owed == SumFunctionOnSet(Unwritten, Handlers)

Apart == \A g, h \in Handlers :
            g # h => ~Conflicting(op[g].call, op[h].call)

\* The balance of a card whose refund is paid is on the row no more than on
\* paper: the status that is written next clears it.
PaidOut(h) == /\ op[h].call = "terminate" /\ op[h].seen > 0
              /\ op[h].pc \in {"refundrow", "status"}
Held == IF \E h \in Handlers : PaidOut(h) THEN 0 ELSE card.balance
Balanced == Held + cardFees + refunded + Owed = provider.balance + spent + returned

OrderInv(h) ==
    /\ op[h].pc = "failrow" /\ op[h].there => op[h].here
    /\ op[h].call = "terminate" /\ op[h].pc \in OrderSteps \cup {"call"}
          => op[h].seen = card.balance
    /\ op[h].pc \in {"refund", "refundrow"} => op[h].seen > 0
    /\ Ordering(h) => provider.status = Meant(op[h].call)

\* As long as nothing has put the copies apart, at most one order is on its
\* way, and the row lacks just what is due.
Together ==
    /\ Apart
    /\ \A h \in Handlers : OrderInv(h)
    /\ (\A h \in Handlers : ~Ordering(h)) => card.status = provider.status
    /\ Balanced

CardInv == ~disturbed => Together

LEMMA Conflicts ==
  \A a, b : Conflicting(a, b) <=>
     \/ a \in Managed /\ b \in Managed
     \/ a = "terminate" /\ b \in Money
     \/ b = "terminate" /\ a \in Money
  BY DEF Conflicting, Managed, Money

\* Who keeps whom out.
LEMMA Excluded ==
  ASSUME Apart, NEW h \in Handlers, NEW g \in Handlers \ {h}
  PROVE  /\ op[h].call \in Managed => op[g].call \notin Managed
         /\ op[h].call = "terminate" => op[g].call \notin Money
         /\ op[h].call \in Money => op[g].call # "terminate"
  BY Conflicts DEF Apart

\* Whose steps they are.
LEMMA StepsAreOf ==
  ASSUME NEW r \in Request, Place(r)
  PROVE  /\ r.pc \in OrderSteps => r.call \in Managed
         /\ r.pc \in {"refund", "refundrow"} => r.call = "terminate"
         /\ r.pc = "writecard" => r.call \in {"fund", "withdraw"}
         /\ r.pc \in Pending => r.call # "issue" /\ r.there /\ ~r.here
  BY Calling DEF Place, Request, OrderSteps, Managed, Pending, FeeSteps

LEMMA DueIsInt == \A r : Due(r) \in Int
  BY Constants DEF Due

LEMMA OwedChanges ==
  ASSUME StepInv, NEW h \in Handlers, NEW q, Becomes(h, q)
  PROVE  /\ Owed \in Int
         /\ Owed' = Owed - Due(op[h]) + Due(q)
<1>1. op \in [Handlers -> Request] /\ op'[h] = q
      /\ \A g \in Handlers \ {h} : op'[g] = op[g]
  BY Known DEF Becomes
<1> DEFINE old == Unwritten
           new == Unwritten'
<1>2. /\ IsFiniteSet(Handlers)
      /\ \A g \in Handlers : old[g] \in Int
      /\ old[h] = Due(op[h])
  BY Constants, DueIsInt DEF Unwritten
<1>3. new = [g \in Handlers |-> Due(op'[g])]
  BY DEF Unwritten, Due
<1>4. /\ new[h] = Due(q) /\ new[h] \in Int
      /\ \A g \in Handlers \ {h} : new[g] = old[g]
  BY <1>1, <1>3, DueIsInt DEF Unwritten
<1>5. Owed = SumFunctionOnSet(old, Handlers)
      /\ Owed' = SumFunctionOnSet(new, Handlers)
  BY DEF Owed
<1> HIDE DEF old, new
<1>6. SumFunctionOnSet(new, Handlers)
         = SumFunctionOnSet(old, Handlers) - old[h] + new[h]
  BY <1>2, <1>4, SumOfOneChange
<1>7. SumFunctionOnSet(old, Handlers) \in Int
  BY <1>2, SumIsInt
<1>8. QED
  BY <1>2, <1>4, <1>5, <1>6, <1>7

LEMMA NothingOwed ==
  ASSUME \A h \in Handlers : op[h].pc # "writecard"
  PROVE  Owed = 0
<1>1. \A h \in Handlers : Unwritten[h] = 0
  BY DEF Unwritten, Due
<1>2. QED
  BY <1>1, Constants, SumOfZeros DEF Owed

\* A request that goes on, or ends, comes into no new conflict.
LEMMA StaysApart ==
  ASSUME StepInv, Apart, NEW h \in Handlers, NEW q, Becomes(h, q),
         q.call \in {op[h].call, "none"}
  PROVE  Apart'
<1>1. op'[h] = q /\ \A g \in Handlers \ {h} : op'[g] = op[g]
  BY Known DEF Becomes
<1>2. \A a : ~Conflicting("none", a) /\ ~Conflicting(a, "none")
  BY Conflicts DEF Managed, Money
<1>3. ASSUME NEW f \in Handlers, NEW g \in Handlers, f # g
      PROVE  ~Conflicting(op'[f].call, op'[g].call)
  BY <1>1, <1>2, <1>3 DEF Apart
<1>4. QED
  BY <1>3 DEF Apart, Conflicting

\* The rest of the requests stay where they are.
LEMMA OthersStay ==
  ASSUME StepInv, NEW h \in Handlers, NEW q, Becomes(h, q)
  PROVE  /\ op'[h] = q /\ \A g \in Handlers \ {h} : op'[g] = op[g]
         /\ Ordering(h)' <=> q.pc \in OrderSteps
         /\ \A g \in Handlers \ {h} : /\ Ordering(g)' <=> Ordering(g)
                                      /\ PaidOut(g)' <=> PaidOut(g)
  BY Known DEF Becomes, Ordering, PaidOut

LEMMA Amounts ==
  ASSUME StepInv
  PROVE  /\ card.balance \in Int /\ Held \in Int /\ cardFees \in Int
         /\ refunded \in Int /\ spent \in Nat /\ returned \in Nat
         /\ provider \in [status : CardStatus, balance : Nat]
         /\ card \in [status : CardStatus, balance : Int]
  BY DEF StepInv, MoneyTypeOK, Held

\* A refund that is paid, paid on the row as well: nothing is held.
LEMMA HeldStays ==
  ASSUME card'.balance = card.balance,
         \A g \in Handlers : PaidOut(g)' <=> PaidOut(g)
  PROVE  Held' = Held
  BY DEF Held

LEMMA AsideKeeps ==
  ASSUME StepInv, Together, NEW h \in Handlers, NEW q, Becomes(h, q),
         Place(q), Aside(h, q)
  PROVE  Together'
<1>1. op'[h] = q /\ \A g \in Handlers \ {h} : op'[g] = op[g]
  BY OthersStay
<1>2. Apart'
  BY StaysApart DEF Together, Aside
<1>3. /\ q.pc \in OrderSteps <=> op[h].pc \in OrderSteps
      /\ q.pc \in OrderSteps => q.call = op[h].call /\ q.seen = op[h].seen
                                /\ q.pc = "status" /\ op[h].pc = "refundrow"
      /\ q.pc # "writecard" /\ op[h].pc # "writecard"
  BY DEF Aside, Pending, OrderSteps
<1>4. \A g \in Handlers : /\ Ordering(g)' <=> Ordering(g)
                          /\ PaidOut(g)' <=> PaidOut(g)
  BY <1>1, <1>3 DEF Ordering, PaidOut, OrderSteps
<1>5. /\ card' = card /\ provider' = provider /\ cardFees' = cardFees
      /\ spent' = spent /\ returned' = returned /\ refunded' = refunded
  BY DEF Aside, CardKept
<1>6. Owed' = Owed
  <2>1. Due(q) = 0 /\ Due(op[h]) = 0
    BY <1>3 DEF Due
  <2>2. QED
    BY <2>1, OwedChanges
<1>7. \A g \in Handlers \ {h} : OrderInv(g)'
  BY <1>1, <1>4, <1>5 DEF Together, OrderInv
<1>8. OrderInv(h)'
  <2>1. OrderInv(h)
    BY DEF Together
  <2>2. q.pc = "failrow" /\ q.there => q.here
    BY DEF Aside
  <2>3. ~(q.call = "terminate" /\ q.pc = "call")
    BY DEF Aside
  <2>4. q.pc \in OrderSteps => op[h].pc \in OrderSteps
    BY <1>3
  <2>5. QED
    BY <1>1, <1>3, <1>5, <2>1, <2>2, <2>3, <2>4
       DEF OrderInv, Ordering, OrderSteps
<1>9. Balanced'
  BY <1>4, <1>5, <1>6, HeldStays DEF Together, Balanced
<1>10. QED
  BY <1>1, <1>2, <1>4, <1>5, <1>7, <1>8, <1>9 DEF Together

LEMMA StartKeeps ==
  ASSUME StepInv, Together, NEW h \in Handlers, NEW q, Becomes(h, q),
         Place(q), Started(h, q)
  PROVE  Together'
<1>1. op'[h] = q /\ \A g \in Handlers \ {h} : op'[g] = op[g]
  BY OthersStay
<1>2. /\ op[h].pc = "idle"
      /\ q.pc \notin {"failrow", "writecard", "refund", "refundrow",
                      "status"}
  BY Known DEF Started, Pending, Place
<1>3. Apart'
  <2>1. \A a : ~Conflicting("none", a) /\ ~Conflicting(a, "none")
    BY Conflicts DEF Managed, Money
  <2>2. \A g \in Handlers : /\ ~Conflicting(q.call, op[g].call)
                            /\ ~Conflicting(op[g].call, q.call)
    BY <2>1, Conflicts DEF Started
  <2>3. ASSUME NEW f \in Handlers, NEW g \in Handlers, f # g
        PROVE  ~Conflicting(op'[f].call, op'[g].call)
    BY <1>1, <2>2, <2>3 DEF Together, Apart
  <2>4. QED
    BY <2>3 DEF Apart, Conflicting
<1>4. \A g \in Handlers : /\ Ordering(g)' <=> Ordering(g)
                          /\ PaidOut(g)' <=> PaidOut(g)
  BY <1>1, <1>2 DEF Ordering, PaidOut, OrderSteps
<1>5. /\ card' = card /\ provider' = provider /\ cardFees' = cardFees
      /\ spent' = spent /\ returned' = returned /\ refunded' = refunded
  BY DEF Started, CardKept
<1>6. Owed' = Owed
  <2>1. Due(q) = 0 /\ Due(op[h]) = 0
    BY <1>2 DEF Due
  <2>2. QED
    BY <2>1, OwedChanges
<1>7. \A g \in Handlers \ {h} : OrderInv(g)'
  BY <1>1, <1>4, <1>5 DEF Together, OrderInv
<1>8. OrderInv(h)'
  BY <1>1, <1>2, <1>4, <1>5
     DEF OrderInv, Started, Ordering, OrderSteps
<1>9. Balanced'
  BY <1>4, <1>5, <1>6, HeldStays DEF Together, Balanced
<1>10. \A g \in Handlers : OrderInv(g)'
  BY <1>7, <1>8
<1>11. QED
  BY <1>3, <1>4, <1>5, <1>9, <1>10 DEF Together

LEMMA BookedKeeps ==
  ASSUME StepInv, Together, NEW h \in Handlers, NEW q, Becomes(h, q),
         Place(q), Booked(h, q)
  PROVE  Together'
<1>1. op'[h] = q /\ \A g \in Handlers \ {h} : op'[g] = op[g]
  BY OthersStay
<1>2. /\ op[h].pc = "writecard" /\ q.pc \in {"fundrow", "credit"}
      /\ q.call = op[h].call /\ op[h].call \in {"fund", "withdraw"}
  BY Known, StepsAreOf DEF Booked
<1>3. Apart'
  BY <1>2, StaysApart DEF Together
<1>4. \A g \in Handlers : Ordering(g)' <=> Ordering(g)
  BY <1>1, <1>2 DEF Ordering, OrderSteps
<1>5. \A g \in Handlers : op[g].call # "terminate" /\ op'[g].call # "terminate"
  BY <1>1, <1>2, Excluded DEF Together, Money
<1>6. /\ provider' = provider /\ cardFees' = cardFees /\ spent' = spent
      /\ returned' = returned /\ refunded' = refunded
  BY DEF Booked
<1>7. /\ card'.status = card.status
      /\ card'.balance = IF q.call = "fund" THEN card.balance + Amount
                                            ELSE card.balance - Amount
  BY DEF Booked, StepInv, MoneyTypeOK
<1>8. card'.balance + Owed' = card.balance + Owed
      /\ Owed \in Int /\ Owed' \in Int
  <2>1. Due(q) = 0
    BY <1>2 DEF Due
  <2>2. Due(op[h]) = IF q.call = "fund" THEN Amount ELSE -Amount
    BY <1>2 DEF Due
  <2>3. card.balance \in Int
    BY Amounts
  <2>4. Owed \in Int /\ Owed' = Owed - Due(op[h]) + Due(q)
    BY OwedChanges
  <2>5. QED
    BY <1>7, <2>1, <2>2, <2>3, <2>4, Constants
<1>9. Balanced'
  <2>1. Held = card.balance /\ Held' = card'.balance
    BY <1>5 DEF Held, PaidOut
  <2>2. /\ card.balance \in Int /\ card'.balance \in Int
        /\ cardFees \in Int /\ refunded \in Int
    BY <1>7, Amounts, Constants
  <2>3. Held + cardFees + refunded + Owed
           = provider.balance + spent + returned
    BY DEF Together, Balanced
  <2>4. Held' + cardFees' + refunded' + Owed'
           = Held + cardFees + refunded + Owed
    <3>1. Held \in Int /\ Held' \in Int /\ Owed \in Int /\ Owed' \in Int
      BY <1>8, <2>1, <2>2
    <3>2. Held' + Owed' = Held + Owed
      BY <1>8, <2>1
    <3>3. cardFees \in Int /\ refunded \in Int
      BY <2>2
    <3>4. cardFees' = cardFees /\ refunded' = refunded
      BY <1>6
    <3> DEFINE before == Held + Owed
               after == Held' + Owed'
    <3>5. Held' + cardFees + refunded + Owed'
             = Held + cardFees + refunded + Owed
      <4>1. Held' + cardFees + refunded + Owed' = after + (cardFees + refunded)
        BY <3>1, <3>3
      <4>2. Held + cardFees + refunded + Owed = before + (cardFees + refunded)
        BY <3>1, <3>3
      <4>3. after = before
        BY <3>2
      <4> HIDE DEF before, after
      <4>4. QED
        BY <4>1, <4>2, <4>3
    <3>6. QED
      BY <3>4, <3>5
  <2>5. QED
    BY <1>6, <2>3, <2>4 DEF Balanced
<1>10. \A g \in Handlers \ {h} : OrderInv(g)'
  BY <1>1, <1>4, <1>5, <1>6 DEF Together, OrderInv
<1>11. OrderInv(h)'
  BY <1>1, <1>2, <1>4 DEF OrderInv, Ordering, OrderSteps
<1>12. QED
  BY <1>1, <1>2, <1>3, <1>4, <1>6, <1>7, <1>9, <1>10, <1>11 DEF Together

LEMMA FeeKeeps ==
  ASSUME StepInv, Together, NEW h \in Handlers, NEW q, Becomes(h, q),
         Place(q), FeeTaken(h, q)
  PROVE  Together'
<1>1. op'[h] = q /\ \A g \in Handlers \ {h} : op'[g] = op[g]
  BY OthersStay
<1>2. /\ op[h].call = "fee" /\ q.call = "fee"
      /\ op[h].pc \notin {"writecard", "refund", "refundrow", "status"}
      /\ q.pc \notin {"writecard", "refund", "refundrow", "status", "failrow"}
  BY DEF FeeTaken, Pending
<1>3. Apart'
  BY <1>2, StaysApart DEF Together
<1>4. \A g \in Handlers : Ordering(g)' <=> Ordering(g)
  BY <1>1, <1>2 DEF Ordering, OrderSteps
<1>5. \A g \in Handlers : op[g].call # "terminate" /\ op'[g].call # "terminate"
  BY <1>1, <1>2, Excluded DEF Together, Money
<1>6. /\ provider' = provider /\ cardFees' = cardFees + Fee /\ spent' = spent
      /\ returned' = returned /\ refunded' = refunded
  BY DEF FeeTaken
<1>7. card'.status = card.status /\ card'.balance = card.balance - Fee
  BY DEF FeeTaken, StepInv, MoneyTypeOK
<1>8. Owed' = Owed /\ Owed \in Int
  <2>1. Due(q) = 0 /\ Due(op[h]) = 0
    BY <1>2 DEF Due
  <2>2. QED
    BY <2>1, OwedChanges
<1>9. Balanced'
  <2>1. Held = card.balance /\ Held' = card'.balance
    BY <1>5 DEF Held, PaidOut
  <2>2. card.balance \in Int /\ cardFees \in Int /\ refunded \in Int
    BY Amounts
  <2>3. Held + cardFees + refunded + Owed
           = provider.balance + spent + returned
    BY DEF Together, Balanced
  <2>4. Held' + cardFees' + refunded' + Owed'
           = Held + cardFees + refunded + Owed
    BY <1>6, <1>7, <1>8, <2>1, <2>2, Constants
  <2>5. QED
    BY <1>6, <2>3, <2>4 DEF Balanced
<1>10. \A g \in Handlers \ {h} : OrderInv(g)'
  BY <1>1, <1>4, <1>5, <1>6 DEF Together, OrderInv
<1>11. OrderInv(h)'
  BY <1>1, <1>2, <1>4 DEF OrderInv, Ordering, OrderSteps
<1>12. QED
  BY <1>1, <1>2, <1>3, <1>4, <1>6, <1>7, <1>9, <1>10, <1>11 DEF Together

\* Only one order is on its way.
LEMMA OneOrder ==
  ASSUME StepInv, Apart, NEW h \in Handlers, op[h].call \in Managed
  PROVE  /\ \A g \in Handlers \ {h} : op[g].pc \notin OrderSteps
         /\ op[h].call = "terminate" =>
               \A g \in Handlers : op[g].pc # "writecard"
<1>1. \A g \in Handlers \ {h} : op[g].call \notin Managed
  BY Excluded
<1>2. \A g \in Handlers \ {h} : op[g].pc \notin OrderSteps
  BY <1>1, Known, StepsAreOf
<1>3. ASSUME op[h].call = "terminate", NEW g \in Handlers,
             op[g].pc = "writecard"
      PROVE  FALSE
  <2>1. op[g].call \in Money
    BY <1>3, Known, StepsAreOf DEF Money
  <2>2. g # h
    BY <1>3, <2>1 DEF Money
  <2>3. QED
    BY <1>3, <2>1, <2>2, Excluded
<1>4. QED
  BY <1>2, <1>3

LEMMA PaidBackKeeps ==
  ASSUME StepInv, Together, NEW h \in Handlers, NEW q, Becomes(h, q),
         Place(q), PaidBack(h, q)
  PROVE  Together'
<1>1. op'[h] = q /\ \A g \in Handlers \ {h} : op'[g] = op[g]
  BY OthersStay
<1>2. /\ op[h].pc = "refund" /\ q.pc = "refundrow" /\ q.seen = op[h].seen
      /\ q.call = op[h].call /\ op[h].call = "terminate"
  BY Known, StepsAreOf DEF PaidBack
<1>3. Apart'
  BY <1>2, StaysApart DEF Together
<1>4. \A g \in Handlers : Ordering(g)' <=> Ordering(g)
  BY <1>1, <1>2 DEF Ordering, OrderSteps
<1>5. \A g \in Handlers \ {h} : op[g].pc \notin OrderSteps
  BY <1>2, OneOrder DEF Together, Managed
<1>6. /\ card' = card /\ provider' = provider /\ cardFees' = cardFees
      /\ spent' = spent /\ returned' = returned
      /\ refunded' = refunded + op[h].seen
  BY DEF PaidBack
<1>7. op[h].seen = card.balance /\ op[h].seen > 0
  BY <1>2 DEF Together, OrderInv, OrderSteps
<1>8. Owed' = Owed /\ Owed \in Int
  <2>1. Due(q) = 0 /\ Due(op[h]) = 0
    BY <1>2 DEF Due
  <2>2. QED
    BY <2>1, OwedChanges
<1>9. Balanced'
  <2>1. Held = card.balance
    <3>1. \A g \in Handlers : ~PaidOut(g)
      BY <1>2, <1>5 DEF PaidOut, OrderSteps
    <3>2. QED
      BY <3>1 DEF Held
  <2>2. Held' = 0
    <3>1. PaidOut(h)'
      BY <1>1, <1>2, <1>7 DEF PaidOut
    <3>2. QED
      BY <3>1 DEF Held
  <2>3. card.balance \in Int /\ cardFees \in Int /\ refunded \in Int
    BY Amounts
  <2>4. Held + cardFees + refunded + Owed
           = provider.balance + spent + returned
    BY DEF Together, Balanced
  <2>5. Held' + cardFees' + refunded' + Owed'
           = Held + cardFees + refunded + Owed
    BY <1>6, <1>7, <1>8, <2>1, <2>2, <2>3
  <2>6. QED
    BY <1>6, <2>4, <2>5 DEF Balanced
<1>10. \A g \in Handlers \ {h} : OrderInv(g)'
  BY <1>1, <1>4, <1>6 DEF Together, OrderInv
<1>11. OrderInv(h)'
  BY <1>1, <1>2, <1>4, <1>6, <1>7 DEF Together, OrderInv, Ordering, OrderSteps
<1>12. QED
  BY <1>1, <1>2, <1>3, <1>4, <1>6, <1>9, <1>10, <1>11 DEF Together, Ordering

LEMMA CarriedKeeps ==
  ASSUME StepInv, Together, NEW h \in Handlers, NEW q, Becomes(h, q),
         Place(q), Carried(h, q)
  PROVE  Together'
<1>1. /\ op'[h] = q /\ \A g \in Handlers \ {h} : op'[g] = op[g]
      /\ \A g \in Handlers \ {h} : /\ Ordering(g)' <=> Ordering(g)
                                   /\ PaidOut(g)' <=> PaidOut(g)
  BY OthersStay
<1>2. /\ op[h].pc = "call" /\ q.call = op[h].call /\ q.seen = op[h].seen
      /\ card' = card /\ cardFees' = cardFees /\ refunded' = refunded
      /\ spent' = spent
      /\ ~Ordering(h) /\ q.pc # "failrow" /\ q.pc # "call"
  BY DEF Carried, Ordering, OrderSteps
<1>3. Apart'
  BY <1>2, StaysApart DEF Together
<1>4. /\ card.balance \in Int /\ cardFees \in Int /\ returned \in Nat
      /\ refunded \in Int /\ provider.balance \in Nat /\ spent \in Nat
      /\ Held \in Int /\ provider \in [status : CardStatus, balance : Nat]
  BY Amounts
<1>5. Owed \in Int /\ Owed' = Owed + Due(q) /\ Due(q) \in Int
  <2>1. Due(op[h]) = 0
    BY <1>2 DEF Due
  <2>2. QED
    BY <2>1, OwedChanges, DueIsInt
<1>6. Held + cardFees + refunded + Owed = provider.balance + spent + returned
  BY DEF Together, Balanced
<1>7. CASE op[h].call \in {"fund", "withdraw"}
  <2>1. \A g \in Handlers : op[g].call # "terminate"
                            /\ op'[g].call # "terminate"
    BY <1>1, <1>2, <1>7, Excluded DEF Together, Money
  <2>2. /\ q.pc = "writecard" /\ returned' = returned
        /\ provider'.status = provider.status
        /\ provider'.balance = provider.balance + Due(q)
    <3>1. /\ q.pc = "writecard" /\ returned' = returned
          /\ provider' = IF q.call = "fund" THEN Funded ELSE Withdrawn
      BY <1>2, <1>7 DEF Carried
    <3>2. /\ Funded.status = provider.status
          /\ Funded.balance = provider.balance + Amount
          /\ Withdrawn.status = provider.status
          /\ Withdrawn.balance = provider.balance - Amount
      BY <1>4 DEF Funded, Withdrawn
    <3>3. Due(q) = IF q.call = "fund" THEN Amount ELSE -Amount
      BY <1>2, <1>7, <3>1 DEF Due
    <3>4. QED
      BY <1>4, <3>1, <3>2, <3>3, Constants
  <2>3. \A g \in Handlers : Ordering(g)' <=> Ordering(g)
    BY <1>1, <1>2, <2>2 DEF Ordering, OrderSteps
  <2>4. Held' = Held
    BY <1>2, <2>1 DEF Held, PaidOut
  <2>5. Held' + cardFees' + refunded' + Owed'
           = provider'.balance + spent' + returned'
    BY <1>2, <1>4, <1>5, <1>6, <2>2, <2>4
  <2>6. \A g \in Handlers \ {h} : OrderInv(g)'
    BY <1>1, <1>2, <2>2 DEF Together, OrderInv
  <2>7. OrderInv(h)'
    BY <1>1, <2>1, <2>2 DEF OrderInv, Ordering, OrderSteps
  <2>8. QED
    BY <1>1, <1>2, <1>3, <2>2, <2>3, <2>5, <2>6, <2>7 DEF Together, Balanced
<1>8. CASE op[h].call \in {"freeze", "unfreeze"}
  <2>1. \A g \in Handlers : ~Ordering(g)
    BY <1>2, <1>8, OneOrder DEF Together, Managed, Ordering
  <2>2. /\ q.pc = "status" /\ returned' = returned
        /\ provider'.status = Meant(q.call)
        /\ provider'.balance = provider.balance
    BY <1>2, <1>4, <1>8 DEF Carried, Frozen, Unfrozen, Meant
  <2>3. Owed' = Owed
    BY <1>5, <2>2 DEF Due
  <2>4. \A g \in Handlers : PaidOut(g)' <=> PaidOut(g)
    BY <1>1, <1>2, <1>8 DEF PaidOut
  <2>5. Held' = Held
    BY <1>2, <2>4, HeldStays
  <2>6. Held' + cardFees' + refunded' + Owed'
           = provider'.balance + spent' + returned'
    BY <1>2, <1>6, <2>2, <2>3, <2>5
  <2>7. \A g \in Handlers \ {h} : OrderInv(g)'
    BY <1>1, <1>2, <2>1, <2>2 DEF Together, OrderInv
  <2>8. OrderInv(h)'
    BY <1>1, <1>2, <1>8, <2>2 DEF OrderInv
  <2>9. Ordering(h)'
    BY <1>1, <2>2 DEF Ordering, OrderSteps
  <2>10. QED
    BY <1>3, <2>6, <2>7, <2>8, <2>9 DEF Together, Balanced
<1>9. CASE op[h].call = "terminate"
  <2>1. /\ \A g \in Handlers : ~Ordering(g)
        /\ Owed = 0
    BY <1>2, <1>9, OneOrder, NothingOwed DEF Together, Managed, Ordering
  <2>2. /\ q.pc = IF op[h].seen > 0 THEN "refund" ELSE "status"
        /\ provider'.status = "TERMINATED" /\ provider'.balance = 0
        /\ returned' = returned + provider.balance
    BY <1>2, <1>9 DEF Carried, Terminated
  <2>3. op[h].seen = card.balance
    BY <1>2, <1>9 DEF Together, OrderInv
  <2>4. Owed' = Owed
    BY <1>5, <2>2 DEF Due
  <2>5. \A g \in Handlers : PaidOut(g)' <=> PaidOut(g)
    BY <1>1, <1>2, <2>2 DEF PaidOut
  <2>6. Held' = Held
    BY <1>2, <2>5, HeldStays
  <2>7. Held' + cardFees' + refunded' + Owed'
           = provider'.balance + spent' + returned'
    BY <1>2, <1>4, <1>6, <2>2, <2>4, <2>6
  <2>8. Ordering(h)'
    BY <1>1, <2>2 DEF Ordering, OrderSteps
  <2>9. \A g \in Handlers \ {h} : OrderInv(g)'
    BY <1>1, <1>2, <2>1, <2>2 DEF Together, OrderInv
  <2>10. OrderInv(h)'
    <3>1. provider'.status = Meant(q.call)
      BY <1>2, <1>9, <2>2 DEF Meant
    <3>2. QED
      BY <1>1, <1>2, <2>2, <2>3, <3>1 DEF OrderInv
  <2>11. QED
    BY <1>3, <2>7, <2>8, <2>9, <2>10 DEF Together, Balanced
<1>10. QED
  BY <1>2, <1>7, <1>8, <1>9 DEF Carried

LEMMA OrderedKeeps ==
  ASSUME StepInv, Together, NEW h \in Handlers, NEW q, Becomes(h, q),
         Place(q), Ordered(h, q)
  PROVE  Together'
<1>1. op'[h] = q /\ \A g \in Handlers \ {h} : op'[g] = op[g]
  BY OthersStay
<1>2. /\ op[h].pc = "status" /\ q.pc = "log" /\ q.call = op[h].call
      /\ op[h].call \in Managed
      /\ provider' = provider /\ returned' = returned /\ spent' = spent
      /\ refunded' = refunded
  BY DEF Ordered, Managed
<1>3. Apart'
  BY <1>2, StaysApart DEF Together
<1>4. /\ \A g \in Handlers \ {h} : op[g].pc \notin OrderSteps
      /\ \A g \in Handlers \ {h} : op[g].call # "terminate"
  BY <1>2, OneOrder, Excluded DEF Together, Managed
<1>5. \A g \in Handlers : ~Ordering(g)' /\ op'[g].pc \notin OrderSteps
  BY <1>1, <1>2, <1>4 DEF Ordering, OrderSteps
<1>6. provider.status = Meant(op[h].call)
  BY <1>2 DEF Together, OrderInv, Ordering, OrderSteps
<1>7. Owed' = Owed /\ Owed \in Int
  <2>1. Due(q) = 0 /\ Due(op[h]) = 0
    BY <1>2 DEF Due
  <2>2. QED
    BY <2>1, OwedChanges
<1>8. card \in [status : CardStatus, balance : Int] /\ cardFees \in Int
  BY Amounts
<1>9. Held' = card'.balance
  BY <1>5 DEF Held, PaidOut, OrderSteps
<1>10. card'.status = provider'.status /\ Held' + cardFees' = Held + cardFees
  <2>1. CASE op[h].call \in {"freeze", "unfreeze"}
    <3>1. /\ card'.status = Meant(op[h].call) /\ card'.balance = card.balance
          /\ cardFees' = cardFees
      BY <1>2, <1>8, <2>1 DEF Ordered, Meant
    <3>2. \A g \in Handlers : ~PaidOut(g)
      BY <1>4, <2>1 DEF PaidOut
    <3>3. QED
      BY <1>2, <1>6, <1>9, <3>1, <3>2 DEF Held
  <2>2. CASE op[h].call = "terminate"
    <3>1. /\ card'.status = "TERMINATED" /\ card'.balance = 0
          /\ cardFees' = IF card.balance < 0 THEN cardFees + card.balance
                         ELSE cardFees
      BY <1>2, <2>2 DEF Ordered
    <3>2. op[h].seen = card.balance
      BY <1>2, <2>2 DEF Together, OrderInv, OrderSteps
    <3>3. Held = IF card.balance > 0 THEN 0 ELSE card.balance
      <4>1. PaidOut(h) <=> card.balance > 0
        BY <1>2, <2>2, <3>2 DEF PaidOut
      <4>2. \A g \in Handlers \ {h} : ~PaidOut(g)
        BY <1>4 DEF PaidOut
      <4>3. QED
        BY <4>1, <4>2 DEF Held
    <3>4. QED
      BY <1>2, <1>6, <1>8, <1>9, <2>2, <3>1, <3>3 DEF Meant
  <2>3. QED
    BY <1>2, <2>1, <2>2 DEF Managed
<1>11. Balanced'
  <2>1. /\ Held \in Int /\ Held' \in Int /\ cardFees' \in Int
        /\ refunded \in Int
    <3>1. Held' \in Int /\ cardFees' \in Int
      BY <1>8, <1>9 DEF Ordered
    <3>2. QED
      BY <3>1, Amounts
  <2>2. Held + cardFees + refunded + Owed
           = provider.balance + spent + returned
    BY DEF Together, Balanced
  <2>3. Held' + cardFees' + refunded' + Owed'
           = Held + cardFees + refunded + Owed
    BY <1>2, <1>7, <1>8, <1>10, <2>1
  <2>4. QED
    BY <1>2, <2>2, <2>3 DEF Balanced
<1>12. ASSUME NEW g \in Handlers PROVE OrderInv(g)'
  <2>1. CASE g = h
    BY <1>1, <1>2, <1>5, <2>1 DEF OrderInv
  <2>2. CASE g # h
    BY <1>1, <1>4, <1>5, <2>2 DEF Together, OrderInv
  <2>3. QED
    BY <2>1, <2>2
<1>13. QED
  BY <1>3, <1>10, <1>11, <1>12 DEF Together

LEMMA CardKeptTogether ==
  ASSUME StepInv, CardInv, [AlphaSpaceNext]_avars
  PROVE  CardInv'
<1> SUFFICES ASSUME ~disturbed' PROVE Together'
  BY DEF CardInv
<1>1. ASSUME NEW h \in Handlers, Proceeds(h) PROVE Together'
  <2>1. PICK q : Becomes(h, q) /\ Place(q) /\ ~disturbed /\ Effect(h, q)
    BY <1>1 DEF Proceeds, GoodRequest
  <2>2. Together
    BY <2>1 DEF CardInv
  <2>3. QED
    BY <2>1, <2>2, AsideKeeps, StartKeeps, CarriedKeeps, BookedKeeps,
       OrderedKeeps, PaidBackKeeps, FeeKeeps DEF Effect
<1>2. CASE Still
  <2>1. Together
    BY <1>2 DEF Still, CardInv
  <2>2. Owed' = Owed
    BY <1>2 DEF Still, Owed, Unwritten, Due
  <2>3. Held' = Held
    BY <1>2 DEF Still, CardKept, Held, PaidOut
  <2>4. QED
    BY <1>2, <2>1, <2>2, <2>3 DEF Still, CardKept, Together, Apart,
       Conflicting, OrderInv, Ordering, Balanced
<1>3. CASE Crash
  <2>1. /\ CardKept
        /\ op' = [h \in Handlers |-> Idle]
        /\ disturbed' = \/ disturbed
                        \/ \E h \in Handlers : op[h].there /\ ~op[h].here
    BY <1>3 DEF Crash, money, CardKept
  <2>2. /\ ~disturbed
        /\ \A h \in Handlers : ~(op[h].there /\ ~op[h].here)
    BY <2>1
  <2>3. Together
    BY <2>2 DEF CardInv
  <2>4. \A h \in Handlers : op[h].pc \notin Pending
    BY <2>2, Known, StepsAreOf
  <2>5. \A h \in Handlers : /\ op'[h].pc = "idle" /\ op'[h].call = "none"
    BY <2>1 DEF Idle
  <2>6. Owed = 0 /\ Owed' = 0
    <3>1. Owed = 0
      BY <2>4, NothingOwed DEF Pending
    <3>2. \A h \in Handlers : Unwritten'[h] = 0
      BY <2>5 DEF Unwritten, Due
    <3> DEFINE new == Unwritten'
    <3>3. \A h \in Handlers : new[h] = 0
      BY <3>2
    <3>4. Owed' = SumFunctionOnSet(new, Handlers)
      BY DEF Owed
    <3> HIDE DEF new
    <3>5. SumFunctionOnSet(new, Handlers) = 0
      BY <3>3, Constants, SumOfZeros
    <3>6. QED
      BY <3>1, <3>4, <3>5
  <2>7. card.status = provider.status
    <3>1. \A h \in Handlers : ~Ordering(h)
      BY <2>4 DEF Ordering, OrderSteps, Pending
    <3>2. QED
      BY <2>3, <3>1 DEF Together
  <2>8. Apart'
    <3>1. ~Conflicting("none", "none")
      BY Conflicts DEF Managed, Money
    <3>2. QED
      BY <2>5, <3>1 DEF Apart, Conflicting
  <2>9. \A h \in Handlers : OrderInv(h)'
    BY <2>5 DEF OrderInv, Ordering, OrderSteps
  <2>10. Held' = Held
    BY <2>1, <2>4, <2>5 DEF CardKept, Held, PaidOut, Pending
  <2>11. Balanced'
    BY <2>1, <2>3, <2>6, <2>10 DEF CardKept, Together, Balanced
  <2>12. QED
    BY <2>1, <2>7, <2>8, <2>9, <2>11 DEF CardKept, Together
<1>4. CASE CardIsUsed
  <2>1. /\ op' = op /\ card' = card /\ cardFees' = cardFees
        /\ refunded' = refunded /\ returned' = returned
        /\ disturbed' = disturbed
    BY <1>4 DEF CardIsUsed
  <2>2. PICK n \in 1..provider.balance :
           /\ provider' = [provider EXCEPT !.balance = @ - n]
           /\ spent' = spent + n
    BY <1>4 DEF CardIsUsed
  <2>3. Together
    BY <2>1 DEF CardInv
  <2>4. /\ Owed' = Owed /\ Held' = Held
        /\ \A h \in Handlers : Ordering(h)' <=> Ordering(h)
    BY <2>1 DEF Owed, Unwritten, Due, Held, PaidOut, Ordering
  <2>5. /\ provider'.status = provider.status
        /\ provider'.balance = provider.balance - n
        /\ provider.balance \in Nat /\ spent \in Nat /\ returned \in Nat
    BY <2>2, Amounts
  <2>6. provider'.balance + spent' + returned'
           = provider.balance + spent + returned
    BY <2>1, <2>2, <2>5
  <2>7. Balanced'
    BY <2>1, <2>3, <2>4, <2>6 DEF Together, Balanced
  <2>8. \A h \in Handlers : OrderInv(h)'
    BY <2>1, <2>3, <2>4, <2>5 DEF Together, OrderInv
  <2>9. Apart'
    BY <2>1, <2>3 DEF Together, Apart, Conflicting
  <2>10. QED
    BY <2>1, <2>3, <2>4, <2>5, <2>7, <2>8, <2>9 DEF Together
<1>5. QED
  BY <1>1, <1>2, <1>3, <1>4, NextCases

LEMMA InitCard == AlphaSpaceInit => CardInv
<1> SUFFICES ASSUME AlphaSpaceInit PROVE Together
  BY DEF CardInv
<1>1. /\ card = [status |-> "ACTIVE", balance |-> OpeningCard]
      /\ provider = card /\ cardFees = 0 /\ spent = 0 /\ returned = 0
      /\ refunded = 0 /\ op = [h \in Handlers |-> Idle]
  BY DEF AlphaSpaceInit
<1>2. \A h \in Handlers : op[h].pc = "idle" /\ op[h].call = "none"
  BY <1>1 DEF Idle
<1>3. Owed = 0
  BY <1>2, NothingOwed
<1>4. Apart
  <2>1. ~Conflicting("none", "none")
    BY Conflicts DEF Managed, Money
  <2>2. QED
    BY <1>2, <2>1 DEF Apart
<1>5. \A h \in Handlers : OrderInv(h)
  BY <1>2 DEF OrderInv, Ordering, OrderSteps
<1>6. Held = OpeningCard
  BY <1>1, <1>2 DEF Held, PaidOut
<1>7. Balanced
  BY <1>1, <1>3, <1>6, Constants DEF Balanced
<1>8. QED
  BY <1>1, <1>4, <1>5, <1>7 DEF Together

LEMMA AlwaysCardInv == AlphaSpaceSpec => []CardInv
<1>1. AlphaSpaceInit => CardInv
  BY InitCard
<1>2. StepInv /\ CardInv /\ [AlphaSpaceNext]_avars => CardInv'
  BY CardKeptTogether
<1>3. QED
  BY <1>1, <1>2, AlwaysStepInv, PTL DEF AlphaSpaceSpec

\* With nothing under way, nothing is on its way to the row.
LEMMA NothingUnderWay ==
  ASSUME StepInv, UnderWay = {}
  PROVE  /\ Owed = 0 /\ Held = card.balance
         /\ \A h \in Handlers : ~Ordering(h)
<1>1. \A h \in Handlers : op[h].pc \notin Pending
  BY Known, StepsAreOf DEF UnderWay
<1>2. QED
  BY <1>1, NothingOwed DEF Pending, Ordering, Held, PaidOut, OrderSteps

\* The row of the card, the fees and the refunds account for what AlphaSpace
\* holds, gave back and saw spent, and the status is AlphaSpace's, whatever
\* fundings, withdrawals and fees overlap, unless an answer or a write was
\* lost or requests that write over each other overlapped
\* (card.fund.service.ts, card.withdraw.service.ts,
\* card.management.service.ts).
THEOREM AlphaRowFollows == AlphaSpaceSpec => []AlphaCardFollowsProvider
<1>1. StepInv /\ CardInv => AlphaCardFollowsProvider
  <2> SUFFICES ASSUME StepInv, CardInv, ~disturbed, UnderWay = {}
               PROVE  /\ card.status = provider.status
                      /\ card.balance + cardFees + refunded
                            = provider.balance + spent + returned
    BY DEF AlphaCardFollowsProvider
  <2>1. card.status = provider.status /\ Balanced
    BY NothingUnderWay DEF CardInv, Together
  <2>2. /\ Owed = 0 /\ Held = card.balance
        /\ card.balance \in Int /\ cardFees \in Int /\ refunded \in Int
    BY NothingUnderWay, Amounts
  <2>3. QED
    BY <2>1, <2>2 DEF Balanced
<1>2. QED
  BY <1>1, AlwaysStepInv, AlwaysCardInv, PTL
=============================================================================
