---------------------------- MODULE WalletProofs ----------------------------
(***************************************************************************)
(* Proofs about what comes into a wallet and what leaves it, for any       *)
(* attempts, calls, items, amounts and executions.  WalletFunding: what is *)
(* credited was paid for, how often a row is credited, and what the        *)
(* balance is.  WalletWithdrawal: what overdraws a pocket, which           *)
(* withdrawals stay debited, and that the books balance.                   *)
(* PendingWithdrawalQueue: it implements the withdrawals, and pays an item *)
(* once.                                                                   *)
(***************************************************************************)
EXTENDS WalletFunding, PendingWithdrawalQueue, SumLemmas, TLAPS

(***************************************************************************)
(* WalletFunding                                                           *)
(***************************************************************************)
LEMMA FundingConstants ==
  /\ NoTrx \notin Trx
  /\ \A t \in Trx : /\ WalletOf[t] \in Wallets
                    /\ Amount[t] \in Int
                    /\ Amount[t] > 0
  BY FundingAssumption

LEMMA OpeningType == Opening \in [Wallets -> Int]
  BY FundingAssumption

(***************************************************************************)
(* Type correctness.  Only a busy handler has a row, and a row exists only *)
(* for a collection the provider knows of: its call comes first.           *)
(***************************************************************************)
JobOK == \A h \in Handlers : job[h].pc # "idle" => job[h].trx \in Trx

Known(t) == provider[t] # "NONE"
KnownOK ==
  /\ \A t \in Trx : req[t].pc \in {"collected", "created"} => Known(t)
  /\ \A t \in Trx : Exists(t) => Known(t)
  /\ \A h \in Handlers : job[h].pc # "idle" => Known(job[h].trx)

FundInv == TypeOK /\ JobOK /\ KnownOK

LEMMA NoJobType == NoJob \in Job
  BY DEF NoJob, Job, PayloadStatus, ProviderStatus, RowStatus

LEMMA InitFundInv == Init => FundInv
<1> SUFFICES ASSUME Init PROVE FundInv
  OBVIOUS
<1>1. NoRow \in Row
  BY DEF NoRow, Row
<1>2. TypeOK
  BY <1>1, NoJobType, OpeningType DEF Init, TypeOK, Request
<1>3. JobOK /\ KnownOK
  BY <1>1 DEF Init, JobOK, KnownOK, NoJob, NoRow, Exists, Known
<1>4. QED
  BY <1>2, <1>3 DEF FundInv

LEMMA NewStatusType ==
  \A s : NewStatus(s) \in {"FAILED", "SUCCESS", "EXPIRED", "KEEP"}
  BY DEF NewStatus

LEMMA UpdatedType ==
  ASSUME FundInv, NEW h \in Handlers, job[h].trx \in Trx
  PROVE  /\ Updated(h) \in Row
         /\ Updated(h).status = "NONE" => trx[job[h].trx].status = "NONE"
<1>1. trx[job[h].trx] \in Row
  BY DEF FundInv, TypeOK
<1>2. NewStatus(job[h].status) \in {"FAILED", "SUCCESS", "EXPIRED", "KEEP"}
  BY NewStatusType
<1>3. QED
  BY <1>1, <1>2 DEF Updated, Row, RowStatus

\* Starting a handler on a row that exists, for the actions that do so.
LEMMA StartFundInv ==
  ASSUME FundInv, NEW h \in Handlers, NEW t \in Trx,
         NEW pc \in {"read", "init"},
         NEW via \in {"webhook", "read"}, NEW s \in PayloadStatus,
         Start(h, t, pc, via, s), Exists(t),
         delivered' \in Nat,
         UNCHANGED <<wallet, trx, req, provider, hooks, crashes, credits,
                     abandoned, crossed>>
  PROVE  FundInv'
<1> DEFINE r == [pc |-> pc, trx |-> t, via |-> via, status |-> s,
                 init |-> "NONE", bal |-> 0]
<1>1. r \in Job
  BY DEF Job
<1>2. job' = [job EXCEPT ![h] = r] /\ raced' \in SUBSET Trx
  BY DEF Start, FundInv, TypeOK
<1>3. Known(t)
  BY DEF FundInv, KnownOK
<1>4. job' \in [Handlers -> Job] /\ job'[h] = r
      /\ \A g \in Handlers \ {h} : job'[g] = job[g]
  BY <1>1, <1>2 DEF FundInv, TypeOK
<1>5. TypeOK'
  BY <1>2, <1>4 DEF FundInv, TypeOK
<1>6. JobOK'
  BY <1>4 DEF FundInv, JobOK
<1>7. KnownOK'
  BY <1>3, <1>4 DEF FundInv, KnownOK, Known, Exists
<1>8. QED
  BY <1>5, <1>6, <1>7 DEF FundInv

\* A handler step that only changes its own record and keeps its row, or
\* ends.
LEMMA JobFundInv ==
  ASSUME FundInv, NEW h \in Handlers, NEW r \in Job,
         job[h].pc # "idle",
         r = NoJob \/ r.trx = job[h].trx,
         job' = [job EXCEPT ![h] = r]
  PROVE  /\ job' \in [Handlers -> Job]
         /\ \A g \in Handlers : job'[g].pc # "idle" =>
               job'[g].trx \in Trx /\ Known(job'[g].trx)
  BY DEF FundInv, TypeOK, JobOK, KnownOK, NoJob

LEMMA BusyJob ==
  ASSUME FundInv, NEW h \in Handlers, job[h].pc # "idle"
  PROVE  /\ job[h] \in Job /\ job[h].trx \in Trx /\ Known(job[h].trx)
         /\ provider[job[h].trx] \in ProviderStatus
         /\ trx[job[h].trx] \in Row
  BY DEF FundInv, TypeOK, JobOK, KnownOK, Known

LEMMA NextFundInv == FundInv /\ [Next]_vars => FundInv'
<1> SUFFICES ASSUME FundInv, [Next]_vars PROVE FundInv'
  OBVIOUS
<1>1. ASSUME NEW t \in Trx, FundCheck(t) PROVE FundInv'
  <2>1. req' \in [Trx -> Request]
        /\ \A u \in Trx : req'[u].pc \in {"collected", "created"}
                             => req[u].pc \in {"collected", "created"}
    <3>1. [pc |-> "checked", bal |-> wallet[WalletOf[t]]] \in Request
      BY FundingConstants DEF FundInv, TypeOK, Request
    <3>2. [req[t] EXCEPT !.pc = "error"] \in Request
      BY DEF FundInv, TypeOK, Request
    <3>3. PICK r \in Request : /\ r.pc \in {"checked", "error"}
                              /\ req' = [req EXCEPT ![t] = r]
      <4>1. CASE req' = [req EXCEPT ![t] = [pc |-> "checked",
                                            bal |-> wallet[WalletOf[t]]]]
        BY <3>1, <4>1
      <4>2. CASE req' = [req EXCEPT ![t].pc = "error"]
        <5>1. [req[t] EXCEPT !.pc = "error"].pc = "error"
          BY DEF FundInv, TypeOK, Request
        <5>2. QED
          BY <3>2, <4>2, <5>1
      <4>3. QED
        BY <1>1, <4>1, <4>2 DEF FundCheck
    <3>4. QED
      BY <3>3 DEF FundInv, TypeOK
  <2>2. UNCHANGED <<wallet, trx, provider, hooks, job, delivered, crashes,
                    credits, raced, abandoned, crossed>>
    BY <1>1 DEF FundCheck, history
  <2>3. QED
    BY <2>1, <2>2 DEF FundInv, TypeOK, JobOK, KnownOK, Known, Exists
<1>2. ASSUME NEW t \in Trx, FundCollect(t) PROVE FundInv'
  <2>1. req' \in [Trx -> Request]
    BY <1>2 DEF FundInv, TypeOK, FundCollect, InitiateAfribapayCollect, Request
  <2>2. /\ provider' \in [Trx -> ProviderStatus \cup {"NONE"}]
        /\ hooks' \in [Trx -> SUBSET ProviderStatus]
    BY <1>2 DEF FundInv, TypeOK, FundCollect, InitiateAfribapayCollect, ProviderStatus
  <2>3. /\ \A u \in Trx : Known(u) => Known(u)'
        /\ \A u \in Trx : req'[u].pc \in {"collected", "created"}
             => req[u].pc \in {"collected", "created"} \/ Known(u)'
    <3>1. CASE provider' = [provider EXCEPT ![t] = "PENDING"]
      BY <1>2, <3>1 DEF FundInv, TypeOK, FundCollect, InitiateAfribapayCollect, Known
    <3>2. CASE provider' = provider /\ req' = [req EXCEPT ![t].pc = "error"]
      BY <3>2 DEF FundInv, TypeOK, Known
    <3>3. QED
      BY <1>2, <3>1, <3>2 DEF FundCollect, InitiateAfribapayCollect
  <2>4. UNCHANGED <<wallet, trx, job, delivered, crashes, credits, raced,
                    abandoned, crossed>>
    BY <1>2 DEF FundCollect, InitiateAfribapayCollect, history
  <2>5. TypeOK'
    BY <2>1, <2>2, <2>4 DEF FundInv, TypeOK
  <2>6. JobOK' /\ KnownOK'
    BY <2>3, <2>4 DEF FundInv, JobOK, KnownOK, Known, Exists
  <2>7. QED
    BY <2>5, <2>6 DEF FundInv
<1>3. ASSUME NEW t \in Trx, FundCreate(t) PROVE FundInv'
  <2>1. req' \in [Trx -> Request]
        /\ \A u \in Trx : req'[u].pc \in {"collected", "created"}
                             => req[u].pc \in {"collected", "created"}
    BY <1>3 DEF FundInv, TypeOK, FundCreate, Request
  <2>2. [status |-> "PENDING", ref |-> FALSE,
         before |-> req[t].bal, after |-> req[t].bal] \in Row
    BY DEF FundInv, TypeOK, Row, Request, RowStatus
  <2>3. trx' \in [Trx -> Row]
        /\ \A u \in Trx : u # t => trx'[u] = trx[u]
    BY <1>3, <2>2 DEF FundInv, TypeOK, FundCreate
  <2>4. UNCHANGED <<wallet, provider, hooks, job, delivered, crashes,
                    credits, raced, abandoned, crossed>>
    BY <1>3 DEF FundCreate, history
  <2>5. Known(t)
    BY <1>3 DEF FundInv, KnownOK, FundCreate
  <2>6. TypeOK'
    BY <2>1, <2>3, <2>4 DEF FundInv, TypeOK
  <2>7. JobOK' /\ KnownOK'
    BY <2>1, <2>3, <2>4, <2>5 DEF FundInv, JobOK, KnownOK, Known, Exists
  <2>8. QED
    BY <2>6, <2>7 DEF FundInv
<1>4. ASSUME NEW t \in Trx, FundSetReference(t) PROVE FundInv'
  <2>1. req' \in [Trx -> Request]
        /\ \A u \in Trx : req'[u].pc \in {"collected", "created"}
                             => req[u].pc \in {"collected", "created"}
    BY <1>4 DEF FundInv, TypeOK, FundSetReference, Request
  <2>2. [trx[t] EXCEPT !.ref = TRUE, !.status = "PENDING"] \in Row
    BY DEF FundInv, TypeOK, Row, RowStatus
  <2>3. trx' \in [Trx -> Row]
        /\ \A u \in Trx : u # t => trx'[u] = trx[u]
    BY <1>4, <2>2 DEF FundInv, TypeOK, FundSetReference
  <2>4. raced' \in SUBSET Trx
    BY <1>4 DEF FundInv, TypeOK, FundSetReference
  <2>5. UNCHANGED <<wallet, provider, hooks, job, delivered, crashes,
                    credits, abandoned, crossed>>
    BY <1>4 DEF FundSetReference
  <2>6. Known(t)
    BY <1>4 DEF FundInv, KnownOK, FundSetReference
  <2>7. TypeOK'
    BY <2>1, <2>3, <2>4, <2>5 DEF FundInv, TypeOK
  <2>8. JobOK' /\ KnownOK'
    BY <2>1, <2>3, <2>5, <2>6 DEF FundInv, JobOK, KnownOK, Known, Exists
  <2>9. QED
    BY <2>7, <2>8 DEF FundInv
<1>5. ASSUME NEW t \in Trx, ProviderSettles(t) PROVE FundInv'
  <2>1. /\ provider' \in [Trx -> ProviderStatus \cup {"NONE"}]
        /\ hooks' \in [Trx -> SUBSET ProviderStatus]
        /\ \A u \in Trx : Known(u) => Known(u)'
    BY <1>5 DEF FundInv, TypeOK, ProviderSettles, ProviderStatus, Known
  <2>2. UNCHANGED <<wallet, trx, req, job, delivered, crashes, credits,
                    raced, abandoned, crossed>>
    BY <1>5 DEF ProviderSettles, history
  <2>3. TypeOK'
    BY <2>1, <2>2 DEF FundInv, TypeOK
  <2>4. JobOK' /\ KnownOK'
    BY <2>1, <2>2 DEF FundInv, JobOK, KnownOK, Known, Exists
  <2>5. QED
    BY <2>3, <2>4 DEF FundInv
<1>6. ASSUME NEW h \in Handlers, NEW t \in Trx, ReadFetch(h, t) PROVE FundInv'
  <2>1. /\ Start(h, t, "read", "read", "PENDING") /\ Exists(t)
        /\ "PENDING" \in PayloadStatus
    BY <1>6 DEF ReadFetch, PayloadStatus, ProviderStatus, Exists
  <2>2. delivered' \in Nat
        /\ UNCHANGED <<wallet, trx, req, provider, hooks, crashes, credits,
                       abandoned, crossed>>
    BY <1>6 DEF ReadFetch, FundInv, TypeOK
  <2>3. QED
    BY <2>1, <2>2, StartFundInv
<1>7. ASSUME NEW h \in Handlers, NEW t \in Trx, NEW s \in ProviderStatus,
             Webhook(h, t, s)
      PROVE FundInv'
  <2>1. /\ Start(h, t, "init", "webhook", s) /\ Exists(t)
        /\ s \in PayloadStatus
    BY <1>7 DEF Webhook, PayloadStatus
  <2>2. delivered' \in Nat
        /\ UNCHANGED <<wallet, trx, req, provider, hooks, crashes, credits,
                       abandoned, crossed>>
    BY <1>7 DEF Webhook, FundInv, TypeOK
  <2>3. QED
    BY <2>1, <2>2, StartFundInv
<1>8. ASSUME NEW h \in Handlers, NEW r \in Job, job[h].pc # "idle",
             r = NoJob \/ r.trx = job[h].trx, job' = [job EXCEPT ![h] = r],
             UNCHANGED <<wallet, trx, req, provider, hooks, delivered,
                         crashes, credits, raced>>,
             abandoned' \in SUBSET Trx, crossed' \in SUBSET Wallets
      PROVE FundInv'
  <2>1. TypeOK'
    BY <1>8, JobFundInv DEF FundInv, TypeOK
  <2>2. JobOK' /\ KnownOK'
    BY <1>8, JobFundInv DEF FundInv, JobOK, KnownOK, Known, Exists
  <2>3. QED
    BY <2>1, <2>2 DEF FundInv
<1>9. ASSUME NEW h \in Handlers, ReadAnswered(h) PROVE FundInv'
  <2>1. job[h].pc # "idle"
    BY <1>9 DEF ReadAnswered
  <2>2. UNCHANGED <<wallet, trx, req, provider, hooks, delivered, crashes,
                    credits, raced, abandoned, crossed>>
    BY <1>9 DEF ReadAnswered, history
  <2>3. PICK answer \in {provider[job[h].trx], "NOTFOUND"} :
          IF answer # "PENDING"
          THEN job' = [job EXCEPT ![h].pc = "init", ![h].status = answer]
          ELSE End(h)
    BY <1>9 DEF ReadAnswered
  <2>4. CASE answer # "PENDING"
    <3> DEFINE r == [job[h] EXCEPT !.pc = "init", !.status = answer]
    <3>1. r \in Job /\ r.trx = job[h].trx
      BY <2>1, BusyJob DEF Job, PayloadStatus
    <3>2. job' = [job EXCEPT ![h] = r]
      BY <2>3, <2>4 DEF FundInv, TypeOK
    <3>3. QED
      BY <1>8, <2>1, <2>2, <3>1, <3>2 DEF FundInv, TypeOK
  <2>5. CASE answer = "PENDING"
    <3>1. job' = [job EXCEPT ![h] = NoJob]
      BY <2>3, <2>5 DEF End
    <3>2. QED
      BY <1>8, <2>1, <2>2, <3>1, NoJobType DEF FundInv, TypeOK
  <2>6. QED
    BY <2>4, <2>5
<1>10. ASSUME NEW h \in Handlers, StatusCallFails(h) PROVE FundInv'
  <2>1. job[h].pc # "idle" /\ job' = [job EXCEPT ![h] = NoJob]
    BY <1>10 DEF StatusCallFails, End
  <2>2. UNCHANGED <<wallet, trx, req, provider, hooks, delivered, crashes,
                    credits, raced, abandoned, crossed>>
    BY <1>10 DEF StatusCallFails, history
  <2>3. QED
    BY <1>8, <2>1, <2>2, NoJobType DEF FundInv, TypeOK
<1>11. ASSUME NEW h \in Handlers, ReadInitial(h) PROVE FundInv'
  <2> DEFINE r == [job[h] EXCEPT !.pc = "update",
                                 !.init = trx[job[h].trx].status]
  <2>1. job[h].pc # "idle"
    BY <1>11 DEF ReadInitial
  <2>2. r \in Job /\ r.trx = job[h].trx
    BY <2>1, BusyJob DEF Job, Row
  <2>3. job' = [job EXCEPT ![h] = r]
    BY <1>11 DEF ReadInitial, FundInv, TypeOK
  <2>4. UNCHANGED <<wallet, trx, req, provider, hooks, delivered, crashes,
                    credits, raced, abandoned, crossed>>
    BY <1>11 DEF ReadInitial, history
  <2>5. QED
    BY <1>8, <2>1, <2>2, <2>3, <2>4 DEF FundInv, TypeOK
<1>12. ASSUME NEW h \in Handlers, WriteStatus(h) PROVE FundInv'
  <2>1. job[h].pc # "idle"
    BY <1>12 DEF WriteStatus
  <2>2. job[h] \in Job /\ job[h].trx \in Trx /\ Known(job[h].trx)
    BY <2>1, BusyJob
  <2>3. trx' \in [Trx -> Row]
        /\ \A u \in Trx : u # job[h].trx => trx'[u] = trx[u]
    BY <1>12, <2>2, UpdatedType DEF WriteStatus, FundInv, TypeOK
  <2>4. PICK r \in Job : /\ job' = [job EXCEPT ![h] = r]
                         /\ r = NoJob \/ r.trx = job[h].trx
    <3>1. [job[h] EXCEPT !.pc = "wallet"] \in Job
      BY <2>2 DEF Job
    <3>2. CASE MustCredit(h)
      BY <1>12, <2>2, <3>1, <3>2 DEF WriteStatus, FundInv, TypeOK, Job
    <3>3. CASE ~MustCredit(h)
      BY <1>12, <3>3, NoJobType DEF WriteStatus, End
    <3>4. QED
      BY <3>2, <3>3
  <2>5. UNCHANGED <<wallet, req, provider, hooks, delivered, crashes,
                    credits, raced, abandoned, crossed>>
    BY <1>12 DEF WriteStatus, history
  <2>6. TypeOK'
    BY <2>1, <2>3, <2>4, <2>5, JobFundInv DEF FundInv, TypeOK
  <2>7. JobOK' /\ KnownOK'
    BY <2>1, <2>2, <2>3, <2>4, <2>5, JobFundInv
       DEF FundInv, JobOK, KnownOK, Known, Exists
  <2>8. QED
    BY <2>6, <2>7 DEF FundInv
<1>13. ASSUME NEW h \in Handlers, ReadWallet(h) PROVE FundInv'
  <2> DEFINE r == [job[h] EXCEPT !.pc = "credit",
                                 !.bal = wallet[WalletOf[job[h].trx]]]
  <2>1. job[h].pc # "idle"
    BY <1>13 DEF ReadWallet
  <2>2. WalletOf[job[h].trx] \in Wallets
    BY <2>1, BusyJob, FundingConstants
  <2>3. r \in Job /\ r.trx = job[h].trx
    BY <2>1, <2>2, BusyJob DEF Job, FundInv, TypeOK
  <2>4. job' = [job EXCEPT ![h] = r]
    BY <1>13 DEF ReadWallet, FundInv, TypeOK
  <2>5. crossed' \in SUBSET Wallets
    BY <1>13, <2>2 DEF ReadWallet, FundInv, TypeOK
  <2>6. UNCHANGED <<wallet, trx, req, provider, hooks, delivered, crashes,
                    credits, raced, abandoned>>
    BY <1>13 DEF ReadWallet
  <2>7. QED
    BY <1>8, <2>1, <2>3, <2>4, <2>5, <2>6 DEF FundInv, TypeOK
<1>14. ASSUME NEW h \in Handlers, CreditWallet(h) PROVE FundInv'
  <2> DEFINE r == [job[h] EXCEPT !.pc = "stamp"]
  <2>1. job[h].pc # "idle"
    BY <1>14 DEF CreditWallet
  <2>2. job[h] \in Job /\ job[h].trx \in Trx
        /\ WalletOf[job[h].trx] \in Wallets /\ Amount[job[h].trx] \in Int
    BY <2>1, BusyJob, FundingConstants
  <2>3. r \in Job /\ r.trx = job[h].trx
    BY <2>2 DEF Job
  <2>4. job' = [job EXCEPT ![h] = r]
    BY <1>14 DEF CreditWallet, FundInv, TypeOK
  <2>5. job[h].bal + Amount[job[h].trx] \in Int
    BY <2>2 DEF Job
  <2>6. wallet' \in [Wallets -> Int]
    BY <1>14, <2>2, <2>5 DEF CreditWallet, FundInv, TypeOK
  <2>7. credits' \in [Trx -> Nat]
    BY <1>14, <2>2 DEF CreditWallet, FundInv, TypeOK
  <2>8. UNCHANGED <<trx, req, provider, hooks, delivered, crashes, raced,
                    abandoned, crossed>>
    BY <1>14 DEF CreditWallet
  <2>9. TypeOK'
    BY <2>1, <2>3, <2>4, <2>6, <2>7, <2>8, JobFundInv DEF FundInv, TypeOK
  <2>10. JobOK' /\ KnownOK'
    BY <2>1, <2>3, <2>4, <2>8, JobFundInv DEF FundInv, JobOK, KnownOK, Known, Exists
  <2>11. QED
    BY <2>9, <2>10 DEF FundInv
<1>15. ASSUME NEW h \in Handlers, StampBalances(h) PROVE FundInv'
  <2>1. job[h].pc # "idle" /\ job' = [job EXCEPT ![h] = NoJob]
    BY <1>15 DEF StampBalances, End
  <2>2. job[h] \in Job /\ job[h].trx \in Trx /\ Known(job[h].trx)
        /\ trx[job[h].trx] \in Row /\ Amount[job[h].trx] \in Int
    BY <2>1, BusyJob, FundingConstants
  <2>3. [trx[job[h].trx] EXCEPT !.before = job[h].bal,
                                !.after = job[h].bal + Amount[job[h].trx]]
          \in Row
    <3>1. job[h].bal \in Int /\ job[h].bal + Amount[job[h].trx] \in Int
      BY <2>2 DEF Job
    <3>2. QED
      BY <2>2, <3>1 DEF Row
  <2>4. trx' \in [Trx -> Row]
        /\ \A u \in Trx : u # job[h].trx => trx'[u] = trx[u]
    BY <1>15, <2>2, <2>3 DEF StampBalances, FundInv, TypeOK
  <2>5. UNCHANGED <<wallet, req, provider, hooks, delivered, crashes,
                    credits, raced, abandoned, crossed>>
    BY <1>15 DEF StampBalances, history
  <2>6. TypeOK'
    BY <2>1, <2>4, <2>5, JobFundInv, NoJobType DEF FundInv, TypeOK
  <2>7. JobOK' /\ KnownOK'
    BY <2>1, <2>2, <2>4, <2>5, JobFundInv, NoJobType
       DEF FundInv, JobOK, KnownOK, Known, Exists
  <2>8. QED
    BY <2>6, <2>7 DEF FundInv
<1>16. ASSUME NEW h \in Handlers, HandlerFails(h) PROVE FundInv'
  <2>1. job[h].pc # "idle" /\ job' = [job EXCEPT ![h] = NoJob]
    BY <1>16 DEF HandlerFails, End
  <2>2. abandoned' \in SUBSET Trx
    BY <1>16, <2>1, BusyJob DEF HandlerFails, FundInv, TypeOK
  <2>3. UNCHANGED <<wallet, trx, req, provider, hooks, delivered, crashes,
                    credits, raced, crossed>>
    BY <1>16 DEF HandlerFails
  <2>4. QED
    BY <1>8, <2>1, <2>2, <2>3, NoJobType DEF FundInv, TypeOK
<1>17. CASE Crash
  <2>1. /\ job' \in [Handlers -> Job]
        /\ \A h \in Handlers : job'[h].pc = "idle"
    BY <1>17, NoJobType DEF Crash, NoJob
  <2>2. /\ req' \in [Trx -> Request]
        /\ \A t \in Trx : req'[t].pc \notin {"collected", "created"}
    BY <1>17 DEF Crash, FundInv, TypeOK, Request
  <2>3. abandoned' \in SUBSET Trx
    BY <1>17 DEF Crash, Crediting, FundInv, TypeOK, JobOK
  <2>4. crashes' \in Nat
    BY <1>17 DEF Crash, FundInv, TypeOK
  <2>5. UNCHANGED <<wallet, trx, provider, hooks, delivered, credits, raced,
                    crossed>>
    BY <1>17 DEF Crash
  <2>6. TypeOK'
    BY <2>1, <2>2, <2>3, <2>4, <2>5 DEF FundInv, TypeOK
  <2>7. JobOK' /\ KnownOK'
    BY <2>1, <2>2, <2>5 DEF FundInv, JobOK, KnownOK, Known, Exists
  <2>8. QED
    BY <2>6, <2>7 DEF FundInv
<1>18. CASE UNCHANGED vars
  BY <1>18 DEF FundInv, TypeOK, JobOK, KnownOK, Known, Exists, vars
<1>19. QED
  BY <1>1, <1>2, <1>3, <1>4, <1>5, <1>6, <1>7, <1>9, <1>10,
     <1>11, <1>12, <1>13, <1>14, <1>15, <1>16, <1>17, <1>18
     DEF Next, Fund, Arrive, Settle

\* Every behaviour stays within the declared types.
THEOREM TypeCorrect == Spec => []TypeOK
<1>1. FundInv => TypeOK
  BY DEF FundInv
<1>2. QED
  BY <1>1, InitFundInv, NextFundInv, PTL DEF Spec

(***************************************************************************)
(* A credit is paid for.  The invariant follows the news of the payment    *)
(* from the provider through announcements and handlers to the row.        *)
(***************************************************************************)
Paid(t) == provider[t] = "COMPLETED"

PaidInv ==
  /\ \A t \in Trx : req[t].pc \in {"idle", "checked"} => ~Known(t)
  /\ \A t \in Trx : "COMPLETED" \in hooks[t] => Paid(t)
  /\ \A h \in Handlers :
        /\ job[h].pc \in {"init", "update"}
             /\ job[h].status \in {"SUCCESS", "COMPLETED"}
           => Paid(job[h].trx)
        /\ job[h].pc \in {"wallet", "credit", "stamp"} => Paid(job[h].trx)
  /\ CreditIsPaidFor

LEMMA InitPaid == Init => PaidInv
  BY DEF Init, PaidInv, Known, NoJob, NoRow, CreditIsPaidFor

\* A step that leaves rows, credits, requests and the provider alone.
LEMMA PaidFrame ==
  ASSUME FundInv, PaidInv, NEW h \in Handlers, job[h].pc # "idle",
         UNCHANGED <<trx, req, provider, hooks, credits>>,
         NEW r \in Job, job' = [job EXCEPT ![h] = r],
         r = NoJob \/ r.trx = job[h].trx,
         r.pc \in {"init", "update"} /\ r.status \in {"SUCCESS", "COMPLETED"}
            => Paid(job[h].trx),
         r.pc \in {"wallet", "credit", "stamp"} => Paid(job[h].trx)
  PROVE  PaidInv'
<1>1. job' \in [Handlers -> Job] /\ job'[h] = r
      /\ \A g \in Handlers \ {h} : job'[g] = job[g]
  BY DEF FundInv, TypeOK
<1>2. NoJob.pc = "idle"
  BY DEF NoJob
<1>3. QED
  BY <1>1, <1>2 DEF PaidInv, Paid, Known, CreditIsPaidFor

LEMMA StartPaid ==
  ASSUME FundInv, PaidInv, NEW h \in Handlers, NEW t \in Trx,
         NEW pc \in {"read", "init"}, NEW via, NEW s,
         Start(h, t, pc, via, s),
         pc = "init" => s \in hooks[t],
         UNCHANGED <<trx, req, provider, hooks, credits>>
  PROVE  PaidInv'
<1>1. job'[h] = [pc |-> pc, trx |-> t, via |-> via, status |-> s,
                 init |-> "NONE", bal |-> 0]
      /\ \A g \in Handlers \ {h} : job'[g] = job[g]
  BY DEF Start, FundInv, TypeOK
<1>2. hooks[t] \subseteq ProviderStatus
  BY DEF FundInv, TypeOK
<1>3. pc = "init" /\ s \in {"SUCCESS", "COMPLETED"} => Paid(t)
  BY <1>2 DEF PaidInv, ProviderStatus
<1>4. QED
  BY <1>1, <1>3 DEF PaidInv, Paid, Known, CreditIsPaidFor

LEMMA NextPaid == FundInv /\ PaidInv /\ [Next]_vars => PaidInv'
<1> SUFFICES ASSUME FundInv, PaidInv, [Next]_vars PROVE PaidInv'
  OBVIOUS
<1>1. ASSUME NEW t \in Trx, FundCheck(t) PROVE PaidInv'
  <2>1. /\ UNCHANGED <<trx, provider, hooks, job, credits>>
        /\ \A u \in Trx : req'[u].pc \in {"idle", "checked"}
                             => req[u].pc \in {"idle", "checked"}
    BY <1>1 DEF FundCheck, history, FundInv, TypeOK
  <2>2. QED
    BY <2>1 DEF PaidInv, Paid, Known, CreditIsPaidFor
<1>2. ASSUME NEW t \in Trx, FundCollect(t) PROVE PaidInv'
  <2>1. ~Known(t) /\ "COMPLETED" \notin hooks[t]
    BY <1>2 DEF PaidInv, FundCollect, InitiateAfribapayCollect, Known, Paid
  <2>2. UNCHANGED <<trx, job, credits>>
    BY <1>2 DEF FundCollect, InitiateAfribapayCollect, history
  <2>3. /\ \A u \in Trx : Paid(u) => Paid(u)'
        /\ \A u \in Trx : "COMPLETED" \in hooks'[u] => "COMPLETED" \in hooks[u]
        /\ \A u \in Trx : req'[u].pc \in {"idle", "checked"} =>
              req[u].pc \in {"idle", "checked"} /\ provider'[u] = provider[u]
    <3>1. CASE /\ provider' = [provider EXCEPT ![t] = "PENDING"]
               /\ hooks' = [hooks EXCEPT ![t] = @ \cup {"PENDING"}]
               /\ \E to \in {"collected", "error"} :
                    req' = [req EXCEPT ![t].pc = to]
      BY <2>1, <3>1 DEF FundInv, TypeOK, Paid, Known
    <3>2. CASE req' = [req EXCEPT ![t].pc = "error"]
               /\ UNCHANGED <<provider, hooks>>
      BY <3>2 DEF FundInv, TypeOK, Paid
    <3>3. QED
      BY <1>2, <3>1, <3>2 DEF FundCollect, InitiateAfribapayCollect
  <2>4. \A h \in Handlers : job[h].pc # "idle" => job[h].trx \in Trx
    BY DEF FundInv, JobOK
  <2>5. QED
    BY <2>2, <2>3, <2>4 DEF PaidInv, Known, CreditIsPaidFor, Paid
<1>3. ASSUME NEW t \in Trx, FundCreate(t) PROVE PaidInv'
  <2>1. UNCHANGED <<provider, hooks, job, credits>>
    BY <1>3 DEF FundCreate, history
  <2>2. \A u \in Trx : req'[u].pc \in {"idle", "checked"}
                          => req[u].pc \in {"idle", "checked"}
    <3>1. PICK to \in {"created", "error"} : req' = [req EXCEPT ![t].pc = to]
      BY <1>3 DEF FundCreate
    <3>2. QED
      BY <3>1 DEF FundInv, TypeOK, Request
  <2>3. \A u \in Trx : trx'[u].status = "SUCCESS" => trx[u].status = "SUCCESS"
    BY <1>3 DEF FundCreate, FundInv, TypeOK
  <2>4. QED
    BY <2>1, <2>2, <2>3 DEF PaidInv, Paid, Known, CreditIsPaidFor
<1>4. ASSUME NEW t \in Trx, FundSetReference(t) PROVE PaidInv'
  <2>1. /\ UNCHANGED <<provider, hooks, job, credits>>
        /\ \A u \in Trx : req'[u].pc \in {"idle", "checked"}
                             => req[u].pc \in {"idle", "checked"}
    BY <1>4 DEF FundSetReference, FundInv, TypeOK
  <2>2. \A u \in Trx : trx'[u].status = "SUCCESS" => trx[u].status = "SUCCESS"
    BY <1>4 DEF FundSetReference, FundInv, TypeOK, Row
  <2>3. QED
    BY <2>1, <2>2 DEF PaidInv, Paid, Known, CreditIsPaidFor
<1>5. ASSUME NEW t \in Trx, ProviderSettles(t) PROVE PaidInv'
  <2>1. UNCHANGED <<trx, req, job, credits>>
    BY <1>5 DEF ProviderSettles, history
  <2>2. /\ \A u \in Trx : Paid(u) => Paid(u)'
        /\ \A u \in Trx : Known(u)' => Known(u)
        /\ \A u \in Trx : "COMPLETED" \in hooks'[u] => Paid(u)'
    BY <1>5 DEF ProviderSettles, PaidInv, Paid, Known, FundInv, TypeOK
  <2>3. \A h \in Handlers : job[h].pc # "idle" => job[h].trx \in Trx
    BY DEF FundInv, JobOK
  <2>4. QED
    BY <2>1, <2>2, <2>3 DEF PaidInv, CreditIsPaidFor, Paid, Known
<1>6. ASSUME NEW h \in Handlers, NEW t \in Trx, ReadFetch(h, t)
      PROVE PaidInv'
  BY <1>6, StartPaid DEF ReadFetch
<1>7. ASSUME NEW h \in Handlers, NEW t \in Trx, NEW s \in ProviderStatus,
             Webhook(h, t, s)
      PROVE PaidInv'
  BY <1>7, StartPaid DEF Webhook
<1>8. ASSUME NEW h \in Handlers, ReadAnswered(h) PROVE PaidInv'
  <2>1. job[h].pc # "idle" /\ UNCHANGED <<trx, req, provider, hooks, credits>>
    BY <1>8 DEF ReadAnswered, history
  <2>2. PICK answer \in {provider[job[h].trx], "NOTFOUND"} :
          IF answer # "PENDING"
          THEN job' = [job EXCEPT ![h].pc = "init", ![h].status = answer]
          ELSE End(h)
    BY <1>8 DEF ReadAnswered
  <2>3. CASE answer # "PENDING"
    <3> DEFINE r == [job[h] EXCEPT !.pc = "init", !.status = answer]
    <3>1. r \in Job /\ r.trx = job[h].trx /\ r.pc = "init"
          /\ r.status = answer
      BY <2>1, BusyJob DEF Job, PayloadStatus
    <3>2. job' = [job EXCEPT ![h] = r]
      BY <2>2, <2>3 DEF FundInv, TypeOK
    <3>3. answer \in {"SUCCESS", "COMPLETED"} => Paid(job[h].trx)
      BY <2>1, BusyJob DEF Paid, ProviderStatus
    <3>4. QED
      BY <2>1, <3>1, <3>2, <3>3, PaidFrame
  <2>4. CASE answer = "PENDING"
    BY <2>1, <2>2, <2>4, PaidFrame, NoJobType DEF End, NoJob
  <2>5. QED
    BY <2>3, <2>4
<1>9. ASSUME NEW h \in Handlers, StatusCallFails(h) \/ HandlerFails(h)
       PROVE PaidInv'
  BY <1>9, PaidFrame, NoJobType
     DEF StatusCallFails, HandlerFails, End, NoJob, history
<1>10. ASSUME NEW h \in Handlers, ReadInitial(h) PROVE PaidInv'
  <2> DEFINE r == [job[h] EXCEPT !.pc = "update",
                                 !.init = trx[job[h].trx].status]
  <2>1. job[h].pc = "init" /\ UNCHANGED <<trx, req, provider, hooks, credits>>
    BY <1>10 DEF ReadInitial, history
  <2>2. r \in Job /\ r.trx = job[h].trx /\ r.pc = "update"
        /\ r.status = job[h].status
    BY <2>1, BusyJob DEF Job, Row
  <2>3. job' = [job EXCEPT ![h] = r]
    BY <1>10 DEF ReadInitial, FundInv, TypeOK
  <2>4. r.status \in {"SUCCESS", "COMPLETED"} => Paid(job[h].trx)
    BY <2>1, <2>2 DEF PaidInv
  <2>5. QED
    BY <2>1, <2>2, <2>3, <2>4, PaidFrame
<1>11. ASSUME NEW h \in Handlers, WriteStatus(h) PROVE PaidInv'
  <2> DEFINE t == job[h].trx
  <2>1. job[h].pc = "update" /\ UNCHANGED <<req, provider, hooks, credits>>
    BY <1>11 DEF WriteStatus, history
  <2>2. job[h] \in Job /\ t \in Trx /\ trx[t] \in Row
    BY <2>1, BusyJob
  <2>3. trx' = [trx EXCEPT ![t] = Updated(h)]
    BY <1>11 DEF WriteStatus
  <2>4. NewStatus(job[h].status) = "SUCCESS" => Paid(t)
    BY <2>1 DEF PaidInv, NewStatus
  <2>5. Updated(h).status = "SUCCESS" => Paid(t)
    <3>1. Updated(h).status = IF NewStatus(job[h].status) = "KEEP"
                              THEN trx[t].status
                              ELSE NewStatus(job[h].status)
      BY <2>2 DEF Updated, Row
    <3>2. QED
      BY <2>2, <2>4, <3>1 DEF PaidInv, CreditIsPaidFor, Paid
  <2>6. MustCredit(h) => Paid(t)
    BY <2>4, <2>5 DEF MustCredit, NeedsCatchUp
  <2>7. \A g \in Handlers : /\ g # h => job'[g] = job[g]
                            /\ job'[h].pc # "idle" =>
                                  /\ job'[h].trx = t
                                  /\ job'[h].pc = "wallet"
                                  /\ Paid(t)
    <3>1. CASE MustCredit(h)
      BY <1>11, <2>2, <2>6, <3>1 DEF WriteStatus, FundInv, TypeOK, Job
    <3>2. CASE ~MustCredit(h)
      BY <1>11, <3>2 DEF WriteStatus, End, NoJob, FundInv, TypeOK
    <3>3. QED
      BY <3>1, <3>2
  <2>8. \A u \in Trx : trx'[u].status = "SUCCESS" => Paid(u)
    BY <2>2, <2>3, <2>5 DEF PaidInv, CreditIsPaidFor, Paid, FundInv, TypeOK
  <2>9. QED
    BY <2>1, <2>7, <2>8 DEF PaidInv, Paid, Known, CreditIsPaidFor
<1>12. ASSUME NEW h \in Handlers, ReadWallet(h) PROVE PaidInv'
  <2> DEFINE r == [job[h] EXCEPT !.pc = "credit",
                                 !.bal = wallet[WalletOf[job[h].trx]]]
  <2>1. job[h].pc = "wallet" /\ UNCHANGED <<trx, req, provider, hooks, credits>>
    BY <1>12 DEF ReadWallet
  <2>2. WalletOf[job[h].trx] \in Wallets
    BY <2>1, BusyJob, FundingConstants
  <2>3. r \in Job /\ r.trx = job[h].trx /\ r.pc = "credit"
    BY <2>1, <2>2, BusyJob DEF Job, FundInv, TypeOK
  <2>4. job' = [job EXCEPT ![h] = r]
    BY <1>12 DEF ReadWallet, FundInv, TypeOK
  <2>5. Paid(job[h].trx)
    BY <2>1 DEF PaidInv
  <2>6. QED
    BY <2>1, <2>3, <2>4, <2>5, PaidFrame
<1>13. ASSUME NEW h \in Handlers, CreditWallet(h) PROVE PaidInv'
  <2>1. job[h].pc = "credit" /\ UNCHANGED <<trx, req, provider, hooks>>
    BY <1>13 DEF CreditWallet
  <2>2. job[h] \in Job /\ job[h].trx \in Trx /\ Paid(job[h].trx)
    BY <2>1, BusyJob DEF PaidInv
  <2>3. \A g \in Handlers : /\ job'[g].trx = job[g].trx
                            /\ job'[g].status = job[g].status
                            /\ g # h => job'[g].pc = job[g].pc
                            /\ job'[h].pc = "stamp"
    BY <1>13, <2>2 DEF CreditWallet, FundInv, TypeOK, Job
  <2>4. \A u \in Trx : u # job[h].trx => credits'[u] = credits[u]
    BY <1>13, <2>2 DEF CreditWallet, FundInv, TypeOK
  <2>5. QED
    BY <2>1, <2>2, <2>3, <2>4 DEF PaidInv, Paid, Known, CreditIsPaidFor
<1>14. ASSUME NEW h \in Handlers, StampBalances(h) PROVE PaidInv'
  <2>1. job[h].pc # "idle" /\ UNCHANGED <<req, provider, hooks, credits>>
    BY <1>14 DEF StampBalances, history
  <2>2. \A u \in Trx : trx'[u].status = trx[u].status
    BY <1>14, <2>1, BusyJob DEF StampBalances, FundInv, TypeOK, Row
  <2>3. \A g \in Handlers : job'[g] = job[g] \/ job'[g].pc = "idle"
    BY <1>14 DEF StampBalances, End, NoJob, FundInv, TypeOK
  <2>4. QED
    BY <2>1, <2>2, <2>3 DEF PaidInv, Paid, Known, CreditIsPaidFor
<1>15. CASE Crash
  <2>1. /\ UNCHANGED <<trx, provider, hooks, credits>>
        /\ \A h \in Handlers : job'[h].pc = "idle"
    BY <1>15 DEF Crash, NoJob
  <2>2. \A u \in Trx : req'[u].pc \in {"idle", "checked"}
                          => req[u].pc \in {"idle", "checked"}
    BY <1>15 DEF Crash, FundInv, TypeOK, Request
  <2>3. QED
    BY <2>1, <2>2 DEF PaidInv, Paid, Known, CreditIsPaidFor
<1>16. CASE UNCHANGED vars
  BY <1>16 DEF vars, PaidInv, Paid, Known, CreditIsPaidFor
<1>17. QED
  BY <1>1, <1>2, <1>3, <1>4, <1>5, <1>6, <1>7, <1>8, <1>9,
     <1>10, <1>11, <1>12, <1>13, <1>14, <1>15, <1>16
     DEF Next, Fund, Arrive, Settle

\* For any attempts, wallets and handlers: no row is SUCCESS and no wallet
\* is credited unless the provider holds the money.
THEOREM CreditsArePaidFor == Spec => []CreditIsPaidFor
<1>1. PaidInv => CreditIsPaidFor
  BY DEF PaidInv
<1>2. QED
  BY <1>1, InitFundInv, NextFundInv, InitPaid, NextPaid, PTL DEF Spec

(***************************************************************************)
(* A successful row is credited.  A handler that saw SUCCESS before its    *)
(* update relies on the handler that wrote it.                             *)
(***************************************************************************)
Covered(t) ==
  \/ credits[t] > 0
  \/ \E h \in Handlers : job[h].trx = t /\ Crediting(h)
  \/ t \in abandoned

CoveredInv ==
  /\ \A h \in Handlers : job[h].pc = "update" /\ job[h].init = "SUCCESS"
                            => Covered(job[h].trx)
  /\ SuccessIsCredited

LEMMA InitCovered == Init => CoveredInv
  BY DEF Init, CoveredInv, SuccessIsCredited, NoJob, NoRow

\* Coverage lasts while no crediting handler is stopped.
LEMMA CoveredFrame ==
  ASSUME UNCHANGED credits, abandoned \subseteq abandoned',
         \A g \in Handlers : Crediting(g) => /\ Crediting(g)'
                                            /\ job'[g].trx = job[g].trx
  PROVE  \A t \in Trx : Covered(t) => Covered(t)'
  BY DEF Covered

LEMMA CoveredFrameOne ==
  ASSUME FundInv, UNCHANGED <<credits, abandoned>>, NEW h \in Handlers,
         ~Crediting(h), NEW r, job' = [job EXCEPT ![h] = r]
  PROVE  \A t \in Trx : Covered(t) => Covered(t)'
<1>1. \A g \in Handlers \ {h} : job'[g] = job[g]
  BY DEF FundInv, TypeOK
<1>2. QED
  BY <1>1, CoveredFrame DEF Crediting

\* Once covered, for good: what ends a crediting handler counts the credit
\* or leaves the row among the abandoned ones.
LEMMA CoveredStays ==
  ASSUME FundInv, [Next]_vars
  PROVE  \A t \in Trx : Covered(t) => Covered(t)'
<1> DEFINE Stays == \A t \in Trx : Covered(t) => Covered(t)'
<1>1. ASSUME NEW t \in Trx, Fund(t) \/ ProviderSettles(t) PROVE Stays
  <2>1. UNCHANGED <<job, credits, abandoned>>
    BY <1>1 DEF Fund, FundCheck, FundCollect, InitiateAfribapayCollect,
                FundCreate, FundSetReference,
                ProviderSettles, history
  <2>2. QED
    BY <2>1, CoveredFrame DEF Crediting
<1>2. ASSUME NEW h \in Handlers, NEW t \in Trx, Arrive(h, t) PROVE Stays
  <2>1. UNCHANGED <<credits, abandoned>>
    BY <1>2 DEF Arrive, ReadFetch, Webhook
  <2>2. PICK pc, via, s : Start(h, t, pc, via, s)
    BY <1>2 DEF Arrive, ReadFetch, Webhook
  <2>3. QED
    BY <2>1, <2>2, CoveredFrameOne DEF Start, Crediting
<1>3. ASSUME NEW h \in Handlers,
             ReadAnswered(h) \/ StatusCallFails(h)
      PROVE  Stays
  <2>1. /\ UNCHANGED <<credits, abandoned>>
        /\ ~Crediting(h)
    BY <1>3 DEF ReadAnswered, StatusCallFails, Crediting,
                history
  <2>2. \A g \in Handlers \ {h} : job'[g] = job[g]
    BY <1>3 DEF ReadAnswered, StatusCallFails, End, FundInv, TypeOK
  <2>3. QED
    BY <2>1, <2>2, CoveredFrame DEF Crediting
<1>4. ASSUME NEW h \in Handlers,
             ReadInitial(h) \/ WriteStatus(h) \/ StampBalances(h)
      PROVE  Stays
  <2>1. /\ UNCHANGED <<credits, abandoned>>
        /\ ~Crediting(h)
    BY <1>4 DEF ReadInitial, WriteStatus, StampBalances, Crediting, history
  <2>2. \A g \in Handlers \ {h} : job'[g] = job[g]
    BY <1>4 DEF ReadInitial, WriteStatus, StampBalances, End, FundInv, TypeOK
  <2>3. QED
    BY <2>1, <2>2, CoveredFrame DEF Crediting
<1>5. ASSUME NEW h \in Handlers, ReadWallet(h) PROVE Stays
  <2>1. UNCHANGED <<credits, abandoned>>
    BY <1>5 DEF ReadWallet
  <2>2. /\ job[h] \in Job
        /\ \A g \in Handlers \ {h} : job'[g] = job[g]
        /\ job'[h] = [job[h] EXCEPT !.pc = "credit",
                                    !.bal = wallet[WalletOf[job[h].trx]]]
    BY <1>5 DEF ReadWallet, FundInv, TypeOK
  <2>3. job'[h].pc = "credit" /\ job'[h].trx = job[h].trx
    BY <2>2 DEF Job
  <2>4. QED
    BY <2>1, <2>2, <2>3, CoveredFrame DEF Crediting
<1>6. ASSUME NEW h \in Handlers, CreditWallet(h) PROVE Stays
  <2>1. /\ UNCHANGED abandoned
        /\ \A g \in Handlers \ {h} : job'[g] = job[g]
    BY <1>6 DEF CreditWallet, FundInv, TypeOK
  <2>2. job[h].trx \in Trx
    BY <1>6 DEF CreditWallet, FundInv, JobOK
  <2>3. \A t \in Trx : credits[t] > 0 \/ t = job[h].trx => credits'[t] > 0
    BY <1>6, <2>2 DEF CreditWallet, FundInv, TypeOK
  <2>4. QED
    BY <2>1, <2>3 DEF Covered, Crediting
<1>7. ASSUME NEW h \in Handlers, HandlerFails(h) PROVE Stays
  <2>1. /\ UNCHANGED credits
        /\ abandoned \subseteq abandoned'
        /\ Crediting(h) => job[h].trx \in abandoned'
    BY <1>7 DEF HandlerFails
  <2>2. \A g \in Handlers \ {h} : job'[g] = job[g]
    BY <1>7 DEF HandlerFails, End, FundInv, TypeOK
  <2>3. QED
    BY <2>1, <2>2 DEF Covered, Crediting
<1>8. CASE Crash
  BY <1>8 DEF Crash, Covered, Crediting
<1>9. CASE UNCHANGED vars
  BY <1>9 DEF vars, Covered, Crediting
<1>10. QED
  BY <1>1, <1>2, <1>3, <1>4, <1>5, <1>6, <1>7, <1>8, <1>9 DEF Next, Settle

\* Only ReadInitial sends a handler to its update.
LEMMA UpdateComesFromInit ==
  ASSUME FundInv, [Next]_vars, NEW h \in Handlers, job'[h].pc = "update"
  PROVE  \/ job'[h] = job[h]
         \/ /\ job[h].pc = "init"
            /\ job'[h].trx = job[h].trx
            /\ job'[h].init = trx[job[h].trx].status
<1>1. CASE \E t \in Trx : Fund(t) \/ ProviderSettles(t)
  BY <1>1 DEF Fund, FundCheck, FundCollect, InitiateAfribapayCollect,
              FundCreate, FundSetReference,
              ProviderSettles
<1>2. ASSUME NEW g \in Handlers, NEW t \in Trx, Arrive(g, t)
      PROVE  job'[h] = job[h]
  <2>1. PICK pc, via, s : /\ pc \in {"read", "init"}
                         /\ Start(g, t, pc, via, s)
    BY <1>2 DEF Arrive, ReadFetch, Webhook
  <2>2. QED
    BY <2>1 DEF Start, FundInv, TypeOK
<1>3. ASSUME NEW g \in Handlers,
             StatusCallFails(g) \/ HandlerFails(g)
      PROVE  job'[h] = job[h]
  <2>1. g # h => job'[h] = job[h]
    BY <1>3 DEF StatusCallFails, HandlerFails, End, FundInv, TypeOK
  <2>2. g = h => job'[h].pc # "update"
    BY <1>3 DEF StatusCallFails, HandlerFails, End, NoJob,
                FundInv, TypeOK, Job
  <2>3. QED
    BY <2>1, <2>2
<1>4. ASSUME NEW g \in Handlers, ReadAnswered(g) PROVE job'[h] = job[h]
  <2>1. PICK answer : IF answer # "PENDING"
                      THEN job' = [job EXCEPT ![g].pc = "init",
                                              ![g].status = answer]
                      ELSE End(g)
    BY <1>4 DEF ReadAnswered
  <2>2. QED
    BY <2>1 DEF End, NoJob, FundInv, TypeOK, Job
<1>5. ASSUME NEW g \in Handlers,
             WriteStatus(g) \/ ReadWallet(g) \/ CreditWallet(g)
                \/ StampBalances(g)
      PROVE  job'[h] = job[h]
  <2>1. g # h => job'[h] = job[h]
    BY <1>5 DEF WriteStatus, ReadWallet, CreditWallet, StampBalances, End,
                FundInv, TypeOK
  <2>2. g = h => job'[h].pc # "update"
    BY <1>5 DEF WriteStatus, ReadWallet, CreditWallet, StampBalances, End,
                NoJob, FundInv, TypeOK, Job
  <2>3. QED
    BY <2>1, <2>2
<1>6. ASSUME NEW g \in Handlers, ReadInitial(g)
      PROVE  \/ job'[h] = job[h]
             \/ /\ job[h].pc = "init"
                /\ job'[h].trx = job[h].trx
                /\ job'[h].init = trx[job[h].trx].status
  <2>1. job[g] \in Job
        /\ job' = [job EXCEPT ![g] =
                     [job[g] EXCEPT !.pc = "update",
                                    !.init = trx[job[g].trx].status]]
    BY <1>6 DEF ReadInitial, FundInv, TypeOK
  <2>2. QED
    BY <1>6, <2>1 DEF ReadInitial, FundInv, TypeOK, Job
<1>7. CASE Crash
  BY <1>7 DEF Crash, NoJob
<1>8. CASE UNCHANGED vars
  BY <1>8 DEF vars
<1>9. QED
  BY <1>1, <1>2, <1>3, <1>4, <1>5, <1>6, <1>7, <1>8 DEF Next, Settle

\* Only WriteStatus makes a row SUCCESS.
LEMMA SuccessComesFromUpdate ==
  ASSUME FundInv, [Next]_vars, NEW t \in Trx, trx'[t].status = "SUCCESS"
  PROVE  \/ trx[t].status = "SUCCESS"
         \/ \E h \in Handlers : /\ WriteStatus(h)
                                /\ job[h].trx = t
                                /\ NewStatus(job[h].status) = "SUCCESS"
<1>1. ASSUME NEW u \in Trx, FundCheck(u) \/ FundCollect(u)
                               \/ ProviderSettles(u)
      PROVE  trx' = trx
  BY <1>1 DEF FundCheck, FundCollect, InitiateAfribapayCollect, ProviderSettles
<1>2. ASSUME NEW u \in Trx, FundCreate(u) PROVE trx[t].status = "SUCCESS"
  BY <1>2 DEF FundCreate, FundInv, TypeOK
<1>3. ASSUME NEW u \in Trx, FundSetReference(u)
      PROVE  trx[t].status = "SUCCESS"
  BY <1>3 DEF FundSetReference, FundInv, TypeOK, Row
<1>4. ASSUME NEW h \in Handlers, WriteStatus(h)
      PROVE  \/ trx[t].status = "SUCCESS"
             \/ job[h].trx = t /\ NewStatus(job[h].status) = "SUCCESS"
  <2>1. /\ job[h].trx \in Trx
        /\ trx' = [trx EXCEPT ![job[h].trx] = Updated(h)]
    BY <1>4 DEF WriteStatus, FundInv, JobOK
  <2>2. trx[job[h].trx] \in Row
    BY <2>1 DEF FundInv, TypeOK
  <2>3. Updated(h).status = IF NewStatus(job[h].status) = "KEEP"
                            THEN trx[job[h].trx].status
                            ELSE NewStatus(job[h].status)
    BY <2>2 DEF Updated, Row
  <2>4. QED
    BY <2>1, <2>3 DEF FundInv, TypeOK
<1>5. ASSUME NEW h \in Handlers, StampBalances(h)
      PROVE  trx[t].status = "SUCCESS"
  BY <1>5 DEF StampBalances, FundInv, TypeOK, Row
<1>6. ASSUME NEW h \in Handlers,
             \/ ReadAnswered(h) \/ StatusCallFails(h)
             \/ HandlerFails(h) \/ ReadInitial(h) \/ ReadWallet(h)
             \/ CreditWallet(h)
      PROVE  trx' = trx
  BY <1>6 DEF ReadAnswered, StatusCallFails, HandlerFails,
              ReadInitial, ReadWallet, CreditWallet
<1>7. ASSUME NEW h \in Handlers, NEW u \in Trx, Arrive(h, u)
      PROVE  trx' = trx
  BY <1>7 DEF Arrive, ReadFetch, Webhook
<1>8. CASE Crash \/ UNCHANGED vars
  BY <1>8 DEF Crash, vars
<1>9. QED
  BY <1>1, <1>2, <1>3, <1>4, <1>5, <1>6, <1>7, <1>8 DEF Next, Fund, Settle

LEMMA NextCovered == FundInv /\ CoveredInv /\ [Next]_vars => CoveredInv'
<1> SUFFICES ASSUME FundInv, CoveredInv, [Next]_vars PROVE CoveredInv'
  OBVIOUS
<1>1. SuccessIsCredited <=>
        \A t \in Trx : trx[t].status = "SUCCESS" => Covered(t)
  BY DEF SuccessIsCredited, Covered
<1>2. SuccessIsCredited' <=>
        \A t \in Trx : trx'[t].status = "SUCCESS" => Covered(t)'
  BY DEF SuccessIsCredited, Covered
<1>3. ASSUME NEW h \in Handlers, job'[h].pc = "update",
             job'[h].init = "SUCCESS"
      PROVE  Covered(job[h].trx) /\ job[h].trx \in Trx
             /\ job'[h].trx = job[h].trx
  BY <1>1, <1>3, UpdateComesFromInit DEF CoveredInv, FundInv, JobOK
<1>4. ASSUME NEW t \in Trx, trx'[t].status = "SUCCESS" PROVE Covered(t)'
  <2>1. CASE trx[t].status = "SUCCESS"
    BY <1>1, <2>1, CoveredStays DEF CoveredInv
  <2>2. ASSUME NEW h \in Handlers, WriteStatus(h), job[h].trx = t,
               NewStatus(job[h].status) = "SUCCESS"
        PROVE  Covered(t)'
    <3>1. CASE job[h].init = "SUCCESS"
      BY <2>2, <3>1, CoveredStays DEF CoveredInv, WriteStatus
    <3>2. CASE job[h].init # "SUCCESS"
      <4>1. job' = [job EXCEPT ![h].pc = "wallet"]
        BY <2>2, <3>2 DEF WriteStatus, MustCredit
      <4>2. job'[h].pc = "wallet" /\ job'[h].trx = t
        BY <2>2, <4>1 DEF FundInv, TypeOK, Job
      <4>3. QED
        BY <4>2 DEF Covered, Crediting
    <3>3. QED
      BY <3>1, <3>2
  <2>3. QED
    BY <1>4, <2>1, <2>2, SuccessComesFromUpdate
<1>5. ASSUME NEW h \in Handlers, job'[h].pc = "update",
             job'[h].init = "SUCCESS"
      PROVE  \E t \in Trx : t = job'[h].trx /\ Covered(t)'
  <2>1. PICK t \in Trx : t = job[h].trx /\ Covered(t) /\ t = job'[h].trx
    BY <1>3, <1>5
  <2>2. Covered(t)'
    BY <2>1, CoveredStays
  <2>3. QED
    BY <2>1, <2>2
<1>6. (\A h \in Handlers : job[h].pc = "update" /\ job[h].init = "SUCCESS"
                             => Covered(job[h].trx))'
  BY <1>5 DEF Covered, Crediting
<1>7. QED
  BY <1>2, <1>4, <1>6 DEF CoveredInv

\* For any attempts, wallets and handlers: a SUCCESS row has been credited,
\* is being credited, or its crediting handler died.
THEOREM SuccessesAreCredited == Spec => []SuccessIsCredited
<1>1. CoveredInv => SuccessIsCredited
  BY DEF CoveredInv
<1>2. QED
  BY <1>1, InitFundInv, NextFundInv, InitCovered, NextCovered, PTL DEF Spec

(***************************************************************************)
(* At most one credit without a race: while nothing overlaps, the stage of *)
(* the only handler, the status of the row and its credits go together.    *)
(***************************************************************************)
Alone(t) == \A g, h \in InFlight(t) : g = h

Stage(j, status, n) ==
  /\ j.pc \in {"read", "init", "update"} => status # "SUCCESS"
  /\ j.pc = "update" => j.init # "SUCCESS"
  /\ j.pc \in {"wallet", "credit"} => status = "SUCCESS" /\ n = 0
  /\ j.pc = "stamp" => status = "SUCCESS"

CreditedAt(status, n) == n <= 1 /\ (status # "SUCCESS" => n = 0)

OnceInv ==
  /\ \A t \in Trx : req[t].pc \in {"idle", "checked", "collected"}
                       => trx[t].status = "NONE" /\ InFlight(t) = {}
  /\ \A t \in Trx \ raced :
        /\ Alone(t)
        /\ \A h \in InFlight(t) : Stage(job[h], trx[t].status, credits[t])
        /\ CreditedAt(trx[t].status, credits[t])

LEMMA InitOnce == Init => OnceInv
<1> SUFFICES ASSUME Init PROVE OnceInv
  OBVIOUS
<1>1. \A t \in Trx : InFlight(t) = {}
  BY FundingConstants DEF Init, InFlight, NoJob
<1>2. \A t \in Trx : trx[t].status = "NONE" /\ credits[t] = 0
  BY DEF Init, NoRow
<1>3. QED
  BY <1>1, <1>2 DEF OnceInv, Alone, CreditedAt

\* A step of one handler, on its row t: to r, which is still about t or is
\* the end of the handler.
LEMMA OnceFrame ==
  ASSUME FundInv, OnceInv, NEW h \in Handlers, job[h].pc # "idle",
         NEW t \in Trx, t = job[h].trx,
         NEW r, job' = [job EXCEPT ![h] = r],
         r = NoJob \/ r.trx = t,
         UNCHANGED <<req, raced>>,
         \A u \in Trx \ {t} : trx'[u] = trx[u] /\ credits'[u] = credits[u],
         t \notin raced =>
            /\ r = NoJob \/ Stage(r, trx'[t].status, credits'[t])
            /\ CreditedAt(trx'[t].status, credits'[t])
  PROVE  OnceInv'
<1>1. h \in InFlight(t)
  BY DEF InFlight
<1>2. job'[h] = r /\ \A g \in Handlers \ {h} : job'[g] = job[g]
  BY DEF FundInv, TypeOK
<1>3. NoJob.trx \notin Trx
  BY FundingConstants DEF NoJob
<1>4. \A u \in Trx : InFlight(u)' \subseteq InFlight(u)
  BY <1>2, <1>3 DEF InFlight
<1>5. \A u \in Trx \ {t} : \A g \in InFlight(u)' : job'[g] = job[g]
  BY <1>2, <1>3 DEF InFlight
<1>6. req[t].pc \notin {"idle", "checked", "collected"}
  BY <1>1 DEF OnceInv
<1>7. \A u \in Trx : req'[u].pc \in {"idle", "checked", "collected"}
                        => trx'[u].status = "NONE" /\ InFlight(u)' = {}
  BY <1>4, <1>6 DEF OnceInv
<1>8. \A u \in Trx \ raced : Alone(u)'
  BY <1>4 DEF OnceInv, Alone
<1>9. ASSUME NEW u \in Trx \ raced, u # t
      PROVE  /\ \A g \in InFlight(u)' :
                   Stage(job'[g], trx'[u].status, credits'[u])
             /\ CreditedAt(trx'[u].status, credits'[u])
  BY <1>4, <1>5, <1>9 DEF OnceInv
<1>10. ASSUME t \notin raced
       PROVE  /\ \A g \in InFlight(t)' :
                    Stage(job'[g], trx'[t].status, credits'[t])
              /\ CreditedAt(trx'[t].status, credits'[t])
  <2>1. \A g \in InFlight(t)' : g = h
    BY <1>1, <1>4, <1>10 DEF OnceInv, Alone
  <2>2. r = NoJob => InFlight(t)' = {}
    BY <1>1, <1>2, <1>3, <2>1 DEF InFlight
  <2>3. QED
    BY <1>2, <1>10, <2>1, <2>2
<1>11. \A u \in Trx \ raced' :
         /\ \A g \in InFlight(u)' :
               Stage(job'[g], trx'[u].status, credits'[u])
         /\ CreditedAt(trx'[u].status, credits'[u])
  BY <1>9, <1>10
<1>12. QED
  BY <1>7, <1>8, <1>11 DEF OnceInv, Stage, CreditedAt

LEMMA StartOnce ==
  ASSUME FundInv, OnceInv, NEW h \in Handlers, NEW t \in Trx,
         NEW pc \in {"read", "init"}, NEW via, NEW s,
         Start(h, t, pc, via, s),
         trx[t].status \in {"PENDING", "FAILED"},
         UNCHANGED <<trx, req, credits>>
  PROVE  OnceInv'
<1>1. job'[h] = [pc |-> pc, trx |-> t, via |-> via, status |-> s,
                 init |-> "NONE", bal |-> 0]
      /\ \A g \in Handlers \ {h} : job'[g] = job[g]
  BY DEF Start, FundInv, TypeOK
<1>2. job'[h].trx = t /\ job'[h].pc = pc
  BY <1>1
<1>3. /\ raced \subseteq raced'
      /\ InFlight(t) # {} => t \in raced'
  BY DEF Start
<1>4. /\ \A u \in Trx \ {t} : InFlight(u)' \subseteq InFlight(u) \ {h}
      /\ InFlight(t)' = InFlight(t) \cup {h}
  BY <1>1, <1>2 DEF InFlight
<1>5. req[t].pc \notin {"idle", "checked", "collected"}
  BY DEF OnceInv
<1>6. \A u \in Trx : req'[u].pc \in {"idle", "checked", "collected"}
                        => trx'[u].status = "NONE" /\ InFlight(u)' = {}
  BY <1>4, <1>5 DEF OnceInv
<1>7. ASSUME NEW u \in Trx \ raced', u # t
      PROVE  /\ Alone(u)'
             /\ \A g \in InFlight(u)' : Stage(job'[g], trx'[u].status,
                                              credits'[u])
             /\ CreditedAt(trx'[u].status, credits'[u])
  <2>1. \A g \in InFlight(u)' : g \in InFlight(u) /\ job'[g] = job[g]
    BY <1>1, <1>4, <1>7 DEF InFlight
  <2>2. QED
    BY <1>3, <1>7, <2>1 DEF OnceInv, Alone
<1>8. ASSUME t \notin raced'
      PROVE  /\ Alone(t)'
             /\ \A g \in InFlight(t)' : Stage(job'[g], trx'[t].status,
                                              credits'[t])
             /\ CreditedAt(trx'[t].status, credits'[t])
  <2>1. InFlight(t)' = {h}
    BY <1>3, <1>4, <1>8
  <2>2. Stage(job'[h], trx'[t].status, credits'[t])
    BY <1>2 DEF Stage
  <2>3. QED
    BY <1>3, <1>8, <2>1, <2>2 DEF OnceInv, Alone
<1>9. \A u \in Trx \ raced' :
        /\ Alone(u)'
        /\ \A g \in InFlight(u)' : Stage(job'[g], trx'[u].status, credits'[u])
        /\ CreditedAt(trx'[u].status, credits'[u])
  BY <1>7, <1>8
<1>10. QED
  BY <1>6, <1>9 DEF OnceInv, Stage, CreditedAt

\* A step of the request or the provider that leaves the handlers alone:
\* rows keep their status unless no handler is on them.
LEMMA RequestOnce ==
  ASSUME FundInv, OnceInv, UNCHANGED <<job, credits>>, raced \subseteq raced',
         \A u \in Trx : req'[u].pc \in {"idle", "checked", "collected"}
                           => /\ req[u].pc \in {"idle", "checked", "collected"}
                              /\ trx'[u] = trx[u],
         \A u \in Trx \ raced' :
            \/ trx'[u].status = trx[u].status
            \/ InFlight(u) = {} /\ trx[u].status # "SUCCESS"
  PROVE  OnceInv'
<1>1. \A u \in Trx : InFlight(u)' = InFlight(u)
  BY DEF InFlight
<1>2. ASSUME NEW u \in Trx \ raced'
      PROVE  /\ Alone(u)
             /\ \A g \in InFlight(u) :
                   Stage(job[g], trx'[u].status, credits[u])
             /\ CreditedAt(trx'[u].status, credits[u])
  <2>1. u \in Trx \ raced
    OBVIOUS
  <2>2. CASE trx'[u].status = trx[u].status
    BY <2>1, <2>2 DEF OnceInv
  <2>3. CASE InFlight(u) = {} /\ trx[u].status # "SUCCESS"
    <3>1. credits[u] = 0
      BY <2>1, <2>3 DEF OnceInv, CreditedAt
    <3>2. QED
      BY <2>1, <2>3, <3>1 DEF OnceInv, CreditedAt
  <2>4. QED
    BY <2>2, <2>3
<1>3. \A u \in Trx : req'[u].pc \in {"idle", "checked", "collected"}
                        => trx'[u].status = "NONE" /\ InFlight(u) = {}
  BY DEF OnceInv
<1>4. QED
  BY <1>1, <1>2, <1>3 DEF OnceInv, Alone, Stage, CreditedAt

LEMMA NextOnce == FundInv /\ OnceInv /\ [Next]_vars => OnceInv'
<1> SUFFICES ASSUME FundInv, OnceInv, [Next]_vars PROVE OnceInv'
  OBVIOUS
<1> DEFINE Early == {"idle", "checked", "collected"}
<1>1. ASSUME NEW t \in Trx, FundCheck(t) PROVE OnceInv'
  <2>1. UNCHANGED <<trx, job, credits, raced>>
    BY <1>1 DEF FundCheck, history
  <2>2. \A u \in Trx : req'[u].pc \in Early => req[u].pc \in Early
    BY <1>1 DEF FundCheck, FundInv, TypeOK
  <2>3. QED
    BY <2>1, <2>2, RequestOnce
<1>2. ASSUME NEW t \in Trx, FundCollect(t) PROVE OnceInv'
  <2>1. UNCHANGED <<trx, job, credits, raced>>
    BY <1>2 DEF FundCollect, InitiateAfribapayCollect, history
  <2>2. PICK to : req' = [req EXCEPT ![t].pc = to]
    BY <1>2 DEF FundCollect, InitiateAfribapayCollect
  <2>3. \A u \in Trx : req'[u].pc \in Early => req[u].pc \in Early
    BY <1>2, <2>2 DEF FundCollect, InitiateAfribapayCollect, FundInv, TypeOK
  <2>4. QED
    BY <2>1, <2>3, RequestOnce
<1>3. ASSUME NEW t \in Trx, FundCreate(t) PROVE OnceInv'
  <2>1. UNCHANGED <<job, credits, raced>> /\ req[t].pc = "collected"
    BY <1>3 DEF FundCreate, history
  <2>2. PICK to \in {"created", "error"} : req' = [req EXCEPT ![t].pc = to]
    BY <1>3 DEF FundCreate
  <2>3. \A u \in Trx : req'[u].pc \in Early => req[u].pc \in Early /\ u # t
    BY <2>2 DEF FundInv, TypeOK, Request
  <2>4. \A u \in Trx \ {t} : trx'[u] = trx[u]
    BY <1>3 DEF FundCreate, FundInv, TypeOK
  <2>5. InFlight(t) = {} /\ trx[t].status = "NONE"
    BY <2>1 DEF OnceInv
  <2>6. QED
    BY <2>1, <2>3, <2>4, <2>5, RequestOnce
<1>4. ASSUME NEW t \in Trx, FundSetReference(t) PROVE OnceInv'
  <2>1. UNCHANGED <<job, credits>> /\ req' = [req EXCEPT ![t].pc = "done"]
    BY <1>4 DEF FundSetReference
  <2>2. \A u \in Trx : req'[u].pc \in Early => req[u].pc \in Early /\ u # t
    BY <2>1 DEF FundInv, TypeOK, Request
  <2>3. /\ raced \subseteq raced'
        /\ \A u \in Trx \ {t} : trx'[u] = trx[u]
    BY <1>4 DEF FundSetReference, FundInv, TypeOK
  <2>4. t \notin raced' => trx'[t].status = trx[t].status
    BY <1>4 DEF FundSetReference, FundInv, TypeOK, Row
  <2>5. QED
    BY <2>1, <2>2, <2>3, <2>4, RequestOnce
<1>5. ASSUME NEW t \in Trx, ProviderSettles(t) PROVE OnceInv'
  <2>1. UNCHANGED <<trx, req, job, credits, raced>>
    BY <1>5 DEF ProviderSettles, history
  <2>2. QED
    BY <2>1, RequestOnce
<1>6. ASSUME NEW h \in Handlers, NEW t \in Trx, Arrive(h, t) PROVE OnceInv'
  <2>1. UNCHANGED <<trx, req, credits>>
        /\ trx[t].status \in {"PENDING", "FAILED"}
    BY <1>6 DEF Arrive, ReadFetch, Webhook
  <2>2. PICK pc, via, s : /\ pc \in {"read", "init"}
                         /\ Start(h, t, pc, via, s)
    BY <1>6 DEF Arrive, ReadFetch, Webhook
  <2>3. QED
    BY <2>1, <2>2, StartOnce
<1>7. ASSUME NEW h \in Handlers, job[h].pc # "idle",
             UNCHANGED <<trx, req, credits, raced>>,
             NEW r, job' = [job EXCEPT ![h] = r],
             \/ r = NoJob
             \/ /\ r.trx = job[h].trx
                /\ Stage(job[h], trx[job[h].trx].status, credits[job[h].trx])
                     => Stage(r, trx[job[h].trx].status, credits[job[h].trx])
      PROVE  OnceInv'
  <2>1. PICK t \in Trx : t = job[h].trx /\ h \in InFlight(t)
    BY <1>7 DEF FundInv, JobOK, InFlight
  <2>2. QED
    BY <1>7, <2>1, OnceFrame DEF OnceInv
<1>8. ASSUME NEW h \in Handlers, ReadAnswered(h) PROVE OnceInv'
  <2>1. job[h].pc = "read" /\ UNCHANGED <<trx, req, credits, raced>>
    BY <1>8 DEF ReadAnswered, history
  <2>2. CASE job' = [job EXCEPT ![h] = NoJob]
    BY <1>7, <2>1, <2>2
  <2>3. ASSUME NEW s, job' = [job EXCEPT ![h].pc = "init", ![h].status = s]
        PROVE  OnceInv'
    <3> DEFINE r == [job[h] EXCEPT !.pc = "init", !.status = s]
    <3>1. r.trx = job[h].trx /\ r.pc = "init"
      BY <2>1, BusyJob DEF Job
    <3>2. job' = [job EXCEPT ![h] = r]
      BY <2>3 DEF FundInv, TypeOK
    <3>3. QED
      BY <1>7, <2>1, <3>1, <3>2 DEF Stage
  <2>4. QED
    BY <1>8, <2>2, <2>3 DEF ReadAnswered, End
<1>9. ASSUME NEW h \in Handlers, StatusCallFails(h) \/ HandlerFails(h)
       PROVE  OnceInv'
  BY <1>7, <1>9 DEF StatusCallFails, HandlerFails, End, history
<1>10. ASSUME NEW h \in Handlers, ReadInitial(h) PROVE OnceInv'
  <2> DEFINE r == [job[h] EXCEPT !.pc = "update",
                                 !.init = trx[job[h].trx].status]
  <2>1. job[h].pc = "init" /\ UNCHANGED <<trx, req, credits, raced>>
    BY <1>10 DEF ReadInitial, history
  <2>2. job' = [job EXCEPT ![h] = r]
    BY <1>10 DEF ReadInitial, FundInv, TypeOK
  <2>3. r.trx = job[h].trx /\ r.pc = "update"
        /\ r.init = trx[job[h].trx].status
    BY <2>1, BusyJob DEF Job
  <2>4. QED
    BY <1>7, <2>1, <2>2, <2>3 DEF Stage
<1>11. ASSUME NEW h \in Handlers, WriteStatus(h) PROVE OnceInv'
  <2> DEFINE t == job[h].trx
             r == IF MustCredit(h) THEN [job[h] EXCEPT !.pc = "wallet"]
                  ELSE NoJob
  <2>1. job[h].pc = "update" /\ UNCHANGED <<req, credits, raced>>
    BY <1>11 DEF WriteStatus, history
  <2>2. t \in Trx /\ h \in InFlight(t) /\ job[h] \in Job /\ trx[t] \in Row
    BY <2>1, BusyJob DEF InFlight
  <2>3. job' = [job EXCEPT ![h] = r]
    BY <1>11 DEF WriteStatus, End, FundInv, TypeOK
  <2>4. /\ trx'[t].status = Updated(h).status
        /\ \A u \in Trx \ {t} : trx'[u] = trx[u]
    BY <1>11, <2>2 DEF WriteStatus, FundInv, TypeOK
  <2>5. Updated(h).status = IF NewStatus(job[h].status) = "KEEP"
                            THEN trx[t].status
                            ELSE NewStatus(job[h].status)
    BY <2>2 DEF Updated, Row
  <2>6. MustCredit(h) => Updated(h).status = "SUCCESS"
    BY <2>5 DEF MustCredit, NeedsCatchUp
  <2>7. t \notin raced => credits[t] = 0
    BY <2>1, <2>2 DEF OnceInv, Stage, CreditedAt
  <2>8. credits'[t] = credits[t] /\ \A u \in Trx : credits'[u] = credits[u]
    BY <2>1
  <2>9. CASE MustCredit(h)
    <3>1. r.trx = t /\ r.pc = "wallet"
      BY <2>2, <2>9 DEF Job
    <3>2. t \notin raced => /\ Stage(r, trx'[t].status, credits'[t])
                           /\ CreditedAt(trx'[t].status, credits'[t])
      BY <2>4, <2>6, <2>7, <2>8, <2>9, <3>1 DEF Stage, CreditedAt
    <3> HIDE DEF r, t
    <3>3. QED
      BY <2>1, <2>2, <2>3, <2>4, <2>8, <3>1, <3>2, OnceFrame DEF t
  <2>10. CASE ~MustCredit(h)
    <3>1. r = NoJob
      BY <2>10
    <3>2. t \notin raced => CreditedAt(trx'[t].status, credits'[t])
      BY <2>7, <2>8 DEF CreditedAt
    <3> HIDE DEF r, t
    <3>3. QED
      BY <2>1, <2>2, <2>3, <2>4, <2>8, <3>1, <3>2, OnceFrame DEF t
  <2>11. QED
    BY <2>9, <2>10
<1>12. ASSUME NEW h \in Handlers, ReadWallet(h) PROVE OnceInv'
  <2> DEFINE r == [job[h] EXCEPT !.pc = "credit",
                                 !.bal = wallet[WalletOf[job[h].trx]]]
  <2>1. job[h].pc = "wallet" /\ UNCHANGED <<trx, req, credits, raced>>
    BY <1>12 DEF ReadWallet
  <2>2. job' = [job EXCEPT ![h] = r]
    BY <1>12 DEF ReadWallet, FundInv, TypeOK
  <2>3. r.trx = job[h].trx /\ r.pc = "credit"
    BY <2>1, BusyJob DEF Job
  <2>4. QED
    BY <1>7, <2>1, <2>2, <2>3 DEF Stage
<1>13. ASSUME NEW h \in Handlers, CreditWallet(h) PROVE OnceInv'
  <2> DEFINE t == job[h].trx
             r == [job[h] EXCEPT !.pc = "stamp"]
  <2>1. job[h].pc = "credit" /\ UNCHANGED <<trx, req, raced>>
    BY <1>13 DEF CreditWallet
  <2>2. t \in Trx /\ h \in InFlight(t) /\ job[h] \in Job
    BY <2>1, BusyJob DEF InFlight
  <2>3. job' = [job EXCEPT ![h] = r]
    BY <1>13 DEF CreditWallet, FundInv, TypeOK
  <2>4. r.trx = t /\ r.pc = "stamp"
    BY <2>2 DEF Job
  <2>5. /\ credits'[t] = credits[t] + 1
        /\ \A u \in Trx \ {t} : credits'[u] = credits[u]
    BY <1>13, <2>2 DEF CreditWallet, FundInv, TypeOK
  <2>6. t \notin raced => trx[t].status = "SUCCESS" /\ credits[t] = 0
    BY <2>1, <2>2 DEF OnceInv, Stage
  <2>7. t \notin raced => /\ Stage(r, trx'[t].status, credits'[t])
                         /\ CreditedAt(trx'[t].status, credits'[t])
    BY <2>1, <2>4, <2>5, <2>6 DEF Stage, CreditedAt
  <2> HIDE DEF r, t
  <2>8. QED
    BY <2>1, <2>2, <2>3, <2>4, <2>5, <2>7, OnceFrame DEF t
<1>14. ASSUME NEW h \in Handlers, StampBalances(h) PROVE OnceInv'
  <2> DEFINE t == job[h].trx
  <2>1. /\ job[h].pc = "stamp" /\ UNCHANGED <<req, credits, raced>>
        /\ job' = [job EXCEPT ![h] = NoJob]
    BY <1>14 DEF StampBalances, End, history
  <2>2. t \in Trx /\ h \in InFlight(t) /\ trx[t] \in Row
    BY <2>1, BusyJob DEF InFlight
  <2>3. /\ trx'[t].status = trx[t].status
        /\ \A u \in Trx \ {t} : trx'[u] = trx[u]
    BY <1>14, <2>2 DEF StampBalances, FundInv, TypeOK, Row
  <2>4. t \notin raced => CreditedAt(trx'[t].status, credits'[t])
    BY <2>1, <2>2, <2>3 DEF OnceInv
  <2> HIDE DEF t
  <2>5. QED
    BY <2>1, <2>2, <2>3, <2>4, OnceFrame DEF t
<1>15. CASE Crash
  <2>1. UNCHANGED <<trx, credits, raced>>
    BY <1>15 DEF Crash
  <2>2. \A u \in Trx : InFlight(u)' = {}
    BY <1>15, FundingConstants DEF Crash, InFlight, NoJob
  <2>3. \A u \in Trx : req'[u].pc \in Early => req[u].pc \in Early
    BY <1>15 DEF Crash, FundInv, TypeOK, Request
  <2>4. QED
    BY <2>1, <2>2, <2>3 DEF OnceInv, Alone, CreditedAt
<1>16. CASE UNCHANGED vars
  <2>1. UNCHANGED <<trx, req, job, credits, raced>>
    BY <1>16 DEF vars
  <2>2. QED
    BY <2>1, RequestOnce
<1>17. QED
  BY <1>1, <1>2, <1>3, <1>4, <1>5, <1>6, <1>8, <1>9, <1>10, <1>11,
     <1>12, <1>13, <1>14, <1>15, <1>16 DEF Next, Fund, Settle

\* For any attempts, wallets and handlers: a row is added to its wallet at
\* most once unless two executions overlapped on it.
THEOREM CreditedAtMostOnceUnlessRaced == Spec => []CreditedOnceUnlessRaced
<1>1. OnceInv => CreditedOnceUnlessRaced
  BY DEF OnceInv, CreditedAt, CreditedOnceUnlessRaced
<1>2. QED
  BY <1>1, InitFundInv, NextFundInv, InitOnce, NextOnce, PTL DEF Spec

-----------------------------------------------------------------------------
(***************************************************************************)
(* The balance.  On a wallet that was not crossed at most one handler is   *)
(* between its read and its write, and what it has read is the balance.    *)
(***************************************************************************)
AtCredit(h, w) == job[h].pc = "credit" /\ WalletOf[job[h].trx] = w

BalanceInv ==
    /\ BalanceExactUnlessCrossed
    /\ \A w \in Wallets \ crossed : \A g \in Handlers :
          AtCredit(g, w) => /\ job[g].bal = wallet[w]
                         /\ \A h \in Handlers : AtCredit(h, w) => h = g

\* The sum of the credits of a wallet.
LEMMA CreditedType ==
  ASSUME FundInv
  PROVE  /\ \A t \in Trx : Credited[t] \in Int
         /\ \A w : IsFiniteSet(TrxOf(w)) /\ TrxOf(w) \subseteq Trx
         /\ \A w : SumFunctionOnSet(Credited, TrxOf(w)) \in Int
<1>1. \A t \in Trx : Credited[t] \in Int
  BY FundingConstants DEF Credited, FundInv, TypeOK
<1>2. ASSUME NEW w PROVE IsFiniteSet(TrxOf(w)) /\ TrxOf(w) \subseteq Trx
  BY FundingAssumption, FS_Subset DEF TrxOf
<1>3. ASSUME NEW w PROVE SumFunctionOnSet(Credited, TrxOf(w)) \in Int
  <2>1. IsFiniteSet(TrxOf(w)) /\ \A t \in TrxOf(w) : Credited[t] \in Int
    BY <1>1, <1>2
  <2>2. QED
    BY <2>1, SumIsInt
<1>4. QED
  BY <1>1, <1>2, <1>3

\* One more credit of a row.
LEMMA OneMoreCredit ==
  ASSUME FundInv, NEW t \in Trx, credits' = [credits EXCEPT ![t] = @ + 1]
  PROVE  /\ Credited'[t] = Credited[t] + Amount[t]
         /\ \A u \in Trx \ {t} : Credited'[u] = Credited[u]
<1>1. /\ credits[t] \in Int /\ Amount[t] \in Int
      /\ credits'[t] = credits[t] + 1
      /\ \A u \in Trx \ {t} : credits'[u] = credits[u]
  BY FundingConstants DEF FundInv, TypeOK
<1>2. \A a, b \in Int : (a + 1) * b = a * b + b
  OBVIOUS
<1>3. Credited'[t] = (credits[t] + 1) * Amount[t]
  BY <1>1 DEF Credited
<1>4. Credited[t] = credits[t] * Amount[t]
  BY DEF Credited
<1>5. QED
  BY <1>1, <1>2, <1>3, <1>4 DEF Credited

LEMMA CreditAddsUp ==
  ASSUME FundInv, NEW t \in Trx, credits' = [credits EXCEPT ![t] = @ + 1], NEW w
  PROVE  SumFunctionOnSet(Credited', TrxOf(w)) =
            SumFunctionOnSet(Credited, TrxOf(w))
               + IF WalletOf[t] = w THEN Amount[t] ELSE 0
<1> DEFINE old == Credited
           new == Credited'
           S == TrxOf(w)
<1>1. /\ \A u \in S : old[u] \in Int
      /\ IsFiniteSet(S) /\ S \subseteq Trx
      /\ SumFunctionOnSet(old, S) \in Int
  BY CreditedType
<1>2. /\ new[t] = old[t] + Amount[t] /\ \A u \in Trx \ {t} : new[u] = old[u]
      /\ Amount[t] \in Int /\ old[t] \in Int
  BY OneMoreCredit, FundingConstants, CreditedType
<1>3. t \in S <=> WalletOf[t] = w
  BY DEF TrxOf
<1> HIDE DEF old, new, S
<1>4. CASE WalletOf[t] = w
  <2>1. /\ IsFiniteSet(S) /\ t \in S /\ new[t] \in Int
        /\ \A u \in S : old[u] \in Int
        /\ \A u \in S \ {t} : new[u] = old[u]
    BY <1>1, <1>2, <1>3, <1>4
  <2>2. SumFunctionOnSet(new, S) = SumFunctionOnSet(old, S) - old[t] + new[t]
    <3>1. SumFunctionOnSet(old, S) = old[t] + SumFunctionOnSet(old, S \ {t})
      BY <2>1, SumTakesAny
    <3>2. SumFunctionOnSet(new, S) = new[t] + SumFunctionOnSet(new, S \ {t})
      <4>1. \A u \in S : new[u] \in Int
        BY <2>1
      <4>2. QED
        BY <2>1, <4>1, SumTakesAny
    <3>3. /\ SumFunctionOnSet(new, S \ {t}) = SumFunctionOnSet(old, S \ {t})
          /\ SumFunctionOnSet(old, S \ {t}) \in Int
      <4>1. IsFiniteSet(S \ {t})
        BY <2>1, FS_RemoveElement
      <4>2. QED
        BY <2>1, <4>1, SumOfSame, SumIsInt
    <3>4. QED
      BY <1>2, <2>1, <3>1, <3>2, <3>3
  <2>3. SumFunctionOnSet(new, S) = SumFunctionOnSet(old, S) + Amount[t]
    BY <1>1, <1>2, <2>2
  <2>4. QED
    BY <1>4, <2>3 DEF old, new, S
<1>5. CASE WalletOf[t] # w
  <2>1. \A u \in S : new[u] = old[u]
    BY <1>1, <1>2, <1>3, <1>5
  <2>2. SumFunctionOnSet(new, S) = SumFunctionOnSet(old, S)
    BY <1>1, <2>1, SumOfSame
  <2>3. SumFunctionOnSet(new, S) = SumFunctionOnSet(old, S) + 0
    BY <1>1, <2>2
  <2>4. QED
    BY <1>5, <2>3 DEF old, new, S
<1>6. QED
  BY <1>4, <1>5

LEMMA InitBalance == Init => BalanceInv
<1> SUFFICES ASSUME Init PROVE BalanceInv
  OBVIOUS
<1>1. FundInv
  BY InitFundInv
<1>2. \A h \in Handlers : job[h].pc = "idle"
  BY DEF Init, NoJob
<1>3. \A t \in Trx : Credited[t] = 0
  BY FundingConstants DEF Init, Credited
<1>4. ASSUME NEW w \in Wallets
      PROVE  wallet[w] = Opening[w] + SumFunctionOnSet(Credited, TrxOf(w))
  <2>1. IsFiniteSet(TrxOf(w)) /\ \A t \in TrxOf(w) : Credited[t] = 0
    BY <1>1, <1>3, CreditedType
  <2>2. SumFunctionOnSet(Credited, TrxOf(w)) = 0
    BY <2>1, SumOfZeros
  <2>3. wallet[w] = Opening[w] /\ Opening[w] \in Int
    BY OpeningType DEF Init
  <2>4. QED
    BY <2>2, <2>3
<1>5. QED
  BY <1>2, <1>4 DEF BalanceInv, BalanceExactUnlessCrossed, AtCredit

\* All steps but the read and the write of a wallet.
Aside == /\ UNCHANGED <<wallet, credits, crossed>>
         /\ \A g \in Handlers : job'[g].pc = "credit" => job'[g] = job[g]

LEMMA BalanceSteps ==
  ASSUME FundInv, [Next]_vars
  PROVE  \/ Aside
         \/ \E h \in Handlers : ReadWallet(h) \/ CreditWallet(h)
<1>1. ASSUME NEW t \in Trx, Fund(t) \/ ProviderSettles(t) PROVE Aside
  BY <1>1 DEF Fund, FundCheck, FundCollect, InitiateAfribapayCollect,
              FundCreate, FundSetReference, ProviderSettles, history, Aside
<1>2. ASSUME NEW h \in Handlers, NEW t \in Trx, Arrive(h, t) PROVE Aside
  <2>1. UNCHANGED <<wallet, credits, crossed>>
    BY <1>2 DEF Arrive, ReadFetch, Webhook
  <2>2. PICK pc, via, s : pc # "credit" /\ Start(h, t, pc, via, s)
    BY <1>2 DEF Arrive, ReadFetch, Webhook
  <2>3. QED
    BY <2>1, <2>2 DEF Start, Aside, FundInv, TypeOK
<1>3. ASSUME NEW h \in Handlers,
             \/ ReadAnswered(h) \/ StatusCallFails(h)
             \/ HandlerFails(h) \/ ReadInitial(h) \/ WriteStatus(h)
             \/ StampBalances(h)
      PROVE  Aside
  <2>1. UNCHANGED <<wallet, credits, crossed>>
    BY <1>3 DEF ReadAnswered, StatusCallFails, HandlerFails,
                ReadInitial, WriteStatus, StampBalances, history
  <2>2. \A g \in Handlers \ {h} : job'[g] = job[g]
    BY <1>3 DEF ReadAnswered, StatusCallFails, HandlerFails,
                ReadInitial, WriteStatus, StampBalances, End, FundInv, TypeOK
  <2>3. job'[h].pc # "credit"
    BY <1>3 DEF ReadAnswered, StatusCallFails, HandlerFails,
                ReadInitial, WriteStatus, StampBalances, End, NoJob, FundInv,
                TypeOK, Job
  <2>4. QED
    BY <2>1, <2>2, <2>3 DEF Aside
<1>4. CASE Crash
  BY <1>4 DEF Crash, Aside, NoJob
<1>5. CASE UNCHANGED vars
  BY <1>5 DEF vars, Aside
<1>6. QED
  BY <1>1, <1>2, <1>3, <1>4, <1>5 DEF Next, Settle

LEMMA NextBalance == FundInv /\ BalanceInv /\ [Next]_vars => BalanceInv'
<1> SUFFICES ASSUME FundInv, BalanceInv, [Next]_vars PROVE BalanceInv'
  OBVIOUS
<1>1. CASE Aside
  <2>1. Credited' = Credited
    BY <1>1 DEF Aside, Credited
  <2>2. BalanceExactUnlessCrossed'
    BY <1>1, <2>1 DEF Aside, BalanceInv, BalanceExactUnlessCrossed, TrxOf
  <2>3. \A w \in Wallets, g \in Handlers :
           AtCredit(g, w)' => AtCredit(g, w) /\ job'[g] = job[g]
    BY <1>1 DEF Aside, AtCredit
  <2>4. QED
    BY <1>1, <2>2, <2>3 DEF Aside, BalanceInv
<1>2. ASSUME NEW h \in Handlers, ReadWallet(h) PROVE BalanceInv'
  <2> DEFINE v == WalletOf[job[h].trx]
  <2>1. /\ UNCHANGED <<wallet, credits>>
        /\ crossed \subseteq crossed'
        /\ \A g \in Handlers : AtCredit(g, v) => v \in crossed'
    BY <1>2 DEF ReadWallet, AtCredit
  <2>2. /\ job[h].pc = "wallet"
        /\ job'[h].bal = wallet[v] /\ job'[h].trx = job[h].trx
        /\ \A g \in Handlers \ {h} : job'[g] = job[g]
    BY <1>2 DEF ReadWallet, FundInv, TypeOK
  <2>3. BalanceExactUnlessCrossed'
    <3>1. Credited' = Credited
      BY <2>1 DEF Credited
    <3>2. QED
      BY <2>1, <3>1 DEF BalanceInv, BalanceExactUnlessCrossed, TrxOf
  <2>4. ASSUME NEW w \in Wallets \ crossed', NEW g \in Handlers, AtCredit(g, w)'
        PROVE  /\ job'[g].bal = wallet'[w]
               /\ \A k \in Handlers : AtCredit(k, w)' => k = g
    <3>1. w \notin crossed
      BY <2>1, <2>4
    <3>2. \A k \in Handlers \ {h} : AtCredit(k, w)' <=> AtCredit(k, w)
      BY <2>2 DEF AtCredit
    <3>3. CASE w = v
      <4>1. \A k \in Handlers \ {h} : ~ AtCredit(k, w)'
        BY <2>1, <2>4, <3>2, <3>3
      <4>2. QED
        BY <2>1, <2>2, <2>4, <3>3, <4>1
    <3>4. CASE w # v
      <4>1. ~ AtCredit(h, w)'
        BY <2>2, <3>4 DEF AtCredit
      <4>2. QED
        BY <2>1, <2>2, <2>4, <3>1, <3>2, <4>1 DEF BalanceInv
    <3>5. QED
      BY <3>3, <3>4
  <2>5. QED
    BY <2>3, <2>4 DEF BalanceInv
<1>3. ASSUME NEW h \in Handlers, CreditWallet(h) PROVE BalanceInv'
  <2> DEFINE t == job[h].trx
             v == WalletOf[t]
  <2>1. /\ job[h].pc = "credit" /\ AtCredit(h, v)
        /\ wallet' = [wallet EXCEPT ![v] = job[h].bal + Amount[t]]
        /\ credits' = [credits EXCEPT ![t] = @ + 1]
        /\ crossed' = crossed
    BY <1>3 DEF CreditWallet, AtCredit
  <2>2. t \in Trx /\ v \in Wallets /\ Amount[t] \in Int
    BY <2>1, BusyJob, FundingConstants
  <2>3. /\ \A g \in Handlers \ {h} : job'[g] = job[g]
        /\ job'[h].pc = "stamp"
    BY <1>3 DEF CreditWallet, FundInv, TypeOK
  <2>4. /\ wallet'[v] = job[h].bal + Amount[t]
        /\ \A w \in Wallets \ {v} : wallet'[w] = wallet[w]
    BY <2>1, <2>2 DEF FundInv, TypeOK
  <2> HIDE DEF t, v
  <2>5. ASSUME NEW w \in Wallets \ crossed'
        PROVE  wallet'[w] = Opening[w] + SumFunctionOnSet(Credited', TrxOf(w))
    <3>1. /\ w \notin crossed
          /\ wallet[w] = Opening[w] + SumFunctionOnSet(Credited, TrxOf(w))
      BY <2>1, <2>5 DEF BalanceInv, BalanceExactUnlessCrossed
    <3>2. /\ SumFunctionOnSet(Credited, TrxOf(w)) \in Int
          /\ Opening[w] \in Int
      BY CreditedType, OpeningType, <2>5
    <3>3. SumFunctionOnSet(Credited', TrxOf(w)) =
             SumFunctionOnSet(Credited, TrxOf(w))
                + IF WalletOf[t] = w THEN Amount[t] ELSE 0
      BY <2>1, <2>2, CreditAddsUp
    <3>4. CASE w = v
      <4>1. job[h].bal = wallet[w]
        BY <2>1, <3>1, <3>4, <2>2 DEF BalanceInv
      <4>2. SumFunctionOnSet(Credited', TrxOf(w)) =
               SumFunctionOnSet(Credited, TrxOf(w)) + Amount[t]
        BY <3>3, <3>4 DEF v
      <4>3. wallet'[w] = wallet[w] + Amount[t]
        BY <2>4, <3>4, <4>1
      <4>4. QED
        BY <2>2, <3>1, <3>2, <4>2, <4>3
    <3>5. CASE w # v
      <4>1. SumFunctionOnSet(Credited', TrxOf(w)) =
               SumFunctionOnSet(Credited, TrxOf(w)) + 0
        BY <3>3, <3>5 DEF v
      <4>2. wallet'[w] = wallet[w]
        BY <2>4, <2>5, <3>5
      <4>3. QED
        BY <3>1, <3>2, <4>1, <4>2
    <3>6. QED
      BY <3>4, <3>5
  <2>6. ASSUME NEW w \in Wallets \ crossed', NEW g \in Handlers, AtCredit(g, w)'
        PROVE  /\ job'[g].bal = wallet'[w]
               /\ \A k \in Handlers : AtCredit(k, w)' => k = g
    <3>1. w \in Wallets \ crossed
      BY <2>1, <2>6
    <3>2. /\ \A k \in Handlers \ {h} : AtCredit(k, w)' <=> AtCredit(k, w)
          /\ ~ AtCredit(h, w)'
      BY <2>3 DEF AtCredit
    <3>3. g # h /\ AtCredit(g, w)
      BY <2>6, <3>2
    <3>4. w # v
      BY <2>1, <3>1, <3>3 DEF BalanceInv
    <3>5. QED
      BY <2>3, <2>4, <3>1, <3>2, <3>3, <3>4 DEF BalanceInv
  <2>7. QED
    BY <2>5, <2>6 DEF BalanceInv, BalanceExactUnlessCrossed, TrxOf
<1>4. QED
  BY <1>1, <1>2, <1>3, BalanceSteps

\* For any attempts, wallets and handlers: unless two handlers were between
\* reading and writing a wallet at one time, its balance is the opening one
\* plus the amount of every credit (updateTransactionStatus, lines 122-160).
THEOREM BalanceIsExact == Spec => []BalanceExactUnlessCrossed
<1>1. BalanceInv => BalanceExactUnlessCrossed
  BY DEF BalanceInv
<1>2. QED
  BY <1>1, InitFundInv, NextFundInv, InitBalance, NextBalance, PTL DEF Spec

-----------------------------------------------------------------------------
(***************************************************************************)
(* WalletWithdrawal                                                        *)
(***************************************************************************)
(***************************************************************************)
(* The invariants                                                          *)
(***************************************************************************)
TInv == WithdrawalTypeOK /\ record \in [Calls -> SUBSET Record]

\* A call that is about to write has found enough in the pocket it debits.
Checked(c) ==
    /\ call[c].pc = "move" =>
          /\ <<call[c].from, call[c].to>> \in AdvancedRoutes
          /\ call[c].to # "WITHDRAW"
          /\ call[c].via # "unknown" =>
                call[c].seen[call[c].from] >= AmountOf[c]
    /\ call[c].answer = "success" => call[c].pc = "done"
    /\ call[c].pc = "take" => call[c].seen["PAYOUT"] >= AmountOf[c]
    /\ call[c].pc \in {"funds", "debit"} => call[c].seen["PAYOUT"] >= Total(c)

PocketsInv == OverdrawnOnlyByLateWrites /\ \A c \in Calls : Checked(c)

\* Where a call stands between its debit and its payout.  No webhook finds
\* its row: the row has neither the provider's reference nor an order id.
Stands(c) ==
    /\ call[c].pc \in {"idle", "move", "take", "read", "funds", "debit"}
          => row[c].status = "NONE" /\ payout[c] = "none"
    /\ call[c].pc = "pay" => row[c].status = "PENDING" /\ payout[c] = "none"
    /\ call[c].pc = "revert" =>
          row[c].status = "PENDING" /\ (payout[c] # "none" => c \in lost)
    /\ ~FoundByWebhook(c)

PayoutInv ==
    /\ PayoutStaysDebited
    /\ DebitedIsTakenUnlessStranded
    /\ \A c \in Calls : Stands(c)

-----------------------------------------------------------------------------
(***************************************************************************)
(* What the actions do                                                     *)
(***************************************************************************)
LEMMA Constants ==
  /\ OpeningPocket \in [Pockets -> Nat]
  /\ \A c \in Calls : /\ AmountOf[c] \in Nat /\ FeeOf[c] \in Int
                      /\ Total(c) \in Int
  BY WithdrawalAssumption DEF Total

LEMMA NoCallType == NoCall \in Call /\ NoCall.pc = "idle"
  BY Constants DEF NoCall, Call, Pockets, Destinations

LEMMA Routes ==
  /\ \A r \in AdvancedRoutes : r[1] \in Pockets /\ r[2] \in Destinations
  /\ InternalRoutes \subseteq AdvancedRoutes
  /\ \A r \in InternalRoutes : r[2] # "WITHDRAW"
  /\ \A r \in AdvancedRoutes : r[2] = "WITHDRAW" => r[1] = "PAYOUT"
  /\ \A r \in AdvancedRoutes : r[2] # "WITHDRAW" => r[2] \in Pockets
  /\ \A r \in AdvancedRoutes : r[1] # r[2]
  BY DEF AdvancedRoutes, InternalRoutes, Pockets, Destinations

\* Call c becomes q, and the others are left alone.
Becomes(c, q) ==
    /\ q \in Call
    /\ call' \in [Calls -> Call]
    /\ call'[c] = q
    /\ \A d \in Calls \ {c} : call'[d] = call[d]

LEMMA Becoming ==
  ASSUME TInv, NEW c \in Calls, NEW q \in Call, call' = [call EXCEPT ![c] = q]
  PROVE  Becomes(c, q)
  BY DEF TInv, WithdrawalTypeOK, Becomes

Keeps(q, p) == q.via = p.via /\ q.from = p.from /\ q.to = p.to

Steps == {"idle", "move", "take", "read", "funds", "debit", "pay", "revert",
          "done", "dead"}

LEMMA Going ==
  ASSUME TInv, NEW c \in Calls, NEW pc \in Steps, Goto(c, pc)
  PROVE  /\ Becomes(c, call'[c]) /\ call'[c].pc = pc
         /\ Keeps(call'[c], call[c]) /\ call'[c].seen = call[c].seen
         /\ call'[c].answer = call[c].answer
<1> DEFINE q == [call[c] EXCEPT !.pc = pc]
<1>1. call[c] \in Call
  BY DEF TInv, WithdrawalTypeOK
<1>2. /\ q \in Call /\ q.pc = pc /\ Keeps(q, call[c])
      /\ q.seen = call[c].seen /\ q.answer = call[c].answer
  BY <1>1 DEF Call, Keeps, Steps
<1>3. call' = [call EXCEPT ![c] = q]
  BY DEF Goto
<1>4. QED
  BY <1>2, <1>3, Becoming DEF Becomes

LEMMA Answering ==
  ASSUME TInv, NEW c \in Calls, NEW answer \in {"none", "success", "failure"},
         Answer(c, answer)
  PROVE  /\ Becomes(c, call'[c]) /\ call'[c].pc = "done"
         /\ Keeps(call'[c], call[c]) /\ call'[c].answer = answer
<1> DEFINE q == [call[c] EXCEPT !.pc = "done", !.answer = answer]
<1>1. call[c] \in Call
  BY DEF TInv, WithdrawalTypeOK
<1>2. q \in Call /\ q.pc = "done" /\ Keeps(q, call[c]) /\ q.answer = answer
  BY <1>1 DEF Call, Keeps
<1>3. call' = [call EXCEPT ![c] = q]
  BY DEF Answer, TInv, WithdrawalTypeOK
<1>4. QED
  BY <1>2, <1>3, Becoming DEF Becomes

LEMMA Refusing ==
  ASSUME TInv, NEW c \in Calls, Refused(c)
  PROVE  /\ Becomes(c, call'[c]) /\ call'[c].pc = "done"
         /\ Keeps(call'[c], call[c])
  BY Answering DEF Refused

\* What does not touch the wallet, the rows or the provider.
Silent == UNCHANGED <<pocket, counted, row, takenOut, record, payout, deaths,
                      late, lost, stranded>>

\* A call takes up its work with what it has read.
LEMMA Transferring ==
  ASSUME TInv, NEW c \in Calls, NEW via \in {"advanced", "internal"},
         NEW r \in (IF via = "advanced" THEN AdvancedRoutes ELSE InternalRoutes),
         Transfer(c, via, r[1], r[2])
  PROVE  /\ call[c].pc = "idle" /\ Silent
         /\ Becomes(c, call'[c])
         /\ \/ call'[c].pc = "done" /\ Keeps(call'[c], call[c])
            \/ /\ call'[c].from = r[1] /\ call'[c].to = r[2]
               /\ call'[c].seen = pocket /\ pocket[r[1]] >= AmountOf[c]
               /\ r \in AdvancedRoutes /\ call'[c].answer = "none"
               /\ call'[c].via = via
               /\ call'[c].pc = IF r[2] = "WITHDRAW" THEN "take" ELSE "move"
<1> DEFINE q == [pc |-> IF r[2] = "WITHDRAW" THEN "take" ELSE "move",
                 via |-> via, from |-> r[1], to |-> r[2],
                 seen |-> pocket, answer |-> "none"]
<1>1. call[c].pc = "idle" /\ Silent
  BY DEF Transfer, Silent
<1>2. CASE Answer(c, "failure")
  BY <1>1, <1>2, Answering
<1>3. CASE pocket[r[1]] >= AmountOf[c] /\ call' = [call EXCEPT ![c] = q]
  <2>1. r \in AdvancedRoutes /\ r[1] \in Pockets /\ r[2] \in Destinations
    BY Routes
  <2>2. q \in Call
    BY <2>1 DEF Call, TInv, WithdrawalTypeOK
  <2>3. Becomes(c, q)
    BY <1>3, <2>2, Becoming
  <2>4. QED
    BY <1>1, <1>3, <2>1, <2>3 DEF Becomes
<1>4. QED
  BY <1>2, <1>3 DEF Transfer

LEMMA TransferringUnknown ==
  ASSUME TInv, NEW c \in Calls, TransferUnknown(c)
  PROVE  /\ call[c].pc = "idle" /\ Silent
         /\ Becomes(c, call'[c])
         /\ \/ call'[c].pc = "done" /\ Keeps(call'[c], call[c])
            \/ /\ call'[c].from = "PAYOUT" /\ call'[c].to = "PAYIN"
               /\ call'[c].via = "unknown" /\ call'[c].answer = "none"
               /\ call'[c].seen = pocket /\ call'[c].pc = "move"
<1> DEFINE q == [pc |-> "move", via |-> "unknown", from |-> "PAYOUT",
                 to |-> "PAYIN", seen |-> pocket, answer |-> "none"]
<1>1. call[c].pc = "idle" /\ Silent
  BY DEF TransferUnknown, Silent
<1>2. CASE Answer(c, "failure")
  BY <1>1, <1>2, Answering
<1>3. CASE call' = [call EXCEPT ![c] = q]
  <2>1. q \in Call
    BY DEF Call, Pockets, Destinations, TInv, WithdrawalTypeOK
  <2>2. Becomes(c, q)
    BY <1>3, <2>1, Becoming
  <2>3. QED
    BY <1>1, <2>2 DEF Becomes
<1>4. QED
  BY <1>2, <1>3 DEF TransferUnknown

LEMMA Reading ==
  ASSUME TInv, NEW c \in Calls, ReadPayoutBalance(c)
  PROVE  /\ call[c].pc = "read" /\ Silent
         /\ Becomes(c, call'[c]) /\ Keeps(call'[c], call[c])
         /\ \/ call'[c].pc = "done"
            \/ /\ call'[c].pc = "funds" /\ call'[c].seen = pocket
               /\ call'[c].answer = call[c].answer
               /\ pocket["PAYOUT"] >= Total(c)
<1> DEFINE q == [call[c] EXCEPT !.pc = "funds", !.seen = pocket]
<1>1. call[c].pc = "read" /\ Silent
  BY DEF ReadPayoutBalance, Silent
<1>2. CASE Refused(c)
  BY <1>1, <1>2, Refusing
<1>3. CASE /\ pocket["PAYOUT"] >= Total(c)
           /\ call' = [call EXCEPT ![c].pc = "funds", ![c].seen = pocket]
  <2>1. /\ q \in Call /\ q.pc = "funds" /\ q.seen = pocket
        /\ Keeps(q, call[c]) /\ q.answer = call[c].answer
    BY DEF TInv, WithdrawalTypeOK, Call, Keeps
  <2>2. call' = [call EXCEPT ![c] = q]
    BY <1>3 DEF TInv, WithdrawalTypeOK
  <2>3. QED
    BY <1>1, <1>3, <2>1, <2>2, Becoming DEF Becomes
<1>4. QED
  BY <1>2, <1>3 DEF ReadPayoutBalance

LEMMA PayoutPocket == "PAYOUT" \in Pockets /\ "MAIN" \in Pockets
  BY DEF Pockets

LEMMA CallTypes ==
  ASSUME TInv, NEW c \in Calls
  PROVE  /\ call[c] \in Call /\ call[c].pc \in Steps
         /\ call[c].seen \in [Pockets -> Int]
         /\ \A p \in Pockets : pocket[p] \in Int /\ call[c].seen[p] \in Int
         /\ AmountOf[c] \in Nat /\ FeeOf[c] \in Int /\ Total(c) \in Int
         /\ row[c] \in Withdrawal /\ payout[c] \in PayoutStatus
         /\ record[c] \subseteq Record
  BY Constants DEF TInv, WithdrawalTypeOK, Call, Steps

LEMMA LateType ==
  ASSUME TInv, NEW c \in Calls, NEW ps, MarkLate(c, ps)
  PROVE  /\ late' \in SUBSET Calls
         /\ late' = {} => late = {} /\ \A p \in ps : pocket[p] = call[c].seen[p]
  BY DEF MarkLate, TInv, WithdrawalTypeOK

\* Writes to the pockets.
LEMMA Moving ==
  ASSUME TInv, PocketsInv, NEW c \in Calls, Move(c)
  PROVE  /\ call[c].pc = "move"
         /\ call[c].from \in Pockets /\ call[c].to \in Pockets
         /\ call[c].from # call[c].to
         /\ call[c].via # "unknown" =>
               call[c].seen[call[c].from] >= AmountOf[c]
         /\ Becomes(c, call'[c]) /\ call'[c].pc = "done"
         /\ Keeps(call'[c], call[c]) /\ call'[c].answer = "success"
         /\ pocket' \in [Pockets -> Int]
         /\ pocket'[call[c].from] = pocket[call[c].from] - AmountOf[c]
         /\ pocket'[call[c].to] = pocket[call[c].to] + AmountOf[c]
         /\ \A p \in Pockets \ {call[c].from, call[c].to} :
               pocket'[p] = pocket[p]
         /\ counted' \in [{"PAYIN", "PAYOUT"} -> Int]
         /\ counted'["PAYOUT"] = counted["PAYOUT"]
               + IF CountedFor(c, "PAYOUT") THEN AmountOf[c] ELSE 0
         /\ record' \in [Calls -> SUBSET Record]
         /\ late' \in SUBSET Calls
         /\ late' = {} => /\ late = {}
                          /\ pocket[call[c].from] = call[c].seen[call[c].from]
         /\ UNCHANGED <<row, takenOut, payout, deaths, lost, stranded>>
<1> DEFINE from == call[c].from
           to == call[c].to
           new == [pocket EXCEPT ![from] = @ - AmountOf[c],
                                 ![to] = @ + AmountOf[c]]
<1>1. /\ call[c].pc = "move" /\ <<from, to>> \in AdvancedRoutes
      /\ to # "WITHDRAW"
      /\ call[c].via # "unknown" => call[c].seen[from] >= AmountOf[c]
  BY DEF Move, PocketsInv, Checked
<1>2. from \in Pockets /\ to \in Pockets /\ from # to
  <2> DEFINE route == <<from, to>>
  <2>1. route \in AdvancedRoutes /\ route[1] = from /\ route[2] = to
    BY <1>1
  <2>2. /\ route[1] \in Pockets /\ route[1] # route[2]
        /\ route[2] # "WITHDRAW" => route[2] \in Pockets
    BY <2>1, Routes
  <2>3. QED
    BY <1>1, <2>1, <2>2
<1>3. /\ Becomes(c, call'[c]) /\ call'[c].pc = "done"
      /\ Keeps(call'[c], call[c]) /\ call'[c].answer = "success"
  BY Answering DEF Move
<1>4. /\ pocket \in [Pockets -> Int] /\ AmountOf[c] \in Int
      /\ call[c].seen[from] \in Int /\ call[c].seen[to] \in Int
      /\ counted \in [{"PAYIN", "PAYOUT"} -> Int]
      /\ record \in [Calls -> SUBSET Record]
  BY <1>2, CallTypes DEF TInv, WithdrawalTypeOK
<1> HIDE DEF from, to
<1>5. pocket' = new
  BY DEF Move, from, to
<1>6. /\ pocket' \in [Pockets -> Int]
      /\ pocket'[from] = pocket[from] - AmountOf[c]
      /\ pocket'[to] = pocket[to] + AmountOf[c]
      /\ \A p \in Pockets \ {from, to} : pocket'[p] = pocket[p]
  BY <1>2, <1>4, <1>5
<1>7. /\ counted' \in [{"PAYIN", "PAYOUT"} -> Int]
      /\ counted'["PAYOUT"] = counted["PAYOUT"]
            + IF CountedFor(c, "PAYOUT") THEN AmountOf[c] ELSE 0
  <2>1. DOMAIN counted = {"PAYIN", "PAYOUT"}
    BY <1>4
  <2>2. counted' = [k \in {"PAYIN", "PAYOUT"} |->
                      counted[k] + IF CountedFor(c, k) THEN AmountOf[c] ELSE 0]
    BY <2>1 DEF Move
  <2>3. QED
    BY <1>4, <2>2
<1>8. record' \in [Calls -> SUBSET Record]
  <2> DEFINE a == [of |-> from, old |-> call[c].seen[from],
                   new |-> pocket'[from], change |-> -AmountOf[c]]
             b == [of |-> to, old |-> call[c].seen[to],
                   new |-> pocket'[to], change |-> AmountOf[c]]
  <2>1. a \in Record /\ b \in Record
    BY <1>2, <1>4, <1>6 DEF Record
  <2>2. record' = [record EXCEPT ![c] = {a, b}]
    BY <1>5 DEF Move, from, to
  <2> HIDE DEF a, b
  <2>3. QED
    BY <1>4, <2>1, <2>2
<1>9. MarkLate(c, {from, to})
  BY DEF Move, from, to
<1>10. /\ late' \in SUBSET Calls
       /\ late' = {} => late = {} /\ pocket[from] = call[c].seen[from]
  BY <1>9, LateType
<1>11. UNCHANGED <<row, takenOut, payout, deaths, lost, stranded>>
  BY DEF Move
<1>12. QED
  BY <1>1, <1>2, <1>3, <1>6, <1>7, <1>8, <1>10, <1>11 DEF from, to

\* The pocket of payouts is debited of n, with a record of it.
LEMMA PayoutDebited ==
  ASSUME TInv, NEW c \in Calls, NEW n \in Int,
         pocket' = [pocket EXCEPT !["PAYOUT"] = @ - n]
  PROVE  /\ pocket' \in [Pockets -> Int]
         /\ pocket'["PAYOUT"] = pocket["PAYOUT"] - n
         /\ \A p \in Pockets \ {"PAYOUT"} : pocket'[p] = pocket[p]
         /\ [of |-> "PAYOUT", old |-> call[c].seen["PAYOUT"],
             new |-> pocket'["PAYOUT"], change |-> -n] \in Record
<1>1. pocket \in [Pockets -> Int]
  BY DEF TInv, WithdrawalTypeOK
<1>2. /\ pocket' \in [Pockets -> Int]
      /\ pocket'["PAYOUT"] = pocket["PAYOUT"] - n
      /\ \A p \in Pockets \ {"PAYOUT"} : pocket'[p] = pocket[p]
  BY <1>1, PayoutPocket
<1>3. QED
  BY <1>2, CallTypes, PayoutPocket DEF Record

LEMMA Recording ==
  ASSUME TInv, NEW c \in Calls, NEW set \in SUBSET Record,
         record' = [record EXCEPT ![c] = set]
  PROVE  record' \in [Calls -> SUBSET Record]
  BY DEF TInv

LEMMA TakingOut ==
  ASSUME TInv, PocketsInv, NEW c \in Calls, TakeOut(c)
  PROVE  /\ call[c].pc = "take" /\ call[c].seen["PAYOUT"] >= AmountOf[c]
         /\ Becomes(c, call'[c]) /\ call'[c].pc = "read"
         /\ Keeps(call'[c], call[c]) /\ call'[c].answer = call[c].answer
         /\ pocket' \in [Pockets -> Int]
         /\ pocket'["PAYOUT"] = pocket["PAYOUT"] - AmountOf[c]
         /\ \A p \in Pockets \ {"PAYOUT"} : pocket'[p] = pocket[p]
         /\ record' \in [Calls -> SUBSET Record]
         /\ takenOut' \in SUBSET Calls /\ takenOut' = takenOut \cup {c}
         /\ late' \in SUBSET Calls
         /\ late' = {} => late = {} /\ pocket["PAYOUT"] = call[c].seen["PAYOUT"]
         /\ UNCHANGED <<counted, row, payout, deaths, lost, stranded>>
<1> DEFINE a == [of |-> "PAYOUT", old |-> call[c].seen["PAYOUT"],
                 new |-> pocket'["PAYOUT"], change |-> -AmountOf[c]]
<1>1. /\ call[c].pc = "take" /\ Goto(c, "read") /\ MarkLate(c, {"PAYOUT"})
      /\ pocket' = [pocket EXCEPT !["PAYOUT"] = @ - AmountOf[c]]
      /\ takenOut' = takenOut \cup {c}
      /\ record' = [record EXCEPT ![c] = {a}]
      /\ UNCHANGED <<counted, row, payout, deaths, lost, stranded>>
  BY DEF TakeOut
<1>2. /\ pocket' \in [Pockets -> Int]
      /\ pocket'["PAYOUT"] = pocket["PAYOUT"] - AmountOf[c]
      /\ \A p \in Pockets \ {"PAYOUT"} : pocket'[p] = pocket[p]
      /\ record' \in [Calls -> SUBSET Record]
  <2>1. AmountOf[c] \in Int /\ record[c] \in SUBSET Record
    BY CallTypes
  <2>2. /\ pocket' \in [Pockets -> Int]
        /\ pocket'["PAYOUT"] = pocket["PAYOUT"] - AmountOf[c]
        /\ \A p \in Pockets \ {"PAYOUT"} : pocket'[p] = pocket[p]
        /\ a \in Record
    BY <1>1, <2>1, PayoutDebited
  <2> HIDE DEF a
  <2>3. {a} \in SUBSET Record
    BY <2>1, <2>2
  <2>4. QED
    BY <1>1, <2>2, <2>3, Recording
<1>3. /\ late' \in SUBSET Calls
      /\ late' = {} => late = {} /\ pocket["PAYOUT"] = call[c].seen["PAYOUT"]
  BY <1>1, LateType
<1>4. takenOut' \in SUBSET Calls
  BY <1>1 DEF TInv, WithdrawalTypeOK
<1>5. QED
  BY <1>1, <1>2, <1>3, <1>4, Going DEF PocketsInv, Checked, Steps

LEMMA Debiting ==
  ASSUME TInv, PocketsInv, NEW c \in Calls, Debit(c)
  PROVE  /\ call[c].pc = "debit" /\ call[c].seen["PAYOUT"] >= Total(c)
         /\ Becomes(c, call'[c]) /\ call'[c].pc = "pay"
         /\ Keeps(call'[c], call[c]) /\ call'[c].answer = call[c].answer
         /\ pocket' \in [Pockets -> Int]
         /\ pocket'["PAYOUT"] = pocket["PAYOUT"] - Total(c)
         /\ \A p \in Pockets \ {"PAYOUT"} : pocket'[p] = pocket[p]
         /\ record' \in [Calls -> SUBSET Record]
         /\ counted' \in [{"PAYIN", "PAYOUT"} -> Int]
         /\ counted'["PAYOUT"] = counted["PAYOUT"] + AmountOf[c]
         /\ row' \in [Calls -> Withdrawal]
         /\ row'[c] = [status |-> "PENDING", ref |-> "local",
                       orderId |-> FALSE]
         /\ \A d \in Calls \ {c} : row'[d] = row[d]
         /\ late' \in SUBSET Calls
         /\ late' = {} => late = {} /\ pocket["PAYOUT"] = call[c].seen["PAYOUT"]
         /\ UNCHANGED <<takenOut, payout, deaths, lost, stranded>>
<1> DEFINE new == [status |-> "PENDING", ref |-> "local", orderId |-> FALSE]
<1> DEFINE a == [of |-> "PAYOUT", old |-> call[c].seen["PAYOUT"],
                 new |-> pocket'["PAYOUT"], change |-> -Total(c)]
<1>1. /\ call[c].pc = "debit" /\ Goto(c, "pay") /\ MarkLate(c, {"PAYOUT"})
      /\ pocket' = [pocket EXCEPT !["PAYOUT"] = @ - Total(c)]
      /\ counted' = [counted EXCEPT !["PAYOUT"] = @ + AmountOf[c]]
      /\ row' = [row EXCEPT ![c] = new]
      /\ record' = [record EXCEPT ![c] = record[c] \cup {a}]
      /\ UNCHANGED <<takenOut, payout, deaths, lost, stranded>>
  BY DEF Debit
<1>2. /\ pocket' \in [Pockets -> Int]
      /\ pocket'["PAYOUT"] = pocket["PAYOUT"] - Total(c)
      /\ \A p \in Pockets \ {"PAYOUT"} : pocket'[p] = pocket[p]
      /\ record' \in [Calls -> SUBSET Record]
  <2>1. Total(c) \in Int /\ record[c] \in SUBSET Record
    BY CallTypes
  <2>2. /\ pocket' \in [Pockets -> Int]
        /\ pocket'["PAYOUT"] = pocket["PAYOUT"] - Total(c)
        /\ \A p \in Pockets \ {"PAYOUT"} : pocket'[p] = pocket[p]
        /\ a \in Record
    BY <1>1, <2>1, PayoutDebited
  <2> HIDE DEF a
  <2>3. record[c] \cup {a} \in SUBSET Record
    BY <2>1, <2>2
  <2>4. QED
    BY <1>1, <2>2, <2>3, Recording
<1>3. /\ late' \in SUBSET Calls
      /\ late' = {} => late = {} /\ pocket["PAYOUT"] = call[c].seen["PAYOUT"]
  BY <1>1, LateType
<1>4. /\ counted' \in [{"PAYIN", "PAYOUT"} -> Int]
      /\ counted'["PAYOUT"] = counted["PAYOUT"] + AmountOf[c]
  BY <1>1, CallTypes DEF TInv, WithdrawalTypeOK
<1>5. new \in Withdrawal /\ row \in [Calls -> Withdrawal]
  BY DEF TInv, WithdrawalTypeOK, Withdrawal
<1>6. /\ row' \in [Calls -> Withdrawal] /\ row'[c] = new
      /\ \A d \in Calls \ {c} : row'[d] = row[d]
  BY <1>1, <1>5
<1>7. QED
  BY <1>1, <1>2, <1>3, <1>4, <1>6, Going DEF PocketsInv, Checked, Steps

LEMMA Reverting ==
  ASSUME TInv, NEW c \in Calls, Revert(c)
  PROVE  /\ call[c].pc = "revert"
         /\ Becomes(c, call'[c]) /\ call'[c].pc = "done"
         /\ Keeps(call'[c], call[c])
         /\ pocket' \in [Pockets -> Int]
         /\ pocket'["PAYOUT"] = pocket["PAYOUT"] + Total(c)
         /\ \A p \in Pockets \ {"PAYOUT"} : pocket'[p] = pocket[p]
         /\ counted' \in [{"PAYIN", "PAYOUT"} -> Int]
         /\ counted'["PAYOUT"] = counted["PAYOUT"] - AmountOf[c]
         /\ row' \in [Calls -> Withdrawal]
         /\ row'[c].status = "FAILED" /\ row'[c].ref = row[c].ref
         /\ row'[c].orderId = row[c].orderId
         /\ \A d \in Calls \ {c} : row'[d] = row[d]
         /\ UNCHANGED <<takenOut, record, payout, deaths, late, lost,
                        stranded>>
<1>1. /\ call[c].pc = "revert" /\ Answer(c, "success")
      /\ pocket' = [pocket EXCEPT !["PAYOUT"] = @ + Total(c)]
      /\ counted' = [counted EXCEPT !["PAYOUT"] = @ - AmountOf[c]]
      /\ row' = [row EXCEPT ![c].status = "FAILED"]
      /\ UNCHANGED <<takenOut, record, payout, deaths, late, lost, stranded>>
  BY DEF Revert
<1>2. /\ pocket' \in [Pockets -> Int]
      /\ pocket'["PAYOUT"] = pocket["PAYOUT"] + Total(c)
      /\ \A p \in Pockets \ {"PAYOUT"} : pocket'[p] = pocket[p]
  BY <1>1, CallTypes, PayoutPocket DEF TInv, WithdrawalTypeOK
<1>3. /\ counted' \in [{"PAYIN", "PAYOUT"} -> Int]
      /\ counted'["PAYOUT"] = counted["PAYOUT"] - AmountOf[c]
  BY <1>1, CallTypes DEF TInv, WithdrawalTypeOK
<1> DEFINE new == [row[c] EXCEPT !.status = "FAILED"]
<1>4. /\ new \in Withdrawal /\ new.status = "FAILED" /\ new.ref = row[c].ref
      /\ new.orderId = row[c].orderId
  BY CallTypes DEF Withdrawal
<1>5. row' = [row EXCEPT ![c] = new] /\ row \in [Calls -> Withdrawal]
  BY <1>1 DEF TInv, WithdrawalTypeOK
<1> HIDE DEF new
<1>6. /\ row' \in [Calls -> Withdrawal] /\ row'[c] = new
      /\ \A d \in Calls \ {c} : row'[d] = row[d]
  BY <1>4, <1>5
<1>7. QED
  BY <1>1, <1>2, <1>3, <1>4, <1>6, Answering

\* The provider is asked to pay: it may have accepted, and the answer may
\* come or not.
LEMMA Paying ==
  ASSUME TInv, NEW c \in Calls, InitiatePayout(c)
  PROVE  /\ call[c].pc = "pay"
         /\ Becomes(c, call'[c]) /\ Keeps(call'[c], call[c])
         /\ payout' \in [Calls -> PayoutStatus]
         /\ \A d \in Calls \ {c} : payout'[d] = payout[d]
         /\ \/ /\ call'[c].pc = "done" /\ payout'[c] = "ACCEPTED" /\ lost' = lost
            \/ /\ call'[c].pc = "revert" /\ payout'[c] = "ACCEPTED"
               /\ lost' = lost \cup {c} /\ call'[c].answer = call[c].answer
            \/ /\ call'[c].pc = "revert" /\ payout' = payout /\ lost' = lost
               /\ call'[c].answer = call[c].answer
         /\ UNCHANGED <<pocket, counted, row, takenOut, record, deaths, late,
                        stranded>>
<1>1. /\ call[c].pc = "pay"
      /\ UNCHANGED <<pocket, counted, row, takenOut, record, deaths, late,
                     stranded>>
  BY DEF InitiatePayout
<1>2. payout \in [Calls -> PayoutStatus]
  BY DEF TInv, WithdrawalTypeOK
<1>3. ASSUME payout' = [payout EXCEPT ![c] = "ACCEPTED"]
      PROVE  /\ payout' \in [Calls -> PayoutStatus] /\ payout'[c] = "ACCEPTED"
             /\ \A d \in Calls \ {c} : payout'[d] = payout[d]
  BY <1>2, <1>3 DEF PayoutStatus
<1>4. ASSUME Goto(c, "revert")
      PROVE  /\ Becomes(c, call'[c]) /\ call'[c].pc = "revert"
             /\ Keeps(call'[c], call[c])
             /\ call'[c].answer = call[c].answer
  BY <1>4, Going DEF Steps
<1>5. ASSUME Answer(c, "success")
      PROVE  /\ Becomes(c, call'[c]) /\ call'[c].pc = "done"
             /\ Keeps(call'[c], call[c])
  BY <1>5, Answering
<1>6. QED
  BY <1>1, <1>2, <1>3, <1>4, <1>5 DEF InitiatePayout

LEMMA RevertFailing ==
  ASSUME TInv, NEW c \in Calls, RevertFails(c)
  PROVE  /\ call[c].pc = "revert"
         /\ Becomes(c, call'[c]) /\ call'[c].pc = "done"
         /\ Keeps(call'[c], call[c])
         /\ stranded' = stranded \cup {c}
         /\ UNCHANGED <<pocket, counted, row, takenOut, record, payout,
                        deaths, late, lost>>
  BY Answering DEF RevertFails

\* The provider and its webhook.
LEMMA ProviderPaying ==
  ASSUME TInv, NEW c \in Calls, ProviderPays(c)
  PROVE  /\ payout[c] = "ACCEPTED" /\ payout'[c] # "none"
         /\ payout' \in [Calls -> PayoutStatus]
         /\ \A d \in Calls \ {c} : payout'[d] = payout[d]
         /\ UNCHANGED <<pocket, counted, call, row, takenOut, record, deaths,
                        late, lost, stranded>>
<1>1. PICK s \in {"COMPLETED", "FAILED"} : payout' = [payout EXCEPT ![c] = s]
  BY DEF ProviderPays
<1>2. QED
  BY <1>1 DEF ProviderPays, TInv, WithdrawalTypeOK, PayoutStatus

LEMMA WebhookWriting ==
  ASSUME TInv, NEW c \in Calls, PayoutWebhook(c)
  PROVE  /\ row' \in [Calls -> Withdrawal]
         /\ ~FoundByWebhook(c) => row' = row
         /\ UNCHANGED <<pocket, counted, call, takenOut, record, payout,
                        deaths, late, lost, stranded>>
<1> DEFINE s == IF ~FoundByWebhook(c) THEN row[c].status
                ELSE IF payout[c] = "COMPLETED" THEN "SUCCESS" ELSE "FAILED"
           new == [row[c] EXCEPT !.status = s]
<1>1. row[c] \in Withdrawal /\ row \in [Calls -> Withdrawal]
  BY DEF TInv, WithdrawalTypeOK
<1>2. s \in {"NONE", "PENDING", "FAILED", "SUCCESS"}
      /\ (~FoundByWebhook(c) => s = row[c].status)
  BY <1>1 DEF Withdrawal
<1>3. row' = [row EXCEPT ![c] = new]
  BY DEF PayoutWebhook
<1> HIDE DEF s
<1>4. new \in Withdrawal
  BY <1>1, <1>2 DEF Withdrawal
<1>5. ~FoundByWebhook(c) => new = row[c]
  BY <1>1, <1>2 DEF Withdrawal
<1> HIDE DEF new
<1>6. row' \in [Calls -> Withdrawal] /\ (~FoundByWebhook(c) => row' = row)
  BY <1>1, <1>3, <1>4, <1>5
<1>7. QED
  BY <1>6 DEF PayoutWebhook

LEMMA Dying ==
  ASSUME TInv, Die
  PROVE  /\ call' \in [Calls -> Call]
         /\ \A c \in Calls : \/ call'[c] = call[c] /\ ~InProgress(c)
                             \/ /\ call'[c].pc = "dead" /\ InProgress(c)
                                /\ Keeps(call'[c], call[c])
                                /\ call'[c].answer = call[c].answer
         /\ stranded' = stranded \cup
               {c \in Calls : call[c].pc \in {"pay", "revert"}}
         /\ deaths' \in Nat
         /\ UNCHANGED <<pocket, counted, row, takenOut, record, payout, late,
                        lost>>
<1>1. ASSUME NEW c \in Calls
      PROVE  /\ [call[c] EXCEPT !.pc = "dead"] \in Call
             /\ [call[c] EXCEPT !.pc = "dead"].pc = "dead"
             /\ Keeps([call[c] EXCEPT !.pc = "dead"], call[c])
             /\ [call[c] EXCEPT !.pc = "dead"].answer = call[c].answer
             /\ call[c] \in Call
  BY CallTypes DEF Call, Keeps
<1>2. call' = [c \in Calls |-> IF InProgress(c)
                               THEN [call[c] EXCEPT !.pc = "dead"]
                               ELSE call[c]]
  BY DEF Die
<1> DEFINE Dead(c) == [call[c] EXCEPT !.pc = "dead"]
<1> HIDE DEF Dead
<1>3. call' = [c \in Calls |-> IF InProgress(c) THEN Dead(c) ELSE call[c]]
  BY <1>2 DEF Dead
<1>4. \A c \in Calls : /\ Dead(c) \in Call /\ Dead(c).pc = "dead"
                      /\ Keeps(Dead(c), call[c]) /\ call[c] \in Call
                      /\ Dead(c).answer = call[c].answer
  BY <1>1 DEF Dead
<1>5. QED
  BY <1>3, <1>4 DEF Die, TInv, WithdrawalTypeOK

\* A call that goes on, or ends, without writing.
Quiet(c) ==
    /\ Silent /\ Becomes(c, call'[c])
    /\ \/ call'[c].pc = "done"
       \/ call'[c].answer \in {"none", call[c].answer}
    /\ \/ /\ call[c].pc \in {"idle", "move", "take", "read", "funds", "debit"}
          /\ call'[c].pc = "done" /\ Keeps(call'[c], call[c])
          /\ call[c].pc = "move" => call'[c].answer = "failure"
       \/ /\ call[c].pc = "idle" /\ call'[c].pc \in {"move", "take"}
          /\ <<call'[c].from, call'[c].to>> \in AdvancedRoutes
          /\ call'[c].from \in Pockets
          /\ call'[c].to # "WITHDRAW" <=> call'[c].pc = "move"
          /\ call'[c].pc = "take" => call'[c].from = "PAYOUT"
          /\ call'[c].seen = pocket
          /\ call'[c].via = "unknown" => call'[c].pc = "move"
          /\ call'[c].via # "unknown" =>
                pocket[call'[c].from] >= AmountOf[c]
       \/ /\ Keeps(call'[c], call[c])
          /\ \/ call[c].pc = "idle" /\ call'[c].pc = "read"
             \/ /\ call[c].pc = "read" /\ call'[c].pc = "funds"
                /\ call'[c].seen = pocket /\ pocket["PAYOUT"] >= Total(c)
             \/ /\ call[c].pc = "funds" /\ call'[c].pc = "debit"
                /\ call'[c].seen = call[c].seen
             \/ call[c].pc = "pay" /\ call'[c].pc = "revert"

LEMMA TransferQuiet ==
  ASSUME TInv, NEW c \in Calls, NEW via \in {"advanced", "internal"},
         NEW r \in (IF via = "advanced" THEN AdvancedRoutes ELSE InternalRoutes),
         Transfer(c, via, r[1], r[2])
  PROVE  Quiet(c)
<1>1. r \in AdvancedRoutes => r = <<r[1], r[2]>>
  BY DEF AdvancedRoutes
<1>2. QED
  BY <1>1, Transferring, Routes DEF Quiet

LEMMA UnknownQuiet ==
  ASSUME TInv, NEW c \in Calls, TransferUnknown(c)
  PROVE  Quiet(c)
<1>1. <<"PAYOUT", "PAYIN">> \in AdvancedRoutes /\ "PAYOUT" \in Pockets
      /\ "PAYIN" # "WITHDRAW"
  BY DEF AdvancedRoutes, Pockets
<1>2. QED
  BY <1>1, TransferringUnknown DEF Quiet

LEMMA OthersQuiet ==
  ASSUME TInv, NEW c \in Calls,
         Withdraw(c) \/ TransactionFails(c) \/ ReadPayoutBalance(c)
            \/ CheckProviderFunds(c) \/ NoToken(c)
  PROVE  Quiet(c)
<1>1. CASE Withdraw(c)
  BY <1>1, Going DEF Withdraw, Quiet, Silent, Steps
<1>2. CASE TransactionFails(c)
  BY <1>2, Answering DEF TransactionFails, Quiet, Silent
<1>3. CASE ReadPayoutBalance(c)
  BY <1>3, Reading DEF Quiet
<1>4. CASE CheckProviderFunds(c)
  <2>1. CASE Goto(c, "debit")
    BY <1>4, <2>1, Going DEF CheckProviderFunds, Quiet, Silent, Steps
  <2>2. CASE Refused(c) \/ BalanceUnknown(c)
    BY <1>4, <2>2, Refusing
       DEF CheckProviderFunds, BalanceUnknown, Quiet, Silent
  <2>3. QED
    BY <1>4, <2>1, <2>2 DEF CheckProviderFunds
<1>5. CASE NoToken(c)
  BY <1>5, Going DEF NoToken, Quiet, Silent, Steps
<1>6. QED
  BY <1>1, <1>2, <1>3, <1>4, <1>5

\* The steps of the specification.
LEMMA NextCases ==
  ASSUME TInv, [WithdrawalNext]_wvars
  PROVE  \/ \E c \in Calls : Quiet(c) \/ Move(c) \/ TakeOut(c) \/ Debit(c)
                             \/ InitiatePayout(c) \/ Revert(c)
                             \/ RevertFails(c) \/ ProviderPays(c)
                             \/ PayoutWebhook(c)
         \/ Die
         \/ UNCHANGED wvars
<1>1. ASSUME NEW c \in Calls, NEW r \in AdvancedRoutes,
             Transfer(c, "advanced", r[1], r[2])
      PROVE  Quiet(c)
  BY <1>1, TransferQuiet
<1>2. ASSUME NEW c \in Calls, NEW r \in InternalRoutes,
             Transfer(c, "internal", r[1], r[2])
      PROVE  Quiet(c)
  BY <1>2, TransferQuiet
<1>3. QED
  BY <1>1, <1>2, OthersQuiet, UnknownQuiet DEF WithdrawalNext, ProcessWithdrawal

-----------------------------------------------------------------------------
(***************************************************************************)
(* Pockets: every debit was checked against what the call read, and a call *)
(* that finds the pocket changed since is late.                            *)
(***************************************************************************)
PInv == TInv /\ PocketsInv

LEMMA InitPInv == WithdrawalInit => PInv
<1> SUFFICES ASSUME WithdrawalInit PROVE PInv
  OBVIOUS
<1>1. /\ pocket \in [Pockets -> Int] /\ \A p \in Pockets : pocket[p] >= 0
      /\ counted \in [{"PAYIN", "PAYOUT"} -> Int]
  BY Constants DEF WithdrawalInit
<1>2. call \in [Calls -> Call] /\ \A c \in Calls : call[c].pc = "idle"
  BY NoCallType DEF WithdrawalInit
<1>3. row \in [Calls -> Withdrawal]
  BY DEF WithdrawalInit, NoWithdrawal, Withdrawal
<1>4. /\ record \in [Calls -> SUBSET Record]
      /\ payout \in [Calls -> PayoutStatus]
  BY DEF WithdrawalInit, PayoutStatus
<1>5. /\ takenOut \in SUBSET Calls /\ late \in SUBSET Calls /\ deaths \in Nat
      /\ lost \in SUBSET Calls /\ stranded \in SUBSET Calls
  BY DEF WithdrawalInit
<1>6. TInv
  BY <1>1, <1>2, <1>3, <1>4, <1>5 DEF TInv, WithdrawalTypeOK
<1>7. PocketsInv
  <2>1. \A c \in Calls : call[c].answer = "none"
    BY DEF WithdrawalInit, NoCall
  <2>2. QED
    BY <1>1, <1>2, <2>1 DEF PocketsInv, OverdrawnOnlyByLateWrites, Checked
<1>8. QED
  BY <1>6, <1>7 DEF PInv

\* Type correctness is kept by every step.
LEMMA NextTInv == PInv /\ [WithdrawalNext]_wvars => TInv'
<1> SUFFICES ASSUME PInv, [WithdrawalNext]_wvars PROVE TInv'
  OBVIOUS
<1>0. /\ TInv /\ PocketsInv
      /\ pocket \in [Pockets -> Int]
      /\ counted \in [{"PAYIN", "PAYOUT"} -> Int]
      /\ row \in [Calls -> Withdrawal] /\ takenOut \in SUBSET Calls
      /\ record \in [Calls -> SUBSET Record]
      /\ payout \in [Calls -> PayoutStatus]
      /\ deaths \in Nat /\ late \in SUBSET Calls /\ lost \in SUBSET Calls
      /\ stranded \in SUBSET Calls /\ call \in [Calls -> Call]
  BY DEF PInv, TInv, WithdrawalTypeOK
<1> USE DEF TInv, WithdrawalTypeOK
<1>1. ASSUME NEW c \in Calls, Quiet(c) PROVE TInv'
  BY <1>0, <1>1 DEF Quiet, Silent, Becomes
<1>2. ASSUME NEW c \in Calls, Move(c) PROVE TInv'
  <2>1. /\ pocket' \in [Pockets -> Int] /\ call' \in [Calls -> Call]
        /\ counted' \in [{"PAYIN", "PAYOUT"} -> Int]
        /\ record' \in [Calls -> SUBSET Record] /\ late' \in SUBSET Calls
        /\ UNCHANGED <<row, takenOut, payout, deaths, lost, stranded>>
    BY <1>0, <1>2, Moving DEF Becomes
  <2>2. QED
    BY <1>0, <2>1
<1>3. ASSUME NEW c \in Calls, TakeOut(c) PROVE TInv'
  BY <1>0, <1>3, TakingOut DEF Becomes
<1>4. ASSUME NEW c \in Calls, Debit(c) PROVE TInv'
  BY <1>0, <1>4, Debiting DEF Becomes
<1>5. ASSUME NEW c \in Calls, InitiatePayout(c) PROVE TInv'
  BY <1>0, <1>5, Paying DEF Becomes
<1>6. ASSUME NEW c \in Calls, Revert(c) PROVE TInv'
  BY <1>0, <1>6, Reverting DEF Becomes
<1>7. ASSUME NEW c \in Calls, RevertFails(c) PROVE TInv'
  BY <1>0, <1>7, RevertFailing DEF Becomes
<1>8. ASSUME NEW c \in Calls, ProviderPays(c) PROVE TInv'
  BY <1>0, <1>8, ProviderPaying
<1>9. ASSUME NEW c \in Calls, PayoutWebhook(c) PROVE TInv'
  BY <1>0, <1>9, WebhookWriting
<1>10. CASE Die
  BY <1>0, <1>10, Dying
<1>11. CASE UNCHANGED wvars
  BY <1>0, <1>11 DEF wvars
<1>12. QED
  BY <1>0, <1>1, <1>2, <1>3, <1>4, <1>5, <1>6, <1>7, <1>8, <1>9, <1>10,
     <1>11, NextCases

\* A step of one call that checks what it is to check next.
LEMMA OneChecks ==
  ASSUME PInv, NEW c \in Calls, Becomes(c, call'[c]), Checked(c)',
         InOrder' => \A p \in Pockets : pocket'[p] >= 0
  PROVE  PocketsInv'
<1>1. \A d \in Calls : Checked(d)'
  BY DEF PInv, PocketsInv, Checked, Becomes
<1>2. QED
  BY <1>1 DEF PocketsInv, OverdrawnOnlyByLateWrites

\* What is in order after a step was so before: late calls stay late, and a
\* move that was made unchecked stays made.
LEMMA WasInOrder ==
  ASSUME PInv, NEW c \in Calls, Becomes(c, call'[c]), call[c].pc # "done",
         late' = {} => late = {}, InOrder'
  PROVE  InOrder /\ \A p \in Pockets : pocket[p] >= 0
<1>1. \A d \in Calls : call[d].answer = "success" => d # c
  BY DEF PInv, PocketsInv, Checked
<1>2. Unchecked \subseteq Unchecked'
  BY <1>1 DEF Unchecked, Becomes
<1>3. InOrder
  BY <1>2 DEF InOrder, Total
<1>4. QED
  BY <1>3 DEF PInv, PocketsInv, OverdrawnOnlyByLateWrites

\* A step that writes no pocket.
LEMMA SamePockets ==
  ASSUME PInv, NEW c \in Calls, Becomes(c, call'[c]), call[c].pc # "done",
         pocket' = pocket, late' = late
  PROVE  InOrder' => \A p \in Pockets : pocket'[p] >= 0
  BY WasInOrder

LEMMA NextPockets == PInv /\ [WithdrawalNext]_wvars => PocketsInv'
<1> SUFFICES ASSUME PInv, [WithdrawalNext]_wvars PROVE PocketsInv'
  OBVIOUS
<1>0. TInv /\ PocketsInv
  BY DEF PInv
<1>1. ASSUME NEW c \in Calls, Quiet(c) PROVE PocketsInv'
  <2>1. Checked(c)'
    BY <1>0, <1>1 DEF Quiet, PocketsInv, Checked
  <2>2. QED
    BY <1>1, <2>1, OneChecks, SamePockets DEF Quiet, Silent
<1>2. ASSUME NEW c \in Calls, Move(c) PROVE PocketsInv'
  <2>0. /\ call[c].pc = "move" /\ Becomes(c, call'[c])
        /\ late' = {} => late = {}
    BY <1>0, <1>2, Moving
  <2>1. Checked(c)'
    BY <1>0, <1>2, Moving DEF Checked
  <2>2. ASSUME InOrder', NEW p \in Pockets PROVE pocket'[p] >= 0
    <3>1. \A q \in Pockets : pocket[q] >= 0 /\ pocket[q] \in Int
      BY <1>0, <2>0, <2>2, WasInOrder, CallTypes
    <3>2. call[c].via # "unknown"
      BY <1>0, <1>2, <2>2, Moving DEF InOrder, Unchecked, Keeps
    <3>3. late' = {}
      BY <2>2 DEF InOrder
    <3>4. CASE p = call[c].from
      BY <1>0, <1>2, <3>1, <3>2, <3>3, <3>4, Moving, CallTypes
    <3>5. CASE p = call[c].to
      BY <1>0, <1>2, <3>1, <3>5, Moving, CallTypes
    <3>6. CASE p \notin {call[c].from, call[c].to}
      BY <1>0, <1>2, <3>1, <3>6, Moving
    <3>7. QED
      BY <3>4, <3>5, <3>6
  <2>3. QED
    BY <2>0, <2>1, <2>2, OneChecks
<1>3. ASSUME NEW c \in Calls, TakeOut(c) PROVE PocketsInv'
  <2>1. Checked(c)'
    BY <1>0, <1>3, TakingOut DEF Checked, PocketsInv
  <2>2. ASSUME InOrder', NEW p \in Pockets PROVE pocket'[p] >= 0
    <3>1. late' = {} /\ \A q \in Pockets : pocket[q] >= 0 /\ pocket[q] \in Int
      BY <1>0, <1>3, <2>2, TakingOut, WasInOrder, CallTypes DEF InOrder
    <3>2. QED
      BY <1>0, <1>3, <3>1, TakingOut, CallTypes, PayoutPocket
  <2>3. QED
    BY <1>0, <1>3, <2>1, <2>2, TakingOut, OneChecks
<1>4. ASSUME NEW c \in Calls, Debit(c) PROVE PocketsInv'
  <2>1. Checked(c)'
    BY <1>0, <1>4, Debiting DEF Checked, PocketsInv
  <2>2. ASSUME InOrder', NEW p \in Pockets PROVE pocket'[p] >= 0
    <3>1. late' = {} /\ \A q \in Pockets : pocket[q] >= 0 /\ pocket[q] \in Int
      BY <1>0, <1>4, <2>2, Debiting, WasInOrder, CallTypes DEF InOrder
    <3>2. QED
      BY <1>0, <1>4, <3>1, Debiting, CallTypes, PayoutPocket
  <2>3. QED
    BY <1>0, <1>4, <2>1, <2>2, Debiting, OneChecks
<1>5. ASSUME NEW c \in Calls, InitiatePayout(c) PROVE PocketsInv'
  <2>1. Checked(c)'
    BY <1>0, <1>5, Paying DEF Checked, PocketsInv
  <2>2. QED
    BY <1>0, <1>5, <2>1, Paying, OneChecks, SamePockets
<1>6. ASSUME NEW c \in Calls, Revert(c) PROVE PocketsInv'
  <2>1. Checked(c)'
    BY <1>0, <1>6, Reverting DEF Checked
  <2>2. ASSUME InOrder', NEW p \in Pockets PROVE pocket'[p] >= 0
    <3>1. /\ Total(c) \in Int /\ Total(c) >= 0
          /\ \A q \in Pockets : pocket[q] >= 0 /\ pocket[q] \in Int
      BY <1>0, <1>6, <2>2, Reverting, WasInOrder, CallTypes DEF InOrder
    <3>2. QED
      BY <1>0, <1>6, <3>1, Reverting, CallTypes, PayoutPocket
  <2>3. QED
    BY <1>0, <1>6, <2>1, <2>2, Reverting, OneChecks
<1>7. ASSUME NEW c \in Calls, RevertFails(c) PROVE PocketsInv'
  <2>1. Checked(c)'
    BY <1>0, <1>7, RevertFailing DEF Checked
  <2>2. QED
    BY <1>0, <1>7, <2>1, RevertFailing, OneChecks, SamePockets
<1>8. CASE \/ \E c \in Calls : ProviderPays(c) \/ PayoutWebhook(c)
           \/ UNCHANGED wvars
  <2>1. UNCHANGED <<pocket, late, call>>
    BY <1>8 DEF ProviderPays, PayoutWebhook, wvars
  <2>2. QED
    BY <1>0, <2>1
       DEF PocketsInv, OverdrawnOnlyByLateWrites, InOrder, Unchecked, Checked
<1>9. CASE Die
  <2>1. \A c \in Calls : Checked(c)'
    BY <1>0, <1>9, Dying DEF PocketsInv, Checked, InProgress
  <2>2. Unchecked' = Unchecked
    BY <1>0, <1>9, Dying DEF Unchecked, Keeps
  <2>3. QED
    BY <1>0, <1>9, <2>1, <2>2, Dying
       DEF PocketsInv, OverdrawnOnlyByLateWrites, InOrder
<1>10. QED
  BY <1>0, <1>1, <1>2, <1>3, <1>4, <1>5, <1>6, <1>7, <1>8, <1>9, NextCases

\* Every variable has its type at any time, and every call that is about to
\* debit a pocket has found enough in it.
THEOREM AlwaysPInv == WithdrawalSpec => []PInv
<1>1. WithdrawalInit => PInv
  BY InitPInv
<1>2. PInv /\ [WithdrawalNext]_wvars => PInv'
  BY NextTInv, NextPockets DEF PInv
<1>3. QED
  BY <1>1, <1>2, PTL DEF WithdrawalSpec

\* A pocket is overdrawn only after a call wrote it that had checked it before
\* another call's write, or not at all because transferInternal did not know
\* its direction, whatever the amounts and the fees are.
THEOREM OnlyLateWritesOverdraw == WithdrawalSpec => []OverdrawnOnlyByLateWrites
<1>1. PInv => OverdrawnOnlyByLateWrites
  BY DEF PInv, PocketsInv
<1>2. QED
  BY <1>1, AlwaysPInv, PTL

-----------------------------------------------------------------------------
(***************************************************************************)
(* Payouts: where each call stands between its debit and its payout.       *)
(***************************************************************************)
Story(c) ==
    /\ payout[c] # "none" /\ c \notin lost
          => row[c].status \in {"PENDING", "SUCCESS"}
    /\ row[c].status \in {"PENDING", "SUCCESS"} /\ c \notin stranded
          /\ ~InProgress(c) => payout[c] # "none"
    /\ Stands(c)

LEMMA StoryInv == PayoutInv <=> \A c \in Calls : Story(c)
  BY DEF PayoutInv, Story, PayoutStaysDebited, DebitedIsTakenUnlessStranded,
     Debited

\* What becomes of the others.
LEMMA OthersStory ==
  ASSUME PayoutInv, NEW c \in Calls, Story(c)',
         \A d \in Calls \ {c} :
            /\ call'[d] = call[d] /\ row'[d] = row[d] /\ payout'[d] = payout[d]
            /\ d \in lost' <=> d \in lost
            /\ d \in stranded' <=> d \in stranded
  PROVE  PayoutInv'
<1>1. \A d \in Calls : Story(d)
  BY StoryInv
<1>2. ASSUME NEW d \in Calls \ {c} PROVE Story(d)'
  BY <1>1 DEF Story, Stands, InProgress, FoundByWebhook
<1>3. \A d \in Calls : Story(d)'
  BY <1>2
<1>4. QED
  BY <1>3, StoryInv DEF PayoutInv, Story, PayoutStaysDebited,
     DebitedIsTakenUnlessStranded, Debited

LEMMA InitPayouts == WithdrawalInit => PayoutInv
<1> SUFFICES ASSUME WithdrawalInit, NEW c \in Calls PROVE Story(c)
  BY StoryInv
<1>1. /\ call[c].pc = "idle" /\ payout[c] = "none" /\ row[c].status = "NONE"
      /\ row[c].ref = "local"
  BY NoCallType DEF WithdrawalInit, NoWithdrawal
<1>2. QED
  BY <1>1 DEF Story, Stands, InProgress, FoundByWebhook

LEMMA NextPayouts == PInv /\ PayoutInv /\ [WithdrawalNext]_wvars => PayoutInv'
<1> SUFFICES ASSUME PInv, PayoutInv, [WithdrawalNext]_wvars PROVE PayoutInv'
  OBVIOUS
<1>0. TInv /\ PocketsInv /\ \A c \in Calls : Story(c) /\ call[c].pc \in Steps
  BY StoryInv, CallTypes DEF PInv
<1> USE DEF Story, Stands, InProgress, FoundByWebhook
<1>1. ASSUME NEW c \in Calls, Quiet(c) PROVE PayoutInv'
  <2>1. Story(c)'
    BY <1>0, <1>1 DEF Quiet, Silent
  <2>2. QED
    BY <1>1, <2>1, OthersStory DEF Quiet, Silent, Becomes
<1>2. ASSUME NEW c \in Calls, Move(c) PROVE PayoutInv'
  <2>1. Story(c)'
    BY <1>0, <1>2, Moving
  <2>2. QED
    BY <1>0, <1>2, <2>1, Moving, OthersStory DEF Becomes
<1>3. ASSUME NEW c \in Calls, TakeOut(c) PROVE PayoutInv'
  <2>1. Story(c)'
    BY <1>0, <1>3, TakingOut
  <2>2. QED
    BY <1>0, <1>3, <2>1, TakingOut, OthersStory DEF Becomes
<1>4. ASSUME NEW c \in Calls, Debit(c) PROVE PayoutInv'
  <2>1. Story(c)'
    BY <1>0, <1>4, Debiting
  <2>2. QED
    BY <1>0, <1>4, <2>1, Debiting, OthersStory DEF Becomes
<1>5. ASSUME NEW c \in Calls, InitiatePayout(c) PROVE PayoutInv'
  <2>1. Story(c)'
    BY <1>0, <1>5, Paying
  <2>2. QED
    BY <1>0, <1>5, <2>1, Paying, OthersStory DEF Becomes
<1>6. ASSUME NEW c \in Calls, Revert(c) PROVE PayoutInv'
  <2>1. Story(c)'
    BY <1>0, <1>6, Reverting
  <2>2. QED
    BY <1>0, <1>6, <2>1, Reverting, OthersStory DEF Becomes
<1>7. ASSUME NEW c \in Calls, RevertFails(c) PROVE PayoutInv'
  <2>1. Story(c)'
    BY <1>0, <1>7, RevertFailing
  <2>2. QED
    BY <1>0, <1>7, <2>1, RevertFailing, OthersStory DEF Becomes
<1>8. ASSUME NEW c \in Calls, ProviderPays(c) PROVE PayoutInv'
  <2>1. Story(c)'
    BY <1>0, <1>8, ProviderPaying
  <2>2. QED
    BY <1>0, <1>8, <2>1, ProviderPaying, OthersStory
<1>9. CASE \/ \E c \in Calls : PayoutWebhook(c)
           \/ UNCHANGED wvars
  <2>1. UNCHANGED <<call, row, payout, lost, stranded>>
    BY <1>0, <1>9, WebhookWriting DEF wvars
  <2>2. QED
    BY <1>0, <2>1, StoryInv DEF PayoutInv, PayoutStaysDebited,
       DebitedIsTakenUnlessStranded, Debited
<1>10. CASE Die
  <2>1. ASSUME NEW c \in Calls PROVE Story(c)'
    <3>1. /\ \/ call'[c] = call[c] /\ call[c].pc \in {"idle", "done", "dead"}
             \/ /\ call'[c].pc = "dead"
                /\ call[c].pc \notin {"idle", "done", "dead"}
          /\ c \in stranded' <=> (c \in stranded
                                    \/ call[c].pc \in {"pay", "revert"})
          /\ UNCHANGED <<row, payout, lost>>
      BY <1>0, <1>10, Dying
    <3>2. Story(c) /\ call[c].pc \in Steps
      BY <1>0
    <3>3. CASE call'[c] = call[c] /\ call[c].pc \in {"idle", "done", "dead"}
      BY <3>1, <3>2, <3>3
    <3>4. CASE call[c].pc \in {"pay", "revert"}
      BY <3>1, <3>2, <3>4
    <3>5. CASE call[c].pc \in {"move", "take", "read", "funds", "debit"}
      BY <3>1, <3>2, <3>5
    <3>6. QED
      BY <3>1, <3>2, <3>3, <3>4, <3>5 DEF Steps
  <2>2. QED
    BY <2>1, StoryInv DEF PayoutInv, PayoutStaysDebited,
       DebitedIsTakenUnlessStranded, Debited
<1>11. QED
  BY <1>0, <1>1, <1>2, <1>3, <1>4, <1>5, <1>6, <1>7, <1>8, <1>9, <1>10,
     NextCases

LEMMA AlwaysPayoutInv == WithdrawalSpec => []PayoutInv
<1>1. WithdrawalInit => PayoutInv
  BY InitPayouts
<1>2. PInv /\ PayoutInv /\ [WithdrawalNext]_wvars => PayoutInv'
  BY NextPayouts
<1>3. QED
  BY <1>1, <1>2, AlwaysPInv, PTL DEF WithdrawalSpec

\* The wallet stays debited for a payout the provider took, unless the
\* provider's answer was lost.
THEOREM TakenPayoutStaysDebited == WithdrawalSpec => []PayoutStaysDebited
<1>1. PayoutInv => PayoutStaysDebited
  BY DEF PayoutInv
<1>2. QED
  BY <1>1, AlwaysPayoutInv, PTL

\* A withdrawal whose call is over and whose wallet stays debited was taken by
\* the provider, unless the process died or the revert failed.
THEOREM DebitedIsTaken == WithdrawalSpec => []DebitedIsTakenUnlessStranded
<1>1. PayoutInv => DebitedIsTakenUnlessStranded
  BY DEF PayoutInv
<1>2. QED
  BY <1>1, AlwaysPayoutInv, PTL

-----------------------------------------------------------------------------
(***************************************************************************)
(* The books: each write of a pocket comes with a change of the set of     *)
(* calls whose amounts were taken out, by one call and as much.            *)
(***************************************************************************)

\* A call that withdraws, or whose row was written, goes to WITHDRAW; none
\* has been taken out before its PAYOUT_TO_WITHDRAW row is written.
Booked(c) ==
    /\ call[c].pc \in {"idle", "take", "read", "funds", "debit", "pay",
                       "revert"}
          => call[c].to = "WITHDRAW"
    /\ call[c].pc = "move" => call[c].to # "WITHDRAW"
    /\ row[c].status # "NONE" => call[c].to = "WITHDRAW"
    /\ call[c].pc \in {"idle", "move", "take"} => c \notin takenOut

TotalOf == [c \in Calls |-> Total(c)]

BooksInv == BooksBalance /\ \A c \in Calls : Booked(c)

LEMMA AllFinite ==
  /\ IsFiniteSet(Pockets)
  /\ \A S \in SUBSET Calls : IsFiniteSet(S)
<1>1. IsFiniteSet({"MAIN", "PAYIN", "PAYOUT"})
  <2>1. IsFiniteSet({"MAIN"})
    BY FS_Singleton
  <2>2. IsFiniteSet({"MAIN"} \cup {"PAYIN"})
    BY <2>1, FS_AddElement
  <2>3. IsFiniteSet(({"MAIN"} \cup {"PAYIN"}) \cup {"PAYOUT"})
    BY <2>2, FS_AddElement
  <2>4. {"MAIN", "PAYIN", "PAYOUT"} = ({"MAIN"} \cup {"PAYIN"}) \cup {"PAYOUT"}
    OBVIOUS
  <2>5. QED
    BY <2>3, <2>4
<1>2. QED
  BY <1>1, WithdrawalAssumption, FS_Subset DEF Pockets

LEMMA AmountTypes ==
  /\ \A c \in Calls : AmountOf[c] \in Int /\ TotalOf[c] = Total(c)
                      /\ TotalOf[c] \in Int
  BY Constants DEF TotalOf

\* A set of calls gains one, or loses one.
LEMMA OneCallMore ==
  ASSUME NEW S \in SUBSET Calls, NEW c \in Calls \ S
  PROVE  /\ Sum(S \cup {c}, AmountOf) = Sum(S, AmountOf) + AmountOf[c]
         /\ Sum(S \cup {c}, TotalOf) = Sum(S, TotalOf) + Total(c)
<1>1. IsFiniteSet(S) /\ c \notin S
  BY AllFinite
<1>2. \A d \in S \cup {c} : AmountOf[d] \in Int /\ TotalOf[d] \in Int
  BY AmountTypes
<1>3. SumFunctionOnSet(AmountOf, S \cup {c})
         = SumFunctionOnSet(AmountOf, S) + AmountOf[c]
  BY <1>1, <1>2, SumOfOneMore
<1>4. SumFunctionOnSet(TotalOf, S \cup {c})
         = SumFunctionOnSet(TotalOf, S) + TotalOf[c]
  BY <1>1, <1>2, SumOfOneMore
<1>5. QED
  BY <1>3, <1>4, AmountTypes DEF Sum

LEMMA OneCallLess ==
  ASSUME NEW S \in SUBSET Calls, NEW c \in S
  PROVE  /\ Sum(S \ {c}, AmountOf) = Sum(S, AmountOf) - AmountOf[c]
         /\ Sum(S \ {c}, TotalOf) = Sum(S, TotalOf) - Total(c)
<1>1. IsFiniteSet(S) /\ c \in Calls
  BY AllFinite
<1>2. \A d \in S : AmountOf[d] \in Int /\ TotalOf[d] \in Int
  BY AmountTypes
<1>3. SumFunctionOnSet(AmountOf, S \ {c})
         = SumFunctionOnSet(AmountOf, S) - AmountOf[c]
  BY <1>1, <1>2, SumOfOneLess
<1>4. SumFunctionOnSet(TotalOf, S \ {c})
         = SumFunctionOnSet(TotalOf, S) - TotalOf[c]
  BY <1>1, <1>2, SumOfOneLess
<1>5. QED
  BY <1>1, <1>3, <1>4, AmountTypes DEF Sum

LEMMA SumTypes ==
  /\ \A S \in SUBSET Calls : Sum(S, AmountOf) \in Int /\ Sum(S, TotalOf) \in Int
  /\ Sum(Pockets, OpeningPocket) \in Int
  /\ TInv => Sum(Pockets, pocket) \in Int
<1>1. ASSUME NEW S \in SUBSET Calls
      PROVE  Sum(S, AmountOf) \in Int /\ Sum(S, TotalOf) \in Int
  <2>1. IsFiniteSet(S) /\ \A d \in S : AmountOf[d] \in Int /\ TotalOf[d] \in Int
    BY AllFinite, AmountTypes
  <2>2. QED
    BY <2>1, SumIsInt DEF Sum
<1>2. Sum(Pockets, OpeningPocket) \in Int
  <2>1. \A p \in Pockets : OpeningPocket[p] \in Int
    BY Constants
  <2>2. QED
    BY <2>1, AllFinite, SumIsInt DEF Sum
<1>3. ASSUME TInv PROVE Sum(Pockets, pocket) \in Int
  <2>1. \A p \in Pockets : pocket[p] \in Int
    BY <1>3 DEF TInv, WithdrawalTypeOK
  <2>2. QED
    BY <2>1, AllFinite, SumIsInt DEF Sum
<1>4. QED
  BY <1>1, <1>2, <1>3

\* The pocket of payouts changes by n, and the sum of the pockets too.
LEMMA PayoutPocketChanges ==
  ASSUME TInv, TInv', NEW n \in Int, pocket'["PAYOUT"] = pocket["PAYOUT"] + n,
         \A p \in Pockets \ {"PAYOUT"} : pocket'[p] = pocket[p]
  PROVE  Sum(Pockets, pocket)' = Sum(Pockets, pocket) + n
<1> DEFINE old == pocket
           new == pocket'
<1>1. /\ \A p \in Pockets : old[p] \in Int /\ new[p] \in Int
      /\ "PAYOUT" \in Pockets /\ new["PAYOUT"] = old["PAYOUT"] + n
      /\ \A p \in Pockets \ {"PAYOUT"} : new[p] = old[p]
  BY PayoutPocket DEF TInv, WithdrawalTypeOK
<1>2. Sum(Pockets, pocket)' = SumFunctionOnSet(new, Pockets)
  BY DEF Sum
<1>3. Sum(Pockets, pocket) = SumFunctionOnSet(old, Pockets)
  BY DEF Sum
<1>4. SumFunctionOnSet(old, Pockets) \in Int
  BY <1>3, SumTypes
<1> HIDE DEF old, new
<1>5. SumFunctionOnSet(new, Pockets)
         = SumFunctionOnSet(old, Pockets) - old["PAYOUT"] + new["PAYOUT"]
  BY <1>1, AllFinite, SumOfOneChange
<1>6. QED
  BY <1>1, <1>2, <1>3, <1>4, <1>5

\* A move from one pocket to another leaves their sum.
LEMMA PocketsMoved ==
  ASSUME TInv, TInv', NEW from \in Pockets, NEW to \in Pockets, from # to,
         NEW n \in Int,
         pocket'[from] = pocket[from] - n, pocket'[to] = pocket[to] + n,
         \A p \in Pockets \ {from, to} : pocket'[p] = pocket[p]
  PROVE  Sum(Pockets, pocket)' = Sum(Pockets, pocket)
<1> DEFINE old == pocket
           new == pocket'
           mid == [p \in Pockets |-> IF p = from THEN old[p] - n ELSE old[p]]
<1>1. /\ \A p \in Pockets : old[p] \in Int /\ new[p] \in Int
      /\ new[from] = old[from] - n /\ new[to] = old[to] + n
      /\ \A p \in Pockets \ {from, to} : new[p] = old[p]
  BY DEF TInv, WithdrawalTypeOK
<1>2. Sum(Pockets, pocket)' = SumFunctionOnSet(new, Pockets)
  BY DEF Sum
<1>3. Sum(Pockets, pocket) = SumFunctionOnSet(old, Pockets)
  BY DEF Sum
<1>4. SumFunctionOnSet(old, Pockets) \in Int
  BY <1>3, SumTypes
<1> HIDE DEF old, new
<1>5. /\ \A p \in Pockets : mid[p] \in Int
      /\ mid[from] = old[from] - n
      /\ \A p \in Pockets \ {from} : mid[p] = old[p]
      /\ \A p \in Pockets \ {to} : new[p] = mid[p]
  BY <1>1
<1> HIDE DEF mid
<1>6. SumFunctionOnSet(mid, Pockets)
         = SumFunctionOnSet(old, Pockets) - old[from] + mid[from]
  BY <1>1, <1>5, AllFinite, SumOfOneChange
<1>7. SumFunctionOnSet(new, Pockets)
         = SumFunctionOnSet(mid, Pockets) - mid[to] + new[to]
  BY <1>1, <1>5, AllFinite, SumOfOneChange
<1>8. old[from] \in Int /\ old[to] \in Int /\ mid[to] = old[to]
  BY <1>1, <1>5
<1>9. QED
  BY <1>1, <1>2, <1>3, <1>4, <1>5, <1>6, <1>7, <1>8

\* A withdrawal is not a move that is counted.
LEMMA WithdrawalNotCounted ==
  ASSUME NEW c \in Calls, call[c].to = "WITHDRAW"
  PROVE  ~CountedFor(c, "PAYOUT")
<1> DEFINE r == <<call[c].from, call[c].to>>
<1>1. /\ r # <<"PAYIN", "PAYOUT">> /\ r # <<"PAYOUT", "PAYIN">>
      /\ r # <<"PAYIN", "MAIN">>
  OBVIOUS
<1> HIDE DEF r
<1>2. (CASE r = <<"PAYIN", "PAYOUT">> -> "PAYOUT" = "PAYOUT"
         [] r \in {<<"PAYOUT", "PAYIN">>, <<"PAYIN", "MAIN">>}
               -> "PAYOUT" = "PAYIN"
         [] OTHER -> FALSE) = FALSE
  BY <1>1
<1>3. QED
  BY <1>2 DEF CountedFor, r

\* What a step of one call does to the calls that moved an amount.
LEMMA MovedSame ==
  ASSUME TInv, NEW c \in Calls, Becomes(c, call'[c]), call[c].pc # "done",
         \/ call'[c].pc # "done" \/ call'[c].answer # "success"
         \/ call'[c].to = "WITHDRAW"
  PROVE  Moved' = Moved
<1>1. \A d \in Calls \ {c} : (d \in Moved') <=> (d \in Moved)
  BY DEF Becomes, Moved, CountedFor
<1>2. c \notin Moved
  BY DEF Moved
<1>3. c \notin Moved'
  <2>1. CASE call'[c].to = "WITHDRAW"
    <3>1. ~CountedFor(c, "PAYOUT")'
      BY <2>1, WithdrawalNotCounted DEF CountedFor
    <3>2. QED
      BY <3>1 DEF Moved
  <2>2. CASE call'[c].pc # "done" \/ call'[c].answer # "success"
    BY <2>2 DEF Moved
  <2>3. QED
    BY <2>1, <2>2
<1>4. Moved \subseteq Calls /\ Moved' \subseteq Calls
  BY DEF Moved
<1>5. QED
  BY <1>1, <1>2, <1>3, <1>4

\* The rows of the other calls stay debited or not.
LEMMA DebitedOthers ==
  ASSUME NEW c \in Calls, \A d \in Calls \ {c} : row'[d] = row[d]
  PROVE  /\ row'[c].status \in {"PENDING", "SUCCESS"}
               => Debited' = Debited \cup {c}
         /\ row'[c].status \notin {"PENDING", "SUCCESS"}
               => Debited' = Debited \ {c}
  BY DEF Debited

\* The books before and after a step.
LEMMA BooksFlat ==
  /\ BooksBalance <=>
       /\ Sum(Pockets, pocket) = Sum(Pockets, OpeningPocket)
             - Sum(takenOut, AmountOf) - Sum(Debited, TotalOf)
       /\ counted["PAYOUT"] = Sum(Debited \cup Moved, AmountOf)
  /\ BooksBalance' <=>
       /\ Sum(Pockets, pocket)' = Sum(Pockets, OpeningPocket)
             - Sum(takenOut', AmountOf) - Sum(Debited', TotalOf)
       /\ counted'["PAYOUT"] = Sum(Debited' \cup Moved', AmountOf)
  BY DEF BooksBalance, TotalOf, Sum

LEMMA BooksKept ==
  ASSUME BooksBalance, UNCHANGED <<pocket, counted, takenOut>>,
         Debited' = Debited, Moved' = Moved
  PROVE  BooksBalance'
<1>1. Sum(Pockets, pocket)' = Sum(Pockets, pocket)
  BY DEF Sum
<1>2. QED
  BY <1>1, BooksFlat

LEMMA OthersBooked ==
  ASSUME BooksInv, NEW c \in Calls, Becomes(c, call'[c]), Booked(c)',
         \A d \in Calls \ {c} : /\ row'[d] = row[d]
                                /\ d \in takenOut' <=> d \in takenOut
  PROVE  \A d \in Calls : Booked(d)'
  BY DEF BooksInv, Booked, Becomes

LEMMA InitBooks == WithdrawalInit => BooksInv
<1> SUFFICES ASSUME WithdrawalInit PROVE BooksInv
  OBVIOUS
<1>1. \A c \in Calls : /\ call[c].pc = "idle" /\ call[c].to = "WITHDRAW"
                       /\ row[c].status = "NONE"
  BY DEF WithdrawalInit, NoCall, NoWithdrawal
<1>2. pocket = OpeningPocket /\ takenOut = {} /\ counted["PAYOUT"] = 0
  BY DEF WithdrawalInit
<1>3. Debited = {} /\ Moved = {}
  BY <1>1 DEF Debited, Moved
<1>4. \A f : Sum({}, f) = 0
  BY SumOfNothing DEF Sum
<1>5. BooksBalance
  <2>1. Sum(Debited \cup Moved, AmountOf) = 0
    <3>1. Debited \cup Moved = {}
      BY <1>3
    <3>2. QED
      BY <3>1, <1>4
  <2>2. Sum(takenOut, AmountOf) = 0 /\ Sum(Debited, TotalOf) = 0
    BY <1>2, <1>3, <1>4
  <2>3. Sum(Pockets, OpeningPocket) \in Int
    BY SumTypes
  <2>4. QED
    BY <1>2, <2>1, <2>2, <2>3, BooksFlat
<1>6. QED
  BY <1>1, <1>2, <1>5 DEF BooksInv, Booked

\* Steps that write no pocket and no row.
LEMMA QuietBooks ==
  ASSUME PInv, PayoutInv, BooksInv, NEW c \in Calls, Quiet(c)
  PROVE  BooksInv'
<1>1. TInv /\ Booked(c) /\ Stands(c) /\ Silent /\ Becomes(c, call'[c])
  BY DEF PInv, BooksInv, PayoutInv, Quiet
<1>2. Booked(c)'
  BY <1>1 DEF Quiet, Booked, Stands, Keeps, Silent
<1>3. \A d \in Calls : Booked(d)'
  BY <1>1, <1>2, OthersBooked DEF Silent
<1>4. Debited' = Debited
  BY <1>1 DEF Silent, Debited
<1>5. Moved' = Moved
  BY <1>1, MovedSame DEF Quiet, Booked, Keeps
<1>6. QED
  BY <1>1, <1>3, <1>4, <1>5, BooksKept DEF BooksInv, Silent

\* From pocket to pocket.
LEMMA MoveBooks ==
  ASSUME PInv, TInv', PayoutInv, BooksInv, NEW c \in Calls, Move(c)
  PROVE  BooksInv'
<1>1. TInv /\ PocketsInv /\ BooksBalance /\ Booked(c) /\ Stands(c)
  BY DEF PInv, BooksInv, PayoutInv
<1>2. /\ call[c].pc = "move" /\ call'[c].pc = "done"
      /\ call'[c].answer = "success" /\ Keeps(call'[c], call[c])
      /\ Becomes(c, call'[c])
      /\ UNCHANGED <<row, takenOut, payout, deaths, lost, stranded>>
      /\ counted["PAYOUT"] \in Int
      /\ counted'["PAYOUT"] = counted["PAYOUT"]
               + IF CountedFor(c, "PAYOUT") THEN AmountOf[c] ELSE 0
  BY <1>1, Moving DEF TInv, WithdrawalTypeOK
<1>3. row[c].status = "NONE"
  BY <1>1, <1>2 DEF Stands
<1>4. \A d \in Calls : Booked(d)'
  <2>1. Booked(c)'
    BY <1>1, <1>2, <1>3 DEF Booked, Keeps
  <2>2. QED
    BY <1>2, <2>1, OthersBooked
<1>5. Sum(Pockets, pocket)' = Sum(Pockets, pocket)
  BY <1>1, Moving, PocketsMoved, AmountTypes
<1>6. Debited' = Debited /\ c \notin Debited /\ Debited \subseteq Calls
  BY <1>2, <1>3 DEF Debited
<1>7. c \notin Moved /\ Moved \subseteq Calls
  BY <1>2 DEF Moved
<1>8. Moved' = IF CountedFor(c, "PAYOUT") THEN Moved \cup {c} ELSE Moved
  <2>1. CountedFor(c, "PAYOUT")' <=> CountedFor(c, "PAYOUT")
    BY <1>2 DEF CountedFor, Keeps
  <2>2. c \in Moved' <=> CountedFor(c, "PAYOUT")
    BY <1>2, <2>1 DEF Moved
  <2>3. \A d \in Calls \ {c} : d \in Moved' <=> d \in Moved
    BY <1>2 DEF Becomes, Moved, CountedFor
  <2>4. Moved' \subseteq Calls
    BY DEF Moved
  <2>5. QED
    BY <1>7, <2>2, <2>3, <2>4
<1>9. counted'["PAYOUT"] = Sum(Debited' \cup Moved', AmountOf)
  <2> DEFINE S == Debited \cup Moved
  <2>1. counted["PAYOUT"] = Sum(S, AmountOf)
    BY <1>1, BooksFlat
  <2>2. CASE CountedFor(c, "PAYOUT")
    <3>1. Debited' \cup Moved' = S \cup {c} /\ S \in SUBSET Calls /\ c \notin S
      BY <1>6, <1>7, <1>8, <2>2
    <3> HIDE DEF S
    <3>2. Sum(S \cup {c}, AmountOf) = Sum(S, AmountOf) + AmountOf[c]
      BY <3>1, OneCallMore
    <3>3. QED
      BY <1>2, <2>1, <2>2, <3>1, <3>2
  <2>3. CASE ~CountedFor(c, "PAYOUT")
    <3>1. Debited' \cup Moved' = S
      BY <1>6, <1>8, <2>3
    <3> HIDE DEF S
    <3>2. counted'["PAYOUT"] = counted["PAYOUT"]
      BY <1>2, <2>3
    <3>3. QED
      BY <2>1, <3>1, <3>2
  <2>4. QED
    BY <2>2, <2>3
<1>10. QED
  BY <1>1, <1>2, <1>4, <1>5, <1>6, <1>9, BooksFlat DEF BooksInv

\* From the pocket of payouts to the withdraw pipeline.
LEMMA TakeOutBooks ==
  ASSUME PInv, TInv', PayoutInv, BooksInv, NEW c \in Calls, TakeOut(c)
  PROVE  BooksInv'
<1>1. TInv /\ PocketsInv /\ BooksBalance /\ Booked(c) /\ Stands(c)
  BY DEF PInv, BooksInv, PayoutInv
<1>2. /\ call[c].pc = "take" /\ call'[c].pc = "read"
      /\ Keeps(call'[c], call[c]) /\ Becomes(c, call'[c])
      /\ takenOut' = takenOut \cup {c} /\ takenOut \in SUBSET Calls
      /\ pocket'["PAYOUT"] = pocket["PAYOUT"] - AmountOf[c]
      /\ \A p \in Pockets \ {"PAYOUT"} : pocket'[p] = pocket[p]
      /\ UNCHANGED <<counted, row>>
  BY <1>1, TakingOut DEF TInv, WithdrawalTypeOK
<1>3. c \notin takenOut
  BY <1>1, <1>2 DEF Booked
<1>4. \A d \in Calls : Booked(d)'
  <2>1. Booked(c)'
    BY <1>1, <1>2 DEF Booked, Keeps
  <2>2. QED
    BY <1>2, <2>1, OthersBooked
<1>5. Sum(Pockets, pocket)' = Sum(Pockets, pocket) - AmountOf[c]
  <2>1. pocket["PAYOUT"] \in Int /\ Sum(Pockets, pocket) \in Int
    BY <1>1, CallTypes, PayoutPocket, SumTypes
  <2>2. AmountOf[c] \in Int /\ -AmountOf[c] \in Int
    BY AmountTypes
  <2>3. pocket'["PAYOUT"] = pocket["PAYOUT"] + (-AmountOf[c])
    BY <1>2, <2>1, <2>2
  <2>4. Sum(Pockets, pocket)' = Sum(Pockets, pocket) + (-AmountOf[c])
    BY <1>1, <1>2, <2>2, <2>3, PayoutPocketChanges
  <2>5. QED
    BY <2>1, <2>2, <2>4
<1>6. Sum(takenOut', AmountOf) = Sum(takenOut, AmountOf) + AmountOf[c]
  BY <1>2, <1>3, OneCallMore
<1>7. Debited' = Debited /\ Debited \in SUBSET Calls
  BY <1>2 DEF Debited
<1>8. Moved' = Moved
  BY <1>1, <1>2, MovedSame
<1>9. /\ Sum(takenOut, AmountOf) \in Int /\ Sum(Debited, TotalOf) \in Int
      /\ Sum(Pockets, OpeningPocket) \in Int /\ AmountOf[c] \in Int
  BY <1>2, <1>7, SumTypes, AmountTypes
<1>10. Sum(Pockets, pocket)' = Sum(Pockets, OpeningPocket)
             - Sum(takenOut', AmountOf) - Sum(Debited', TotalOf)
  BY <1>1, <1>5, <1>6, <1>7, <1>9, BooksFlat
<1>11. counted'["PAYOUT"] = Sum(Debited' \cup Moved', AmountOf)
  BY <1>1, <1>2, <1>7, <1>8, BooksFlat
<1>12. QED
  BY <1>4, <1>10, <1>11, BooksFlat DEF BooksInv

\* The debit, with the row.
LEMMA DebitBooks ==
  ASSUME PInv, TInv', PayoutInv, BooksInv, NEW c \in Calls, Debit(c)
  PROVE  BooksInv'
<1>1. TInv /\ PocketsInv /\ BooksBalance /\ Booked(c) /\ Stands(c)
  BY DEF PInv, BooksInv, PayoutInv
<1>2. /\ call[c].pc = "debit" /\ call'[c].pc = "pay"
      /\ Keeps(call'[c], call[c]) /\ Becomes(c, call'[c])
      /\ row'[c].status = "PENDING" /\ \A d \in Calls \ {c} : row'[d] = row[d]
      /\ pocket'["PAYOUT"] = pocket["PAYOUT"] - Total(c)
      /\ \A p \in Pockets \ {"PAYOUT"} : pocket'[p] = pocket[p]
      /\ counted'["PAYOUT"] = counted["PAYOUT"] + AmountOf[c]
      /\ takenOut' = takenOut /\ takenOut \in SUBSET Calls
  BY <1>1, Debiting DEF TInv, WithdrawalTypeOK
<1>3. row[c].status = "NONE"
  BY <1>1, <1>2 DEF Stands
<1>4. \A d \in Calls : Booked(d)'
  <2>1. Booked(c)'
    BY <1>1, <1>2 DEF Booked, Keeps
  <2>2. QED
    BY <1>2, <2>1, OthersBooked
<1>5. Sum(Pockets, pocket)' = Sum(Pockets, pocket) - Total(c)
  <2>1. pocket["PAYOUT"] \in Int /\ Sum(Pockets, pocket) \in Int
    BY <1>1, CallTypes, PayoutPocket, SumTypes
  <2>2. Total(c) \in Int /\ -Total(c) \in Int
    BY Constants
  <2>3. pocket'["PAYOUT"] = pocket["PAYOUT"] + (-Total(c))
    BY <1>2, <2>1, <2>2
  <2>4. Sum(Pockets, pocket)' = Sum(Pockets, pocket) + (-Total(c))
    BY <1>1, <1>2, <2>2, <2>3, PayoutPocketChanges
  <2>5. QED
    BY <2>1, <2>2, <2>4
<1>6. /\ Debited' = Debited \cup {c} /\ Debited \in SUBSET Calls
      /\ c \notin Debited
  BY <1>2, <1>3, DebitedOthers DEF Debited
<1>7. Sum(Debited', TotalOf) = Sum(Debited, TotalOf) + Total(c)
  BY <1>6, OneCallMore
<1>8. Moved' = Moved /\ c \notin Moved /\ Moved \in SUBSET Calls
  BY <1>1, <1>2, MovedSame DEF Moved
<1>9. counted'["PAYOUT"] = Sum(Debited' \cup Moved', AmountOf)
  <2> DEFINE S == Debited \cup Moved
  <2>1. S \in SUBSET Calls /\ c \notin S /\ Debited' \cup Moved' = S \cup {c}
    BY <1>6, <1>8
  <2>2. counted["PAYOUT"] = Sum(S, AmountOf)
    BY <1>1, BooksFlat
  <2> HIDE DEF S
  <2>3. Sum(S \cup {c}, AmountOf) = Sum(S, AmountOf) + AmountOf[c]
    BY <2>1, OneCallMore
  <2>4. QED
    BY <1>2, <2>1, <2>2, <2>3
<1>10. /\ Sum(takenOut, AmountOf) \in Int /\ Sum(Debited, TotalOf) \in Int
       /\ Sum(Pockets, OpeningPocket) \in Int /\ Total(c) \in Int
  BY <1>2, <1>6, SumTypes, Constants
<1>11. Sum(Pockets, pocket)' = Sum(Pockets, OpeningPocket)
             - Sum(takenOut', AmountOf) - Sum(Debited', TotalOf)
  BY <1>1, <1>2, <1>5, <1>7, <1>10, BooksFlat
<1>12. QED
  BY <1>4, <1>9, <1>11, BooksFlat DEF BooksInv

\* The revert, with the row.
LEMMA RevertBooks ==
  ASSUME PInv, TInv', PayoutInv, BooksInv, NEW c \in Calls, Revert(c)
  PROVE  BooksInv'
<1>1. TInv /\ PocketsInv /\ BooksBalance /\ Booked(c) /\ Stands(c)
  BY DEF PInv, BooksInv, PayoutInv
<1>2. /\ call[c].pc = "revert" /\ call'[c].pc = "done"
      /\ Keeps(call'[c], call[c]) /\ Becomes(c, call'[c])
      /\ row'[c].status = "FAILED" /\ \A d \in Calls \ {c} : row'[d] = row[d]
      /\ pocket'["PAYOUT"] = pocket["PAYOUT"] + Total(c)
      /\ \A p \in Pockets \ {"PAYOUT"} : pocket'[p] = pocket[p]
      /\ counted'["PAYOUT"] = counted["PAYOUT"] - AmountOf[c]
      /\ takenOut' = takenOut /\ takenOut \in SUBSET Calls
  BY <1>1, Reverting DEF TInv, WithdrawalTypeOK
<1>3. row[c].status = "PENDING" /\ call'[c].to = "WITHDRAW"
  BY <1>1, <1>2 DEF Stands, Booked, Keeps
<1>4. \A d \in Calls : Booked(d)'
  <2>1. Booked(c)'
    BY <1>1, <1>2, <1>3 DEF Booked
  <2>2. QED
    BY <1>2, <2>1, OthersBooked
<1>5. Sum(Pockets, pocket)' = Sum(Pockets, pocket) + Total(c)
  BY <1>1, <1>2, Constants, PayoutPocketChanges
<1>6. /\ Debited' = Debited \ {c} /\ Debited \in SUBSET Calls
      /\ c \in Debited
  BY <1>2, <1>3, DebitedOthers DEF Debited
<1>7. Sum(Debited', TotalOf) = Sum(Debited, TotalOf) - Total(c)
  BY <1>6, OneCallLess
<1>8. Moved' = Moved /\ c \notin Moved /\ Moved \in SUBSET Calls
  BY <1>1, <1>2, <1>3, MovedSame DEF Moved
<1>9. counted'["PAYOUT"] = Sum(Debited' \cup Moved', AmountOf)
  <2> DEFINE S == Debited \cup Moved
  <2>1. S \in SUBSET Calls /\ c \in S /\ Debited' \cup Moved' = S \ {c}
    BY <1>6, <1>8
  <2>2. counted["PAYOUT"] = Sum(S, AmountOf)
    BY <1>1, BooksFlat
  <2> HIDE DEF S
  <2>3. Sum(S \ {c}, AmountOf) = Sum(S, AmountOf) - AmountOf[c]
    BY <2>1, OneCallLess
  <2>4. QED
    BY <1>2, <2>1, <2>2, <2>3
<1>10. /\ Sum(takenOut, AmountOf) \in Int /\ Sum(Debited, TotalOf) \in Int
       /\ Sum(Pockets, OpeningPocket) \in Int /\ Total(c) \in Int
  BY <1>2, <1>6, SumTypes, Constants
<1>11. Sum(Pockets, pocket)' = Sum(Pockets, OpeningPocket)
             - Sum(takenOut', AmountOf) - Sum(Debited', TotalOf)
  BY <1>1, <1>2, <1>5, <1>7, <1>10, BooksFlat
<1>12. QED
  BY <1>4, <1>9, <1>11, BooksFlat DEF BooksInv

LEMMA NextBooks ==
  PInv /\ TInv' /\ PayoutInv /\ BooksInv /\ [WithdrawalNext]_wvars => BooksInv'
<1> SUFFICES ASSUME PInv, TInv', PayoutInv, BooksInv, [WithdrawalNext]_wvars
             PROVE  BooksInv'
  OBVIOUS
<1>0. TInv /\ BooksBalance /\ \A c \in Calls : Booked(c) /\ Stands(c)
  BY DEF PInv, PayoutInv, BooksInv
<1>1. ASSUME NEW c \in Calls, InitiatePayout(c) PROVE BooksInv'
  <2>1. /\ call[c].pc = "pay" /\ call'[c].pc \in {"done", "revert"}
        /\ Becomes(c, call'[c]) /\ Keeps(call'[c], call[c])
        /\ UNCHANGED <<pocket, counted, row, takenOut>>
    BY <1>0, <1>1, Paying
  <2>2. Booked(c)' /\ call'[c].to = "WITHDRAW"
    BY <1>0, <2>1 DEF Booked, Keeps
  <2>3. Moved' = Moved
    BY <1>0, <2>1, <2>2, MovedSame
  <2>4. Debited' = Debited
    BY <2>1 DEF Debited
  <2>5. QED
    BY <1>0, <2>1, <2>2, <2>3, <2>4, OthersBooked, BooksKept DEF BooksInv
<1>2. ASSUME NEW c \in Calls, RevertFails(c) PROVE BooksInv'
  <2>1. /\ call[c].pc = "revert" /\ call'[c].pc = "done"
        /\ Becomes(c, call'[c]) /\ Keeps(call'[c], call[c])
        /\ UNCHANGED <<pocket, counted, row, takenOut>>
    BY <1>0, <1>2, RevertFailing
  <2>2. Booked(c)' /\ call'[c].to = "WITHDRAW"
    BY <1>0, <2>1 DEF Booked, Keeps
  <2>3. Moved' = Moved
    BY <1>0, <2>1, <2>2, MovedSame
  <2>4. Debited' = Debited
    BY <2>1 DEF Debited
  <2>5. QED
    BY <1>0, <2>1, <2>2, <2>3, <2>4, OthersBooked, BooksKept DEF BooksInv
<1>3. CASE \/ \E c \in Calls : ProviderPays(c) \/ PayoutWebhook(c)
           \/ UNCHANGED wvars
  <2>1. UNCHANGED <<pocket, counted, call, row, takenOut>>
    BY <1>0, <1>3, ProviderPaying, WebhookWriting DEF wvars, Stands
  <2>2. Debited' = Debited /\ Moved' = Moved
    BY <2>1 DEF Debited, Moved, CountedFor
  <2>3. \A c \in Calls : Booked(c)'
    BY <1>0, <2>1 DEF Booked
  <2>4. QED
    BY <1>0, <2>1, <2>2, <2>3, BooksKept DEF BooksInv
<1>4. CASE Die
  <2>1. /\ UNCHANGED <<pocket, counted, row, takenOut>>
        /\ \A c \in Calls : \/ call'[c] = call[c] /\ ~InProgress(c)
                            \/ /\ call'[c].pc = "dead" /\ InProgress(c)
                               /\ Keeps(call'[c], call[c])
    BY <1>0, <1>4, Dying
  <2>2. \A c \in Calls : Booked(c)'
    BY <1>0, <2>1 DEF Booked, Keeps
  <2>3. Debited' = Debited
    BY <2>1 DEF Debited
  <2>4. \A c \in Calls : c \in Moved' <=> c \in Moved
    BY <2>1 DEF Moved, CountedFor, InProgress
  <2>5. Moved' = Moved
    <3>1. Moved' \subseteq Calls /\ Moved \subseteq Calls
      BY DEF Moved
    <3>2. QED
      BY <2>4, <3>1
  <2>6. QED
    BY <1>0, <2>1, <2>2, <2>3, <2>5, BooksKept DEF BooksInv
<1>5. QED
  BY <1>0, <1>1, <1>2, <1>3, <1>4, NextCases, QuietBooks, MoveBooks,
     TakeOutBooks, DebitBooks, RevertBooks

LEMMA AlwaysBooksInv == WithdrawalSpec => []BooksInv
<1>1. WithdrawalInit => BooksInv
  BY InitBooks
<1>2. PInv /\ PInv' /\ PayoutInv /\ BooksInv /\ [WithdrawalNext]_wvars
         => BooksInv'
  BY NextBooks DEF PInv
<1>3. QED
  BY <1>1, <1>2, AlwaysPInv, AlwaysPayoutInv, PTL DEF WithdrawalSpec

\* Whatever interleaves, fails or dies, the pockets hold the opening total
\* less what the rows say was taken out, and payout_amount counts what left
\* net of fees (transferInternal, transferInternalAdvanced, processWithdrawal).
THEOREM BooksAlwaysBalance == WithdrawalSpec => []BooksBalance
<1>1. BooksInv => BooksBalance
  BY DEF BooksInv
<1>2. QED
  BY <1>1, AlwaysBooksInv, PTL

-----------------------------------------------------------------------------
(***************************************************************************)
(* The runs of the queue                                                   *)
(***************************************************************************)

\* Where a run stands, and what it holds there.
RunPlace(r) ==
    /\ run[r].pc = "idle" => run[r].todo = {} /\ run[r].at = NoItem
    /\ run[r].pc = "next" => run[r].todo # {} /\ run[r].at = NoItem
    /\ run[r].pc \notin {"idle", "next"} => run[r].at \in Items
    /\ run[r].at \notin run[r].todo
    /\ run[r].pc = "withdraw" => run[r].try \in 1..tries[run[r].at]

QueueShape ==
    /\ item \in [Items -> Item]
    /\ run \in [Runs -> Run]
    /\ tries \in [Items -> 0..MaxTries]
    /\ \A r \in Runs : RunPlace(r)

\* A withdrawal in progress is one that a run is waiting for.
Awaited(c) == \E r \in Runs : run[r].pc = "withdraw" /\ CallOf(r) = c

PaidFor(i, n) == payout[<<i, n>>] # "none"

\* What holds of an item that no two runs had and whose outcome was stored:
\* one run has it, it is marked before the wallet is asked, and once the
\* provider has a payout of it, it does not wait again.
Served(i) ==
    /\ \A r, q \in Runs : Holds(r, i) /\ Holds(q, i) => r = q
    /\ \A r \in Runs :
          run[r].at = i /\ run[r].pc \in {"funds", "withdraw"}
             => item[i].status \notin {"NONE", "PENDING_FUNDS"}
    /\ \A n \in 1..MaxTries :
          PaidFor(i, n) =>
             \/ \E r \in Runs : /\ run[r].pc = "withdraw" /\ run[r].at = i
                                /\ run[r].try = n
             \/ /\ \A r \in Runs : ~Holds(r, i)
                /\ item[i].status \notin {"NONE", "PENDING_FUNDS"}
    /\ \A n, m \in 1..MaxTries : PaidFor(i, n) /\ PaidFor(i, m) => n = m

QueueInv ==
    /\ \A c \in Calls : InProgress(c) => Awaited(c)
    /\ \A i \in Items \ (contended \cup unmarked) : Served(i)

LEMMA QueueConstants ==
  /\ NoItem \notin Items /\ Items \subseteq Nat
  /\ \A i \in Items, n \in 1..MaxTries : <<i, n>> \in Calls
  /\ \A c \in Calls : \E i \in Items, n \in 1..MaxTries : c = <<i, n>>
  /\ MaxTries \in Nat
<1>1. Items \subseteq Nat /\ MaxTries \in Nat /\ Calls = Items \X (1..MaxTries)
  BY QueueAssumption
<1>2. NoItem \notin Nat
  BY DEF NoItem
<1>3. \A i \in Items, n \in 1..MaxTries : <<i, n>> \in Calls
  BY <1>1
<1>4. \A c \in Calls : \E i \in Items, n \in 1..MaxTries : c = <<i, n>>
  <2>1. \A c \in Calls : c[1] \in Items /\ c[2] \in 1..MaxTries
                          /\ c = <<c[1], c[2]>>
    BY <1>1
  <2>2. QED
    BY <2>1
<1>5. QED
  BY <1>1, <1>2, <1>3, <1>4

\* The run takes an item of its snapshot.
LEMMA LeastOfSome ==
  ASSUME NEW S, S \subseteq Nat, S # {}
  PROVE  Min(S) \in S
<1>1. PICK n \in S : TRUE
  OBVIOUS
<1> DEFINE T == S \cap 0..n
           f == [x \in T |-> -x]
<1>2. IsFiniteSet(T) /\ T # {} /\ T \subseteq Nat
  <2>1. IsFiniteSet(0..n)
    BY <1>1, FS_Interval
  <2>2. IsFiniteSet(T)
    BY <2>1, FS_Subset
  <2>3. n \in T
    BY <1>1
  <2>4. QED
    BY <2>2, <2>3
<1>3. \A x \in T : f[x] = -x /\ f[x] \in Int
  BY <1>2
<1> HIDE DEF f
<1>4. PICK x \in T : \A y \in T : f[y] <= f[x]
  BY <1>2, <1>3, GreatestExists
<1>5. \A y \in T : x <= y
  BY <1>2, <1>3, <1>4
<1>6. \A y \in S : x <= y
  BY <1>1, <1>2, <1>5
<1>7. QED
  BY <1>6 DEF Min

LEMMA InitShape == QueueInit => QueueShape
<1> SUFFICES ASSUME QueueInit PROVE QueueShape
  OBVIOUS
<1>1. item \in [Items -> Item]
  BY DEF QueueInit, Item
<1>2. NoRun \in Run
  BY DEF NoRun, Run
<1>3. run \in [Runs -> Run] /\ \A r \in Runs : RunPlace(r)
  BY <1>2, QueueConstants DEF QueueInit, NoRun, RunPlace
<1>4. tries \in [Items -> 0..MaxTries]
  BY QueueConstants DEF QueueInit
<1>5. QED
  BY <1>1, <1>3, <1>4 DEF QueueShape

\* A step of the run r, as QueueNext lists them.
RunMoves(r) == \/ TakeSnapshot(r) \/ BeginItem(r) \/ CheckFunds(r)
               \/ ResetItem(r) \/ MarkOutcome(r) \/ WriteFails(r)
               \/ CatchFailure(r) \/ CatchFails(r)

\* Where it gets: r alone is somewhere else.
RunBecomes(r, q) == q \in Run /\ run' = [run EXCEPT ![r] = q]

LEMMA NextItemIs ==
  ASSUME QueueShape, NEW r \in Runs, NextItem(r)
  PROVE  \E q : /\ RunBecomes(r, q)
                /\ q.pc = IF run[r].todo = {} THEN "idle" ELSE "next"
                /\ q.todo = run[r].todo /\ q.at = NoItem
<1>1. run \in [Runs -> Run] /\ run[r] \in Run
  BY DEF QueueShape
<1> DEFINE pc == IF run[r].todo = {} THEN "idle" ELSE "next"
           q == [run[r] EXCEPT !.pc = pc, !.at = NoItem, !.try = 0]
<1>2. run' = [run EXCEPT ![r] = q]
  BY <1>1 DEF NextItem
<1>3. /\ q \in Run /\ q.pc = pc /\ q.todo = run[r].todo /\ q.at = NoItem
  BY <1>1 DEF Run
<1>4. QED
  BY <1>2, <1>3 DEF RunBecomes

Marked(i, s) == /\ item' \in [Items -> Item]
                /\ item'[i].status = s
                /\ \A j \in Items \ {i} : item'[j] = item[j]

\* The run r takes the waiting items, ...
Snaps(r, q) ==
    /\ run[r].pc = "idle"
    /\ q.pc = "next" /\ q.at = NoItem
    /\ q.todo = {i \in Items : Waiting(i)} /\ q.todo # {}
    /\ contended' = contended \cup
                      {i \in Items : Waiting(i) /\ \E p \in Runs : Holds(p, i)}
    /\ item' = item /\ tries' = tries /\ unmarked' = unmarked

\* ... takes up one of them, or fails to mark it, ...
Picks(r, q) ==
    /\ run[r].pc = "next"
    /\ q.at \in run[r].todo /\ q.todo = run[r].todo \ {q.at}
    /\ \/ q.pc = "funds" /\ Marked(q.at, "PROCESSING")
       \/ q.pc = "catch" /\ item' = item
    /\ tries' = tries /\ unmarked' = unmarked /\ contended' = contended

\* ... goes on with it, ...
Pursues(r, q) ==
    /\ q.at = run[r].at /\ q.todo = run[r].todo
    /\ \/ /\ run[r].pc = "funds" /\ q.pc = "withdraw"
          /\ q.try = tries[run[r].at] + 1 /\ q.try <= MaxTries
          /\ tries' = [tries EXCEPT ![run[r].at] = @ + 1]
          /\ unmarked' = unmarked
       \/ /\ \/ run[r].pc = "funds" /\ q.pc = "reset"
             \/ run[r].pc = "reset" /\ q.pc = "catch"
          /\ tries' = tries /\ unmarked' = unmarked
       \/ /\ run[r].pc = "withdraw" /\ q.pc = "catch"
          /\ call[CallOf(r)].pc = "done"
          /\ tries' = tries /\ unmarked' = unmarked \cup {run[r].at}
    /\ item' = item /\ contended' = contended

\* ... or is done with it.
Leaves(r, q) ==
    /\ q.at = NoItem
    /\ q.todo \in {{}, run[r].todo}
    /\ q.pc = IF q.todo = {} THEN "idle" ELSE "next"
    /\ \/ /\ run[r].pc \in {"reset", "catch"}
          /\ Marked(run[r].at, "PENDING_FUNDS") \/ item' = item
       \/ /\ run[r].pc = "withdraw" /\ call[CallOf(r)].pc = "done"
          /\ \E s \in {"PROCESSED", "FAILED"} : Marked(run[r].at, s)
    /\ tries' = tries /\ unmarked' = unmarked /\ contended' = contended

LEMMA Marking ==
  ASSUME QueueShape, NEW i \in Items,
         NEW s \in {"PENDING_FUNDS", "PROCESSING", "PROCESSED", "FAILED"},
         \/ item' = [item EXCEPT ![i].status = s]
         \/ item' = [item EXCEPT ![i].status = s, ![i].attempts = @ + 1]
  PROVE  Marked(i, s)
<1>1. item \in [Items -> Item] /\ item[i] \in Item
  BY DEF QueueShape
<1>2. \A n \in Nat : [status |-> s, attempts |-> n] \in Item
  BY DEF Item
<1>3. CASE item' = [item EXCEPT ![i].status = s]
  BY <1>1, <1>3 DEF Item, Marked
<1>4. CASE item' = [item EXCEPT ![i].status = s, ![i].attempts = @ + 1]
  BY <1>1, <1>4 DEF Item, Marked
<1>5. QED
  BY <1>3, <1>4

LEMMA RunEffects ==
  ASSUME QueueShape, NEW r \in Runs, RunMoves(r)
  PROVE  \E q : /\ RunBecomes(r, q)
                /\ Snaps(r, q) \/ Picks(r, q) \/ Pursues(r, q) \/ Leaves(r, q)
<1>1. /\ run \in [Runs -> Run] /\ run[r] \in Run /\ RunPlace(r)
      /\ tries \in [Items -> 0..MaxTries]
      /\ run[r].pc \notin {"idle", "next"} => run[r].at \in Items
      /\ run[r].todo \subseteq Items
      /\ run[r].at \notin run[r].todo
  BY DEF QueueShape, RunPlace, Run
<1>2. CASE TakeSnapshot(r)
  <2> DEFINE todo == {i \in Items : Waiting(i)}
             q == [run[r] EXCEPT !.pc = "next", !.todo = todo]
  <2>1. run' = [run EXCEPT ![r] = q]
    BY <1>1, <1>2 DEF TakeSnapshot
  <2>2. todo \subseteq Items /\ todo # {}
    BY <1>2 DEF TakeSnapshot
  <2> HIDE DEF todo
  <2>3. q \in Run /\ q.pc = "next" /\ q.at = run[r].at /\ q.todo = todo
    BY <1>1, <2>2 DEF Run
  <2>4. run[r].at = NoItem
    BY <1>1, <1>2 DEF TakeSnapshot, RunPlace
  <2>5. Snaps(r, q)
    BY <1>2, <2>2, <2>3, <2>4 DEF TakeSnapshot, Snaps, todo
  <2>6. QED
    BY <2>1, <2>3, <2>5 DEF RunBecomes
<1>3. CASE run[r].pc = "next" /\ (BeginItem(r) \/ WriteFails(r))
  <2> DEFINE i == Min(run[r].todo)
  <2>1. i \in run[r].todo /\ i \in Items
    BY <1>1, <1>3, LeastOfSome, QueueConstants DEF RunPlace
  <2> HIDE DEF i
  <2>2. PICK pc \in {"funds", "catch"} :
           /\ run' = [run EXCEPT ![r].pc = pc, ![r].todo = @ \ {i},
                                 ![r].at = i]
           /\ \/ /\ pc = "funds"
                 /\ item' = [item EXCEPT ![i].status = "PROCESSING"]
              \/ pc = "catch" /\ item' = item
           /\ tries' = tries /\ unmarked' = unmarked
           /\ contended' = contended
    BY <1>3 DEF BeginItem, WriteFails, i
  <2> DEFINE q == [run[r] EXCEPT !.pc = pc, !.todo = @ \ {i}, !.at = i]
  <2>3. run' = [run EXCEPT ![r] = q]
    BY <1>1, <2>2
  <2>4. /\ q \in Run /\ q.pc = pc /\ q.at = i /\ q.todo = run[r].todo \ {i}
    BY <1>1, <2>1 DEF Run
  <2>5. pc = "funds" => Marked(i, "PROCESSING")
    BY <2>1, <2>2, Marking
  <2>6. Picks(r, q)
    BY <1>3, <2>1, <2>2, <2>4, <2>5 DEF Picks
  <2>7. QED
    BY <2>3, <2>4, <2>6 DEF RunBecomes
<1>4. CASE CheckFunds(r)
  <2>1. CASE FloatTooSmall(r)
    <3> DEFINE q == [run[r] EXCEPT !.pc = "reset"]
    <3>1. run' = [run EXCEPT ![r] = q]
      BY <1>1, <2>1 DEF FloatTooSmall
    <3>2. q \in Run /\ q.pc = "reset" /\ q.at = run[r].at
          /\ q.todo = run[r].todo
      BY <1>1 DEF Run
    <3>3. Pursues(r, q)
      BY <1>4, <2>1, <3>2 DEF CheckFunds, FloatTooSmall, Pursues
    <3>4. QED
      BY <3>1, <3>2, <3>3 DEF RunBecomes
  <2>2. CASE CallWithdrawal(r)
    <3> DEFINE n == tries[run[r].at] + 1
               q == [run[r] EXCEPT !.pc = "withdraw", !.try = n]
    <3>1. run[r].at \in Items /\ n \in Nat /\ n <= MaxTries
      BY <1>1, <1>4, <2>2, QueueConstants DEF CheckFunds, CallWithdrawal
    <3>2. run' = [run EXCEPT ![r] = q]
      BY <1>1, <2>2 DEF CallWithdrawal
    <3>3. tries' = [tries EXCEPT ![run[r].at] = @ + 1]
      BY <2>2 DEF CallWithdrawal
    <3> HIDE DEF n
    <3>4. q \in Run /\ q.pc = "withdraw" /\ q.at = run[r].at /\ q.try = n
          /\ q.todo = run[r].todo
      BY <1>1, <3>1 DEF Run
    <3>5. Pursues(r, q)
      BY <1>4, <3>1, <3>3, <3>4 DEF CheckFunds, Pursues, n
    <3>6. QED
      BY <3>2, <3>4, <3>5 DEF RunBecomes
  <2>3. QED
    BY <1>4, <2>1, <2>2 DEF CheckFunds
<1>5. CASE WriteFails(r) /\ run[r].pc # "next"
  <2> DEFINE q == [run[r] EXCEPT !.pc = "catch", !.todo = @ \ {run[r].at},
                                 !.at = run[r].at]
  <2>1. run' = [run EXCEPT ![r] = q]
    BY <1>1, <1>5 DEF WriteFails
  <2>2. run[r].todo \ {run[r].at} = run[r].todo
    BY <1>1
  <2>3. q \in Run /\ q.pc = "catch" /\ q.at = run[r].at
        /\ q.todo = run[r].todo
    BY <1>1, <2>2 DEF Run
  <2>4. Pursues(r, q)
    BY <1>5, <2>3 DEF WriteFails, Pursues
  <2>5. QED
    BY <2>1, <2>3, <2>4 DEF RunBecomes
<1>6. CASE ResetItem(r) \/ MarkOutcome(r) \/ CatchFailure(r)
  <2>1. PICK q : /\ RunBecomes(r, q)
                 /\ q.pc = IF run[r].todo = {} THEN "idle" ELSE "next"
                 /\ q.todo = run[r].todo /\ q.at = NoItem
    BY <1>6, NextItemIs DEF ResetItem, MarkOutcome, CatchFailure
  <2>2. run[r].at \in Items
    BY <1>1, <1>6 DEF ResetItem, MarkOutcome, CatchFailure
  <2>3. \/ /\ run[r].pc \in {"reset", "catch"}
           /\ Marked(run[r].at, "PENDING_FUNDS")
        \/ /\ run[r].pc = "withdraw" /\ call[CallOf(r)].pc = "done"
           /\ \E s \in {"PROCESSED", "FAILED"} : Marked(run[r].at, s)
    BY <1>6, <2>2, Marking DEF ResetItem, MarkOutcome, CatchFailure
  <2>4. tries' = tries /\ unmarked' = unmarked /\ contended' = contended
    BY <1>6 DEF ResetItem, MarkOutcome, CatchFailure
  <2>5. Leaves(r, q)
    BY <2>1, <2>3, <2>4 DEF Leaves
  <2>6. QED
    BY <2>1, <2>5
<1>7. CASE CatchFails(r)
  <2>1. RunBecomes(r, NoRun) /\ NoRun.pc = "idle" /\ NoRun.todo = {}
        /\ NoRun.at = NoItem
    BY <1>7 DEF CatchFails, RunBecomes, NoRun, Run
  <2>2. Leaves(r, NoRun)
    BY <1>7, <2>1 DEF CatchFails, Leaves
  <2>3. QED
    BY <2>1, <2>2
<1>8. QED
  BY <1>2, <1>3, <1>4, <1>5, <1>6, <1>7 DEF RunMoves, BeginItem

LEMMA QueueCases ==
  ASSUME [QueueNext]_allvars
  PROVE  \/ \E i \in Items : AddToQueue(i)
         \/ \E r \in Runs : RunMoves(r)
         \/ Withdrawing \/ QueueDies \/ UNCHANGED allvars
  BY DEF QueueNext, RunMoves

LEMMA StepShape ==
  ASSUME QueueShape, [QueueNext]_allvars
  PROVE  QueueShape'
<1>1. /\ item \in [Items -> Item] /\ run \in [Runs -> Run]
      /\ tries \in [Items -> 0..MaxTries] /\ \A r \in Runs : RunPlace(r)
      /\ MaxTries \in Nat
  BY QueueConstants DEF QueueShape
<1>2. ASSUME NEW i \in Items, AddToQueue(i) PROVE QueueShape'
  <2>1. Marked(i, "PENDING_FUNDS") /\ run' = run /\ tries' = tries
    BY <1>2, Marking DEF AddToQueue
  <2>2. QED
    BY <1>1, <2>1 DEF QueueShape, RunPlace, Marked
<1>3. ASSUME NEW r \in Runs, RunMoves(r) PROVE QueueShape'
  <2>1. PICK q : /\ RunBecomes(r, q)
                 /\ \/ Snaps(r, q) \/ Picks(r, q)
                    \/ Pursues(r, q) \/ Leaves(r, q)
    BY <1>3, RunEffects
  <2>2. /\ q \in Run /\ run' \in [Runs -> Run] /\ run'[r] = q
        /\ \A p \in Runs \ {r} : run'[p] = run[p]
    BY <1>1, <2>1 DEF RunBecomes
  <2>3. item' \in [Items -> Item]
    BY <1>1, <2>1 DEF Snaps, Picks, Pursues, Leaves, Marked
  <2>4. /\ tries' \in [Items -> 0..MaxTries]
        /\ \A i \in Items : tries[i] <= tries'[i]
    <3>1. CASE tries' = tries
      BY <1>1, <3>1
    <3>2. CASE tries' # tries
      <4>1. /\ run[r].at \in Items /\ tries[run[r].at] + 1 <= MaxTries
            /\ tries' = [tries EXCEPT ![run[r].at] = @ + 1]
        BY <1>1, <2>1, <3>2 DEF Snaps, Picks, Pursues, Leaves, RunPlace
      <4>2. QED
        BY <1>1, <4>1
    <3>3. QED
      BY <3>1, <3>2
  <2>5. ASSUME NEW p \in Runs \ {r} PROVE RunPlace(p)'
    <3>1. run[p].pc = "withdraw" => run[p].at \in Items
      BY <1>1 DEF RunPlace
    <3>2. \A n : run[p].pc = "withdraw" /\ n \in 1..tries[run[p].at]
                    => n \in 1..tries'[run[p].at]
      BY <1>1, <2>4, <3>1
    <3>3. QED
      BY <1>1, <2>2, <3>2 DEF RunPlace
  <2>6. RunPlace(r)'
    <3>1. RunPlace(r) /\ run[r].todo \subseteq Items /\ NoItem \notin Items
      BY <1>1, QueueConstants DEF Run
    <3>2. CASE Snaps(r, q) \/ Picks(r, q) \/ Leaves(r, q)
      BY <2>2, <3>1, <3>2 DEF Snaps, Picks, Leaves, RunPlace
    <3>3. CASE Pursues(r, q)
      <4>1. /\ q.pc \in {"withdraw", "reset", "catch"}
            /\ run[r].pc \notin {"idle", "next"}
            /\ q.at = run[r].at /\ q.todo = run[r].todo
        BY <3>3 DEF Pursues
      <4>2. run[r].at \in Items /\ run[r].at \notin run[r].todo
        BY <3>1, <4>1 DEF RunPlace
      <4>3. q.pc = "withdraw" => q.try \in 1..tries'[q.at]
        BY <1>1, <3>3, <4>1, <4>2 DEF Pursues
      <4>4. QED
        BY <2>2, <4>1, <4>2, <4>3 DEF RunPlace
    <3>4. QED
      BY <2>1, <3>2, <3>3
  <2>7. QED
    BY <2>2, <2>3, <2>4, <2>5, <2>6 DEF QueueShape
<1>4. CASE Withdrawing \/ UNCHANGED allvars
  BY <1>1, <1>4 DEF Withdrawing, allvars, qvars, QueueShape, RunPlace
<1>5. CASE QueueDies
  <2>1. NoRun \in Run
    BY DEF NoRun, Run
  <2>2. run' \in [Runs -> Run] /\ (\A r \in Runs : run'[r] = NoRun)
        /\ item' = item /\ tries' = tries
    BY <1>5, <2>1 DEF QueueDies
  <2>3. \A r \in Runs : RunPlace(r)'
    BY <2>2 DEF RunPlace, NoRun
  <2>4. QED
    BY <1>1, <2>2, <2>3 DEF QueueShape
<1>6. QED
  BY <1>2, <1>3, <1>4, <1>5, QueueCases

LEMMA AlwaysShape == QueueSpec => []QueueShape
<1>1. QED
  BY InitShape, StepShape, PTL DEF QueueSpec

\* What a step of the queue does to the wallet is a step of a withdrawal.
LEMMA QueueStepIsWithdrawalStep ==
  ASSUME QueueShape, [QueueNext]_allvars
  PROVE  [WithdrawalNext]_wvars
<1>1. ASSUME NEW r \in Runs, RunMoves(r) PROVE [WithdrawalNext]_wvars
  <2>1. CASE CheckFunds(r) /\ CallWithdrawal(r)
    <3>1. /\ run[r].at \in Items /\ tries[run[r].at] \in 0..MaxTries
          /\ tries[run[r].at] < MaxTries
      BY <2>1 DEF CheckFunds, CallWithdrawal, QueueShape, RunPlace
    <3>2. tries[run[r].at] + 1 \in 1..MaxTries
      BY <3>1, QueueConstants
    <3>3. <<run[r].at, tries[run[r].at] + 1>> \in Calls
      BY <3>1, <3>2, QueueConstants
    <3>4. QED
      BY <2>1, <3>3 DEF CallWithdrawal, WithdrawalNext
  <2>2. CASE ~(CheckFunds(r) /\ CallWithdrawal(r))
    BY <1>1, <2>2 DEF RunMoves, TakeSnapshot, BeginItem, CheckFunds,
       FloatTooSmall, ResetItem, MarkOutcome, WriteFails, CatchFailure,
       CatchFails
  <2>3. QED
    BY <2>1, <2>2
<1>2. CASE (\E i \in Items : AddToQueue(i)) \/ UNCHANGED allvars
  BY <1>2 DEF AddToQueue, allvars
<1>3. CASE Withdrawing
  BY <1>3 DEF Withdrawing, WithdrawalNext
<1>4. CASE QueueDies
  BY <1>4 DEF QueueDies, WithdrawalNext
<1>5. QED
  BY <1>1, <1>2, <1>3, <1>4, QueueCases

\* The queue implements the withdrawals it calls: it touches the wallet, the
\* rows and the provider only by steps of processWithdrawal, so that what is
\* proved of these above holds of every withdrawal the queue makes
\* (PendingWithdrawalQueueService.processWithdrawal).
THEOREM QueueImplementsWithdrawal == QueueSpec => WithdrawalSpec
<1>1. QueueInit => WithdrawalInit
  BY DEF QueueInit
<1>2. QED
  BY <1>1, AlwaysShape, QueueStepIsWithdrawalStep, PTL
     DEF QueueSpec, WithdrawalSpec

LEMMA InitQueueInv == QueueInit => QueueInv
<1> SUFFICES ASSUME QueueInit PROVE QueueInv
  OBVIOUS
<1>1. \A c \in Calls : ~InProgress(c) /\ payout[c] = "none"
  BY DEF QueueInit, WithdrawalInit, InProgress, NoCall
<1>2. \A i \in Items, n \in 1..MaxTries : ~PaidFor(i, n)
  BY <1>1, QueueConstants DEF PaidFor
<1>3. \A r \in Runs, i \in Items : ~Holds(r, i) /\ run[r].at # i
  BY QueueConstants DEF QueueInit, NoRun, Holds
<1>4. \A i \in Items : Served(i)
  BY <1>2, <1>3 DEF Served
<1>5. QED
  BY <1>1, <1>4 DEF QueueInv

\* A withdrawal that goes on was in progress, and concerns only its payout.
LEMMA OneWithdraws ==
  ASSUME TInv, Withdrawing
  PROVE  \E c \in Calls :
            /\ InProgress(c)
            /\ \A d \in Calls \ {c} : /\ call'[d] = call[d]
                                      /\ payout'[d] = payout[d]
            /\ payout[c] # "none" => payout'[c] # "none"
<1>1. PICK c \in Calls : ProcessWithdrawal(c) \/ TransactionFails(c)
  BY DEF Withdrawing
<1>2. InProgress(c)
  BY <1>1 DEF InProgress, ProcessWithdrawal, TransactionFails,
     ReadPayoutBalance, CheckProviderFunds, Debit, NoToken, InitiatePayout,
     Revert, RevertFails
<1>3. \A d \in Calls \ {c} : call'[d] = call[d]
  BY <1>1 DEF TInv, WithdrawalTypeOK, ProcessWithdrawal, TransactionFails,
     ReadPayoutBalance, CheckProviderFunds, Debit, NoToken, InitiatePayout,
     Revert, RevertFails, Goto, Answer, Refused, BalanceUnknown
<1>4. payout' = payout \/ payout' = [payout EXCEPT ![c] = "ACCEPTED"]
  BY <1>1 DEF ProcessWithdrawal, TransactionFails,
     ReadPayoutBalance, CheckProviderFunds, Debit, NoToken, InitiatePayout,
     Revert, RevertFails
<1>5. payout \in [Calls -> PayoutStatus]
  BY DEF TInv, WithdrawalTypeOK
<1>6. QED
  BY <1>2, <1>3, <1>4, <1>5

\* A step of a run pays nothing, and starts at most the withdrawal it then
\* waits for.
LEMMA RunStarts ==
  ASSUME TInv, QueueShape, NEW r \in Runs, RunMoves(r)
  PROVE  /\ payout' = payout
         /\ \A d \in Calls :
               \/ call'[d] = call[d]
               \/ run'[r].pc = "withdraw" /\ CallOf(r)' = d
<1>1. call \in [Calls -> Call] /\ run \in [Runs -> Run] /\ run[r] \in Run
  BY DEF TInv, WithdrawalTypeOK, QueueShape
<1>2. CASE CheckFunds(r) /\ CallWithdrawal(r)
  <2> DEFINE c == <<run[r].at, tries[run[r].at] + 1>>
  <2>1. payout' = payout /\ \A d \in Calls : d # c => call'[d] = call[d]
    BY <1>1, <1>2 DEF CallWithdrawal, Withdraw, Goto
  <2>2. /\ run'[r].pc = "withdraw" /\ run'[r].at = run[r].at
        /\ run'[r].try = tries[run[r].at] + 1
    BY <1>1, <1>2 DEF CallWithdrawal, Run
  <2>3. QED
    BY <2>1, <2>2 DEF CallOf
<1>3. CASE ~(CheckFunds(r) /\ CallWithdrawal(r))
  BY <1>3 DEF RunMoves, TakeSnapshot, BeginItem, CheckFunds, FloatTooSmall,
     ResetItem, MarkOutcome, WriteFails, CatchFailure, CatchFails, wvars
<1>4. QED
  BY <1>2, <1>3

\* What is in progress stays awaited.
LEMMA StepAwaited ==
  ASSUME TInv, QueueShape, QueueInv, [QueueNext]_allvars
  PROVE  \A c \in Calls : InProgress(c)' => Awaited(c)'
<1> SUFFICES ASSUME NEW c \in Calls, InProgress(c)' PROVE Awaited(c)'
  OBVIOUS
<1>1. ASSUME NEW r \in Runs, RunMoves(r) PROVE Awaited(c)'
  <2>1. CASE run'[r].pc = "withdraw" /\ CallOf(r)' = c
    BY <2>1 DEF Awaited
  <2>2. CASE call'[c] = call[c]
    <3>1. PICK p \in Runs : run[p].pc = "withdraw" /\ CallOf(p) = c
      BY <2>2 DEF QueueInv, InProgress, Awaited
    <3>2. PICK q : /\ RunBecomes(r, q)
                   /\ \/ Snaps(r, q) \/ Picks(r, q)
                      \/ Pursues(r, q) \/ Leaves(r, q)
      BY <1>1, RunEffects
    <3>3. p # r
      BY <2>2, <3>1, <3>2 DEF Snaps, Picks, Pursues, Leaves, InProgress
    <3>4. run'[p] = run[p]
      BY <3>2, <3>3 DEF RunBecomes, QueueShape
    <3>5. QED
      BY <3>1, <3>4 DEF Awaited, CallOf
  <2>3. QED
    BY <1>1, <2>1, <2>2, RunStarts
<1>2. CASE (\E i \in Items : AddToQueue(i)) \/ UNCHANGED allvars
  BY <1>2 DEF AddToQueue, allvars, wvars, qvars, QueueInv, InProgress,
              Awaited, CallOf
<1>3. CASE Withdrawing
  <2>1. InProgress(c)
    BY <1>3, OneWithdraws DEF InProgress
  <2>2. run' = run
    BY <1>3 DEF Withdrawing, qvars
  <2>3. QED
    BY <2>1, <2>2 DEF QueueInv, Awaited, CallOf
<1>4. CASE QueueDies
  <2>1. call' = [d \in Calls |-> IF InProgress(d)
                                 THEN [call[d] EXCEPT !.pc = "dead"]
                                 ELSE call[d]]
    BY <1>4 DEF QueueDies, Die
  <2>2. call[c] \in Call
    BY DEF TInv, WithdrawalTypeOK
  <2>3. QED
    BY <2>1, <2>2 DEF InProgress, Call
<1>5. QED
  BY <1>1, <1>2, <1>3, <1>4, QueueCases

\* Nobody who only holds an item has paid for it.
LEMMA UnpaidUnlessWithdrawn ==
  ASSUME NEW i \in Items, Served(i), NEW r \in Runs, Holds(r, i),
         run[r].pc # "withdraw"
  PROVE  \A n \in 1..MaxTries : ~PaidFor(i, n)
  BY DEF Served, Holds

LEMMA RunServes ==
  ASSUME TInv, QueueShape, NEW r \in Runs, RunMoves(r),
         NEW i \in Items, Served(i), i \notin contended', i \notin unmarked'
  PROVE  Served(i)'
<1>1. PICK q : /\ RunBecomes(r, q)
               /\ \/ Snaps(r, q) \/ Picks(r, q)
                  \/ Pursues(r, q) \/ Leaves(r, q)
  BY RunEffects
<1>2. /\ run'[r] = q /\ \A p \in Runs \ {r} : run'[p] = run[p]
      /\ RunPlace(r) /\ NoItem \notin Items
  BY <1>1, QueueConstants DEF RunBecomes, QueueShape
<1>3. /\ \A p \in Runs \ {r} : Holds(p, i)' <=> Holds(p, i)
      /\ Holds(r, i)' <=> i \in q.todo \/ q.at = i
  BY <1>2 DEF Holds
<1>4. \A n \in 1..MaxTries : PaidFor(i, n)' <=> PaidFor(i, n)
  BY RunStarts DEF PaidFor
<1>5. CASE Snaps(r, q)
  <2>1. ~Holds(r, i) /\ item' = item
    BY <1>2, <1>5 DEF Snaps, RunPlace, Holds
  <2>2. CASE Waiting(i)
    <3>1. \A p \in Runs : ~Holds(p, i)
      BY <1>5, <2>2 DEF Snaps
    <3>2. \A n \in 1..MaxTries : ~PaidFor(i, n)
      BY <2>2, <3>1 DEF Served, Holds, Waiting
    <3>3. \A p \in Runs : run'[p].at # i
      BY <1>2, <1>5, <3>1 DEF Snaps, Holds
    <3>4. QED
      BY <1>3, <1>4, <3>1, <3>2, <3>3 DEF Served
  <2>3. CASE ~Waiting(i)
    <3>1. \A p \in Runs : Holds(p, i)' <=> Holds(p, i)
      BY <1>2, <1>3, <1>5, <2>1, <2>3 DEF Snaps
    <3>2. \A p \in Runs : run'[p].at = i => p # r
      BY <1>2, <1>5 DEF Snaps
    <3>3. \A p \in Runs : run[p].at = i => p # r
      BY <2>1 DEF Holds
    <3>4. QED
      BY <1>2, <1>4, <2>1, <3>1, <3>2, <3>3 DEF Served
  <2>4. QED
    BY <2>2, <2>3
<1>6. CASE Picks(r, q)
  <2>1. Holds(r, i)' <=> Holds(r, i)
    BY <1>2, <1>3, <1>6 DEF Picks, RunPlace, Holds
  <2>2. CASE q.at = i
    <3>1. Holds(r, i) /\ run[r].pc = "next"
      BY <1>6, <2>2 DEF Picks, Holds
    <3>2. \A n \in 1..MaxTries : ~PaidFor(i, n)
      BY <3>1, UnpaidUnlessWithdrawn
    <3>3. \A p \in Runs : Holds(p, i)' => p = r
      BY <1>3, <3>1 DEF Served
    <3>4. q.pc \in {"funds", "withdraw"} => item'[i].status = "PROCESSING"
      BY <1>6, <2>2 DEF Picks, Marked
    <3>5. \A p \in Runs : run'[p].at = i => Holds(p, i)'
      BY DEF Holds
    <3>6. QED
      BY <1>2, <1>4, <3>2, <3>3, <3>4, <3>5 DEF Served
  <2>3. CASE q.at # i
    <3>1. item'[i] = item[i]
      BY <1>6, <2>3 DEF Picks, Marked
    <3>2. run[r].pc = "next"
      BY <1>6 DEF Picks
    <3>3. QED
      BY <1>2, <1>3, <1>4, <2>1, <2>3, <3>1, <3>2 DEF Served
  <2>4. QED
    BY <2>2, <2>3
<1>7. CASE Pursues(r, q)
  <2>1. /\ Holds(r, i)' <=> Holds(r, i)
        /\ item' = item /\ q.at = run[r].at
        /\ q.pc \in {"funds", "withdraw"} => run[r].pc = "funds"
    BY <1>2, <1>3, <1>7 DEF Pursues, Holds
  <2>2. ~(run[r].pc = "withdraw" /\ run[r].at = i)
    BY <1>7 DEF Pursues
  <2>3. QED
    BY <1>2, <1>3, <1>4, <2>1, <2>2 DEF Served
<1>8. CASE Leaves(r, q)
  <2>1. /\ Holds(r, i)' => Holds(r, i)
        /\ run[r].at = i => ~Holds(r, i)'
        /\ q.at # i
    BY <1>2, <1>3, <1>8 DEF Leaves, RunPlace, Holds
  <2>2. CASE run[r].at = i
    <3>1. \A p \in Runs : ~Holds(p, i)'
      BY <1>3, <2>1, <2>2 DEF Served, Holds
    <3>2. \A p \in Runs : run'[p].at # i
      BY <3>1 DEF Holds
    <3>3. CASE run[r].pc = "withdraw"
      <4>1. item'[i].status \in {"PROCESSED", "FAILED"}
        BY <1>8, <2>2, <3>3 DEF Leaves, Marked
      <4>2. QED
        BY <1>4, <3>1, <3>2, <4>1 DEF Served
    <3>4. CASE run[r].pc # "withdraw"
      <4>1. \A n \in 1..MaxTries : ~PaidFor(i, n)
        BY <2>2, <3>4, UnpaidUnlessWithdrawn DEF Holds
      <4>2. QED
        BY <1>4, <3>1, <3>2, <4>1 DEF Served
    <3>5. QED
      BY <3>3, <3>4
  <2>3. CASE run[r].at # i
    <3>1. item'[i] = item[i]
      BY <1>8, <2>3 DEF Leaves, Marked
    <3>2. QED
      BY <1>2, <1>3, <1>4, <2>1, <2>3, <3>1 DEF Served
  <2>4. QED
    BY <2>2, <2>3
<1>9. QED
  BY <1>1, <1>5, <1>6, <1>7, <1>8

\* A run only adds to what two runs had, and to what was not stored.
LEMMA HistoriesGrow ==
  ASSUME QueueShape, [QueueNext]_allvars
  PROVE  contended \subseteq contended' /\ unmarked \subseteq unmarked'
<1>1. ASSUME NEW r \in Runs, RunMoves(r)
      PROVE  contended \subseteq contended' /\ unmarked \subseteq unmarked'
  BY <1>1, RunEffects DEF Snaps, Picks, Pursues, Leaves
<1>2. QED
  BY <1>1, QueueCases DEF AddToQueue, Withdrawing, QueueDies, qvars, allvars

LEMMA WithdrawalServes ==
  ASSUME TInv, QueueShape, QueueInv, Withdrawing,
         NEW i \in Items, Served(i)
  PROVE  Served(i)'
<1>1. PICK c \in Calls :
         /\ InProgress(c)
         /\ \A d \in Calls \ {c} : payout'[d] = payout[d]
         /\ payout[c] # "none" => payout'[c] # "none"
  BY OneWithdraws
<1>2. /\ item' = item /\ run' = run
      /\ \A r \in Runs : Holds(r, i)' <=> Holds(r, i)
  BY DEF Withdrawing, qvars, Holds
<1>3. PICK p \in Runs : run[p].pc = "withdraw" /\ CallOf(p) = c
  BY <1>1 DEF QueueInv, Awaited
<1>4. \A n \in 1..MaxTries :
         PaidFor(i, n)' => PaidFor(i, n) \/ c = <<i, n>>
  BY <1>1, QueueConstants DEF PaidFor
<1>5. \A n \in 1..MaxTries : PaidFor(i, n) => PaidFor(i, n)'
  BY <1>1, QueueConstants DEF PaidFor
<1>6. ASSUME NEW n \in 1..MaxTries, c = <<i, n>>
      PROVE  run[p].at = i /\ run[p].try = n
  BY <1>3, <1>6 DEF CallOf
<1>7. ASSUME NEW n \in 1..MaxTries, NEW m \in 1..MaxTries,
             c = <<i, n>>, PaidFor(i, m)
      PROVE  m = n
  <2>1. Holds(p, i)
    BY <1>6, <1>7 DEF Holds
  <2>2. PICK r \in Runs : /\ run[r].pc = "withdraw" /\ run[r].at = i
                          /\ run[r].try = m
    BY <1>7, <2>1 DEF Served
  <2>3. r = p
    BY <2>1, <2>2 DEF Served, Holds
  <2>4. QED
    BY <1>6, <1>7, <2>2, <2>3
<1>8. \A n, m \in 1..MaxTries : c = <<i, n>> /\ c = <<i, m>> => n = m
  OBVIOUS
<1>9. \A n, m \in 1..MaxTries : PaidFor(i, n)' /\ PaidFor(i, m)' => n = m
  BY <1>4, <1>7, <1>8 DEF Served
<1>10. ASSUME NEW n \in 1..MaxTries, PaidFor(i, n)'
       PROVE  \/ \E r \in Runs : /\ run[r].pc = "withdraw" /\ run[r].at = i
                                 /\ run[r].try = n
              \/ /\ \A r \in Runs : ~Holds(r, i)
                 /\ item[i].status \notin {"NONE", "PENDING_FUNDS"}
  <2>1. CASE PaidFor(i, n)
    BY <2>1 DEF Served
  <2>2. CASE c = <<i, n>>
    BY <1>3, <1>6, <2>2
  <2>3. QED
    BY <1>4, <1>10, <2>1, <2>2
<1>11. QED
  BY <1>2, <1>9, <1>10 DEF Served

LEMMA StepQueueInv ==
  ASSUME TInv, QueueShape, QueueInv, [QueueNext]_allvars
  PROVE  QueueInv'
<1>1. \A c \in Calls : InProgress(c)' => Awaited(c)'
  BY StepAwaited
<1>2. SUFFICES ASSUME NEW i \in Items, i \notin contended', i \notin unmarked'
               PROVE  Served(i)'
  BY <1>1 DEF QueueInv
<1>3. Served(i)
  BY <1>2, HistoriesGrow DEF QueueInv
<1>4. ASSUME NEW r \in Runs, RunMoves(r) PROVE Served(i)'
  BY <1>2, <1>3, <1>4, RunServes
<1>5. ASSUME NEW j \in Items, AddToQueue(j) PROVE Served(i)'
  <2>1. /\ Marked(j, "PENDING_FUNDS") /\ item[j].status = "NONE"
        /\ run' = run /\ payout' = payout
    BY <1>5, Marking DEF AddToQueue, wvars
  <2>2. /\ \A r \in Runs : Holds(r, i)' <=> Holds(r, i)
        /\ \A n \in 1..MaxTries : PaidFor(i, n)' <=> PaidFor(i, n)
    BY <2>1 DEF Holds, PaidFor
  <2>3. CASE i # j
    <3>1. item'[i] = item[i]
      BY <2>1, <2>3 DEF Marked
    <3>2. QED
      BY <1>3, <2>1, <2>2, <3>1 DEF Served
  <2>4. CASE i = j
    <3>1. \A n \in 1..MaxTries : ~PaidFor(i, n)
      BY <1>3, <2>1, <2>4 DEF Served
    <3>2. \A r \in Runs :
             ~(run[r].at = i /\ run[r].pc \in {"funds", "withdraw"})
      BY <1>3, <2>1, <2>4 DEF Served
    <3>3. QED
      BY <1>3, <2>1, <2>2, <3>1, <3>2 DEF Served
  <2>5. QED
    BY <2>3, <2>4
<1>6. CASE Withdrawing
  BY <1>3, <1>6, WithdrawalServes
<1>7. CASE QueueDies
  <2>1. /\ payout' = payout /\ item' = item
        /\ run' = [r \in Runs |-> NoRun]
    BY <1>7 DEF QueueDies, Die
  <2>2. /\ \A r \in Runs : ~Holds(r, i)' /\ run'[r].at # i
        /\ \A n \in 1..MaxTries : PaidFor(i, n)' <=> PaidFor(i, n)
    BY <2>1, QueueConstants DEF Holds, NoRun, PaidFor
  <2>3. \A n \in 1..MaxTries :
           PaidFor(i, n) => item[i].status \notin {"NONE", "PENDING_FUNDS"}
    BY <1>3 DEF Served
  <2>4. QED
    BY <1>3, <2>1, <2>2, <2>3 DEF Served
<1>8. CASE UNCHANGED allvars
  BY <1>3, <1>8 DEF allvars, wvars, qvars, Served, Holds, PaidFor
<1>9. QED
  BY <1>4, <1>5, <1>6, <1>7, <1>8, QueueCases

LEMMA AlwaysQueueInv == QueueSpec => []QueueInv
<1>1. QueueInit => QueueInv
  BY InitQueueInv
<1>2. PInv => TInv
  BY DEF PInv
<1>3. TInv /\ QueueShape /\ QueueInv /\ [QueueNext]_allvars => QueueInv'
  BY StepQueueInv
<1>4. QED
  BY <1>1, <1>2, <1>3, QueueImplementsWithdrawal, AlwaysPInv, AlwaysShape, PTL
     DEF QueueSpec

\* However many runs overlap, whatever is refused, put back or cut short, the
\* provider has at most one payout of an item, unless two runs had it in their
\* snapshots at once or its outcome could not be stored
\* (PendingWithdrawalQueueService.processQueue).
THEOREM ItemsArePaidOnce == QueueSpec => []PaidOnceUnlessContended
<1>1. QueueInv => PaidOnceUnlessContended
  <2> SUFFICES ASSUME QueueInv, NEW i \in Items \ (contended \cup unmarked)
               PROVE  Cardinality({n \in 1..MaxTries :
                                     payout[<<i, n>>] # "none"}) <= 1
    BY DEF PaidOnceUnlessContended
  <2> DEFINE PaidTries == {n \in 1..MaxTries : payout[<<i, n>>] # "none"}
  <2>1. \A n, m \in PaidTries : n = m
    BY DEF QueueInv, Served, PaidFor
  <2> HIDE DEF PaidTries
  <2>2. CASE PaidTries = {}
    <3>1. Cardinality(PaidTries) = 0
      BY <2>2, FS_EmptySet
    <3>2. QED
      BY <3>1 DEF PaidTries
  <2>3. CASE PaidTries # {}
    <3>1. PICK n \in PaidTries : TRUE
      BY <2>3
    <3>2. PaidTries = {n}
      BY <2>1, <3>1
    <3>3. Cardinality(PaidTries) = 1
      BY <3>2, FS_Singleton
    <3>4. QED
      BY <3>3 DEF PaidTries
  <2>4. QED
    BY <2>2, <2>3
<1>2. QED
  BY <1>1, AlwaysQueueInv, PTL
=============================================================================
