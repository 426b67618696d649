------------------------ MODULE CardLifecycleProofs ------------------------
(***************************************************************************)
(* Proofs about CardLifecycle and SudoWebhooks together, for any cards,    *)
(* handlers, deliveries, words of the provider and bounds: what a card is  *)
(* refunded, that the refunds reach the wallet, and that the statement of  *)
(* a Sudo card shows the payments that were taken.                         *)
(***************************************************************************)
EXTENDS SudoWebhooks, SumLemmas, TLAPS

(***************************************************************************)
(* Types, and what a handler is doing where it stands                      *)
(***************************************************************************)
Orders == {"freeze", "unfreeze", "terminate"}
SyncSteps == {"check", "fetch", "apply", "metadata"}

Worker == [pc : Steps, card : Cards \cup {NoCard}, call : Calls,
           seen : Copy, said : Report, wallet : Int, amount : Int]

Place(r) ==
    /\ r.pc = "idle" => r.card = NoCard
    /\ r.pc # "idle" => r.card \in Cards
    /\ r.pc \in {"ask", "write"} => r.call \in Orders
    /\ r.pc \in SyncSteps => r.call = "sync"
    /\ r.pc \in RefundSteps => r.call \in {"terminate", "sync"}

PlaceInv == SudoTypeOK /\ \A h \in Handlers : Place(job[h])

\* One step of the handler h, as LifecycleStep lists them.
HandlerStep(h) ==
    \/ Request(h)
    \/ AskProvider(h)
    \/ ProviderRefuses(h)
    \/ UpdateLocalCardStatus(h)
    \/ ProcessTerminationRefund(h)
    \/ IsSyncNeeded(h)
    \/ FetchCardFromMaplerad(h) \/ GetCardFails(h)
    \/ ApplyCardChanges(h)
    \/ UpdateSyncMetadata(h)

LEMMA Constants ==
  /\ NoCard \notin Cards /\ IsFiniteSet(Handlers)
  /\ OpeningCard \in Int /\ OpeningWallet \in Int
  /\ MaxCalls \in Nat /\ MaxMoves \in Nat /\ MaxFaults \in Nat
  /\ MaxStops \in Nat
  /\ SudoBalance \in Int
  BY LifecycleAssumption, SudoAssumption

LEMMA StepNames ==
  /\ Steps = {"idle", "ask", "write", "check", "fetch", "apply", "metadata",
              "refundread", "refundwrite", "refundrow"}
  /\ RefundSteps = {"refundread", "refundwrite", "refundrow"}
  BY DEF Steps, RefundSteps

LEMMA IdleWorker == Idle \in Worker /\ Place(Idle)
<1>1. [status |-> "ACTIVE", balance |-> 0] \in Copy
  BY DEF Copy, CardStatus
<1>2. NoReport \in Report
  BY DEF NoReport, Report, Words
<1>3. QED
  BY <1>1, <1>2, StepNames DEF Idle, Worker, Place, SyncSteps, Calls

LEMMA InitPlace == SudoInit => PlaceInv
<1> SUFFICES ASSUME SudoInit PROVE PlaceInv
  OBVIOUS
<1>1. [status |-> "ACTIVE", balance |-> OpeningCard] \in Copy
  BY Constants DEF Copy, CardStatus
<1>2. /\ card \in [Cards -> Copy] /\ provider \in [Cards -> Copy]
      /\ refunds \in [Cards -> [terminate : Nat, sync : Nat]]
  BY <1>1 DEF SudoInit, LifecycleInit
<1>3. job \in [Handlers -> Worker] /\ \A h \in Handlers : Place(job[h])
  BY IdleWorker DEF SudoInit, LifecycleInit
<1>4. wallet \in Int /\ recorded \in Int /\ disturbed \subseteq Cards
  BY Constants DEF SudoInit, LifecycleInit
<1> fresh \in BOOLEAN /\ strayed \in BOOLEAN
  BY DEF SudoInit, LifecycleInit
<1> calls = 0 /\ moves = 0 /\ faults = 0 /\ stops = 0
  BY DEF SudoInit, LifecycleInit
<1>5. LifecycleTypeOK
  BY <1>2, <1>3, <1>4 DEF LifecycleTypeOK, Worker
<1>6. hook \in [Deliveries -> [pc : SudoSteps, known : BOOLEAN, wallet : Int,
                               event : SudoEvents \cup {NoEvent}]]
  BY DEF SudoInit, NoDelivery, SudoSteps, SudoEvents
<1>7. SudoTypeOK
  BY <1>5, <1>6 DEF SudoTypeOK, SudoInit, CardStatus
<1>8. QED
  BY <1>3, <1>7 DEF PlaceInv

\* Facts of the type invariant, as the steps below use them.
LEMMA Known ==
  ASSUME PlaceInv, NEW h \in Handlers
  PROVE  /\ job \in [Handlers -> Worker]
         /\ job[h] \in Worker /\ Place(job[h])
         /\ job[h].pc # "idle" =>
               /\ job[h].card \in Cards
               /\ card[job[h].card] \in Copy
               /\ provider[job[h].card] \in Copy
               /\ refunds[job[h].card] \in [terminate : Nat, sync : Nat]
         /\ wallet \in Int /\ recorded \in Int
         /\ calls \in Nat /\ faults \in Nat /\ moves \in Nat /\ stops \in Nat
<1>1. LifecycleTypeOK /\ Place(job[h])
  BY DEF PlaceInv, SudoTypeOK
<1>2. job \in [Handlers -> Worker] /\ job[h] \in Worker
  BY <1>1 DEF LifecycleTypeOK, Worker
<1>3. /\ card \in [Cards -> Copy] /\ provider \in [Cards -> Copy]
      /\ refunds \in [Cards -> [terminate : Nat, sync : Nat]]
      /\ wallet \in Int /\ recorded \in Int
      /\ calls \in Nat /\ faults \in Nat /\ moves \in Nat /\ stops \in Nat
  BY <1>1 DEF LifecycleTypeOK
<1>4. job[h].pc # "idle" => job[h].card \in Cards
  BY <1>1 DEF Place
<1>5. QED
  BY <1>1, <1>2, <1>3, <1>4

\* What the provider reports is a report.
LEMMA ReportsAre ==
  ASSUME PlaceInv, NEW c \in Cards, NEW said \in Reports(c)
  PROVE  /\ said \in Report
         /\ said.word = "TERMINATED" =>
               /\ provider[c].status = "TERMINATED"
               /\ TerminatedWord = "TERMINATED"
         /\ provider[c].status = "TERMINATED" => said.word = TerminatedWord
<1>1. provider[c] \in Copy /\ provider[c].balance \in Int
  BY DEF PlaceInv, SudoTypeOK, LifecycleTypeOK, Copy
<1>2. CASE provider[c].status = "TERMINATED"
  <2>1. said \in [word : {TerminatedWord}, balance : {0, provider[c].balance},
                  held : {0, provider[c].balance}, dated : BOOLEAN]
    BY <1>2 DEF Reports
  <2>2. QED
    BY <1>1, <1>2, <2>1 DEF Report, Words
<1>3. CASE provider[c].status # "TERMINATED"
  <2>1. said \in [word : {IF provider[c].status = "FROZEN"
                          THEN FrozenWord ELSE "ACTIVE"},
                  balance : {provider[c].balance}, held : {0},
                  dated : {FALSE}]
    BY <1>3 DEF Reports
  <2>2. /\ said.word \in {FrozenWord, "ACTIVE"} /\ said.dated = FALSE
        /\ said.balance = provider[c].balance /\ said.held = 0
    BY <2>1
  <2>3. said = [word |-> said.word, balance |-> said.balance,
                held |-> said.held, dated |-> FALSE]
    BY <2>1
  <2>4. said \in Report
    <3>1. FALSE \in BOOLEAN
      OBVIOUS
    <3>2. said.word \in Words /\ said.balance \in Int /\ said.held \in Int
      BY <1>1, <2>2 DEF Words
    <3>3. \A b \in BOOLEAN : [word |-> said.word, balance |-> said.balance,
                              held |-> said.held, dated |-> b] \in Report
      BY <3>2 DEF Report
    <3>4. QED
      BY <2>3, <3>1, <3>3, Zenon
  <2>5. QED
    BY <1>3, <2>2, <2>4, LifecycleAssumption
<1>4. QED
  BY <1>2, <1>3

\* Taking up a request: what it may ask for, of which card.
LEMMA RequestBegins ==
  ASSUME NEW h \in Handlers, Request(h)
  PROVE  \E c \in Cards, call \in Calls, pc \in Steps :
            /\ Begin(h, c, call, pc)
            /\ \/ /\ call \in Orders /\ pc = "ask"
                  /\ card[c].status # "TERMINATED"
               \/ call = "sync" /\ pc \in {"fetch", "check"}
  BY StepNames DEF Request, FreezeCard, UnfreezeCard, TerminateCard,
     SyncCard, Calls, Orders

\* The handler that takes a step becomes another record; the rest stay.
LEMMA Moves ==
  ASSUME PlaceInv, NEW h \in Handlers, HandlerStep(h)
  PROVE  \E r \in Worker : Place(r) /\ job' = [job EXCEPT ![h] = r]
<1>1. /\ job[h] \in Worker /\ Place(job[h]) /\ wallet \in Int
      /\ job[h].pc # "idle" => job[h].card \in Cards
  BY Known
<1>2. \A pc \in Steps : [job[h] EXCEPT !.pc = pc] \in Worker
  BY <1>1 DEF Worker
<1>3. CASE Request(h)
  <2>1. PICK c \in Cards, call \in Calls, pc \in Steps :
           /\ Begin(h, c, call, pc)
           /\ \/ call \in Orders /\ pc = "ask"
              \/ call = "sync" /\ pc \in {"fetch", "check"}
    BY <1>3, RequestBegins
  <2> DEFINE r == [Idle EXCEPT !.pc = pc, !.card = c, !.call = call,
                               !.seen = card[c]]
  <2>2. card[c] \in Copy
    BY DEF PlaceInv, SudoTypeOK, LifecycleTypeOK
  <2>3. /\ r \in Worker /\ r.pc = pc /\ r.card = c /\ r.call = call
    BY <2>2, IdleWorker DEF Worker
  <2>4. Place(r)
    BY <2>1, <2>3, StepNames DEF Place, SyncSteps
  <2>5. job' = [job EXCEPT ![h] = r]
    BY <2>1 DEF Begin
  <2>6. QED
    BY <2>3, <2>4, <2>5
<1>4. CASE Finish(h)
  BY <1>4, IdleWorker DEF Finish
<1>5. ASSUME NEW pc \in Steps, Goto(h, pc), job[h].pc # "idle",
             \/ pc = "write" /\ job[h].call \in Orders
             \/ pc \in SyncSteps /\ job[h].call = "sync"
             \/ pc \in RefundSteps /\ job[h].call \in {"terminate", "sync"}
      PROVE  \E r \in Worker : Place(r) /\ job' = [job EXCEPT ![h] = r]
  <2> DEFINE r == [job[h] EXCEPT !.pc = pc]
  <2>1. r \in Worker /\ r.pc = pc /\ r.card = job[h].card /\ r.call = job[h].call
    BY <1>1 DEF Worker
  <2>2. Place(r)
    BY <1>1, <1>5, <2>1, StepNames DEF Place, SyncSteps
  <2>3. QED
    BY <1>5, <2>1, <2>2 DEF Goto

<1>6. CASE AskProvider(h)
  <2>1. job[h].pc = "ask" /\ (job' = [job EXCEPT ![h] = AfterYes(h)]
                              \/ Finish(h))
    BY <1>6 DEF AskProvider
  <2>2. AfterYes(h) \in Worker /\ Place(AfterYes(h))
    <3>1. job[h].seen.balance \in Int
      BY <1>1 DEF Worker, Copy
    <3>2. \A n \in Int : /\ [job[h] EXCEPT !.pc = "refundread", !.amount = n]
                               \in Worker
                         /\ [job[h] EXCEPT !.pc = "write"] \in Worker
      BY <1>1, StepNames DEF Worker
    <3>3. AfterYes(h) \in Worker
      BY <3>1, <3>2 DEF AfterYes
    <3>4. Place(AfterYes(h))
      BY <1>1, <2>1, <3>2, StepNames
         DEF AfterYes, Place, SyncSteps, Worker, Orders
    <3>5. QED
      BY <3>3, <3>4
  <2>3. QED
    BY <1>4, <2>1, <2>2
<1>7. CASE RefundRead(h)
  <2>1. job[h].pc = "refundread"
    BY <1>7 DEF RefundRead
  <2>2. CASE Goto(h, AfterRefund(h))
    BY <1>1, <1>5, <2>1, <2>2, StepNames
       DEF AfterRefund, Place, SyncSteps, Orders
  <2>3. CASE job' = [job EXCEPT ![h].pc = "refundwrite",
                                ![h].wallet = wallet]
    <3> DEFINE r == [job[h] EXCEPT !.pc = "refundwrite", !.wallet = wallet]
    <3>1. job' = [job EXCEPT ![h] = r]
      BY <2>3
    <3>2. r \in Worker /\ r.pc = "refundwrite" /\ r.card = job[h].card
          /\ r.call = job[h].call
      BY <1>1, StepNames DEF Worker
    <3>3. Place(r)
      BY <1>1, <2>1, <3>2, StepNames DEF Place, SyncSteps
    <3>4. QED
      BY <3>1, <3>2, <3>3
  <2>4. QED
    BY <1>7, <2>2, <2>3 DEF RefundRead
<1>8. CASE RefundWrite(h)
  BY <1>1, <1>5, <1>8, StepNames DEF RefundWrite, Place
<1>9. CASE RefundRow(h)
  BY <1>1, <1>5, <1>9, StepNames
     DEF RefundRow, AfterRefund, Place, SyncSteps, Orders
<1>10. CASE IsSyncNeeded(h)
  BY <1>1, <1>4, <1>5, <1>10, StepNames DEF IsSyncNeeded, Place, SyncSteps
<1>11. CASE ApplyCardChanges(h)
  BY <1>1, <1>5, <1>11, StepNames DEF ApplyCardChanges, Place, SyncSteps
<1>12. CASE FetchCardFromMaplerad(h)
  <2>1. PICK said \in Reports(job[h].card), pc \in {"refundread", "apply"} :
           job' = [job EXCEPT ![h].said = said,
                              ![h].amount = RefundAmount(job[h].seen, said),
                              ![h].pc = pc]
    BY <1>12 DEF FetchCardFromMaplerad
  <2>2. job[h].pc = "fetch" /\ job[h].card \in Cards /\ job[h].call = "sync"
    BY <1>1, <1>12 DEF FetchCardFromMaplerad, Place, SyncSteps
  <2>3. said \in Report
    BY <2>2, ReportsAre
  <2>4. RefundAmount(job[h].seen, said) \in Int
    BY <1>1, <2>3 DEF RefundAmount, Cents, Worker, Copy, Report
  <2> DEFINE r == [job[h] EXCEPT !.said = said,
                                 !.amount = RefundAmount(job[h].seen, said),
                                 !.pc = pc]
  <2>5. job' = [job EXCEPT ![h] = r]
    BY <2>1
  <2>6. r \in Worker /\ r.pc = pc /\ r.card = job[h].card
        /\ r.call = job[h].call
    BY <1>1, <2>3, <2>4, StepNames DEF Worker
  <2>7. Place(r)
    BY <2>2, <2>6, StepNames DEF Place, SyncSteps
  <2>8. QED
    BY <2>5, <2>6, <2>7
<1>13. CASE ProviderRefuses(h) \/ UpdateLocalCardStatus(h) \/ GetCardFails(h)
            \/ UpdateSyncMetadata(h)
  BY <1>4, <1>13 DEF ProviderRefuses, UpdateLocalCardStatus, GetCardFails,
                     UpdateSyncMetadata
<1>14. QED
  BY <1>3, <1>6, <1>7, <1>8, <1>9, <1>10, <1>11, <1>12, <1>13
     DEF HandlerStep, ProcessTerminationRefund

\* What such a step writes beside its place keeps its type.
LEMMA CopiesTyped ==
  ASSUME PlaceInv, NEW h \in Handlers, HandlerStep(h)
  PROVE  card' \in [Cards -> Copy] /\ provider' \in [Cards -> Copy]
<1>1. /\ job[h] \in Worker /\ Place(job[h])
      /\ card \in [Cards -> Copy] /\ provider \in [Cards -> Copy]
  BY Known DEF PlaceInv, SudoTypeOK, LifecycleTypeOK
<1>2. CASE AskProvider(h)
  <2>1. /\ job[h].pc = "ask" /\ card' = card
        /\ provider' = [provider EXCEPT ![job[h].card].status =
                                           Target(job[h].call)]
    BY <1>2 DEF AskProvider, ProviderDoes
  <2>2. Target(job[h].call) \in CardStatus /\ job[h].card \in Cards
    BY <1>1, <2>1 DEF Place, Orders, Target, CardStatus
  <2>3. QED
    BY <1>1, <2>1, <2>2 DEF Copy
<1>3. CASE UpdateLocalCardStatus(h)
  <2>1. job[h].pc = "write" /\ job[h].card \in Cards /\ provider' = provider
    BY <1>1, <1>3 DEF UpdateLocalCardStatus, Elsewhere, Place
  <2>2. CASE card' = card
    BY <1>1, <2>1, <2>2
  <2>3. CASE card' = [card EXCEPT ![job[h].card] =
                [card[job[h].card] EXCEPT !.status = Target(job[h].call)]]
    <3>1. Target(job[h].call) \in CardStatus
      BY <1>1, <2>1 DEF Place, Orders, Target, CardStatus
    <3>2. [card[job[h].card] EXCEPT !.status = Target(job[h].call)] \in Copy
      BY <1>1, <2>1, <3>1 DEF Copy
    <3>3. QED
      BY <1>1, <2>1, <2>3, <3>2
  <2>4. QED
    BY <1>3, <2>2, <2>3 DEF UpdateLocalCardStatus, Update, UpdateFails
<1>4. CASE ApplyCardChanges(h)
  <2> DEFINE c == job[h].card
             copy == Changed(card[c], job[h].seen, job[h].said)
  <2>1. job[h].pc = "apply" /\ c \in Cards /\ provider' = provider
    BY <1>1, <1>4 DEF ApplyCardChanges, Elsewhere, Place
  <2>2. /\ card[c].status \in CardStatus /\ card[c].balance \in Int
        /\ job[h].said.balance \in Int
    BY <1>1, <2>1 DEF Worker, Report, Copy
  <2>3. \A word : MapProviderStatusToLocal(word) \in CardStatus
    BY DEF MapProviderStatusToLocal, CardStatus
  <2>4. copy \in Copy
    BY <2>2, <2>3 DEF Changed, Copy
  <2>5. card' = card \/ card' = [card EXCEPT ![c] = copy]
    BY <1>4 DEF ApplyCardChanges, Update, UpdateFails
  <2>6. QED
    BY <1>1, <2>1, <2>4, <2>5
<1>5. CASE Request(h)
  BY <1>1, <1>5 DEF Request, FreezeCard, UnfreezeCard, TerminateCard, SyncCard,
                    Begin
<1>6. CASE ProcessTerminationRefund(h)
  BY <1>1, <1>6 DEF ProcessTerminationRefund, RefundRead, RefundWrite,
                    RefundRow, Elsewhere
<1>7. CASE \/ ProviderRefuses(h) \/ IsSyncNeeded(h)
           \/ FetchCardFromMaplerad(h) \/ GetCardFails(h)
           \/ UpdateSyncMetadata(h)
  BY <1>1, <1>7 DEF ProviderRefuses, IsSyncNeeded, FetchCardFromMaplerad,
                    GetCardFails, UpdateSyncMetadata, Elsewhere
<1>8. QED
  BY <1>2, <1>3, <1>4, <1>5, <1>6, <1>7 DEF HandlerStep

LEMMA MoneyTyped ==
  ASSUME PlaceInv, NEW h \in Handlers, HandlerStep(h)
  PROVE  /\ wallet' \in Int /\ recorded' \in Int
         /\ refunds' \in [Cards -> [terminate : Nat, sync : Nat]]
         /\ calls' \in Nat /\ moves' \in Nat /\ faults' \in Nat
         /\ stops' \in Nat
<1>1. /\ job[h] \in Worker /\ Place(job[h])
      /\ wallet \in Int /\ recorded \in Int
      /\ job[h].wallet \in Int /\ job[h].amount \in Int
      /\ calls \in Nat /\ faults \in Nat /\ moves \in Nat /\ stops \in Nat
  BY Known DEF Worker
<1>2. refunds \in [Cards -> [terminate : Nat, sync : Nat]]
  BY DEF PlaceInv, SudoTypeOK, LifecycleTypeOK
<1>3. CASE Request(h)
  <2>1. /\ wallet' = wallet /\ recorded' = recorded /\ refunds' = refunds
        /\ calls' = calls + 1 /\ moves' = moves /\ faults' = faults
        /\ stops' = stops
    BY <1>3, RequestBegins DEF Begin
  <2>2. QED
    BY <1>1, <1>2, <2>1
<1>4. CASE RefundRead(h) \/ RefundWrite(h)
  <2>1. /\ wallet' \in {wallet, job[h].wallet + job[h].amount}
        /\ faults' \in {faults, faults + 1}
        /\ recorded' = recorded /\ refunds' = refunds
        /\ calls' = calls /\ moves' = moves /\ stops' = stops
    BY <1>4 DEF RefundRead, RefundWrite, Elsewhere
  <2>2. QED
    BY <1>1, <1>2, <2>1
<1>5. CASE RefundRow(h)
  <2>1. job[h].pc = "refundrow" /\ job[h].card \in Cards
    BY <1>1, <1>5 DEF RefundRow, Place
  <2>2. PICK by \in {"terminate", "sync"} :
           \/ refunds' = [refunds EXCEPT ![job[h].card][by] = @ + 1]
           \/ refunds' = refunds
    BY <1>5 DEF RefundRow
  <2>3. refunds' \in [Cards -> [terminate : Nat, sync : Nat]]
    <3>1. CASE by = "terminate"
      BY <1>2, <2>1, <2>2, <3>1
    <3>2. CASE by = "sync"
      BY <1>2, <2>1, <2>2, <3>2
    <3>3. QED
      BY <3>1, <3>2
  <2>4. QED
    BY <1>1, <1>5, <2>3 DEF RefundRow
<1>6. CASE AskProvider(h) \/ UpdateLocalCardStatus(h) \/ ApplyCardChanges(h)
  BY <1>1, <1>2, <1>6 DEF AskProvider, UpdateLocalCardStatus, UpdateFails,
                          ApplyCardChanges, Elsewhere
<1>7. CASE \/ ProviderRefuses(h) \/ IsSyncNeeded(h)
           \/ FetchCardFromMaplerad(h) \/ GetCardFails(h)
           \/ UpdateSyncMetadata(h)
  <2>1. /\ wallet' = wallet /\ recorded' = recorded /\ refunds' = refunds
        /\ calls' = calls /\ moves' = moves /\ stops' = stops
        /\ faults' \in {faults, faults + 1}
    BY <1>7 DEF ProviderRefuses, IsSyncNeeded, FetchCardFromMaplerad,
                GetCardFails, UpdateSyncMetadata, Elsewhere
  <2>2. QED
    BY <1>1, <1>2, <2>1
<1>8. QED
  BY <1>3, <1>4, <1>5, <1>6, <1>7 DEF HandlerStep, ProcessTerminationRefund

LEMMA NotesTyped ==
  ASSUME PlaceInv, NEW h \in Handlers, HandlerStep(h)
  PROVE  /\ disturbed' \subseteq Cards /\ disturbed \subseteq disturbed'
         /\ strayed' \in BOOLEAN /\ (strayed => strayed')
         /\ fresh' \in BOOLEAN
<1>1. /\ Place(job[h]) /\ disturbed \subseteq Cards
      /\ strayed \in BOOLEAN /\ fresh \in BOOLEAN
  BY Known DEF PlaceInv, SudoTypeOK, LifecycleTypeOK
<1>2. CASE Request(h)
  <2>1. disturbed' = disturbed /\ strayed' = strayed /\ fresh' = fresh
    BY <1>2, RequestBegins DEF Begin
  <2>2. QED
    BY <1>1, <2>1
<1>3. CASE RefundRead(h)
  BY <1>1, <1>3 DEF RefundRead, Elsewhere
<1>4. CASE RefundWrite(h)
  <2>1. disturbed' = disturbed /\ fresh' = fresh
    BY <1>4 DEF RefundWrite
  <2>2. strayed' \in BOOLEAN /\ (strayed => strayed')
    BY <1>1, <1>4, Zenon DEF RefundWrite
  <2>3. QED
    BY <1>1, <2>1, <2>2
<1>5. CASE RefundRow(h)
  <2>1. job[h].card \in Cards /\ fresh' = fresh
        /\ disturbed' \in {disturbed, disturbed \cup {job[h].card}}
    BY <1>1, <1>5 DEF RefundRow, Place
  <2>2. strayed' = strayed \/ strayed' = TRUE
    BY <1>5 DEF RefundRow
  <2> strayed' \in BOOLEAN /\ (strayed => strayed')
    BY <1>1, <2>2
  <2>3. QED
    BY <1>1, <2>1, <2>2
<1>6. CASE AskProvider(h)
  BY <1>1, <1>6 DEF AskProvider, Place
<1>7. CASE UpdateLocalCardStatus(h)
  BY <1>1, <1>7 DEF UpdateLocalCardStatus, Update, UpdateFails, Elsewhere,
                    Place
<1>8. CASE ApplyCardChanges(h)
  BY <1>1, <1>8 DEF ApplyCardChanges, Update, UpdateFails, Elsewhere, Place
<1>9. CASE UpdateSyncMetadata(h)
  BY <1>1, <1>9 DEF UpdateSyncMetadata
<1>10. CASE \/ ProviderRefuses(h) \/ IsSyncNeeded(h)
            \/ FetchCardFromMaplerad(h) \/ GetCardFails(h)
  BY <1>1, <1>10 DEF ProviderRefuses, IsSyncNeeded,
       FetchCardFromMaplerad, GetCardFails, Elsewhere
<1>11. QED
  BY <1>2, <1>3, <1>4, <1>5, <1>6, <1>7, <1>8, <1>9, <1>10
     DEF HandlerStep, ProcessTerminationRefund

(***************************************************************************)
(* The deliveries of Sudo, and the provider's own moves                    *)
(***************************************************************************)
Delivery == [pc : SudoSteps, known : BOOLEAN, wallet : Int,
             event : SudoEvents \cup {NoEvent}]

\* One step of the delivery k, as SudoStep lists them.
HookStep(k) ==
    \/ \E e \in SudoEvents : ProcessSudoWebhook(k, e)
    \/ HandleTransactionCreated(k)
    \/ HandleAuthorizationDeclined(k)
    \/ HandleCardUpdated(k)
    \/ HandleCardTerminated(k)
    \/ CreditTermination(k)
    \/ CreateTerminationRow(k)

\* A payment is looked up or stored only where its kind is handled.
LEMMA HookCases ==
  ASSUME NEW k \in Deliveries, HookStep(k)
  PROVE  \/ \E e \in SudoEvents : ProcessSudoWebhook(k, e)
         \/ hook[k].event \in Payments /\ FindTransaction(k)
         \/ hook[k].event \in Payments /\ CreateTransaction(k)
         \/ HandleCardUpdated(k) \/ HandleCardTerminated(k)
         \/ CreditTermination(k) \/ CreateTerminationRow(k)
  BY DEF HookStep, HandleTransactionCreated, HandleAuthorizationDeclined,
         Payments

LEMMA NoDeliveryTyped == NoDelivery \in Delivery
  BY DEF NoDelivery, Delivery, SudoSteps

LEMMA HooksTyped ==
  ASSUME PlaceInv, NEW k \in Deliveries, HookStep(k)
  PROVE  hook' \in [Deliveries -> Delivery]
<1>1. /\ hook \in [Deliveries -> Delivery] /\ hook[k] \in Delivery
      /\ wallet \in Int
  BY DEF PlaceInv, SudoTypeOK, LifecycleTypeOK, Delivery
<1>2. ASSUME NEW r \in Delivery, hook' = [hook EXCEPT ![k] = r]
      PROVE  hook' \in [Deliveries -> Delivery]
  BY <1>1, <1>2
<1>3. CASE HookEnds(k)
  BY <1>2, <1>3, NoDeliveryTyped DEF HookEnds
<1>4. ASSUME NEW pc \in SudoSteps, HookGoes(k, pc)
      PROVE  hook' \in [Deliveries -> Delivery]
  <2>1. [hook[k] EXCEPT !.pc = pc] \in Delivery
    BY <1>1 DEF Delivery
  <2>2. QED
    BY <1>2, <1>4, <2>1 DEF HookGoes
<1>5. ASSUME NEW e \in SudoEvents, ProcessSudoWebhook(k, e)
      PROVE  hook' \in [Deliveries -> Delivery]
  <2>1. PICK first \in SudoSteps, known \in BOOLEAN :
           hook' = [hook EXCEPT ![k] = [NoDelivery EXCEPT
                       !.pc = first, !.event = e, !.known = known]]
    BY <1>5 DEF ProcessSudoWebhook, SudoSteps
  <2>2. [NoDelivery EXCEPT !.pc = first, !.event = e, !.known = known]
           \in Delivery
    BY NoDeliveryTyped DEF Delivery
  <2>3. QED
    BY <1>2, <2>1, <2>2
<1>6. CASE FindTransaction(k) \/ CreateTransaction(k)
  <2>1. HookEnds(k) \/ HookGoes(k, "create")
    BY <1>6 DEF FindTransaction, CreateTransaction
  <2>2. QED
    BY <1>3, <1>4, <2>1 DEF SudoSteps
<1>7. CASE HandleCardTerminated(k)
  <2>1. \/ HookEnds(k)
        \/ hook' = [hook EXCEPT ![k].pc = "credit", ![k].wallet = wallet]
    BY <1>7 DEF HandleCardTerminated, HookEnds
  <2>2. [hook[k] EXCEPT !.pc = "credit", !.wallet = wallet] \in Delivery
    BY <1>1 DEF Delivery, SudoSteps
  <2>3. QED
    BY <1>2, <1>3, <2>1, <2>2
<1>8. CASE HandleCardUpdated(k) \/ CreditTermination(k)
           \/ CreateTerminationRow(k)
  <2>1. HookEnds(k) \/ HookGoes(k, "row")
    BY <1>8 DEF HandleCardUpdated, CreditTermination, CreateTerminationRow
  <2>2. QED
    BY <1>3, <1>4, <2>1 DEF SudoSteps
<1>9. QED
  BY <1>5, <1>6, <1>7, <1>8, HookCases

\* What a delivery writes beside its place.
LEMMA SudoTyped ==
  ASSUME PlaceInv, NEW k \in Deliveries, HookStep(k)
  PROVE  /\ sudoCard' \in CardStatus /\ closings' \in Nat
         /\ statement' \in [Payments -> Nat]
         /\ acked' \subseteq Payments /\ doubtful' \subseteq Payments
<1>1. /\ sudoCard \in CardStatus /\ closings \in Nat
      /\ statement \in [Payments -> Nat]
      /\ acked \subseteq Payments /\ doubtful \subseteq Payments
  BY DEF PlaceInv, SudoTypeOK
<1>2. ASSUME NEW e \in SudoEvents, ProcessSudoWebhook(k, e)
      PROVE  /\ sudoCard' = sudoCard /\ closings' = closings
             /\ statement' = statement /\ acked' = acked
             /\ doubtful' = doubtful
  BY <1>2 DEF ProcessSudoWebhook
<1>3. CASE hook[k].event \in Payments /\ FindTransaction(k)
  BY <1>1, <1>3 DEF FindTransaction
<1>4. CASE hook[k].event \in Payments /\ CreateTransaction(k)
  BY <1>1, <1>4 DEF CreateTransaction
<1>5. CASE HandleCardUpdated(k) \/ HandleCardTerminated(k)
           \/ CreditTermination(k) \/ CreateTerminationRow(k)
  <2>1. /\ sudoCard' = sudoCard \/ sudoCard' \in CardStatus
        /\ closings' \in {closings, closings + 1}
        /\ statement' = statement /\ acked' = acked
        /\ doubtful' = doubtful
    BY <1>5 DEF HandleCardUpdated, HandleCardTerminated, CreditTermination,
                CreateTerminationRow
  <2>2. QED
    BY <1>1, <2>1
<1>6. QED
  BY <1>1, <1>2, <1>3, <1>4, <1>5, HookCases

\* What a delivery does to the variables of CardLifecycle.
LEMMA SudoLeaves ==
  ASSUME PlaceInv, NEW k \in Deliveries, HookStep(k)
  PROVE  /\ Maplerad
         /\ wallet' \in Int /\ strayed' \in BOOLEAN
         /\ (wallet' = wallet /\ strayed' = strayed) \/ strayed'
         /\ calls' \in Nat /\ faults' \in Nat
<1>1. /\ wallet \in Int /\ strayed \in BOOLEAN /\ hook[k].wallet \in Int
      /\ calls \in Nat /\ faults \in Nat
  BY DEF PlaceInv, SudoTypeOK, LifecycleTypeOK
<1>2. CASE CreditTermination(k)
  <2>1. Append(hook[k].wallet, SudoBalance) \in Int
    BY <1>1, Constants DEF Append
  <2>2. /\ \/ wallet' = Append(hook[k].wallet, SudoBalance) /\ strayed'
           \/ wallet' = wallet /\ strayed' = strayed
        /\ calls' = calls /\ faults' \in {faults, faults + 1}
        /\ Maplerad
    BY <1>2 DEF CreditTermination, SudoFault
  <2>3. strayed' \in BOOLEAN
    BY <1>1, <1>2 DEF CreditTermination
  <2>4. QED
    BY <1>1, <2>1, <2>2, <2>3
<1>3. CASE ~CreditTermination(k)
  <2>1. /\ wallet' = wallet /\ strayed' = strayed /\ Maplerad
        /\ calls' \in {calls, calls + 1} /\ faults' \in {faults, faults + 1}
    BY <1>3, HookCases
       DEF ProcessSudoWebhook, FindTransaction, CreateTransaction,
           HandleCardUpdated, HandleCardTerminated, CreateTerminationRow,
           SudoFault
  <2>2. QED
    BY <1>1, <2>1
<1>4. QED
  BY <1>2, <1>3

\* The provider's moves and the passing of the hour.
LEMMA Outside ==
  ASSUME PlaceInv,
         (\E c \in Cards : CardIsUsed(c) \/ ProviderTerminates(c))
            \/ HourPasses
  PROVE  /\ UNCHANGED <<card, wallet, job, refunds, recorded, disturbed,
                        strayed, calls, faults, stops>>
         /\ provider' \in [Cards -> Copy] /\ fresh' \in BOOLEAN
         /\ moves' \in Nat
         /\ \A c \in Cards : provider[c].status = "TERMINATED"
               => provider'[c].status = "TERMINATED"
<1>1. /\ provider \in [Cards -> Copy] /\ fresh \in BOOLEAN
      /\ moves \in Nat
  BY DEF PlaceInv, SudoTypeOK, LifecycleTypeOK
<1>2. ASSUME NEW c \in Cards, CardIsUsed(c)
      PROVE  /\ provider' \in [Cards -> Copy]
             /\ \A d \in Cards : provider'[d].status = provider[d].status
  <2>1. PICK n \in {provider[c].balance - 1, provider[c].balance + 1} :
           provider' = [provider EXCEPT ![c].balance = n]
    BY <1>2 DEF CardIsUsed
  <2>2. QED
    BY <1>1, <2>1 DEF Copy
<1>3. ASSUME NEW c \in Cards, ProviderTerminates(c)
      PROVE  /\ provider' = [provider EXCEPT ![c].status = "TERMINATED"]
             /\ provider' \in [Cards -> Copy]
  BY <1>1, <1>3 DEF ProviderTerminates, ProviderDoes, Target, Copy, CardStatus
<1>4. ASSUME NEW c \in Cards, CardIsUsed(c) \/ ProviderTerminates(c)
      PROVE  /\ UNCHANGED <<card, wallet, fresh, job, refunds, recorded,
                            disturbed, strayed, calls, faults, stops>>
             /\ moves' = moves + 1
  BY <1>4 DEF CardIsUsed, ProviderTerminates, Move
<1>5. CASE HourPasses
  BY <1>1, <1>5 DEF HourPasses
<1>6. QED
  BY <1>1, <1>2, <1>3, <1>4, <1>5 DEF Copy

\* A crash leaves everything but the handlers and the notes of history.
LEMMA CrashTyped ==
  ASSUME PlaceInv, CrashOfAll
  PROVE  /\ job' = [h \in Handlers |-> Idle]
         /\ hook' \in [Deliveries -> Delivery]
         /\ disturbed' \subseteq Cards /\ disturbed \subseteq disturbed'
         /\ \A h \in Handlers : job[h].pc \notin {"idle", "ask"}
               => job[h].card \in disturbed'
         /\ strayed' \in BOOLEAN
         /\ (strayed \/ \E h \in Handlers : job[h].pc = "refundrow")
               => strayed'
         /\ stops' \in Nat
         /\ UNCHANGED <<card, provider, wallet, fresh, refunds, recorded,
                        calls, moves, faults, sudoCard, statement, closings,
                        acked, doubtful>>
<1>1. /\ disturbed \subseteq Cards /\ strayed \in BOOLEAN /\ stops \in Nat
      /\ \A h \in Handlers : Place(job[h])
  BY DEF PlaceInv, SudoTypeOK, LifecycleTypeOK
<1>2. disturbed' = disturbed \cup {job[h].card : h \in
                       {g \in Handlers : job[g].pc \notin {"idle", "ask"}}}
  BY DEF CrashOfAll, Crash
<1>3. \A h \in Handlers : job[h].pc # "idle" => job[h].card \in Cards
  BY <1>1 DEF Place
<1>4. /\ disturbed' \subseteq Cards /\ disturbed \subseteq disturbed'
      /\ \A h \in Handlers : job[h].pc \notin {"idle", "ask"}
            => job[h].card \in disturbed'
  BY <1>1, <1>2, <1>3
<1>5. /\ strayed' \in BOOLEAN
      /\ (strayed \/ \E h \in Handlers : job[h].pc = "refundrow") => strayed'
  BY <1>1, Zenon DEF CrashOfAll, Crash
<1>6. hook' \in [Deliveries -> Delivery]
  BY NoDeliveryTyped DEF CrashOfAll
<1>7. /\ job' = [h \in Handlers |-> Idle] /\ stops' \in Nat
      /\ UNCHANGED <<card, provider, wallet, fresh, refunds, recorded,
                     calls, moves, faults, sudoCard, statement, closings,
                     acked, doubtful>>
  BY <1>1 DEF CrashOfAll, Crash
<1>8. QED
  BY <1>4, <1>5, <1>6, <1>7

\* What can happen in a step.
LEMMA StepCases ==
  ASSUME [CardsNext]_<<lvars, svars>>
  PROVE  \/ \E h \in Handlers : HandlerStep(h) /\ UNCHANGED svars
         \/ \E k \in Deliveries : HookStep(k)
         \/ /\ \/ \E c \in Cards : CardIsUsed(c) \/ ProviderTerminates(c)
               \/ HourPasses
            /\ UNCHANGED svars
         \/ CrashOfAll
         \/ UNCHANGED <<lvars, svars>>
  BY DEF CardsNext, LifecycleStep, HandlerStep, SudoStep, HookStep

LEMMA StepPlace ==
  ASSUME PlaceInv, [CardsNext]_<<lvars, svars>>
  PROVE  PlaceInv'
<1>1. /\ job \in [Handlers -> Worker] /\ \A h \in Handlers : Place(job[h])
      /\ hook \in [Deliveries -> Delivery]
      /\ sudoCard \in CardStatus /\ closings \in Nat
      /\ statement \in [Payments -> Nat]
      /\ acked \subseteq Payments /\ doubtful \subseteq Payments
  BY DEF PlaceInv, SudoTypeOK, LifecycleTypeOK, Worker, Delivery
<1>2. /\ card \in [Cards -> Copy] /\ provider \in [Cards -> Copy]
      /\ wallet \in Int /\ fresh \in BOOLEAN
      /\ refunds \in [Cards -> [terminate : Nat, sync : Nat]]
      /\ recorded \in Int /\ disturbed \subseteq Cards /\ strayed \in BOOLEAN
      /\ calls \in Nat /\ moves \in Nat /\ faults \in Nat /\ stops \in Nat
  BY DEF PlaceInv, SudoTypeOK, LifecycleTypeOK
<1>3. ASSUME job' \in [Handlers -> Worker],
             \A h \in Handlers : Place(job'[h]),
             hook' \in [Deliveries -> Delivery],
             sudoCard' \in CardStatus, closings' \in Nat,
             statement' \in [Payments -> Nat],
             acked' \subseteq Payments, doubtful' \subseteq Payments,
             card' \in [Cards -> Copy], provider' \in [Cards -> Copy],
             wallet' \in Int, fresh' \in BOOLEAN,
             refunds' \in [Cards -> [terminate : Nat, sync : Nat]],
             recorded' \in Int, disturbed' \subseteq Cards,
             strayed' \in BOOLEAN,
             calls' \in Nat, moves' \in Nat, faults' \in Nat, stops' \in Nat
      PROVE  PlaceInv'
  <2>1. LifecycleTypeOK'
    BY <1>3 DEF LifecycleTypeOK, Worker
  <2>2. QED
    BY <1>3, <2>1 DEF PlaceInv, SudoTypeOK, Delivery
<1>4. ASSUME NEW h \in Handlers, HandlerStep(h), UNCHANGED svars
      PROVE  PlaceInv'
  <2>1. /\ hook' = hook /\ sudoCard' = sudoCard /\ closings' = closings
        /\ statement' = statement /\ acked' = acked /\ doubtful' = doubtful
    BY <1>4 DEF svars
  <2>2. PICK r \in Worker : Place(r) /\ job' = [job EXCEPT ![h] = r]
    BY <1>4, Moves
  <2>3. job' \in [Handlers -> Worker] /\ \A g \in Handlers : Place(job'[g])
    BY <1>1, <2>2
  <2>4. card' \in [Cards -> Copy] /\ provider' \in [Cards -> Copy]
    BY <1>4, CopiesTyped
  <2>5. /\ wallet' \in Int /\ recorded' \in Int
        /\ refunds' \in [Cards -> [terminate : Nat, sync : Nat]]
        /\ calls' \in Nat /\ moves' \in Nat /\ faults' \in Nat
        /\ stops' \in Nat
    BY <1>4, MoneyTyped
  <2>6. disturbed' \subseteq Cards /\ strayed' \in BOOLEAN
        /\ fresh' \in BOOLEAN
    BY <1>4, NotesTyped
  <2>7. QED
    BY <1>1, <1>3, <2>1, <2>3, <2>4, <2>5, <2>6
<1>5. ASSUME NEW k \in Deliveries, HookStep(k) PROVE PlaceInv'
  <2>1. hook' \in [Deliveries -> Delivery]
    BY <1>5, HooksTyped
  <2>2. /\ sudoCard' \in CardStatus /\ closings' \in Nat
        /\ statement' \in [Payments -> Nat]
        /\ acked' \subseteq Payments /\ doubtful' \subseteq Payments
    BY <1>5, SudoTyped
  <2>3. /\ card' = card /\ provider' = provider /\ fresh' = fresh
        /\ job' = job /\ refunds' = refunds /\ recorded' = recorded
        /\ disturbed' = disturbed /\ moves' = moves /\ stops' = stops
    BY <1>5, SudoLeaves DEF Maplerad
  <2>4. wallet' \in Int /\ strayed' \in BOOLEAN /\ calls' \in Nat
        /\ faults' \in Nat
    BY <1>5, SudoLeaves
  <2>5. QED
    BY <1>1, <1>2, <1>3, <2>1, <2>2, <2>3, <2>4
<1>6. ASSUME (\E c \in Cards : CardIsUsed(c) \/ ProviderTerminates(c))
                \/ HourPasses,
             UNCHANGED svars
      PROVE  PlaceInv'
  <2>1. /\ hook' = hook /\ sudoCard' = sudoCard /\ closings' = closings
        /\ statement' = statement /\ acked' = acked /\ doubtful' = doubtful
    BY <1>6 DEF svars
  <2>2. /\ card' = card /\ wallet' = wallet /\ job' = job
        /\ refunds' = refunds /\ recorded' = recorded
        /\ disturbed' = disturbed /\ strayed' = strayed /\ calls' = calls
        /\ faults' = faults /\ stops' = stops
        /\ provider' \in [Cards -> Copy] /\ fresh' \in BOOLEAN
        /\ moves' \in Nat
    BY <1>6, Outside
  <2>3. QED
    BY <1>1, <1>2, <1>3, <2>1, <2>2
<1>7. CASE CrashOfAll
  <2>1. job' \in [Handlers -> Worker] /\ \A h \in Handlers : Place(job'[h])
    BY <1>7, CrashTyped, IdleWorker
  <2>2. /\ hook' \in [Deliveries -> Delivery] /\ disturbed' \subseteq Cards
        /\ strayed' \in BOOLEAN /\ stops' \in Nat
    BY <1>7, CrashTyped
  <2>3. UNCHANGED <<card, provider, wallet, fresh, refunds, recorded,
                    calls, moves, faults, sudoCard, statement, closings,
                    acked, doubtful>>
    BY <1>7, CrashTyped
  <2>4. QED
    BY <1>1, <1>2, <1>3, <2>1, <2>2, <2>3
<1>8. CASE UNCHANGED <<lvars, svars>>
  BY <1>8 DEF lvars, svars, PlaceInv, SudoTypeOK, LifecycleTypeOK
<1>9. QED
  BY <1>4, <1>5, <1>6, <1>7, <1>8, StepCases

LEMMA AlwaysPlace == CardsSpec => []PlaceInv
<1>1. QED
  BY InitPlace, StepPlace, PTL DEF CardsSpec

\* Every variable keeps its type, and a handler stands at a step of its call,
\* about a card there is (CardLifecycle and SudoWebhooks together).
THEOREM CardsTypeCorrect == CardsSpec => []SudoTypeOK
<1>1. PlaceInv => SudoTypeOK
  BY DEF PlaceInv
<1>2. QED
  BY <1>1, AlwaysPlace, PTL

(***************************************************************************)
(* Only a terminated card is refunded                                      *)
(***************************************************************************)

\* A sync that found the card terminated and knows it as not terminated.
FoundTerminated(r) ==
    /\ r.said.word = "TERMINATED"
    /\ r.seen.status # "TERMINATED"
    /\ TerminatedWord = "TERMINATED"

Grounds(h) ==
    job[h].pc \in RefundSteps =>
       /\ provider[job[h].card].status = "TERMINATED"
       /\ job[h].call = "sync" => FoundTerminated(job[h])

GroundsInv == RefundOnlyWhenTerminated /\ \A h \in Handlers : Grounds(h)

LEMMA InitGrounds == SudoInit => GroundsInv
  BY StepNames DEF SudoInit, LifecycleInit, GroundsInv, Idle, Grounds,
     RefundOnlyWhenTerminated

\* The provider's word is final.
LEMMA StaysTerminated ==
  ASSUME PlaceInv, NEW h \in Handlers, HandlerStep(h), NEW c \in Cards,
         provider[c].status = "TERMINATED"
  PROVE  provider'[c].status = "TERMINATED"
<1>1. provider \in [Cards -> Copy]
  BY DEF PlaceInv, SudoTypeOK, LifecycleTypeOK
<1>2. CASE AskProvider(h)
  BY <1>1, <1>2 DEF AskProvider, ProviderDoes, Copy
<1>3. CASE Request(h)
  BY <1>3, RequestBegins DEF Begin
<1>4. CASE ~AskProvider(h) /\ ~Request(h)
  BY <1>4 DEF HandlerStep, ProcessTerminationRefund, ProviderRefuses,
     UpdateLocalCardStatus, RefundRead, RefundWrite, RefundRow, IsSyncNeeded,
     FetchCardFromMaplerad, GetCardFails, ApplyCardChanges,
     UpdateSyncMetadata, Elsewhere
<1>5. QED
  BY <1>2, <1>3, <1>4

\* Where a handler goes that had not begun to refund: there it comes with the
\* provider's yes to a termination, or with the provider's word for one.
LEMMA EntersRefund ==
  ASSUME PlaceInv, NEW h \in Handlers, HandlerStep(h),
         job[h].pc \notin RefundSteps, job'[h].pc \in RefundSteps
  PROVE  /\ job'[h].pc = "refundread"
         /\ job'[h].card = job[h].card /\ job[h].card \in Cards
         /\ job'[h].call = job[h].call
         /\ \/ /\ AskProvider(h)
               /\ job[h].call = "terminate"
               /\ provider[job[h].card].status # "TERMINATED"
               /\ provider'[job[h].card].status = "TERMINATED"
            \/ /\ FetchCardFromMaplerad(h)
               /\ job[h].call = "sync"
               /\ provider' = provider
               /\ provider[job[h].card].status = "TERMINATED"
               /\ FoundTerminated(job'[h])
<1>1. /\ job \in [Handlers -> Worker] /\ job[h] \in Worker /\ Place(job[h])
      /\ provider \in [Cards -> Copy]
  BY Known DEF PlaceInv, SudoTypeOK, LifecycleTypeOK
<1>2. CASE AskProvider(h)
  <2>1. /\ job[h].pc = "ask" /\ ProviderDoes(job[h].card, job[h].call)
        /\ job[h].card \in Cards
    BY <1>1, <1>2 DEF AskProvider, Place
  <2>2. CASE job' = [job EXCEPT ![h] = Idle]
    BY <1>1, <2>2, StepNames DEF Idle
  <2>3. CASE job' = [job EXCEPT ![h] = AfterYes(h)]
    <3>1. job'[h] = AfterYes(h)
      BY <1>1, <2>3
    <3>2. job[h].call = "terminate" /\ job'[h].pc = "refundread"
          /\ job'[h].card = job[h].card /\ job'[h].call = job[h].call
      BY <1>1, <3>1, StepNames DEF AfterYes, Worker
    <3>3. /\ provider[job[h].card].status # "TERMINATED"
          /\ provider'[job[h].card].status = "TERMINATED"
      BY <1>1, <2>1, <3>2 DEF ProviderDoes, Target, Copy
    <3>4. QED
      BY <1>2, <2>1, <3>2, <3>3
  <2>4. QED
    BY <1>2, <2>2, <2>3 DEF AskProvider, Finish
<1>3. CASE FetchCardFromMaplerad(h)
  <2>1. job[h].pc = "fetch" /\ job[h].card \in Cards /\ job[h].call = "sync"
        /\ provider' = provider
    BY <1>1, <1>3 DEF FetchCardFromMaplerad, Place, SyncSteps, Elsewhere
  <2>2. PICK said \in Reports(job[h].card) :
           job' = [job EXCEPT ![h].said = said,
                     ![h].amount = RefundAmount(job[h].seen, said),
                     ![h].pc =
                        IF /\ IsCardNewlyTerminated(job[h].seen, said)
                           /\ RefundAmount(job[h].seen, said) > 0
                        THEN "refundread" ELSE "apply"]
    BY <1>3 DEF FetchCardFromMaplerad
  <2>3. /\ job'[h].said = said /\ job'[h].seen = job[h].seen
        /\ job'[h].card = job[h].card /\ job'[h].call = job[h].call
        /\ job'[h].pc = "refundread"
        /\ IsCardNewlyTerminated(job[h].seen, said)
    BY <1>1, <2>2, StepNames DEF Worker
  <2>4. said.word = "TERMINATED" /\ job[h].seen.status # "TERMINATED"
    BY <2>3 DEF IsCardNewlyTerminated
  <2>5. provider[job[h].card].status = "TERMINATED"
        /\ TerminatedWord = "TERMINATED"
    BY <2>1, <2>4, ReportsAre
  <2>6. QED
    BY <1>3, <2>1, <2>3, <2>4, <2>5 DEF FoundTerminated
<1>4. ASSUME Finish(h) \/ \E pc \in Steps \ RefundSteps : Goto(h, pc)
      PROVE  FALSE
  BY <1>1, <1>4, StepNames DEF Finish, Goto, Idle, Worker
<1>5. CASE Request(h)
  <2>1. PICK c \in Cards, call \in Calls,
             pc \in {"ask", "fetch", "check"} : Begin(h, c, call, pc)
    BY <1>5, RequestBegins
  <2>2. job'[h].pc = pc
    BY <1>1, <2>1, IdleWorker DEF Begin, Worker
  <2>3. QED
    BY <2>2, StepNames
<1>6. CASE \/ ProviderRefuses(h) \/ UpdateLocalCardStatus(h)
           \/ IsSyncNeeded(h) \/ GetCardFails(h)
           \/ ApplyCardChanges(h) \/ UpdateSyncMetadata(h)
  BY <1>4, <1>6, StepNames
     DEF ProviderRefuses, UpdateLocalCardStatus, IsSyncNeeded, GetCardFails,
         ApplyCardChanges, UpdateSyncMetadata
<1>7. CASE ProcessTerminationRefund(h)
  BY <1>7, StepNames
     DEF ProcessTerminationRefund, RefundRead, RefundWrite, RefundRow
<1>8. QED
  BY <1>2, <1>3, <1>5, <1>6, <1>7 DEF HandlerStep

\* A handler that goes on refunding knows what it knew.
LEMMA GoesOnRefunding ==
  ASSUME PlaceInv, NEW h \in Handlers, HandlerStep(h),
         job[h].pc \in RefundSteps
  PROVE  /\ ProcessTerminationRefund(h)
         /\ job'[h].card = job[h].card /\ job'[h].call = job[h].call
         /\ job'[h].said = job[h].said /\ job'[h].seen = job[h].seen
         /\ job'[h].amount = job[h].amount
         /\ provider' = provider /\ card' = card
<1>1. job \in [Handlers -> Worker] /\ job[h] \in Worker
  BY Known
<1>2. ProcessTerminationRefund(h)
  BY StepNames, RequestBegins DEF HandlerStep, Begin, AskProvider,
     ProviderRefuses, UpdateLocalCardStatus, IsSyncNeeded, GetCardFails,
     FetchCardFromMaplerad, ApplyCardChanges, UpdateSyncMetadata
<1>3. \/ \E pc \in Steps : Goto(h, pc)
      \/ job' = [job EXCEPT ![h].pc = "refundwrite", ![h].wallet = wallet]
  BY <1>2, StepNames
     DEF ProcessTerminationRefund, RefundRead, RefundWrite, RefundRow,
         AfterRefund
<1>4. /\ job'[h].card = job[h].card /\ job'[h].call = job[h].call
      /\ job'[h].said = job[h].said /\ job'[h].seen = job[h].seen
      /\ job'[h].amount = job[h].amount
  BY <1>1, <1>3 DEF Goto, Worker
<1>5. provider' = provider /\ card' = card
  BY <1>2 DEF ProcessTerminationRefund, RefundRead, RefundWrite, RefundRow,
              Elsewhere
<1>6. QED
  BY <1>2, <1>4, <1>5

\* The rows of a card are counted up by a handler that writes one.
LEMMA RowsWritten ==
  ASSUME PlaceInv, NEW h \in Handlers, HandlerStep(h)
  PROVE  \/ refunds' = refunds
         \/ /\ RefundRow(h) /\ job[h].pc = "refundrow"
            /\ job[h].card \in Cards
            /\ \/ /\ job[h].call = "terminate"
                  /\ refunds' = [refunds EXCEPT ![job[h].card].terminate = @ + 1]
               \/ /\ job[h].call = "sync"
                  /\ refunds' = [refunds EXCEPT ![job[h].card].sync = @ + 1]
<1>1. Place(job[h])
  BY Known
<1>2. CASE RefundRow(h)
  <2>1. job[h].pc = "refundrow" /\ job[h].card \in Cards
        /\ job[h].call \in {"terminate", "sync"}
    BY <1>1, <1>2, StepNames DEF RefundRow, Place
  <2>2. QED
    BY <1>2, <2>1 DEF RefundRow
<1>3. CASE Request(h)
  BY <1>3, RequestBegins DEF Begin
<1>4. CASE ~RefundRow(h) /\ ~Request(h)
  BY <1>4 DEF HandlerStep, ProcessTerminationRefund, AskProvider,
     ProviderRefuses, UpdateLocalCardStatus, RefundRead, RefundWrite,
     IsSyncNeeded, FetchCardFromMaplerad, GetCardFails, ApplyCardChanges,
     UpdateSyncMetadata, Elsewhere
<1>5. QED
  BY <1>2, <1>3, <1>4

\* In a step of a handler the others stay as they are.
LEMMA OthersStay ==
  ASSUME PlaceInv, NEW h \in Handlers, HandlerStep(h)
  PROVE  \A g \in Handlers \ {h} : job'[g] = job[g]
<1>1. job \in [Handlers -> Worker]
  BY Known
<1>2. QED
  BY <1>1, Moves

LEMMA StepGrounds ==
  ASSUME PlaceInv, GroundsInv, [CardsNext]_<<lvars, svars>>
  PROVE  GroundsInv'
<1>1. /\ job \in [Handlers -> Worker] /\ provider \in [Cards -> Copy]
      /\ refunds \in [Cards -> [terminate : Nat, sync : Nat]]
      /\ \A h \in Handlers : Place(job[h])
  BY DEF PlaceInv, SudoTypeOK, LifecycleTypeOK, Worker
<1>2. ASSUME NEW h \in Handlers, HandlerStep(h) PROVE GroundsInv'
  <2>1. ASSUME NEW g \in Handlers PROVE Grounds(g)'
    <3>1. CASE job'[g].pc \notin RefundSteps
      BY <3>1 DEF Grounds
    <3>2. CASE job[g].pc \in RefundSteps
      <4>1. job[g].card \in Cards
        BY <1>1, <3>2, StepNames DEF Place
      <4>2. /\ job'[g].card = job[g].card /\ job'[g].call = job[g].call
            /\ job'[g].said = job[g].said /\ job'[g].seen = job[g].seen
        <5>1. CASE g = h
          BY <1>2, <3>2, <5>1, GoesOnRefunding
        <5>2. CASE g # h
          BY <1>2, <5>2, OthersStay
        <5>3. QED
          BY <5>1, <5>2
      <4>3. provider'[job[g].card].status = "TERMINATED"
        BY <1>2, <3>2, <4>1, StaysTerminated DEF GroundsInv, Grounds
      <4>4. QED
        BY <3>2, <4>2, <4>3 DEF GroundsInv, Grounds, FoundTerminated
    <3>3. CASE job[g].pc \notin RefundSteps /\ job'[g].pc \in RefundSteps
      <4>1. g = h
        BY <1>2, <3>3, OthersStay
      <4>2. QED
        BY <1>2, <3>3, <4>1, EntersRefund DEF Grounds
    <3>4. QED
      BY <3>1, <3>2, <3>3
  <2>2. ASSUME NEW c \in Cards, refunds'[c].terminate + refunds'[c].sync > 0
        PROVE  provider'[c].status = "TERMINATED"
    <3>1. CASE refunds[c].terminate + refunds[c].sync > 0
      BY <1>2, <3>1, StaysTerminated DEF GroundsInv, RefundOnlyWhenTerminated
    <3>2. CASE ~(refunds[c].terminate + refunds[c].sync > 0)
      <4>1. refunds' # refunds
        BY <2>2, <3>2
      <4>2. /\ job[h].pc = "refundrow" /\ job[h].card \in Cards
            /\ \A d \in Cards \ {job[h].card} : refunds'[d] = refunds[d]
        BY <1>1, <1>2, <4>1, RowsWritten
      <4>3. c = job[h].card
        BY <2>2, <3>2, <4>2
      <4>4. provider[c].status = "TERMINATED"
        BY <4>2, <4>3, StepNames DEF GroundsInv, Grounds
      <4>5. QED
        BY <1>2, <4>4, StaysTerminated
    <3>3. QED
      BY <3>1, <3>2
  <2>3. QED
    BY <2>1, <2>2 DEF GroundsInv, RefundOnlyWhenTerminated
<1>3. ASSUME job' = job, refunds' = refunds,
             \A c \in Cards : provider[c].status = "TERMINATED"
                => provider'[c].status = "TERMINATED"
      PROVE  GroundsInv'
  <2>1. ASSUME NEW g \in Handlers PROVE Grounds(g)'
    <3>1. job[g].pc \in RefundSteps => job[g].card \in Cards
      BY <1>1, StepNames DEF Place
    <3>2. QED
      BY <1>3, <3>1 DEF GroundsInv, Grounds, FoundTerminated
  <2>2. RefundOnlyWhenTerminated'
    BY <1>3 DEF GroundsInv, RefundOnlyWhenTerminated
  <2>3. QED
    BY <2>1, <2>2 DEF GroundsInv
<1>4. ASSUME NEW k \in Deliveries, HookStep(k) PROVE GroundsInv'
  BY <1>3, <1>4, SudoLeaves DEF Maplerad
<1>5. CASE (\E c \in Cards : CardIsUsed(c) \/ ProviderTerminates(c))
              \/ HourPasses
  BY <1>3, <1>5, Outside
<1>6. CASE CrashOfAll
  <2>1. /\ \A h \in Handlers : job'[h] = Idle
        /\ provider' = provider /\ refunds' = refunds
    BY <1>6, CrashTyped
  <2>2. \A h \in Handlers : Grounds(h)'
    BY <2>1, StepNames DEF Idle, Grounds
  <2>3. QED
    BY <2>1, <2>2 DEF GroundsInv, RefundOnlyWhenTerminated
<1>7. CASE UNCHANGED <<lvars, svars>>
  BY <1>3, <1>7 DEF lvars
<1>8. QED
  BY <1>2, <1>4, <1>5, <1>6, <1>7, StepCases

LEMMA AlwaysGrounds == CardsSpec => []GroundsInv
<1>1. QED
  BY AlwaysPlace, InitGrounds, StepGrounds, PTL DEF CardsSpec

\* Only a card the provider has terminated is refunded: whoever stands before
\* a refund came there with the provider's yes, or with its word that the card
\* is terminated, and the provider does not take that back (terminateCard,
\* handleTerminationRefundIfNeeded).
THEOREM RefundsFollowTermination == CardsSpec => []RefundOnlyWhenTerminated
<1>1. GroundsInv => RefundOnlyWhenTerminated
  BY DEF GroundsInv
<1>2. QED
  BY <1>1, AlwaysGrounds, PTL

(***************************************************************************)
(* No card is refunded twice by terminateCard                              *)
(***************************************************************************)
Terminating(r, c) ==
    r.pc \in RefundSteps /\ r.call = "terminate" /\ r.card = c

TerminateInv ==
    \A c \in Cards :
       /\ refunds[c].terminate <= 1
       /\ \A h \in Handlers :
             Terminating(job[h], c) =>
                /\ refunds[c].terminate = 0
                /\ \A g \in Handlers : Terminating(job[g], c) => g = h

LEMMA InitTerminate == SudoInit => TerminateInv
  BY StepNames DEF SudoInit, LifecycleInit, TerminateInv, Terminating, Idle

LEMMA StepTerminate ==
  ASSUME PlaceInv, GroundsInv, TerminateInv, [CardsNext]_<<lvars, svars>>
  PROVE  TerminateInv'
<1>1. /\ job \in [Handlers -> Worker]
      /\ refunds \in [Cards -> [terminate : Nat, sync : Nat]]
  BY DEF PlaceInv, SudoTypeOK, LifecycleTypeOK, Worker
<1>2. ASSUME NEW h \in Handlers, HandlerStep(h) PROVE TerminateInv'
  <2> SUFFICES ASSUME NEW c \in Cards
               PROVE  /\ refunds'[c].terminate <= 1
                      /\ \A g \in Handlers :
                            Terminating(job'[g], c) =>
                               /\ refunds'[c].terminate = 0
                               /\ \A f \in Handlers :
                                     Terminating(job'[f], c) => f = g
    BY DEF TerminateInv
  <2>1. \A g \in Handlers \ {h} : job'[g] = job[g]
    BY <1>2, OthersStay
  <2>2. CASE /\ refunds'[c].terminate # refunds[c].terminate
    <3>1. /\ RefundRow(h) /\ job[h].pc = "refundrow" /\ job[h].card = c
          /\ job[h].call = "terminate"
          /\ refunds'[c].terminate = refunds[c].terminate + 1
      <4>1. /\ RefundRow(h) /\ job[h].pc = "refundrow"
            /\ job[h].card \in Cards
            /\ \/ /\ job[h].call = "terminate"
                  /\ refunds' = [refunds EXCEPT ![job[h].card].terminate = @ + 1]
               \/ /\ job[h].call = "sync"
                  /\ refunds' = [refunds EXCEPT ![job[h].card].sync = @ + 1]
        BY <1>2, <2>2, RowsWritten
      <4>2. refunds[c] \in [terminate : Nat, sync : Nat]
        BY <1>1
      <4>3. job[h].call = "sync" => refunds'[c].terminate = refunds[c].terminate
        BY <1>1, <4>1, <4>2
      <4>4. refunds' = [refunds EXCEPT ![job[h].card].terminate = @ + 1]
            /\ job[h].call = "terminate"
        BY <2>2, <4>1, <4>3
      <4>5. QED
        BY <1>1, <2>2, <4>1, <4>2, <4>4
    <3>2. Terminating(job[h], c)
      BY <3>1, StepNames DEF Terminating
    <3>3. /\ refunds[c].terminate = 0
          /\ \A g \in Handlers : Terminating(job[g], c) => g = h
      BY <3>2 DEF TerminateInv
    <3>4. job'[h].pc = "write"
      BY <1>1, <3>1 DEF RefundRow, Goto, AfterRefund, Worker
    <3>5. \A g \in Handlers : ~Terminating(job'[g], c)
      BY <2>1, <3>3, <3>4, StepNames DEF Terminating
    <3>6. QED
      BY <3>1, <3>3, <3>5
  <2>3. CASE /\ refunds'[c].terminate = refunds[c].terminate
             /\ Terminating(job'[h], c) => Terminating(job[h], c)
    <3>1. \A g \in Handlers : Terminating(job'[g], c) => Terminating(job[g], c)
      BY <2>1, <2>3
    <3>2. QED
      BY <2>3, <3>1 DEF TerminateInv
  <2>4. CASE /\ refunds'[c].terminate = refunds[c].terminate
             /\ Terminating(job'[h], c) /\ ~Terminating(job[h], c)
    <3>1. job[h].pc \notin RefundSteps
      BY <1>2, <2>4, GoesOnRefunding DEF Terminating
    <3>2. job[h].card = c /\ provider[c].status # "TERMINATED"
      BY <1>2, <2>4, <3>1, EntersRefund DEF Terminating
    <3>3. refunds[c].terminate = 0
      BY <1>1, <3>2 DEF GroundsInv, RefundOnlyWhenTerminated
    <3>4. \A g \in Handlers : ~Terminating(job[g], c)
      BY <3>2 DEF GroundsInv, Grounds, Terminating
    <3>5. \A g \in Handlers : Terminating(job'[g], c) => g = h
      BY <2>1, <3>4
    <3>6. QED
      BY <2>4, <3>3, <3>5
  <2>5. QED
    BY <2>2, <2>3, <2>4
<1>3. CASE job' = job /\ refunds' = refunds
  BY <1>3 DEF TerminateInv
<1>4. ASSUME NEW k \in Deliveries, HookStep(k) PROVE TerminateInv'
  BY <1>3, <1>4, SudoLeaves DEF Maplerad
<1>5. CASE (\E c \in Cards : CardIsUsed(c) \/ ProviderTerminates(c))
              \/ HourPasses
  BY <1>3, <1>5, Outside
<1>6. CASE CrashOfAll
  <2>1. (\A h \in Handlers : job'[h] = Idle) /\ refunds' = refunds
    BY <1>6, CrashTyped
  <2>2. \A h \in Handlers, c \in Cards : ~Terminating(job'[h], c)
    BY <2>1, StepNames DEF Idle, Terminating
  <2>3. QED
    BY <2>1, <2>2 DEF TerminateInv
<1>7. CASE UNCHANGED <<lvars, svars>>
  BY <1>3, <1>7 DEF lvars
<1>8. QED
  BY <1>2, <1>4, <1>5, <1>6, <1>7, StepCases

LEMMA AlwaysTerminate == CardsSpec => []TerminateInv
<1>1. QED
  BY AlwaysPlace, AlwaysGrounds, InitTerminate, StepTerminate, PTL
     DEF CardsSpec

(***************************************************************************)
(* Nor by the syncs, as long as their writes are taken                     *)
(***************************************************************************)

\* The sync that has paid is about to write the card's status, ...
Unwritten(h, c) ==
    /\ job[h].pc = "apply"
    /\ job[h].card = c
    /\ FoundTerminated(job[h])

\* ... or it is written, and everybody who works on the card knows it.
Aware(r) ==
    /\ r.call = "sync"
    /\ \/ r.pc = "metadata"
       \/ /\ r.seen.status = "TERMINATED"
          /\ r.pc \in {"check", "fetch", "apply"}
          /\ r.pc = "apply" => r.said.word = "TERMINATED"

Written(c) ==
    /\ card[c].status = "TERMINATED"
    /\ \A g \in Handlers : job[g].card = c => Aware(job[g])

Closed(c) ==
    /\ refunds[c].sync = 1
    /\ TerminatedWord = "TERMINATED"
    /\ (\E h \in Handlers : Unwritten(h, c)) \/ Written(c)

SyncInv ==
    \A c \in Cards : c \notin disturbed /\ refunds[c].sync > 0 => Closed(c)

LEMMA InitSync == SudoInit => SyncInv
  BY DEF SudoInit, LifecycleInit, SyncInv

\* The sync that has paid writes the status: then it is alone on the card.
LEMMA WritesStatus ==
  ASSUME PlaceInv, NEW h \in Handlers, HandlerStep(h), NEW c \in Cards,
         Unwritten(h, c), c \notin disturbed'
  PROVE  Written(c)'
<1>1. /\ job \in [Handlers -> Worker] /\ job[h] \in Worker /\ Place(job[h])
      /\ card \in [Cards -> Copy]
  BY Known DEF PlaceInv, SudoTypeOK, LifecycleTypeOK
<1>2. job[h].pc = "apply" /\ job[h].card = c /\ job[h].call = "sync"
  BY <1>1 DEF Unwritten, Place, SyncSteps
<1>3. ApplyCardChanges(h)
  BY <1>2, RequestBegins DEF HandlerStep, Begin, AskProvider,
     ProviderRefuses, UpdateLocalCardStatus, ProcessTerminationRefund,
     RefundRead, RefundWrite, RefundRow, IsSyncNeeded, GetCardFails,
     FetchCardFromMaplerad, UpdateSyncMetadata
<1>4. /\ card' = [card EXCEPT ![c] =
                     Changed(card[c], job[h].seen, job[h].said)]
      /\ ~Crossed(h)
      /\ Goto(h, "metadata")
  BY <1>2, <1>3 DEF ApplyCardChanges, Update, UpdateFails
<1>5. card'[c].status = "TERMINATED"
  BY <1>1, <1>4 DEF Changed, MapProviderStatusToLocal, Unwritten,
                    FoundTerminated
<1>6. \A g \in Handlers \ {h} : job'[g] = job[g] /\ job[g].card # c
  BY <1>1, <1>2, <1>4 DEF Crossed, Goto
<1>7. job'[h].pc = "metadata" /\ job'[h].call = "sync"
  BY <1>1, <1>2, <1>4 DEF Goto, Worker
<1>8. QED
  BY <1>5, <1>6, <1>7 DEF Written, Aware

\* A sync that knows of the termination leaves the status as it is.
LEMMA KeepsStatus ==
  ASSUME PlaceInv, NEW h \in Handlers, HandlerStep(h), NEW c \in Cards,
         Written(c)
  PROVE  card'[c].status = "TERMINATED"
<1>1. /\ job[h] \in Worker /\ Place(job[h]) /\ card \in [Cards -> Copy]
      /\ card[c].status = "TERMINATED"
      /\ job[h].card = c => Aware(job[h])
  BY Known DEF PlaceInv, SudoTypeOK, LifecycleTypeOK, Written
<1>2. CASE UpdateLocalCardStatus(h)
  <2>1. job[h].card # c
    BY <1>1, <1>2 DEF UpdateLocalCardStatus, Aware
  <2>2. QED
    BY <1>1, <1>2, <2>1 DEF UpdateLocalCardStatus, Update, UpdateFails
<1>3. CASE ApplyCardChanges(h)
  <2>1. CASE job[h].card # c
    BY <1>1, <1>3, <2>1 DEF ApplyCardChanges, Update, UpdateFails
  <2>2. CASE job[h].card = c
    <3>1. job[h].seen.status = "TERMINATED"
          /\ job[h].said.word = "TERMINATED"
      BY <1>1, <1>3, <2>2 DEF ApplyCardChanges, Aware
    <3>2. Changed(card[c], job[h].seen, job[h].said).status = "TERMINATED"
      BY <1>1, <3>1 DEF Changed, MapProviderStatusToLocal
    <3>3. QED
      BY <1>1, <1>3, <2>2, <3>2 DEF ApplyCardChanges, Update, UpdateFails
  <2>3. QED
    BY <2>1, <2>2
<1>4. CASE Request(h)
  BY <1>1, <1>4, RequestBegins DEF Begin
<1>5. CASE ~(UpdateLocalCardStatus(h) \/ ApplyCardChanges(h) \/ Request(h))
  BY <1>1, <1>5 DEF HandlerStep, ProcessTerminationRefund, AskProvider,
     ProviderRefuses, RefundRead, RefundWrite, RefundRow, IsSyncNeeded,
     FetchCardFromMaplerad, GetCardFails, UpdateSyncMetadata, Elsewhere
<1>6. QED
  BY <1>2, <1>3, <1>4, <1>5

\* Who works on the card afterwards knows of the termination too.
LEMMA StaysAware ==
  ASSUME PlaceInv, NEW h \in Handlers, HandlerStep(h), NEW c \in Cards,
         Written(c), provider[c].status = "TERMINATED",
         TerminatedWord = "TERMINATED", job'[h].card = c
  PROVE  Aware(job'[h])
<1>1. /\ job \in [Handlers -> Worker] /\ job[h] \in Worker /\ Place(job[h])
      /\ card[c].status = "TERMINATED"
      /\ job[h].card = c => Aware(job[h])
      /\ NoCard \notin Cards
  BY Known, Constants DEF Written
<1>2. ~Finish(h)
  BY <1>1 DEF Finish, Idle
<1>3. CASE Request(h)
  <2>1. PICK d \in Cards, call \in Calls, pc \in Steps :
           /\ Begin(h, d, call, pc)
           /\ \/ call \in Orders /\ pc = "ask" /\ card[d].status # "TERMINATED"
              \/ call = "sync" /\ pc \in {"fetch", "check"}
    BY <1>3, RequestBegins
  <2>2. job'[h] = [Idle EXCEPT !.pc = pc, !.card = d, !.call = call,
                               !.seen = card[d]]
    BY <1>1, <2>1 DEF Begin
  <2>3. /\ job'[h].pc = pc /\ job'[h].card = d /\ job'[h].call = call
        /\ job'[h].seen = card[d]
    BY <2>2 DEF Idle
  <2>4. QED
    BY <1>1, <2>1, <2>3 DEF Aware
<1>4. CASE ~Request(h)
  <2>1. job'[h].card = job[h].card
    <3>1. PICK r \in Worker : Place(r) /\ job' = [job EXCEPT ![h] = r]
      BY Moves
    <3>2. \/ \E pc \in Steps : Goto(h, pc)
          \/ job' = [job EXCEPT ![h].pc = "refundwrite", ![h].wallet = wallet]
          \/ job' = [job EXCEPT ![h] = AfterYes(h)]
          \/ FetchCardFromMaplerad(h)
      BY <1>2, <1>4, StepNames
         DEF HandlerStep, ProcessTerminationRefund, AskProvider,
             ProviderRefuses, UpdateLocalCardStatus, RefundRead, RefundWrite,
             RefundRow, AfterRefund, IsSyncNeeded, GetCardFails,
             ApplyCardChanges, UpdateSyncMetadata
    <3>3. CASE FetchCardFromMaplerad(h)
      BY <1>1, <3>3 DEF FetchCardFromMaplerad, Worker
    <3>4. CASE job' = [job EXCEPT ![h] = AfterYes(h)]
      <4>1. job'[h] = AfterYes(h) /\ AfterYes(h).card = job[h].card
        BY <1>1, <3>4 DEF AfterYes, Worker
      <4>2. QED
        BY <4>1
    <3>5. QED
      BY <1>1, <3>2, <3>3, <3>4 DEF Goto, Worker
  <2>2. Aware(job[h]) /\ job[h].card = c
    BY <1>1, <2>1
  <2>3. \/ IsSyncNeeded(h) \/ FetchCardFromMaplerad(h) \/ ApplyCardChanges(h)
    BY <1>2, <1>4, <2>2, StepNames
       DEF HandlerStep, ProcessTerminationRefund, AskProvider,
           ProviderRefuses, UpdateLocalCardStatus, RefundRead, RefundWrite,
           RefundRow, GetCardFails, UpdateSyncMetadata, Aware
  <2>4. CASE IsSyncNeeded(h)
    BY <1>1, <1>2, <2>2, <2>4 DEF IsSyncNeeded, Goto, Aware, Worker
  <2>5. CASE ApplyCardChanges(h)
    BY <1>1, <2>2, <2>5 DEF ApplyCardChanges, Goto, Aware, Worker
  <2>6. CASE FetchCardFromMaplerad(h)
    <3>1. PICK said \in Reports(c) :
             job' = [job EXCEPT ![h].said = said,
                       ![h].amount = RefundAmount(job[h].seen, said),
                       ![h].pc =
                          IF /\ IsCardNewlyTerminated(job[h].seen, said)
                             /\ RefundAmount(job[h].seen, said) > 0
                          THEN "refundread" ELSE "apply"]
      BY <2>2, <2>6 DEF FetchCardFromMaplerad
    <3>2. said.word = "TERMINATED"
      BY ReportsAre
    <3>3. job[h].seen.status = "TERMINATED"
      BY <2>2, <2>6 DEF Aware, FetchCardFromMaplerad
    <3>4. /\ job'[h].said = said /\ job'[h].seen = job[h].seen
          /\ job'[h].call = job[h].call /\ job'[h].pc = "apply"
      BY <1>1, <3>1, <3>3 DEF IsCardNewlyTerminated, Worker
    <3>5. QED
      BY <2>2, <3>2, <3>3, <3>4 DEF Aware
  <2>7. QED
    BY <2>3, <2>4, <2>5, <2>6
<1>5. QED
  BY <1>3, <1>4

LEMMA StepSync ==
  ASSUME PlaceInv, GroundsInv, SyncInv, [CardsNext]_<<lvars, svars>>
  PROVE  SyncInv'
<1>1. /\ job \in [Handlers -> Worker] /\ NoCard \notin Cards
      /\ refunds \in [Cards -> [terminate : Nat, sync : Nat]]
      /\ \A h \in Handlers : Place(job[h])
  BY Constants DEF PlaceInv, SudoTypeOK, LifecycleTypeOK, Worker
<1>2. ASSUME NEW h \in Handlers, HandlerStep(h), NEW c \in Cards,
             c \notin disturbed', refunds'[c].sync > 0
      PROVE  Closed(c)'
  <2>1. c \notin disturbed
    BY <1>2, NotesTyped
  <2>2. \A g \in Handlers \ {h} : job'[g] = job[g]
    BY <1>2, OthersStay
  <2>3. CASE refunds'[c].sync = refunds[c].sync
    <3>1. Closed(c) /\ refunds[c].sync > 0
      BY <1>2, <2>1, <2>3 DEF SyncInv
    <3>2. refunds'[c].sync = 1 /\ TerminatedWord = "TERMINATED"
      BY <2>3, <3>1 DEF Closed
    <3>3. provider[c].status = "TERMINATED"
      BY <1>1, <3>1 DEF GroundsInv, RefundOnlyWhenTerminated
    <3>4. ASSUME NEW u \in Handlers, Unwritten(u, c)
          PROVE  Unwritten(u, c)' \/ Written(c)'
      <4>1. CASE u = h
        BY <1>2, <3>4, <4>1, WritesStatus
      <4>2. CASE u # h
        BY <2>2, <3>4, <4>2 DEF Unwritten, FoundTerminated
      <4>3. QED
        BY <4>1, <4>2
    <3>5. CASE Written(c)
      <4>1. card'[c].status = "TERMINATED"
        BY <1>2, <3>5, KeepsStatus
      <4>2. ASSUME NEW g \in Handlers, job'[g].card = c PROVE Aware(job'[g])
        <5>1. CASE g = h
          BY <1>2, <3>2, <3>3, <3>5, <4>2, <5>1, StaysAware
        <5>2. CASE g # h
          BY <2>2, <3>5, <4>2, <5>2 DEF Written
        <5>3. QED
          BY <5>1, <5>2
      <4>3. QED
        BY <3>2, <4>1, <4>2 DEF Closed, Written
    <3>6. QED
      BY <3>1, <3>2, <3>4, <3>5 DEF Closed
  <2>4. CASE refunds'[c].sync # refunds[c].sync
    <3>1. /\ RefundRow(h) /\ job[h].pc = "refundrow"
          /\ job[h].card \in Cards
          /\ \/ /\ job[h].call = "terminate"
                /\ refunds' = [refunds EXCEPT ![job[h].card].terminate = @ + 1]
             \/ /\ job[h].call = "sync"
                /\ refunds' = [refunds EXCEPT ![job[h].card].sync = @ + 1]
      BY <1>2, <2>4, RowsWritten
    <3>2. refunds[c] \in [terminate : Nat, sync : Nat]
      BY <1>1
    <3>3. /\ job[h].call = "sync"
          /\ refunds' = [refunds EXCEPT ![job[h].card].sync = @ + 1]
      BY <1>1, <2>4, <3>1, <3>2
    <3>4. job[h].card = c /\ refunds'[c].sync = refunds[c].sync + 1
      BY <1>1, <2>4, <3>1, <3>2, <3>3
    <3>5. ~Crossed(h) /\ Goto(h, "apply")
      BY <1>2, <3>1, <3>3, <3>4 DEF RefundRow, AfterRefund
    <3>6. FoundTerminated(job[h])
      BY <3>1, <3>3, StepNames DEF GroundsInv, Grounds
    <3>7. ~Closed(c)
      <4>1. \A g \in Handlers : job[g].card = c => g = h
        BY <3>4, <3>5 DEF Crossed
      <4>2. \A g \in Handlers : ~Unwritten(g, c)
        BY <3>1, <4>1 DEF Unwritten
      <4>3. ~Written(c)
        BY <3>1, <3>4 DEF Written, Aware
      <4>4. QED
        BY <4>2, <4>3 DEF Closed
    <3>8. refunds'[c].sync = 1
      BY <2>1, <3>2, <3>4, <3>7 DEF SyncInv
    <3>9. /\ job'[h].pc = "apply" /\ job'[h].card = c
          /\ job'[h].said = job[h].said /\ job'[h].seen = job[h].seen
      BY <1>1, <3>4, <3>5 DEF Goto, Worker
    <3>10. Unwritten(h, c)'
      BY <3>6, <3>9 DEF Unwritten, FoundTerminated
    <3>11. TerminatedWord = "TERMINATED"
      BY <3>6 DEF FoundTerminated
    <3>12. QED
      BY <3>8, <3>10, <3>11 DEF Closed
  <2>5. QED
    BY <2>3, <2>4
<1>3. CASE /\ job' = job /\ refunds' = refunds /\ card' = card
           /\ disturbed' = disturbed
  BY <1>3 DEF SyncInv, Closed, Unwritten, Written, FoundTerminated
<1>4. ASSUME NEW k \in Deliveries, HookStep(k) PROVE SyncInv'
  BY <1>3, <1>4, SudoLeaves DEF Maplerad
<1>5. CASE (\E c \in Cards : CardIsUsed(c) \/ ProviderTerminates(c))
              \/ HourPasses
  BY <1>3, <1>5, Outside
<1>6. ASSUME CrashOfAll, NEW c \in Cards,
             c \notin disturbed', refunds'[c].sync > 0
      PROVE  Closed(c)'
  <2>1. /\ \A h \in Handlers : job'[h] = Idle
        /\ refunds' = refunds /\ card' = card /\ c \notin disturbed
        /\ \A h \in Handlers : job[h].pc \notin {"idle", "ask"}
              => job[h].card # c
    BY <1>6, CrashTyped
  <2>2. Closed(c)
    BY <1>6, <2>1 DEF SyncInv
  <2>3. Written(c)
    BY <2>1, <2>2 DEF Closed, Unwritten
  <2>4. Written(c)'
    BY <1>1, <2>1, <2>3 DEF Written, Idle
  <2>5. QED
    BY <2>1, <2>2, <2>4 DEF Closed
<1>7. CASE UNCHANGED <<lvars, svars>>
  BY <1>3, <1>7 DEF lvars
<1>8. (\E h \in Handlers : HandlerStep(h)) => SyncInv'
  BY <1>2 DEF SyncInv
<1>9. CrashOfAll => SyncInv'
  BY <1>6 DEF SyncInv
<1>10. QED
  BY <1>4, <1>5, <1>7, <1>8, <1>9, StepCases

LEMMA AlwaysSync == CardsSpec => []SyncInv
<1>1. QED
  BY AlwaysPlace, AlwaysGrounds, InitSync, StepSync, PTL DEF CardsSpec

\* A card is refunded once by terminateCard, since only one call gets the
\* provider's yes; and once by the syncs, unless their writes fail or cross
\* others: the sync that has paid is alone on the card until it has marked it,
\* and who reads it afterwards does not take it for newly terminated
\* (terminateCard, handleTerminationRefundIfNeeded, applyCardChanges).
THEOREM RefundsAreNotRepeated == CardsSpec => []RefundedOncePerPath
<1>1. ASSUME PlaceInv, TerminateInv, SyncInv PROVE RefundedOncePerPath
  <2>1. \A c \in Cards : refunds[c] \in [terminate : Nat, sync : Nat]
    BY <1>1 DEF PlaceInv, SudoTypeOK, LifecycleTypeOK
  <2>2. ASSUME NEW c \in Cards, c \notin disturbed PROVE refunds[c].sync <= 1
    <3>1. CASE refunds[c].sync > 0
      BY <1>1, <2>2, <3>1 DEF SyncInv, Closed
    <3>2. CASE ~(refunds[c].sync > 0)
      BY <2>1, <3>2
    <3>3. QED
      BY <3>1, <3>2
  <2>3. QED
    BY <1>1, <2>2 DEF RefundedOncePerPath, TerminateInv
<1>2. QED
  BY <1>1, AlwaysPlace, AlwaysTerminate, AlwaysSync, PTL

(***************************************************************************)
(* What is refunded reaches the wallet                                     *)
(***************************************************************************)

\* What is paid and has no row yet.
Owed == [h \in Handlers |->
           IF job[h].pc = "refundrow" THEN job[h].amount ELSE 0]

\* A wallet that was read for a refund is the wallet, and what it holds
\* beyond the rows is what rows are still to be written of.
WalletInv ==
    ~strayed =>
       /\ \A h \in Handlers :
             job[h].pc = "refundwrite" => job[h].wallet = wallet
       /\ wallet = OpeningWallet + recorded + SumFunctionOnSet(Owed, Handlers)

LEMMA OwedIsInt ==
  ASSUME PlaceInv
  PROVE  /\ \A h \in Handlers : Owed[h] \in Int
         /\ SumFunctionOnSet(Owed, Handlers) \in Int
<1>1. \A h \in Handlers : Owed[h] \in Int
  BY Known DEF Owed, Worker
<1>2. QED
  BY <1>1, Constants, SumIsInt

LEMMA InitWallet == SudoInit => WalletInv
<1> SUFFICES ASSUME SudoInit PROVE WalletInv
  OBVIOUS
<1>1. \A h \in Handlers : job[h].pc = "idle"
  BY DEF SudoInit, LifecycleInit, Idle
<1>2. \A h \in Handlers : Owed[h] = 0
  BY <1>1 DEF Owed
<1>3. SumFunctionOnSet(Owed, Handlers) = 0
  BY <1>2, Constants, SumOfZeros
<1>4. wallet = OpeningWallet /\ recorded = 0
  BY DEF SudoInit, LifecycleInit
<1>5. QED
  BY <1>1, <1>3, <1>4, Constants DEF WalletInv

LEMMA OwedIntNext ==
  ASSUME PlaceInv' PROVE \A h \in Handlers : Owed'[h] \in Int
<1>1. \A h \in Handlers : job'[h].amount \in Int
  BY DEF PlaceInv, SudoTypeOK, LifecycleTypeOK
<1>2. QED
  BY <1>1 DEF Owed

\* A step of h changes what is owed by what h owes.
LEMMA OwedByOne ==
  ASSUME PlaceInv, PlaceInv', NEW h \in Handlers, HandlerStep(h)
  PROVE  SumFunctionOnSet(Owed', Handlers)
            = SumFunctionOnSet(Owed, Handlers) - Owed[h] + Owed'[h]
<1>1. /\ \A g \in Handlers : Owed[g] \in Int
      /\ Owed'[h] \in Int
  BY OwedIsInt, OwedIntNext
<1>2. \A g \in Handlers \ {h} : Owed'[g] = Owed[g]
  BY OthersStay DEF Owed
<1>3. IsFiniteSet(Handlers)
  BY Constants
<1> DEFINE old == Owed
           new == Owed'
<1> HIDE DEF old, new
<1>4. /\ \A g \in Handlers : old[g] \in Int
      /\ new[h] \in Int
      /\ \A g \in Handlers \ {h} : new[g] = old[g]
  BY <1>1, <1>2 DEF old, new
<1>5. SumFunctionOnSet(new, Handlers)
         = SumFunctionOnSet(old, Handlers) - old[h] + new[h]
  BY <1>3, <1>4, SumOfOneChange
<1>6. QED
  BY <1>5 DEF old, new

LEMMA StepWallet ==
  ASSUME PlaceInv, PlaceInv', WalletInv, [CardsNext]_<<lvars, svars>>
  PROVE  WalletInv'
<1>1. /\ job \in [Handlers -> Worker] /\ wallet \in Int /\ recorded \in Int
      /\ OpeningWallet \in Int
      /\ SumFunctionOnSet(Owed, Handlers) \in Int
  BY Constants, OwedIsInt DEF PlaceInv, SudoTypeOK, LifecycleTypeOK, Worker
<1>2. ASSUME NEW h \in Handlers, HandlerStep(h), ~strayed'
      PROVE  WalletInv'
  <2>1. /\ \A g \in Handlers :
              job[g].pc = "refundwrite" => job[g].wallet = wallet
        /\ wallet = OpeningWallet + recorded
                       + SumFunctionOnSet(Owed, Handlers)
    BY <1>2, NotesTyped DEF WalletInv
  <2>2. /\ \A g \in Handlers \ {h} : job'[g] = job[g]
        /\ job[h] \in Worker /\ job[h].amount \in Int
    BY <1>1, <1>2, OthersStay DEF Worker
  <2>3. SumFunctionOnSet(Owed', Handlers)
           = SumFunctionOnSet(Owed, Handlers) - Owed[h] + Owed'[h]
    BY <1>2, OwedByOne
  <2>4. /\ Owed[h] = IF job[h].pc = "refundrow" THEN job[h].amount ELSE 0
        /\ Owed'[h] = IF job'[h].pc = "refundrow" THEN job'[h].amount ELSE 0
    BY DEF Owed
  <2>5. CASE RefundRead(h)
    <3>1. /\ wallet' = wallet /\ recorded' = recorded
          /\ job[h].pc = "refundread"
          /\ job'[h].pc # "refundrow"
          /\ job'[h].pc = "refundwrite" => job'[h].wallet = wallet
      BY <1>1, <2>2, <2>5 DEF RefundRead, Goto, AfterRefund, Elsewhere, Worker
    <3>2. wallet' = OpeningWallet + recorded'
                       + SumFunctionOnSet(Owed', Handlers)
      BY <1>1, <2>1, <2>3, <2>4, <3>1
    <3>3. QED
      BY <2>1, <2>2, <3>1, <3>2 DEF WalletInv
  <2>6. CASE RefundWrite(h)
    <3>1. /\ job[h].pc = "refundwrite" /\ recorded' = recorded
          /\ wallet' = job[h].wallet + job[h].amount
          /\ \A g \in Handlers \ {h} : job[g].pc # "refundwrite"
      BY <1>2, <2>6 DEF RefundWrite
    <3>2. job'[h].pc = "refundrow" /\ job'[h].amount = job[h].amount
      BY <1>1, <2>2, <2>6 DEF RefundWrite, Goto, Worker
    <3>3. wallet' = OpeningWallet + recorded'
                       + SumFunctionOnSet(Owed', Handlers)
      BY <1>1, <2>1, <2>2, <2>3, <2>4, <3>1, <3>2
    <3>4. QED
      BY <2>2, <3>1, <3>2, <3>3 DEF WalletInv
  <2>7. CASE RefundRow(h)
    <3>1. /\ job[h].pc = "refundrow" /\ wallet' = wallet
          /\ recorded' = recorded + job[h].amount
      BY <1>2, <2>7 DEF RefundRow
    <3>2. job'[h].pc \in {"write", "apply"}
      BY <1>1, <2>2, <2>7 DEF RefundRow, Goto, AfterRefund, Worker
    <3>3. wallet' = OpeningWallet + recorded'
                       + SumFunctionOnSet(Owed', Handlers)
      BY <1>1, <2>1, <2>2, <2>3, <2>4, <3>1, <3>2
    <3>4. QED
      BY <2>1, <2>2, <3>1, <3>2, <3>3 DEF WalletInv
  <2>8. CASE ~ProcessTerminationRefund(h)
    <3>1. job[h].pc \notin RefundSteps
      BY <1>2, <2>8, GoesOnRefunding
    <3>2. job'[h].pc \in RefundSteps => job'[h].pc = "refundread"
      BY <1>2, <3>1, EntersRefund
    <3>3. wallet' = wallet /\ recorded' = recorded
      BY <1>2, <2>8, RequestBegins
         DEF HandlerStep, Begin, AskProvider, ProviderRefuses,
             UpdateLocalCardStatus, IsSyncNeeded, FetchCardFromMaplerad,
             GetCardFails, ApplyCardChanges, UpdateSyncMetadata, Elsewhere
    <3>4. job[h].pc # "refundrow" /\ job'[h].pc \notin {"refundrow", "refundwrite"}
      BY <3>1, <3>2, StepNames
    <3>5. wallet' = OpeningWallet + recorded'
                       + SumFunctionOnSet(Owed', Handlers)
      BY <1>1, <2>1, <2>3, <2>4, <3>3, <3>4
    <3>6. QED
      BY <2>1, <2>2, <3>3, <3>4, <3>5 DEF WalletInv
  <2>9. QED
    BY <2>5, <2>6, <2>7, <2>8 DEF ProcessTerminationRefund
<1>3. CASE /\ job' = job /\ recorded' = recorded
           /\ (wallet' = wallet /\ strayed' = strayed) \/ strayed'
  <2>1. Owed' = Owed
    BY <1>3 DEF Owed
  <2>2. QED
    BY <1>3, <2>1 DEF WalletInv
<1>4. ASSUME NEW k \in Deliveries, HookStep(k) PROVE WalletInv'
  BY <1>3, <1>4, SudoLeaves DEF Maplerad
<1>5. CASE (\E c \in Cards : CardIsUsed(c) \/ ProviderTerminates(c))
              \/ HourPasses
  BY <1>3, <1>5, Outside
<1>6. ASSUME CrashOfAll, ~strayed' PROVE WalletInv'
  <2>1. /\ \A h \in Handlers : job'[h] = Idle /\ job[h].pc # "refundrow"
        /\ ~strayed /\ wallet' = wallet /\ recorded' = recorded
    BY <1>6, CrashTyped
  <2>2. Owed' = Owed
    BY <2>1 DEF Owed, Idle
  <2>3. QED
    BY <2>1, <2>2 DEF WalletInv, Idle
<1>7. CASE UNCHANGED <<lvars, svars>>
  BY <1>3, <1>7 DEF lvars
<1>8. CASE strayed'
  BY <1>8 DEF WalletInv
<1>9. QED
  BY <1>2, <1>4, <1>5, <1>6, <1>7, <1>8, StepCases

LEMMA AlwaysWallet == CardsSpec => []WalletInv
<1>1. QED
  BY AlwaysPlace, InitWallet, StepWallet, PTL DEF CardsSpec

\* The wallet has received what the refund rows say, for any number of
\* refunds at work: a wallet that was read for a refund is still the wallet
\* when the refund is written, unless another was written in between, and the
\* rows lag behind by what the handlers have written and not yet recorded
\* (processTerminationRefund; the webhooks of Sudo write the same wallet).
THEOREM RefundsAreReceived == CardsSpec => []RefundsReachWallet
<1>1. ASSUME PlaceInv, WalletInv PROVE RefundsReachWallet
  <2> SUFFICES ASSUME ~strayed, \A h \in Handlers : job[h].pc # "refundrow"
               PROVE  wallet = OpeningWallet + recorded
    BY DEF RefundsReachWallet
  <2>1. \A h \in Handlers : Owed[h] = 0
    BY DEF Owed
  <2>2. SumFunctionOnSet(Owed, Handlers) = 0
    BY <2>1, Constants, SumOfZeros
  <2>3. recorded \in Int /\ OpeningWallet \in Int
    BY <1>1, Constants DEF PlaceInv, SudoTypeOK, LifecycleTypeOK
  <2>4. QED
    BY <1>1, <2>2, <2>3 DEF WalletInv
<1>2. QED
  BY <1>1, AlwaysPlace, AlwaysWallet, PTL

(***************************************************************************)
(* The statement of a Sudo card                                            *)
(***************************************************************************)

\* A payment that is being stored is not stored yet.
StatementInv ==
    /\ StatementShowsPayments
    /\ \A k \in Deliveries, p \in Payments :
          /\ hook[k].pc = "create" /\ hook[k].event = p
          /\ p \notin doubtful
          => statement[p] = 0

LEMMA InitStatement == SudoInit => StatementInv
  BY DEF SudoInit, StatementInv, StatementShowsPayments, NoDelivery

LEMMA StepStatement ==
  ASSUME PlaceInv, StatementInv, [CardsNext]_<<lvars, svars>>
  PROVE  StatementInv'
<1>1. /\ hook \in [Deliveries -> Delivery]
      /\ statement \in [Payments -> Nat]
      /\ acked \subseteq Payments /\ doubtful \subseteq Payments
  BY DEF PlaceInv, SudoTypeOK, Delivery
<1>2. ASSUME NEW k \in Deliveries, hook[k].event \in Payments,
             FindTransaction(k)
      PROVE  StatementInv'
  <2> DEFINE e == hook[k].event
  <2>1. /\ statement' = statement /\ doubtful \subseteq doubtful'
        /\ acked' = acked \/ (acked' = acked \cup {e} /\ statement[e] > 0)
        /\ \A l \in Deliveries \ {k} : hook'[l] = hook[l]
    BY <1>1, <1>2 DEF FindTransaction, HookEnds, HookGoes
  <2>2. /\ hook'[k].pc = "create" => hook'[k].event = e
        /\ hook'[k].pc = "create" => (e \in doubtful' \/ ~(statement[e] > 0))
    BY <1>1, <1>2
       DEF FindTransaction, HookEnds, HookGoes, NoDelivery, Delivery
  <2>3. ASSUME NEW l \in Deliveries, NEW p \in Payments,
               hook'[l].pc = "create", hook'[l].event = p, p \notin doubtful'
        PROVE  statement'[p] = 0
    <3>1. CASE l = k
      BY <1>1, <1>2, <2>1, <2>2, <2>3, <3>1
    <3>2. CASE l # k
      BY <2>1, <2>3, <3>2 DEF StatementInv
    <3>3. QED
      BY <3>1, <3>2
  <2>4. StatementShowsPayments'
    BY <2>1 DEF StatementInv, StatementShowsPayments
  <2>5. QED
    BY <2>3, <2>4 DEF StatementInv
<1>3. ASSUME NEW k \in Deliveries, hook[k].event \in Payments,
             CreateTransaction(k)
      PROVE  StatementInv'
  <2> DEFINE e == hook[k].event
  <2>1. /\ hook[k].pc = "create" /\ hook'[k].pc = "idle"
        /\ \A l \in Deliveries \ {k} : hook'[l] = hook[l]
    BY <1>1, <1>3 DEF CreateTransaction, HookEnds, NoDelivery
  <2>2. CASE statement' = statement /\ acked' = acked /\ doubtful' = doubtful
    <3>1. StatementShowsPayments'
      BY <2>2 DEF StatementInv, StatementShowsPayments
    <3>2. QED
      BY <2>1, <2>2, <3>1 DEF StatementInv
  <2>3. CASE /\ statement' = [statement EXCEPT ![e] = @ + 1]
             /\ acked' \in {acked, acked \cup {e}}
             /\ doubtful' = IF \E l \in Deliveries \ {k} :
                                  hook[l].event = e /\ hook[l].pc = "create"
                            THEN doubtful \cup {e} ELSE doubtful
    <3>1. /\ doubtful \subseteq doubtful'
          /\ statement'[e] = statement[e] + 1
          /\ \A p \in Payments \ {e} : statement'[p] = statement[p]
          /\ e \notin doubtful' => statement[e] = 0
      BY <1>1, <1>3, <2>1, <2>3 DEF StatementInv
    <3>2. ASSUME NEW p \in Payments
          PROVE  /\ p \in acked' => statement'[p] > 0
                 /\ p \notin doubtful' => statement'[p] <= 1
      BY <1>1, <2>3, <3>1 DEF StatementInv, StatementShowsPayments
    <3>3. ASSUME NEW l \in Deliveries, NEW p \in Payments,
                 hook'[l].pc = "create", hook'[l].event = p,
                 p \notin doubtful'
          PROVE  statement'[p] = 0
      <4>1. l # k /\ hook[l].pc = "create" /\ hook[l].event = p
        BY <2>1, <3>3
      <4>2. p # e
        BY <2>3, <3>3, <4>1
      <4>3. QED
        BY <3>1, <3>3, <4>1, <4>2 DEF StatementInv
    <3>4. QED
      BY <3>2, <3>3 DEF StatementInv, StatementShowsPayments
  <2>4. QED
    BY <1>3, <2>2, <2>3 DEF CreateTransaction
<1>4. CASE /\ statement' = statement /\ acked' = acked /\ doubtful' = doubtful
           /\ \A l \in Deliveries : hook'[l].pc = "create"
                                       => hook'[l] = hook[l]
  <2>1. StatementShowsPayments'
    BY <1>4 DEF StatementInv, StatementShowsPayments
  <2>2. QED
    BY <1>4, <2>1 DEF StatementInv
<1>5. ASSUME NEW k \in Deliveries, NEW e \in SudoEvents,
             ProcessSudoWebhook(k, e)
      PROVE  StatementInv'
  <2>1. PICK first \in {"find", "update", "terminate"}, known \in BOOLEAN :
           hook' = [hook EXCEPT ![k] = [NoDelivery EXCEPT
                       !.pc = first, !.event = e, !.known = known]]
    BY <1>5 DEF ProcessSudoWebhook
  <2>2. /\ hook'[k].pc = first
        /\ \A l \in Deliveries \ {k} : hook'[l] = hook[l]
    BY <1>1, <2>1 DEF NoDelivery
  <2>3. statement' = statement /\ acked' = acked /\ doubtful' = doubtful
    BY <1>5 DEF ProcessSudoWebhook
  <2>4. QED
    BY <1>4, <2>2, <2>3
<1>6. ASSUME NEW k \in Deliveries,
             \/ HandleCardUpdated(k) \/ HandleCardTerminated(k)
             \/ CreditTermination(k) \/ CreateTerminationRow(k)
      PROVE  StatementInv'
  <2>1. \/ HookEnds(k) \/ HookGoes(k, "row")
        \/ hook' = [hook EXCEPT ![k].pc = "credit", ![k].wallet = wallet]
    BY <1>6 DEF HandleCardUpdated, HandleCardTerminated, CreditTermination,
                CreateTerminationRow, HookEnds
  <2>2. /\ hook'[k].pc \in {"idle", "row", "credit"}
        /\ \A l \in Deliveries \ {k} : hook'[l] = hook[l]
    BY <1>1, <2>1 DEF HookEnds, HookGoes, NoDelivery, Delivery
  <2>3. statement' = statement /\ acked' = acked /\ doubtful' = doubtful
    BY <1>6 DEF HandleCardUpdated, HandleCardTerminated, CreditTermination,
                CreateTerminationRow
  <2>4. QED
    BY <1>4, <2>2, <2>3
<1>7. CASE UNCHANGED svars
  BY <1>4, <1>7 DEF svars
<1>8. CASE CrashOfAll
  <2>1. \A l \in Deliveries : hook'[l].pc = "idle"
    BY <1>8 DEF CrashOfAll, NoDelivery
  <2>2. QED
    BY <1>4, <1>8, <2>1 DEF CrashOfAll
<1>9. QED
  BY <1>2, <1>3, <1>5, <1>6, <1>7, <1>8, StepCases, HookCases

\* The statement of a Sudo card shows every payment of which a delivery was
\* answered without an error, and shows it once unless two deliveries stored
\* it together or it could not be looked up: who is about to store a payment
\* has seen that it is not there (handleTransactionCreated,
\* handleAuthorizationDeclined, handleTransactionRefund).
THEOREM PaymentsAreShown == CardsSpec => []StatementShowsPayments
<1>1. StatementInv => StatementShowsPayments
  BY DEF StatementInv
<1>2. QED
  BY <1>1, AlwaysPlace, InitStatement, StepStatement, PTL DEF CardsSpec
=============================================================================
