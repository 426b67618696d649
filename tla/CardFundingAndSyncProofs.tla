---------------------- MODULE CardFundingAndSyncProofs ----------------------
(***************************************************************************)
(* Proofs about CardFunding, for any executions, cards, amounts and        *)
(* bounds: the wallet and the cards follow the provider unless two         *)
(* executions crossed on them or one was interrupted, and a row tells what *)
(* the provider did.  Then proofs about CardSync, for any customers, cards *)
(* and syncs: what a sync found is stored, and once, and whom a recorded   *)
(* sync has mapped.                                                        *)
(***************************************************************************)
EXTENDS CardFunding, CardSync, SumLemmas, TLAPS

(***************************************************************************)
(* Types                                                                   *)
(***************************************************************************)
Execution == [pc : Steps, wallet : Int, card : Int]

LEMMA Constants ==
  /\ OpeningWallet \in Int /\ OpeningCard \in Int
  /\ \A o \in Ops : CardOf[o] \in Cards /\ Sum[o] \in Int
  /\ \A o \in Fundings : o \in Ops /\ o \notin Withdrawals
  /\ \A o \in Withdrawals : o \in Ops /\ o \notin Fundings
  /\ IsFiniteSet(Fundings) /\ IsFiniteSet(Withdrawals)
  BY CardAssumption DEF Ops

LEMMA StepNames ==
  /\ {"idle", "fundrow", "refundread", "request", "draw", "drawread",
      "creditread", "succeed", "fail", "done", "dead", "reserve", "fund",
      "fundread", "fundcard", "fundwallet", "refund", "drawcard",
      "drawwallet", "credit", "walletread"} = Steps
  BY DEF Steps, WalletWindow, CardWindow

LEMMA InitCardType == CardInit => CardTypeOK
  BY Constants, StepNames DEF CardInit, CardTypeOK, RowStatus

\* What the execution o becomes, and that the others are left alone.
Becomes(o, r) ==
    /\ op' = [op EXCEPT ![o] = r]
    /\ r \in Execution
    /\ op[o].pc \notin {"done", "dead"}
    /\ r.pc \notin {"idle", "dead"}

LEMMA Moved ==
  ASSUME CardTypeOK, NEW o \in Ops, FundCard(o) \/ WithdrawFromCard(o)
  PROVE  \E r : Becomes(o, r)
<1>1. op[o] \in Execution /\ wallet \in Int /\ card[CardOf[o]] \in Int
  BY Constants DEF CardTypeOK, Execution
<1>2. \A pc \in Steps, w, k \in Int :
         /\ [op[o] EXCEPT !.pc = pc] \in Execution
         /\ [op[o] EXCEPT !.pc = pc, !.wallet = w] \in Execution
         /\ [op[o] EXCEPT !.pc = pc, !.card = k] \in Execution
  BY <1>1 DEF Execution
<1>3. ASSUME NEW pc \in Steps \ {"idle", "dead"},
             op[o].pc \notin {"done", "dead"}, Goto(o, pc)
      PROVE  \E r : Becomes(o, r)
  <2>1. op' = [op EXCEPT ![o] = [op[o] EXCEPT !.pc = pc]]
    BY <1>3 DEF Goto
  <2>2. Becomes(o, [op[o] EXCEPT !.pc = pc])
    BY <1>1, <1>2, <1>3, <2>1 DEF Becomes, Execution
  <2>3. QED
    BY <2>2
<1>4. ASSUME NEW pc \in Steps \ {"idle", "dead"},
             op[o].pc \notin {"done", "dead"},
             \/ op' = [op EXCEPT ![o].pc = pc, ![o].wallet = wallet]
             \/ op' = [op EXCEPT ![o].pc = pc, ![o].card = card[CardOf[o]]]
      PROVE  \E r : Becomes(o, r)
  <2>1. PICK r \in {[op[o] EXCEPT !.pc = pc, !.wallet = wallet],
                    [op[o] EXCEPT !.pc = pc, !.card = card[CardOf[o]]]} :
           op' = [op EXCEPT ![o] = r]
    BY <1>4
  <2>2. Becomes(o, r)
    BY <1>1, <1>2, <1>4, <2>1 DEF Becomes, Execution
  <2>3. QED
    BY <2>2
<1>5. CASE FundCard(o)
  <2>1. \E pc \in Steps \ {"idle", "dead"} :
           \/ Goto(o, pc)
           \/ op' = [op EXCEPT ![o].pc = pc, ![o].wallet = wallet]
           \/ op' = [op EXCEPT ![o].pc = pc, ![o].card = card[CardOf[o]]]
    BY <1>5, StepNames
       DEF FundCard, ReadReserve, WriteReserve, FundAtProvider, ReadFundedCard,
           WriteFundedCard, WriteFundedWallet, CreateFundingRow, ReadRefund,
           WriteRefund, Fault
  <2>2. op[o].pc \notin {"done", "dead"}
    BY <1>5
       DEF FundCard, ReadReserve, WriteReserve, FundAtProvider, ReadFundedCard,
           WriteFundedCard, WriteFundedWallet, CreateFundingRow, ReadRefund,
           WriteRefund
  <2>3. QED
    BY <1>3, <1>4, <2>1, <2>2
<1>6. CASE WithdrawFromCard(o)
  <2>1. \E pc \in Steps \ {"idle", "dead"} :
           \/ Goto(o, pc)
           \/ op' = [op EXCEPT ![o].pc = pc, ![o].wallet = wallet]
           \/ op' = [op EXCEPT ![o].pc = pc, ![o].card = card[CardOf[o]]]
    BY <1>6, StepNames
       DEF WithdrawFromCard, CheckCard, CreateWithdrawalRow, DrawAtProvider,
           ReadDrawnCard, ReadDrawnWallet, WriteDrawnCard, WriteDrawnWallet,
           ReadCredit, WriteCredit, Credit, UpdateWithSuccess, FailWithdrawal,
           CloseRow, Fault
  <2>2. op[o].pc \notin {"done", "dead"}
    BY <1>6
       DEF WithdrawFromCard, CheckCard, CreateWithdrawalRow, DrawAtProvider,
           ReadDrawnCard, ReadDrawnWallet, WriteDrawnCard, WriteDrawnWallet,
           ReadCredit, WriteCredit, UpdateWithSuccess, FailWithdrawal, CloseRow
  <2>3. QED
    BY <1>3, <1>4, <2>1, <2>2
<1>7. QED
  BY <1>5, <1>6

\* A step of o touches no other execution, and history only grows.
Frame(o) ==
    /\ \A q \in Ops \ {o} :
          /\ op'[q] = op[q] /\ row'[q] = row[q] /\ credits'[q] = credits[q]
          /\ q \in executed' <=> q \in executed
          /\ q \in interrupted' <=> q \in interrupted
    /\ executed \subseteq executed'
    /\ interrupted \subseteq interrupted'
    /\ overlapped \subseteq overlapped'

\* What a step of o may write beside its place.
WritesMoney(o) ==
    /\ wallet' \in Int
    /\ \/ card' = card
       \/ \E n \in Int : card' = [card EXCEPT ![CardOf[o]] = n]
    /\ \/ onCard' = onCard
       \/ \E n \in Int : onCard' = [onCard EXCEPT ![CardOf[o]] = n]
    /\ faults' \in Nat /\ stops' = stops

WritesNotes(o) ==
    /\ executed' \in {executed, executed \cup {o}}
    /\ interrupted' \in {interrupted, interrupted \cup {o}}
    /\ overlapped' \in {overlapped, overlapped \cup {"wallet"},
                         overlapped \cup {CardOf[o]}}
    /\ \/ row' = row
       \/ \E s \in RowStatus : row' = [row EXCEPT ![o] = s]
    /\ credits' = credits \/ credits' = [credits EXCEPT ![o] = @ + 1]

LEMMA Writes ==
  ASSUME CardTypeOK, NEW o \in Ops, FundCard(o) \/ WithdrawFromCard(o)
  PROVE  WritesMoney(o) /\ WritesNotes(o)
<1>1. /\ CardOf[o] \in Cards /\ Sum[o] \in Int
      /\ op[o].wallet \in Int /\ op[o].card \in Int
      /\ onCard[CardOf[o]] \in Int /\ wallet \in Int /\ faults \in Nat
  BY Constants DEF CardTypeOK
<1>2. /\ op[o].wallet - Sum[o] \in Int /\ op[o].wallet + Sum[o] \in Int
      /\ op[o].card - Sum[o] \in Int /\ op[o].card + Sum[o] \in Int
      /\ onCard[CardOf[o]] + Sum[o] \in Int
      /\ onCard[CardOf[o]] - Sum[o] \in Int
      /\ faults + 1 \in Nat
  BY <1>1
<1>3. CASE FundCard(o)
  <2>1. WritesMoney(o)
    BY <1>1, <1>2, <1>3
       DEF FundCard, ReadReserve, WriteReserve, FundAtProvider, ReadFundedCard,
           WriteFundedCard, WriteFundedWallet, CreateFundingRow, ReadRefund,
           WriteRefund, Fault, SetWallet, SetCard, PutOnCard, WritesMoney
  <2>2. WritesNotes(o)
    BY <1>3
       DEF FundCard, ReadReserve, WriteReserve, FundAtProvider, ReadFundedCard,
           WriteFundedCard, WriteFundedWallet, CreateFundingRow, ReadRefund,
           WriteRefund, Fault, SetWallet, SetCard, PutOnCard, RowStatus,
           WritesNotes
  <2>3. QED
    BY <2>1, <2>2
<1>4. CASE WithdrawFromCard(o)
  <2>1. WritesMoney(o)
    BY <1>1, <1>2, <1>4
       DEF WithdrawFromCard, CheckCard, CreateWithdrawalRow, DrawAtProvider,
           ReadDrawnCard, ReadDrawnWallet, WriteDrawnCard, WriteDrawnWallet,
           ReadCredit, WriteCredit, Credit, UpdateWithSuccess, FailWithdrawal,
           CloseRow, Fault, SetWallet, SetCard, TakeFromCard, WritesMoney
  <2>2. WritesNotes(o)
    BY <1>4
       DEF WithdrawFromCard, CheckCard, CreateWithdrawalRow, DrawAtProvider,
           ReadDrawnCard, ReadDrawnWallet, WriteDrawnCard, WriteDrawnWallet,
           ReadCredit, WriteCredit, Credit, UpdateWithSuccess, FailWithdrawal,
           CloseRow, Fault, SetWallet, SetCard, TakeFromCard, RowStatus,
           WritesNotes
  <2>3. QED
    BY <2>1, <2>2
<1>5. QED
  BY <1>3, <1>4

LEMMA StepFrame ==
  ASSUME CardTypeOK, NEW o \in Ops, FundCard(o) \/ WithdrawFromCard(o)
  PROVE  Frame(o) /\ CardTypeOK'
<1>1. PICK r : Becomes(o, r)
  BY Moved
<1>2. op' \in [Ops -> Execution] /\ \A q \in Ops \ {o} : op'[q] = op[q]
  BY <1>1 DEF Becomes, CardTypeOK, Execution
<1>3. CardOf[o] \in Cards /\ WritesMoney(o) /\ WritesNotes(o)
  BY Constants, Writes
<1>4. /\ row' \in [Ops -> RowStatus] /\ credits' \in [Ops -> Nat]
      /\ \A q \in Ops \ {o} : row'[q] = row[q] /\ credits'[q] = credits[q]
  BY <1>3 DEF WritesNotes, CardTypeOK
<1>5. Frame(o)
  BY <1>2, <1>3, <1>4 DEF Frame, WritesNotes
<1>6. card' \in [Cards -> Int] /\ onCard' \in [Cards -> Int]
  BY <1>3 DEF WritesMoney, CardTypeOK
<1>7. /\ executed' \in SUBSET Ops /\ interrupted' \in SUBSET Ops
      /\ overlapped' \in SUBSET ({"wallet"} \cup Cards)
  BY <1>3 DEF WritesNotes, CardTypeOK
<1>8. wallet' \in Int /\ faults' \in Nat /\ stops' \in Nat
  BY <1>3 DEF WritesMoney, CardTypeOK
<1>9. CardTypeOK'
  BY <1>2, <1>4, <1>6, <1>7, <1>8 DEF CardTypeOK, Execution
<1>10. QED
  BY <1>5, <1>9

LEMMA StopFrame ==
  ASSUME CardTypeOK, Stop
  PROVE  /\ CardTypeOK'
         /\ \A o \in Ops : \/ op'[o] = op[o]
                           \/ op'[o].pc = "dead"
         /\ UNCHANGED <<wallet, card, onCard, row, executed, credits,
                        interrupted, overlapped>>
<1>1. \A o \in Ops : [op[o] EXCEPT !.pc = "dead"] \in Execution
  BY StepNames DEF CardTypeOK, Execution
<1>2. op' \in [Ops -> Execution]
  BY <1>1 DEF Stop, CardTypeOK, Execution
<1>3. \A o \in Ops : op'[o] = op[o] \/ op'[o].pc = "dead"
  BY DEF Stop, CardTypeOK
<1>4. QED
  BY <1>2, <1>3 DEF Stop, CardTypeOK, Execution

LEMMA NextCardType == CardTypeOK /\ [CardNext]_cvars => CardTypeOK'
<1>1. ASSUME CardTypeOK, UNCHANGED cvars PROVE CardTypeOK'
  BY <1>1 DEF cvars, CardTypeOK
<1>2. QED
  BY <1>1, StepFrame, StopFrame DEF CardNext

\* For any executions and cards: the state is always of its type.
THEOREM CardTypeCorrect == CardSpec => []CardTypeOK
  BY InitCardType, NextCardType, PTL DEF CardSpec

-----------------------------------------------------------------------------
(***************************************************************************)
(* The fate of an execution                                                *)
(***************************************************************************)
Undone == {"idle", "reserve", "fund", "request", "draw"}
GivenUp == {"refundread", "refund", "fail"}
CarriedOut == {"fundread", "fundcard", "fundwallet", "fundrow", "drawread",
               "walletread", "drawcard", "drawwallet", "creditread", "credit",
               "succeed"}
FundingSteps == {"reserve", "fund", "fundread", "fundcard", "fundwallet",
                 "fundrow", "refundread", "refund"}
WithdrawalSteps == {"request", "draw", "drawread", "walletread", "drawcard",
                    "drawwallet", "creditread", "credit", "succeed", "fail"}

\* What the place of an execution says of the provider, of its row and of
\* the credits it has made.
Fate(o) ==
    /\ op[o].pc \in FundingSteps => o \in Fundings
    /\ op[o].pc \in WithdrawalSteps => o \in Withdrawals
    /\ op[o].pc \in Undone => o \notin executed
    /\ op[o].pc \in CarriedOut => o \in executed
    /\ op[o].pc \in GivenUp /\ o \notin interrupted => o \notin executed
    /\ row[o] = "SUCCESS" => o \in executed
    /\ op[o].pc = "done" /\ o \in executed /\ o \notin interrupted
          => row[o] = "SUCCESS"

FateInv == \A o \in Ops : Fate(o)

LEMMA InitFate == CardInit => FateInv
  BY DEF CardInit, FateInv, Fate, Undone, GivenUp, CarriedOut, FundingSteps,
         WithdrawalSteps

LEMMA FateOfFunding ==
  ASSUME CardTypeOK, FateInv, NEW o \in Ops, FundCard(o)
  PROVE  Fate(o)'
<1>1. CardTypeOK' /\ Fate(o) /\ op[o] \in Execution
  BY StepFrame DEF FateInv, CardTypeOK, Execution
<1>2. CASE ReadReserve(o) \/ WriteReserve(o) \/ FundAtProvider(o)
  BY <1>1, <1>2 DEF ReadReserve, WriteReserve, FundAtProvider, Fault, Goto,
       PutOnCard, CardTypeOK, Fate, Undone, GivenUp, CarriedOut,
       FundingSteps, WithdrawalSteps
<1>3. CASE ReadFundedCard(o) \/ WriteFundedCard(o) \/ WriteFundedWallet(o)
  BY <1>1, <1>3 DEF ReadFundedCard, WriteFundedCard, WriteFundedWallet,
       Fault, Goto, CardTypeOK, Fate, Undone, GivenUp, CarriedOut,
       FundingSteps, WithdrawalSteps
<1>4. CASE CreateFundingRow(o) \/ ReadRefund(o) \/ WriteRefund(o)
  BY <1>1, <1>4 DEF CreateFundingRow, ReadRefund, WriteRefund, Fault, Goto,
       CardTypeOK, Fate, Undone, GivenUp, CarriedOut, FundingSteps,
       WithdrawalSteps
<1>5. QED
  BY <1>2, <1>3, <1>4 DEF FundCard

LEMMA FateOfWithdrawal ==
  ASSUME CardTypeOK, FateInv, NEW o \in Ops, WithdrawFromCard(o)
  PROVE  Fate(o)'
<1>1. CardTypeOK' /\ Fate(o) /\ op[o] \in Execution
  BY StepFrame DEF FateInv, CardTypeOK, Execution
<1>2. CASE CheckCard(o) \/ CreateWithdrawalRow(o) \/ DrawAtProvider(o)
  BY <1>1, <1>2 DEF CheckCard, CreateWithdrawalRow, DrawAtProvider, Fault,
       Goto, TakeFromCard, CardTypeOK, Fate, Undone, GivenUp, CarriedOut,
       FundingSteps, WithdrawalSteps
<1>3. CASE ReadDrawnCard(o) \/ ReadDrawnWallet(o) \/ WriteDrawnCard(o)
  BY <1>1, <1>3 DEF ReadDrawnCard, ReadDrawnWallet, WriteDrawnCard, Fault,
       Goto, CardTypeOK, Fate, Undone, GivenUp, CarriedOut, FundingSteps,
       WithdrawalSteps
<1>4. CASE WriteDrawnWallet(o) \/ ReadCredit(o) \/ WriteCredit(o)
  BY <1>1, <1>4 DEF WriteDrawnWallet, ReadCredit, WriteCredit, Credit, Fault,
       Goto, CardTypeOK, Fate, Undone, GivenUp, CarriedOut, FundingSteps,
       WithdrawalSteps
<1>5. CASE UpdateWithSuccess(o) \/ FailWithdrawal(o)
  BY <1>1, <1>5 DEF UpdateWithSuccess, FailWithdrawal, CloseRow, Fault, Goto,
       CardTypeOK, Fate, Undone, GivenUp, CarriedOut, FundingSteps,
       WithdrawalSteps
<1>6. QED
  BY <1>2, <1>3, <1>4, <1>5 DEF WithdrawFromCard

LEMMA NextFate == CardTypeOK /\ FateInv /\ [CardNext]_cvars => FateInv'
<1> SUFFICES ASSUME CardTypeOK, FateInv, [CardNext]_cvars PROVE FateInv'
  OBVIOUS
<1>1. ASSUME NEW o \in Ops, FundCard(o) \/ WithdrawFromCard(o) PROVE FateInv'
  <2>1. Fate(o)'
    BY <1>1, FateOfFunding, FateOfWithdrawal
  <2>2. ASSUME NEW q \in Ops \ {o} PROVE Fate(q)'
    BY <1>1, StepFrame DEF Frame, FateInv, Fate
  <2>3. QED
    BY <2>1, <2>2 DEF FateInv
<1>2. CASE Stop
  BY <1>2, StopFrame DEF FateInv, Fate, Undone, GivenUp, CarriedOut,
       FundingSteps, WithdrawalSteps
<1>3. CASE UNCHANGED cvars
  BY <1>3 DEF cvars, FateInv, Fate
<1>4. QED
  BY <1>1, <1>2, <1>3 DEF CardNext

\* For any executions: no row is SUCCESS for something the provider did not
\* do, and what it did for an execution that was not interrupted is told
\* (card.fund.service.ts and card.withdraw.service.ts).
THEOREM RowsTellOutcomes == CardSpec => []RowTellsOutcome
<1>1. FateInv => RowTellsOutcome
  BY DEF FateInv, Fate, RowTellsOutcome
<1>2. QED
  BY <1>1, InitCardType, NextCardType, InitFate, NextFate, PTL DEF CardSpec

-----------------------------------------------------------------------------
(***************************************************************************)
(* The wallet.  As long as nothing was interrupted and no two executions   *)
(* crossed on the wallet, an execution that has read the wallet and is to  *)
(* write it holds its balance: the balance before its reservation, when it *)
(* has written that one.                                                   *)
(***************************************************************************)
Clean == /\ interrupted = {}
         /\ "wallet" \notin overlapped
         /\ \A o \in Ops : op[o].pc # "dead"

Held(o) ==
    /\ op[o].pc \in {"reserve", "refund", "drawcard", "drawwallet", "credit"}
          => op[o].wallet = wallet
    /\ op[o].pc \in {"fund", "fundread", "fundcard", "fundwallet"}
          => op[o].wallet - Sum[o] = wallet

\* The reservation that a funding has on the wallet, and the credits that a
\* withdrawal has made.
Charged(o) ==
    IF \/ op[o].pc \in {"fund", "fundread", "fundcard", "fundwallet",
                        "fundrow", "refundread", "refund"}
       \/ op[o].pc = "done" /\ o \in executed
    THEN Sum[o] ELSE 0

Charge == [o \in Fundings |-> Charged(o)]

Paid(o) ==
    credits[o] = IF op[o].pc \in {"creditread", "credit"} THEN 1
                 ELSE IF \/ op[o].pc = "succeed"
                         \/ op[o].pc = "done" /\ o \in executed THEN 2
                 ELSE 0

WalletInv ==
    Clean =>
       /\ wallet = OpeningWallet - SumFunctionOnSet(Charge, Fundings)
                                 + SumFunctionOnSet(Credited, Withdrawals)
       /\ \A o \in Ops : Held(o)
       /\ \A o \in Withdrawals : Paid(o)

LEMMA InitWallet == CardInit => WalletInv
<1> SUFFICES ASSUME CardInit PROVE WalletInv
  OBVIOUS
<1>1. \A o \in Ops : op[o].pc = "idle" /\ credits[o] = 0
  BY DEF CardInit
<1>2. \A o \in Fundings : Charge[o] = 0
  BY <1>1, Constants DEF Charge, Charged
<1>3. SumFunctionOnSet(Charge, Fundings) = 0
  BY <1>2, Constants, SumOfZeros
<1>4. \A n \in Int : 0 * n = 0
  OBVIOUS
<1>5. \A o \in Withdrawals : Credited[o] = 0
  BY <1>1, <1>4, Constants DEF Credited
<1>6. SumFunctionOnSet(Credited, Withdrawals) = 0
  BY <1>5, Constants, SumOfZeros
<1>7. wallet = OpeningWallet /\ OpeningWallet \in Int
  BY Constants DEF CardInit
<1>8. \A o \in Ops : Held(o)
  BY <1>1 DEF Held
<1>9. \A o \in Withdrawals : Paid(o)
  BY <1>1, Constants DEF Paid, CardInit
<1>10. QED
  BY <1>3, <1>6, <1>7, <1>8, <1>9 DEF WalletInv

LEMMA StillClean ==
  ASSUME CardTypeOK, [CardNext]_cvars, Clean'
  PROVE  Clean
<1>1. ASSUME NEW o \in Ops, FundCard(o) \/ WithdrawFromCard(o) PROVE Clean
  <2>1. op[o].pc # "dead"
    BY <1>1, Moved DEF Becomes
  <2>2. Frame(o)
    BY <1>1, StepFrame
  <2>3. interrupted = {} /\ "wallet" \notin overlapped
    BY <2>2 DEF Frame, Clean
  <2>4. \A q \in Ops : op[q].pc # "dead"
    BY <2>1, <2>2 DEF Frame, Clean
  <2>5. QED
    BY <2>3, <2>4 DEF Clean
<1>2. CASE Stop
  <2>1. op \in [Ops -> Execution] /\ \A q \in Ops : op'[q].pc # "dead"
    BY DEF CardTypeOK, Execution, Clean
  <2>2. \A q \in Ops : op[q].pc # "dead"
    BY <1>2, <2>1 DEF Stop
  <2>3. QED
    BY <1>2, <2>2 DEF Stop, Clean
<1>3. CASE UNCHANGED cvars
  BY <1>3 DEF cvars, Clean
<1>4. QED
  BY <1>1, <1>2, <1>3 DEF CardNext

\* Nobody else is about to write what he computed from the wallet.
Alone(o) == \A q \in Ops \ {o} : op[q].pc \notin WalletWindow

LEMMA WalletAfterFunding ==
  ASSUME CardTypeOK, FateInv, WalletInv, NEW o \in Ops, FundCard(o), Clean,
         Clean'
  PROVE  /\ o \in Fundings /\ credits' = credits
         /\ wallet' = wallet - Charged(o)' + Charged(o)
         /\ wallet' = wallet \/ Alone(o)
         /\ Held(o)'
<1>1. /\ op[o] \in [pc : Steps, wallet : Int, card : Int]
      /\ op \in [Ops -> [pc : Steps, wallet : Int, card : Int]]
      /\ Sum[o] \in Int /\ wallet \in Int /\ op[o].wallet \in Int
      /\ o \notin interrupted /\ interrupted' = {}
      /\ Held(o) /\ Fate(o)
      /\ "wallet" \notin overlapped'
  BY Constants DEF CardTypeOK, WalletInv, FateInv, Clean
<1>2. CASE ReadReserve(o) \/ ReadRefund(o)
  BY <1>1, <1>2 DEF ReadReserve, ReadRefund, Fault, Goto, Held, Charged, Fate,
       FundingSteps, Undone, GivenUp
<1>3. CASE WriteReserve(o) \/ WriteFundedWallet(o)
  BY <1>1, <1>3 DEF WriteReserve, WriteFundedWallet, Fault, Goto, SetWallet,
       Alone, Held, Charged, Fate, FundingSteps
<1>4. CASE WriteRefund(o)
  BY <1>1, <1>4 DEF WriteRefund, Fault, Goto, SetWallet, Alone, Held, Charged,
       Fate, FundingSteps, GivenUp
<1>5. CASE FundAtProvider(o)
  BY <1>1, <1>5 DEF FundAtProvider, PutOnCard, Goto, Held, Charged, Fate,
       FundingSteps
<1>6. CASE ReadFundedCard(o) \/ WriteFundedCard(o) \/ CreateFundingRow(o)
  BY <1>1, <1>6 DEF ReadFundedCard, WriteFundedCard, CreateFundingRow, Fault,
       Goto, Held, Charged, Fate, FundingSteps, CarriedOut
<1>7. QED
  BY <1>2, <1>3, <1>4, <1>5, <1>6 DEF FundCard

LEMMA WalletAfterWithdrawal ==
  ASSUME CardTypeOK, FateInv, WalletInv, NEW o \in Ops, WithdrawFromCard(o),
         Clean, Clean'
  PROVE  /\ o \in Withdrawals
         /\ \/ wallet' = wallet /\ credits' = credits
            \/ /\ wallet' = wallet + Sum[o]
               /\ credits' = [credits EXCEPT ![o] = @ + 1]
               /\ Alone(o)
         /\ Held(o)' /\ Paid(o)'
<1>1. /\ op[o] \in [pc : Steps, wallet : Int, card : Int]
      /\ op \in [Ops -> [pc : Steps, wallet : Int, card : Int]]
      /\ Sum[o] \in Int /\ wallet \in Int /\ op[o].wallet \in Int
      /\ credits \in [Ops -> Nat] /\ credits[o] \in Nat
      /\ o \notin interrupted /\ interrupted' = {}
      /\ Held(o) /\ Fate(o)
      /\ "wallet" \notin overlapped'
  BY Constants DEF CardTypeOK, WalletInv, FateInv, Clean
<1>2. o \in Withdrawals
  BY <1>1 DEF WithdrawFromCard, CheckCard, CreateWithdrawalRow, DrawAtProvider,
       ReadDrawnCard, ReadDrawnWallet, WriteDrawnCard, WriteDrawnWallet,
       ReadCredit, WriteCredit, UpdateWithSuccess, FailWithdrawal, CloseRow,
       Fate, WithdrawalSteps
<1>3. Paid(o)
  BY <1>2 DEF WalletInv
<1>4. CASE CheckCard(o) \/ CreateWithdrawalRow(o) \/ DrawAtProvider(o)
  BY <1>1, <1>2, <1>3, <1>4 DEF CheckCard, CreateWithdrawalRow,
       DrawAtProvider, TakeFromCard, Fault, Goto, Held, Paid, Fate, Undone
<1>5. CASE ReadDrawnCard(o) \/ ReadDrawnWallet(o) \/ WriteDrawnCard(o)
  BY <1>1, <1>2, <1>3, <1>5 DEF ReadDrawnCard, ReadDrawnWallet,
       WriteDrawnCard, Fault, Goto, Held, Paid
<1>6. CASE WriteDrawnWallet(o) \/ WriteCredit(o)
  BY <1>1, <1>2, <1>3, <1>6 DEF WriteDrawnWallet, WriteCredit, Credit, Fault,
       Goto, SetWallet, Alone, Held, Paid
<1>7. CASE ReadCredit(o)
  BY <1>1, <1>2, <1>3, <1>7 DEF ReadCredit, Fault, Goto, Held, Paid
<1>8. CASE UpdateWithSuccess(o) \/ FailWithdrawal(o)
  BY <1>1, <1>2, <1>3, <1>8 DEF UpdateWithSuccess, FailWithdrawal, CloseRow,
       Fault, Goto, Held, Paid, Fate, CarriedOut, GivenUp
<1>9. QED
  BY <1>2, <1>4, <1>5, <1>6, <1>7, <1>8 DEF WithdrawFromCard

LEMMA SumTypes ==
  ASSUME CardTypeOK
  PROVE  /\ \A o \in Fundings : Charge[o] = Charged(o) /\ Charge[o] \in Int
         /\ \A o \in Withdrawals : Credited[o] \in Int
         /\ SumFunctionOnSet(Charge, Fundings) \in Int
         /\ SumFunctionOnSet(Credited, Withdrawals) \in Int
<1>1. \A o \in Fundings : Charge[o] = Charged(o) /\ Charge[o] \in Int
  BY Constants DEF Charge, Charged
<1>2. \A o \in Withdrawals : credits[o] \in Int /\ Sum[o] \in Int
  BY Constants DEF CardTypeOK
<1>3. \A o \in Withdrawals : Credited[o] \in Int
  BY <1>2 DEF Credited
<1>4. QED
  BY <1>1, <1>3, Constants, SumIsInt

\* The reservation of one funding changes.
LEMMA ChargeChanges ==
  ASSUME CardTypeOK, CardTypeOK', NEW o \in Fundings, Frame(o)
  PROVE  SumFunctionOnSet(Charge', Fundings) =
            SumFunctionOnSet(Charge, Fundings) - Charged(o) + Charged(o)'
<1> DEFINE old == Charge
           new == Charge'
<1>1. /\ \A q \in Fundings : old[q] = Charged(q) /\ old[q] \in Int
      /\ new[o] = Charged(o)' /\ new[o] \in Int
  BY Constants, SumTypes DEF Charge, Charged
<1>2. \A q \in Fundings \ {o} : new[q] = old[q]
  BY Constants DEF Frame, Charge, Charged
<1>3. IsFiniteSet(Fundings) /\ \A q \in Fundings : old[q] \in Int
  BY <1>1, Constants
<1>4. new[o] \in Int
  BY <1>1
<1> HIDE DEF old, new
<1>5. SumFunctionOnSet(new, Fundings) =
         SumFunctionOnSet(old, Fundings) - old[o] + new[o]
  BY <1>2, <1>3, <1>4, SumOfOneChange
<1>6. QED
  BY <1>1, <1>5 DEF old, new

\* One more credit of a withdrawal.
LEMMA OneMoreCredit ==
  ASSUME CardTypeOK, NEW o \in Withdrawals,
         credits' = [credits EXCEPT ![o] = @ + 1]
  PROVE  SumFunctionOnSet(Credited', Withdrawals) =
            SumFunctionOnSet(Credited, Withdrawals) + Sum[o]
<1> DEFINE old == Credited
           new == Credited'
<1>1. /\ credits[o] \in Int /\ Sum[o] \in Int
      /\ credits'[o] = credits[o] + 1
      /\ \A q \in Withdrawals \ {o} : credits'[q] = credits[q]
  BY Constants DEF CardTypeOK
<1>2. \A a, b \in Int : (a + 1) * b = a * b + b
  OBVIOUS
<1>3. new[o] = old[o] + Sum[o] /\ \A q \in Withdrawals \ {o} : new[q] = old[q]
  <2>1. Credited'[o] = (credits[o] + 1) * Sum[o]
    BY <1>1 DEF Credited
  <2>2. Credited[o] = credits[o] * Sum[o]
    BY DEF Credited
  <2>3. \A q \in Withdrawals \ {o} : Credited'[q] = Credited[q]
    BY <1>1 DEF Credited
  <2>4. QED
    BY <1>1, <1>2, <2>1, <2>2, <2>3
<1>4. /\ IsFiniteSet(Withdrawals)
      /\ \A q \in Withdrawals : old[q] \in Int
      /\ SumFunctionOnSet(old, Withdrawals) \in Int
  BY SumTypes, Constants
<1> HIDE DEF old, new
<1>5. new[o] \in Int
  BY <1>1, <1>3, <1>4
<1>6. SumFunctionOnSet(new, Withdrawals) =
         SumFunctionOnSet(old, Withdrawals) - old[o] + new[o]
  BY <1>3, <1>4, <1>5, SumOfOneChange
<1>7. SumFunctionOnSet(new, Withdrawals) =
         SumFunctionOnSet(old, Withdrawals) + Sum[o]
  BY <1>1, <1>3, <1>4, <1>5, <1>6
<1>8. QED
  BY <1>7 DEF old, new

\* The others hold what they held, for the wallet is as it was, or they are
\* not about to write it.
LEMMA OthersHold ==
  ASSUME CardTypeOK, NEW o \in Ops, Frame(o), NEW q \in Ops \ {o}, Held(q),
         wallet' = wallet \/ Alone(o)
  PROVE  Held(q)'
  BY DEF Frame, Held, Alone, WalletWindow

LEMMA NextWallet ==
  CardTypeOK /\ FateInv /\ WalletInv /\ [CardNext]_cvars => WalletInv'
<1> SUFFICES ASSUME CardTypeOK, FateInv, WalletInv, [CardNext]_cvars, Clean'
             PROVE  /\ wallet' = OpeningWallet
                                   - SumFunctionOnSet(Charge', Fundings)
                                   + SumFunctionOnSet(Credited', Withdrawals)
                    /\ \A o \in Ops : Held(o)'
                    /\ \A o \in Withdrawals : Paid(o)'
  BY DEF WalletInv
<1>1. Clean
  BY StillClean
<1>2. /\ wallet = OpeningWallet - SumFunctionOnSet(Charge, Fundings)
                                + SumFunctionOnSet(Credited, Withdrawals)
      /\ \A o \in Ops : Held(o)
      /\ \A o \in Withdrawals : Paid(o)
  BY <1>1 DEF WalletInv
<1>3. /\ SumFunctionOnSet(Charge, Fundings) \in Int
      /\ SumFunctionOnSet(Credited, Withdrawals) \in Int
      /\ OpeningWallet \in Int
  BY SumTypes, Constants
<1>4. ASSUME NEW o \in Ops, FundCard(o)
      PROVE  /\ wallet' = OpeningWallet - SumFunctionOnSet(Charge', Fundings)
                            + SumFunctionOnSet(Credited', Withdrawals)
             /\ \A q \in Ops : Held(q)'
             /\ \A q \in Withdrawals : Paid(q)'
  <2>1. /\ o \in Fundings /\ credits' = credits
        /\ wallet' = wallet - Charged(o)' + Charged(o)
        /\ wallet' = wallet \/ Alone(o)
        /\ Held(o)'
    BY <1>1, <1>4, WalletAfterFunding
  <2>2. Frame(o) /\ CardTypeOK'
    BY <1>4, StepFrame
  <2>3. Credited' = Credited
    BY <2>1 DEF Credited
  <2>4. Charged(o) \in Int /\ Charged(o)' \in Int
    BY <2>1, Constants DEF Charged
  <2>5. SumFunctionOnSet(Charge', Fundings) =
           SumFunctionOnSet(Charge, Fundings) - Charged(o) + Charged(o)'
    BY <2>1, <2>2, ChargeChanges
  <2>6. wallet' = OpeningWallet - SumFunctionOnSet(Charge', Fundings)
                    + SumFunctionOnSet(Credited', Withdrawals)
    BY <1>2, <1>3, <2>1, <2>3, <2>4, <2>5
  <2>7. \A q \in Ops : Held(q)'
    BY <1>2, <2>1, <2>2, OthersHold
  <2>8. \A q \in Withdrawals : Paid(q)'
    BY <1>2, <2>1, <2>2, Constants DEF Frame, Paid
  <2>9. QED
    BY <2>6, <2>7, <2>8
<1>5. ASSUME NEW o \in Ops, WithdrawFromCard(o)
      PROVE  /\ wallet' = OpeningWallet - SumFunctionOnSet(Charge', Fundings)
                            + SumFunctionOnSet(Credited', Withdrawals)
             /\ \A q \in Ops : Held(q)'
             /\ \A q \in Withdrawals : Paid(q)'
  <2>1. /\ o \in Withdrawals /\ Held(o)' /\ Paid(o)'
        /\ \/ wallet' = wallet /\ credits' = credits
           \/ /\ wallet' = wallet + Sum[o]
              /\ credits' = [credits EXCEPT ![o] = @ + 1]
              /\ Alone(o)
    BY <1>1, <1>5, WalletAfterWithdrawal
  <2>2. Frame(o) /\ CardTypeOK'
    BY <1>5, StepFrame
  <2>3. Charge' = Charge
    BY <2>1, <2>2, Constants DEF Frame, Charge, Charged
  <2>4. wallet' = OpeningWallet - SumFunctionOnSet(Charge', Fundings)
                    + SumFunctionOnSet(Credited', Withdrawals)
    <3>1. CASE wallet' = wallet /\ credits' = credits
      <4>1. Credited' = Credited
        BY <3>1 DEF Credited
      <4>2. QED
        BY <1>2, <2>3, <3>1, <4>1
    <3>2. CASE /\ wallet' = wallet + Sum[o]
               /\ credits' = [credits EXCEPT ![o] = @ + 1]
      <4>1. SumFunctionOnSet(Credited', Withdrawals) =
               SumFunctionOnSet(Credited, Withdrawals) + Sum[o]
        BY <2>1, <3>2, OneMoreCredit
      <4>2. Sum[o] \in Int
        BY Constants
      <4>3. QED
        BY <1>2, <1>3, <2>3, <3>2, <4>1, <4>2
    <3>3. QED
      BY <2>1, <3>1, <3>2
  <2>5. \A q \in Ops : Held(q)'
    BY <1>2, <2>1, <2>2, OthersHold
  <2>6. \A q \in Withdrawals : Paid(q)'
    BY <1>2, <2>1, <2>2, Constants DEF Frame, Paid
  <2>7. QED
    BY <2>4, <2>5, <2>6
<1>6. CASE Stop \/ UNCHANGED cvars
  <2>1. /\ op' = op
        /\ UNCHANGED <<wallet, executed, credits>>
    <3>1. CASE Stop
      <4>1. op \in [Ops -> Execution] /\ op' \in [Ops -> Execution]
        BY <3>1, StopFrame DEF CardTypeOK, Execution
      <4>2. \A q \in Ops : op'[q] = op[q]
        BY <3>1, StopFrame DEF Clean
      <4>3. op' = op
        BY <4>1, <4>2
      <4>4. QED
        BY <3>1, <4>3, StopFrame
    <3>2. CASE UNCHANGED cvars
      BY <3>2 DEF cvars
    <3>3. QED
      BY <1>6, <3>1, <3>2
  <2>2. Charge' = Charge /\ Credited' = Credited
    BY <2>1 DEF Charge, Charged, Credited
  <2>3. QED
    BY <1>2, <2>1, <2>2 DEF Held, Paid
<1>7. QED
  BY <1>4, <1>5, <1>6 DEF CardNext

\* For any executions, amounts and opening balance: when nothing is under
\* way, nothing failed and no two executions crossed on it, the wallet is
\* down by what the provider put on cards and up by the credits, which are
\* for the withdrawals that it carried out and for no other (the two writes
\* of card.withdraw.service.ts, lines 417 and 609).
THEOREM WalletFollows == CardSpec => []WalletFollowsProvider
<1>1. CardTypeOK /\ FateInv /\ WalletInv => WalletFollowsProvider
  <2> SUFFICES ASSUME CardTypeOK, FateInv, WalletInv, Settled(Ops),
                      "wallet" \notin overlapped
               PROVE  /\ wallet = OpeningWallet
                            - SumFunctionOnSet(Sum, Fundings \cap executed)
                            + SumFunctionOnSet(Credited, Withdrawals)
                      /\ \A o \in Withdrawals :
                            credits[o] > 0 <=> o \in executed
    BY DEF WalletFollowsProvider
  <2>1. \A o \in Ops : op[o].pc \in {"idle", "done"}
    BY DEF Settled
  <2>2. Clean
    BY <2>1 DEF Settled, Clean, CardTypeOK
  <2>3. \A o \in Ops : op[o].pc = "idle" => o \notin executed
    BY DEF FateInv, Fate, Undone
  <2>4. \A o \in Fundings :
           /\ Sum[o] \in Int
           /\ Charge[o] = IF o \in executed THEN Sum[o] ELSE 0
    BY <2>1, <2>3, Constants DEF Charge, Charged
  <2>5. SumFunctionOnSet(Charge, Fundings) =
           SumFunctionOnSet(Sum, Fundings \cap executed)
    BY <2>4, Constants, SumOfSome
  <2>6. \A o \in Withdrawals : credits[o] = IF o \in executed THEN 2 ELSE 0
    BY <2>1, <2>2, <2>3, Constants DEF WalletInv, Paid
  <2>7. QED
    BY <2>2, <2>5, <2>6 DEF WalletInv
<1>2. QED
  BY <1>1, InitCardType, NextCardType, InitFate, NextFate, InitWallet,
     NextWallet, PTL DEF CardSpec

-----------------------------------------------------------------------------
(***************************************************************************)
(* The cards.  Between the provider's balance and the card's own stands    *)
(* what the provider has done and the code has not written yet.            *)
(***************************************************************************)
OpsOf(k) == {o \in Ops : CardOf[o] = k}

CleanCard(k) == /\ k \notin overlapped
                /\ \A o \in OpsOf(k) : /\ o \notin interrupted
                                       /\ op[o].pc # "dead"

Unwritten(o) ==
    IF op[o].pc \in {"fundread", "fundcard"} THEN Sum[o]
    ELSE IF op[o].pc \in {"drawread", "walletread", "drawcard"} THEN 0 - Sum[o]
    ELSE 0

Unwrittens == [o \in Ops |-> Unwritten(o)]

HoldsCard(o) == op[o].pc \in CardWindow => op[o].card = card[CardOf[o]]

CardInv ==
    \A k \in Cards : CleanCard(k) =>
       /\ onCard[k] = card[k] + SumFunctionOnSet(Unwrittens, OpsOf(k))
       /\ \A o \in OpsOf(k) : HoldsCard(o)

LEMMA OpsOfFinite ==
  /\ \A k : IsFiniteSet(OpsOf(k)) /\ OpsOf(k) \subseteq Ops
  /\ \A o \in Ops : Unwrittens[o] = Unwritten(o) /\ Unwritten(o) \in Int
<1>1. IsFiniteSet(Ops)
  BY Constants, FS_Union DEF Ops
<1>2. \A k : IsFiniteSet(OpsOf(k)) /\ OpsOf(k) \subseteq Ops
  BY <1>1, FS_Subset DEF OpsOf
<1>3. QED
  BY <1>2, Constants DEF Unwrittens, Unwritten

LEMMA UnwrittenSum ==
  ASSUME NEW k
  PROVE  SumFunctionOnSet(Unwrittens, OpsOf(k)) \in Int
<1>1. IsFiniteSet(OpsOf(k)) /\ \A o \in OpsOf(k) : Unwrittens[o] \in Int
  BY OpsOfFinite
<1>2. QED
  BY <1>1, SumIsInt

LEMMA InitCards == CardInit => CardInv
<1> SUFFICES ASSUME CardInit, NEW k \in Cards
             PROVE  /\ onCard[k] = card[k]
                                    + SumFunctionOnSet(Unwrittens, OpsOf(k))
                    /\ \A o \in OpsOf(k) : HoldsCard(o)
  BY DEF CardInv
<1>1. \A o \in Ops : op[o].pc = "idle"
  BY DEF CardInit
<1>2. IsFiniteSet(OpsOf(k)) /\ \A o \in OpsOf(k) : Unwrittens[o] = 0
  BY <1>1, OpsOfFinite DEF Unwritten
<1>3. SumFunctionOnSet(Unwrittens, OpsOf(k)) = 0
  BY <1>2, SumOfZeros
<1>4. onCard[k] = card[k] /\ card[k] \in Int
  BY Constants DEF CardInit
<1>5. QED
  BY <1>1, <1>3, <1>4 DEF HoldsCard, CardWindow, OpsOf

LEMMA CardStillClean ==
  ASSUME CardTypeOK, [CardNext]_cvars, NEW k, CleanCard(k)'
  PROVE  CleanCard(k)
<1>1. ASSUME NEW o \in Ops, FundCard(o) \/ WithdrawFromCard(o)
      PROVE  CleanCard(k)
  <2>1. op[o].pc # "dead" /\ Frame(o)
    BY <1>1, Moved, StepFrame DEF Becomes
  <2>2. QED
    BY <2>1 DEF Frame, CleanCard, OpsOf
<1>2. CASE Stop
  <2>1. op \in [Ops -> Execution] /\ \A q \in OpsOf(k) : op'[q].pc # "dead"
    BY DEF CardTypeOK, Execution, CleanCard
  <2>2. \A q \in OpsOf(k) : op[q].pc # "dead"
    BY <1>2, <2>1, OpsOfFinite DEF Stop
  <2>3. QED
    BY <1>2, <2>2 DEF Stop, CleanCard
<1>3. CASE UNCHANGED cvars
  BY <1>3 DEF cvars, CleanCard
<1>4. QED
  BY <1>1, <1>2, <1>3 DEF CardNext

\* Nobody else is about to write what he computed from the card.
AloneOnCard(o) == \A q \in OpsOf(CardOf[o]) \ {o} : op[q].pc \notin CardWindow

\* What a step of o does to its card, and to the balance of the provider.
OnItsCard(o) ==
    /\ onCard'[CardOf[o]] - card'[CardOf[o]] =
          onCard[CardOf[o]] - card[CardOf[o]] - Unwritten(o) + Unwritten(o)'
    /\ card' = card \/ AloneOnCard(o)
    /\ HoldsCard(o)'

LEMMA CardAfterFunding ==
  ASSUME CardTypeOK, NEW o \in Ops, FundCard(o), CleanCard(CardOf[o])',
         HoldsCard(o)
  PROVE  OnItsCard(o)
<1>1. /\ op[o] \in [pc : Steps, wallet : Int, card : Int]
      /\ op \in [Ops -> [pc : Steps, wallet : Int, card : Int]]
      /\ card \in [Cards -> Int] /\ onCard \in [Cards -> Int]
      /\ CardOf[o] \in Cards /\ card[CardOf[o]] \in Int
      /\ onCard[CardOf[o]] \in Int /\ Sum[o] \in Int /\ op[o].card \in Int
      /\ o \notin interrupted' /\ CardOf[o] \notin overlapped'
  BY Constants DEF CardTypeOK, CleanCard, OpsOf
<1>2. CASE ReadReserve(o) \/ WriteReserve(o)
  BY <1>1, <1>2 DEF ReadReserve, WriteReserve, Fault, Goto, Unwritten,
       HoldsCard, CardWindow, OnItsCard
<1>3. CASE FundAtProvider(o)
  BY <1>1, <1>3 DEF FundAtProvider, PutOnCard, Goto, Unwritten, HoldsCard,
       CardWindow, OnItsCard
<1>4. CASE ReadFundedCard(o)
  BY <1>1, <1>4 DEF ReadFundedCard, Fault, Goto, Unwritten, HoldsCard,
       CardWindow, OnItsCard
<1>5. CASE WriteFundedCard(o)
  <2>1. /\ op[o].pc = "fundcard" /\ SetCard(o, op[o].card + Sum[o])
        /\ Goto(o, "fundwallet") /\ onCard' = onCard
    BY <1>1, <1>5 DEF WriteFundedCard, Fault
  <2>2. AloneOnCard(o)
    BY <1>1, <2>1 DEF SetCard, AloneOnCard, OpsOf
  <2>3. QED
    BY <1>1, <2>1, <2>2 DEF SetCard, Goto, Unwritten, HoldsCard, CardWindow,
         OnItsCard
<1>6. CASE WriteFundedWallet(o) \/ CreateFundingRow(o)
  BY <1>1, <1>6 DEF WriteFundedWallet, CreateFundingRow, Fault, Goto,
       Unwritten, HoldsCard, CardWindow, OnItsCard
<1>7. CASE ReadRefund(o) \/ WriteRefund(o)
  BY <1>1, <1>7 DEF ReadRefund, WriteRefund, Fault, Goto, Unwritten,
       HoldsCard, CardWindow, OnItsCard
<1>8. QED
  BY <1>2, <1>3, <1>4, <1>5, <1>6, <1>7 DEF FundCard

LEMMA CardAfterWithdrawal ==
  ASSUME CardTypeOK, NEW o \in Ops, WithdrawFromCard(o),
         CleanCard(CardOf[o])', HoldsCard(o)
  PROVE  OnItsCard(o)
<1>1. /\ op[o] \in [pc : Steps, wallet : Int, card : Int]
      /\ op \in [Ops -> [pc : Steps, wallet : Int, card : Int]]
      /\ card \in [Cards -> Int] /\ onCard \in [Cards -> Int]
      /\ CardOf[o] \in Cards /\ card[CardOf[o]] \in Int
      /\ onCard[CardOf[o]] \in Int /\ Sum[o] \in Int /\ op[o].card \in Int
      /\ o \notin interrupted' /\ CardOf[o] \notin overlapped'
  BY Constants DEF CardTypeOK, CleanCard, OpsOf
<1>2. CASE CheckCard(o) \/ CreateWithdrawalRow(o)
  BY <1>1, <1>2 DEF CheckCard, CreateWithdrawalRow, Fault, Goto, Unwritten,
       HoldsCard, CardWindow, OnItsCard
<1>3. CASE DrawAtProvider(o)
  BY <1>1, <1>3 DEF DrawAtProvider, TakeFromCard, Goto, Unwritten, HoldsCard,
       CardWindow, OnItsCard
<1>4. CASE ReadDrawnCard(o) \/ ReadDrawnWallet(o)
  BY <1>1, <1>4 DEF ReadDrawnCard, ReadDrawnWallet, Fault, Goto, Unwritten,
       HoldsCard, CardWindow, OnItsCard
<1>5. CASE WriteDrawnCard(o)
  <2>1. /\ op[o].pc = "drawcard" /\ SetCard(o, op[o].card - Sum[o])
        /\ Goto(o, "drawwallet") /\ onCard' = onCard
    BY <1>1, <1>5 DEF WriteDrawnCard, Fault
  <2>2. AloneOnCard(o)
    BY <1>1, <2>1 DEF SetCard, AloneOnCard, OpsOf
  <2>3. QED
    BY <1>1, <2>1, <2>2 DEF SetCard, Goto, Unwritten, HoldsCard, CardWindow,
         OnItsCard
<1>6. CASE WriteDrawnWallet(o) \/ ReadCredit(o) \/ WriteCredit(o)
  BY <1>1, <1>6 DEF WriteDrawnWallet, ReadCredit, WriteCredit, Credit, Fault,
       Goto, Unwritten, HoldsCard, CardWindow, OnItsCard
<1>7. CASE UpdateWithSuccess(o) \/ FailWithdrawal(o)
  BY <1>1, <1>7 DEF UpdateWithSuccess, FailWithdrawal, CloseRow, Fault, Goto,
       Unwritten, HoldsCard, CardWindow, OnItsCard
<1>8. QED
  BY <1>2, <1>3, <1>4, <1>5, <1>6, <1>7 DEF WithdrawFromCard

LEMMA NextCards ==
  CardTypeOK /\ CardInv /\ [CardNext]_cvars => CardInv'
<1> SUFFICES ASSUME CardTypeOK, CardInv, [CardNext]_cvars,
                    NEW k \in Cards, CleanCard(k)'
             PROVE  /\ onCard'[k] = card'[k]
                            + SumFunctionOnSet(Unwrittens', OpsOf(k))
                    /\ \A o \in OpsOf(k) : HoldsCard(o)'
  BY DEF CardInv, OpsOf
<1>1. /\ onCard[k] = card[k] + SumFunctionOnSet(Unwrittens, OpsOf(k))
      /\ \A o \in OpsOf(k) : HoldsCard(o)
  BY CardStillClean DEF CardInv
<1>2. /\ SumFunctionOnSet(Unwrittens, OpsOf(k)) \in Int
      /\ onCard[k] \in Int /\ card[k] \in Int
  BY UnwrittenSum DEF CardTypeOK
<1>3. ASSUME NEW o \in Ops, FundCard(o) \/ WithdrawFromCard(o)
      PROVE  /\ onCard'[k] = card'[k]
                     + SumFunctionOnSet(Unwrittens', OpsOf(k))
             /\ \A q \in OpsOf(k) : HoldsCard(q)'
  <2> DEFINE old == Unwrittens
             new == Unwrittens'
             S == OpsOf(k)
  <2>1. Frame(o) /\ CardTypeOK' /\ WritesMoney(o)
    BY <1>3, StepFrame, Writes
  <2>2. /\ IsFiniteSet(S)
        /\ \A q \in S : old[q] = Unwritten(q) /\ old[q] \in Int
        /\ \A q \in S : new[q] = Unwritten(q)' /\ new[q] \in Int
        /\ \A q \in S \ {o} : new[q] = old[q]
    <3>1. \A q \in S : q \in Ops /\ Sum[q] \in Int
      BY Constants DEF OpsOf
    <3>2. \A q \in S : new[q] = Unwritten(q)' /\ new[q] \in Int
      BY <3>1 DEF Unwrittens, Unwritten
    <3>3. \A q \in S \ {o} : Unwritten(q)' = Unwritten(q)
      BY <2>1, <3>1 DEF Frame, Unwritten
    <3>4. QED
      BY <3>1, <3>2, <3>3, OpsOfFinite
  <2>3. CASE CardOf[o] = k
    <3>1. OnItsCard(o) /\ o \in S
      BY <1>1, <1>3, <2>3, CardAfterFunding, CardAfterWithdrawal DEF OpsOf
    <3>2. onCard'[k] - card'[k] = onCard[k] - card[k] - old[o] + new[o]
      BY <2>2, <2>3, <3>1 DEF OnItsCard
    <3>3. onCard'[k] \in Int /\ card'[k] \in Int
      BY <2>1 DEF CardTypeOK
    <3>4. \A q \in S : HoldsCard(q)'
      BY <1>1, <2>1, <2>3, <3>1
         DEF OnItsCard, Frame, AloneOnCard, HoldsCard, OpsOf
    <3> HIDE DEF old, new, S
    <3>5. \A q \in S : old[q] \in Int
      BY <2>2
    <3>6. SumFunctionOnSet(new, S) = SumFunctionOnSet(old, S) - old[o] + new[o]
      BY <2>2, <3>1, <3>5, SumOfOneChange
    <3>7. onCard[k] = card[k] + SumFunctionOnSet(old, S)
          /\ SumFunctionOnSet(old, S) \in Int
      BY <1>1, <1>2 DEF old, S
    <3>8. old[o] \in Int /\ new[o] \in Int
      BY <2>2, <3>1
    <3>9. onCard'[k] = card'[k] + SumFunctionOnSet(new, S)
      BY <1>2, <3>2, <3>3, <3>6, <3>7, <3>8
    <3>10. QED
      BY <3>4, <3>9 DEF new, S
  <2>4. CASE CardOf[o] # k
    <3>1. o \notin S /\ card'[k] = card[k] /\ onCard'[k] = onCard[k]
      BY <2>1, <2>4, Constants DEF WritesMoney, OpsOf, CardTypeOK
    <3>2. \A q \in S : HoldsCard(q)'
      BY <1>1, <2>1, <3>1 DEF Frame, HoldsCard, OpsOf
    <3> HIDE DEF old, new, S
    <3>3. \A q \in S : old[q] = new[q]
      BY <2>2, <3>1
    <3>4. SumFunctionOnSet(old, S) = SumFunctionOnSet(new, S)
      BY <2>2, <3>3, SumOfSame
    <3>5. onCard[k] = card[k] + SumFunctionOnSet(old, S)
      BY <1>1 DEF old, S
    <3>6. QED
      BY <3>1, <3>2, <3>4, <3>5 DEF new, S
  <2>5. QED
    BY <2>3, <2>4
<1>4. CASE Stop \/ UNCHANGED cvars
  <2>1. card' = card /\ onCard' = onCard
    BY <1>4, StopFrame DEF cvars
  <2>2. \A o \in OpsOf(k) : op'[o] = op[o]
    BY <1>4, StopFrame DEF cvars, CleanCard, OpsOf
  <2>3. \A o \in OpsOf(k) : Unwrittens'[o] = Unwrittens[o]
    BY <2>2 DEF Unwrittens, Unwritten, OpsOf
  <2>4. \A o \in OpsOf(k) : HoldsCard(o)'
    BY <1>1, <2>1, <2>2 DEF HoldsCard
  <2> DEFINE old == Unwrittens
             new == Unwrittens'
             S == OpsOf(k)
  <2>5. IsFiniteSet(S) /\ \A o \in S : new[o] = old[o]
    BY <2>3, OpsOfFinite
  <2> HIDE DEF old, new, S
  <2>6. SumFunctionOnSet(new, S) = SumFunctionOnSet(old, S)
    BY <2>5, SumOfSame
  <2>7. SumFunctionOnSet(Unwrittens', OpsOf(k)) =
           SumFunctionOnSet(Unwrittens, OpsOf(k))
    BY <2>6 DEF old, new, S
  <2>8. QED
    BY <1>1, <2>1, <2>4, <2>7
<1>5. QED
  BY <1>3, <1>4 DEF CardNext

\* For any executions and cards: under the same conditions the balance of a
\* card is the one the provider holds (updateLocalBalances of both services).
THEOREM CardsFollow == CardSpec => []CardFollowsProvider
<1>1. CardTypeOK /\ CardInv => CardFollowsProvider
  <2> SUFFICES ASSUME CardTypeOK, CardInv, NEW k \in Cards, k \notin overlapped,
                      Settled({o \in Ops : CardOf[o] = k})
               PROVE  card[k] = onCard[k]
    BY DEF CardFollowsProvider
  <2>1. \A o \in OpsOf(k) : /\ op[o].pc \in {"idle", "done"}
                            /\ o \notin interrupted
    BY DEF Settled, OpsOf
  <2>2. IsFiniteSet(OpsOf(k)) /\ \A o \in OpsOf(k) : Unwrittens[o] = 0
    BY <2>1, OpsOfFinite DEF Unwritten
  <2>3. SumFunctionOnSet(Unwrittens, OpsOf(k)) = 0
    BY <2>2, SumOfZeros
  <2>4. onCard[k] = card[k] + 0
    BY <2>1, <2>3 DEF CardInv, CleanCard
  <2>5. QED
    BY <2>4 DEF CardTypeOK
<1>2. QED
  BY <1>1, InitCardType, NextCardType, InitCards, NextCards, PTL DEF CardSpec

-----------------------------------------------------------------------------
(***************************************************************************)
(* CardSync                                                                *)
(***************************************************************************)
SyncJob == [pc : {"idle", "fetch", "local", "create", "ask", "read", "map"},
            for : Customers \cup Companies \cup {Nobody},
            at : Addresses \cup {Nobody},
            found : SUBSET (MapleradCards \cup Addresses),
            todo : SUBSET (MapleradCards \cup Customers),
            knew : SUBSET Addresses, hurt : BOOLEAN,
            read : [Customers -> Addresses \cup {Nobody}]]

SyncTypes == CardSyncTypeOK /\ job \in [Runs -> SyncJob]

\* The card's holder at the provider has stood for the customer.
HeldFor(c, k) == holder[k] # Nobody /\ c \in stoodFor[holder[k]]

\* A card that is to be stored unsigned is in nobody's issuance, or is known
\* to have been met in one.
NotIssued(k) == k \in met \/ issuing[k] = Nobody

Stored(k) == \/ \E x \in rows : x.card = k
             \/ k \notin shown /\ \E x \in rows : x.number = "masked"

\* Whom a customer is mapped to has stood for it, and so has the holder of a
\* card that is being issued to it.
Stood ==
    /\ \A c \in Customers : mapping[c] # Nobody => c \in stoodFor[mapping[c]]
    /\ \A k \in MapleradCards :
          issuing[k] # Nobody => HeldFor(issuing[k], k)

\* What a sync of cards or of customers knows where it stands.
CardRun(r) ==
    /\ job[r].pc \in {"fetch", "local", "create"} =>
          /\ job[r].for \in Customers
          /\ \A k \in job[r].found :
                /\ k \in MapleradCards
                /\ HeldFor(job[r].for, k) /\ NotIssued(k)
    /\ job[r].pc = "fetch" =>
          job[r].at \in Addresses /\ job[r].for \in stoodFor[job[r].at]
    /\ job[r].pc = "create" =>
          /\ job[r].todo \subseteq job[r].found
          /\ \A k \in job[r].todo : \A x \in rows :
                x.of = job[r].for /\ x.card = k /\ x.number = "signed"
                   => k \in met
          /\ ~job[r].hurt =>
                \A k \in job[r].found \ job[r].todo : Stored(k)

CustomerRun(r) ==
    /\ job[r].pc \in {"ask", "read", "map"} => job[r].for \in Companies
    /\ job[r].pc \in {"read", "map"} => job[r].found = job[r].knew
    /\ job[r].pc = "map" =>
          \A c \in Customers :
             CompanyOf[c] = job[r].for /\ job[r].read[c] \in job[r].knew
                => c \in job[r].todo \/ mapping[c] # Nobody

SyncRun(r) ==
    /\ job[r].pc = "idle" => job[r] = Idle
    /\ CardRun(r) /\ CustomerRun(r)

\* A row is of a customer its card's holder has stood for.  An unsigned one
\* says what the provider shows, and a signed one beside it was met.
RowsInv ==
    /\ \A x \in rows :
          /\ HeldFor(x.of, x.card)
          /\ x.number = "signed" => issuing[x.card] = Nobody
          /\ x.number # "signed" =>
                /\ x.number = IF x.card \in shown THEN "listed" ELSE "masked"
                /\ NotIssued(x.card)
    /\ \A x, y \in rows :
          (/\ x.card = y.card /\ x.of = y.of
           /\ x.number = "signed" /\ y.number # "signed")
             => x.card \in met

SyncInv ==
    /\ SyncTypes /\ Stood /\ RowsInv
    /\ \A r \in Runs : SyncRun(r)
    /\ \A k \in seen : Stored(k)
    /\ RecentMeansMapped

-----------------------------------------------------------------------------
LEMMA SyncConstants ==
  /\ Nobody \notin Addresses /\ Nobody \notin Customers
  /\ Nobody \notin Companies /\ IsFiniteSet(Customers)
  /\ MaxCalls \in Nat /\ MaxChanges \in Nat /\ MaxTroubles \in Nat
  /\ \A c \in Customers : CompanyOf[c] \in Companies
  BY CardSyncAssumption DEF Companies

LEMMA IdleType ==
  /\ Idle \in SyncJob
  /\ Idle.pc = "idle" /\ Idle.found = {}
  BY SyncConstants DEF Idle, SyncJob

LEMMA InitSync == CardSyncInit => SyncInv
<1> SUFFICES ASSUME CardSyncInit PROVE SyncInv
  OBVIOUS
<1>1. \A r \in Runs : job[r] = Idle
  BY DEF CardSyncInit
<1>2. SyncTypes
  <2>1. job \in [Runs -> SyncJob]
    BY IdleType DEF CardSyncInit
  <2>2. \A r \in Runs : /\ job[r].pc = "idle" /\ job[r].for = Nobody
                        /\ job[r].at = Nobody /\ job[r].hurt = FALSE
    BY <1>1 DEF Idle
  <2>3. /\ calls \in 0..MaxCalls /\ changes \in 0..MaxChanges
        /\ troubles \in 0..MaxTroubles
    BY SyncConstants DEF CardSyncInit
  <2>4. /\ email \in [Customers -> Addresses \cup {Nobody}]
        /\ mapping \in [Customers -> Addresses \cup {Nobody}]
        /\ enrolled \subseteq Addresses /\ shown \subseteq MapleradCards
        /\ holder \in [MapleradCards -> Addresses \cup {Nobody}]
        /\ issuing \in [MapleradCards -> Customers \cup {Nobody}]
        /\ rows \subseteq Rows /\ recent \subseteq Companies
        /\ met \subseteq MapleradCards /\ seen \subseteq MapleradCards
        /\ stoodFor \in [Addresses -> SUBSET Customers]
        /\ due \in [Companies -> SUBSET Customers]
    BY DEF CardSyncInit
  <2>5. QED
    BY <2>1, <2>2, <2>3, <2>4 DEF SyncTypes, CardSyncTypeOK
<1>3. \A r \in Runs : SyncRun(r)
  BY <1>1, IdleType DEF SyncRun, CardRun, CustomerRun
<1>4. Stood /\ RowsInv /\ RecentMeansMapped /\ \A k \in seen : Stored(k)
  BY DEF CardSyncInit, Stood, RowsInv, RecentMeansMapped
<1>5. QED
  BY <1>2, <1>3, <1>4 DEF SyncInv

(***************************************************************************)
(* What never goes back, whatever step is taken                            *)
(***************************************************************************)
Grows ==
    /\ \A a \in Addresses : stoodFor[a] \subseteq stoodFor'[a]
    /\ \A k \in MapleradCards :
          holder[k] # Nobody =>
             /\ holder'[k] = holder[k]
             /\ issuing[k] = Nobody => issuing'[k] = Nobody
    /\ \A c \in Customers : mapping[c] # Nobody => mapping'[c] # Nobody
    /\ met \subseteq met' /\ rows \subseteq rows' /\ shown' = shown

\* The rows an issuance adds are of the card it has made.
Signs ==
    \A x \in rows' : x \in rows \/ x.number # "signed" \/
       (x.card \in MapleradCards /\ issuing[x.card] = x.of /\ x.of # Nobody)

LEMMA Kept ==
  ASSUME SyncTypes, Grows
  PROVE  /\ \A c \in Customers, k \in MapleradCards :
               HeldFor(c, k) => HeldFor(c, k)'
         /\ \A c \in Customers, k \in MapleradCards :
               HeldFor(c, k) /\ NotIssued(k) => NotIssued(k)'
         /\ \A k : Stored(k) => Stored(k)'
<1>1. holder \in [MapleradCards -> Addresses \cup {Nobody}]
  BY DEF SyncTypes, CardSyncTypeOK
<1>2. ASSUME NEW c \in Customers, NEW k \in MapleradCards, HeldFor(c, k)
      PROVE  HeldFor(c, k)' /\ (NotIssued(k) => NotIssued(k)')
  BY <1>1, <1>2 DEF Grows, HeldFor, NotIssued
<1>3. \A k : Stored(k) => Stored(k)'
  BY DEF Grows, Stored
<1>4. QED
  BY <1>2, <1>3

\* A sync that waits is kept by every step of the others.
LEMMA WaitsKept ==
  ASSUME SyncInv, Grows, Signs, NEW r \in Runs, job'[r] = job[r]
  PROVE  SyncRun(r)'
<1>1. SyncRun(r) /\ SyncTypes /\ job[r] \in SyncJob
  BY DEF SyncInv, SyncTypes
<1>2. CardRun(r)'
  <2>1. CASE job[r].pc \in {"fetch", "local", "create"}
    <3>1. /\ job[r].for \in Customers
          /\ \A k \in job[r].found :
                k \in MapleradCards /\ HeldFor(job[r].for, k) /\ NotIssued(k)
      BY <1>1, <2>1 DEF SyncRun, CardRun
    <3>2. \A k \in job[r].found :
             /\ k \in MapleradCards
             /\ HeldFor(job[r].for, k)' /\ NotIssued(k)'
      <4> HIDE DEF HeldFor, NotIssued
      <4>1. QED
        BY <1>1, <3>1, Kept
    <3>3. job[r].pc = "fetch" => job[r].at \in Addresses
                                 /\ job[r].for \in stoodFor'[job[r].at]
      BY <1>1 DEF SyncRun, CardRun, Grows
    <3>4. ASSUME job[r].pc = "create"
          PROVE  /\ job[r].todo \subseteq job[r].found
                 /\ \A k \in job[r].todo : \A x \in rows' :
                       x.of = job[r].for /\ x.card = k /\ x.number = "signed"
                          => k \in met'
                 /\ ~job[r].hurt =>
                       \A k \in job[r].found \ job[r].todo : Stored(k)'
      <4>1. /\ job[r].todo \subseteq job[r].found
            /\ \A k \in job[r].todo : \A x \in rows :
                  x.of = job[r].for /\ x.card = k /\ x.number = "signed"
                     => k \in met
            /\ ~job[r].hurt =>
                  \A k \in job[r].found \ job[r].todo : Stored(k)
        BY <1>1, <3>4 DEF SyncRun, CardRun
      <4>2. \A k \in job[r].todo : k \in met \/ issuing[k] = Nobody
        BY <3>1, <4>1 DEF NotIssued
      <4>3. met \subseteq met'
        BY DEF Grows
      <4>4. ASSUME NEW k \in job[r].todo, NEW x \in rows',
                   x.of = job[r].for, x.card = k, x.number = "signed"
            PROVE  k \in met'
        BY <4>1, <4>2, <4>3, <4>4 DEF Signs
      <4>5. QED
        BY <1>1, <4>1, <4>4, Kept
    <3>5. QED
      BY <3>1, <3>2, <3>3, <3>4 DEF CardRun
  <2>2. CASE job[r].pc \notin {"fetch", "local", "create"}
    BY <2>2 DEF CardRun
  <2>3. QED
    BY <2>1, <2>2
<1>3. CustomerRun(r)'
  BY <1>1 DEF SyncRun, CustomerRun, Grows
<1>4. QED
  BY <1>1, <1>2, <1>3 DEF SyncRun

\* A step that stores no card and records no sync.
LEMMA Quiet ==
  ASSUME SyncInv, Grows, SyncTypes', Stood', rows' = rows, seen' = seen,
         recent' \subseteq recent, due' = due,
         \A r \in Runs : job'[r] = job[r] \/ SyncRun(r)'
  PROVE  SyncInv'
<1>1. Signs
  BY DEF Signs
<1>2. \A r \in Runs : SyncRun(r)'
  BY <1>1, WaitsKept
<1>3. RowsInv'
  <2>1. \A x \in rows : x.of \in Customers /\ x.card \in MapleradCards
    BY DEF SyncInv, SyncTypes, CardSyncTypeOK, Rows
  <2>2. \A x \in rows : HeldFor(x.of, x.card)' /\
           (x.number # "signed" => NotIssued(x.card)')
    BY <2>1, Kept DEF SyncInv, RowsInv
  <2>3. \A x \in rows : x.number = "signed" => issuing'[x.card] = Nobody
    BY <2>1 DEF SyncInv, RowsInv, HeldFor, Grows
  <2>4. QED
    BY <2>2, <2>3 DEF SyncInv, RowsInv, Grows
<1>4. \A k \in seen' : Stored(k)'
  BY Kept DEF SyncInv
<1>5. RecentMeansMapped'
  BY DEF SyncInv, SyncTypes, CardSyncTypeOK, RecentMeansMapped, Grows
<1>6. QED
  BY <1>2, <1>3, <1>4, <1>5 DEF SyncInv

-----------------------------------------------------------------------------
(***************************************************************************)
(* Customers and issuances                                                 *)
(***************************************************************************)
LEMMA MapGrows ==
  ASSUME SyncTypes, Stood, NEW c \in Customers, NEW a \in Addresses, Map(c, a)
  PROVE  /\ mapping' \in [Customers -> Addresses \cup {Nobody}]
         /\ stoodFor' \in [Addresses -> SUBSET Customers]
         /\ \A b \in Addresses : stoodFor[b] \subseteq stoodFor'[b]
         /\ \A d \in Customers : mapping'[d] # Nobody =>
               mapping'[d] \in Addresses /\ d \in stoodFor'[mapping'[d]]
         /\ mapping'[c] = a
         /\ \A d \in Customers : mapping[d] # Nobody => mapping'[d] # Nobody
<1>1. /\ mapping \in [Customers -> Addresses \cup {Nobody}]
      /\ stoodFor \in [Addresses -> SUBSET Customers]
      /\ \A d \in Customers : mapping[d] # Nobody => d \in stoodFor[mapping[d]]
  BY DEF SyncTypes, CardSyncTypeOK, Stood
<1>2. /\ mapping' = [mapping EXCEPT ![c] = a]
      /\ stoodFor' = [stoodFor EXCEPT ![a] = @ \cup {c}]
  BY DEF Map
<1>3. /\ mapping' \in [Customers -> Addresses \cup {Nobody}]
      /\ stoodFor' \in [Addresses -> SUBSET Customers]
  BY <1>1, <1>2
<1>4. \A b \in Addresses : stoodFor[b] \subseteq stoodFor'[b]
  BY <1>1, <1>2
<1>5. c \in stoodFor'[a] /\ mapping'[c] = a
  BY <1>1, <1>2
<1>6. \A d \in Customers \ {c} : mapping'[d] = mapping[d]
  BY <1>1, <1>2
<1>7. QED
  BY <1>1, <1>3, <1>4, <1>5, <1>6, SyncConstants

LEMMA StepCreateCustomer ==
  ASSUME SyncInv, NEW c \in Customers, NEW a \in Addresses,
         CreateCustomer(c, a) \/ ChangeEmail(c, a)
  PROVE  SyncInv'
<1>1. /\ email' = [email EXCEPT ![c] = a]
      /\ UNCHANGED <<mapping, rows, recent, provider, issuing, job, history,
                     calls, troubles>>
      /\ changes' = changes \/ (changes < MaxChanges /\ changes' = changes + 1)
  BY DEF CreateCustomer, ChangeEmail, InsertCustomer, UpdateCustomer, bounds
<1>2. SyncTypes'
  <2>1. changes' \in 0..MaxChanges
    BY <1>1, SyncConstants DEF SyncInv, SyncTypes, CardSyncTypeOK
  <2>2. email' \in [Customers -> Addresses \cup {Nobody}]
    BY <1>1 DEF SyncInv, SyncTypes, CardSyncTypeOK
  <2>3. QED
    BY <1>1, <2>1, <2>2
       DEF SyncInv, SyncTypes, CardSyncTypeOK, provider, history
<1>3. Grows /\ Stood'
  BY <1>1 DEF SyncInv, Stood, HeldFor, Grows, provider, history
<1>4. QED
  BY <1>1, <1>2, <1>3, Quiet DEF history

LEMMA StepEnsureMapleradCustomer ==
  ASSUME SyncInv, NEW c \in Customers, EnsureMapleradCustomer(c)
  PROVE  SyncInv'
<1>1. /\ email[c] \in Addresses /\ SyncTypes /\ Stood
      /\ email[c] \notin enrolled /\ enrolled' = enrolled \cup {email[c]}
      /\ UNCHANGED <<email, rows, recent, holder, shown, issuing, job,
                     met, seen, due, calls, changes>>
      /\ \/ Map(c, email[c]) /\ UNCHANGED troubles
         \/ Trouble /\ UNCHANGED <<mapping, stoodFor>>
  BY DEF EnsureMapleradCustomer, Enroll, CreateMapping, SyncInv, SyncTypes,
         CardSyncTypeOK
<1>2. /\ mapping' \in [Customers -> Addresses \cup {Nobody}]
      /\ stoodFor' \in [Addresses -> SUBSET Customers]
      /\ \A b \in Addresses : stoodFor[b] \subseteq stoodFor'[b]
      /\ \A d \in Customers :
            mapping'[d] # Nobody => d \in stoodFor'[mapping'[d]]
      /\ \A d \in Customers : mapping[d] # Nobody => mapping'[d] # Nobody
  <2>1. CASE Map(c, email[c])
    BY <1>1, <2>1, MapGrows
  <2>2. CASE UNCHANGED <<mapping, stoodFor>>
    BY <1>1, <2>2 DEF SyncTypes, CardSyncTypeOK, Stood
  <2>3. QED
    BY <1>1, <2>1, <2>2
<1>3. troubles' \in 0..MaxTroubles
  BY <1>1, SyncConstants DEF SyncTypes, CardSyncTypeOK, Trouble
<1>4. SyncTypes'
  BY <1>1, <1>2, <1>3 DEF SyncTypes, CardSyncTypeOK
<1>5. Grows
  BY <1>1, <1>2 DEF Grows
<1>6. Stood'
  <2>1. ASSUME NEW k \in MapleradCards, issuing[k] # Nobody
        PROVE  HeldFor(issuing[k], k)'
    <3>1. /\ holder[k] \in Addresses
          /\ issuing[k] \in stoodFor[holder[k]]
      BY <1>1, <2>1 DEF Stood, HeldFor, SyncTypes, CardSyncTypeOK
    <3>2. QED
      BY <1>1, <1>2, <3>1, SyncConstants DEF HeldFor
  <2>2. QED
    BY <1>1, <1>2, <2>1 DEF Stood
<1>7. QED
  BY <1>1, <1>4, <1>5, <1>6, Quiet

LEMMA StepMakeCard ==
  ASSUME SyncInv, NEW c \in Customers, NEW k \in MapleradCards, MakeCard(c, k)
  PROVE  SyncInv'
<1>1. /\ SyncTypes /\ Stood
      /\ mapping[c] \in Addresses /\ holder[k] = Nobody
      /\ holder' = [holder EXCEPT ![k] = mapping[c]]
      /\ issuing' = [issuing EXCEPT ![k] = c]
      /\ UNCHANGED <<local, enrolled, shown, job, history, bounds>>
  BY DEF MakeCard, Unmapped, SyncInv, SyncTypes, CardSyncTypeOK
<1>2. /\ holder' \in [MapleradCards -> Addresses \cup {Nobody}]
      /\ issuing' \in [MapleradCards -> Customers \cup {Nobody}]
      /\ holder'[k] = mapping[c] /\ issuing'[k] = c
      /\ \A d \in MapleradCards \ {k} :
            holder'[d] = holder[d] /\ issuing'[d] = issuing[d]
  BY <1>1 DEF SyncTypes, CardSyncTypeOK
<1>3. SyncTypes'
  BY <1>1, <1>2
     DEF SyncTypes, CardSyncTypeOK, local, history, bounds
<1>4. Grows
  BY <1>1, <1>2 DEF Grows, local, history
<1>5. Stood'
  <2>1. c \in stoodFor[mapping[c]]
    BY <1>1, SyncConstants DEF Stood
  <2>2. \A d \in MapleradCards :
           (issuing[d] # Nobody => HeldFor(issuing[d], d))'
    BY <1>1, <1>2, <2>1, SyncConstants DEF Stood, HeldFor, history
  <2>3. QED
    BY <1>1, <2>2 DEF Stood, local, history
<1>6. QED
  BY <1>1, <1>3, <1>4, <1>5, Quiet DEF local, history

LEMMA StepHourPasses ==
  ASSUME SyncInv, NEW company \in Companies, HourPasses(company)
  PROVE  SyncInv'
<1>1. /\ recent' = recent \ {company}
      /\ UNCHANGED <<email, mapping, rows, provider, issuing, job, history,
                     bounds>>
  BY DEF HourPasses
<1>2. SyncTypes'
  BY <1>1 DEF SyncInv, SyncTypes, CardSyncTypeOK, provider, history, bounds
<1>3. Grows /\ Stood'
  BY <1>1 DEF SyncInv, Stood, HeldFor, Grows, provider, history
<1>4. QED
  BY <1>1, <1>2, <1>3, Quiet DEF history

LEMMA StepProcessEnds ==
  ASSUME SyncInv, ProcessEnds
  PROVE  SyncInv'
<1>1. /\ SyncTypes /\ Trouble
      /\ job' = [r \in Runs |-> Idle]
      /\ issuing' = [k \in MapleradCards |-> Nobody]
      /\ UNCHANGED <<local, provider, history, calls, changes>>
  BY DEF ProcessEnds, SyncInv
<1>2. troubles' \in 0..MaxTroubles
  BY <1>1, SyncConstants DEF SyncTypes, CardSyncTypeOK, Trouble
<1>3. \A r \in Runs : job'[r] = Idle
  BY <1>1
<1>4. SyncTypes'
  <2>1. job' \in [Runs -> SyncJob]
    BY <1>1, IdleType
  <2>2. \A r \in Runs : /\ job'[r].pc = "idle" /\ job'[r].for = Nobody
                        /\ job'[r].at = Nobody /\ job'[r].hurt = FALSE
    BY <1>3 DEF Idle
  <2>3. QED
    BY <1>1, <1>2, <2>1, <2>2
       DEF SyncTypes, CardSyncTypeOK, local, provider, history
<1>5. \A r \in Runs : SyncRun(r)'
  BY <1>3, IdleType DEF SyncRun, CardRun, CustomerRun
<1>6. Grows /\ Stood'
  BY <1>1 DEF SyncInv, Stood, Grows, local, provider, history
<1>7. QED
  BY <1>1, <1>4, <1>5, <1>6, Quiet DEF local, history

-----------------------------------------------------------------------------
(***************************************************************************)
(* A step of one sync, which leaves customers, cards and issuances alone   *)
(***************************************************************************)
LEMMA SyncJobFields ==
  ASSUME SyncTypes, NEW r \in Runs
  PROVE  /\ job[r] \in SyncJob
         /\ job[r].pc \in {"idle", "fetch", "local", "create", "ask", "read",
                           "map"}
         /\ job[r].found \subseteq MapleradCards \cup Addresses
         /\ job[r].todo \subseteq MapleradCards \cup Customers
         /\ job[r].knew \subseteq Addresses
         /\ job[r].read \in [Customers -> Addresses \cup {Nobody}]
  BY DEF SyncTypes, SyncJob

\* One sync becomes j.
Turns(r, j) == j \in SyncJob /\ job' = [job EXCEPT ![r] = j]

LEMMA TurnsTypes ==
  ASSUME SyncTypes, NEW r \in Runs, NEW j, Turns(r, j)
  PROVE  /\ job' \in [Runs -> SyncJob]
         /\ job'[r] = j
         /\ \A q \in Runs \ {r} : job'[q] = job[q]
         /\ \A q \in Runs :
               /\ job'[q].pc \in {"idle", "fetch", "local", "create", "ask",
                                  "read", "map"}
               /\ job'[q].for \in Customers \cup Companies \cup {Nobody}
               /\ job'[q].at \in Addresses \cup {Nobody}
               /\ job'[q].hurt \in BOOLEAN
<1>1. job' \in [Runs -> SyncJob]
  BY DEF SyncTypes, Turns
<1>2. \A q \in Runs : job'[q] \in SyncJob
  BY <1>1
<1>3. QED
  BY <1>1, <1>2 DEF SyncTypes, Turns, SyncJob

LEMMA TroubleTypes ==
  ASSUME SyncTypes, Trouble \/ UNCHANGED troubles
  PROVE  troubles' \in 0..MaxTroubles
  BY SyncConstants DEF SyncTypes, CardSyncTypeOK, Trouble

\* Such a step that stores no card and records no sync.
LEMMA SyncTurns ==
  ASSUME SyncInv, NEW r \in Runs, NEW j, Turns(r, j),
         UNCHANGED <<local, provider, issuing, stoodFor, seen, due, changes>>,
         met \subseteq met', met' \subseteq MapleradCards,
         calls' \in 0..MaxCalls, Trouble \/ UNCHANGED troubles,
         SyncRun(r)'
  PROVE  SyncInv'
<1>1. SyncTypes
  BY DEF SyncInv
<1>2. SyncTypes'
  BY <1>1, TurnsTypes, TroubleTypes
     DEF SyncTypes, CardSyncTypeOK, local, provider
<1>3. Grows /\ Stood'
  BY DEF SyncInv, Stood, HeldFor, Grows, local, provider
<1>4. QED
  BY <1>1, <1>2, <1>3, Quiet, TurnsTypes DEF local

\* A sync that begins, or is over.
LEMMA IdleRun ==
  ASSUME NEW r \in Runs, job'[r] = Idle
  PROVE  SyncRun(r)'
  BY IdleType DEF SyncRun, CardRun, CustomerRun

LEMMA StepDone ==
  ASSUME SyncInv, NEW r \in Runs, Trouble, Done(r),
         UNCHANGED <<local, provider, issuing, history, calls, changes>>
  PROVE  SyncInv'
<1>1. SyncTypes /\ Turns(r, Idle)
  BY IdleType DEF SyncInv, Turns, Done
<1>2. job'[r] = Idle
  BY <1>1, TurnsTypes
<1>3. calls' \in 0..MaxCalls /\ met' \subseteq MapleradCards
  BY <1>1 DEF SyncTypes, CardSyncTypeOK, history
<1>4. QED
  BY <1>1, <1>2, <1>3, IdleRun, SyncTurns DEF history

LEMMA BeginType ==
  ASSUME SyncInv, NEW c \in Customers
  PROVE  /\ Begin(Idle, c) \in SyncJob
         /\ Begin(Idle, c).pc \in {"fetch", "local"}
         /\ Begin(Idle, c).for = c /\ Begin(Idle, c).at = mapping[c]
         /\ Begin(Idle, c).found = {}
         /\ Begin(Idle, c).pc = "fetch" =>
               mapping[c] \in Addresses /\ c \in stoodFor[mapping[c]]
<1>1. mapping[c] \in Addresses \cup {Nobody}
  BY DEF SyncInv, SyncTypes, CardSyncTypeOK
<1>2. mapping[c] # Nobody => c \in stoodFor[mapping[c]]
  BY DEF SyncInv, Stood
<1>3. QED
  BY <1>1, <1>2, IdleType DEF Begin, Unmapped, SyncJob, Idle

LEMMA BeginRun ==
  ASSUME SyncInv, NEW r \in Runs, NEW c \in Customers,
         job'[r] = Begin(Idle, c), stoodFor' = stoodFor
  PROVE  SyncRun(r)'
<1> HIDE DEF Begin
<1>1. QED
  BY BeginType DEF SyncRun, CardRun, CustomerRun

LEMMA StepSyncCustomerCards ==
  ASSUME SyncInv, NEW r \in Runs, NEW c \in Customers, GetCustomerCards(r, c)
  PROVE  SyncInv'
<1>1. /\ SyncTypes /\ job[r].pc = "idle" /\ calls < MaxCalls
      /\ calls' = calls + 1 /\ UNCHANGED <<changes, troubles>>
      /\ job' = [job EXCEPT ![r] = Begin(job[r], c)]
      /\ UNCHANGED <<local, provider, issuing, history>>
  BY DEF GetCustomerCards, SyncCustomerCards, Starts, SyncInv, SyncTypes
<1>2. job[r] = Idle
  BY <1>1 DEF SyncInv, SyncRun
<1>3. Turns(r, Begin(Idle, c))
  BY <1>1, <1>2, BeginType DEF Turns
<1>4. SyncRun(r)'
  BY <1>1, <1>3, TurnsTypes, BeginRun DEF history
<1>5. calls' \in 0..MaxCalls /\ met' \subseteq MapleradCards
  BY <1>1, SyncConstants DEF SyncTypes, CardSyncTypeOK, history
<1>6. QED
  BY <1>1, <1>3, <1>4, <1>5, SyncTurns DEF history

LEMMA StepSyncCompanyCards ==
  ASSUME SyncInv, NEW company \in Companies, GetCompanyCards(company)
  PROVE  SyncInv'
<1> DEFINE with == {x.of : x \in rows} \cap
                      {c \in Customers : CompanyOf[c] = company}
<1>1. /\ SyncTypes /\ calls < MaxCalls /\ calls' = calls + 1
      /\ UNCHANGED <<local, provider, issuing, history, changes, troubles>>
  BY DEF GetCompanyCards, SyncCompanyCards, SyncInv
<1>2. PICK run \in [with -> {r \in Runs : job[r].pc = "idle"}] :
         job' = [r \in Runs |->
                   IF \E c \in with : run[c] = r
                   THEN Begin(job[r], CHOOSE c \in with : run[c] = r)
                   ELSE job[r]]
  BY DEF GetCompanyCards, SyncCompanyCards
<1>3. ASSUME NEW r \in Runs
      PROVE  \/ job'[r] = job[r]
             \/ \E c \in Customers : job'[r] = Begin(Idle, c)
  <2>1. CASE \E c \in with : run[c] = r
    <3>1. PICK c \in with : c = CHOOSE d \in with : run[d] = r
      BY <2>1
    <3>2. job[r] = Idle
      BY <1>2, <2>1 DEF SyncInv, SyncRun
    <3>3. QED
      BY <1>2, <2>1, <3>1, <3>2
  <2>2. CASE ~\E c \in with : run[c] = r
    BY <1>2, <2>2
  <2>3. QED
    BY <2>1, <2>2
<1>4. ASSUME NEW r \in Runs
      PROVE  job'[r] \in SyncJob /\ (job'[r] = job[r] \/ SyncRun(r)')
  <2>1. job[r] \in SyncJob /\ stoodFor' = stoodFor
    BY <1>1, SyncJobFields DEF history
  <2>2. QED
    BY <1>3, <2>1, BeginType, BeginRun
<1>5. SyncTypes'
  <2>1. job' \in [Runs -> SyncJob]
    BY <1>2, <1>4
  <2>2. \A q \in Runs :
           /\ job'[q].pc \in {"idle", "fetch", "local", "create", "ask",
                              "read", "map"}
           /\ job'[q].for \in Customers \cup Companies \cup {Nobody}
           /\ job'[q].at \in Addresses \cup {Nobody}
           /\ job'[q].hurt \in BOOLEAN
    BY <1>4 DEF SyncJob
  <2>3. calls' \in 0..MaxCalls
    BY <1>1, SyncConstants DEF SyncTypes, CardSyncTypeOK
  <2>4. QED
    BY <1>1, <2>1, <2>2, <2>3
       DEF SyncTypes, CardSyncTypeOK, local, provider, history
<1>6. Grows /\ Stood'
  BY <1>1 DEF SyncInv, Stood, HeldFor, Grows, local, provider, history
<1>7. QED
  BY <1>1, <1>4, <1>5, <1>6, Quiet DEF local, history

-----------------------------------------------------------------------------
(***************************************************************************)
(* Cards                                                                   *)
(***************************************************************************)
LEMMA StepFetchCards ==
  ASSUME SyncInv, NEW r \in Runs, FetchCards(r)
  PROVE  SyncInv'
<1>1. /\ SyncTypes /\ job[r].pc = "fetch" /\ SyncRun(r)
      /\ UNCHANGED <<local, provider, issuing, stoodFor, seen, due, calls,
                     changes>>
  BY DEF FetchCards, SyncInv
<1>2. PICK found \in SUBSET MapleradCards :
         /\ GetAllCards(job[r].at, found)
         /\ job' = [job EXCEPT ![r].pc = "local", ![r].found = found]
         /\ met' = met \cup {k \in found : issuing[k] # Nobody}
  BY DEF FetchCards
<1> DEFINE j == [job[r] EXCEPT !.pc = "local", !.found = found]
<1>3. j \in SyncJob /\ j.pc = "local" /\ j.for = job[r].for /\ j.found = found
  BY <1>1, SyncJobFields DEF SyncJob
<1>4. job' = [job EXCEPT ![r] = j]
  BY <1>2
<1> HIDE DEF j
<1>5. Turns(r, j) /\ job'[r] = j
  BY <1>1, <1>3, <1>4, TurnsTypes DEF Turns
<1>6. met \subseteq met' /\ met' \subseteq MapleradCards
  BY <1>1, <1>2 DEF SyncTypes, CardSyncTypeOK
<1>7. Trouble \/ UNCHANGED troubles
  BY <1>2 DEF GetAllCards
<1>8. SyncRun(r)'
  <2>1. /\ job[r].for \in Customers /\ job[r].at \in Addresses
        /\ job[r].for \in stoodFor[job[r].at]
    BY <1>1 DEF SyncRun, CardRun
  <2>2. \A k \in found : holder[k] = job[r].at
    BY <1>2 DEF GetAllCards
  <2>3. \A k \in found : \A c : /\ k \in MapleradCards
                                 /\ c = job[r].for => HeldFor(c, k)'
                                 /\ NotIssued(k)'
    BY <1>1, <1>2, <2>1, <2>2, SyncConstants
       DEF HeldFor, NotIssued, provider
  <2>4. QED
    BY <1>3, <1>5, <2>1, <2>3 DEF SyncRun, CardRun, CustomerRun
<1>9. calls' \in 0..MaxCalls
  BY <1>1 DEF SyncTypes, CardSyncTypeOK
<1>10. QED
  BY <1>1, <1>5, <1>6, <1>7, <1>8, <1>9, SyncTurns

LEMMA StepReadLocalCards ==
  ASSUME SyncInv, NEW r \in Runs, ReadLocalCards(r)
  PROVE  SyncInv'
<1>1. /\ SyncTypes /\ job[r].pc = "local" /\ SyncRun(r)
      /\ UNCHANGED <<local, provider, issuing, history, calls, changes>>
  BY DEF ReadLocalCards, SyncInv
<1> DEFINE here == {x.card : x \in {y \in rows : y.of = job[r].for}}
           j == [job[r] EXCEPT !.pc = "create", !.todo = job[r].found \ here]
<1>2. CASE /\ job' = [job EXCEPT ![r].pc = "create",
                                 ![r].todo = job[r].found \ here]
           /\ UNCHANGED troubles
  <2>1. /\ job[r].for \in Customers
        /\ \A k \in job[r].found :
              k \in MapleradCards /\ HeldFor(job[r].for, k) /\ NotIssued(k)
    BY <1>1 DEF SyncRun, CardRun
  <2>2. /\ j \in SyncJob /\ j.pc = "create" /\ j.for = job[r].for
        /\ j.found = job[r].found /\ j.todo = job[r].found \ here
    BY <1>1, <2>1, SyncJobFields DEF SyncJob
  <2>3. job' = [job EXCEPT ![r] = j]
    BY <1>2
  <2> HIDE DEF j
  <2>4. Turns(r, j) /\ job'[r] = j
    BY <1>1, <2>2, <2>3, TurnsTypes DEF Turns
  <2>5. SyncRun(r)'
    <3>1. \A k \in job[r].found : \A c :
             (c = job[r].for => HeldFor(c, k)') /\ NotIssued(k)'
      BY <1>1, <2>1 DEF HeldFor, NotIssued, provider, history
    <3>2. rows' = rows
      BY <1>1 DEF local
    <3>3. \A k \in job[r].found \ here : \A x \in rows' :
             ~(x.of = job[r].for /\ x.card = k)
      BY <3>2
    <3>4. \A k \in job[r].found \cap here : Stored(k)'
      BY <3>2 DEF Stored
    <3>5. QED
      BY <2>1, <2>2, <2>4, <3>1, <3>3, <3>4
         DEF SyncRun, CardRun, CustomerRun
  <2>6. met' \subseteq MapleradCards /\ calls' \in 0..MaxCalls
    BY <1>1 DEF SyncTypes, CardSyncTypeOK, history
  <2>7. QED
    BY <1>1, <1>2, <2>4, <2>5, <2>6, SyncTurns DEF history
<1>3. CASE Trouble /\ Done(r)
  BY <1>1, <1>3, StepDone
<1>4. QED
  BY <1>2, <1>3 DEF ReadLocalCards

LEMMA StepFinishCards ==
  ASSUME SyncInv, NEW r \in Runs, FinishCards(r)
  PROVE  SyncInv'
<1>1. /\ SyncTypes /\ job[r].pc = "create" /\ job[r].todo = {} /\ SyncRun(r)
      /\ seen' = IF job[r].hurt THEN seen ELSE seen \cup job[r].found
      /\ Done(r)
      /\ UNCHANGED <<local, provider, issuing, met, stoodFor, due, bounds>>
  BY DEF FinishCards, SyncInv
<1>2. Turns(r, Idle) /\ job'[r] = Idle
  BY <1>1, IdleType, TurnsTypes DEF Turns, Done
<1>3. \A q \in Runs : job'[q] = job[q] \/ SyncRun(q)'
  BY <1>1, <1>2, TurnsTypes, IdleRun
<1>4. SyncTypes'
  <2>1. seen' \subseteq MapleradCards
    BY <1>1 DEF SyncRun, CardRun, SyncTypes, CardSyncTypeOK
  <2>2. QED
    BY <1>1, <1>2, <2>1, TurnsTypes
       DEF SyncTypes, CardSyncTypeOK, local, provider, bounds
<1>5. Grows /\ Signs
  BY <1>1 DEF SyncInv, Signs, Grows, local, provider
<1>6. \A k \in seen' : Stored(k)'
  <2>1. \A k \in seen : Stored(k)
    BY DEF SyncInv
  <2>2. ~job[r].hurt => \A k \in job[r].found : Stored(k)
    BY <1>1 DEF SyncRun, CardRun
  <2>3. QED
    BY <1>1, <1>5, <2>1, <2>2, Kept
<1>7. Stood' /\ RowsInv' /\ RecentMeansMapped'
  BY <1>1 DEF SyncInv, Stood, RowsInv, HeldFor, NotIssued,
              RecentMeansMapped, local, provider
<1>8. \A q \in Runs : SyncRun(q)'
  BY <1>3, <1>5, WaitsKept
<1>9. QED
  BY <1>4, <1>6, <1>7, <1>8 DEF SyncInv

\* A step that stores a row: what is stored before and what it tells stays.
LEMMA OtherRows ==
  ASSUME SyncInv, Grows
  PROVE  \A x \in rows :
            /\ HeldFor(x.of, x.card)'
            /\ x.number = "signed" => issuing'[x.card] = Nobody
            /\ x.number # "signed" =>
                  /\ x.number =
                        IF x.card \in shown' THEN "listed" ELSE "masked"
                  /\ NotIssued(x.card)'
<1>1. \A x \in rows : x.of \in Customers /\ x.card \in MapleradCards
  BY DEF SyncInv, SyncTypes, CardSyncTypeOK, Rows
<1>2. \A x \in rows : HeldFor(x.of, x.card)' /\
         (x.number # "signed" => NotIssued(x.card)')
  BY <1>1, Kept DEF SyncInv, RowsInv
<1>3. \A x \in rows : x.number = "signed" => issuing'[x.card] = Nobody
  BY <1>1 DEF SyncInv, RowsInv, HeldFor, Grows
<1>4. QED
  BY <1>2, <1>3 DEF SyncInv, RowsInv, Grows

LEMMA StepCreateMissingCard ==
  ASSUME SyncInv, NEW r \in Runs, NEW k \in MapleradCards,
         CreateMissingCard(r, k)
  PROVE  SyncInv'
<1>1. /\ SyncTypes /\ job[r].pc = "create" /\ SyncRun(r)
      /\ k \in job[r].todo
      /\ UNCHANGED <<email, mapping, recent, provider, issuing, history,
                     calls, changes>>
  BY DEF CreateMissingCard, SyncInv
<1>2. /\ job[r].for \in Customers
      /\ \A d \in job[r].found :
            d \in MapleradCards /\ HeldFor(job[r].for, d) /\ NotIssued(d)
      /\ k \in job[r].found /\ job[r].todo \subseteq job[r].found
      /\ \A d \in job[r].todo : \A x \in rows :
            x.of = job[r].for /\ x.card = d /\ x.number = "signed" => d \in met
      /\ ~job[r].hurt => \A d \in job[r].found \ job[r].todo : Stored(d)
  BY <1>1 DEF SyncRun, CardRun
<1> DEFINE i == [job[r] EXCEPT !.todo = @ \ {k}]
           j == [job[r] EXCEPT !.todo = @ \ {k}, !.hurt = TRUE]
<1>3. /\ i \in SyncJob /\ i.pc = "create" /\ i.for = job[r].for
      /\ i.found = job[r].found /\ i.todo = job[r].todo \ {k}
      /\ i.hurt = job[r].hurt
  BY <1>1, SyncJobFields DEF SyncJob
<1>4. /\ j \in SyncJob /\ j.pc = "create" /\ j.for = job[r].for
      /\ j.found = job[r].found /\ j.todo = job[r].todo \ {k} /\ j.hurt
  BY <1>1, SyncJobFields DEF SyncJob
<1>5. CASE /\ Trouble /\ UNCHANGED rows
           /\ job' = [job EXCEPT ![r].todo = @ \ {k}, ![r].hurt = TRUE]
  <2>1. job' = [job EXCEPT ![r] = j]
    BY <1>5
  <2> HIDE DEF j
  <2>2. Turns(r, j) /\ job'[r] = j
    BY <1>1, <1>4, <2>1, TurnsTypes DEF Turns
  <2>3. SyncRun(r)'
    <3>1. \A d \in job[r].found : \A c :
             (c = job[r].for => HeldFor(c, d)') /\ NotIssued(d)'
      BY <1>1, <1>2 DEF HeldFor, NotIssued, provider, history
    <3>2. rows' = rows /\ met' = met
      BY <1>1, <1>5 DEF history
    <3>3. QED
      BY <1>2, <1>4, <2>2, <3>1, <3>2 DEF SyncRun, CardRun, CustomerRun
  <2>4. met' \subseteq MapleradCards /\ calls' \in 0..MaxCalls
    BY <1>1 DEF SyncTypes, CardSyncTypeOK, history
  <2>5. QED
    BY <1>1, <1>5, <2>2, <2>3, <2>4, SyncTurns DEF history, local
<1>6. CASE /\ rows' = IF Taken(Row(r, k)) THEN rows ELSE rows \cup {Row(r, k)}
           /\ job' = [job EXCEPT ![r].todo = @ \ {k}]
           /\ UNCHANGED troubles
  <2>1. job' = [job EXCEPT ![r] = i]
    BY <1>6
  <2> HIDE DEF i
  <2>2. Turns(r, i) /\ job'[r] = i
    BY <1>1, <1>3, <2>1, TurnsTypes DEF Turns
  <2>3. /\ Row(r, k) \in Rows /\ Row(r, k).of = job[r].for
        /\ Row(r, k).card = k /\ Row(r, k).number # "signed"
        /\ Row(r, k).number = IF k \in shown THEN "listed" ELSE "masked"
    BY <1>2 DEF Row, Rows, Numbers
  <2> HIDE DEF Row
  <2>4. /\ rows \subseteq rows'
        /\ \A x \in rows' : x \in rows \/ x = Row(r, k)
    BY <1>6
  <2>5. Grows /\ Signs
    BY <1>1, <2>3, <2>4 DEF Grows, Signs, provider, history
  <2>6. Stored(k)'
    <3>1. CASE Taken(Row(r, k))
      <4>1. PICK x \in rows : /\ x.number = Row(r, k).number
                              /\ x.number = "masked" \/ x.card = Row(r, k).card
        BY <3>1 DEF Taken
      <4>2. x \in rows' /\ shown' = shown
        BY <2>4, <2>5 DEF Grows
      <4>3. QED
        BY <2>3, <4>1, <4>2 DEF Stored
    <3>2. CASE ~Taken(Row(r, k))
      BY <1>6, <2>3, <3>2 DEF Stored
    <3>3. QED
      BY <3>1, <3>2
  <2>7. SyncRun(r)'
    <3>1. \A d \in job[r].found : \A c :
             (c = job[r].for => HeldFor(c, d)') /\ NotIssued(d)'
      BY <1>1, <1>2 DEF HeldFor, NotIssued, provider, history
    <3>2. \A d \in job[r].todo : \A x \in rows' :
             x.of = job[r].for /\ x.card = d /\ x.number = "signed"
                => d \in met'
      BY <1>1, <1>2, <2>3, <2>4 DEF history
    <3>3. ~job[r].hurt =>
             \A d \in job[r].found \ (job[r].todo \ {k}) : Stored(d)'
      BY <1>1, <1>2, <2>5, <2>6, Kept
    <3>4. QED
      BY <1>2, <1>3, <2>2, <3>1, <3>2, <3>3 DEF SyncRun, CardRun, CustomerRun
  <2>8. \A q \in Runs : SyncRun(q)'
    BY <1>1, <2>2, <2>5, <2>7, TurnsTypes, WaitsKept
  <2>9. RowsInv'
    <3>1. \A x \in rows' :
             /\ HeldFor(x.of, x.card)'
             /\ x.number = "signed" => issuing'[x.card] = Nobody
             /\ x.number # "signed" =>
                   /\ x.number =
                         IF x.card \in shown' THEN "listed" ELSE "masked"
                   /\ NotIssued(x.card)'
      <4>1. /\ \A c : c = job[r].for => HeldFor(c, k)'
            /\ NotIssued(k)' /\ shown' = shown
        BY <1>1, <1>2 DEF HeldFor, NotIssued, provider, history
      <4>2. QED
        BY <2>3, <2>4, <2>5, <4>1, OtherRows
    <3>2. ASSUME NEW x \in rows', NEW y \in rows', x.card = y.card,
                 x.of = y.of, x.number = "signed", y.number # "signed"
          PROVE  x.card \in met'
      <4>1. x \in rows
        BY <2>3, <2>4, <3>2
      <4>2. CASE y \in rows
        BY <1>1, <3>2, <4>1, <4>2 DEF SyncInv, RowsInv, history
      <4>3. CASE y = Row(r, k)
        BY <1>1, <1>2, <2>3, <3>2, <4>1, <4>3 DEF history
      <4>4. QED
        BY <2>4, <4>2, <4>3
    <3>3. QED
      BY <3>1, <3>2 DEF RowsInv
  <2>10. SyncTypes'
    <3>1. rows' \subseteq Rows
      BY <1>1, <2>3, <2>4 DEF SyncTypes, CardSyncTypeOK
    <3>2. QED
      BY <1>1, <1>6, <2>2, <3>1, TurnsTypes
         DEF SyncTypes, CardSyncTypeOK, provider, history
  <2>11. \A d \in seen' : Stored(d)'
    BY <1>1, <2>5, Kept DEF SyncInv, history
  <2>12. Stood' /\ RecentMeansMapped'
    BY <1>1 DEF SyncInv, Stood, HeldFor, RecentMeansMapped, provider, history
  <2>13. QED
    BY <2>8, <2>9, <2>10, <2>11, <2>12 DEF SyncInv
<1>7. QED
  BY <1>5, <1>6 DEF CreateMissingCard

LEMMA StepStoreIssued ==
  ASSUME SyncInv, NEW k \in MapleradCards, StoreIssued(k)
  PROVE  SyncInv'
<1> DEFINE new == [of |-> issuing[k], card |-> k, number |-> "signed"]
<1>1. /\ SyncTypes /\ issuing[k] # Nobody
      /\ issuing' = [issuing EXCEPT ![k] = Nobody]
      /\ UNCHANGED <<email, mapping, recent, provider, job, history, calls,
                     changes>>
      /\ \/ rows' = rows \cup {new} /\ UNCHANGED troubles
         \/ Trouble /\ UNCHANGED rows
  BY DEF StoreIssued, SyncInv
<1>2. /\ issuing[k] \in Customers
      /\ HeldFor(issuing[k], k)
      /\ new \in Rows /\ new.of = issuing[k] /\ new.card = k
      /\ new.number = "signed"
  BY <1>1 DEF SyncInv, SyncTypes, CardSyncTypeOK, Stood, Rows, Numbers
<1> HIDE DEF new
<1>3. rows \subseteq rows' /\ \A x \in rows' : x \in rows \/ x = new
  BY <1>1
<1>4. /\ issuing' \in [MapleradCards -> Customers \cup {Nobody}]
      /\ issuing'[k] = Nobody
      /\ \A d \in MapleradCards \ {k} : issuing'[d] = issuing[d]
  BY <1>1 DEF SyncTypes, CardSyncTypeOK
<1>5. Grows /\ Signs
  BY <1>1, <1>2, <1>3, <1>4 DEF Grows, Signs, provider, history
<1>6. SyncTypes'
  <2>1. rows' \subseteq Rows
    BY <1>1, <1>2, <1>3 DEF SyncTypes, CardSyncTypeOK
  <2>2. troubles' \in 0..MaxTroubles
    BY <1>1, TroubleTypes
  <2>3. QED
    BY <1>1, <1>4, <2>1, <2>2
       DEF SyncTypes, CardSyncTypeOK, provider, history
<1>7. \A r \in Runs : SyncRun(r)'
  BY <1>1, <1>5, WaitsKept
<1>8. RowsInv'
  <2>1. \A x \in rows' :
           /\ HeldFor(x.of, x.card)'
           /\ x.number = "signed" => issuing'[x.card] = Nobody
           /\ x.number # "signed" =>
                 /\ x.number =
                       IF x.card \in shown' THEN "listed" ELSE "masked"
                 /\ NotIssued(x.card)'
    <3>1. \A c : c = new.of => HeldFor(c, k)'
      BY <1>1, <1>2 DEF HeldFor, provider, history
    <3>2. QED
      BY <1>2, <1>3, <1>4, <1>5, <3>1, OtherRows
  <2>2. ASSUME NEW x \in rows', NEW y \in rows', x.card = y.card,
               x.of = y.of, x.number = "signed", y.number # "signed"
        PROVE  x.card \in met'
    <3>1. y \in rows
      BY <1>2, <1>3, <2>2
    <3>2. CASE x \in rows
      BY <1>1, <2>2, <3>1, <3>2 DEF SyncInv, RowsInv, history
    <3>3. CASE x = new
      BY <1>1, <1>2, <2>2, <3>1, <3>3
         DEF SyncInv, RowsInv, NotIssued, history
    <3>4. QED
      BY <1>3, <3>2, <3>3
  <2>3. QED
    BY <2>1, <2>2 DEF RowsInv
<1>9. \A d \in seen' : Stored(d)'
  BY <1>1, <1>5, Kept DEF SyncInv, history
<1>10. Stood' /\ RecentMeansMapped'
  <2>1. \A d \in MapleradCards :
           (issuing[d] # Nobody => HeldFor(issuing[d], d))'
    BY <1>1, <1>4 DEF SyncInv, Stood, HeldFor, provider, history
  <2>2. QED
    BY <1>1, <2>1 DEF SyncInv, Stood, RecentMeansMapped, history
<1>11. QED
  BY <1>6, <1>7, <1>8, <1>9, <1>10 DEF SyncInv

-----------------------------------------------------------------------------
(***************************************************************************)
(* Customers of a company                                                  *)
(***************************************************************************)
LEMMA StepSyncCustomers ==
  ASSUME SyncInv, NEW r \in Runs, NEW company \in Companies,
         SyncCustomers(r, company)
  PROVE  SyncInv'
<1>1. /\ SyncTypes /\ job[r].pc = "idle" /\ calls < MaxCalls
      /\ calls' = calls + 1 /\ UNCHANGED <<changes, troubles>>
      /\ job' = [job EXCEPT ![r].pc = "ask", ![r].for = company]
      /\ UNCHANGED <<local, provider, issuing, history>>
  BY DEF SyncCustomers, Starts, SyncInv
<1> DEFINE j == [job[r] EXCEPT !.pc = "ask", !.for = company]
<1>2. j \in SyncJob /\ j.pc = "ask" /\ j.for = company
  BY <1>1, SyncJobFields DEF SyncJob
<1>3. job' = [job EXCEPT ![r] = j]
  BY <1>1
<1> HIDE DEF j
<1>4. Turns(r, j) /\ job'[r] = j
  BY <1>1, <1>2, <1>3, TurnsTypes DEF Turns
<1>5. SyncRun(r)'
  BY <1>2, <1>4 DEF SyncRun, CardRun, CustomerRun
<1>6. calls' \in 0..MaxCalls /\ met' \subseteq MapleradCards
  BY <1>1, SyncConstants DEF SyncTypes, CardSyncTypeOK, history
<1>7. QED
  BY <1>1, <1>4, <1>5, <1>6, SyncTurns DEF history

LEMMA StepAskCustomers ==
  ASSUME SyncInv, NEW r \in Runs, AskCustomers(r)
  PROVE  SyncInv'
<1>1. /\ SyncTypes /\ job[r].pc = "ask" /\ SyncRun(r)
      /\ UNCHANGED <<local, provider, issuing, history, calls, changes>>
  BY DEF AskCustomers, SyncInv
<1>2. PICK found \in SUBSET enrolled :
         /\ GetCustomers(found)
         /\ IF found = {} THEN Done(r)
            ELSE job' = [job EXCEPT ![r].pc = "read", ![r].found = found,
                                    ![r].knew = found]
  BY DEF AskCustomers
<1>3. /\ Trouble \/ UNCHANGED troubles
      /\ met' \subseteq MapleradCards /\ calls' \in 0..MaxCalls
  BY <1>1, <1>2 DEF GetCustomers, SyncTypes, CardSyncTypeOK, history
<1>4. CASE found = {}
  <2>1. Turns(r, Idle) /\ job'[r] = Idle
    BY <1>1, <1>2, <1>4, IdleType, TurnsTypes DEF Turns, Done
  <2>2. QED
    BY <1>1, <1>2, <1>3, <2>1, IdleRun, SyncTurns DEF GetCustomers, history
<1>5. CASE found # {}
  <2> DEFINE j == [job[r] EXCEPT !.pc = "read", !.found = found,
                                 !.knew = found]
  <2>1. found \subseteq Addresses /\ job[r].for \in Companies
    BY <1>1, <1>2 DEF SyncTypes, CardSyncTypeOK, SyncRun, CustomerRun
  <2>2. /\ j \in SyncJob /\ j.pc = "read" /\ j.for = job[r].for
        /\ j.found = j.knew
    BY <1>1, <2>1, SyncJobFields DEF SyncJob
  <2>3. job' = [job EXCEPT ![r] = j]
    BY <1>2, <1>5
  <2> HIDE DEF j
  <2>4. Turns(r, j) /\ job'[r] = j
    BY <1>1, <2>2, <2>3, TurnsTypes DEF Turns
  <2>5. SyncRun(r)'
    BY <2>1, <2>2, <2>4 DEF SyncRun, CardRun, CustomerRun
  <2>6. QED
    BY <1>1, <1>2, <1>3, <2>4, <2>5, SyncTurns DEF GetCustomers, history
<1>6. QED
  BY <1>4, <1>5

LEMMA StepReadLocalCustomers ==
  ASSUME SyncInv, NEW r \in Runs, ReadLocalCustomers(r)
  PROVE  SyncInv'
<1>1. /\ SyncTypes /\ job[r].pc = "read" /\ SyncRun(r)
      /\ UNCHANGED <<local, provider, issuing, history, calls, changes>>
  BY DEF ReadLocalCustomers, SyncInv
<1> DEFINE j == [job[r] EXCEPT !.pc = "map", !.read = email,
                               !.todo = CustomersOf(job[r].for)]
<1>2. CASE /\ job' = [job EXCEPT ![r].pc = "map", ![r].read = email,
                                 ![r].todo = CustomersOf(job[r].for)]
           /\ UNCHANGED troubles
  <2>1. /\ job[r].for \in Companies /\ job[r].found = job[r].knew
        /\ job[r].knew \subseteq Addresses
        /\ CustomersOf(job[r].for) \subseteq Customers
        /\ email \in [Customers -> Addresses \cup {Nobody}]
    BY <1>1, SyncJobFields
       DEF SyncRun, CustomerRun, CustomersOf, SyncTypes, CardSyncTypeOK
  <2>2. /\ j \in SyncJob /\ j.pc = "map" /\ j.for = job[r].for
        /\ j.found = job[r].found /\ j.knew = job[r].knew
        /\ j.read = email /\ j.todo = CustomersOf(job[r].for)
    BY <1>1, <2>1, SyncJobFields DEF SyncJob
  <2>3. job' = [job EXCEPT ![r] = j]
    BY <1>2
  <2> HIDE DEF j
  <2>4. Turns(r, j) /\ job'[r] = j
    BY <1>1, <2>2, <2>3, TurnsTypes DEF Turns
  <2>5. \A c \in Customers : CompanyOf[c] = j.for /\ j.read[c] \in j.knew
                                => c \in j.todo
    BY <2>1, <2>2, SyncConstants DEF CustomersOf
  <2>6. SyncRun(r)'
    BY <2>1, <2>2, <2>4, <2>5 DEF SyncRun, CardRun, CustomerRun
  <2>7. met' \subseteq MapleradCards /\ calls' \in 0..MaxCalls
    BY <1>1 DEF SyncTypes, CardSyncTypeOK, history
  <2>8. QED
    BY <1>1, <1>2, <2>4, <2>6, <2>7, SyncTurns DEF history
<1>3. CASE Trouble /\ Done(r)
  BY <1>1, <1>3, StepDone
<1>4. QED
  BY <1>2, <1>3 DEF ReadLocalCustomers

LEMMA StepFailOneCustomer ==
  ASSUME SyncInv, NEW r \in Runs, NEW c \in Customers, FailOneCustomer(r, c)
  PROVE  SyncInv'
<1>1. /\ SyncTypes /\ job[r].pc = "map" /\ SyncRun(r) /\ Trouble
      /\ job' = [job EXCEPT ![r].todo = @ \ {c}, ![r].read[c] = Nobody]
      /\ UNCHANGED <<local, provider, issuing, history, calls, changes>>
  BY DEF FailOneCustomer, SyncInv
<1> DEFINE j == [job[r] EXCEPT !.todo = @ \ {c}, !.read[c] = Nobody]
<1>2. /\ job[r].for \in Companies /\ job[r].found = job[r].knew
      /\ job[r].knew \subseteq Addresses
      /\ \A d \in Customers :
            CompanyOf[d] = job[r].for /\ job[r].read[d] \in job[r].knew
               => d \in job[r].todo \/ mapping[d] # Nobody
  BY <1>1, SyncJobFields DEF SyncRun, CustomerRun
<1>3. /\ j \in SyncJob /\ j.pc = "map" /\ j.for = job[r].for
      /\ j.found = job[r].found /\ j.knew = job[r].knew
      /\ j.read = [job[r].read EXCEPT ![c] = Nobody]
      /\ j.todo = job[r].todo \ {c}
  BY <1>1, SyncJobFields DEF SyncJob
<1>4. job' = [job EXCEPT ![r] = j]
  BY <1>1
<1> HIDE DEF j
<1>5. Turns(r, j) /\ job'[r] = j
  BY <1>1, <1>3, <1>4, TurnsTypes DEF Turns
<1>6. \A d \in Customers :
         CompanyOf[d] = j.for /\ j.read[d] \in j.knew
            => d \in j.todo \/ mapping[d] # Nobody
  BY <1>1, <1>2, <1>3, SyncConstants, SyncJobFields
<1>7. SyncRun(r)'
  BY <1>1, <1>2, <1>3, <1>5, <1>6 DEF SyncRun, CardRun, CustomerRun, local
<1>8. met' \subseteq MapleradCards /\ calls' \in 0..MaxCalls
  BY <1>1 DEF SyncTypes, CardSyncTypeOK, history
<1>9. QED
  BY <1>1, <1>5, <1>7, <1>8, SyncTurns DEF history

LEMMA StepMapOneCustomer ==
  ASSUME SyncInv, NEW r \in Runs, NEW c \in Customers, MapOneCustomer(r, c)
  PROVE  SyncInv'
<1>1. /\ SyncTypes /\ Stood /\ job[r].pc = "map" /\ SyncRun(r)
      /\ job' = [job EXCEPT ![r].todo = @ \ {c}]
      /\ UNCHANGED <<email, rows, recent, provider, issuing, met, seen, due,
                     bounds>>
      /\ IF Matched(r, c) THEN Map(c, job[r].read[c])
         ELSE UNCHANGED <<mapping, stoodFor>>
  BY DEF MapOneCustomer, SyncInv
<1> DEFINE j == [job[r] EXCEPT !.todo = @ \ {c}]
<1>2. /\ job[r].for \in Companies /\ job[r].found = job[r].knew
      /\ job[r].knew \subseteq Addresses
      /\ \A d \in Customers :
            CompanyOf[d] = job[r].for /\ job[r].read[d] \in job[r].knew
               => d \in job[r].todo \/ mapping[d] # Nobody
  BY <1>1, SyncJobFields DEF SyncRun, CustomerRun
<1>3. /\ j \in SyncJob /\ j.pc = "map" /\ j.for = job[r].for
      /\ j.found = job[r].found /\ j.knew = job[r].knew
      /\ j.read = job[r].read /\ j.todo = job[r].todo \ {c}
  BY <1>1, SyncJobFields DEF SyncJob
<1>4. job' = [job EXCEPT ![r] = j]
  BY <1>1
<1> HIDE DEF j
<1>5. Turns(r, j) /\ job'[r] = j
  BY <1>1, <1>3, <1>4, TurnsTypes DEF Turns
<1>6. /\ mapping' \in [Customers -> Addresses \cup {Nobody}]
      /\ stoodFor' \in [Addresses -> SUBSET Customers]
      /\ \A b \in Addresses : stoodFor[b] \subseteq stoodFor'[b]
      /\ \A d \in Customers :
            mapping'[d] # Nobody => d \in stoodFor'[mapping'[d]]
      /\ \A d \in Customers : mapping[d] # Nobody => mapping'[d] # Nobody
      /\ job[r].read[c] \in job[r].knew => mapping'[c] # Nobody
  <2>1. CASE Matched(r, c)
    <3>1. job[r].read[c] \in Addresses /\ Map(c, job[r].read[c])
      BY <1>1, <1>2, <2>1 DEF Matched
    <3>2. QED
      BY <1>1, <3>1, MapGrows, SyncConstants
  <2>2. CASE ~Matched(r, c)
    BY <1>1, <1>2, <2>2 DEF Matched, SyncTypes, CardSyncTypeOK, Stood
  <2>3. QED
    BY <2>1, <2>2
<1>7. SyncTypes'
  BY <1>1, <1>5, <1>6, TurnsTypes
     DEF SyncTypes, CardSyncTypeOK, provider, bounds
<1>8. Grows
  BY <1>1, <1>6 DEF Grows, provider
<1>9. Stood'
  <2>1. ASSUME NEW k \in MapleradCards, issuing[k] # Nobody
        PROVE  HeldFor(issuing[k], k)'
    <3>1. holder[k] \in Addresses /\ issuing[k] \in stoodFor[holder[k]]
      BY <1>1, <2>1 DEF Stood, HeldFor, SyncTypes, CardSyncTypeOK
    <3>2. QED
      BY <1>1, <1>6, <3>1, SyncConstants DEF HeldFor, provider
  <2>2. QED
    BY <1>1, <1>6, <2>1 DEF Stood
<1>10. SyncRun(r)'
  <2>1. \A d \in Customers : CompanyOf[d] = j.for /\ j.read[d] \in j.knew
           => d \in j.todo \/ mapping'[d] # Nobody
    BY <1>2, <1>3, <1>6
  <2>2. QED
    BY <1>2, <1>3, <1>5, <2>1 DEF SyncRun, CardRun, CustomerRun
<1>11. \A q \in Runs : job'[q] = job[q] \/ SyncRun(q)'
  BY <1>1, <1>5, <1>10, TurnsTypes
<1>12. QED
  BY <1>1, <1>7, <1>8, <1>9, <1>11, Quiet

LEMMA StepRecordCustomers ==
  ASSUME SyncInv, NEW r \in Runs, RecordCustomers(r)
  PROVE  SyncInv'
<1>1. /\ SyncTypes /\ job[r].pc = "map" /\ job[r].todo = {} /\ SyncRun(r)
      /\ UpdateSyncMetadata(r, job[r].for) /\ Done(r)
      /\ UNCHANGED <<email, mapping, rows, provider, issuing, met, stoodFor,
                     seen, calls, changes>>
  BY DEF RecordCustomers, SyncInv
<1>2. Turns(r, Idle) /\ job'[r] = Idle
  BY <1>1, IdleType, TurnsTypes DEF Turns, Done
<1> DEFINE x == job[r].for
           mapped == {c \in Customers : /\ CompanyOf[c] = x
                                        /\ job[r].read[c] \in job[r].knew}
<1>3. /\ x \in Companies
      /\ \A c \in mapped : mapping[c] # Nobody
  BY <1>1 DEF SyncRun, CustomerRun
<1>4. /\ \/ recent' = recent \cup {x} /\ due' = [due EXCEPT ![x] = mapped]
         \/ UNCHANGED <<recent, due>>
      /\ Trouble \/ UNCHANGED troubles
  BY <1>1 DEF UpdateSyncMetadata, UpsertSyncDate
<1>5. recent \subseteq Companies /\ due \in [Companies -> SUBSET Customers]
  BY <1>1 DEF SyncTypes, CardSyncTypeOK
<1>6. recent' \subseteq Companies /\ due' \in [Companies -> SUBSET Customers]
  BY <1>3, <1>4, <1>5
<1>7. SyncTypes'
  BY <1>1, <1>2, <1>4, <1>6, TurnsTypes, TroubleTypes
     DEF SyncTypes, CardSyncTypeOK, provider
<1>8. Grows /\ Signs
  BY <1>1 DEF SyncInv, Signs, Grows, provider
<1>9. \A q \in Runs : SyncRun(q)'
  BY <1>1, <1>2, <1>8, TurnsTypes, IdleRun, WaitsKept
<1>10. Stood' /\ RowsInv' /\ \A k \in seen' : Stored(k)'
  BY <1>1 DEF SyncInv, Stood, RowsInv, HeldFor, NotIssued, Stored, provider
<1>11. RecentMeansMapped'
  <2>1. ASSUME NEW y \in recent', NEW c \in due'[y]
        PROVE  mapping'[c] # Nobody
    <3>1. CASE y \in recent /\ c \in due[y]
      BY <1>1, <3>1 DEF SyncInv, RecentMeansMapped
    <3>2. CASE y = x /\ c \in mapped
      BY <1>1, <1>3, <3>2
    <3>3. QED
      <4> HIDE DEF mapped, x
      <4>1. QED
        BY <1>3, <1>4, <1>5, <2>1, <3>1, <3>2
  <2>2. QED
    BY <2>1 DEF RecentMeansMapped
<1>12. QED
  BY <1>7, <1>9, <1>10, <1>11 DEF SyncInv

-----------------------------------------------------------------------------
(***************************************************************************)
(* The theorems                                                            *)
(***************************************************************************)
LEMMA StepSync == SyncInv /\ [CardSyncNext]_csvars => SyncInv'
<1> SUFFICES ASSUME SyncInv, [CardSyncNext]_csvars PROVE SyncInv'
  OBVIOUS
<1>1. CASE UNCHANGED csvars
  BY <1>1 DEF csvars, local, provider, history, bounds, SyncInv, SyncTypes,
     CardSyncTypeOK, Stood, RowsInv, SyncRun, CardRun, CustomerRun, HeldFor,
     NotIssued, Stored, RecentMeansMapped
<1>2. ASSUME NEW c \in Customers,
             \/ EnsureMapleradCustomer(c)
             \/ \E k \in MapleradCards : MakeCard(c, k)
             \/ \E a \in Addresses : CreateCustomer(c, a) \/ ChangeEmail(c, a)
      PROVE  SyncInv'
  BY <1>2, StepEnsureMapleradCustomer, StepMakeCard, StepCreateCustomer
<1>3. ASSUME NEW r \in Runs,
             \/ \E c \in Customers : GetCustomerCards(r, c)
             \/ FetchCards(r) \/ ReadLocalCards(r)
             \/ \E k \in MapleradCards : CreateMissingCard(r, k)
             \/ FinishCards(r)
      PROVE  SyncInv'
  BY <1>3, StepSyncCustomerCards, StepFetchCards, StepReadLocalCards,
     StepCreateMissingCard, StepFinishCards
<1>4. ASSUME NEW r \in Runs,
             \/ \E x \in Companies :
                   \/ FindAllByCompany(r, x)
                   \/ FindAllCustomersWithCardCountByCompany(r, x)
                   \/ SyncAlreadyEnrolled(r, x)
             \/ AskCustomers(r) \/ ReadLocalCustomers(r)
             \/ SyncCustomerMappings(r)
             \/ RecordCustomers(r)
      PROVE  SyncInv'
  BY <1>4, StepSyncCustomers, StepAskCustomers, StepReadLocalCustomers,
     StepMapOneCustomer, StepFailOneCustomer, StepRecordCustomers
     DEF FindAllByCompany, FindAllCustomersWithCardCountByCompany,
         SyncAlreadyEnrolled, SyncCustomerMappings
<1>5. ASSUME NEW k \in MapleradCards, StoreIssued(k) PROVE SyncInv'
  BY <1>5, StepStoreIssued
<1>6. ASSUME NEW x \in Companies, GetCompanyCards(x) \/ HourPasses(x)
      PROVE  SyncInv'
  BY <1>6, StepSyncCompanyCards, StepHourPasses
<1>7. CASE ProcessEnds
  BY <1>7, StepProcessEnds
<1>8. QED
  BY <1>1, <1>2, <1>3, <1>4, <1>5, <1>6, <1>7 DEF CardSyncNext

LEMMA AlwaysSyncInv == CardSyncSpec => []SyncInv
  BY InitSync, StepSync, PTL DEF CardSyncSpec

\* Every variable of the sync model keeps its type.
THEOREM SyncTypeCorrect == CardSyncSpec => []CardSyncTypeOK
<1>1. SyncInv => CardSyncTypeOK
  BY DEF SyncInv, SyncTypes
<1>2. QED
  BY <1>1, AlwaysSyncInv, PTL

\* Two rows of a card that nobody met in its issuance are of two customers.
LEMMA RowsAreOfTwo ==
  ASSUME SyncInv, NEW k \in MapleradCards, k \notin met,
         Cardinality(stoodFor[holder[k]]) <= 1
  PROVE  Cardinality(RowsOf(k)) \in {0, 1}
<1>1. \A x \in RowsOf(k) : /\ x \in rows /\ x.card = k /\ x \in Rows
                           /\ holder[k] \in Addresses
                           /\ x.of \in stoodFor[holder[k]]
  BY DEF RowsOf, SyncInv, RowsInv, HeldFor, SyncTypes, CardSyncTypeOK
<1>2. ASSUME NEW x \in RowsOf(k), NEW y \in RowsOf(k)
      PROVE  x = y
  <2>1. stoodFor[holder[k]] \subseteq Customers
    BY <1>1, <1>2 DEF SyncInv, SyncTypes, CardSyncTypeOK
  <2>2. IsFiniteSet(stoodFor[holder[k]])
    BY <2>1, SyncConstants, FS_Subset
  <2>3. x.of = y.of
    <3>1. SUFFICES ASSUME x.of # y.of PROVE FALSE
      OBVIOUS
    <3>2. {x.of, y.of} \subseteq stoodFor[holder[k]]
      BY <1>1, <1>2
    <3>3. Cardinality({x.of, y.of}) <= Cardinality(stoodFor[holder[k]])
      BY <2>2, <3>2, FS_Subset
    <3>4. Cardinality({x.of, y.of}) = 2
      <4>1. IsFiniteSet({x.of}) /\ Cardinality({x.of}) = 1
        BY FS_Singleton
      <4>2. y.of \notin {x.of}
        BY <3>1
      <4>3. Cardinality({x.of} \cup {y.of}) = 1 + 1
        BY <4>1, <4>2, FS_AddElement
      <4>4. {x.of, y.of} = {x.of} \cup {y.of}
        OBVIOUS
      <4>5. QED
        BY <4>3, <4>4
    <3>5. Cardinality(stoodFor[holder[k]]) \in Nat
      BY <2>2, FS_CardinalityType
    <3>6. QED
      BY <3>3, <3>4, <3>5
  <2>4. x.number = y.number
    <3>1. x.number = "signed" <=> y.number = "signed"
      BY <1>1, <1>2, <2>3 DEF SyncInv, RowsInv
    <3>2. x.number # "signed" => x.number = y.number
      BY <1>1, <1>2, <3>1 DEF SyncInv, RowsInv
    <3>3. QED
      BY <3>1, <3>2
  <2>5. QED
    BY <1>1, <1>2, <2>3, <2>4 DEF Rows
<1>3. CASE RowsOf(k) = {}
  BY <1>3, FS_EmptySet
<1>4. ASSUME NEW x \in RowsOf(k) PROVE Cardinality(RowsOf(k)) \in {0, 1}
  <2>1. RowsOf(k) = {x}
    BY <1>2, <1>4
  <2>2. QED
    BY <2>1, FS_Singleton
<1>5. QED
  BY <1>3, <1>4

\* For any customers, cards and syncs: a card that an undisturbed sync found
\* is stored when the sync is over, unless an unlisted number has taken the
\* one place there is, and twice only when a sync met its issuance or its
\* holder has stood for two customers (card.sync.service.ts:226).
THEOREM FoundAreStoredOnce == CardSyncSpec => []FoundIsStoredOnce
<1>1. SyncInv => FoundIsStored
  BY DEF SyncInv, FoundIsStored, Stored, RowsOf
<1>2. SyncInv => CardStoredOnceUnlessShared
  <2> SUFFICES ASSUME SyncInv, NEW k \in MapleradCards,
                      Cardinality(RowsOf(k)) > 1, k \notin met,
                      ~(Cardinality(stoodFor[holder[k]]) > 1)
               PROVE  FALSE
    BY DEF CardStoredOnceUnlessShared
  <2>1. PICK x \in RowsOf(k) : TRUE
    <3>1. RowsOf(k) # {}
      BY FS_EmptySet
    <3>2. QED
      BY <3>1
  <2>2. stoodFor[holder[k]] \subseteq Customers
    BY <2>1 DEF RowsOf, SyncInv, RowsInv, HeldFor, SyncTypes, CardSyncTypeOK
  <2>3. Cardinality(stoodFor[holder[k]]) \in Nat
    BY <2>2, SyncConstants, FS_Subset, FS_CardinalityType
  <2>4. Cardinality(RowsOf(k)) \in {0, 1}
    BY <2>3, RowsAreOfTwo
  <2>5. QED
    BY <2>4
<1>3. QED
  BY <1>1, <1>2, AlwaysSyncInv, PTL DEF FoundIsStoredOnce

\* For any companies: while a company is skipped because it was synced, each
\* of its customers that the provider knew is mapped, unless storing that
\* failed (card.sync.service.ts:407, :1414).
THEOREM RecentAreMapped == CardSyncSpec => []RecentMeansMapped
<1>1. SyncInv => RecentMeansMapped
  BY DEF SyncInv
<1>2. QED
  BY <1>1, AlwaysSyncInv, PTL
=============================================================================
