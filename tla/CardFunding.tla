---------------------------- MODULE CardFunding ----------------------------
(***************************************************************************)
(* Money between the USD wallet of a company and its Maplerad cards.       *)
(*                                                                         *)
(* Funding a card writes the wallet first (the "reservation"), asks the    *)
(* provider, then writes card and wallet; a refusal is refunded.           *)
(* Withdrawing records a PENDING row, asks the provider, then writes card  *)
(* and wallet, and credits the wallet.  Every write is a value computed    *)
(* from an earlier read.  The model classes return errors instead of       *)
(* throwing, and these services ignore the result of every wallet update.  *)
(* One action below is the code between two awaits.                        *)
(***************************************************************************)
EXTENDS Integers, FiniteSets, Functions

CONSTANTS
    Fundings,      \* executions of fundCard
    Withdrawals,   \* executions of withdrawFromCard
    Cards,
    CardOf,        \* executions -> Cards
    Sum,           \* executions -> the amount asked for
    OpeningWallet, \* what the wallet holds at the start
    OpeningCard,   \* what each card holds at the start, here and there
    MaxFaults,     \* bound: database calls that fail
    MaxStops       \* bound: crashes of the server process

Ops == Fundings \cup Withdrawals

ASSUME CardAssumption ==
    /\ IsFiniteSet(Fundings) /\ IsFiniteSet(Withdrawals)
    /\ Fundings \cap Withdrawals = {}
    /\ CardOf \in [Ops -> Cards]
    /\ Sum \in [Ops -> Nat \ {0}]
    /\ OpeningWallet \in Nat
    /\ OpeningCard \in Nat
    /\ MaxFaults \in Nat
    /\ MaxStops \in Nat

VARIABLES
    wallet,      \* Wallet.balance of the USD wallet
    card,        \* Card.balance
    onCard,      \* what the provider holds on each card
    op,          \* the executions: where they are, and what they have read
    row,         \* status of the row each execution writes
    executed,    \* executions the provider carried out
    credits,     \* history: how often each one was added to the wallet
    interrupted, \* history: executions that lost an answer or a write
    overlapped,  \* history: balances written between a read and its write
    faults,      \* failed database calls so far
    stops        \* crashes so far

cvars == <<wallet, card, onCard, op, row, executed, credits, interrupted,
           overlapped, faults, stops>>

\* Between reading the wallet and the last write computed from it.
WalletWindow == {"reserve", "fund", "fundread", "fundcard", "fundwallet",
                 "refund", "drawcard", "drawwallet", "credit"}
CardWindow == {"fundcard", "walletread", "drawcard"}
Steps == {"idle", "fundrow", "refundread", "request", "draw", "drawread",
          "creditread", "succeed", "fail", "done", "dead"}
            \cup WalletWindow \cup CardWindow
RowStatus == {"NONE", "PENDING", "SUCCESS", "FAILED"}

CardTypeOK ==
    /\ wallet \in Int
    /\ card \in [Cards -> Int]
    /\ onCard \in [Cards -> Int]
    /\ op \in [Ops -> [pc : Steps, wallet : Int, card : Int]]
    /\ row \in [Ops -> RowStatus]
    /\ executed \in SUBSET Ops
    /\ credits \in [Ops -> Nat]
    /\ interrupted \in SUBSET Ops
    /\ overlapped \in SUBSET ({"wallet"} \cup Cards)
    /\ faults \in Nat
    /\ stops \in Nat

CardInit ==
    /\ wallet = OpeningWallet
    /\ card = [k \in Cards |-> OpeningCard]
    /\ onCard = [k \in Cards |-> OpeningCard]
    /\ op = [o \in Ops |-> [pc |-> "idle", wallet |-> 0, card |-> 0]]
    /\ row = [o \in Ops |-> "NONE"]
    /\ executed = {}
    /\ credits = [o \in Ops |-> 0]
    /\ interrupted = {}
    /\ overlapped = {}
    /\ faults = 0
    /\ stops = 0

(***************************************************************************)
(* Database calls                                                          *)
(***************************************************************************)

Goto(o, pc) == op' = [op EXCEPT ![o].pc = pc]

SetWallet(o, value) ==
    /\ wallet' = value
    /\ overlapped' =
          IF \E q \in Ops \ {o} : op[q].pc \in WalletWindow
          THEN overlapped \cup {"wallet"} ELSE overlapped

SetCard(o, value) ==
    /\ card' = [card EXCEPT ![CardOf[o]] = value]
    /\ overlapped' =
          IF \E q \in Ops \ {o} : /\ CardOf[q] = CardOf[o]
                                  /\ op[q].pc \in CardWindow
          THEN overlapped \cup {CardOf[o]} ELSE overlapped

\* A call that fails writes nothing, and the execution goes on at pc.
Fault(o, pc) ==
    /\ faults < MaxFaults
    /\ faults' = faults + 1
    /\ interrupted' = interrupted \cup {o}
    /\ Goto(o, pc)

(***************************************************************************)
(* fundCard                                                                *)
(***************************************************************************)

\* Mutant: the balance is not checked.
ReadReserveUnchecked(o) ==
    /\ op[o].pc = "idle" /\ o \in Fundings
    /\ op' = [op EXCEPT ![o].pc = "reserve", ![o].wallet = wallet]
    /\ UNCHANGED <<wallet, card, onCard, row, executed, credits, interrupted,
                   overlapped, faults, stops>>

\* Validation, then the read of reserveFundsSecurely: a card that may not be
\* funded or a wallet that holds too little ends the call.
ReadReserve(o) ==
    /\ op[o].pc = "idle" /\ o \in Fundings
    /\ \/ /\ wallet >= Sum[o]
          /\ op' = [op EXCEPT ![o].pc = "reserve", ![o].wallet = wallet]
       \/ Goto(o, "done")
    /\ UNCHANGED <<wallet, card, onCard, row, executed, credits, interrupted,
                   overlapped, faults, stops>>

\* The write of reserveFundsSecurely; a failed one is not noticed.
WriteReserve(o) ==
    /\ op[o].pc = "reserve"
    /\ \/ /\ SetWallet(o, op[o].wallet - Sum[o])
          /\ Goto(o, "fund")
          /\ UNCHANGED <<interrupted, faults>>
       \/ Fault(o, "fund") /\ UNCHANGED <<wallet, overlapped>>
    /\ UNCHANGED <<card, onCard, row, executed, credits, stops>>

\* The provider carries a funding or a withdrawal out; it does not overdraw a
\* card.
PutOnCard(o) ==
    /\ executed' = executed \cup {o}
    /\ onCard' = [onCard EXCEPT ![CardOf[o]] = @ + Sum[o]]

TakeFromCard(o) ==
    /\ onCard[CardOf[o]] >= Sum[o]
    /\ executed' = executed \cup {o}
    /\ onCard' = [onCard EXCEPT ![CardOf[o]] = @ - Sum[o]]

\* Mutant: a refusal is not refunded.
FundAtProviderNoRefund(o) ==
    /\ op[o].pc = "fund"
    /\ \/ /\ PutOnCard(o)
          /\ Goto(o, "fundread")
       \/ Goto(o, "done") /\ UNCHANGED <<executed, onCard>>
    /\ UNCHANGED <<wallet, card, row, credits, interrupted, overlapped,
                   faults, stops>>

\* fundMapleradCard: carried out; carried out and the answer lost, which
\* reads as an error; refused.
FundAtProvider(o) ==
    /\ op[o].pc = "fund"
    /\ \/ /\ PutOnCard(o)
          /\ \/ Goto(o, "fundread") /\ UNCHANGED interrupted
             \/ /\ Goto(o, "refundread")
                /\ interrupted' = interrupted \cup {o}
       \/ Goto(o, "refundread") /\ UNCHANGED <<executed, onCard, interrupted>>
    /\ UNCHANGED <<wallet, card, row, credits, overlapped, faults, stops>>

\* updateLocalBalances, first the card: read, then written.  An error here
\* ends the call and keeps the money ("service delivered").
ReadFundedCard(o) ==
    /\ op[o].pc = "fundread"
    /\ \/ /\ op' = [op EXCEPT ![o].pc = "fundcard",
                              ![o].card = card[CardOf[o]]]
          /\ UNCHANGED <<interrupted, faults>>
       \/ Fault(o, "done")
    /\ UNCHANGED <<wallet, card, onCard, row, executed, credits, overlapped,
                   stops>>

WriteFundedCard(o) ==
    /\ op[o].pc = "fundcard"
    /\ \/ /\ SetCard(o, op[o].card + Sum[o])
          /\ Goto(o, "fundwallet")
          /\ UNCHANGED <<interrupted, faults>>
       \/ Fault(o, "done") /\ UNCHANGED <<card, overlapped>>
    /\ UNCHANGED <<wallet, onCard, row, executed, credits, stops>>

\* Then the wallet, once more from the balance before the reservation; a
\* failed read or write is not noticed.
WriteFundedWallet(o) ==
    /\ op[o].pc = "fundwallet"
    /\ \/ /\ SetWallet(o, op[o].wallet - Sum[o])
          /\ Goto(o, "fundrow")
          /\ UNCHANGED <<interrupted, faults>>
       \/ Fault(o, "fundrow") /\ UNCHANGED <<wallet, overlapped>>
    /\ UNCHANGED <<card, onCard, row, executed, credits, stops>>

CreateFundingRow(o) ==
    /\ op[o].pc = "fundrow"
    /\ \/ /\ row' = [row EXCEPT ![o] = "SUCCESS"]
          /\ Goto(o, "done")
          /\ UNCHANGED <<interrupted, faults>>
       \/ Fault(o, "done") /\ UNCHANGED row
    /\ UNCHANGED <<wallet, card, onCard, executed, credits, overlapped, stops>>

\* refundReservedFunds: the wallet is read again, and written.
ReadRefund(o) ==
    /\ op[o].pc = "refundread"
    /\ \/ /\ op' = [op EXCEPT ![o].pc = "refund", ![o].wallet = wallet]
          /\ UNCHANGED <<interrupted, faults>>
       \/ Fault(o, "done")
    /\ UNCHANGED <<wallet, card, onCard, row, executed, credits, overlapped,
                   stops>>

WriteRefund(o) ==
    /\ op[o].pc = "refund"
    /\ \/ /\ SetWallet(o, op[o].wallet + Sum[o])
          /\ Goto(o, "done")
          /\ UNCHANGED <<interrupted, faults>>
       \/ Fault(o, "done") /\ UNCHANGED <<wallet, overlapped>>
    /\ UNCHANGED <<card, onCard, row, executed, credits, stops>>

(***************************************************************************)
(* withdrawFromCard                                                        *)
(***************************************************************************)

\* Validation and validateCardBalance, on a read of its own.
CheckCard(o) ==
    /\ op[o].pc = "idle" /\ o \in Withdrawals
    /\ \/ card[CardOf[o]] >= Sum[o] /\ Goto(o, "request")
       \/ Goto(o, "done")
    /\ UNCHANGED <<wallet, card, onCard, row, executed, credits, interrupted,
                   overlapped, faults, stops>>

\* createWithdrawalTransactionRecord
CreateWithdrawalRow(o) ==
    /\ op[o].pc = "request"
    /\ \/ /\ row' = [row EXCEPT ![o] = "PENDING"]
          /\ Goto(o, "draw")
          /\ UNCHANGED <<interrupted, faults>>
       \/ Fault(o, "done") /\ UNCHANGED row
    /\ UNCHANGED <<wallet, card, onCard, executed, credits, overlapped, stops>>

\* Mutant: a refusal goes on like an acceptance.
DrawAtProviderUnchecked(o) ==
    /\ op[o].pc = "draw"
    /\ \/ TakeFromCard(o)
       \/ UNCHANGED <<executed, onCard>>
    /\ Goto(o, "drawread")
    /\ UNCHANGED <<wallet, card, row, credits, interrupted, overlapped,
                   faults, stops>>

\* withdrawFromMapleradCard, with the same three outcomes.
DrawAtProvider(o) ==
    /\ op[o].pc = "draw"
    /\ \/ /\ TakeFromCard(o)
          /\ \/ Goto(o, "drawread") /\ UNCHANGED interrupted
             \/ Goto(o, "fail") /\ interrupted' = interrupted \cup {o}
       \/ Goto(o, "fail") /\ UNCHANGED <<executed, onCard, interrupted>>
    /\ UNCHANGED <<wallet, card, row, credits, overlapped, faults, stops>>

\* updateLocalBalances: the card is read, then the wallet, and an error of
\* either read ends in handleWithdrawalError.
ReadDrawnCard(o) ==
    /\ op[o].pc = "drawread"
    /\ \/ /\ op' = [op EXCEPT ![o].pc = "walletread",
                              ![o].card = card[CardOf[o]]]
          /\ UNCHANGED <<interrupted, faults>>
       \/ Fault(o, "fail")
    /\ UNCHANGED <<wallet, card, onCard, row, executed, credits, overlapped,
                   stops>>

ReadDrawnWallet(o) ==
    /\ op[o].pc = "walletread"
    /\ \/ /\ op' = [op EXCEPT ![o].pc = "drawcard", ![o].wallet = wallet]
          /\ UNCHANGED <<interrupted, faults>>
       \/ Fault(o, "fail")
    /\ UNCHANGED <<wallet, card, onCard, row, executed, credits, overlapped,
                   stops>>

\* Mutant: the card keeps its balance.
WriteDrawnCardNever(o) ==
    /\ op[o].pc = "drawcard"
    /\ Goto(o, "drawwallet")
    /\ UNCHANGED <<wallet, card, onCard, row, executed, credits, interrupted,
                   overlapped, faults, stops>>

WriteDrawnCard(o) ==
    /\ op[o].pc = "drawcard"
    /\ \/ /\ SetCard(o, op[o].card - Sum[o])
          /\ Goto(o, "drawwallet")
          /\ UNCHANGED <<interrupted, faults>>
       \/ Fault(o, "fail") /\ UNCHANGED <<card, overlapped>>
    /\ UNCHANGED <<wallet, onCard, row, executed, credits, stops>>

Credit(o, next) ==
    \/ /\ SetWallet(o, op[o].wallet + Sum[o])
       /\ credits' = [credits EXCEPT ![o] = @ + 1]
       /\ Goto(o, next)
       /\ UNCHANGED <<interrupted, faults>>
    \/ Fault(o, next) /\ UNCHANGED <<wallet, credits, overlapped>>

\* The wallet is written here ...
WriteDrawnWallet(o) ==
    /\ op[o].pc = "drawwallet"
    /\ Credit(o, "creditread")
    /\ UNCHANGED <<card, onCard, row, executed, stops>>

\* ... and in creditWalletForWithdrawal, from another read.
ReadCredit(o) ==
    /\ op[o].pc = "creditread"
    /\ \/ /\ op' = [op EXCEPT ![o].pc = "credit", ![o].wallet = wallet]
          /\ UNCHANGED <<interrupted, faults>>
       \/ Fault(o, "fail")
    /\ UNCHANGED <<wallet, card, onCard, row, executed, credits, overlapped,
                   stops>>

WriteCredit(o) ==
    /\ op[o].pc = "credit"
    /\ Credit(o, "succeed")
    /\ UNCHANGED <<card, onCard, row, executed, stops>>

\* updateTransactionWithSuccess, and the update in handleWithdrawalError,
\* which is reached from every error after the row was created, those after
\* the provider's success included.  A failed update is not noticed.
CloseRow(o, pc, status) ==
    /\ op[o].pc = pc
    /\ \/ /\ row' = [row EXCEPT ![o] = status]
          /\ Goto(o, "done")
          /\ UNCHANGED <<interrupted, faults>>
       \/ Fault(o, "done") /\ UNCHANGED row
    /\ UNCHANGED <<wallet, card, onCard, executed, credits, overlapped, stops>>

UpdateWithSuccess(o) == CloseRow(o, "succeed", "SUCCESS")
FailWithdrawal(o) == CloseRow(o, "fail", "FAILED")

(***************************************************************************)
(* The specification                                                       *)
(***************************************************************************)

\* The process dies: no execution is picked up again.
Stop ==
    /\ stops < MaxStops
    /\ stops' = stops + 1
    /\ op' = [o \in Ops |-> IF op[o].pc \in {"idle", "done"} THEN op[o]
                            ELSE [op[o] EXCEPT !.pc = "dead"]]
    /\ UNCHANGED <<wallet, card, onCard, row, executed, credits, interrupted,
                   overlapped, faults>>

FundCard(o) ==
    \/ ReadReserve(o) \/ WriteReserve(o) \/ FundAtProvider(o)
    \/ ReadFundedCard(o) \/ WriteFundedCard(o) \/ WriteFundedWallet(o)
    \/ CreateFundingRow(o) \/ ReadRefund(o) \/ WriteRefund(o)

WithdrawFromCard(o) ==
    \/ CheckCard(o) \/ CreateWithdrawalRow(o) \/ DrawAtProvider(o)
    \/ ReadDrawnCard(o) \/ ReadDrawnWallet(o)
    \/ WriteDrawnCard(o) \/ WriteDrawnWallet(o)
    \/ ReadCredit(o) \/ WriteCredit(o) \/ UpdateWithSuccess(o)
    \/ FailWithdrawal(o)

CardNext == (\E o \in Ops : FundCard(o) \/ WithdrawFromCard(o)) \/ Stop

CardSpec == CardInit /\ [][CardNext]_cvars

(***************************************************************************)
(* Properties                                                              *)
(***************************************************************************)

Credited == [o \in Withdrawals |-> credits[o] * Sum[o]]
Settled(S) == /\ \A o \in S : op[o].pc \in {"idle", "done"}
              /\ S \cap interrupted = {}

\* When nothing is under way, nothing failed and no two executions crossed
\* on it, the wallet is down by what the provider put on cards: a reservation
\* stands exactly for the fundings that went through, although it is written
\* twice.  It is up by the credits, which are for the withdrawals that the
\* provider carried out and for no other: one that it refused credits
\* nothing, and none is forgotten.
WalletFollowsProvider ==
    Settled(Ops) /\ "wallet" \notin overlapped
    => /\ wallet = OpeningWallet
                      - SumFunctionOnSet(Sum, Fundings \cap executed)
                      + SumFunctionOnSet(Credited, Withdrawals)
       /\ \A o \in Withdrawals : credits[o] > 0 <=> o \in executed

\* Under the same conditions the card's own balance is the provider's.
CardFollowsProvider ==
    \A k \in Cards :
       Settled({o \in Ops : CardOf[o] = k}) /\ k \notin overlapped
       => card[k] = onCard[k]

\* An execution that was not interrupted ends with a SUCCESS row exactly
\* when the provider carried it out; and whatever is interrupted, no row is
\* SUCCESS for something the provider did not do.
RowTellsOutcome ==
    \A o \in Ops :
       /\ row[o] = "SUCCESS" => o \in executed
       /\ op[o].pc = "done" /\ o \in executed \ interrupted
             => row[o] = "SUCCESS"
=============================================================================
