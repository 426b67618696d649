--------------------------- MODULE CardLifecycle ---------------------------
(***************************************************************************)
(* The life of a Maplerad card once it is issued: freezing, unfreezing and *)
(* terminating it, and bringing the local copy up to date from the         *)
(* provider.  No webhook changes it: processWebhookEvent is handed no      *)
(* headers and refuses every delivery.                                     *)
(*                                                                         *)
(* A termination pays what is left on the card into the USD wallet, from   *)
(* terminateCard or from the sync that notices it.  Every update writes    *)
(* values computed from an earlier read, and its result is ignored; one    *)
(* that names a column the cards table does not have changes nothing.      *)
(* One action below is the code between two awaits.                        *)
(***************************************************************************)
EXTENDS Integers, FiniteSets

CONSTANTS
    Cards,
    Handlers,      \* requests the server works on at once
    NoCard,        \* the card of an idle handler
    OpeningCard,   \* what each card holds at the start, here and there
    OpeningWallet, \* what the USD wallet holds at the start
    FrozenWord,    \* what the provider calls a frozen card ...
    TerminatedWord, \* ... and a terminated one
    MaxCalls,      \* bound: requests taken up
    MaxMoves,      \* bound: what the provider does of its own accord
    MaxFaults,     \* bound: failed database calls and lost answers
    MaxStops       \* bound: crashes of the server process

ASSUME LifecycleAssumption ==
    /\ NoCard \notin Cards
    /\ IsFiniteSet(Handlers)
    /\ OpeningCard \in Nat
    /\ OpeningWallet \in Nat
    /\ FrozenWord \in {"FROZEN", "DISABLED"}
    /\ TerminatedWord \in {"TERMINATED", "DISABLED"}
    /\ {MaxCalls, MaxMoves, MaxFaults, MaxStops} \subseteq Nat

CardStatus == {"ACTIVE", "FROZEN", "TERMINATED"}
Words == {"ACTIVE", FrozenWord, TerminatedWord}

VARIABLES
    card,      \* Card.status and Card.balance
    provider,  \* the provider's card: its status and what it holds
    wallet,    \* Wallet.balance of the USD wallet
    fresh,     \* the metadata of the company says: synced within the hour
    job,       \* the handlers: where they are and what they have read
    refunds,   \* TERMINATION_REFUND rows of each card, by who wrote them
    recorded,  \* what all these rows add up to
    disturbed, \* history: cards whose writers overlapped or failed
    strayed,   \* history: a refund overlapped another or was cut short
    calls, moves, faults, stops

lvars == <<card, provider, wallet, fresh, job, refunds, recorded,
           disturbed, strayed, calls, moves, faults, stops>>

RefundSteps == {"refundread", "refundwrite", "refundrow"}
Steps == {"idle", "ask", "write", "check", "fetch", "apply", "metadata"}
            \cup RefundSteps
Calls == {"freeze", "unfreeze", "terminate", "sync", "none"}
Copy == [status : CardStatus, balance : Int]
Report == [word : Words, balance : Int, held : Int, dated : BOOLEAN]
NoReport == [word |-> "ACTIVE", balance |-> 0, held |-> 0, dated |-> FALSE]
Idle == [pc |-> "idle", card |-> NoCard, call |-> "none",
         seen |-> [status |-> "ACTIVE", balance |-> 0], said |-> NoReport,
         wallet |-> 0, amount |-> 0]

LifecycleTypeOK ==
    /\ card \in [Cards -> Copy]
    /\ provider \in [Cards -> Copy]
    /\ wallet \in Int
    /\ fresh \in BOOLEAN
    /\ job \in [Handlers ->
                  [pc : Steps, card : Cards \cup {NoCard}, call : Calls,
                   seen : Copy, said : Report, wallet : Int, amount : Int]]
    /\ refunds \in [Cards -> [terminate : Nat, sync : Nat]]
    /\ recorded \in Int
    /\ disturbed \subseteq Cards
    /\ strayed \in BOOLEAN
    /\ {calls, moves, faults, stops} \subseteq Nat

LifecycleInit ==
    /\ card = [c \in Cards |-> [status |-> "ACTIVE", balance |-> OpeningCard]]
    /\ provider = card
    /\ wallet = OpeningWallet
    /\ fresh = FALSE
    /\ job = [h \in Handlers |-> Idle]
    /\ refunds = [c \in Cards |-> [terminate |-> 0, sync |-> 0]]
    /\ recorded = 0
    /\ disturbed = {}
    /\ strayed = FALSE
    /\ calls = 0 /\ moves = 0 /\ faults = 0 /\ stops = 0

(***************************************************************************)
(* Helpers                                                                 *)
(***************************************************************************)
Goto(h, pc) == job' = [job EXCEPT ![h].pc = pc]
Finish(h) == job' = [job EXCEPT ![h] = Idle]
Elsewhere == UNCHANGED <<provider, wallet, fresh, refunds, recorded,
                        strayed, calls, moves, stops>>

\* A handler takes up a request and reads the card.
Begin(h, c, call, pc) ==
    /\ job[h].pc = "idle"
    /\ calls < MaxCalls
    /\ calls' = calls + 1
    /\ job' = [job EXCEPT ![h] =
                  [Idle EXCEPT !.pc = pc, !.card = c, !.call = call,
                               !.seen = card[c]]]
    /\ UNCHANGED <<card, provider, wallet, fresh, refunds, recorded,
                   disturbed, strayed, moves, faults, stops>>

\* Another handler works on the same card.
Crossed(h) == \E g \in Handlers \ {h} : job[g].card = job[h].card

\* CardModel.update with values computed from what h read.
Update(h, copy) ==
    LET c == job[h].card
    IN  /\ card' = [card EXCEPT ![c] = copy]
        /\ disturbed' = IF Crossed(h)
                        THEN disturbed \cup {c} ELSE disturbed

\* The same update failing: nobody looks at its result.
UpdateFails(h) ==
    /\ faults < MaxFaults
    /\ faults' = faults + 1
    /\ disturbed' = disturbed \cup {job[h].card}
    /\ UNCHANGED card

(***************************************************************************)
(* freezeCard, unfreezeCard, terminateCard                                 *)
(***************************************************************************)
Target(call) == CASE call = "freeze"    -> "FROZEN"
                  [] call = "unfreeze"  -> "ACTIVE"
                  [] call = "terminate" -> "TERMINATED"

\* The card is read and its status allows the call; otherwise it throws.
FreezeCard(h, c) ==
    /\ card[c].status \notin {"FROZEN", "TERMINATED"}
    /\ Begin(h, c, "freeze", "ask")

UnfreezeCard(h, c) ==
    /\ card[c].status = "FROZEN"
    /\ Begin(h, c, "unfreeze", "ask")

TerminateCard(h, c) ==
    /\ card[c].status # "TERMINATED"
    /\ Begin(h, c, "terminate", "ask")

\* The provider carries the call out: never on a terminated card.
ProviderDoes(c, call) ==
    /\ provider[c].status # "TERMINATED"
    /\ provider' = [provider EXCEPT ![c].status = Target(call)]

\* What follows the provider's yes: terminateCard refunds the balance it read.
AfterYes(h) == IF job[h].call = "terminate" /\ job[h].seen.balance > 0
               THEN [job[h] EXCEPT !.pc = "refundread",
                                   !.amount = job[h].seen.balance]
               ELSE [job[h] EXCEPT !.pc = "write"]

AskProvider(h) ==
    LET c == job[h].card
    IN  /\ job[h].pc = "ask"
        /\ ProviderDoes(c, job[h].call)
        /\ \/ /\ job' = [job EXCEPT ![h] = AfterYes(h)]
              /\ UNCHANGED <<faults, disturbed>>
           \/ /\ faults < MaxFaults          \* done, but the answer is lost
              /\ faults' = faults + 1
              /\ disturbed' = disturbed \cup {c}
              /\ Finish(h)
        /\ UNCHANGED <<card, wallet, fresh, refunds, recorded, strayed, calls,
                       moves, stops>>

\* Mutant: terminateMapleradCard does not look at the error.
RefusedUnnoticed(h) ==
    /\ job[h].pc = "ask"
    /\ job' = [job EXCEPT ![h] = AfterYes(h)]
    /\ UNCHANGED <<card, disturbed, faults>> /\ Elsewhere

\* The provider refuses: the call is logged and throws.
ProviderRefuses(h) ==
    /\ job[h].pc = "ask"
    /\ Finish(h)
    /\ UNCHANGED <<card, disturbed, faults>> /\ Elsewhere

\* updateLocalCardStatus.  For terminateCard it also names terminateDate, a
\* column the table does not have, and writes nothing.
UpdateLocalCardStatus(h) ==
    /\ job[h].pc = "write"
    /\ \/ /\ job[h].call # "terminate"
          /\ Update(h, [card[job[h].card] EXCEPT
                          !.status = Target(job[h].call)])
          /\ UNCHANGED faults
       \/ /\ job[h].call # "terminate"
          /\ UpdateFails(h)
       \/ /\ job[h].call = "terminate"
          /\ UNCHANGED <<card, disturbed, faults>>
    /\ Finish(h)
    /\ Elsewhere

(***************************************************************************)
(* processTerminationRefund, of terminateCard and of syncCard              *)
(***************************************************************************)
AfterRefund(h) == IF job[h].call = "terminate" THEN "write" ELSE "apply"

\* The wallet is read; without it there is no refund, and the caller goes on.
RefundRead(h) ==
    /\ job[h].pc = "refundread"
    /\ \/ /\ job' = [job EXCEPT ![h].pc = "refundwrite",
                                ![h].wallet = wallet]
          /\ UNCHANGED faults
       \/ /\ faults < MaxFaults
          /\ faults' = faults + 1
          /\ Goto(h, AfterRefund(h))
    /\ UNCHANGED <<card, disturbed>> /\ Elsewhere

\* Mutant: the balance as it was read is paid, whatever the row says.
RefundWriteSeen(h) ==
    /\ job[h].pc = "refundwrite"
    /\ wallet' = job[h].wallet + job[h].seen.balance
    /\ Goto(h, "refundrow")
    /\ UNCHANGED <<card, provider, fresh, refunds, recorded, disturbed,
                   strayed, calls, moves, faults, stops>>

\* The sum of the wallet as it was read and the refund is written.
RefundWrite(h) ==
    /\ job[h].pc = "refundwrite"
    /\ \/ /\ wallet' = job[h].wallet + job[h].amount
          /\ strayed' = \/ strayed
                        \/ \E g \in Handlers \ {h} : job[g].pc = "refundwrite"
          /\ UNCHANGED faults
       \/ /\ faults < MaxFaults
          /\ faults' = faults + 1
          /\ strayed' = TRUE
          /\ UNCHANGED wallet
    /\ Goto(h, "refundrow")
    /\ UNCHANGED <<card, provider, fresh, refunds, recorded, disturbed,
                   calls, moves, stops>>

\* The row of the refund.
RefundRow(h) ==
    LET by == IF job[h].call = "terminate" THEN "terminate" ELSE "sync"
    IN  /\ job[h].pc = "refundrow"
        /\ \/ /\ refunds' = [refunds EXCEPT ![job[h].card][by] = @ + 1]
              /\ recorded' = recorded + job[h].amount
              /\ UNCHANGED <<faults, strayed>>
           \/ /\ faults < MaxFaults
              /\ faults' = faults + 1
              /\ strayed' = TRUE
              /\ UNCHANGED <<refunds, recorded>>
        /\ disturbed' = IF Crossed(h) THEN disturbed \cup {job[h].card}
                                     ELSE disturbed
        /\ Goto(h, AfterRefund(h))
        /\ UNCHANGED <<card, provider, wallet, fresh, calls, moves, stops>>

(***************************************************************************)
(* syncCard                                                                *)
(***************************************************************************)
SyncCard(h, c, force) ==
    Begin(h, c, "sync", IF force THEN "fetch" ELSE "check")

\* isSyncNeeded asks when any card of the company was synced last.
IsSyncNeeded(h) ==
    /\ job[h].pc = "check"
    /\ IF fresh THEN Finish(h) ELSE Goto(h, "fetch")
    /\ UNCHANGED <<card, disturbed, faults>> /\ Elsewhere

\* What the provider shows of a card.  A terminated one may be shown empty,
\* with what it held in balanceAsAtTermination, and with the date.
Reports(c) ==
    LET p == provider[c]
    IN  IF p.status = "TERMINATED"
        THEN [word : {TerminatedWord}, balance : {0, p.balance},
              held : {0, p.balance}, dated : BOOLEAN]
        ELSE [word : {IF p.status = "FROZEN" THEN FrozenWord ELSE "ACTIVE"},
              balance : {p.balance}, held : {0}, dated : {FALSE}]

\* mapProviderStatusToLocal: DISABLED, which the provider's types name, is
\* none of the words it looks for.
MapProviderStatusToLocal(word) ==
    IF word \in {"TERMINATED", "FROZEN"} THEN word ELSE "ACTIVE"

\* balanceAsAtTermination and balance come in cents and are not converted
\* here; the local balance is in dollars.
Cents(dollars) == 100 * dollars

RefundAmount(seen, said) ==
    IF said.held # 0 THEN Cents(said.held)
    ELSE IF said.balance # 0 THEN Cents(said.balance)
    ELSE seen.balance

\* Mutant: a card that is terminated already counts as newly terminated.
IsCardTerminated(seen, said) == said.word = "TERMINATED"

IsCardNewlyTerminated(seen, said) ==
    seen.status # "TERMINATED" /\ said.word = "TERMINATED"

\* MapleradUtils.getCard returns an error, which ends the sync.
GetCardFails(h) ==
    /\ job[h].pc = "fetch"
    /\ Finish(h)
    /\ UNCHANGED <<card, disturbed, faults>> /\ Elsewhere

\* The provider's card is fetched; a newly terminated one is refunded first.
FetchCardFromMaplerad(h) ==
    /\ job[h].pc = "fetch"
    /\ \E said \in Reports(job[h].card) :
          LET sum == RefundAmount(job[h].seen, said)
          IN  job' = [job EXCEPT ![h].said = said, ![h].amount = sum,
                        ![h].pc =
                           IF /\ IsCardNewlyTerminated(job[h].seen, said)
                              /\ sum > 0
                           THEN "refundread" ELSE "apply"]
    /\ UNCHANGED <<card, disturbed, faults>> /\ Elsewhere

\* detectCardChanges: what differs between the card as it was read and the
\* provider's replaces what the card is now.
Changed(now, seen, said) ==
    [status |-> IF seen.status # MapProviderStatusToLocal(said.word)
                THEN MapProviderStatusToLocal(said.word) ELSE now.status,
     balance |-> IF seen.balance # said.balance THEN said.balance
                 ELSE now.balance]

\* applyCardChanges.  A termination date is a column the table does not have:
\* the update that names it is refused as a whole.
ApplyCardChanges(h) ==
    LET c == job[h].card
        copy == Changed(card[c], job[h].seen, job[h].said)
    IN  /\ job[h].pc = "apply"
        /\ \/ /\ ~job[h].said.dated
              /\ Update(h, copy)
              /\ UNCHANGED faults
           \/ /\ ~job[h].said.dated
              /\ UpdateFails(h)
           \/ /\ job[h].said.dated
              /\ disturbed' = disturbed \cup {c}
              /\ UNCHANGED <<card, faults>>
        /\ Goto(h, "metadata")
        /\ Elsewhere

\* updateSyncMetadata, for all cards of the company.
UpdateSyncMetadata(h) ==
    /\ job[h].pc = "metadata"
    /\ \/ fresh' = TRUE /\ UNCHANGED faults
       \/ faults < MaxFaults /\ faults' = faults + 1 /\ UNCHANGED fresh
    /\ Finish(h)
    /\ UNCHANGED <<card, provider, wallet, refunds, recorded, disturbed,
                   strayed, calls, moves, stops>>

HourPasses ==
    /\ fresh
    /\ fresh' = FALSE
    /\ UNCHANGED <<card, provider, wallet, job, refunds, recorded,
                   disturbed, strayed, calls, moves, faults, stops>>

(***************************************************************************)
(* The provider, and the end of the process                                *)
(***************************************************************************)
Move == moves < MaxMoves /\ moves' = moves + 1

\* A purchase takes money off the card, a merchant's refund puts it back.
CardIsUsed(c) ==
    /\ Move
    /\ \/ /\ provider[c].status = "ACTIVE"
          /\ provider[c].balance > 0
          /\ provider' = [provider EXCEPT ![c].balance = @ - 1]
       \/ /\ provider[c].status # "TERMINATED"
          /\ provider' = [provider EXCEPT ![c].balance = @ + 1]
    /\ UNCHANGED <<card, wallet, fresh, job, refunds, recorded, disturbed,
                   strayed, calls, faults, stops>>

\* The provider terminates the card by itself.
ProviderTerminates(c) ==
    /\ Move
    /\ ProviderDoes(c, "terminate")
    /\ UNCHANGED <<card, wallet, fresh, job, refunds, recorded, disturbed,
                   strayed, calls, faults, stops>>

\* The process dies; what its handlers were doing is not taken up again.
Crash ==
    /\ stops < MaxStops
    /\ stops' = stops + 1
    /\ disturbed' = disturbed \cup {job[h].card : h \in
                       {g \in Handlers : job[g].pc \notin {"idle", "ask"}}}
    /\ strayed' = (strayed \/ \E h \in Handlers : job[h].pc = "refundrow")
    /\ job' = [h \in Handlers |-> Idle]
    /\ UNCHANGED <<card, provider, wallet, fresh, refunds, recorded,
                   calls, moves, faults>>

Request(h) ==
    \E c \in Cards : \/ FreezeCard(h, c) \/ UnfreezeCard(h, c)
                     \/ TerminateCard(h, c)
                     \/ \E force \in BOOLEAN : SyncCard(h, c, force)

ProcessTerminationRefund(h) == RefundRead(h) \/ RefundWrite(h) \/ RefundRow(h)

LifecycleStep ==
    \/ \E h \in Handlers :
          \/ Request(h)
          \/ AskProvider(h)
          \/ ProviderRefuses(h)
          \/ UpdateLocalCardStatus(h)
          \/ ProcessTerminationRefund(h)
          \/ IsSyncNeeded(h)
          \/ FetchCardFromMaplerad(h) \/ GetCardFails(h)
          \/ ApplyCardChanges(h)
          \/ UpdateSyncMetadata(h)
    \/ \E c \in Cards : CardIsUsed(c) \/ ProviderTerminates(c)
    \/ HourPasses

LifecycleNext == LifecycleStep \/ Crash

LifecycleSpec == LifecycleInit /\ [][LifecycleNext]_lvars

(***************************************************************************)
(* Properties                                                              *)
(***************************************************************************)

\* Only a card the provider has terminated is refunded: no refusal, lost
\* answer or stale read pays out a card that can still be used
\* (terminateCard 233-262, handleTerminationRefundIfNeeded 1022-1060).
RefundOnlyWhenTerminated ==
    \A c \in Cards :
       refunds[c].terminate + refunds[c].sync > 0
          => provider[c].status = "TERMINATED"

\* However often and however concurrently a card is terminated and synced,
\* terminateCard refunds it at most once, and so do the syncs together as
\* long as their writes are taken and nobody else writes the card meanwhile.
\* (Both of them may: terminateCard does not mark the card.)
RefundedOncePerPath ==
    \A c \in Cards : /\ refunds[c].terminate <= 1
                     /\ c \notin disturbed => refunds[c].sync <= 1

\* The wallet has received what the refund rows say, unless a refund was
\* written over another or was cut short (processTerminationRefund).
RefundsReachWallet ==
    LET written == {h \in Handlers : job[h].pc = "refundrow"}
    IN  (~strayed /\ written = {}) => wallet = OpeningWallet + recorded

=============================================================================
