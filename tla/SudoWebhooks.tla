---------------------------- MODULE SudoWebhooks ----------------------------
(***************************************************************************)
(* The webhooks of Sudo, about a card from the time before Maplerad, next  *)
(* to what CardLifecycle does to the same USD wallet.                      *)
(*                                                                         *)
(* Sudo delivers an event again until a delivery is answered without an    *)
(* error, and sometimes after that.  A payment, a declined authorization   *)
(* and a refund are stored unless a row with their order id is found; a    *)
(* failed read reads as none.  A termination is paid out on every delivery,*)
(* by a sum that Prisma's Decimal turns into a string: the digits of what  *)
(* was left are appended to the balance.  Its card update names columns    *)
(* the table does not have and is refused.                                 *)
(***************************************************************************)
EXTENDS CardLifecycle

CONSTANTS
    Settled,     \* events of kind transaction.created
    Rejected,    \* of kind authorization.declined and transaction.refund
    Deliveries,  \* deliveries the server works on at once
    SudoBalance, \* data.balance of the card.terminated event
    NoEvent

ASSUME SudoAssumption ==
    /\ Settled \cap Rejected = {}
    /\ NoEvent \notin Settled \cup Rejected
    /\ SudoBalance \in 0..9      \* one digit, see Append

Payments == Settled \cup Rejected
Updates == {"active", "inactive", "canceled"}
SudoEvents == Payments \cup Updates \cup {"terminated"}

VARIABLES
    sudoCard,  \* Card.status of the card
    statement, \* rows with the order id of each payment
    closings,  \* rows of type termination
    hook,      \* the deliveries being worked on
    acked,     \* payments of which a delivery was answered without an error
    doubtful   \* history: payments whose deliveries overlapped or whose row
               \* could not be looked up

svars == <<sudoCard, statement, closings, hook, acked, doubtful>>

SudoSteps == {"idle", "find", "create", "update", "terminate", "credit", "row"}
NoDelivery == [pc |-> "idle", event |-> NoEvent, known |-> TRUE, wallet |-> 0]

SudoTypeOK ==
    /\ LifecycleTypeOK
    /\ sudoCard \in CardStatus
    /\ statement \in [Payments -> Nat]
    /\ closings \in Nat
    /\ hook \in [Deliveries -> [pc : SudoSteps, known : BOOLEAN, wallet : Int,
                                event : SudoEvents \cup {NoEvent}]]
    /\ acked \subseteq Payments
    /\ doubtful \subseteq Payments

SudoInit ==
    /\ LifecycleInit
    /\ sudoCard = "ACTIVE"
    /\ statement = [p \in Payments |-> 0]
    /\ closings = 0
    /\ hook = [k \in Deliveries |-> NoDelivery]
    /\ acked = {}
    /\ doubtful = {}

\* What a delivery leaves alone of CardLifecycle, the faults apart.
Maplerad == UNCHANGED <<card, provider, fresh, job, refunds, recorded,
                        disturbed, moves, stops>>

HookGoes(k, pc) == hook' = [hook EXCEPT ![k].pc = pc]
HookEnds(k) == hook' = [hook EXCEPT ![k] = NoDelivery]
SudoFault == faults < MaxFaults /\ faults' = faults + 1

\* processSudoWebhook: the card and its customer are read, and the event is
\* told apart.  A card that cannot be read ends the delivery with an error,
\* as if it had not come; only some handlers miss the customer.
ProcessSudoWebhook(k, e) ==
    LET first == CASE e \in Payments -> "find"
                   [] e \in Updates  -> "update"
                   [] OTHER          -> "terminate"
    IN  /\ hook[k].pc = "idle"
        /\ calls < MaxCalls
        /\ calls' = calls + 1
        /\ \E known \in BOOLEAN :
              /\ hook' = [hook EXCEPT ![k] = [NoDelivery EXCEPT
                            !.pc = first, !.event = e, !.known = known]]
              /\ IF known THEN UNCHANGED faults ELSE SudoFault
        /\ UNCHANGED <<sudoCard, statement, closings, acked, doubtful, wallet,
                       strayed>>
        /\ Maplerad

\* Mutant: a delivery is answered as soon as the event is known to be new.
AckedBeforeStored(k) ==
    LET p == hook[k].event
    IN  /\ hook[k].pc = "find"
        /\ acked' = acked \cup {p}
        /\ IF statement[p] > 0 THEN HookEnds(k) ELSE HookGoes(k, "create")
        /\ UNCHANGED <<sudoCard, statement, closings, wallet, calls, faults,
                       strayed, doubtful>>
        /\ Maplerad

\* The row of the payment is looked up.  handleTransactionCreated throws
\* before that when it does not know the customer.
FindTransaction(k) ==
    LET p == hook[k].event
    IN  /\ hook[k].pc = "find"
        /\ \/ /\ p \in Settled /\ ~hook[k].known
              /\ HookEnds(k)
              /\ UNCHANGED <<acked, faults, doubtful>>
           \/ /\ p \in Rejected \/ hook[k].known
              /\ IF statement[p] > 0
                 THEN HookEnds(k) /\ acked' = acked \cup {p}
                 ELSE HookGoes(k, "create") /\ UNCHANGED acked
              /\ UNCHANGED <<faults, doubtful>>
           \/ /\ p \in Rejected \/ hook[k].known
              /\ SudoFault
              /\ doubtful' = doubtful \cup {p}
              /\ HookGoes(k, "create") /\ UNCHANGED acked
        /\ UNCHANGED <<sudoCard, statement, closings, wallet, calls, strayed>>
        /\ Maplerad

\* The row is created.  A creation that fails throws, and so do
\* handleAuthorizationDeclined and handleTransactionRefund, afterwards, when
\* they do not know the customer.
CreateTransaction(k) ==
    LET p == hook[k].event
    IN  /\ hook[k].pc = "create"
        /\ \/ /\ statement' = [statement EXCEPT ![p] = @ + 1]
              /\ acked' = IF hook[k].known THEN acked \cup {p} ELSE acked
              /\ doubtful' = IF \E l \in Deliveries \ {k} :
                                   hook[l].event = p /\ hook[l].pc = "create"
                             THEN doubtful \cup {p} ELSE doubtful
              /\ UNCHANGED faults
           \/ SudoFault /\ UNCHANGED <<statement, acked, doubtful>>
        /\ HookEnds(k)
        /\ UNCHANGED <<sudoCard, closings, wallet, calls, strayed>>
        /\ Maplerad

HandleTransactionCreated(k) ==
    hook[k].event \in Settled /\ (FindTransaction(k) \/ CreateTransaction(k))

\* handleTransactionRefund differs only in the type of the row.
HandleAuthorizationDeclined(k) ==
    hook[k].event \in Rejected /\ (FindTransaction(k) \/ CreateTransaction(k))

\* handleCardUpdated: FREEZE is no CardStatus, and is refused.
HandleCardUpdated(k) ==
    LET said == CASE hook[k].event = "active"   -> "ACTIVE"
                  [] hook[k].event = "inactive" -> "FREEZE"
                  [] OTHER                      -> "TERMINATED"
    IN  /\ hook[k].pc = "update"
        /\ \/ /\ sudoCard' = IF said \in CardStatus THEN said ELSE sudoCard
              /\ UNCHANGED faults
           \/ SudoFault /\ UNCHANGED sudoCard
        /\ HookEnds(k)
        /\ UNCHANGED <<statement, closings, acked, doubtful, wallet, calls,
                       strayed>>
        /\ Maplerad

\* handleCardTerminated: the update is refused; without a customer or a
\* wallet it throws, and without anything left it is over.
HandleCardTerminated(k) ==
    /\ hook[k].pc = "terminate"
    /\ \/ /\ hook' = IF SudoBalance > 0
                     THEN [hook EXCEPT ![k].pc = "credit",
                                       ![k].wallet = wallet]
                     ELSE [hook EXCEPT ![k] = NoDelivery]
          /\ UNCHANGED faults
       \/ SudoFault /\ HookEnds(k)
    /\ UNCHANGED <<sudoCard, statement, closings, acked, doubtful, wallet,
                   calls, strayed>>
    /\ Maplerad

\* wallet.balance + Number(data.balance) of a Decimal: digits are appended.
Append(balance, digit) ==
    IF balance < 0 THEN 10 * balance - digit ELSE 10 * balance + digit

\* The wallet is written, and what others wrote since the read is lost.
CreditTermination(k) ==
    /\ hook[k].pc = "credit"
    /\ \/ /\ wallet' = Append(hook[k].wallet, SudoBalance)
          /\ strayed' = TRUE
          /\ UNCHANGED faults
       \/ SudoFault /\ UNCHANGED <<wallet, strayed>>
    /\ HookGoes(k, "row")
    /\ UNCHANGED <<sudoCard, statement, closings, acked, doubtful, calls>>
    /\ Maplerad

CreateTerminationRow(k) ==
    /\ hook[k].pc = "row"
    /\ \/ closings' = closings + 1 /\ UNCHANGED faults
       \/ SudoFault /\ UNCHANGED closings
    /\ HookEnds(k)
    /\ UNCHANGED <<sudoCard, statement, acked, doubtful, wallet, calls,
                   strayed>>
    /\ Maplerad

SudoStep ==
    \E k \in Deliveries :
       \/ \E e \in SudoEvents : ProcessSudoWebhook(k, e)
       \/ HandleTransactionCreated(k)
       \/ HandleAuthorizationDeclined(k)
       \/ HandleCardUpdated(k)
       \/ HandleCardTerminated(k)
       \/ CreditTermination(k)
       \/ CreateTerminationRow(k)

\* The process dies with everything it was working on.
CrashOfAll ==
    /\ Crash
    /\ hook' = [k \in Deliveries |-> NoDelivery]
    /\ UNCHANGED <<sudoCard, statement, closings, acked, doubtful>>

CardsNext ==
    \/ LifecycleStep /\ UNCHANGED svars
    \/ SudoStep
    \/ CrashOfAll

CardsSpec == SudoInit /\ [][CardsNext]_<<lvars, svars>>

(***************************************************************************)
(* Property                                                                *)
(***************************************************************************)

\* The statement of a Sudo card shows every payment whose delivery was taken,
\* however late and however often it came, and shows it once, unless two
\* deliveries were worked on at once or the lookup failed
\* (webhook.service.sudo.ts 164-204, 297-337, 404-444).
StatementShowsPayments ==
    \A p \in Payments : /\ p \in acked => statement[p] > 0
                        /\ p \notin doubtful => statement[p] <= 1
=============================================================================
