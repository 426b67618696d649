---------------------------- MODULE CardIssuance ----------------------------
(***************************************************************************)
(* Issuing Maplerad cards to one customer.                                 *)
(*                                                                         *)
(* An issuance counts the customer's cards, reserves the price on the USD  *)
(* wallet, makes sure that the customer is enrolled, asks the provider for *)
(* a card, and waits for the webhook that carries its reference.  A wait   *)
(* that times out, or that is told of a failure, polls for active cards of *)
(* the customer that are not stored yet; when none shows up in time, a     *)
(* placeholder takes the place of the card.                                *)
(*                                                                         *)
(* Every wait times out: handleWebhook verifies a delivery by its headers  *)
(* and hands it on without them, and processWebhookEvent, which verifies   *)
(* it again, refuses it behind an answer that says processed.              *)
(* One action is the code between two awaits.                              *)
(***************************************************************************)
EXTENDS Integers, FiniteSets, Functions

CONSTANTS
    Issues,         \* executions of issueRetailCard, for one customer
    Amount,         \* what the new card is to hold
    IssuanceFee,    \* of the table of fees
    CardLimit,      \* cards a customer may have: five
    OpeningBalance, \* what the wallet holds at the start
    MaxPolls,       \* polls in the minute of fallbackPolling
    MaxFaults,      \* bound: database calls that fail
    MaxStops,       \* bound: crashes of the server process
    Placeholder,    \* the card made up by fallbackPolling
    NoCard

ASSUME IssuanceAssumption ==
    /\ IsFiniteSet(Issues)
    /\ {Amount, IssuanceFee} \subseteq Nat \ {0}
    /\ CardLimit \in Nat \ {0, 1}
    /\ OpeningBalance \in Nat
    /\ MaxPolls \in Nat \ {0}
    /\ MaxFaults \in Nat
    /\ MaxStops \in Nat
    /\ Placeholder \notin Issues /\ NoCard \notin Issues
    /\ Placeholder # NoCard

VARIABLES
    wallet,     \* Wallet.balance of the USD wallet
    held,       \* cards the customer had before, and has kept
    op,         \* the executions
    enrolled,   \* the provider knows the customer
    mapped,     \* so does the table of provider mappings
    made,       \* the provider's card of each issuance
    order,      \* its created_at, as a rank
    local,      \* the card stored by each issuance: its provider's id
    rows,       \* PENDING rows (fee, funding) written by each issuance
    faults,     \* failed database calls so far
    stops,      \* crashes so far
    refunded,   \* history: issuances whose reservation was given back
    unanswered, \* history: issuances whose provider answer was lost
    disturbed,  \* history: issuances hit by a failed database call
    together,   \* history: issuances that overlapped
    overlapped, \* history: the wallet was written between read and write
    uncounted   \* history: the customer's cards could not be counted

ivars == <<wallet, held, op, enrolled, mapped, made, order, local, rows,
           faults, stops, refunded, unanswered, disturbed,
           together, overlapped, uncounted>>
customer == <<held, enrolled, mapped>>
provider == <<made, order>>
stored == <<local, rows>>
counters == <<faults, stops>>
past == <<refunded, unanswered, disturbed, together, overlapped, uncounted>>

Steps == {"idle", "fees", "reserve", "customer", "enrol", "map", "sync",
          "create", "log", "wait", "poll", "compare", "save", "fee", "fund",
          "refundread", "refund", "done", "dead"}
Cards == Issues \cup {Placeholder, NoCard}
Execution == [pc : Steps, price : Nat, wallet : Nat, found : SUBSET Issues,
              card : Cards, polls : 0..(MaxPolls - 1)]

IssuanceTypeOK ==
    /\ wallet \in Nat
    /\ held \in Nat
    /\ op \in [Issues -> Execution]
    /\ enrolled \in BOOLEAN /\ mapped \in BOOLEAN
    /\ made \in [Issues -> {"none", "creating", "active", "failed"}]
    /\ order \in [Issues -> Nat]
    /\ local \in [Issues -> Cards]
    /\ rows \in [Issues -> 0..2]
    /\ faults \in 0..MaxFaults
    /\ stops \in 0..MaxStops
    /\ refunded \in SUBSET Issues
    /\ unanswered \in SUBSET Issues
    /\ disturbed \in SUBSET Issues
    /\ together \in SUBSET Issues
    /\ overlapped \in BOOLEAN
    /\ uncounted \in BOOLEAN

IssuanceInit ==
    /\ wallet = OpeningBalance
    /\ held \in {CardLimit - 2, CardLimit - 1}
    /\ op = [i \in Issues |-> [pc |-> "idle", price |-> 0, wallet |-> 0,
                               found |-> {}, card |-> NoCard, polls |-> 0]]
    /\ enrolled = FALSE /\ mapped = FALSE
    /\ made = [i \in Issues |-> "none"]
    /\ order = [i \in Issues |-> 0]
    /\ local = [i \in Issues |-> NoCard]
    /\ rows = [i \in Issues |-> 0]
    /\ faults = 0 /\ stops = 0
    /\ refunded = {} /\ unanswered = {} /\ disturbed = {} /\ together = {}
    /\ overlapped = FALSE /\ uncounted = FALSE

Over == {"idle", "done", "dead"}
InProgress == {i \in Issues : op[i].pc \notin Over}

Goto(i, pc) == op' = [op EXCEPT ![i].pc = pc]

SetWallet(i, value) ==
    /\ wallet' = value
    /\ overlapped' = (overlapped \/ \E j \in Issues \ {i} :
                                       op[j].pc \in {"reserve", "refund"})

\* A database call fails, and the execution goes on at pc.
Fault(i, pc) ==
    /\ faults < MaxFaults
    /\ faults' = faults + 1
    /\ disturbed' = disturbed \cup {i}
    /\ Goto(i, pc)

(***************************************************************************)
(* Validation, fees and the reservation                                    *)
(***************************************************************************)

\* The cards of the customer that are not terminated.
CardsHeld == held + Cardinality({i \in Issues : local[i] # NoCard})

\* Mutant: the limit is compared with one more card.
ValidateOneMore(i) ==
    /\ op[i].pc = "idle"
    /\ Goto(i, IF CardsHeld <= CardLimit THEN "fees" ELSE "done")
    /\ together' = IF InProgress # {}
                   THEN together \cup InProgress \cup {i} ELSE together
    /\ UNCHANGED <<wallet, customer, provider, stored, counters, refunded,
                   unanswered, disturbed, overlapped, uncounted>>

\* autoFillUserInfo and validateRetailCardRequest: a customer who has as many
\* cards as are allowed is refused, and so is a request that is not in order;
\* a count that fails reads as none.
ValidateRetailCardRequest(i) ==
    /\ op[i].pc = "idle"
    /\ \/ /\ CardsHeld < CardLimit
          /\ Goto(i, "fees")
          /\ UNCHANGED <<faults, uncounted>>
       \/ Goto(i, "done") /\ UNCHANGED <<faults, uncounted>>
       \/ /\ faults < MaxFaults
          /\ faults' = faults + 1
          /\ uncounted' = TRUE
          /\ Goto(i, "fees")
    /\ together' = IF InProgress # {}
                   THEN together \cup InProgress \cup {i} ELSE together
    /\ UNCHANGED <<wallet, customer, provider, stored, stops,
                   refunded, unanswered, disturbed, overlapped>>

\* calculateCardFees: the fee of the table, or one dollar when the table
\* cannot be read.
CalculateCardFees(readable) == Amount + IF readable THEN IssuanceFee ELSE 1

\* The fees, and the read of reserveFundsSecurely: the wallet must cover the
\* price.
ReadReserve(i) ==
    /\ op[i].pc = "fees"
    /\ \E readable \in BOOLEAN :
          LET price == CalculateCardFees(readable)
          IN  /\ op' = IF wallet >= price
                       THEN [op EXCEPT ![i].pc = "reserve", ![i].price = price,
                                       ![i].wallet = wallet]
                       ELSE [op EXCEPT ![i].pc = "done"]
              /\ \/ readable /\ UNCHANGED faults
                 \/ ~readable /\ faults < MaxFaults /\ faults' = faults + 1
    /\ UNCHANGED <<wallet, customer, provider, stored, stops, past>>

\* The write; a failed one is not noticed.
WriteReserve(i) ==
    /\ op[i].pc = "reserve"
    /\ \/ /\ SetWallet(i, op[i].wallet - op[i].price)
          /\ Goto(i, "customer")
          /\ UNCHANGED <<faults, disturbed>>
       \/ Fault(i, "customer") /\ UNCHANGED <<wallet, overlapped>>
    /\ UNCHANGED <<customer, provider, stored, stops, refunded,
                   unanswered, together, uncounted>>

(***************************************************************************)
(* ensureMapleradCustomer                                                  *)
(***************************************************************************)

\* The mapping is looked up; a failed lookup reads as no mapping.
LookUpCustomer(i) ==
    /\ op[i].pc = "customer"
    /\ \/ /\ Goto(i, IF mapped THEN "create" ELSE "enrol")
          /\ UNCHANGED <<faults, disturbed>>
       \/ Fault(i, "enrol")
    /\ UNCHANGED <<wallet, customer, provider, stored, stops,
                   refunded, unanswered, together, overlapped, uncounted>>

\* The provider enrols the customer (the answer may be lost), says that it
\* already has, or refuses.
EnrolCustomer(i) ==
    /\ op[i].pc = "enrol"
    /\ \/ /\ ~enrolled
          /\ enrolled' = TRUE
          /\ Goto(i, "map") \/ Goto(i, "refundread")
       \/ enrolled /\ Goto(i, "sync") /\ UNCHANGED enrolled
       \/ Goto(i, "refundread") /\ UNCHANGED enrolled
    /\ UNCHANGED <<wallet, held, mapped, provider, stored, counters, past>>

\* The mapping is stored; a failed write is not noticed.
MapCustomer(i) ==
    /\ op[i].pc = "map"
    /\ \/ /\ mapped' = TRUE
          /\ Goto(i, "create")
          /\ UNCHANGED <<faults, disturbed>>
       \/ Fault(i, "create") /\ UNCHANGED mapped
    /\ UNCHANGED <<wallet, held, enrolled, provider, stored, stops,
                   refunded, unanswered, together, overlapped, uncounted>>

\* Already enrolled: syncCustomers brings the mapping, or it does not.
SyncCustomers(i) ==
    /\ op[i].pc = "sync"
    /\ \/ mapped' = TRUE /\ Goto(i, "create")
       \/ Goto(i, "refundread") /\ UNCHANGED mapped
    /\ UNCHANGED <<wallet, held, enrolled, provider, stored, counters, past>>

(***************************************************************************)
(* createMapleradCard, and waiting for its outcome                         *)
(***************************************************************************)

Accept(i) ==
    /\ made' = [made EXCEPT ![i] = "creating"]
    /\ order' = [order EXCEPT
                   ![i] = 1 + Cardinality({j \in Issues : made[j] # "none"})]

\* Mutant: a refusal ends the issuance, the reservation stands.
CreateCardNoRefund(i) ==
    /\ op[i].pc = "create"
    /\ \/ Accept(i) /\ Goto(i, "log")
       \/ Goto(i, "done") /\ UNCHANGED <<made, order>>
    /\ UNCHANGED <<wallet, customer, stored, counters, past>>

\* Accepted; accepted and the answer lost, which reads as an error; refused.
CreateCard(i) ==
    /\ op[i].pc = "create"
    /\ \/ Accept(i) /\ Goto(i, "log") /\ UNCHANGED unanswered
       \/ /\ Accept(i) /\ Goto(i, "refundread")
          /\ unanswered' = unanswered \cup {i}
       \/ Goto(i, "refundread") /\ UNCHANGED <<made, order, unanswered>>
    /\ UNCHANGED <<wallet, customer, stored, counters, refunded,
                   disturbed, together, overlapped, uncounted>>

\* saveCardCreationMetadata: a log that nothing reads again.
LogCreation(i) ==
    /\ op[i].pc = "log"
    /\ Goto(i, "wait")
    /\ UNCHANGED <<wallet, customer, provider, stored, counters, past>>

\* The provider (outside the repository) makes the card, or fails to.
ProviderMakes(i) ==
    /\ made[i] = "creating"
    /\ \E s \in {"active", "failed"} : made' = [made EXCEPT ![i] = s]
    /\ UNCHANGED <<wallet, op, customer, order, stored, counters, past>>

\* waitForWebhook: an execution listens for its event until the event, or the
\* timer, resolves the wait; without a card it goes on to polling.
Listening(i) == op[i].pc = "wait"
Resolve(i, card) ==
    [op EXCEPT ![i].pc = IF card = NoCard THEN "poll" ELSE "save",
               ![i].card = card]

\* notifyWebhookReceived: the listener, if there is one, gets the card, or the
\* failure.
Notified(i) ==
    IF Listening(i)
    THEN Resolve(i, IF made[i] = "active" THEN i ELSE NoCard)
    ELSE op

\* verifyWebhookSignature, of a genuine delivery: it needs all its headers.
Svix == {"svix-id", "svix-timestamp", "svix-signature"}
VerifyWebhookSignature(headers) == Svix \subseteq headers

\* processWebhookEvent: without a valid signature nothing is routed, and the
\* error it throws is caught.
ProcessWebhookEvent(i, headers) ==
    op' = IF VerifyWebhookSignature(headers) THEN Notified(i) ELSE op

\* handleWebhook: the delivery is verified, handed on without its headers, and
\* answered as processed, whatever has become of it.
HandleWebhook(i) ==
    /\ made[i] \in {"active", "failed"}
    /\ VerifyWebhookSignature(Svix)
    /\ ProcessWebhookEvent(i, {})
    /\ UNCHANGED <<wallet, customer, provider, stored, counters, past>>

\* Mutant: a webhook that does not come is an error like any other.
WaitTimesOutRefunding(i) ==
    /\ op[i].pc = "wait"
    /\ Goto(i, "refundread")
    /\ UNCHANGED <<wallet, customer, provider, stored, counters, past>>

\* waitForCardCreationWebhook: the listener has waited for 30 seconds.
WaitTimesOut(i) ==
    /\ Listening(i)
    /\ op' = Resolve(i, NoCard)
    /\ UNCHANGED <<wallet, customer, provider, stored, counters, past>>

\* checkForNewCustomerCards asks the provider for the active cards of the
\* customer; a call that fails finds none.
PollCards(i) ==
    /\ op[i].pc = "poll"
    /\ \E answer \in {{}, {j \in Issues : made[j] = "active"}} :
          op' = [op EXCEPT ![i].pc = "compare", ![i].found = answer]
    /\ UNCHANGED <<wallet, customer, provider, stored, counters, past>>

\* The most recent of some cards.
Newest(cards) ==
    CHOOSE j \in cards : \A k \in cards : order[k] <= order[j]

\* The loop of fallbackPolling goes round again, or is left with a card.
Again(i) == [op[i] EXCEPT !.pc = "poll", !.polls = @ + 1, !.found = {}]
Leave(i, card) ==
    [op[i] EXCEPT !.pc = "save", !.card = card, !.polls = 0, !.found = {}]

\* The newest new card is taken; without one the loop goes round again or,
\* when its time is over, hands out the placeholder.
Adopt(i, new) ==
    \/ new # {} /\ op' = [op EXCEPT ![i] = Leave(i, Newest(new))]
    \/ /\ new = {} /\ Again(i).polls < MaxPolls
       /\ op' = [op EXCEPT ![i] = Again(i)]
    \/ new = {} /\ op' = [op EXCEPT ![i] = Leave(i, Placeholder)]

\* Mutant: cards that are stored already are not skipped.
CompareCardsAll(i) ==
    /\ op[i].pc = "compare"
    /\ Adopt(i, op[i].found)
    /\ UNCHANGED <<wallet, customer, provider, stored, counters, past>>

\* Mutant: the time of the loop starts again with every round.
CompareCardsForEver(i) ==
    LET new == op[i].found \ {local[j] : j \in Issues} IN
    /\ op[i].pc = "compare"
    /\ op' = IF new # {}
             THEN [op EXCEPT ![i] = Leave(i, Newest(new))]
             ELSE [op EXCEPT ![i].pc = "poll", ![i].found = {}]
    /\ UNCHANGED <<wallet, customer, provider, stored, counters, past>>

\* Cards that are stored are skipped; when the stored cards cannot be read,
\* every card is new.
CompareCards(i) ==
    /\ op[i].pc = "compare"
    /\ \/ /\ Adopt(i, op[i].found \ {local[j] : j \in Issues})
          /\ UNCHANGED <<faults, disturbed>>
       \/ /\ faults < MaxFaults
          /\ faults' = faults + 1
          /\ disturbed' = disturbed \cup {i}
          /\ Adopt(i, op[i].found)
    /\ UNCHANGED <<wallet, customer, provider, stored, stops,
                   refunded, unanswered, together, overlapped, uncounted>>

(***************************************************************************)
(* processSuccessfulCardCreation, and handleCardCreationError              *)
(***************************************************************************)

\* createLocalCardRecord: ACTIVE, whatever the wait ended with.  From here
\* on an error ends the issuance and the money is kept.
SaveCard(i) ==
    /\ op[i].pc = "save"
    /\ \/ /\ local' = [local EXCEPT ![i] = op[i].card]
          /\ Goto(i, "fee")
          /\ UNCHANGED <<faults, disturbed>>
       \/ Fault(i, "done") /\ UNCHANGED local
    /\ UNCHANGED <<wallet, customer, provider, rows, stops,
                   refunded, unanswered, together, overlapped, uncounted>>

\* createCardTransactions: one row, then the other.
CreateRow(i, pc, next) ==
    /\ op[i].pc = pc
    /\ \/ /\ rows' = [rows EXCEPT ![i] = @ + 1]
          /\ Goto(i, next)
          /\ UNCHANGED <<faults, disturbed>>
       \/ Fault(i, "done") /\ UNCHANGED rows
    /\ UNCHANGED <<wallet, customer, provider, local, stops,
                   refunded, unanswered, together, overlapped, uncounted>>

CreateFeeRow(i) == CreateRow(i, "fee", "fund")
CreateFundingRow(i) == CreateRow(i, "fund", "done")

\* refundReservedFunds, which only errors before the provider's acceptance
\* reach: the wallet is read, and written.
ReadRefund(i) ==
    /\ op[i].pc = "refundread"
    /\ \/ /\ op' = [op EXCEPT ![i].pc = "refund", ![i].wallet = wallet]
          /\ UNCHANGED <<faults, disturbed>>
       \/ Fault(i, "done")
    /\ UNCHANGED <<wallet, customer, provider, stored, stops,
                   refunded, unanswered, together, overlapped, uncounted>>

WriteRefund(i) ==
    /\ op[i].pc = "refund"
    /\ \/ /\ SetWallet(i, op[i].wallet + op[i].price)
          /\ refunded' = refunded \cup {i}
          /\ Goto(i, "done")
          /\ UNCHANGED <<faults, disturbed>>
       \/ Fault(i, "done") /\ UNCHANGED <<wallet, overlapped, refunded>>
    /\ UNCHANGED <<customer, provider, stored, stops, unanswered,
                   together, uncounted>>

\* The process dies: executions and their listeners are gone.
Stop ==
    /\ stops < MaxStops
    /\ stops' = stops + 1
    /\ op' = [i \in Issues |-> IF i \in InProgress
                               THEN [op[i] EXCEPT !.pc = "dead"] ELSE op[i]]
    /\ UNCHANGED <<wallet, customer, provider, stored, faults, past>>

ReserveFundsSecurely(i) == ReadReserve(i) \/ WriteReserve(i)
EnsureMapleradCustomer(i) == \/ LookUpCustomer(i) \/ EnrolCustomer(i)
                             \/ MapCustomer(i) \/ SyncCustomers(i)
FallbackPolling(i) == PollCards(i) \/ CompareCards(i)
ProcessSuccessfulCardCreation(i) == \/ SaveCard(i)
                                    \/ CreateFeeRow(i) \/ CreateFundingRow(i)
HandleCardCreationError(i) == ReadRefund(i) \/ WriteRefund(i)

\* issueRetailCard, once the request is in order.
Proceed(i) ==
    \/ ReserveFundsSecurely(i)
    \/ EnsureMapleradCustomer(i)
    \/ CreateCard(i) \/ LogCreation(i)
    \/ WaitTimesOut(i) \/ FallbackPolling(i)
    \/ ProcessSuccessfulCardCreation(i)
    \/ HandleCardCreationError(i)

IssuanceNext ==
    \/ \E i \in Issues : \/ ValidateRetailCardRequest(i)
                         \/ Proceed(i)
                         \/ ProviderMakes(i)
                         \/ HandleWebhook(i)
    \/ Stop

\* Node runs every continuation and every timer; neither the provider's
\* webhook nor its card is needed for an issuance to end.
IssuanceSpec ==
    /\ IssuanceInit /\ [][IssuanceNext]_ivars
    /\ \A i \in Issues : WF_ivars(Proceed(i))

(***************************************************************************)
(* Properties                                                              *)
(***************************************************************************)

Accepted == {i \in Issues : made[i] # "none"}
Price == [i \in Issues |-> op[i].price]

\* When nothing is under way, no answer was lost, nothing failed and no two
\* writes of the wallet crossed, the wallet is down by the price of exactly
\* the cards the provider accepted to make.
WalletPaysForAccepted ==
    (/\ \A i \in Issues : op[i].pc \in {"idle", "done"}
     /\ unanswered = {} /\ disturbed = {} /\ ~overlapped)
    => wallet = OpeningBalance - SumFunctionOnSet(Price, Accepted)

\* An undisturbed issuance is whole: one that was charged and is over has
\* its card stored with both rows, or was refunded and has neither.
IssuedOrRefunded ==
    \A i \in Issues :
       /\ i \in refunded => (local[i] = NoCard /\ rows[i] = 0)
       /\ (op[i].pc = "done" /\ i \notin disturbed /\ op[i].wallet # 0)
             => (i \in refunded \/ (local[i] # NoCard /\ rows[i] = 2))

\* No two stored cards stand for one card of the provider, although polling
\* takes any card of the customer: unless the two issuances overlapped, or
\* the read of the stored cards failed.
AdoptedOnceUnlessTogether ==
    \A i, j \in Issues \ disturbed :
       (i # j /\ local[i] = local[j] /\ local[i] \in Issues)
       => (i \in together /\ j \in together)

\* A customer has no more cards than allowed, although they are counted long
\* before the new one is stored: unless issuances overlapped, or the count
\* failed (validateRetailCardRequest 332-363).
WithinLimitUnlessTogether ==
    (together = {} /\ ~uncounted) => CardsHeld <= CardLimit

\* Whatever is lost, an issuance ends: the wait and the polling are bounded.
IssuanceEnds ==
    \A i \in Issues : op[i].pc \notin Over ~> op[i].pc \in Over
=============================================================================
