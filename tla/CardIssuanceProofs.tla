------------------------- MODULE CardIssuanceProofs -------------------------
(***************************************************************************)
(* Proofs about CardIssuance, for any issuances, prices and bounds: what   *)
(* the wallet has paid for, what an issuance that is over leaves, and how  *)
(* many cards a customer has.  Liveness (IssuanceEnds) is checked by TLC.  *)
(***************************************************************************)
EXTENDS CardIssuance, SumLemmas, TLAPS

Behaviour == IssuanceInit /\ [][IssuanceNext]_ivars

(***************************************************************************)
(* Where an issuance stands                                                *)
(***************************************************************************)
NotCharged == {"idle", "fees", "reserve"}
Charging == {"customer", "enrol", "map", "sync", "create", "log", "wait",
             "poll", "compare", "save", "fee", "fund", "refundread", "refund"}
Asking == {"customer", "enrol", "map", "sync", "create"}
Accepting == {"log", "wait", "poll", "compare", "save", "fee", "fund"}
Refunding == {"refundread", "refund"}

\* What the place of an issuance says of its card, its rows and its refund.
Stands(i) ==
    /\ op[i].pc = "reserve" => op[i].wallet >= op[i].price
    /\ op[i].pc = "save" => op[i].card # NoCard
    /\ op[i].pc \in {"idle", "fees"} => op[i].wallet = 0
    /\ op[i].pc \notin {"fee", "fund", "done", "dead"} => local[i] = NoCard
    /\ op[i].pc \in {"fee", "fund"} => local[i] # NoCard
    /\ op[i].pc \notin {"fund", "done", "dead"} => rows[i] = 0
    /\ op[i].pc = "fund" => rows[i] = 1
    /\ i \in refunded => op[i].pc = "done" /\ local[i] = NoCard /\ rows[i] = 0
    /\ op[i].pc \in Refunding => local[i] = NoCard /\ rows[i] = 0
    /\ op[i].pc = "done" /\ i \notin disturbed /\ op[i].wallet # 0
          => i \in refunded \/ (local[i] # NoCard /\ rows[i] = 2)

\* ... and of the provider.
Answered(i) ==
    /\ op[i].pc \in NotCharged \cup Asking => made[i] = "none"
    /\ op[i].pc \in Accepting => made[i] # "none"
    /\ op[i].pc \in Refunding /\ i \notin unanswered => made[i] = "none"

TInv == IssuanceTypeOK /\ \A i \in Issues : Stands(i)

LEMMA Constants ==
  /\ IsFiniteSet(Issues)
  /\ Amount \in Nat /\ Amount > 0
  /\ IssuanceFee \in Nat /\ IssuanceFee > 0
  /\ CardLimit \in Nat /\ CardLimit >= 2
  /\ OpeningBalance \in Nat
  /\ MaxPolls \in Nat /\ MaxPolls > 0
  /\ MaxFaults \in Nat /\ MaxStops \in Nat
  /\ Placeholder \notin Issues /\ NoCard \notin Issues /\ Placeholder # NoCard
  BY IssuanceAssumption

LEMMA InitTInv == IssuanceInit => TInv
<1> SUFFICES ASSUME IssuanceInit PROVE TInv
  OBVIOUS
<1>1. [pc |-> "idle", price |-> 0, wallet |-> 0, found |-> {},
       card |-> NoCard, polls |-> 0] \in Execution
  BY Constants DEF Execution, Steps, Cards
<1>2. op \in [Issues -> Execution] /\ local \in [Issues -> Cards]
  BY <1>1 DEF IssuanceInit, Cards
<1>3. IssuanceTypeOK
  <2>1. wallet \in Nat /\ held \in Nat /\ faults \in 0..MaxFaults
        /\ stops \in 0..MaxStops
    BY Constants DEF IssuanceInit
  <2>2. /\ made \in [Issues -> {"none", "creating", "active", "failed"}]
        /\ order \in [Issues -> Nat] /\ rows \in [Issues -> 0..2]
    BY DEF IssuanceInit
  <2>3. /\ enrolled \in BOOLEAN /\ mapped \in BOOLEAN
        /\ overlapped \in BOOLEAN /\ uncounted \in BOOLEAN
    BY DEF IssuanceInit
  <2>4. /\ refunded \in SUBSET Issues /\ unanswered \in SUBSET Issues
        /\ disturbed \in SUBSET Issues /\ together \in SUBSET Issues
    BY DEF IssuanceInit
  <2>5. QED
    BY <1>2, <2>1, <2>2, <2>3, <2>4 DEF IssuanceTypeOK
<1>4. \A i \in Issues : Stands(i)
  BY DEF IssuanceInit, Stands, Refunding
<1>5. QED
  BY <1>3, <1>4 DEF TInv

\* The newest of some cards is one of them.
LEMMA NewestIsOne ==
  ASSUME TInv, NEW new \in SUBSET Issues, new # {}
  PROVE  Newest(new) \in new
<1>1. IsFiniteSet(new) /\ \A j \in new : order[j] \in Int
  BY Constants, FS_Subset DEF TInv, IssuanceTypeOK
<1>2. \E j \in new : \A k \in new : order[k] <= order[j]
  BY <1>1, GreatestExists
<1>3. QED
  BY <1>2 DEF Newest

\* Comparing leaves the loop with a card, or goes round it.
LEMMA CompareStep ==
  ASSUME TInv, NEW i \in Issues, CompareCards(i)
  PROVE  /\ op[i].pc = "compare" /\ op'[i].pc \in {"poll", "save"}
         /\ op'[i].pc = "save" => op'[i].card # NoCard
         /\ op'[i].price = op[i].price /\ op'[i].wallet = op[i].wallet
<1>1. op \in [Issues -> Execution] /\ op[i].found \in SUBSET Issues
  BY DEF TInv, IssuanceTypeOK, Execution
<1>2. PICK new \in SUBSET Issues : Adopt(i, new)
  BY <1>1 DEF CompareCards
<1>3. new # {} => Newest(new) # NoCard
  BY NewestIsOne, Constants
<1>4. \/ op' = [op EXCEPT ![i] = Again(i)]
      \/ \E k : k # NoCard /\ op' = [op EXCEPT ![i] = Leave(i, k)]
  BY <1>2, <1>3, Constants DEF Adopt
<1>5. op'[i] = Again(i) \/ \E k : k # NoCard /\ op'[i] = Leave(i, k)
  BY <1>1, <1>4
<1>6. QED
  BY <1>1, <1>5 DEF CompareCards, Again, Leave, Execution

-----------------------------------------------------------------------------
(***************************************************************************)
(* What the steps write                                                    *)
(***************************************************************************)

\* The issuance i becomes r, the others are left alone, history grows.
Becomes(i, r) ==
    /\ op' = [op EXCEPT ![i] = r]
    /\ r \in Execution

Grows(i) ==
    /\ \A j \in Issues \ {i} :
          /\ op'[j] = op[j] /\ made'[j] = made[j] /\ local'[j] = local[j]
          /\ rows'[j] = rows[j]
          /\ j \in refunded' <=> j \in refunded
          /\ j \in disturbed' <=> j \in disturbed
          /\ j \in unanswered' <=> j \in unanswered
    /\ disturbed \subseteq disturbed' /\ together \subseteq together'
    /\ unanswered \subseteq unanswered'
    /\ overlapped => overlapped'
    /\ uncounted => uncounted'

Step(i) == ValidateRetailCardRequest(i) \/ Proceed(i)

LEMMA BecomesCases ==
  ASSUME TInv, NEW i \in Issues, Step(i)
  PROVE  \E r : Becomes(i, r)
<1>1. /\ op[i] \in Execution /\ wallet \in Nat
      /\ op \in [Issues -> Execution]
  BY DEF TInv, IssuanceTypeOK
<1>2. \A pc \in Steps : [op[i] EXCEPT !.pc = pc] \in Execution
  BY <1>1 DEF Execution
<1>3. ASSUME NEW pc \in Steps, Goto(i, pc) PROVE \E r : Becomes(i, r)
  <2>1. Becomes(i, [op[i] EXCEPT !.pc = pc])
    BY <1>2, <1>3 DEF Goto, Becomes
  <2>2. QED
    BY <2>1
<1>4. CASE ReadReserve(i)
  <2>1. PICK readable \in BOOLEAN :
           op' = IF wallet >= CalculateCardFees(readable)
                 THEN [op EXCEPT ![i].pc = "reserve",
                                 ![i].price = CalculateCardFees(readable),
                                 ![i].wallet = wallet]
                 ELSE [op EXCEPT ![i].pc = "done"]
    BY <1>4 DEF ReadReserve
  <2>2. CalculateCardFees(readable) \in Nat
    BY Constants DEF CalculateCardFees
  <2>3. [op[i] EXCEPT !.pc = "reserve", !.price = CalculateCardFees(readable),
                      !.wallet = wallet] \in Execution
    BY <1>1, <2>2 DEF Execution, Steps
  <2>4. "done" \in Steps
    BY DEF Steps
  <2>5. QED
    BY <1>2, <2>1, <2>3, <2>4 DEF Becomes
<1>5. CASE ReadRefund(i)
  <2>1. \/ op' = [op EXCEPT ![i] = [op[i] EXCEPT !.pc = "refund",
                                                 !.wallet = wallet]]
        \/ Goto(i, "done")
    BY <1>5 DEF ReadRefund, Fault
  <2>2. /\ [op[i] EXCEPT !.pc = "refund", !.wallet = wallet] \in Execution
        /\ "done" \in Steps
    BY <1>1 DEF Execution, Steps
  <2>3. QED
    BY <1>3, <2>1, <2>2 DEF Becomes
<1>6. CASE WaitTimesOut(i)
  <2>1. op' = [op EXCEPT ![i] = [op[i] EXCEPT !.pc = "poll", !.card = NoCard]]
    BY <1>6 DEF WaitTimesOut, Resolve
  <2>2. [op[i] EXCEPT !.pc = "poll", !.card = NoCard] \in Execution
    BY <1>1 DEF Execution, Steps, Cards
  <2>3. QED
    BY <2>1, <2>2 DEF Becomes
<1>7. CASE PollCards(i)
  <2>1. PICK answer \in {{}, {j \in Issues : made[j] = "active"}} :
           op' = [op EXCEPT ![i].pc = "compare", ![i].found = answer]
    BY <1>7 DEF PollCards
  <2>2. answer \in SUBSET Issues
    OBVIOUS
  <2>3. [op[i] EXCEPT !.pc = "compare", !.found = answer] \in Execution
    BY <1>1, <2>2 DEF Execution, Steps
  <2>4. QED
    BY <2>1, <2>3 DEF Becomes
<1>8. CASE CompareCards(i)
  <2>1. PICK new \in SUBSET Issues : Adopt(i, new)
    BY <1>1, <1>8 DEF CompareCards, Execution
  <2>2. /\ new # {} => Newest(new) \in Issues
    BY <2>1, NewestIsOne
  <2>3. \A k \in Cards : Leave(i, k) \in Execution
    <3>1. 0 \in 0..(MaxPolls - 1) /\ "save" \in Steps
      BY Constants DEF Steps
    <3>2. {} \in SUBSET Issues
      OBVIOUS
    <3>3. QED
      BY <1>1, <3>1, <3>2 DEF Leave, Execution
  <2>4. Again(i).polls < MaxPolls => Again(i) \in Execution
    <3>1. op[i].polls \in 0..(MaxPolls - 1) /\ Again(i).polls = op[i].polls + 1
      BY <1>1 DEF Execution, Again
    <3>2. Again(i).polls < MaxPolls => op[i].polls + 1 \in 0..(MaxPolls - 1)
      BY <3>1, Constants
    <3>3. {} \in SUBSET Issues /\ "poll" \in Steps
      BY DEF Steps
    <3>4. QED
      BY <1>1, <3>2, <3>3 DEF Again, Execution
  <2>5. QED
    BY <2>1, <2>2, <2>3, <2>4 DEF Adopt, Becomes, Cards
<1>9. CASE \/ ValidateRetailCardRequest(i) \/ WriteReserve(i)
           \/ EnsureMapleradCustomer(i) \/ CreateCard(i) \/ LogCreation(i)
           \/ ProcessSuccessfulCardCreation(i) \/ WriteRefund(i)
  <2>1. \E pc \in Steps : Goto(i, pc)
    BY <1>9 DEF ValidateRetailCardRequest, WriteReserve,
       EnsureMapleradCustomer, LookUpCustomer, EnrolCustomer, MapCustomer,
       SyncCustomers, CreateCard, LogCreation, ProcessSuccessfulCardCreation,
       SaveCard, CreateFeeRow, CreateFundingRow, CreateRow, WriteRefund,
       Fault, Steps
  <2>2. QED
    BY <1>3, <2>1
<1>10. QED
  BY <1>4, <1>5, <1>6, <1>7, <1>8, <1>9
     DEF Step, Proceed, ReserveFundsSecurely, FallbackPolling,
         HandleCardCreationError

WritesMoney(i) ==
    /\ wallet' \in Nat /\ held' = held
    /\ enrolled' \in BOOLEAN /\ mapped' \in BOOLEAN
    /\ faults' \in 0..MaxFaults /\ stops' = stops
    /\ rows' = rows \/ (rows[i] < 2 /\ rows' = [rows EXCEPT ![i] = @ + 1])
    /\ order' = order \/ \E n \in Nat : order' = [order EXCEPT ![i] = n]

WritesNotes(i) ==
    /\ refunded' \in {refunded, refunded \cup {i}}
    /\ unanswered' \in {unanswered, unanswered \cup {i}}
    /\ disturbed' \in {disturbed, disturbed \cup {i}}
    /\ together' \in {together, together \cup InProgress \cup {i}}
    /\ made' = made \/ made' = [made EXCEPT ![i] = "creating"]
    /\ local' = local \/ local' = [local EXCEPT ![i] = op[i].card]

WritesFlags ==
    /\ overlapped' \in BOOLEAN /\ uncounted' \in BOOLEAN
    /\ overlapped => overlapped'
    /\ uncounted => uncounted'

LEMMA Writes ==
  ASSUME TInv, NEW i \in Issues, Step(i)
  PROVE  WritesMoney(i) /\ WritesNotes(i) /\ WritesFlags
<1>1. /\ wallet \in Nat /\ op[i].wallet \in Nat /\ op[i].price \in Nat
      /\ op[i].pc = "reserve" => op[i].wallet >= op[i].price
      /\ op[i].pc = "fee" => rows[i] = 0
      /\ op[i].pc = "fund" => rows[i] = 1
      /\ faults \in Nat /\ faults <= MaxFaults /\ MaxFaults \in Nat
      /\ enrolled \in BOOLEAN /\ mapped \in BOOLEAN
      /\ overlapped \in BOOLEAN /\ uncounted \in BOOLEAN
  BY Constants DEF TInv, IssuanceTypeOK, Execution, Stands
<1>2. /\ op[i].pc = "reserve" => op[i].wallet - op[i].price \in Nat
      /\ op[i].wallet + op[i].price \in Nat
      /\ faults \in 0..MaxFaults
      /\ faults < MaxFaults => faults + 1 \in 0..MaxFaults
  BY <1>1
<1>3. 1 + Cardinality({j \in Issues : made[j] # "none"}) \in Nat
  <2>1. IsFiniteSet({j \in Issues : made[j] # "none"})
    BY Constants, FS_Subset
  <2>2. Cardinality({j \in Issues : made[j] # "none"}) \in Nat
    BY <2>1, FS_CardinalityType
  <2>3. QED
    BY <2>2
<1>4. CASE ValidateRetailCardRequest(i)
  BY <1>1, <1>2, <1>4 DEF ValidateRetailCardRequest, customer, provider,
     stored, WritesMoney, WritesNotes, WritesFlags
<1>5. CASE ReserveFundsSecurely(i) \/ HandleCardCreationError(i)
  BY <1>1, <1>2, <1>5 DEF ReserveFundsSecurely, ReadReserve, WriteReserve,
     HandleCardCreationError, ReadRefund, WriteRefund, SetWallet, Fault,
     customer, provider, stored, past, WritesMoney, WritesNotes, WritesFlags
<1>6. CASE EnsureMapleradCustomer(i)
  BY <1>1, <1>2, <1>6 DEF EnsureMapleradCustomer, LookUpCustomer,
     EnrolCustomer, MapCustomer, SyncCustomers, Fault, customer, provider,
     stored, counters, past, WritesMoney, WritesNotes, WritesFlags
<1>7. CASE CreateCard(i)
  BY <1>1, <1>2, <1>3, <1>7 DEF CreateCard, Accept, customer, stored,
     counters, WritesMoney, WritesNotes, WritesFlags
<1>8. CASE LogCreation(i) \/ WaitTimesOut(i) \/ FallbackPolling(i)
  BY <1>1, <1>2, <1>8 DEF LogCreation, WaitTimesOut, FallbackPolling,
     PollCards, CompareCards, customer, provider, stored, counters, past,
     WritesMoney, WritesNotes, WritesFlags
<1>9. CASE ProcessSuccessfulCardCreation(i)
  BY <1>1, <1>2, <1>9 DEF ProcessSuccessfulCardCreation, SaveCard,
     CreateFeeRow, CreateFundingRow, CreateRow, Fault, customer, provider,
     WritesMoney, WritesNotes, WritesFlags
<1>10. QED
  BY <1>4, <1>5, <1>6, <1>7, <1>8, <1>9 DEF Step, Proceed

LEMMA StepGrows ==
  ASSUME TInv, NEW i \in Issues, Step(i)
  PROVE  Grows(i) /\ IssuanceTypeOK'
<1>1. PICK r : Becomes(i, r)
  BY BecomesCases
<1>2. op' \in [Issues -> Execution] /\ \A j \in Issues \ {i} : op'[j] = op[j]
  BY <1>1 DEF Becomes, TInv, IssuanceTypeOK
<1>3. WritesMoney(i) /\ WritesNotes(i) /\ WritesFlags
  BY Writes
<1>4. op[i].card \in Cards
  BY DEF TInv, IssuanceTypeOK, Execution
<1>5. /\ made' \in [Issues -> {"none", "creating", "active", "failed"}]
      /\ local' \in [Issues -> Cards]
      /\ \A j \in Issues \ {i} : made'[j] = made[j] /\ local'[j] = local[j]
  BY <1>3, <1>4 DEF WritesNotes, TInv, IssuanceTypeOK
<1>6. rows' \in [Issues -> 0..2] /\ \A j \in Issues \ {i} : rows'[j] = rows[j]
  <2>1. rows \in [Issues -> 0..2] /\ (rows[i] < 2 => rows[i] + 1 \in 0..2)
    BY DEF TInv, IssuanceTypeOK
  <2>2. QED
    BY <1>3, <2>1 DEF WritesMoney
<1>7. order' \in [Issues -> Nat]
  BY <1>3 DEF WritesMoney, TInv, IssuanceTypeOK
<1>8. /\ refunded' \in SUBSET Issues /\ unanswered' \in SUBSET Issues
      /\ disturbed' \in SUBSET Issues /\ together' \in SUBSET Issues
      /\ disturbed \subseteq disturbed' /\ together \subseteq together'
      /\ unanswered \subseteq unanswered'
      /\ \A j \in Issues \ {i} : /\ j \in refunded' <=> j \in refunded
                                 /\ j \in disturbed' <=> j \in disturbed
                                 /\ j \in unanswered' <=> j \in unanswered
  BY <1>3 DEF WritesNotes, InProgress, TInv, IssuanceTypeOK
<1>9. Grows(i)
  BY <1>2, <1>3, <1>5, <1>6, <1>8 DEF Grows, WritesFlags
<1>10. IssuanceTypeOK'
  BY <1>2, <1>3, <1>5, <1>6, <1>7, <1>8
     DEF WritesMoney, WritesFlags, TInv, IssuanceTypeOK
<1>11. QED
  BY <1>9, <1>10

\* The provider's steps, its webhook and a crash: no issuance goes on, one
\* under way may die.  The webhook resolves no wait, because the headers it
\* is verified by the second time are missing.
Elsewhere ==
    /\ \A i \in Issues : \/ op'[i] = op[i]
                         \/ op'[i].pc = "dead" /\ i \in InProgress
    /\ \A i \in Issues : made'[i] = "none" <=> made[i] = "none"
    /\ UNCHANGED <<wallet, held, local, rows, past>>

LEMMA StepsElsewhere ==
  ASSUME TInv, [IssuanceNext]_ivars
  PROVE  \/ \E i \in Issues : Step(i)
         \/ Elsewhere /\ IssuanceTypeOK'
<1>1. /\ op \in [Issues -> Execution]
      /\ made \in [Issues -> {"none", "creating", "active", "failed"}]
      /\ stops \in 0..MaxStops /\ MaxStops \in Nat
  BY Constants DEF TInv, IssuanceTypeOK
<1>2. ASSUME NEW i \in Issues, ProviderMakes(i)
      PROVE  Elsewhere /\ IssuanceTypeOK'
  <2>1. /\ made[i] = "creating"
        /\ made' \in [Issues -> {"none", "creating", "active", "failed"}]
        /\ \A j \in Issues : made'[j] = "none" <=> made[j] = "none"
    BY <1>1, <1>2 DEF ProviderMakes
  <2>2. UNCHANGED <<wallet, op, held, enrolled, mapped, order, local, rows,
                    faults, stops, past>>
    BY <1>2 DEF ProviderMakes, customer, stored, counters
  <2>3. QED
    BY <2>1, <2>2 DEF Elsewhere, TInv, IssuanceTypeOK, past
<1>3. ASSUME NEW i \in Issues, HandleWebhook(i)
      PROVE  Elsewhere /\ IssuanceTypeOK'
  <2>1. ~ VerifyWebhookSignature({})
    BY DEF VerifyWebhookSignature, Svix
  <2>2. op' = op
    BY <1>3, <2>1 DEF HandleWebhook, ProcessWebhookEvent
  <2>3. UNCHANGED <<wallet, held, enrolled, mapped, made, order, local, rows,
                    faults, stops, past>>
    BY <1>3 DEF HandleWebhook, customer, provider, stored, counters
  <2>4. QED
    BY <2>2, <2>3 DEF Elsewhere, TInv, IssuanceTypeOK, past
<1>4. CASE Stop
  <2>1. /\ UNCHANGED <<wallet, held, enrolled, mapped, made, order, local,
                       rows, faults, past>>
        /\ stops' \in 0..MaxStops
    BY <1>1, <1>4 DEF Stop, customer, provider, stored
  <2>2. \A i \in Issues : [op[i] EXCEPT !.pc = "dead"] \in Execution
    BY <1>1 DEF Execution, Steps
  <2>3. /\ op' \in [Issues -> Execution]
        /\ \A i \in Issues : \/ op'[i] = op[i]
                             \/ op'[i].pc = "dead" /\ i \in InProgress
    BY <1>1, <1>4, <2>2 DEF Stop, Execution
  <2>4. QED
    BY <2>1, <2>3 DEF Elsewhere, TInv, IssuanceTypeOK, past
<1>5. CASE UNCHANGED ivars
  BY <1>5 DEF ivars, Elsewhere, TInv, IssuanceTypeOK, past
<1>6. QED
  BY <1>2, <1>3, <1>4, <1>5 DEF IssuanceNext, Step

LEMMA StandsStep ==
  ASSUME TInv, NEW i \in Issues, Step(i)
  PROVE  Stands(i)'
<1>1. /\ op[i] \in Execution /\ op \in [Issues -> Execution]
      /\ Stands(i) /\ wallet \in Nat
      /\ local \in [Issues -> Cards] /\ rows \in [Issues -> 0..2]
  BY DEF TInv, IssuanceTypeOK
<1>2. CASE ValidateRetailCardRequest(i)
  BY <1>1, <1>2 DEF ValidateRetailCardRequest, Goto, stored, Stands,
     Refunding, Execution
<1>3. CASE ReadReserve(i)
  <2>1. PICK readable \in BOOLEAN :
           op' = IF wallet >= CalculateCardFees(readable)
                 THEN [op EXCEPT ![i].pc = "reserve",
                                 ![i].price = CalculateCardFees(readable),
                                 ![i].wallet = wallet]
                 ELSE [op EXCEPT ![i].pc = "done"]
    BY <1>3 DEF ReadReserve
  <2>2. op[i].pc = "fees" /\ UNCHANGED <<local, rows, refunded, disturbed>>
    BY <1>3 DEF ReadReserve, stored, past
  <2>3. QED
    BY <1>1, <2>1, <2>2 DEF Stands, Refunding, Execution
<1>4. CASE WriteReserve(i)
  BY <1>1, <1>4 DEF WriteReserve, Fault, Goto, stored, Stands,
     Refunding, Execution
<1>5. CASE EnsureMapleradCustomer(i)
  BY <1>1, <1>5 DEF EnsureMapleradCustomer, LookUpCustomer, EnrolCustomer,
     MapCustomer, SyncCustomers, Fault, Goto, stored, past, Stands,
     Refunding, Execution
<1>6. CASE CreateCard(i) \/ LogCreation(i)
  BY <1>1, <1>6 DEF CreateCard, LogCreation, Goto, stored, past, Stands,
     Refunding, Execution
<1>7. CASE WaitTimesOut(i) \/ PollCards(i)
  BY <1>1, <1>7 DEF WaitTimesOut, Listening, Resolve, PollCards, stored, past,
     Stands, Refunding, Execution
<1>8. CASE CompareCards(i)
  <2>1. UNCHANGED <<local, rows, refunded>>
    BY <1>8 DEF CompareCards, stored
  <2>2. QED
    BY <1>1, <1>8, <2>1, CompareStep DEF Stands, Refunding
<1>9. CASE ProcessSuccessfulCardCreation(i)
  BY <1>1, <1>9 DEF ProcessSuccessfulCardCreation, SaveCard, CreateFeeRow,
     CreateFundingRow, CreateRow, Fault, Goto, Stands, Refunding, Execution
<1>10. CASE ReadRefund(i) \/ WriteRefund(i)
  BY <1>1, <1>10 DEF ReadRefund, WriteRefund, Fault, Goto, stored, Stands,
     Refunding, Execution
<1>11. QED
  BY <1>2, <1>3, <1>4, <1>5, <1>6, <1>7, <1>8, <1>9, <1>10
     DEF Step, Proceed, ReserveFundsSecurely, FallbackPolling,
         HandleCardCreationError

LEMMA NextTInv == TInv /\ [IssuanceNext]_ivars => TInv'
<1> SUFFICES ASSUME TInv, [IssuanceNext]_ivars PROVE TInv'
  OBVIOUS
<1>1. ASSUME NEW i \in Issues, Step(i) PROVE TInv'
  <2>1. Grows(i) /\ IssuanceTypeOK' /\ Stands(i)'
    BY <1>1, StepGrows, StandsStep
  <2>2. \A j \in Issues \ {i} : Stands(j)'
    BY <2>1 DEF Grows, TInv, Stands
  <2>3. QED
    BY <2>1, <2>2 DEF TInv
<1>2. CASE Elsewhere /\ IssuanceTypeOK'
  <2>1. \A i \in Issues : Stands(i)'
    BY <1>2 DEF Elsewhere, InProgress, Over, past, TInv, Stands, Refunding
  <2>2. QED
    BY <1>2, <2>1 DEF TInv
<1>3. QED
  BY <1>1, <1>2, StepsElsewhere

\* For any issuances: the state is always of its type.
THEOREM IssuanceTypeCorrect == IssuanceSpec => []IssuanceTypeOK
<1>1. Behaviour => []TInv
  BY InitTInv, NextTInv, PTL DEF Behaviour
<1>2. IssuanceSpec => Behaviour
  BY PTL DEF IssuanceSpec, Behaviour
<1>3. TInv => IssuanceTypeOK
  BY DEF TInv
<1>4. QED
  BY <1>1, <1>2, <1>3, PTL

\* For any issuances: one that nothing disturbed and that is over was
\* refunded and left nothing, or has its card stored with both rows.
THEOREM IssuancesAreWhole == IssuanceSpec => []IssuedOrRefunded
<1>1. Behaviour => []TInv
  BY InitTInv, NextTInv, PTL DEF Behaviour
<1>2. IssuanceSpec => Behaviour
  BY PTL DEF IssuanceSpec, Behaviour
<1>3. TInv => IssuedOrRefunded
  BY DEF TInv, Stands, IssuedOrRefunded
<1>4. QED
  BY <1>1, <1>2, <1>3, PTL

-----------------------------------------------------------------------------
(***************************************************************************)
(* The wallet.  As long as no answer was lost, nothing failed and no two   *)
(* writes of the wallet crossed, an issuance that is to write the wallet   *)
(* holds its balance.                                                      *)
(***************************************************************************)
AnsweredInv == \A i \in Issues : Answered(i)

Clean == /\ unanswered = {} /\ disturbed = {} /\ ~ overlapped
         /\ \A i \in Issues : op[i].pc # "dead"

Holds(i) == op[i].pc \in {"reserve", "refund"} => op[i].wallet = wallet

\* The price, from its reservation until it is given back.
Charged(i) ==
    IF \/ op[i].pc \in Charging
       \/ op[i].pc = "done" /\ made[i] # "none"
    THEN op[i].price ELSE 0

Charges == [i \in Issues |-> Charged(i)]

WalletInv ==
    Clean => /\ wallet = OpeningBalance - SumFunctionOnSet(Charges, Issues)
             /\ \A i \in Issues : Holds(i)

LEMMA InitWallet == IssuanceInit => AnsweredInv /\ WalletInv
<1> SUFFICES ASSUME IssuanceInit PROVE AnsweredInv /\ WalletInv
  OBVIOUS
<1>1. \A i \in Issues : op[i].pc = "idle" /\ made[i] = "none"
  BY DEF IssuanceInit
<1>2. \A i \in Issues : Answered(i) /\ Holds(i)
  BY <1>1 DEF Answered, Holds, Accepting, Refunding
<1>3. \A i \in Issues : Charges[i] = 0
  BY <1>1 DEF Charges, Charged, Charging
<1>4. SumFunctionOnSet(Charges, Issues) = 0
  BY <1>3, Constants, SumOfZeros
<1>5. wallet = OpeningBalance - 0
  BY Constants DEF IssuanceInit
<1>6. QED
  BY <1>2, <1>4, <1>5 DEF AnsweredInv, WalletInv

LEMMA AnsweredStep ==
  ASSUME TInv, AnsweredInv, NEW i \in Issues, Step(i)
  PROVE  Answered(i)'
<1>1. /\ op \in [Issues -> Execution] /\ Answered(i)
      /\ made \in [Issues -> {"none", "creating", "active", "failed"}]
  BY DEF TInv, IssuanceTypeOK, AnsweredInv
<1> USE DEF Answered, NotCharged, Asking, Accepting, Refunding, Execution
<1>2. CASE ValidateRetailCardRequest(i)
  BY <1>1, <1>2 DEF ValidateRetailCardRequest, Goto, provider
<1>3. CASE ReadReserve(i)
  <2>1. /\ op[i].pc = "fees" /\ op'[i].pc \in {"reserve", "done"}
        /\ made' = made /\ unanswered' = unanswered
    BY <1>1, <1>3 DEF ReadReserve, provider, past
  <2>2. QED
    BY <1>1, <2>1
<1>4. CASE WriteReserve(i)
  BY <1>1, <1>4 DEF WriteReserve, Fault, Goto, provider
<1>5. CASE EnsureMapleradCustomer(i)
  BY <1>1, <1>5 DEF EnsureMapleradCustomer, LookUpCustomer, EnrolCustomer,
     MapCustomer, SyncCustomers, Fault, Goto, provider, past
<1>6. CASE CreateCard(i) \/ LogCreation(i)
  BY <1>1, <1>6 DEF CreateCard, Accept, LogCreation, Goto, provider, past
<1>7. CASE WaitTimesOut(i) \/ PollCards(i)
  BY <1>1, <1>7 DEF WaitTimesOut, Listening, Resolve, PollCards, provider
<1>8. CASE CompareCards(i)
  <2>1. made' = made
    BY <1>8 DEF CompareCards, provider
  <2>2. QED
    BY <1>1, <1>8, <2>1, CompareStep
<1>9. CASE ProcessSuccessfulCardCreation(i)
  BY <1>1, <1>9 DEF ProcessSuccessfulCardCreation, SaveCard, CreateFeeRow,
     CreateFundingRow, CreateRow, Fault, Goto, provider
<1>10. CASE ReadRefund(i) \/ WriteRefund(i)
  BY <1>1, <1>10 DEF ReadRefund, WriteRefund, Fault, Goto, provider
<1>11. QED
  BY <1>2, <1>3, <1>4, <1>5, <1>6, <1>7, <1>8, <1>9, <1>10
     DEF Step, Proceed, ReserveFundsSecurely, FallbackPolling,
         HandleCardCreationError

LEMMA NextAnswered ==
  TInv /\ AnsweredInv /\ [IssuanceNext]_ivars => AnsweredInv'
<1> SUFFICES ASSUME TInv, AnsweredInv, [IssuanceNext]_ivars PROVE AnsweredInv'
  OBVIOUS
<1>1. ASSUME NEW i \in Issues, Step(i) PROVE AnsweredInv'
  <2>1. Grows(i) /\ Answered(i)'
    BY <1>1, StepGrows, AnsweredStep
  <2>2. \A j \in Issues \ {i} : Answered(j)'
    BY <2>1 DEF Grows, AnsweredInv, Answered
  <2>3. QED
    BY <2>1, <2>2 DEF AnsweredInv
<1>2. CASE Elsewhere
  BY <1>2 DEF Elsewhere, past, AnsweredInv, Answered, NotCharged, Asking,
     Accepting, Refunding
<1>3. QED
  BY <1>1, <1>2, StepsElsewhere

\* Nobody else is about to write what he computed from the wallet.
Alone(i) == \A j \in Issues \ {i} : op[j].pc \notin {"reserve", "refund"}

LEMMA WalletStep ==
  ASSUME TInv, AnsweredInv, NEW i \in Issues, Step(i), Holds(i), Clean,
         Clean'
  PROVE  /\ wallet' = wallet - Charged(i)' + Charged(i)
         /\ wallet' = wallet \/ Alone(i)
         /\ Holds(i)'
<1>1. /\ op \in [Issues -> Execution] /\ Answered(i)
      /\ made \in [Issues -> {"none", "creating", "active", "failed"}]
      /\ wallet \in Int /\ op[i].wallet \in Int /\ op[i].price \in Int
      /\ disturbed' = {} /\ ~ overlapped' /\ unanswered' = {}
      /\ i \notin unanswered
  BY DEF TInv, IssuanceTypeOK, AnsweredInv, Execution, Clean
<1> USE DEF Answered, NotCharged, Asking, Accepting, Refunding, Execution,
            Charged, Charging, Holds
<1>2. CASE ValidateRetailCardRequest(i)
  BY <1>1, <1>2 DEF ValidateRetailCardRequest, Goto, provider
<1>3. CASE ReadReserve(i)
  <2>1. /\ op[i].pc = "fees" /\ made' = made /\ wallet' = wallet
        /\ \/ op'[i].pc = "reserve" /\ op'[i].wallet = wallet
           \/ op'[i].pc = "done"
    BY <1>1, <1>3 DEF ReadReserve, provider
  <2>2. QED
    BY <1>1, <2>1
<1>4. CASE WriteReserve(i)
  <2>1. /\ op[i].pc = "reserve"
        /\ SetWallet(i, op[i].wallet - op[i].price)
        /\ Goto(i, "customer") /\ made' = made
    BY <1>1, <1>4 DEF WriteReserve, Fault, provider
  <2>2. Alone(i)
    BY <1>1, <2>1 DEF SetWallet, Alone
  <2>3. wallet' = op[i].wallet - op[i].price /\ op'[i].pc = "customer"
        /\ op'[i].price = op[i].price
    BY <1>1, <2>1 DEF SetWallet, Goto
  <2>4. QED
    BY <1>1, <2>1, <2>2, <2>3
<1>5. CASE EnsureMapleradCustomer(i)
  BY <1>1, <1>5 DEF EnsureMapleradCustomer, LookUpCustomer, EnrolCustomer,
     MapCustomer, SyncCustomers, Fault, Goto, provider, past
<1>6. CASE CreateCard(i) \/ LogCreation(i)
  BY <1>1, <1>6 DEF CreateCard, Accept, LogCreation, Goto, provider, past
<1>7. CASE WaitTimesOut(i) \/ PollCards(i)
  BY <1>1, <1>7 DEF WaitTimesOut, Listening, Resolve, PollCards, provider
<1>8. CASE CompareCards(i)
  <2>1. made' = made /\ wallet' = wallet
    BY <1>8 DEF CompareCards, provider
  <2>2. QED
    BY <1>1, <1>8, <2>1, CompareStep
<1>9. CASE ProcessSuccessfulCardCreation(i)
  BY <1>1, <1>9 DEF ProcessSuccessfulCardCreation, SaveCard, CreateFeeRow,
     CreateFundingRow, CreateRow, Fault, Goto, provider
<1>10. CASE ReadRefund(i)
  BY <1>1, <1>10 DEF ReadRefund, Fault, Goto, provider
<1>11. CASE WriteRefund(i)
  <2>1. /\ op[i].pc = "refund"
        /\ SetWallet(i, op[i].wallet + op[i].price)
        /\ Goto(i, "done") /\ made' = made
    BY <1>1, <1>11 DEF WriteRefund, Fault, provider
  <2>2. Alone(i)
    BY <1>1, <2>1 DEF SetWallet, Alone
  <2>3. wallet' = op[i].wallet + op[i].price /\ op'[i].pc = "done"
        /\ op'[i].price = op[i].price
    BY <1>1, <2>1 DEF SetWallet, Goto
  <2>4. QED
    BY <1>1, <2>1, <2>2, <2>3
<1>12. QED
  BY <1>2, <1>3, <1>4, <1>5, <1>6, <1>7, <1>8, <1>9, <1>10, <1>11
     DEF Step, Proceed, ReserveFundsSecurely, FallbackPolling,
         HandleCardCreationError

LEMMA ChargesSum ==
  ASSUME TInv
  PROVE  /\ \A i \in Issues : Charges[i] = Charged(i) /\ Charged(i) \in Int
         /\ SumFunctionOnSet(Charges, Issues) \in Int
<1>1. \A i \in Issues : op[i].price \in Int
  BY DEF TInv, IssuanceTypeOK, Execution
<1>2. \A i \in Issues : Charges[i] = Charged(i) /\ Charged(i) \in Int
  BY <1>1 DEF Charges, Charged
<1>3. \A i \in Issues : Charges[i] \in Int
  BY <1>2
<1>4. QED
  BY <1>2, <1>3, Constants, SumIsInt

\* The charge of one issuance changes.
LEMMA ChargeChanges ==
  ASSUME TInv, TInv', NEW i \in Issues, Grows(i)
  PROVE  SumFunctionOnSet(Charges', Issues) =
            SumFunctionOnSet(Charges, Issues) - Charged(i) + Charged(i)'
<1> DEFINE old == Charges
           new == Charges'
<1>1. /\ \A j \in Issues : old[j] = Charged(j)
      /\ \A j \in Issues : old[j] \in Int
      /\ IsFiniteSet(Issues)
  BY ChargesSum, Constants
<1>2. op'[i].price \in Int
  BY DEF TInv, IssuanceTypeOK, Execution
<1>3. new[i] = Charged(i)' /\ new[i] \in Int
  BY <1>2 DEF Charges, Charged
<1>4. \A j \in Issues \ {i} : new[j] = old[j]
  BY DEF Grows, Charges, Charged
<1> HIDE DEF old, new
<1>5. SumFunctionOnSet(new, Issues) =
         SumFunctionOnSet(old, Issues) - old[i] + new[i]
  BY <1>1, <1>3, <1>4, SumOfOneChange
<1>6. QED
  BY <1>1, <1>3, <1>5 DEF old, new

LEMMA NextWallet ==
  TInv /\ AnsweredInv /\ WalletInv /\ [IssuanceNext]_ivars => WalletInv'
<1> SUFFICES ASSUME TInv, AnsweredInv, WalletInv, [IssuanceNext]_ivars, Clean'
             PROVE  /\ wallet' = OpeningBalance
                                    - SumFunctionOnSet(Charges', Issues)
                    /\ \A i \in Issues : Holds(i)'
  BY DEF WalletInv
<1>1. TInv'
  BY NextTInv
<1>2. ASSUME NEW i \in Issues, Step(i)
      PROVE  /\ wallet' = OpeningBalance - SumFunctionOnSet(Charges', Issues)
             /\ \A j \in Issues : Holds(j)'
  <2>1. Grows(i)
    BY <1>2, StepGrows
  <2>2. op[i].pc # "dead"
    BY <1>2 DEF Step, ValidateRetailCardRequest, Proceed,
       ReserveFundsSecurely, ReadReserve, WriteReserve, EnsureMapleradCustomer,
       LookUpCustomer, EnrolCustomer, MapCustomer, SyncCustomers, CreateCard,
       LogCreation, WaitTimesOut, Listening, FallbackPolling, PollCards,
       CompareCards, ProcessSuccessfulCardCreation, SaveCard, CreateFeeRow,
       CreateFundingRow, CreateRow, HandleCardCreationError, ReadRefund,
       WriteRefund
  <2>3. Clean
    BY <2>1, <2>2 DEF Grows, Clean
  <2>4. /\ wallet = OpeningBalance - SumFunctionOnSet(Charges, Issues)
        /\ \A j \in Issues : Holds(j)
    BY <2>3 DEF WalletInv
  <2>5. /\ wallet' = wallet - Charged(i)' + Charged(i)
        /\ wallet' = wallet \/ Alone(i)
        /\ Holds(i)'
    BY <1>2, <2>3, <2>4, WalletStep
  <2>6. SumFunctionOnSet(Charges', Issues) =
           SumFunctionOnSet(Charges, Issues) - Charged(i) + Charged(i)'
    BY <1>1, <2>1, ChargeChanges
  <2>7. /\ Charged(i) \in Int /\ Charged(i)' \in Int
        /\ SumFunctionOnSet(Charges, Issues) \in Int /\ OpeningBalance \in Int
    <3>1. op'[i].price \in Int
      BY <1>1 DEF TInv, IssuanceTypeOK, Execution
    <3>2. Charged(i)' \in Int
      BY <3>1 DEF Charged
    <3>3. QED
      BY <3>2, ChargesSum, Constants
  <2>8. wallet' = OpeningBalance - SumFunctionOnSet(Charges', Issues)
    BY <2>4, <2>5, <2>6, <2>7
  <2>9. \A j \in Issues \ {i} : Holds(j)'
    BY <2>1, <2>4, <2>5 DEF Grows, Holds, Alone
  <2>10. QED
    BY <2>5, <2>8, <2>9
<1>3. CASE Elsewhere
  <2>1. /\ \A i \in Issues : op'[i] = op[i]
        /\ UNCHANGED <<wallet, unanswered, disturbed, overlapped>>
        /\ \A i \in Issues : made'[i] = "none" <=> made[i] = "none"
    BY <1>3 DEF Elsewhere, Clean, past
  <2>2. Clean
    BY <2>1 DEF Clean
  <2>3. /\ wallet = OpeningBalance - SumFunctionOnSet(Charges, Issues)
        /\ \A j \in Issues : Holds(j)
    BY <2>2 DEF WalletInv
  <2>4. \A i \in Issues : Charges'[i] = Charges[i] /\ Holds(i)'
    BY <2>1, <2>3 DEF Charges, Charged, Holds
  <2> DEFINE old == Charges
             new == Charges'
  <2>5. IsFiniteSet(Issues) /\ \A i \in Issues : new[i] = old[i]
    BY <2>4, Constants
  <2> HIDE DEF old, new
  <2>6. SumFunctionOnSet(new, Issues) = SumFunctionOnSet(old, Issues)
    BY <2>5, SumOfSame
  <2>7. SumFunctionOnSet(Charges', Issues) = SumFunctionOnSet(Charges, Issues)
    BY <2>6 DEF old, new
  <2>8. QED
    BY <2>1, <2>3, <2>4, <2>7
<1>4. QED
  BY <1>2, <1>3, StepsElsewhere

\* For any issuances, prices and opening balance: when nothing is under way,
\* no answer was lost, nothing failed and no two writes crossed, the wallet
\* is down by the price of exactly the cards the provider accepted to make.
THEOREM AcceptedArePaid == IssuanceSpec => []WalletPaysForAccepted
<1>1. TInv /\ AnsweredInv /\ WalletInv => WalletPaysForAccepted
  <2> SUFFICES ASSUME TInv, AnsweredInv, WalletInv,
                      \A i \in Issues : op[i].pc \in {"idle", "done"},
                      unanswered = {}, disturbed = {}, ~ overlapped
               PROVE  wallet = OpeningBalance
                                  - SumFunctionOnSet(Price, Accepted)
    BY DEF WalletPaysForAccepted
  <2>1. wallet = OpeningBalance - SumFunctionOnSet(Charges, Issues)
    BY DEF WalletInv, Clean
  <2>2. \A i \in Issues : op[i].pc = "idle" => made[i] = "none"
    BY DEF AnsweredInv, Answered, NotCharged
  <2>3. \A i \in Issues :
           Charges[i] = IF i \in Accepted THEN Price[i] ELSE 0
    BY <2>2 DEF Charges, Charged, Charging, Price, Accepted
  <2>4. IsFiniteSet(Issues) /\ \A i \in Issues : Price[i] \in Int
    BY Constants DEF Price, TInv, IssuanceTypeOK, Execution
  <2>5. SumFunctionOnSet(Charges, Issues) =
           SumFunctionOnSet(Price, Issues \cap Accepted)
    BY <2>3, <2>4, SumOfSome
  <2>6. Issues \cap Accepted = Accepted
    BY DEF Accepted
  <2>7. QED
    BY <2>1, <2>5, <2>6
<1>2. Behaviour => []WalletPaysForAccepted
  BY <1>1, InitTInv, NextTInv, InitWallet, NextAnswered, NextWallet, PTL
     DEF Behaviour
<1>3. IssuanceSpec => Behaviour
  BY PTL DEF IssuanceSpec, Behaviour
<1>4. QED
  BY <1>2, <1>3, PTL

-----------------------------------------------------------------------------
(***************************************************************************)
(* The cards                                                               *)
(***************************************************************************)

\* Two issuances under way at one time are known to have overlapped.
OverlapInv == \A i, j \in InProgress : i # j => i \in together

\* A card that waits to be stored was not stored when it was taken.
AdoptInv ==
    /\ AdoptedOnceUnlessTogether
    /\ \A i, j \in Issues \ disturbed :
          (/\ i # j /\ op[j].pc = "save"
           /\ local[i] = op[j].card /\ op[j].card \in Issues)
          => i \in together /\ j \in together

\* While nothing overlapped, the one issuance under way has room for its
\* card.
LimitInv ==
    together = {} /\ ~ uncounted =>
       /\ CardsHeld <= CardLimit
       /\ \A i \in InProgress : local[i] = NoCard => CardsHeld < CardLimit

CardsInv == OverlapInv /\ AdoptInv /\ LimitInv

LEMMA InitCards == IssuanceInit => CardsInv
<1> SUFFICES ASSUME IssuanceInit PROVE CardsInv
  OBVIOUS
<1>1. InProgress = {} /\ \A i \in Issues : local[i] = NoCard
  BY DEF IssuanceInit, InProgress, Over
<1>2. {i \in Issues : local[i] # NoCard} = {}
  BY <1>1
<1>3. CardsHeld = held + 0
  BY <1>2, FS_EmptySet DEF CardsHeld
<1>4. held \in Int /\ held <= CardLimit
  BY Constants DEF IssuanceInit
<1>5. QED
  BY <1>1, <1>3, <1>4, Constants DEF CardsInv, OverlapInv, AdoptInv, LimitInv,
     AdoptedOnceUnlessTogether

\* The ways an issuance comes to a card: it starts, it goes on, it takes a
\* card, or it stores the card it has taken.
Starts(i) ==
    /\ op[i].pc = "idle" /\ local' = local
    /\ op'[i].pc \in {"fees", "done"}
    /\ op'[i].pc = "fees" => CardsHeld < CardLimit \/ uncounted'
    /\ together' = IF InProgress # {}
                   THEN together \cup InProgress \cup {i} ELSE together

Takes(i) ==
    /\ op'[i].pc = "save" /\ local' = local /\ together' = together
    /\ i \notin disturbed' /\ op'[i].card \in Issues
          => \A j \in Issues : local[j] # op'[i].card

Stores(i) ==
    /\ op[i].pc = "save" /\ op'[i].pc = "fee" /\ together' = together
    /\ local' = [local EXCEPT ![i] = op[i].card]

GoesOn(i) ==
    /\ op[i].pc \notin Over /\ op'[i].pc # "save"
    /\ local' = local /\ together' = together

LEMMA CardMoves ==
  ASSUME TInv, NEW i \in Issues, Step(i)
  PROVE  /\ held' = held
         /\ Starts(i) \/ (i \in InProgress
                             /\ (Takes(i) \/ Stores(i) \/ GoesOn(i)))
<1>1. op \in [Issues -> Execution] /\ held' = held
  BY Writes DEF TInv, IssuanceTypeOK, WritesMoney
<1> USE DEF InProgress, Over, GoesOn
<1>2. CASE ValidateRetailCardRequest(i)
  BY <1>1, <1>2 DEF ValidateRetailCardRequest, Goto, stored, Starts, Execution
<1>3. CASE ReadReserve(i)
  <2>1. /\ op[i].pc = "fees" /\ op'[i].pc \in {"reserve", "done"}
        /\ local' = local /\ together' = together
    BY <1>1, <1>3 DEF ReadReserve, stored, past, Execution
  <2>2. QED
    BY <1>1, <2>1
<1>4. CASE WriteReserve(i)
  BY <1>1, <1>4 DEF WriteReserve, Fault, Goto, stored, Execution
<1>5. CASE EnsureMapleradCustomer(i)
  BY <1>1, <1>5 DEF EnsureMapleradCustomer, LookUpCustomer, EnrolCustomer,
     MapCustomer, SyncCustomers, Fault, Goto, stored, past, Execution
<1>6. CASE CreateCard(i) \/ LogCreation(i)
  BY <1>1, <1>6 DEF CreateCard, LogCreation, Goto, stored, past, Execution
<1>7. CASE WaitTimesOut(i) \/ PollCards(i)
  BY <1>1, <1>7 DEF WaitTimesOut, Listening, Resolve, PollCards, stored, past,
     Execution
<1>8. CASE CompareCards(i)
  <2>1. /\ op[i].pc = "compare" /\ op'[i].pc \in {"poll", "save"}
        /\ local' = local /\ together' = together
    BY <1>8, CompareStep DEF CompareCards, stored
  <2>2. ASSUME i \notin disturbed', op'[i].pc = "save",
               op'[i].card \in Issues, NEW j \in Issues
        PROVE  local[j] # op'[i].card
    <3> DEFINE new == op[i].found \ {local[k] : k \in Issues}
    <3>1. new \in SUBSET Issues /\ local[j] \notin new
      BY <1>1 DEF Execution
    <3>2. Adopt(i, new)
      BY <1>8, <2>2 DEF CompareCards, TInv, IssuanceTypeOK
    <3>3. new # {} => Newest(new) \in new
      BY <3>1, NewestIsOne
    <3> HIDE DEF new
    <3>4. \/ op' = [op EXCEPT ![i] = Again(i)]
          \/ op' = [op EXCEPT ![i] = Leave(i, Placeholder)]
          \/ new # {} /\ op' = [op EXCEPT ![i] = Leave(i, Newest(new))]
      BY <3>2 DEF Adopt
    <3>5. \/ op'[i] = Again(i) \/ op'[i] = Leave(i, Placeholder)
          \/ new # {} /\ op'[i] = Leave(i, Newest(new))
      BY <1>1, <3>4
    <3>6. new # {} /\ op'[i].card = Newest(new)
      BY <1>1, <2>2, <3>5, Constants DEF Again, Leave, Execution
    <3>7. QED
      BY <3>1, <3>3, <3>6
  <2>3. QED
    BY <1>1, <2>1, <2>2 DEF Takes
<1>9. CASE ProcessSuccessfulCardCreation(i)
  BY <1>1, <1>9 DEF ProcessSuccessfulCardCreation, SaveCard, CreateFeeRow,
     CreateFundingRow, CreateRow, Fault, Goto, Stores, Execution
<1>10. CASE ReadRefund(i) \/ WriteRefund(i)
  BY <1>1, <1>10 DEF ReadRefund, WriteRefund, Fault, Goto, stored, Execution
<1>11. QED
  BY <1>2, <1>3, <1>4, <1>5, <1>6, <1>7, <1>8, <1>9, <1>10
     DEF Step, Proceed, ReserveFundsSecurely, FallbackPolling,
         HandleCardCreationError

LEMMA OverlapStep ==
  ASSUME TInv, OverlapInv, NEW i \in Issues, Step(i)
  PROVE  OverlapInv'
<1>1. /\ Grows(i)
      /\ Starts(i) \/ (i \in InProgress /\ together' = together)
  BY StepGrows, CardMoves DEF Takes, Stores, GoesOn
<1>2. \A j \in Issues \ {i} : j \in InProgress' <=> j \in InProgress
  BY <1>1 DEF Grows, InProgress
<1>3. CASE i \in InProgress /\ together' = together
  BY <1>2, <1>3 DEF OverlapInv, InProgress
<1>4. CASE Starts(i)
  <2>1. i \notin InProgress
    BY <1>4 DEF Starts, InProgress, Over
  <2>2. CASE InProgress = {}
    <3>1. \A j \in InProgress' : j = i
      BY <1>2, <2>2 DEF InProgress
    <3>2. QED
      BY <3>1 DEF OverlapInv
  <2>3. CASE InProgress # {}
    <3>1. together' = together \cup InProgress \cup {i}
      BY <1>4, <2>3 DEF Starts
    <3>2. \A j \in InProgress' : j = i \/ j \in InProgress
      BY <1>2 DEF InProgress
    <3>3. QED
      BY <3>1, <3>2 DEF OverlapInv
  <2>4. QED
    BY <2>2, <2>3
<1>5. QED
  BY <1>1, <1>3, <1>4

LEMMA AdoptStep ==
  ASSUME TInv, OverlapInv, AdoptInv, NEW i \in Issues, Step(i)
  PROVE  AdoptInv'
<1>1. /\ Grows(i)
      /\ Starts(i) \/ (i \in InProgress /\ (Takes(i) \/ Stores(i) \/ GoesOn(i)))
  BY StepGrows, CardMoves
<1>2. /\ \A j \in Issues \ {i} : op'[j] = op[j] /\ local'[j] = local[j]
      /\ \A j \in Issues : j \notin disturbed' => j \notin disturbed
      /\ \A j \in Issues : j \in together => j \in together'
  BY <1>1 DEF Grows
<1>3. CASE Stores(i)
  <2>1. /\ op[i].pc = "save" /\ op'[i].pc = "fee"
        /\ local'[i] = op[i].card /\ i \in InProgress
    BY <1>3 DEF Stores, TInv, IssuanceTypeOK, InProgress, Over
  <2>2. ASSUME NEW j \in Issues \ disturbed', i # j, i \notin disturbed',
               local'[j] = local'[i], local'[i] \in Issues
        PROVE  i \in together' /\ j \in together'
    BY <1>2, <2>1, <2>2 DEF AdoptInv
  <2>3. ASSUME NEW j \in Issues, i # j, op'[j].pc = "save"
        PROVE  i \in together' /\ j \in together'
    <3>1. j \in InProgress
      BY <1>2, <2>3 DEF InProgress, Over
    <3>2. QED
      BY <1>2, <2>1, <2>3, <3>1 DEF OverlapInv
  <2>4. AdoptedOnceUnlessTogether'
    <3> SUFFICES ASSUME NEW j \in Issues \ disturbed',
                        NEW k \in Issues \ disturbed', j # k,
                        local'[j] = local'[k], local'[j] \in Issues
                 PROVE  j \in together' /\ k \in together'
      BY DEF AdoptedOnceUnlessTogether
    <3>1. CASE j = i \/ k = i
      BY <2>2, <3>1
    <3>2. CASE j # i /\ k # i
      BY <1>2, <3>2 DEF AdoptInv, AdoptedOnceUnlessTogether
    <3>3. QED
      BY <3>1, <3>2
  <2>5. ASSUME NEW j \in Issues \ disturbed', NEW k \in Issues \ disturbed',
               j # k, op'[k].pc = "save", local'[j] = op'[k].card,
               op'[k].card \in Issues
        PROVE  j \in together' /\ k \in together'
    <3>1. k # i
      BY <2>1, <2>5
    <3>2. CASE j = i
      BY <2>3, <2>5, <3>1, <3>2
    <3>3. CASE j # i
      BY <1>2, <2>5, <3>1, <3>3 DEF AdoptInv
    <3>4. QED
      BY <3>2, <3>3
  <2>6. QED
    BY <2>4, <2>5 DEF AdoptInv
<1>4. CASE Starts(i) \/ Takes(i) \/ GoesOn(i)
  <2>1. /\ local' = local
        /\ \/ op'[i].pc # "save"
           \/ i \notin disturbed' /\ op'[i].card \in Issues
                 => \A j \in Issues : local[j] # op'[i].card
    BY <1>4 DEF Starts, Takes, GoesOn
  <2>2. AdoptedOnceUnlessTogether'
    BY <1>2, <2>1 DEF AdoptInv, AdoptedOnceUnlessTogether
  <2>3. ASSUME NEW j \in Issues \ disturbed', NEW k \in Issues \ disturbed',
               j # k, op'[k].pc = "save", local'[j] = op'[k].card,
               op'[k].card \in Issues
        PROVE  j \in together' /\ k \in together'
    <3>1. k # i
      BY <2>1, <2>3
    <3>2. QED
      BY <1>2, <2>1, <2>3, <3>1 DEF AdoptInv
  <2>4. QED
    BY <2>2, <2>3 DEF AdoptInv
<1>5. QED
  BY <1>1, <1>3, <1>4

\* Storing a card makes one more.
LEMMA OneMoreHeld ==
  ASSUME TInv, NEW i \in Issues, Stores(i), held' = held
  PROVE  CardsHeld \in Int /\ CardsHeld' = CardsHeld + 1
<1> DEFINE S == {j \in Issues : local[j] # NoCard}
           T == {j \in Issues : local'[j] # NoCard}
<1>1. local[i] = NoCard /\ op[i].card # NoCard
  BY DEF TInv, Stands, Stores
<1>2. T = S \cup {i} /\ i \notin S
  BY <1>1 DEF Stores, TInv, IssuanceTypeOK
<1>3. IsFiniteSet(S)
  BY Constants, FS_Subset
<1> HIDE DEF S, T
<1>4. Cardinality(S) \in Nat /\ Cardinality(T) = Cardinality(S) + 1
  BY <1>2, <1>3, FS_AddElement, FS_CardinalityType
<1>5. CardsHeld = held + Cardinality(S) /\ CardsHeld' = held + Cardinality(T)
  BY DEF CardsHeld, S, T
<1>6. held \in Int
  BY DEF TInv, IssuanceTypeOK
<1>7. QED
  BY <1>4, <1>5, <1>6

LEMMA LimitStep ==
  ASSUME TInv, OverlapInv, LimitInv, NEW i \in Issues, Step(i)
  PROVE  LimitInv'
<1> SUFFICES ASSUME together' = {}, ~ uncounted'
             PROVE  /\ CardsHeld' <= CardLimit
                    /\ \A j \in InProgress' :
                          local'[j] = NoCard => CardsHeld' < CardLimit
  BY DEF LimitInv
<1>1. /\ Grows(i) /\ held' = held
      /\ Starts(i) \/ (i \in InProgress /\ (Takes(i) \/ Stores(i) \/ GoesOn(i)))
  BY StepGrows, CardMoves
<1>2. /\ \A j \in Issues \ {i} : op'[j] = op[j] /\ local'[j] = local[j]
      /\ together = {} /\ ~ uncounted
      /\ \A j \in InProgress' : j = i \/ j \in InProgress
  BY <1>1 DEF Grows, InProgress
<1>3. /\ CardsHeld <= CardLimit
      /\ \A j \in InProgress : local[j] = NoCard => CardsHeld < CardLimit
      /\ \A j, k \in InProgress : j = k
  BY <1>2 DEF LimitInv, OverlapInv
<1>4. CASE Stores(i) /\ i \in InProgress
  <2>1. CardsHeld \in Int /\ CardsHeld' = CardsHeld + 1
    BY <1>1, <1>4, OneMoreHeld
  <2>2. local[i] = NoCard /\ local'[i] # NoCard
    BY <1>4 DEF Stores, TInv, Stands, IssuanceTypeOK
  <2>3. CardsHeld < CardLimit
    BY <1>3, <1>4, <2>2
  <2>4. \A j \in InProgress' : j = i
    BY <1>2, <1>3, <1>4
  <2>5. QED
    BY <2>1, <2>2, <2>3, <2>4, Constants
<1>5. CASE Starts(i)
  <2>1. CardsHeld' = CardsHeld
    BY <1>1, <1>5 DEF Starts, CardsHeld
  <2>2. InProgress = {}
    BY <1>5 DEF Starts
  <2>3. i \in InProgress' => CardsHeld < CardLimit
    BY <1>5 DEF Starts, InProgress, Over
  <2>4. QED
    BY <1>2, <1>3, <2>1, <2>2, <2>3
<1>6. CASE (Takes(i) \/ GoesOn(i)) /\ i \in InProgress
  <2>1. CardsHeld' = CardsHeld /\ local' = local
    BY <1>1, <1>6 DEF Takes, GoesOn, CardsHeld
  <2>2. QED
    BY <1>2, <1>3, <1>6, <2>1
<1>7. QED
  BY <1>1, <1>4, <1>5, <1>6

LEMMA NextCards == TInv /\ CardsInv /\ [IssuanceNext]_ivars => CardsInv'
<1> SUFFICES ASSUME TInv, CardsInv, [IssuanceNext]_ivars PROVE CardsInv'
  OBVIOUS
<1>1. ASSUME NEW i \in Issues, Step(i) PROVE CardsInv'
  BY <1>1, OverlapStep, AdoptStep, LimitStep DEF CardsInv
<1>2. CASE Elsewhere
  <2>1. /\ UNCHANGED <<local, held, disturbed, together, uncounted>>
        /\ \A j \in Issues : op'[j].pc = "save" => op'[j] = op[j]
        /\ InProgress' \subseteq InProgress
    BY <1>2 DEF Elsewhere, past, InProgress, Over
  <2>2. OverlapInv'
    BY <2>1 DEF CardsInv, OverlapInv
  <2>3. AdoptInv'
    BY <2>1 DEF CardsInv, AdoptInv, AdoptedOnceUnlessTogether
  <2>4. CardsHeld' = CardsHeld
    BY <2>1 DEF CardsHeld
  <2>5. LimitInv'
    BY <2>1, <2>4 DEF CardsInv, LimitInv
  <2>6. QED
    BY <2>2, <2>3, <2>5 DEF CardsInv
<1>3. QED
  BY <1>1, <1>2, StepsElsewhere

LEMMA AlwaysCardsInv == IssuanceSpec => []CardsInv
<1>1. Behaviour => []CardsInv
  BY InitTInv, NextTInv, InitCards, NextCards, PTL DEF Behaviour
<1>2. IssuanceSpec => Behaviour
  BY PTL DEF IssuanceSpec, Behaviour
<1>3. QED
  BY <1>1, <1>2, PTL

\* For any issuances: two undisturbed ones that stored the same card of the
\* provider overlapped, although polling takes any card of the customer
\* (fallbackPolling and checkForNewCustomerCards).
THEOREM AdoptedOnce == IssuanceSpec => []AdoptedOnceUnlessTogether
<1>1. CardsInv => AdoptedOnceUnlessTogether
  BY DEF CardsInv, AdoptInv
<1>2. QED
  BY <1>1, AlwaysCardsInv, PTL

\* For any limit and any issuances that never overlapped: a customer whose
\* cards could be counted has no more of them than allowed.
THEOREM CardsWithinLimit == IssuanceSpec => []WithinLimitUnlessTogether
<1>1. CardsInv => WithinLimitUnlessTogether
  BY DEF CardsInv, LimitInv, WithinLimitUnlessTogether
<1>2. QED
  BY <1>1, AlwaysCardsInv, PTL
=============================================================================
