------------------------------ MODULE CardSync ------------------------------
(***************************************************************************)
(* How the local customers and cards are brought in line with Maplerad:    *)
(* customers are matched by e-mail, whatever company they belong to, and   *)
(* the provider's cards of a matched customer are stored when they are     *)
(* not.  Syncs run beside each other, beside issuances that have a card    *)
(* made but not yet stored, and beside changes of e-mail addresses.        *)
(*                                                                         *)
(* A customer of the provider is named by the address it was enrolled      *)
(* with.  What a sync does to the cards that are stored is CardLifecycle;  *)
(* here a card is only there or not.                                       *)
(***************************************************************************)
EXTENDS Naturals, FiniteSets

CONSTANTS
    Customers,
    CompanyOf,    \* the company of each customer
    Addresses,    \* e-mail addresses, in lower case
    MapleradCards, \* cards the provider may make
    Runs,         \* syncs at a time
    Nobody,       \* no address, no customer, no company
    MaxCalls,     \* bound: syncs started
    MaxChanges,   \* bound: e-mail addresses changed
    MaxTroubles   \* bound: failed calls and ends of the process

Companies == {CompanyOf[c] : c \in Customers}

ASSUME CardSyncAssumption ==
    /\ IsFiniteSet(Customers)
    /\ Nobody \notin Addresses \cup Customers \cup Companies
    /\ MaxCalls \in Nat /\ MaxChanges \in Nat /\ MaxTroubles \in Nat

VARIABLES
    email,     \* Customer.email; Nobody before the customer is created
    mapping,   \* the provider's customer each customer stands for
    enrolled,  \* the provider's customers
    holder,    \* the provider's cards: the customer of the provider
    shown,     \* the cards whose number the provider's list shows
    issuing,   \* cards made for a customer and not stored yet
    rows,      \* the table of cards
    recent,    \* companies whose customers were synced within the hour
    job,       \* the syncs
    met,       \* history: cards a sync met before their issuance stored them
    stoodFor,  \* history: the customers each of the provider's stood for
    seen,      \* history: cards that an undisturbed sync found
    due,       \* history: who the last recorded sync of a company had to map
    calls, changes, troubles

local == <<email, mapping, rows, recent>>
provider == <<enrolled, holder, shown>>
history == <<met, stoodFor, seen, due>>
bounds == <<calls, changes, troubles>>
csvars == <<local, provider, issuing, job, history, bounds>>

\* What the row of a card holds as its number, which is unique: the number
\* in a signed token of the second, the number itself, or three stars.
Numbers == {"signed", "listed", "masked"}
Rows == [of : Customers, card : MapleradCards, number : Numbers]

Idle == [pc |-> "idle", for |-> Nobody, at |-> Nobody, found |-> {},
         todo |-> {}, knew |-> {}, hurt |-> FALSE,
         read |-> [c \in Customers |-> Nobody]]

CardSyncTypeOK ==
    /\ email \in [Customers -> Addresses \cup {Nobody}]
    /\ mapping \in [Customers -> Addresses \cup {Nobody}]
    /\ enrolled \subseteq Addresses /\ shown \subseteq MapleradCards
    /\ holder \in [MapleradCards -> Addresses \cup {Nobody}]
    /\ issuing \in [MapleradCards -> Customers \cup {Nobody}]
    /\ rows \subseteq Rows /\ recent \subseteq Companies
    /\ \A r \in Runs :
          /\ job[r].pc \in {"idle", "fetch", "local", "create",
                            "ask", "read", "map"}
          /\ job[r].for \in Customers \cup Companies \cup {Nobody}
          /\ job[r].at \in Addresses \cup {Nobody}
          /\ job[r].hurt \in BOOLEAN
    /\ met \subseteq MapleradCards /\ seen \subseteq MapleradCards
    /\ stoodFor \in [Addresses -> SUBSET Customers]
    /\ due \in [Companies -> SUBSET Customers]
    /\ calls \in 0..MaxCalls /\ changes \in 0..MaxChanges
    /\ troubles \in 0..MaxTroubles

CardSyncInit ==
    /\ email = [c \in Customers |-> Nobody]
    /\ mapping = [c \in Customers |-> Nobody] /\ enrolled = {}
    /\ holder = [k \in MapleradCards |-> Nobody]
    /\ shown \in SUBSET MapleradCards
    /\ issuing = [k \in MapleradCards |-> Nobody] /\ rows = {} /\ recent = {}
    /\ job = [r \in Runs |-> Idle]
    /\ met = {} /\ seen = {}
    /\ stoodFor = [a \in Addresses |-> {}]
    /\ due = [x \in Companies |-> {}]
    /\ calls = 0 /\ changes = 0 /\ troubles = 0

-----------------------------------------------------------------------------
Done(r) == job' = [job EXCEPT ![r] = Idle]
Trouble == troubles < MaxTroubles /\ troubles' = troubles + 1

Starts(r) ==
    /\ job[r].pc = "idle" /\ calls < MaxCalls
    /\ calls' = calls + 1 /\ UNCHANGED <<changes, troubles>>

CustomersOf(company) ==
    {c \in Customers : CompanyOf[c] = company /\ email[c] # Nobody}

\* getByCustomerAndProvider, getOne: what a mapping is looked up with.
Unmapped(c) == mapping[c] = Nobody

\* CustomerProviderMappingModel.upsert.
Map(c, a) ==
    /\ mapping' = [mapping EXCEPT ![c] = a]
    /\ stoodFor' = [stoodFor EXCEPT ![a] = @ \cup {c}]

\* CustomerProviderMappingModel.create: a second one is refused.
CreateMapping(c, a) == Unmapped(c) /\ Map(c, a)

\* The unique index on Card.number refuses a row.
Taken(row) ==
    \E x \in rows : /\ x.number = row.number
                    /\ x.number = "masked" \/ x.card = row.card

(***************************************************************************)
(* Issuances and customers, as far as a sync meets them                    *)
(***************************************************************************)

\* The customer's row is made, or written.  The unique index is on the address
\* as it was typed: two customers of a company may have one in lower case.
InsertCustomer(c, a) == email[c] = Nobody /\ email' = [email EXCEPT ![c] = a]
UpdateCustomer(c, a) == email[c] # Nobody /\ email' = [email EXCEPT ![c] = a]

\* create: documents and names are left out, and so is the limit on the
\* customers of a company in the preproduction mode.
CreateCustomer(c, a) ==
    /\ InsertCustomer(c, a)
    /\ UNCHANGED <<mapping, rows, recent, provider, issuing, job, history,
                   bounds>>

\* createCustomer of the provider: it refuses an address it knows.
Enroll(c) ==
    /\ email[c] \notin enrolled
    /\ enrolled' = enrolled \cup {email[c]}

\* ensureMapleradCustomer, by an issuance or when the customer is created: a
\* customer without mapping is enrolled, and the result of storing the
\* mapping is not looked at.
EnsureMapleradCustomer(c) ==
    /\ email[c] # Nobody /\ Unmapped(c) /\ Enroll(c)
    /\ \/ CreateMapping(c, email[c]) /\ UNCHANGED troubles
       \/ Trouble /\ UNCHANGED <<mapping, stoodFor>>
    /\ UNCHANGED <<email, rows, recent, holder, shown, issuing, job,
                   met, seen, due, calls, changes>>

\* The provider makes a card for a customer that is mapped.
MakeCard(c, k) ==
    /\ ~Unmapped(c) /\ holder[k] = Nobody
    /\ holder' = [holder EXCEPT ![k] = mapping[c]]
    /\ issuing' = [issuing EXCEPT ![k] = c]
    /\ UNCHANGED <<local, enrolled, shown, job, history, bounds>>

\* createLocalCardRecord of the issuance signs the number: no two of its rows
\* hold the same.  An issuance that is cut short leaves its card without row.
StoreIssued(k) ==
    /\ issuing[k] # Nobody
    /\ \/ /\ rows' = rows \cup
                       {[of |-> issuing[k], card |-> k, number |-> "signed"]}
          /\ UNCHANGED troubles
       \/ Trouble /\ UNCHANGED rows
    /\ issuing' = [issuing EXCEPT ![k] = Nobody]
    /\ UNCHANGED <<email, mapping, recent, provider, job, history, calls,
                   changes>>

\* update: the mapping is left as it is.
ChangeEmail(c, a) ==
    /\ changes < MaxChanges /\ email[c] # a
    /\ changes' = changes + 1
    /\ UpdateCustomer(c, a)
    /\ UNCHANGED <<mapping, rows, recent, provider, issuing, job, history,
                   calls, troubles>>

(***************************************************************************)
(* syncCustomerCards                                                       *)
(***************************************************************************)

\* The customer's mapping is read.  Without one no card is asked for.
Begin(j, c) ==
    [j EXCEPT !.pc = IF Unmapped(c) THEN "local" ELSE "fetch",
              !.for = c, !.at = mapping[c]]

SyncCustomerCards(r, c) ==
    /\ Starts(r) /\ email[c] # Nobody
    /\ job' = [job EXCEPT ![r] = Begin(@, c)]
    /\ UNCHANGED <<local, provider, issuing, history>>

\* getCustomerCards, findCustomerCards: a list of cards asked for with a sync;
\* one that fails leaves the list as it is stored.
GetCustomerCards(r, c) == SyncCustomerCards(r, c)

\* syncCompanyCards: the customers of the company that have cards, a batch
\* at a time beside each other.  An error ends the sync of one customer only.
SyncCompanyCards(company) ==
    LET with == {x.of : x \in rows} \cap
                {c \in Customers : CompanyOf[c] = company} IN
    /\ calls < MaxCalls /\ Cardinality(with) > 1
    /\ \E run \in [with -> {r \in Runs : job[r].pc = "idle"}] :
          /\ \A c, d \in with : run[c] = run[d] => c = d
          /\ job' = [r \in Runs |->
                       IF \E c \in with : run[c] = r
                       THEN Begin(job[r], CHOOSE c \in with : run[c] = r)
                       ELSE job[r]]
    /\ calls' = calls + 1
    /\ UNCHANGED <<local, provider, issuing, history, changes, troubles>>

\* getCompanyCards: the list of a company's cards, asked for with a sync.
GetCompanyCards(company) == SyncCompanyCards(company)

\* getAllCards: a call that fails is an empty list.
GetAllCards(customer, found) ==
    \/ /\ found = {k \in MapleradCards : holder[k] = customer}
       /\ UNCHANGED troubles
    \/ found = {} /\ Trouble

FetchCards(r) ==
    /\ job[r].pc = "fetch"
    /\ \E found \in SUBSET MapleradCards :
          /\ GetAllCards(job[r].at, found)
          /\ job' = [job EXCEPT ![r].pc = "local", ![r].found = found]
          /\ met' = met \cup {k \in found : issuing[k] # Nobody}
    /\ UNCHANGED <<local, provider, issuing, stoodFor, seen, due, calls,
                   changes>>

\* Mutant: what is stored already is not looked up.
ReadLocalCardsNot(r) ==
    /\ job[r].pc = "local"
    /\ \/ /\ job' = [job EXCEPT ![r].pc = "create", ![r].todo = job[r].found]
          /\ UNCHANGED troubles
       \/ Trouble /\ Done(r)
    /\ UNCHANGED <<local, provider, issuing, history, calls, changes>>

\* The customer's cards are read; an error ends the sync.
ReadLocalCards(r) ==
    /\ job[r].pc = "local"
    /\ \/ /\ job' = [job EXCEPT
                       ![r].pc = "create",
                       ![r].todo = job[r].found \
                           {x.card : x \in {y \in rows : y.of = job[r].for}}]
          /\ UNCHANGED troubles
       \/ Trouble /\ Done(r)
    /\ UNCHANGED <<local, provider, issuing, history, calls, changes>>

Row(r, k) == [of |-> job[r].for, card |-> k,
              number |-> IF k \in shown THEN "listed" ELSE "masked"]

\* Mutant: a row that is refused ends the loop.
CreateMissingCardOrStop(r, k) ==
    /\ job[r].pc = "create" /\ k \in job[r].todo
    /\ IF Taken(Row(r, k)) THEN UNCHANGED rows ELSE rows' = rows \cup {Row(r, k)}
    /\ job' = [job EXCEPT ![r].todo = IF Taken(Row(r, k)) THEN {} ELSE @ \ {k}]
    /\ UNCHANGED <<email, mapping, recent, provider, issuing, history, bounds>>

\* One missing card after the other is stored; an error concerns one card.
CreateMissingCard(r, k) ==
    /\ job[r].pc = "create" /\ k \in job[r].todo
    /\ \/ /\ rows' = IF Taken(Row(r, k)) THEN rows ELSE rows \cup {Row(r, k)}
          /\ job' = [job EXCEPT ![r].todo = @ \ {k}]
          /\ UNCHANGED troubles
       \/ /\ Trouble
          /\ job' = [job EXCEPT ![r].todo = @ \ {k}, ![r].hurt = TRUE]
          /\ UNCHANGED rows
    /\ UNCHANGED <<email, mapping, recent, provider, issuing, history, calls,
                   changes>>

\* Every card of the customer is compared with the provider's and updated.
FinishCards(r) ==
    /\ job[r].pc = "create" /\ job[r].todo = {}
    /\ seen' = IF job[r].hurt THEN seen ELSE seen \cup job[r].found
    /\ Done(r)
    /\ UNCHANGED <<local, provider, issuing, met, stoodFor, due, bounds>>

(***************************************************************************)
(* syncCustomers                                                           *)
(***************************************************************************)

\* A company that was synced within the hour is skipped (a failing read of the
\* last sync, which counts as none, is left out).
NeedsSync(company) == company \notin recent

SyncCustomers(r, company) ==
    /\ Starts(r)
    /\ job' = [job EXCEPT ![r].pc = "ask", ![r].for = company]
    /\ UNCHANGED <<local, provider, issuing, history>>

\* findAllByCompany: the list of customers, asked for with a sync; one that
\* fails leaves the list as it is stored.
FindAllByCompany(r, company) ==
    NeedsSync(company) /\ SyncCustomers(r, company)

\* The same list with the number of cards of each customer.
FindAllCustomersWithCardCountByCompany(r, company) ==
    FindAllByCompany(r, company)

\* The provider refused to enroll a customer it knows: the sync is forced.
SyncAlreadyEnrolled(r, company) ==
    /\ \E c \in CustomersOf(company) : Unmapped(c) /\ email[c] \in enrolled
    /\ SyncCustomers(r, company)

\* Mutant: a call that fails is a list without customers, and the sync goes on.
AskCustomersOnError(r) ==
    /\ job[r].pc = "ask"
    /\ \/ /\ job' = [job EXCEPT ![r].pc = "read", ![r].found = enrolled,
                                ![r].knew = enrolled]
          /\ UNCHANGED troubles
       \/ /\ Trouble
          /\ job' = [job EXCEPT ![r].pc = "read", ![r].knew = enrolled]
    /\ UNCHANGED <<local, provider, issuing, history, calls, changes>>

\* getCustomers: a call that fails is an empty list.
GetCustomers(found) ==
    \/ found = enrolled /\ UNCHANGED troubles
    \/ found = {} /\ Trouble

\* An empty list ends the sync.
AskCustomers(r) ==
    /\ job[r].pc = "ask"
    /\ \E found \in SUBSET enrolled :
          /\ GetCustomers(found)
          /\ IF found = {}
             THEN Done(r)
             ELSE job' = [job EXCEPT ![r].pc = "read", ![r].found = found,
                                     ![r].knew = found]
    /\ UNCHANGED <<local, provider, issuing, history, calls, changes>>

\* The customers of the company, with their addresses; an error ends the sync.
ReadLocalCustomers(r) ==
    /\ job[r].pc = "read"
    /\ \/ /\ job' = [job EXCEPT
                       ![r].pc = "map", ![r].read = email,
                       ![r].todo = CustomersOf(job[r].for)]
          /\ UNCHANGED troubles
       \/ Trouble /\ Done(r)
    /\ UNCHANGED <<local, provider, issuing, history, calls, changes>>

\* The customers the provider listed, by address.
Matched(r, c) == job[r].read[c] \in job[r].found

\* A customer whose address the provider listed is mapped.
MapOneCustomer(r, c) ==
    /\ job[r].pc = "map" /\ c \in job[r].todo
    /\ IF Matched(r, c) THEN Map(c, job[r].read[c])
       ELSE UNCHANGED <<mapping, stoodFor>>
    /\ job' = [job EXCEPT ![r].todo = @ \ {c}]
    /\ UNCHANGED <<email, rows, recent, provider, issuing, met, seen, due,
                   bounds>>

\* An error concerns one customer.
FailOneCustomer(r, c) ==
    /\ job[r].pc = "map" /\ c \in job[r].todo /\ Matched(r, c)
    /\ Trouble
    /\ job' = [job EXCEPT ![r].todo = @ \ {c}, ![r].read[c] = Nobody]
    /\ UNCHANGED <<local, provider, issuing, history, calls, changes>>

\* syncCustomerMappingsWithMaplerad: a batch of customers beside each other.
SyncCustomerMappings(r) ==
    \E c \in Customers : MapOneCustomer(r, c) \/ FailOneCustomer(r, c)

\* ProviderSyncMetadataModel.upsert: the time of the sync.
UpsertSyncDate(company) == recent' = recent \cup {company}

\* updateSyncMetadata: an error is ignored.
UpdateSyncMetadata(r, company) ==
    \/ /\ UpsertSyncDate(company)
       /\ due' = [due EXCEPT ![company] =
                    {c \in Customers : /\ CompanyOf[c] = company
                                       /\ job[r].read[c] \in job[r].knew}]
       /\ UNCHANGED troubles
    \/ Trouble /\ UNCHANGED <<recent, due>>

\* The sync is recorded whether some customers failed or not.
RecordCustomers(r) ==
    /\ job[r].pc = "map" /\ job[r].todo = {}
    /\ UpdateSyncMetadata(r, job[r].for)
    /\ Done(r)
    /\ UNCHANGED <<email, mapping, rows, provider, issuing, met, stoodFor,
                   seen, calls, changes>>

-----------------------------------------------------------------------------
HourPasses(company) ==
    /\ company \in recent
    /\ recent' = recent \ {company}
    /\ UNCHANGED <<email, mapping, rows, provider, issuing, job, history,
                   bounds>>

\* The process ends, and with it every sync and every issuance.
ProcessEnds ==
    /\ Trouble
    /\ job' = [r \in Runs |-> Idle]
    /\ issuing' = [k \in MapleradCards |-> Nobody]
    /\ UNCHANGED <<local, provider, history, calls, changes>>

CardSyncNext ==
    \/ \E c \in Customers :
          \/ EnsureMapleradCustomer(c)
          \/ \E k \in MapleradCards : MakeCard(c, k)
          \/ \E a \in Addresses : CreateCustomer(c, a) \/ ChangeEmail(c, a)
    \/ \E k \in MapleradCards : StoreIssued(k)
    \/ \E r \in Runs :
          \/ \E c \in Customers : GetCustomerCards(r, c)
          \/ FetchCards(r) \/ ReadLocalCards(r)
          \/ \E k \in MapleradCards : CreateMissingCard(r, k)
          \/ FinishCards(r)
          \/ \E x \in Companies :
                \/ FindAllByCompany(r, x)
                \/ FindAllCustomersWithCardCountByCompany(r, x)
                \/ SyncAlreadyEnrolled(r, x)
          \/ AskCustomers(r) \/ ReadLocalCustomers(r)
          \/ SyncCustomerMappings(r)
          \/ RecordCustomers(r)
    \/ \E x \in Companies : GetCompanyCards(x) \/ HourPasses(x)
    \/ ProcessEnds

CardSyncSpec == CardSyncInit /\ [][CardSyncNext]_csvars

(***************************************************************************)
(* Properties                                                              *)
(***************************************************************************)

RowsOf(k) == {x \in rows : x.card = k}

\* A card has two rows only when a sync met it between its making and its
\* storing, or when its holder at the provider has stood for two customers.
CardStoredOnceUnlessShared ==
    \A k \in MapleradCards : Cardinality(RowsOf(k)) > 1
       => k \in met \/ Cardinality(stoodFor[holder[k]]) > 1

\* A card that an undisturbed sync found is stored when the sync is over,
\* unless its number was not listed and another such card has the one place
\* the unique index leaves for them.
FoundIsStored ==
    \A k \in seen : \/ RowsOf(k) # {}
                    \/ k \notin shown /\ \E x \in rows : x.number = "masked"

\* The rows of the provider's cards are neither missing nor doubled
\* (card.sync.service.ts:226): the two parts above.
FoundIsStoredOnce == CardStoredOnceUnlessShared /\ FoundIsStored

\* While a company is skipped because it was synced within the hour, each of
\* its customers that the provider knew when that sync asked is mapped,
\* unless storing the mapping failed (card.sync.service.ts:407, :1414).
RecentMeansMapped ==
    \A x \in recent : \A c \in due[x] : mapping[c] # Nobody
=============================================================================
