----------------------------- MODULE Onboarding -----------------------------
(***************************************************************************)
(* How a company comes to be: registration at once or in two steps, the    *)
(* second of which never succeeds, invitations into a company, the         *)
(* documents its owner hands in and their review, and the onboarding steps *)
(* that tell how far it is.                                                *)
(*                                                                         *)
(* The database transactions of the registrations are commented out: each  *)
(* write stands alone, and another request, an error or the end of the     *)
(* process may come between any two.  A request that is refused on its     *)
(* first reads is no step.  Papers belong to a user (KYC) or to a company  *)
(* (KYB).                                                                  *)
(***************************************************************************)
EXTENDS WebRequests, Integers, Sequences, FiniteSets

CONSTANTS
    Emails,         \* e-mail addresses, one user each
    MaxCompanies    \* bound: companies created

ASSUME OnboardingAssumption ==
    "none" \notin Emails /\ MaxCompanies \in Nat \ {0}

VARIABLES
    companies,  \* rows of companies, with their wallets and steps
    users,      \* status of the users
    members,    \* rows of user_company_roles: <<email, company, role>>
    roleRows,   \* names in the table roles
    papers,     \* kyc_status and kyb_status, and the documents handed in
    reviewed,   \* history: the documents the last approval rests on
    crossed,    \* history: subjects decided on after new documents came in
    parted      \* history: e-mails whose requests overlapped or were cut short

onboardingvars == <<companies, users, members, roleRows, papers, req, reviewed,
                    crossed, parted, calls, troubles>>

CompanyIds == 1..MaxCompanies
NoCompany == 0
Subjects == Emails \cup CompanyIds
Currencies == {"local", "USD"}
Slugs == {"profile_completion", "kyb_completion"}
StepStatus == {"absent", "open", "COMPLETED"}
Roles == {"owner", "member"}
Decisions == {"APPROVED", "REJECTED"}

Idle == [pc |-> "idle", kind |-> "none", email |-> "none",
         company |-> NoCompany, seen |-> 0, value |-> "none"]

OnboardingTypeOK ==
    /\ companies \in Seq([by : Emails, email : Emails \cup {"none"},
                          step : Nat, wallets : [Currencies -> Nat],
                          priced : {"no", "partly", "yes"},
                          steps : [Slugs -> StepStatus]])
    /\ Len(companies) <= MaxCompanies
    /\ users \in [Emails -> {"none", "PENDING", "ACTIVE"}]
    /\ members \in Seq(Emails \X CompanyIds \X Roles)
    /\ roleRows \subseteq Roles
    /\ papers \in [Subjects -> [status : {"NONE", "PENDING"} \cup Decisions,
                                docs : Nat]]
    /\ \A r \in Requests :
          /\ req[r].company \in 0..Len(companies)
          /\ req[r].email \in Emails \cup {"none"}
    /\ reviewed \in [Subjects -> Nat] /\ crossed \subseteq Subjects
    /\ parted \subseteq Emails
    /\ calls \in 0..MaxCalls /\ troubles \in 0..MaxTroubles

NewCompany(e, email) ==
    [by |-> e, email |-> email, step |-> 1,
     wallets |-> [k \in Currencies |-> 0], priced |-> "no",
     steps |-> [g \in Slugs |-> "absent"]]

\* Nobody is there yet, or one company has been registered at once.
OnboardingInit ==
    /\ \/ companies = <<>> /\ members = <<>> /\ roleRows = {}
          /\ users = [e \in Emails |-> "none"]
       \/ \E e \in Emails :
             /\ companies = <<[NewCompany(e, e) EXCEPT
                                !.wallets = [k \in Currencies |-> 1],
                                !.priced = "yes",
                                !.steps = [g \in Slugs |-> "open"]]>>
             /\ members = << <<e, 1, "owner">> >> /\ roleRows = {"owner"}
             /\ users = [x \in Emails |-> IF x = e THEN "ACTIVE" ELSE "none"]
    /\ papers = [s \in Subjects |-> [status |-> "NONE", docs |-> 0]]
    /\ req = [r \in Requests |-> Idle]
    /\ reviewed = [s \in Subjects |-> 0] /\ crossed = {}
    /\ parted = {}
    /\ calls = 0 /\ troubles = 0

-----------------------------------------------------------------------------
people == <<users, members, roleRows>>
reviews == <<papers, reviewed, crossed>>

Done(r) == req' = [req EXCEPT ![r] = Idle]

Begins(r, call) ==
    /\ req[r].pc = "idle" /\ calls < MaxCalls
    /\ calls' = calls + 1
    /\ req' = [req EXCEPT ![r] = call]

\* Where the rows of a company and those of a user are, and the first of them.
MembersOf(c) == {i \in DOMAIN members : members[i][2] = c}
RowsOf(e) == {i \in DOMAIN members : members[i][1] = e}
First(rows) == members[CHOOSE i \in rows : \A j \in rows : i <= j]
Taken(email) == \E c \in DOMAIN companies : companies[c].email = email

\* History: requests about e-mail e that are under way at the same time.
Parts(e) ==
    parted' = IF \E r \in Requests : req[r].email = e THEN parted \cup {e}
              ELSE parted

(***************************************************************************)
(* Registration                                                            *)
(***************************************************************************)
\* Mutant: only the company's own e-mail is looked for.
AtOnceUnchecked(r, e) ==
    /\ ~Taken(e)
    /\ Begins(r, [Idle EXCEPT !.pc = "company", !.kind = "atonce", !.email = e])
    /\ Parts(e)
    /\ UNCHANGED <<companies, people, reviews, troubles>>

CreateCompanyUser(r, e) ==
    /\ users[e] = "none" /\ ~Taken(e)
    /\ Begins(r, [Idle EXCEPT !.pc = "company", !.kind = "atonce", !.email = e])
    /\ Parts(e)
    /\ UNCHANGED <<companies, people, reviews, troubles>>

\* Mutant: an existing user is not looked for.
RegisterUnchecked(r, e) ==
    /\ Begins(r, [Idle EXCEPT !.pc = "company", !.kind = "personal", !.email = e])
    /\ Parts(e)
    /\ UNCHANGED <<companies, people, reviews, troubles>>

\* A user that is in no company passes for new.
RegisterPersonalInfo(r, e) ==
    /\ users[e] = "none" \/ RowsOf(e) = {}
    /\ Begins(r, [Idle EXCEPT !.pc = "company", !.kind = "personal", !.email = e])
    /\ Parts(e)
    /\ UNCHANGED <<companies, people, reviews, troubles>>

CreateCompany(r) ==
    LET e == req[r].email
        atonce == req[r].kind = "atonce"
    IN  /\ req[r].pc = "company"
        /\ \/ atonce /\ Taken(e) /\ Done(r) /\ UNCHANGED companies
           \/ /\ ~(atonce /\ Taken(e)) /\ Len(companies) < MaxCompanies
              /\ companies' = Append(companies,
                                NewCompany(e, IF atonce THEN e ELSE "none"))
              /\ req' = [req EXCEPT ![r].pc = "user",
                                    ![r].company = Len(companies) + 1]
        /\ UNCHANGED <<people, reviews, parted, calls, troubles>>

\* The e-mail of a user is unique.
CreateUser(r) ==
    LET e == req[r].email
    IN  /\ req[r].pc = "user"
        /\ \/ users[e] # "none" /\ Done(r) /\ UNCHANGED users
           \/ /\ users[e] = "none"
              /\ users' = [users EXCEPT ![e] = IF req[r].kind = "invite"
                                               THEN "PENDING" ELSE "ACTIVE"]
              /\ Goto(r, "role")
        /\ UNCHANGED <<companies, members, roleRows, reviews, parted, calls,
                       troubles>>

RoleOf(r) == IF req[r].kind = "invite" THEN "member" ELSE "owner"

ReadRole(r) ==
    /\ req[r].pc = "role"
    /\ Goto(r, IF RoleOf(r) \in roleRows THEN "member" ELSE "newrole")
    /\ UNCHANGED <<companies, people, reviews, parted, calls, troubles>>

\* The name of a role is unique: the second of two that create it fails.
CreateRole(r) ==
    /\ req[r].pc = "newrole"
    /\ IF RoleOf(r) \in roleRows
       THEN Done(r) /\ parted' = parted \cup {req[r].email}
       ELSE Goto(r, "member") /\ UNCHANGED parted
    /\ roleRows' = roleRows \cup {RoleOf(r)}
    /\ UNCHANGED <<companies, users, members, reviews, calls, troubles>>

\* After an invitation is only mailed, and a failed mail is only logged.
CreateMember(r) ==
    LET row == <<req[r].email, req[r].company, RoleOf(r)>>
    IN  /\ req[r].pc = "member"
        /\ IF \E i \in DOMAIN members : members[i] = row
           THEN Done(r) /\ UNCHANGED members
           ELSE /\ members' = Append(members, row)
                /\ IF req[r].kind = "atonce" THEN Goto(r, "wallets") ELSE Done(r)
        /\ UNCHANGED <<companies, users, roleRows, reviews, parted, calls,
                       troubles>>

\* Two wallets are created together; errors of the model are not looked at.
CreateWallets(r) ==
    LET c == req[r].company
    IN  /\ req[r].pc = "wallets"
        /\ \E made \in SUBSET Currencies :
              /\ IF made = Currencies THEN UNCHANGED troubles ELSE Trouble
              /\ companies' = [companies EXCEPT ![c].wallets =
                    [k \in Currencies |-> @[k] + IF k \in made THEN 1 ELSE 0]]
        /\ Goto(r, "prices")
        /\ UNCHANGED <<people, reviews, parted, calls>>

\* The default rate and fees, one by one until one fails, which is logged.
CreatePrices(r) ==
    /\ req[r].pc = "prices"
    /\ \E priced \in {"partly", "yes"} :
          /\ IF priced = "yes" THEN UNCHANGED troubles ELSE Trouble
          /\ companies' = [companies EXCEPT ![req[r].company].priced = priced]
    /\ Goto(r, "steps")
    /\ UNCHANGED <<people, reviews, parted, calls>>

\* The second step looks at the first one only, then uploads its files.
RegisterBusinessInfo(r, c) ==
    /\ companies[c].step = 1
    /\ Begins(r, [Idle EXCEPT !.pc = "business", !.kind = "business",
                              !.company = c])
    /\ UNCHANGED <<companies, people, reviews, parted, troubles>>

\* Its update names the required country_of_operation, which is no column of
\* companies: the database refuses it, every time, and the request throws
\* before it comes to the owner's step, the wallets and the prices.
WriteBusinessInfo(r) ==
    /\ req[r].pc = "business"
    /\ Done(r)
    /\ UNCHANGED <<companies, people, reviews, parted, calls, troubles>>

\* An owner invites into the first of the owner's companies.
CreateUserByOwner(r, o, e) ==
    /\ \E i \in DOMAIN members : members[i][1] = o /\ members[i][3] = "owner"
    /\ LET c == First(RowsOf(o))[2]
       IN  /\ \A i \in DOMAIN members : <<members[i][1], members[i][2]>> # <<e, c>>
           /\ Begins(r, [Idle EXCEPT !.pc = IF users[e] = "none" THEN "user"
                                            ELSE "role",
                                     !.kind = "invite", !.email = e,
                                     !.company = c])
    /\ Parts(e)
    /\ UNCHANGED <<companies, people, reviews, troubles>>

(***************************************************************************)
(* Onboarding steps                                                        *)
(***************************************************************************)
InitializeOnboardingSteps(r, c) ==
    /\ Begins(r, [Idle EXCEPT !.pc = "steps", !.kind = "steps", !.company = c])
    /\ UNCHANGED <<companies, people, reviews, parted, troubles>>

StepsAbsent(c) == \A g \in Slugs : companies[c].steps[g] = "absent"

FindSteps(r) ==
    /\ req[r].pc = "steps"
    /\ IF StepsAbsent(req[r].company) THEN Goto(r, "newsteps") ELSE Done(r)
    /\ UNCHANGED <<companies, people, reviews, parted, calls, troubles>>

\* A company has each step once; an error is logged, or told to the caller.
CreateSteps(r) ==
    LET c == req[r].company
    IN  /\ req[r].pc = "newsteps"
        /\ companies' = [companies EXCEPT ![c].steps =
              [g \in Slugs |-> IF @[g] = "absent" THEN "open" ELSE @[g]]]
        /\ Done(r)
        /\ UNCHANGED <<people, reviews, parted, calls, troubles>>

\* Steps are changed by hand, without a look at the company's documents.
ChangeSteps(c, steps) ==
    /\ calls < MaxCalls /\ calls' = calls + 1
    /\ companies' = [companies EXCEPT ![c].steps = steps]
    /\ UNCHANGED <<people, reviews, req, parted, troubles>>

HasStep(c, g) == companies[c].steps[g] # "absent"

CreateOnboardingStep(c, g, status) ==
    ~HasStep(c, g) /\ ChangeSteps(c, [companies[c].steps EXCEPT ![g] = status])

\* startStep and completeStep among them.
UpdateStepStatus(c, g, status) ==
    HasStep(c, g) /\ ChangeSteps(c, [companies[c].steps EXCEPT ![g] = status])

DeleteOnboardingStep(c, g) ==
    HasStep(c, g) /\ ChangeSteps(c, [companies[c].steps EXCEPT ![g] = "absent"])

ResetCompanySteps(c) ==
    ChangeSteps(c, [g \in Slugs |-> IF HasStep(c, g) THEN "open" ELSE "absent"])

(***************************************************************************)
(* Documents and their review                                              *)
(***************************************************************************)
\* The documents of a company's KYC are those of its first user.
CompleteKyc(r, c) ==
    /\ MembersOf(c) # {}
    /\ Begins(r, [Idle EXCEPT !.pc = "submit", !.kind = "kyc", !.company = c,
                              !.value = First(MembersOf(c))[1]])
    /\ UNCHANGED <<companies, people, reviews, parted, troubles>>

CompleteKyb(r, c) ==
    /\ MembersOf(c) # {}
    /\ Begins(r, [Idle EXCEPT !.pc = "submit", !.kind = "kyb", !.company = c,
                              !.value = c, !.seen = companies[c].step])
    /\ UNCHANGED <<companies, people, reviews, parted, troubles>>

\* The profile of the company's first user.
CompleteProfile(r, c) ==
    /\ MembersOf(c) # {}
    /\ Begins(r, [Idle EXCEPT !.pc = "submit", !.kind = "profile",
                              !.company = c, !.value = First(MembersOf(c))[1]])
    /\ UNCHANGED <<companies, people, reviews, parted, troubles>>

\* Mutant: the status is left as it is.
SubmittedQuietly(papersOf) == [papersOf EXCEPT !.docs = @ + 1]

Submitted(papersOf) == [status |-> "PENDING", docs |-> papersOf.docs + 1]

\* KYC and the profile activate their user, KYB counts the step up from what
\* it read.
Submit(r) ==
    LET s == req[r].value
    IN  /\ req[r].pc = "submit"
        /\ papers' = IF req[r].kind = "profile" THEN papers
                     ELSE [papers EXCEPT ![s] = Submitted(@)]
        /\ IF req[r].kind = "kyb"
           THEN /\ companies' = [companies EXCEPT ![s].step = req[r].seen + 1]
                /\ UNCHANGED users
           ELSE users' = [users EXCEPT ![s] = "ACTIVE"] /\ UNCHANGED companies
        /\ Goto(r, "tick")
        /\ UNCHANGED <<members, roleRows, reviewed, crossed, parted, calls,
                       troubles>>

\* A business registration number is no column of companies either: an update
\* that brings one is refused.
RefuseKyb(r) ==
    /\ req[r].pc = "submit" /\ req[r].kind = "kyb"
    /\ Done(r)
    /\ UNCHANGED <<companies, people, reviews, parted, calls, troubles>>

SlugOf(r) == IF req[r].kind = "kyb" THEN "kyb_completion"
             ELSE "profile_completion"

\* An error here is logged and changes nothing else.
TickStep(r) ==
    LET c == req[r].company
        g == SlugOf(r)
    IN  /\ req[r].pc = "tick"
        /\ \/ /\ companies' = IF HasStep(c, g)
                              THEN [companies EXCEPT ![c].steps[g] = "COMPLETED"]
                              ELSE companies
              /\ UNCHANGED troubles
           \/ Trouble /\ UNCHANGED companies
        /\ Goto(r, "count")
        /\ UNCHANGED <<people, reviews, parted, calls>>

\* The answer tells whether all the steps are completed.
AnswerSubmission(r) ==
    /\ req[r].pc = "count"
    /\ Done(r)
    /\ UNCHANGED <<companies, people, reviews, parted, calls, troubles>>

\* A review reads its user or company, and with it the documents.
Review(r, s, v, pc) ==
    /\ Begins(r, [pc |-> pc, kind |-> v, email |-> "none",
                  company |-> NoCompany, seen |-> papers[s].docs,
                  value |-> s])
    /\ UNCHANGED <<companies, people, reviews, parted, troubles>>

\* handleKyc and handleKyb refuse the decision that is stored already, and
\* mail theirs before they store it.
HandleKyc(r, e, v) ==
    users[e] # "none" /\ papers[e].status # v /\ Review(r, e, v, "decision")

HandleKyb(r, c, v) ==
    papers[c].status # v /\ Review(r, c, v, "decision")

\* updateKycStatus and updateKybStatus store a decision at once.
UpdateKycStatus(r, e, v) == users[e] # "none" /\ Review(r, e, v, "decide")

UpdateKybStatus(r, c, v) == Review(r, c, v, "decide")

MailDecision(r) ==
    /\ req[r].pc = "decision"
    /\ Goto(r, "decide")
    /\ UNCHANGED <<companies, people, reviews, parted, calls, troubles>>

Decide(r) ==
    LET s == req[r].value
    IN  /\ req[r].pc = "decide"
        /\ papers' = [papers EXCEPT ![s].status = req[r].kind]
        /\ reviewed' = [reviewed EXCEPT ![s] = req[r].seen]
        /\ crossed' = IF papers[s].docs # req[r].seen THEN crossed \cup {s}
                      ELSE crossed \ {s}
        /\ Done(r)
        /\ UNCHANGED <<companies, people, parted, calls, troubles>>

-----------------------------------------------------------------------------
\* A read, a write, an upload or a mail fails, and the request throws.
CutShort(r) ==
    /\ req[r].pc # "idle" /\ Trouble
    /\ parted' = parted \cup ({req[r].email} \cap Emails)
    /\ Done(r)
    /\ UNCHANGED <<companies, people, reviews, calls>>

Crash ==
    /\ Trouble
    /\ parted' = parted \cup ({req[r].email : r \in Requests} \cap Emails)
    /\ req' = [r \in Requests |-> Idle]
    /\ UNCHANGED <<companies, people, reviews, calls>>

\* The steps of the requests, by the handler they belong to.
CreatesCompanyUser(r) ==
    /\ req[r].kind = "atonce"
    /\ \/ CreateCompany(r) \/ CreateUser(r)
       \/ ReadRole(r) \/ CreateRole(r) \/ CreateMember(r)
       \/ CreateWallets(r) \/ CreatePrices(r)

RegistersPersonalInfo(r) ==
    /\ req[r].kind = "personal"
    /\ \/ CreateCompany(r) \/ CreateUser(r)
       \/ ReadRole(r) \/ CreateRole(r) \/ CreateMember(r)

RegistersBusinessInfo(r) ==
    /\ req[r].kind = "business"
    /\ WriteBusinessInfo(r)

HandlesInvitation(r) ==
    /\ req[r].kind = "invite"
    /\ \/ CreateUser(r)
       \/ ReadRole(r) \/ CreateRole(r) \/ CreateMember(r)

InitializesSteps(r) ==
    req[r].kind \in {"steps", "atonce"} /\ (FindSteps(r) \/ CreateSteps(r))

CompletesKyc(r) ==
    /\ req[r].kind = "kyc"
    /\ Submit(r) \/ TickStep(r) \/ AnswerSubmission(r)

CompletesKyb(r) ==
    /\ req[r].kind = "kyb"
    /\ Submit(r) \/ RefuseKyb(r) \/ TickStep(r) \/ AnswerSubmission(r)

CompletesProfile(r) ==
    /\ req[r].kind = "profile"
    /\ Submit(r) \/ TickStep(r) \/ AnswerSubmission(r)

\* What request r does next, when nothing fails.
GoesOnWith(r) ==
    \/ CreatesCompanyUser(r) \/ RegistersPersonalInfo(r)
    \/ RegistersBusinessInfo(r) \/ HandlesInvitation(r)
    \/ InitializesSteps(r)
    \/ CompletesKyc(r) \/ CompletesKyb(r) \/ CompletesProfile(r)
    \/ MailDecision(r) \/ Decide(r)

OnboardingNext ==
    \/ \E r \in Requests :
          \/ \E e \in Emails :
                \/ CreateCompanyUser(r, e) \/ RegisterPersonalInfo(r, e)
                \/ \E o \in Emails : CreateUserByOwner(r, o, e)
                \/ \E v \in Decisions :
                      HandleKyc(r, e, v) \/ UpdateKycStatus(r, e, v)
          \/ \E c \in DOMAIN companies :
                \/ RegisterBusinessInfo(r, c)
                \/ InitializeOnboardingSteps(r, c)
                \/ CompleteKyc(r, c) \/ CompleteKyb(r, c)
                \/ CompleteProfile(r, c)
                \/ \E v \in Decisions :
                      HandleKyb(r, c, v) \/ UpdateKybStatus(r, c, v)
          \/ GoesOnWith(r) \/ CutShort(r)
    \/ \E c \in DOMAIN companies :
          \/ \E g \in Slugs :
                \/ \E status \in {"open", "COMPLETED"} :
                      \/ CreateOnboardingStep(c, g, status)
                      \/ UpdateStepStatus(c, g, status)
                \/ DeleteOnboardingStep(c, g)
          \/ ResetCompanySteps(c)
    \/ Crash

OnboardingSpec == OnboardingInit /\ [][OnboardingNext]_onboardingvars

-----------------------------------------------------------------------------
\* A company nobody is in, and so nobody can complete, comes only of requests
\* for one e-mail that overlapped, lost the race for a new role or were cut
\* short (company.service.ts:107, :414: the transaction is commented out).
OwnerUnlessParted ==
    \A c \in DOMAIN companies :
        MembersOf(c) = {} => \/ companies[c].by \in parted
                               \/ \E r \in Requests : req[r].company = c

\* A company registered at once ends up with a wallet per currency and all
\* its prices, whatever other requests do in between, unless requests about
\* its founder overlapped or something failed (company.service.ts:107: the
\* writes are not in one transaction, :154: failed wallets are not looked at).
AtOnceIsWhole ==
    \A c \in DOMAIN companies :
        /\ companies[c].email = companies[c].by /\ troubles = 0
        /\ companies[c].by \notin parted
        /\ \A r \in Requests : req[r].kind = "atonce" => req[r].company # c
        => /\ \A k \in Currencies : companies[c].wallets[k] = 1
           /\ companies[c].priced = "yes"

\* What is approved are the documents the reviewer's request found, unless new
\* ones came in before it stored its decision (company.service.ts:1402,
\* :1543, admin.service.ts:67).
ApprovedWasReviewed ==
    \A s \in Subjects \ crossed :
        papers[s].status = "APPROVED" => reviewed[s] = papers[s].docs
=============================================================================
