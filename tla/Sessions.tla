------------------------------ MODULE Sessions ------------------------------
(***************************************************************************)
(* Logging in: the codes and links that are mailed to one user, the column *)
(* of the users table they share, and the tokens that are signed for them, *)
(* while the account and its approvals change.                             *)
(*                                                                         *)
(* A token is held by the client and lives until it expires, whatever      *)
(* becomes of the account; it claims the mode its approvals had when they  *)
(* were read.  A request that is refused on its first reads is no step.    *)
(***************************************************************************)
EXTENDS WebRequests, Integers, FiniteSets

CONSTANTS
    Companies,
    Slots,          \* tokens that can live at once
    MaxMails        \* bound: codes and links

ASSUME SessionsAssumption == Companies # {} /\ MaxMails \in Nat

VARIABLES
    user,       \* User: status, hashes of its password, otp, otp_expires
    roles,      \* companies the user has an active role in
    kyc,        \* kyc_status is APPROVED
    kyb,        \* companies whose kyb_status is APPROVED
    sent,       \* codes and links generated so far
    links,      \* those of them that are links to reset the password
    inbox,      \* those that have been mailed
    tokens,     \* the tokens the client holds
    blacklist,  \* TokenBlacklistService: tokens logged out, in memory
    opened,     \* history: what each code has been good for
    replaced,   \* history: codes another was written over, or wiped out
    disturbed   \* history: codes used twice at once, or whose write failed

sessionvars == <<user, roles, kyc, kyb, sent, links, inbox, tokens, blacklist, req,
                 opened, replaced, disturbed, calls, troubles>>

Codes == 1..MaxMails
NoCode == 0
Modes == {"prod", "preprod", "none"}
Token == [kind : {"temp", "full", "company"}, company : Companies \cup {"none"},
          mode : Modes, late : BOOLEAN]
NoToken == [kind |-> "gone", company |-> "none", mode |-> "none",
            late |-> FALSE]
NoRequest == [pc |-> "idle", kind |-> "none", code |-> NoCode,
              token |-> NoToken]
Kinds == {"none", "login", "forgot", "verify", "reset", "select"}

SessionsTypeOK ==
    /\ user \in [active : BOOLEAN, hashes : 1..2, otp : Codes \cup {NoCode},
                 fresh : BOOLEAN]
    /\ roles \subseteq Companies /\ kyc \in BOOLEAN /\ kyb \subseteq Companies
    /\ sent \in 0..MaxMails /\ inbox \subseteq 1..sent /\ links \subseteq 1..sent
    /\ tokens \in [Slots -> Token \cup {NoToken}]
    /\ blacklist \subseteq {s \in Slots : tokens[s] # NoToken}
    /\ req \in [Requests -> [pc : {"idle", "store", "mail", "clear", "setpassword",
                                   "answer"},
                             kind : Kinds, code : Codes \cup {NoCode},
                             token : Token \cup {NoToken}]]
    /\ opened \in [Codes -> Nat]
    /\ replaced \subseteq Codes /\ disturbed \subseteq Codes
    /\ calls \in 0..MaxCalls /\ troubles \in 0..MaxTroubles

\* A registered user with a password, in any company or companies.
SessionsInit ==
    /\ user = [active |-> TRUE, hashes |-> 1, otp |-> NoCode, fresh |-> FALSE]
    /\ roles \in (SUBSET Companies) \ {{}}
    /\ kyc \in BOOLEAN /\ kyb \in SUBSET Companies
    /\ sent = 0 /\ links = {} /\ inbox = {}
    /\ tokens = [s \in Slots |-> NoToken] /\ blacklist = {}
    /\ req = [r \in Requests |-> NoRequest]
    /\ opened = [c \in Codes |-> 0]
    /\ replaced = {} /\ disturbed = {} /\ calls = 0 /\ troubles = 0

-----------------------------------------------------------------------------
account == <<roles, kyc, kyb>>
mail == <<sent, links, inbox>>
uses == <<opened, replaced, disturbed>>
held == <<tokens, blacklist>>

Ends(r) == req' = [req EXCEPT ![r] = NoRequest]
Call == calls < MaxCalls /\ calls' = calls + 1

\* Mode of a session of the user in company c, as it is read.
ModeOf(c) == IF kyc /\ c \in kyb THEN "prod" ELSE "preprod"
FullToken(c) == [kind |-> "full", company |-> c, mode |-> ModeOf(c),
                 late |-> FALSE]
Live(s) == tokens[s] # NoToken

\* The client stores the token it is answered with.
Hands(token) ==
    \E s \in Slots : ~Live(s) /\ tokens' = [tokens EXCEPT ![s] = token]

(***************************************************************************)
(* Codes and links                                                         *)
(***************************************************************************)
Starts(r, kind, pc) ==
    /\ req[r].pc = "idle" /\ sent < MaxMails
    /\ sent' = sent + 1
    /\ links' = IF kind = "forgot" THEN links \cup {sent + 1} ELSE links
    /\ Call
    /\ req' = [req EXCEPT ![r] = [NoRequest EXCEPT !.pc = pc, !.kind = kind,
                                                   !.code = sent + 1]]
    /\ UNCHANGED <<user, account, inbox, held, uses, troubles>>

\* login and loginWithCompany compare the password, resendOtp looks at
\* neither it nor the status.  A password hashed twice equals none.
Login(r) == user.active /\ user.hashes = 1 /\ Starts(r, "login", "store")
LoginWithCompany(r, c) ==
    c \in roles /\ user.active /\ user.hashes = 1 /\ Starts(r, "login", "store")
ResendOtp(r) == Starts(r, "login", "store")

\* The link is mailed before it is stored.
ForgotPassword(r) == user.active /\ Starts(r, "forgot", "mail")

\* Mutant: the code is appended to no one's row.
StoreCodeNowhere(r) ==
    /\ req[r].pc = "store"
    /\ IF req[r].kind = "login" THEN Goto(r, "mail") ELSE Ends(r)
    /\ UNCHANGED <<user, account, mail, held, uses, calls, troubles>>

\* One column holds the code, or the link, that was written last.
StoreCode(r) ==
    /\ req[r].pc = "store"
    /\ user' = [user EXCEPT !.otp = req[r].code, !.fresh = TRUE]
    /\ replaced' = replaced \cup ({user.otp} \ {NoCode})
    /\ IF req[r].kind = "login" THEN Goto(r, "mail") ELSE Ends(r)
    /\ UNCHANGED <<account, mail, held, opened, disturbed, calls, troubles>>

\* The request throws, with its link mailed or its code stored.
StoreOrMailFails(r) ==
    /\ req[r].pc \in {"store", "mail"}
    /\ Trouble
    /\ disturbed' = disturbed \cup {req[r].code}
    /\ Ends(r)
    /\ UNCHANGED <<user, account, mail, held, opened, replaced, calls>>

SendMail(r) ==
    /\ req[r].pc = "mail"
    /\ inbox' = inbox \cup {req[r].code}
    /\ IF req[r].kind = "login" THEN Ends(r) ELSE Goto(r, "store")
    /\ UNCHANGED <<user, account, sent, links, held, uses, calls, troubles>>

\* Ten minutes for a code, fifteen for a link.
CodeExpires ==
    /\ user.fresh
    /\ user' = [user EXCEPT !.fresh = FALSE]
    /\ UNCHANGED <<account, mail, held, req, uses, calls, troubles>>

(***************************************************************************)
(* Using them                                                              *)
(***************************************************************************)
\* What a session is opened with, from the roles and approvals as read.
Opens == IF Cardinality(roles) > 1
         THEN [NoToken EXCEPT !.kind = "temp"]
         ELSE FullToken(CHOOSE c \in roles : TRUE)

\* Whether another request is using code c.
InUse(c) == \E r \in Requests : req[r].code = c
                                /\ req[r].pc \in {"clear", "setpassword"}

Uses(r, c, kind, pc, token) ==
    /\ req[r].pc = "idle"
    /\ c \in inbox /\ user.otp = c /\ user.fresh
    /\ req' = [req EXCEPT ![r] = [pc |-> pc, kind |-> kind, code |-> c,
                                  token |-> token]]
    /\ disturbed' = IF InUse(c) THEN disturbed \cup {c} ELSE disturbed
    /\ Call
    /\ UNCHANGED <<user, account, mail, held, opened, replaced, troubles>>

\* A code has six characters, a link is a signed token.
VerifyOtp(r, c) == c \notin links /\ Uses(r, c, "verify", "clear", Opens)
ResetPassword(r, c) == c \in links /\ Uses(r, c, "reset", "setpassword", NoToken)

Emptied == [user EXCEPT !.otp = NoCode, !.fresh = FALSE]
\* Emptying the column wipes out what has come into it since.
Wiped(c) == replaced \cup ({user.otp} \ {c, NoCode})

\* Mutant: the code is left to expire.
ClearCodeNever(r) ==
    LET c == req[r].code
    IN  /\ req[r].pc = "clear"
        /\ opened' = [opened EXCEPT ![c] = @ + 1]
        /\ Goto(r, "answer")
        /\ UNCHANGED <<user, account, mail, held, replaced, disturbed, calls,
                   troubles>>

\* The code is cleared; an error is only logged.
ClearCode(r) ==
    LET c == req[r].code
    IN  /\ req[r].pc = "clear"
        /\ \/ user' = Emptied /\ replaced' = Wiped(c)
              /\ UNCHANGED <<disturbed, troubles>>
           \/ Trouble /\ disturbed' = disturbed \cup {c}
              /\ UNCHANGED <<user, replaced>>
        /\ opened' = [opened EXCEPT ![c] = @ + 1]
        /\ Goto(r, "answer")
        /\ UNCHANGED <<account, mail, held, calls>>

\* The token is answered, a full one only if the onboarding steps are read.
Answer(r) ==
    /\ req[r].pc = "answer"
    /\ \/ Hands(req[r].token) /\ UNCHANGED troubles
       \/ req[r].token.kind = "full" /\ Trouble /\ UNCHANGED tokens
    /\ Ends(r)
    /\ UNCHANGED <<user, account, mail, blacklist, uses, calls>>

\* resetPassword hashes the password, and UserModel.update hashes it again.
SetPassword(r) ==
    LET c == req[r].code
    IN  /\ req[r].pc = "setpassword"
        /\ \/ /\ user' = [Emptied EXCEPT !.hashes = 2]
              /\ replaced' = Wiped(c)
              /\ opened' = [opened EXCEPT ![c] = @ + 1]
              /\ UNCHANGED troubles
           \/ Trouble /\ UNCHANGED <<user, replaced, opened>>
        /\ Ends(r)
        /\ UNCHANGED <<account, mail, held, disturbed, calls>>

(***************************************************************************)
(* Tokens                                                                  *)
(***************************************************************************)
\* What the guard of a route accepts: the token of a user with a role in its
\* company, or of a company, whatever became of the account or the blacklist.
Validates(s) ==
    \/ tokens[s].kind = "full" /\ tokens[s].company \in roles
    \/ tokens[s].kind = "company"

\* A token for company c is signed from what was just read, and answered.
Signs(r, token) ==
    /\ req[r].pc = "idle" /\ user.active
    /\ req' = [req EXCEPT ![r] = [NoRequest EXCEPT !.pc = "answer",
                                                   !.kind = "select",
                                                   !.token = token]]
    /\ Call
    /\ UNCHANGED <<user, account, mail, held, uses, troubles>>

\* A temporary token may choose again and again.
SelectCompany(r, s, c) ==
    tokens[s].kind = "temp" /\ c \in roles /\ Signs(r, FullToken(c))

\* Mutant: the new token keeps the mode of the old one.
SwitchKeepsMode(r, s, c) ==
    /\ tokens[s].kind = "full" /\ tokens[s].company # c /\ c \in roles
    /\ Signs(r, [FullToken(c) EXCEPT !.mode = tokens[s].mode])

SwitchCompany(r, s, c) ==
    /\ Validates(s) /\ tokens[s].kind = "full"
    /\ tokens[s].company # c /\ c \in roles
    /\ Signs(r, FullToken(c))

\* The invitation's token names a user who is in the company already.
ValidateInvitationToken(c) == c \in roles

\* Its token names no mode.
AcceptInvitation(c) ==
    /\ ValidateInvitationToken(c) /\ user.hashes = 1
    /\ Hands([kind |-> "full", company |-> c, mode |-> "none",
              late |-> FALSE])
    /\ Call
    /\ UNCHANGED <<user, account, mail, blacklist, req, uses, troubles>>

\* By client_id and client_key.
GenerateToken(c) ==
    /\ Hands([kind |-> "company", company |-> c, mode |-> "none",
              late |-> FALSE])
    /\ Call
    /\ UNCHANGED <<user, account, mail, blacklist, req, uses, troubles>>

Logout(s) ==
    /\ Live(s) /\ Validates(s) /\ tokens[s].kind = "full"
    /\ blacklist' = blacklist \cup {s}
    /\ Call
    /\ UNCHANGED <<user, account, mail, tokens, req, uses, troubles>>

\* A timer takes the token off the blacklist when it expires.
TokenExpires(s) ==
    /\ Live(s)
    /\ tokens' = [tokens EXCEPT ![s] = NoToken]
    /\ blacklist' = blacklist \ {s}
    /\ UNCHANGED <<user, account, mail, req, uses, calls, troubles>>

(***************************************************************************)
(* The account                                                             *)
(***************************************************************************)
ToggleUserStatus ==
    /\ user' = [user EXCEPT !.active = ~@]
    /\ Call
    /\ UNCHANGED <<account, mail, held, req, uses, troubles>>

\* History: what was signed, or is to be, was read before a change.
Outdated(token) == IF token.kind = "full" THEN [token EXCEPT !.late = TRUE]
                   ELSE token

\* Reviews approve or reject, new documents set the status back.
ReviewChanges ==
    /\ \/ kyc' = ~kyc /\ UNCHANGED kyb
       \/ \E c \in Companies :
             kyb' = (kyb \ {c}) \cup ({c} \ kyb) /\ UNCHANGED kyc
    /\ Call
    /\ tokens' = [s \in Slots |-> Outdated(tokens[s])]
    /\ req' = [r \in Requests |-> [req[r] EXCEPT !.token = Outdated(@)]]
    /\ UNCHANGED <<user, roles, mail, blacklist, uses, troubles>>

\* The process is started again: requests and blacklist are lost.
Restart ==
    /\ Trouble
    /\ req' = [r \in Requests |-> NoRequest]
    /\ blacklist' = {}
    /\ disturbed' = disturbed \cup {req[r].code : r \in
                       {r \in Requests : req[r].pc \in {"store", "mail", "clear"}}}
    /\ UNCHANGED <<user, account, mail, tokens, opened, replaced, calls>>

SessionsNext ==
    \/ \E r \in Requests :
          \/ Login(r) \/ \E c \in Companies : LoginWithCompany(r, c)
          \/ ResendOtp(r) \/ ForgotPassword(r)
          \/ StoreCode(r) \/ SendMail(r) \/ StoreOrMailFails(r)
          \/ \E c \in inbox : VerifyOtp(r, c) \/ ResetPassword(r, c)
          \/ ClearCode(r) \/ Answer(r) \/ SetPassword(r)
    \/ \E s \in Slots :
          \/ Logout(s) \/ TokenExpires(s)
          \/ \E r \in Requests, c \in Companies :
                SelectCompany(r, s, c) \/ SwitchCompany(r, s, c)
    \/ \E c \in Companies : AcceptInvitation(c) \/ GenerateToken(c)
    \/ CodeExpires \/ ToggleUserStatus \/ ReviewChanges \/ Restart

SessionsSpec == SessionsInit /\ [][SessionsNext]_sessionvars

-----------------------------------------------------------------------------
\* A mailed code opens at most one session, and a link sets the password
\* once, unless two requests used it at once or the write that clears it
\* failed (auth.service.ts:264, :313, :660).
CodeOpensOnce ==
    \A c \in Codes \ disturbed : opened[c] <= 1

\* A code or link that has been mailed is the one in the users table until
\* it is used, replaced by a later one, or wiped out when an earlier one was
\* being cleared: one column serves both (auth.service.ts:201, :597).
MailedCodeWorks ==
    \A c \in inbox \ (replaced \cup disturbed) :
        (opened[c] = 0 /\ \A r \in Requests : req[r].code # c) => user.otp = c

\* A session in production mode without both approvals was read before one of
\* them was withdrawn, so that it ends within its hour: each way to get a new
\* token reads the approvals again (auth.service.ts:377, :1019, :1409).
ProdOnlyFromBefore ==
    \A s \in Slots :
        (tokens[s].mode = "prod" /\ ModeOf(tokens[s].company) # "prod")
            => tokens[s].late

\* auth.service.ts:686, "Password reset successfully": the password that was
\* set is one that login accepts.
ResetPasswordLogsIn == user.hashes = 1
=============================================================================
