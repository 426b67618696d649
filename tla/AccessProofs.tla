---------------------------- MODULE AccessProofs ----------------------------
(***************************************************************************)
(* Proofs about Sessions, for any companies, requests, tokens and mails:   *)
(* what a mailed code opens, that it works, and where a token in           *)
(* production mode comes from.  Then proofs about Onboarding, for any      *)
(* people, companies and requests: that a company has someone in it, that  *)
(* what is missing from it comes only of overlaps and failures, and what an *)
(***************************************************************************)
EXTENDS Sessions, Onboarding, SumLemmas, SequenceTheorems, TLAPS

(***************************************************************************)
(* The invariants                                                          *)
(***************************************************************************)
SessionRequest == [pc : {"idle", "store", "mail", "clear", "setpassword",
                         "answer"},
                   kind : Kinds, code : Codes \cup {NoCode},
                   token : Token \cup {NoToken}]

SessionUser == [active : BOOLEAN, hashes : 1..2, otp : Codes \cup {NoCode},
                fresh : BOOLEAN]

\* What a request that is under way is about.
Standing(r) ==
    /\ req[r].code \in 0..sent
    /\ req[r].pc = "idle" => req[r].code = NoCode
    /\ req[r].pc \in {"store", "mail"} =>
          req[r].kind \in {"login", "forgot"} /\ req[r].code # NoCode
    /\ req[r].pc \in {"clear", "setpassword"} => req[r].code # NoCode

PlaceOfSessions ==
    /\ SessionsTypeOK /\ roles # {} /\ user.otp \in 0..sent
    /\ \A c \in Codes : c > sent => opened[c] = 0
    /\ \A r \in Requests : Standing(r)

\* A code that is being made is in no other request, and the column does not
\* hold it before it is stored.
Made(c) ==
    \A r \in Requests : req[r].code = c /\ req[r].pc \in {"store", "mail"} =>
        /\ \A q \in Requests : req[q].code = c => q = r
        /\ opened[c] = 0
        /\ req[r].pc = "store" \/ req[r].kind = "forgot" => user.otp # c
        /\ req[r].pc = "mail" \/ req[r].kind = "login" => c \notin inbox

\* Only one request uses a code, before it has opened anything.
Used(c) ==
    /\ opened[c] <= 1
    /\ opened[c] = 1 => user.otp # c
    /\ \A r \in Requests :
          req[r].code = c /\ req[r].pc \in {"clear", "setpassword"} =>
              /\ opened[c] = 0
              /\ \A q \in Requests :
                    req[q].code = c /\ req[q].pc \in {"clear", "setpassword"}
                        => q = r

CodeInv == \A c \in Codes : Made(c) /\ (c \notin disturbed => Used(c))

\* Code c is on its way to the column.
Coming(c) ==
    \E r \in Requests :
        /\ req[r].code = c
        /\ req[r].pc = "store" \/ (req[r].pc = "mail" /\ req[r].kind = "forgot")

MailInv ==
    \A c \in (1..sent) \ (replaced \cup disturbed) :
        opened[c] = 0 => user.otp = c \/ Coming(c)

\* A token in production mode says what the approvals are, or is late.
Truthful(token) ==
    token.mode = "prod" =>
        token.kind = "full" /\ (token.late \/ ModeOf(token.company) = "prod")

ModeInv ==
    /\ \A s \in Slots : Truthful(tokens[s])
    /\ \A r \in Requests : Truthful(req[r].token)

-----------------------------------------------------------------------------
(***************************************************************************)
(* Types                                                                   *)
(***************************************************************************)
LEMMA TokenTypes ==
  /\ NoToken \notin Token
  /\ \A t \in Token \cup {NoToken} : Outdated(t) \in Token \cup {NoToken}
  /\ \A t \in Token \cup {NoToken} : t = NoToken <=> Outdated(t) = NoToken
  /\ \A c \in Companies : FullToken(c) \in Token
  /\ roles # {} /\ roles \subseteq Companies => Opens \in Token
<1>1. NoToken \notin Token
  BY DEF NoToken, Token
<1>2. ASSUME NEW t \in Token \cup {NoToken}
      PROVE  /\ Outdated(t) \in Token \cup {NoToken}
             /\ t = NoToken <=> Outdated(t) = NoToken
  <2>1. CASE t = NoToken
    BY <2>1 DEF Outdated, NoToken
  <2>2. CASE t \in Token
    <3>1. Outdated(t) \in Token
      BY <2>2 DEF Outdated, Token
    <3>2. QED
      BY <3>1, <2>2, <1>1
  <2>3. QED
    BY <2>1, <2>2
<1>3. ASSUME NEW c \in Companies PROVE FullToken(c) \in Token
  <2>1. ModeOf(c) \in Modes
    BY DEF ModeOf, Modes
  <2>2. QED
    BY <2>1 DEF FullToken, Token
<1>4. ASSUME roles # {}, roles \subseteq Companies PROVE Opens \in Token
  <2>1. (CHOOSE c \in roles : TRUE) \in Companies
    BY <1>4
  <2>2. [NoToken EXCEPT !.kind = "temp"] \in Token
    BY DEF NoToken, Token, Modes
  <2>3. QED
    BY <2>1, <2>2, <1>3 DEF Opens
<1>5. QED
  BY <1>1, <1>2, <1>3, <1>4

LEMMA NoRequestType == NoRequest \in SessionRequest
  BY DEF NoRequest, SessionRequest, Kinds

LEMMA SessionConstants == MaxMails \in Nat /\ MaxCalls \in Nat /\ MaxTroubles \in Nat
  BY SessionsAssumption, RequestsAssumption

LEMMA InitPlaceOfSessions == SessionsInit => PlaceOfSessions
<1> SUFFICES ASSUME SessionsInit PROVE PlaceOfSessions
  OBVIOUS
<1>1. SessionsTypeOK
  BY SessionConstants, NoRequestType
     DEF SessionsInit, SessionsTypeOK, SessionRequest, Codes, NoCode
<1>2. QED
  BY <1>1, SessionConstants
     DEF SessionsInit, PlaceOfSessions, Standing, NoRequest, NoCode, Codes

\* One request goes to its next step.
LEMMA Becoming ==
  ASSUME PlaceOfSessions, NEW r \in Requests, NEW rec \in SessionRequest,
         req' = [req EXCEPT ![r] = rec],
         sent' \in Nat, sent' >= sent,
         rec.code \in 0..sent',
         rec.pc = "idle" => rec.code = NoCode,
         rec.pc \in {"store", "mail"} =>
             rec.kind \in {"login", "forgot"} /\ rec.code # NoCode,
         rec.pc \in {"clear", "setpassword"} => rec.code # NoCode
  PROVE  /\ req' \in [Requests -> SessionRequest]
         /\ \A q \in Requests : Standing(q)'
         /\ req'[r] = rec
         /\ \A q \in Requests \ {r} : req'[q] = req[q]
<1>1. req \in [Requests -> SessionRequest] /\ sent \in Nat
  BY SessionConstants DEF PlaceOfSessions, SessionsTypeOK, SessionRequest
<1>2. /\ req' \in [Requests -> SessionRequest]
      /\ req'[r] = rec
      /\ \A q \in Requests \ {r} : req'[q] = req[q]
  BY <1>1
<1>3. Standing(r)'
  BY <1>2 DEF Standing
<1>4. ASSUME NEW q \in Requests \ {r} PROVE Standing(q)'
  BY <1>1, <1>2 DEF Standing, PlaceOfSessions
<1>5. QED
  BY <1>2, <1>3, <1>4

\* What the steps of a request have in common.
LEMMA GoesOn ==
  ASSUME PlaceOfSessions, NEW r \in Requests, req[r].pc # "idle",
         \/ Ends(r)
         \/ \E pc \in {"mail", "store"} :
               Goto(r, pc) /\ req[r].pc \in {"mail", "store"}
         \/ Goto(r, "answer"),
         sent' = sent
  PROVE  /\ req' \in [Requests -> SessionRequest]
         /\ \A q \in Requests : Standing(q)'
         /\ \A q \in Requests \ {r} : req'[q] = req[q]
         /\ \/ req'[r] = NoRequest
            \/ /\ req'[r].code = req[r].code /\ req'[r].kind = req[r].kind
               /\ req'[r].token = req[r].token
               /\ req'[r].pc \in {"mail", "store", "answer"}
<1>1. /\ req \in [Requests -> SessionRequest] /\ req[r] \in SessionRequest
      /\ sent \in Nat /\ sent' >= sent
  BY SessionConstants DEF PlaceOfSessions, SessionsTypeOK, SessionRequest
<1>2. CASE Ends(r)
  <2>1. /\ NoRequest.code \in 0..sent' /\ NoRequest.pc = "idle"
        /\ NoRequest.code = NoCode
    BY <1>1 DEF NoRequest, NoCode
  <2>2. req' = [req EXCEPT ![r] = NoRequest]
    BY <1>2 DEF Ends
  <2>3. QED
    BY <1>1, <2>1, <2>2, NoRequestType, Becoming
<1>3. ASSUME NEW pc \in {"mail", "store", "answer"}, Goto(r, pc),
             pc = "answer" \/ req[r].pc \in {"mail", "store"}
      PROVE  /\ req' \in [Requests -> SessionRequest]
             /\ \A q \in Requests : Standing(q)'
             /\ \A q \in Requests \ {r} : req'[q] = req[q]
             /\ req'[r].code = req[r].code /\ req'[r].kind = req[r].kind
             /\ req'[r].token = req[r].token
             /\ req'[r].pc = pc
  <2> DEFINE rec == [req[r] EXCEPT !.pc = pc]
  <2>1. /\ rec \in SessionRequest /\ rec.pc = pc /\ rec.code = req[r].code
        /\ rec.kind = req[r].kind /\ rec.token = req[r].token
    BY <1>1 DEF SessionRequest
  <2>2. req' = [req EXCEPT ![r] = rec]
    BY <1>3, <1>1 DEF Goto
  <2>3. /\ rec.code \in 0..sent'
        /\ rec.pc \in {"store", "mail"} =>
             rec.kind \in {"login", "forgot"} /\ rec.code # NoCode
    BY <1>1, <1>3, <2>1 DEF PlaceOfSessions, Standing
  <2> HIDE DEF rec
  <2>4. QED
    BY <1>1, <1>3, <2>1, <2>2, <2>3, Becoming
<1>4. QED
  BY <1>2, <1>3

LEMMA UserTypes ==
  ASSUME user \in SessionUser
  PROVE  /\ Emptied.otp = NoCode /\ Emptied \in SessionUser
         /\ \A n \in 1..2 : /\ [Emptied EXCEPT !.hashes = n] \in SessionUser
                           /\ [Emptied EXCEPT !.hashes = n].otp = NoCode
         /\ \A c \in Codes :
              /\ [user EXCEPT !.otp = c, !.fresh = TRUE] \in SessionUser
              /\ [user EXCEPT !.otp = c, !.fresh = TRUE].otp = c
         /\ [user EXCEPT !.fresh = FALSE] \in SessionUser
         /\ [user EXCEPT !.fresh = FALSE].otp = user.otp
         /\ [user EXCEPT !.active = ~@] \in SessionUser
         /\ [user EXCEPT !.active = ~@].otp = user.otp
  BY DEF SessionUser, Emptied


LEMMA StoreMailPlace ==
  ASSUME PlaceOfSessions, NEW r \in Requests,
         StoreCode(r) \/ StoreOrMailFails(r) \/ SendMail(r)
  PROVE  PlaceOfSessions'
<1>1. /\ req[r].pc \in {"store", "mail"} /\ req[r].code \in 1..sent
      /\ req[r].code \in Codes /\ sent \in 0..MaxMails
  BY SessionConstants DEF StoreCode, StoreOrMailFails, SendMail, PlaceOfSessions,
     Standing, SessionsTypeOK, Codes, NoCode
<1>2. /\ sent' = sent
      /\ \/ Ends(r)
         \/ \E pc \in {"mail", "store"} : Goto(r, pc)
  BY DEF StoreCode, StoreOrMailFails, SendMail, mail
<1>3. /\ req' \in [Requests -> SessionRequest]
      /\ \A q \in Requests : Standing(q)'
  BY <1>1, <1>2, GoesOn
<1>4. CASE StoreCode(r)
  <2>1. /\ user' = [user EXCEPT !.otp = req[r].code, !.fresh = TRUE]
        /\ replaced' = replaced \cup ({user.otp} \ {NoCode})
        /\ UNCHANGED <<roles, kyc, kyb, sent, links, inbox, tokens, blacklist,
                       opened, disturbed, calls, troubles>>
    BY <1>4 DEF StoreCode, account, mail, held
  <2>2. user' \in SessionUser /\ user'.otp \in 0..sent
    <3>1. user \in SessionUser
      BY DEF PlaceOfSessions, SessionsTypeOK, SessionUser
    <3>2. user' \in SessionUser /\ user'.otp = req[r].code
      BY <3>1, <1>1, <2>1, UserTypes
    <3>3. QED
      BY <3>2, <1>1
  <2>3. replaced' \subseteq Codes
    BY <2>1 DEF PlaceOfSessions, SessionsTypeOK
  <2>4. QED
    BY <2>1, <2>2, <2>3, <1>3
       DEF PlaceOfSessions, SessionsTypeOK, SessionRequest, SessionUser, Codes
<1>5. CASE StoreOrMailFails(r)
  <2>1. /\ troubles < MaxTroubles /\ troubles' = troubles + 1
        /\ disturbed' = disturbed \cup {req[r].code}
        /\ UNCHANGED <<user, roles, kyc, kyb, sent, links, inbox, tokens,
                       blacklist, opened, replaced, calls>>
    BY <1>5 DEF StoreOrMailFails, Trouble, account, mail, held
  <2>2. troubles' \in 0..MaxTroubles
    BY <2>1, SessionConstants DEF PlaceOfSessions, SessionsTypeOK
  <2>3. QED
    BY <2>1, <2>2, <1>1, <1>3
       DEF PlaceOfSessions, SessionsTypeOK, SessionRequest, Codes
<1>6. CASE SendMail(r)
  <2>1. /\ inbox' = inbox \cup {req[r].code}
        /\ UNCHANGED <<user, roles, kyc, kyb, sent, links, tokens, blacklist,
                       opened, replaced, disturbed, calls, troubles>>
    BY <1>6 DEF SendMail, account, held, uses
  <2>2. inbox' \subseteq 1..sent
    BY <1>1, <2>1 DEF PlaceOfSessions, SessionsTypeOK
  <2>3. QED
    BY <2>1, <2>2, <1>3
       DEF PlaceOfSessions, SessionsTypeOK, SessionRequest, Codes
<1>7. QED
  BY <1>4, <1>5, <1>6

LEMMA StartsPlace ==
  ASSUME PlaceOfSessions, NEW r \in Requests,
         NEW kind \in {"login", "forgot"}, NEW pc \in {"store", "mail"},
         Starts(r, kind, pc)
  PROVE  /\ PlaceOfSessions'
         /\ req'[r].code = sent + 1 /\ req'[r].pc = pc /\ req'[r].kind = kind
         /\ req'[r].token = NoToken
         /\ \A q \in Requests \ {r} : req'[q] = req[q]
<1> DEFINE rec == [NoRequest EXCEPT !.pc = pc, !.kind = kind,
                                    !.code = sent + 1]
<1>1. /\ sent \in 0..MaxMails /\ sent < MaxMails /\ sent' = sent + 1
      /\ links' \subseteq links \cup {sent + 1}
      /\ calls < MaxCalls /\ calls' = calls + 1
      /\ UNCHANGED <<user, roles, kyc, kyb, inbox, tokens, blacklist, opened,
                     replaced, disturbed, troubles>>
  BY DEF Starts, Call, account, held, uses, PlaceOfSessions, SessionsTypeOK
<1>2. sent + 1 \in Codes /\ sent + 1 # NoCode /\ sent' \in 0..MaxMails
  BY <1>1, SessionConstants DEF Codes, NoCode
<1>3. /\ rec \in SessionRequest /\ rec.pc = pc /\ rec.kind = kind
      /\ rec.code = sent + 1 /\ rec.token = NoToken
  <2>1. NoRequest.token = NoToken
    BY DEF NoRequest
  <2>2. QED
    BY <1>2, <2>1, NoRequestType DEF SessionRequest, Kinds
<1>5. req' = [req EXCEPT ![r] = rec]
  BY DEF Starts
<1> HIDE DEF rec
<1>6. rec.code \in 0..sent' /\ sent' \in Nat /\ sent' >= sent
  BY <1>1, <1>2, <1>3, SessionConstants
<1>7. /\ req' \in [Requests -> SessionRequest]
      /\ \A q \in Requests : Standing(q)'
      /\ req'[r] = rec
      /\ \A q \in Requests \ {r} : req'[q] = req[q]
  BY <1>2, <1>3, <1>5, <1>6, Becoming
<1>8. calls' \in 0..MaxCalls
  BY <1>1, SessionConstants DEF PlaceOfSessions, SessionsTypeOK
<1>9. links' \subseteq 1..sent' /\ inbox \subseteq 1..sent'
  BY <1>1, SessionConstants DEF PlaceOfSessions, SessionsTypeOK
<1>10. user.otp \in 0..sent' /\ \A c \in Codes : c > sent' => opened[c] = 0
  BY <1>1, SessionConstants DEF PlaceOfSessions, SessionsTypeOK, Codes
<1>11. PlaceOfSessions'
  BY <1>1, <1>2, <1>7, <1>8, <1>9, <1>10
     DEF PlaceOfSessions, SessionsTypeOK, SessionRequest, Codes
<1>12. QED
  BY <1>3, <1>7, <1>11

LEMMA UsesPlace ==
  ASSUME PlaceOfSessions, NEW r \in Requests, NEW c \in inbox,
         NEW kind \in {"verify", "reset"}, NEW pc \in {"clear", "setpassword"},
         NEW token \in Token \cup {NoToken},
         Uses(r, c, kind, pc, token)
  PROVE  /\ PlaceOfSessions'
         /\ req'[r].code = c /\ req'[r].pc = pc /\ req'[r].kind = kind
         /\ req'[r].token = token
         /\ \A q \in Requests \ {r} : req'[q] = req[q]
<1> DEFINE rec == [pc |-> pc, kind |-> kind, code |-> c, token |-> token]
<1>1. /\ sent \in 0..MaxMails
      /\ calls < MaxCalls /\ calls' = calls + 1
      /\ disturbed' \subseteq disturbed \cup {c}
      /\ UNCHANGED <<user, roles, kyc, kyb, sent, links, inbox, tokens,
                     blacklist, opened, replaced, troubles>>
  BY DEF Uses, Call, account, mail, held, PlaceOfSessions, SessionsTypeOK
<1>2. c \in Codes /\ c # NoCode /\ c \in 0..sent
  BY <1>1, SessionConstants DEF Codes, NoCode, PlaceOfSessions, SessionsTypeOK
<1>3. /\ rec \in SessionRequest /\ rec.pc = pc /\ rec.kind = kind
      /\ rec.code = c /\ rec.token = token
  BY <1>2 DEF SessionRequest, Kinds
<1>4. req' = [req EXCEPT ![r] = rec]
  BY DEF Uses
<1> HIDE DEF rec
<1>5. sent' \in Nat /\ sent' >= sent
  BY <1>1, SessionConstants
<1>6. /\ req' \in [Requests -> SessionRequest]
      /\ \A q \in Requests : Standing(q)'
      /\ req'[r] = rec
      /\ \A q \in Requests \ {r} : req'[q] = req[q]
  BY <1>1, <1>2, <1>3, <1>4, <1>5, Becoming
<1>7. calls' \in 0..MaxCalls
  BY <1>1, SessionConstants DEF PlaceOfSessions, SessionsTypeOK
<1>8. disturbed' \subseteq Codes
  BY <1>1, <1>2 DEF PlaceOfSessions, SessionsTypeOK
<1>9. PlaceOfSessions'
  BY <1>1, <1>6, <1>7, <1>8
     DEF PlaceOfSessions, SessionsTypeOK, SessionRequest, Codes
<1>10. QED
  BY <1>3, <1>6, <1>9

LEMMA SignsPlace ==
  ASSUME PlaceOfSessions, NEW r \in Requests, NEW token \in Token,
         Signs(r, token)
  PROVE  /\ PlaceOfSessions'
         /\ req'[r].code = NoCode /\ req'[r].pc = "answer"
         /\ req'[r].token = token
         /\ \A q \in Requests \ {r} : req'[q] = req[q]
<1> DEFINE rec == [NoRequest EXCEPT !.pc = "answer", !.kind = "select",
                                    !.token = token]
<1>1. /\ sent \in 0..MaxMails
      /\ calls < MaxCalls /\ calls' = calls + 1
      /\ UNCHANGED <<user, roles, kyc, kyb, sent, links, inbox, tokens,
                     blacklist, opened, replaced, disturbed, troubles>>
  BY DEF Signs, Call, account, mail, held, uses, PlaceOfSessions, SessionsTypeOK
<1>2. NoCode \in 0..sent
  BY <1>1, SessionConstants DEF NoCode
<1>3. /\ rec \in SessionRequest /\ rec.pc = "answer"
      /\ rec.code = NoCode /\ rec.token = token
  <2>1. NoRequest.code = NoCode
    BY DEF NoRequest
  <2>2. QED
    BY <2>1, NoRequestType DEF SessionRequest, Kinds
<1>5. req' = [req EXCEPT ![r] = rec]
  BY DEF Signs
<1> HIDE DEF rec
<1>6. sent' \in Nat /\ sent' >= sent
  BY <1>1, SessionConstants
<1>7. /\ req' \in [Requests -> SessionRequest]
      /\ \A q \in Requests : Standing(q)'
      /\ req'[r] = rec
      /\ \A q \in Requests \ {r} : req'[q] = req[q]
  BY <1>1, <1>2, <1>3, <1>5, <1>6, Becoming
<1>8. calls' \in 0..MaxCalls
  BY <1>1, SessionConstants DEF PlaceOfSessions, SessionsTypeOK
<1>9. PlaceOfSessions'
  BY <1>1, <1>7, <1>8
     DEF PlaceOfSessions, SessionsTypeOK, SessionRequest, Codes
<1>10. QED
  BY <1>3, <1>7, <1>9

LEMMA HandsType ==
  ASSUME PlaceOfSessions, NEW token \in Token \cup {NoToken}, Hands(token),
         blacklist' = blacklist
  PROVE  /\ tokens' \in [Slots -> Token \cup {NoToken}]
         /\ blacklist' \subseteq {s \in Slots : tokens'[s] # NoToken}
         /\ \A s \in Slots : tokens'[s] = tokens[s] \/ tokens'[s] = token
<1>1. PICK s \in Slots : ~Live(s) /\ tokens' = [tokens EXCEPT ![s] = token]
  BY DEF Hands
<1>2. QED
  BY <1>1 DEF Live, PlaceOfSessions, SessionsTypeOK

LEMMA EndsPlace ==
  ASSUME PlaceOfSessions, NEW r \in Requests,
         ClearCode(r) \/ Answer(r) \/ SetPassword(r)
  PROVE  PlaceOfSessions'
<1>1. /\ req[r].pc # "idle" /\ req[r] \in SessionRequest
      /\ req[r].pc \in {"clear", "setpassword"} =>
            req[r].code \in Codes /\ req[r].code \in 1..sent
  BY SessionConstants DEF ClearCode, Answer, SetPassword, PlaceOfSessions, Standing,
     SessionsTypeOK, SessionRequest, Codes, NoCode
<1>2. sent' = sent /\ (Ends(r) \/ Goto(r, "answer"))
  BY DEF ClearCode, Answer, SetPassword, mail
<1>3. /\ req' \in [Requests -> SessionRequest]
      /\ \A q \in Requests : Standing(q)'
  BY <1>1, <1>2, GoesOn
<1>4. /\ user \in SessionUser /\ sent \in 0..MaxMails /\ troubles \in 0..MaxTroubles
      /\ opened \in [Codes -> Nat] /\ replaced \subseteq Codes
      /\ disturbed \subseteq Codes /\ user.otp \in 0..sent
  BY DEF PlaceOfSessions, SessionsTypeOK, SessionUser
<1>5. \A c \in Codes : Wiped(c) \subseteq Codes
  BY <1>4 DEF SessionUser, Wiped
<1>6. CASE ClearCode(r)
  <2> DEFINE c == req[r].code
  <2>1. /\ \/ user' = Emptied /\ replaced' = Wiped(c)
              /\ UNCHANGED <<disturbed, troubles>>
           \/ troubles < MaxTroubles /\ troubles' = troubles + 1
              /\ disturbed' = disturbed \cup {c}
              /\ UNCHANGED <<user, replaced>>
        /\ opened' = [opened EXCEPT ![c] = @ + 1]
        /\ UNCHANGED <<roles, kyc, kyb, sent, links, inbox, tokens, blacklist,
                       calls>>
        /\ c \in Codes /\ c \in 1..sent
    BY <1>6, <1>1 DEF ClearCode, Trouble, account, mail, held
  <2> HIDE DEF c
  <2>2. /\ user' \in SessionUser /\ user'.otp \in 0..sent'
        /\ replaced' \subseteq Codes /\ disturbed' \subseteq Codes
        /\ troubles' \in 0..MaxTroubles
    <3>1. Emptied \in SessionUser /\ Emptied.otp = 0
      BY <1>4, UserTypes DEF NoCode
    <3>2. user' \in SessionUser /\ (user'.otp = 0 \/ user'.otp = user.otp)
      BY <2>1, <1>4, <3>1
    <3>3. user'.otp \in 0..sent'
      BY <2>1, <1>4, <3>2, SessionConstants
    <3>4. replaced' \subseteq Codes /\ disturbed' \subseteq Codes
      BY <2>1, <1>4, <1>5
    <3>5. troubles' \in 0..MaxTroubles
      BY <2>1, <1>4, SessionConstants
    <3>6. QED
      BY <3>2, <3>3, <3>4, <3>5
  <2>3. /\ opened' \in [Codes -> Nat]
        /\ \A d \in Codes : d > sent' => opened'[d] = 0
    <3>1. \A d \in Codes : d > sent => d # c
      BY <2>1, <1>4, SessionConstants DEF Codes
    <3>2. QED
      BY <2>1, <1>4, <3>1 DEF PlaceOfSessions
  <2>4. QED
    BY <2>1, <2>2, <2>3, <1>3
       DEF PlaceOfSessions, SessionsTypeOK, SessionRequest, SessionUser, Codes
<1>7. CASE Answer(r)
  <2>1. /\ \/ Hands(req[r].token) /\ troubles' = troubles
           \/ tokens' = tokens /\ troubles < MaxTroubles
              /\ troubles' = troubles + 1
        /\ UNCHANGED <<user, roles, kyc, kyb, sent, links, inbox, blacklist,
                       opened, replaced, disturbed, calls>>
    BY <1>7 DEF Answer, Trouble, account, mail, uses
  <2>2. troubles' \in 0..MaxTroubles
    BY <2>1, <1>4, SessionConstants
  <2>3. /\ tokens' \in [Slots -> Token \cup {NoToken}]
        /\ blacklist' \subseteq {s \in Slots : tokens'[s] # NoToken}
    <3>1. CASE tokens' = tokens
      BY <3>1, <2>1 DEF PlaceOfSessions, SessionsTypeOK
    <3>2. CASE Hands(req[r].token)
      <4>1. req[r].token \in Token \cup {NoToken}
        BY <1>1 DEF SessionRequest
      <4>2. QED
        BY <4>1, <3>2, <2>1, HandsType
    <3>3. QED
      BY <3>1, <3>2, <2>1
  <2>4. QED
    BY <2>1, <2>2, <2>3, <1>3
       DEF PlaceOfSessions, SessionsTypeOK, SessionRequest, Codes
<1>8. CASE SetPassword(r)
  <2> DEFINE c == req[r].code
  <2>1. /\ \/ /\ user' = [Emptied EXCEPT !.hashes = 2] /\ replaced' = Wiped(c)
              /\ opened' = [opened EXCEPT ![c] = @ + 1] /\ troubles' = troubles
           \/ /\ troubles < MaxTroubles /\ troubles' = troubles + 1
              /\ UNCHANGED <<user, replaced, opened>>
        /\ UNCHANGED <<roles, kyc, kyb, sent, links, inbox, tokens, blacklist,
                       disturbed, calls>>
        /\ c \in Codes /\ c \in 1..sent
    BY <1>8, <1>1 DEF SetPassword, Trouble, account, mail, held
  <2> HIDE DEF c
  <2>2. /\ user' \in SessionUser /\ user'.otp \in 0..sent'
        /\ replaced' \subseteq Codes /\ disturbed' \subseteq Codes
        /\ troubles' \in 0..MaxTroubles
    <3> DEFINE e == [Emptied EXCEPT !.hashes = 2]
    <3>1. e \in SessionUser /\ e.otp = 0
      <4>1. 2 \in 1..2
        OBVIOUS
      <4>2. QED
        BY <4>1, <1>4, UserTypes DEF NoCode
    <3> HIDE DEF e
    <3>2. user' \in SessionUser /\ (user'.otp = 0 \/ user'.otp = user.otp)
      BY <2>1, <1>4, <3>1 DEF e
    <3>3. user'.otp \in 0..sent'
      BY <2>1, <1>4, <3>2, SessionConstants
    <3>4. replaced' \subseteq Codes /\ disturbed' \subseteq Codes
      BY <2>1, <1>4, <1>5
    <3>5. troubles' \in 0..MaxTroubles
      BY <2>1, <1>4, SessionConstants
    <3>6. QED
      BY <3>2, <3>3, <3>4, <3>5
  <2>3. /\ opened' \in [Codes -> Nat]
        /\ \A d \in Codes : d > sent' => opened'[d] = 0
    <3>1. \A d \in Codes : d > sent => d # c
      BY <2>1, <1>4, SessionConstants DEF Codes
    <3>2. QED
      BY <2>1, <1>4, <3>1 DEF PlaceOfSessions
  <2>4. QED
    BY <2>1, <2>2, <2>3, <1>3
       DEF PlaceOfSessions, SessionsTypeOK, SessionRequest, SessionUser, Codes
<1>9. QED
  BY <1>6, <1>7, <1>8

\* The steps that touch neither a code nor a request.
Quietly ==
    /\ UNCHANGED <<roles, kyc, kyb, sent, links, inbox, req, opened, replaced,
                   disturbed, troubles>>
    /\ user'.otp = user.otp

\* The client has no other token than before, or one without a mode.
NothingNew == \A s \in Slots : tokens'[s] = tokens[s] \/ tokens'[s].mode = "none"

LEMMA QuietPlace ==
  ASSUME PlaceOfSessions,
         \/ \E c \in Companies : AcceptInvitation(c) \/ GenerateToken(c)
         \/ \E s \in Slots : Logout(s) \/ TokenExpires(s)
         \/ CodeExpires \/ ToggleUserStatus \/ UNCHANGED sessionvars
  PROVE  PlaceOfSessions' /\ Quietly /\ NothingNew
<1>1. user \in SessionUser
  BY DEF PlaceOfSessions, SessionsTypeOK, SessionUser
<1>2. /\ Quietly /\ user' \in SessionUser
      /\ calls' = calls \/ (calls < MaxCalls /\ calls' = calls + 1)
  BY <1>1, UserTypes DEF AcceptInvitation, GenerateToken, Logout, TokenExpires,
     CodeExpires, ToggleUserStatus, sessionvars, Quietly, account, mail, held, uses,
     Call
<1>3. calls' \in 0..MaxCalls
  BY <1>2, SessionConstants DEF PlaceOfSessions, SessionsTypeOK
<1>4. /\ tokens' \in [Slots -> Token \cup {NoToken}]
      /\ blacklist' \subseteq {t \in Slots : tokens'[t] # NoToken}
      /\ NothingNew
  <2>1. ASSUME NEW token \in Token, token.mode = "none", Hands(token),
               blacklist' = blacklist
        PROVE  <1>4
    BY <2>1, HandsType DEF NothingNew
  <2>2. ASSUME NEW c \in Companies, AcceptInvitation(c) PROVE <1>4
    <3>1. [kind |-> "full", company |-> c, mode |-> "none", late |-> FALSE]
             \in Token
      BY DEF Token, Modes
    <3>2. QED
      BY <3>1, <2>1, <2>2 DEF AcceptInvitation
  <2>3. ASSUME NEW c \in Companies, GenerateToken(c) PROVE <1>4
    <3>1. [kind |-> "company", company |-> c, mode |-> "none", late |-> FALSE]
             \in Token
      BY DEF Token, Modes
    <3>2. QED
      BY <3>1, <2>1, <2>3 DEF GenerateToken
  <2>4. ASSUME NEW s \in Slots, Logout(s) PROVE <1>4
    BY <2>4 DEF Logout, Live, PlaceOfSessions, SessionsTypeOK, NothingNew
  <2>5. ASSUME NEW s \in Slots, TokenExpires(s) PROVE <1>4
    <3>1. NoToken.mode = "none"
      BY DEF NoToken
    <3>2. QED
      BY <2>5, <3>1 DEF TokenExpires, PlaceOfSessions, SessionsTypeOK, NothingNew
  <2>6. CASE CodeExpires \/ ToggleUserStatus \/ UNCHANGED sessionvars
    BY <2>6 DEF CodeExpires, ToggleUserStatus, sessionvars, held,
       PlaceOfSessions, SessionsTypeOK, NothingNew
  <2>7. QED
    BY <2>2, <2>3, <2>4, <2>5, <2>6
<1>5. \A q \in Requests : Standing(q)'
  BY <1>2 DEF Quietly, Standing, PlaceOfSessions
<1>6. PlaceOfSessions'
  BY <1>2, <1>3, <1>4, <1>5
     DEF Quietly, PlaceOfSessions, SessionsTypeOK, SessionUser, Codes
<1>7. QED
  BY <1>2, <1>4, <1>6

\* A review changes the approvals, and what is held or signed is outdated.
LEMMA ReviewPlace ==
  ASSUME PlaceOfSessions, ReviewChanges
  PROVE  /\ PlaceOfSessions'
         /\ \A r \in Requests :
              /\ req'[r].pc = req[r].pc /\ req'[r].code = req[r].code
              /\ req'[r].kind = req[r].kind
              /\ req'[r].token = Outdated(req[r].token)
         /\ \A s \in Slots : tokens'[s] = Outdated(tokens[s])
<1>1. /\ \/ kyc' = ~kyc /\ kyb' = kyb
         \/ \E c \in Companies :
               kyb' = (kyb \ {c}) \cup ({c} \ kyb) /\ kyc' = kyc
      /\ calls < MaxCalls /\ calls' = calls + 1
      /\ tokens' = [s \in Slots |-> Outdated(tokens[s])]
      /\ req' = [r \in Requests |-> [req[r] EXCEPT !.token = Outdated(@)]]
      /\ UNCHANGED <<user, roles, sent, links, inbox, blacklist, opened,
                     replaced, disturbed, troubles>>
  BY DEF ReviewChanges, Call, mail, uses
<1>2. kyc' \in BOOLEAN /\ kyb' \subseteq Companies
  BY <1>1 DEF PlaceOfSessions, SessionsTypeOK
<1>3. calls' \in 0..MaxCalls
  BY <1>1, SessionConstants DEF PlaceOfSessions, SessionsTypeOK
<1>4. /\ tokens' \in [Slots -> Token \cup {NoToken}]
      /\ blacklist' \subseteq {s \in Slots : tokens'[s] # NoToken}
      /\ \A s \in Slots : tokens'[s] = Outdated(tokens[s])
  BY <1>1, TokenTypes DEF PlaceOfSessions, SessionsTypeOK
<1>5. ASSUME NEW r \in Requests
      PROVE  /\ req'[r] \in SessionRequest
             /\ req'[r].pc = req[r].pc /\ req'[r].code = req[r].code
             /\ req'[r].kind = req[r].kind
             /\ req'[r].token = Outdated(req[r].token)
  <2>1. req[r] \in SessionRequest
    BY DEF PlaceOfSessions, SessionsTypeOK, SessionRequest
  <2>2. req'[r] = [req[r] EXCEPT !.token = Outdated(@)]
    BY <1>1
  <2>3. Outdated(req[r].token) \in Token \cup {NoToken}
    BY <2>1, TokenTypes DEF SessionRequest
  <2>4. QED
    BY <2>1, <2>2, <2>3 DEF SessionRequest
<1>6. req' \in [Requests -> SessionRequest]
  BY <1>1, <1>5
<1>7. \A r \in Requests : Standing(r)'
  BY <1>1, <1>5 DEF Standing, PlaceOfSessions
<1>8. PlaceOfSessions'
  BY <1>1, <1>2, <1>3, <1>4, <1>6, <1>7
     DEF PlaceOfSessions, SessionsTypeOK, SessionRequest, Codes
<1>9. QED
  BY <1>4, <1>5, <1>8

LEMMA RestartPlace ==
  ASSUME PlaceOfSessions, Restart
  PROVE  PlaceOfSessions' /\ \A r \in Requests : req'[r] = NoRequest
<1>1. /\ troubles < MaxTroubles /\ troubles' = troubles + 1
      /\ req' = [r \in Requests |-> NoRequest]
      /\ blacklist' = {}
      /\ disturbed' = disturbed \cup {req[r].code : r \in
                         {r \in Requests : req[r].pc \in {"store", "mail", "clear"}}}
      /\ UNCHANGED <<user, roles, kyc, kyb, sent, links, inbox, tokens, opened,
                     replaced, calls>>
  BY DEF Restart, Trouble, account, mail
<1>2. troubles' \in 0..MaxTroubles
  BY <1>1, SessionConstants DEF PlaceOfSessions, SessionsTypeOK
<1>3. disturbed' \subseteq Codes
  BY <1>1 DEF PlaceOfSessions, SessionsTypeOK, Standing
<1>4. req' \in [Requests -> SessionRequest] /\ \A r \in Requests : req'[r] = NoRequest
  BY <1>1, NoRequestType
<1>5. \A r \in Requests : Standing(r)'
  BY <1>1, <1>4, SessionConstants
     DEF Standing, NoRequest, NoCode, PlaceOfSessions, SessionsTypeOK
<1>6. PlaceOfSessions'
  BY <1>1, <1>2, <1>3, <1>4, <1>5
     DEF PlaceOfSessions, SessionsTypeOK, SessionRequest, Codes
<1>7. QED
  BY <1>4, <1>6

\* What a step of the sessions is.
LEMMA SessionCases ==
  ASSUME PlaceOfSessions, [SessionsNext]_sessionvars
  PROVE  \/ \E r \in Requests, kind \in {"login", "forgot"} :
               Starts(r, kind, IF kind = "login" THEN "store" ELSE "mail")
         \/ \E r \in Requests : StoreCode(r) \/ StoreOrMailFails(r) \/ SendMail(r)
         \/ \E r \in Requests : ClearCode(r) \/ Answer(r) \/ SetPassword(r)
         \/ \E r \in Requests, c \in inbox, kind \in {"verify", "reset"} :
               Uses(r, c, kind,
                    IF kind = "verify" THEN "clear" ELSE "setpassword",
                    IF kind = "verify" THEN Opens ELSE NoToken)
         \/ \E r \in Requests, c \in Companies : Signs(r, FullToken(c))
         \/ PlaceOfSessions' /\ Quietly /\ NothingNew /\ kyc' = kyc /\ kyb' = kyb
         \/ ReviewChanges \/ Restart
<1>1. CASE \E r \in Requests : \/ Login(r) \/ ResendOtp(r) \/ ForgotPassword(r)
                               \/ \E c \in Companies : LoginWithCompany(r, c)
  <2>1. ASSUME NEW r \in Requests, Starts(r, "login", "store")
        PROVE  \E q \in Requests, kind \in {"login", "forgot"} :
                 Starts(q, kind, IF kind = "login" THEN "store" ELSE "mail")
    <3>1. Starts(r, "login", IF "login" = "login" THEN "store" ELSE "mail")
      BY <2>1
    <3>2. QED
      BY <3>1
  <2>2. ASSUME NEW r \in Requests, Starts(r, "forgot", "mail")
        PROVE  \E q \in Requests, kind \in {"login", "forgot"} :
                 Starts(q, kind, IF kind = "login" THEN "store" ELSE "mail")
    <3>1. Starts(r, "forgot", IF "forgot" = "login" THEN "store" ELSE "mail")
      BY <2>2
    <3>2. QED
      BY <3>1
  <2>3. QED
    BY <1>1, <2>1, <2>2 DEF Login, ResendOtp, ForgotPassword, LoginWithCompany
<1>2. ASSUME NEW r \in Requests, NEW c \in inbox,
             VerifyOtp(r, c) \/ ResetPassword(r, c)
      PROVE  \E kind \in {"verify", "reset"} :
               Uses(r, c, kind,
                    IF kind = "verify" THEN "clear" ELSE "setpassword",
                    IF kind = "verify" THEN Opens ELSE NoToken)
  <2>1. CASE VerifyOtp(r, c)
    <3>1. Uses(r, c, "verify",
               IF "verify" = "verify" THEN "clear" ELSE "setpassword",
               IF "verify" = "verify" THEN Opens ELSE NoToken)
      BY <2>1 DEF VerifyOtp
    <3>2. QED
      BY <3>1
  <2>2. CASE ResetPassword(r, c)
    <3>1. Uses(r, c, "reset",
               IF "reset" = "verify" THEN "clear" ELSE "setpassword",
               IF "reset" = "verify" THEN Opens ELSE NoToken)
      BY <2>2 DEF ResetPassword
    <3>2. QED
      BY <3>1
  <2>3. QED
    BY <1>2, <2>1, <2>2
<1>3. ASSUME NEW s \in Slots, NEW r \in Requests, NEW c \in Companies,
             SelectCompany(r, s, c) \/ SwitchCompany(r, s, c)
      PROVE  Signs(r, FullToken(c))
  BY <1>3 DEF SelectCompany, SwitchCompany
<1>4. ASSUME \/ \E c \in Companies : AcceptInvitation(c) \/ GenerateToken(c)
             \/ \E s \in Slots : Logout(s) \/ TokenExpires(s)
             \/ CodeExpires \/ ToggleUserStatus \/ UNCHANGED sessionvars
      PROVE  PlaceOfSessions' /\ Quietly /\ NothingNew /\ kyc' = kyc /\ kyb' = kyb
  BY <1>4, QuietPlace DEF Quietly
<1>5. QED
  BY <1>1, <1>2, <1>3, <1>4 DEF SessionsNext

LEMMA StepPlaceOfSessions ==
  PlaceOfSessions /\ [SessionsNext]_sessionvars => PlaceOfSessions'
<1> SUFFICES ASSUME PlaceOfSessions, [SessionsNext]_sessionvars
             PROVE  PlaceOfSessions'
  OBVIOUS
<1>1. Opens \in Token
  BY TokenTypes DEF PlaceOfSessions, SessionsTypeOK
<1>2. QED
  BY <1>1, SessionCases, StartsPlace, StoreMailPlace, EndsPlace, UsesPlace,
     SignsPlace, ReviewPlace, RestartPlace, TokenTypes

LEMMA AlwaysPlaceOfSessions == SessionsSpec => []PlaceOfSessions
<1>1. QED
  BY InitPlaceOfSessions, StepPlaceOfSessions, PTL DEF SessionsSpec

\* For any requests: the state is always of its type.
THEOREM SessionsTypeCorrect == SessionsSpec => []SessionsTypeOK
<1>1. PlaceOfSessions => SessionsTypeOK
  BY DEF PlaceOfSessions
<1>2. QED
  BY <1>1, AlwaysPlaceOfSessions, PTL

-----------------------------------------------------------------------------
(***************************************************************************)
(* A code opens one session                                                *)
(***************************************************************************)
\* Where the steps of a request leave it, and the others.
LEMMA Advances ==
  ASSUME PlaceOfSessions, NEW r \in Requests
  PROVE  /\ \A pc \in {"mail", "store", "answer"} : Goto(r, pc) =>
              /\ req'[r].pc = pc /\ req'[r].code = req[r].code
              /\ req'[r].kind = req[r].kind /\ req'[r].token = req[r].token
              /\ \A q \in Requests \ {r} : req'[q] = req[q]
         /\ Ends(r) =>
              /\ req'[r] = NoRequest
              /\ \A q \in Requests \ {r} : req'[q] = req[q]
<1>1. req \in [Requests -> SessionRequest]
  BY DEF PlaceOfSessions, SessionsTypeOK, SessionRequest
<1>2. ASSUME NEW pc \in {"mail", "store", "answer"}, Goto(r, pc)
      PROVE  /\ req'[r].pc = pc /\ req'[r].code = req[r].code
             /\ req'[r].kind = req[r].kind /\ req'[r].token = req[r].token
             /\ \A q \in Requests \ {r} : req'[q] = req[q]
  BY <1>1, <1>2 DEF Goto, SessionRequest
<1>3. ASSUME Ends(r)
      PROVE  /\ req'[r] = NoRequest
             /\ \A q \in Requests \ {r} : req'[q] = req[q]
  BY <1>1, <1>3 DEF Ends
<1>4. QED
  BY <1>2, <1>3

LEMMA NoRequestFields ==
  /\ NoRequest.pc = "idle" /\ NoRequest.code = NoCode
  /\ NoRequest.token = NoToken /\ NoToken.mode = "none"
  /\ NoCode \notin Codes
  BY DEF NoRequest, NoToken, NoCode, Codes

\* What a step leaves of the requests that are about code c.
Apart(c) ==
    \A q \in Requests : req'[q].code = c =>
        /\ req[q].code = c /\ req'[q].kind = req[q].kind
        /\ \/ req'[q].pc = req[q].pc
           \/ req'[q].pc \notin {"store", "mail", "clear", "setpassword"}

LEMMA Untouched ==
  ASSUME CodeInv, NEW c \in Codes, Apart(c),
         opened'[c] = opened[c], user'.otp = c => user.otp = c,
         c \in inbox' => c \in inbox, disturbed \subseteq disturbed'
  PROVE  Made(c)' /\ (c \notin disturbed' => Used(c)')
<1>1. Made(c) /\ (c \notin disturbed => Used(c))
  BY DEF CodeInv
<1>2. Made(c)'
  BY <1>1 DEF Made, Apart
<1>3. ASSUME c \notin disturbed' PROVE Used(c)'
  BY <1>1, <1>3 DEF Used, Apart
<1>4. QED
  BY <1>2, <1>3

LEMMA StartsCodes ==
  ASSUME PlaceOfSessions, CodeInv, NEW r \in Requests,
         NEW kind \in {"login", "forgot"}, NEW pc \in {"store", "mail"},
         Starts(r, kind, pc)
  PROVE  CodeInv'
<1>1. /\ req'[r].code = sent + 1 /\ req'[r].pc = pc
      /\ \A q \in Requests \ {r} : req'[q] = req[q]
  BY StartsPlace
<1>2. UNCHANGED <<user, inbox, opened, disturbed>>
  BY DEF Starts, uses
<1>3. /\ \A q \in Requests : req[q].code \in 0..sent
      /\ user.otp \in 0..sent /\ inbox \subseteq 1..sent /\ sent \in Nat
      /\ \A c \in Codes : c > sent => opened[c] = 0
  BY SessionConstants DEF PlaceOfSessions, Standing, SessionsTypeOK
<1>4. ASSUME NEW c \in Codes, c # sent + 1
      PROVE  Made(c)' /\ (c \notin disturbed' => Used(c)')
  <2>1. Apart(c)
    BY <1>1, <1>4 DEF Apart
  <2>2. QED
    BY <2>1, <1>2, Untouched
<1>5. ASSUME NEW c \in Codes, c = sent + 1
      PROVE  Made(c)' /\ Used(c)'
  <2>1. /\ \A q \in Requests : req'[q].code = c => q = r
        /\ opened'[c] = 0 /\ user'.otp # c /\ c \notin inbox'
    <3>1. c > sent /\ c \notin 0..sent /\ c \notin 1..sent
      BY <1>3, <1>5
    <3>2. QED
      BY <3>1, <1>1, <1>2, <1>3
  <2>2. QED
    BY <2>1, <1>1 DEF Made, Used
<1>6. QED
  BY <1>4, <1>5 DEF CodeInv

LEMMA StoreMailCodes ==
  ASSUME PlaceOfSessions, CodeInv, NEW r \in Requests,
         StoreCode(r) \/ StoreOrMailFails(r) \/ SendMail(r)
  PROVE  CodeInv'
<1> DEFINE d == req[r].code
<1>1. /\ d \in Codes /\ d # NoCode
      /\ req[r].pc \in {"store", "mail"} /\ req[r].kind \in {"login", "forgot"}
  BY SessionConstants DEF StoreCode, StoreOrMailFails, SendMail, PlaceOfSessions,
     Standing, SessionsTypeOK, Codes, NoCode
<1>2. /\ opened' = opened /\ disturbed \subseteq disturbed'
      /\ user'.otp = user.otp \/ user'.otp = d
      /\ inbox' \subseteq inbox \cup {d}
      /\ Ends(r) \/ \E pc \in {"mail", "store"} : Goto(r, pc)
  <2>1. user \in SessionUser
    BY DEF PlaceOfSessions, SessionsTypeOK, SessionUser
  <2>2. QED
    BY <2>1, <1>1, UserTypes
       DEF StoreCode, StoreOrMailFails, SendMail, mail, uses
<1>3. /\ \A q \in Requests \ {r} : req'[q] = req[q]
      /\ req'[r].code = d \/ req'[r].code = NoCode
  BY <1>2, Advances, NoRequestFields
<1>4. ASSUME NEW c \in Codes, c # d
      PROVE  Made(c)' /\ (c \notin disturbed' => Used(c)')
  <2>1. Apart(c)
    BY <1>3, <1>4, NoRequestFields DEF Apart
  <2>2. QED
    BY <2>1, <1>2, <1>4, Untouched
<1>5. /\ \A q \in Requests : req[q].code = d => q = r
      /\ opened[d] = 0
      /\ req[r].pc = "store" \/ req[r].kind = "forgot" => user.otp # d
      /\ req[r].pc = "mail" \/ req[r].kind = "login" => d \notin inbox
  BY <1>1 DEF CodeInv, Made
<1>6. /\ opened'[d] = 0
      /\ \A q \in Requests : req'[q].code = d => q = r
  BY <1>2, <1>3, <1>5
<1>7. /\ req'[r].code = d => req'[r].pc \in {"store", "mail"}
      /\ req'[r].code = d /\ req'[r].pc = "store" =>
            user'.otp # d /\ req'[r].kind = "forgot"
      /\ req'[r].code = d /\ req'[r].pc = "mail" =>
            req'[r].kind = "login" /\ d \notin inbox'
  <2>1. CASE req'[r] = NoRequest
    BY <2>1, <1>1, NoRequestFields
  <2>2. CASE StoreCode(r) /\ Goto(r, "mail")
    <3>1. req[r].kind = "login" /\ inbox' = inbox
      <4>1. ~Ends(r)
        BY <2>2, <1>1, Advances, NoRequestFields
      <4>2. QED
        BY <4>1, <2>2 DEF StoreCode, mail
    <3>2. req'[r].pc = "mail" /\ req'[r].kind = "login"
      BY <3>1, <2>2, Advances
    <3>3. QED
      BY <3>1, <3>2, <1>5
  <2>3. CASE SendMail(r) /\ Goto(r, "store")
    <3>1. req[r].kind # "login" /\ user' = user
      <4>1. ~Ends(r)
        BY <2>3, <1>1, Advances, NoRequestFields
      <4>2. QED
        BY <4>1, <2>3 DEF SendMail
    <3>2. req'[r].pc = "store" /\ req'[r].kind = "forgot"
      BY <3>1, <2>3, <1>1, Advances
    <3>3. QED
      BY <3>1, <3>2, <1>5, <1>1
  <2>4. QED
    BY <2>1, <2>2, <2>3, Advances DEF StoreCode, StoreOrMailFails, SendMail
<1>8. ASSUME NEW c \in Codes, c = d
      PROVE  Made(c)' /\ Used(c)'
  <2> HIDE DEF d
  <2>1. Made(c)'
    BY <1>6, <1>7, <1>8 DEF Made
  <2>2. Used(c)'
    BY <1>6, <1>7, <1>8 DEF Used
  <2>3. QED
    BY <2>1, <2>2
<1>9. QED
  BY <1>4, <1>8 DEF CodeInv

LEMMA UsesCodes ==
  ASSUME PlaceOfSessions, CodeInv, NEW r \in Requests, NEW c \in inbox,
         NEW kind \in {"verify", "reset"}, NEW pc \in {"clear", "setpassword"},
         NEW token \in Token \cup {NoToken},
         Uses(r, c, kind, pc, token)
  PROVE  CodeInv'
<1>1. /\ req'[r].code = c /\ req'[r].pc = pc
      /\ \A q \in Requests \ {r} : req'[q] = req[q]
  BY UsesPlace
<1>2. /\ UNCHANGED <<user, inbox, opened>>
      /\ user.otp = c
      /\ disturbed' = IF InUse(c) THEN disturbed \cup {c} ELSE disturbed
  BY DEF Uses, mail
<1>3. c \in Codes /\ opened \in [Codes -> Nat]
  BY SessionConstants DEF PlaceOfSessions, SessionsTypeOK, Codes
<1>4. ASSUME NEW d \in Codes, d # c
      PROVE  Made(d)' /\ (d \notin disturbed' => Used(d)')
  <2>1. Apart(d)
    BY <1>1, <1>4 DEF Apart
  <2>2. QED
    BY <2>1, <1>2, Untouched
<1>5. Made(c)'
  <2>1. \A q \in Requests : req[q].code = c => req[q].pc \notin {"store", "mail"}
    BY <1>2, <1>3 DEF CodeInv, Made
  <2>2. \A q \in Requests : req'[q].code = c => req'[q].pc \notin {"store", "mail"}
    BY <2>1, <1>1
  <2>3. QED
    BY <2>2 DEF Made
<1>6. ASSUME c \notin disturbed' PROVE Used(c)'
  <2>1. ~InUse(c) /\ Used(c)
    BY <1>2, <1>3, <1>6 DEF CodeInv
  <2>2. opened[c] = 0
    BY <2>1, <1>2, <1>3 DEF Used
  <2>3. QED
    BY <2>1, <2>2, <1>1, <1>2 DEF Used, InUse
<1>7. QED
  BY <1>4, <1>5, <1>6 DEF CodeInv

LEMMA EndsCodes ==
  ASSUME PlaceOfSessions, CodeInv, NEW r \in Requests,
         ClearCode(r) \/ Answer(r) \/ SetPassword(r)
  PROVE  CodeInv'
<1> DEFINE d == req[r].code
<1>1. /\ user \in SessionUser /\ opened \in [Codes -> Nat]
      /\ Emptied.otp = NoCode /\ [Emptied EXCEPT !.hashes = 2].otp = NoCode
  <2>1. user \in SessionUser
    BY DEF PlaceOfSessions, SessionsTypeOK, SessionUser
  <2>2. 2 \in 1..2
    OBVIOUS
  <2>3. QED
    BY <2>1, <2>2, UserTypes DEF PlaceOfSessions, SessionsTypeOK
<1>2. /\ inbox' = inbox /\ disturbed \subseteq disturbed'
      /\ user'.otp = user.otp \/ user'.otp = NoCode
      /\ opened' = opened \/ opened' = [opened EXCEPT ![d] = @ + 1]
      /\ Ends(r) \/ Goto(r, "answer")
  BY <1>1 DEF ClearCode, Answer, SetPassword, mail, uses
<1>3. /\ \A q \in Requests \ {r} : req'[q] = req[q]
      /\ req'[r].pc \in {"idle", "answer"}
      /\ req'[r].code = NoCode \/
           (req'[r].code = req[r].code /\ req'[r].kind = req[r].kind)
  BY <1>2, Advances, NoRequestFields
<1>4. \A c \in Codes : Apart(c)
  BY <1>3, NoRequestFields DEF Apart
<1>5. ASSUME NEW c \in Codes, opened'[c] = opened[c]
      PROVE  Made(c)' /\ (c \notin disturbed' => Used(c)')
  BY <1>2, <1>4, <1>5, NoRequestFields, Untouched
<1>6. ASSUME NEW c \in Codes, c = d, opened' = [opened EXCEPT ![c] = @ + 1],
             req[r].pc \in {"clear", "setpassword"},
             c \notin disturbed' => user'.otp = NoCode
      PROVE  Made(c)' /\ (c \notin disturbed' => Used(c)')
  <2>1. Made(c)'
    <3>1. \A q \in Requests : req[q].code = c => req[q].pc \notin {"store", "mail"}
      BY <1>6 DEF CodeInv, Made
    <3>2. \A q \in Requests : req'[q].code = c => req'[q].pc \notin {"store", "mail"}
      BY <3>1, <1>3
    <3>3. QED
      BY <3>2 DEF Made
  <2>2. ASSUME c \notin disturbed' PROVE Used(c)'
    <3>1. Used(c)
      BY <2>2, <1>2, <1>6 DEF CodeInv
    <3>2. /\ opened[c] = 0
          /\ \A q \in Requests :
                req[q].code = c /\ req[q].pc \in {"clear", "setpassword"} => q = r
      BY <3>1, <1>6 DEF Used
    <3>3. opened'[c] = 1
      BY <3>2, <1>1, <1>6
    <3>4. \A q \in Requests :
             ~(req'[q].code = c /\ req'[q].pc \in {"clear", "setpassword"})
      BY <3>2, <1>3
    <3>5. user'.otp # c
      BY <2>2, <1>6, NoRequestFields
    <3>6. QED
      BY <3>3, <3>4, <3>5 DEF Used
  <2>3. QED
    BY <2>1, <2>2
<1>7. /\ req[r].pc \in {"clear", "setpassword"} => d \in Codes
      /\ opened' # opened =>
            /\ req[r].pc \in {"clear", "setpassword"}
            /\ opened' = [opened EXCEPT ![d] = @ + 1]
            /\ d \notin disturbed' => user'.otp = NoCode
  <2>1. req[r].pc \in {"clear", "setpassword"} => d \in Codes
    BY SessionConstants DEF PlaceOfSessions, SessionsTypeOK, SessionRequest,
       Standing, Codes, NoCode
  <2>2. CASE ClearCode(r)
    BY <2>1, <2>2, <1>1 DEF ClearCode
  <2>3. CASE Answer(r)
    BY <2>1, <2>3 DEF Answer, uses
  <2>4. CASE SetPassword(r)
    BY <2>1, <2>4, <1>1 DEF SetPassword
  <2>5. QED
    BY <2>2, <2>3, <2>4
<1>8. ASSUME NEW c \in Codes
      PROVE  Made(c)' /\ (c \notin disturbed' => Used(c)')
  <2>1. CASE opened' = opened
    BY <2>1, <1>5
  <2>2. CASE opened' # opened /\ c # d
    <3>1. opened'[c] = opened[c]
      BY <2>2, <1>7, <1>1
    <3>2. QED
      BY <3>1, <1>5
  <2>3. CASE opened' # opened /\ c = d
    BY <2>3, <1>6, <1>7
  <2>4. QED
    BY <2>1, <2>2, <2>3
<1>9. QED
  BY <1>8 DEF CodeInv

LEMMA StepCodes ==
  PlaceOfSessions /\ CodeInv /\ [SessionsNext]_sessionvars => CodeInv'
<1> SUFFICES ASSUME PlaceOfSessions, CodeInv, [SessionsNext]_sessionvars
             PROVE  CodeInv'
  OBVIOUS
<1>1. Opens \in Token
  BY TokenTypes DEF PlaceOfSessions, SessionsTypeOK
<1>2. ASSUME \A c \in Codes : Apart(c), opened' = opened, user'.otp = user.otp,
             inbox' = inbox, disturbed \subseteq disturbed'
      PROVE  CodeInv'
  <2>1. ASSUME NEW c \in Codes
        PROVE  Made(c)' /\ (c \notin disturbed' => Used(c)')
    BY <1>2, Untouched
  <2>2. QED
    BY <2>1 DEF CodeInv
<1>3. ASSUME NEW r \in Requests, NEW c \in Companies, Signs(r, FullToken(c))
      PROVE  CodeInv'
  <2>1. /\ req'[r].code = NoCode
        /\ \A q \in Requests \ {r} : req'[q] = req[q]
    BY <1>3, TokenTypes, SignsPlace
  <2>2. \A d \in Codes : Apart(d)
    BY <2>1, NoRequestFields DEF Apart
  <2>3. UNCHANGED <<opened, user, inbox, disturbed>>
    BY <1>3 DEF Signs, uses, mail
  <2>4. QED
    BY <2>2, <2>3, <1>2
<1>4. ASSUME Quietly PROVE CodeInv'
  <2>1. \A d \in Codes : Apart(d)
    BY <1>4 DEF Quietly, Apart
  <2>2. QED
    BY <2>1, <1>4, <1>2 DEF Quietly
<1>5. CASE ReviewChanges
  <2>1. \A d \in Codes : Apart(d)
    BY <1>5, ReviewPlace DEF Apart
  <2>2. UNCHANGED <<opened, user, inbox, disturbed>>
    BY <1>5 DEF ReviewChanges, uses, mail
  <2>3. QED
    BY <2>1, <2>2, <1>2
<1>6. CASE Restart
  <2>1. \A d \in Codes : Apart(d)
    BY <1>6, RestartPlace, NoRequestFields DEF Apart
  <2>2. UNCHANGED <<opened, user, inbox>> /\ disturbed \subseteq disturbed'
    BY <1>6 DEF Restart, mail
  <2>3. QED
    BY <2>1, <2>2, <1>2
<1>7. QED
  BY <1>1, <1>3, <1>4, <1>5, <1>6, SessionCases, StartsCodes, StoreMailCodes,
     EndsCodes, UsesCodes

LEMMA InitCodes == SessionsInit => CodeInv
<1> SUFFICES ASSUME SessionsInit PROVE CodeInv
  OBVIOUS
<1>1. /\ \A r \in Requests : req[r].code = NoCode
      /\ \A c \in Codes : opened[c] = 0
  BY NoRequestFields DEF SessionsInit
<1>2. QED
  BY <1>1, NoRequestFields DEF CodeInv, Made, Used

LEMMA AlwaysCodes == SessionsSpec => [](PlaceOfSessions /\ CodeInv)
<1>1. SessionsInit => PlaceOfSessions /\ CodeInv
  BY InitPlaceOfSessions, InitCodes
<1>2. PlaceOfSessions /\ CodeInv /\ [SessionsNext]_sessionvars
        => PlaceOfSessions' /\ CodeInv'
  BY StepPlaceOfSessions, StepCodes
<1>3. QED
  BY <1>1, <1>2, PTL DEF SessionsSpec

\* For any requests and mails: a code opens one session, and a link sets the
\* password once, unless two requests used it at once or its clearing failed.
THEOREM CodesOpenOnce == SessionsSpec => []CodeOpensOnce
<1>1. PlaceOfSessions /\ CodeInv => CodeOpensOnce
  BY DEF CodeInv, Used, CodeOpensOnce
<1>2. QED
  BY <1>1, AlwaysCodes, PTL

-----------------------------------------------------------------------------
(***************************************************************************)
(* A mailed code works                                                     *)
(***************************************************************************)
\* The code is in the column, on its way to it, or is no longer asked about.
Kept(c) == c \in replaced \cup disturbed \/ opened[c] > 0
           \/ user.otp = c \/ Coming(c)

\* What a step leaves of the code on its way: its request stands where it did.
Moving(c) ==
    \A q \in Requests : req[q].code = c /\ req[q].pc \in {"store", "mail"} =>
        /\ req'[q].code = c /\ req'[q].pc = req[q].pc
        /\ req'[q].kind = req[q].kind

LEMMA StillKept ==
  ASSUME PlaceOfSessions, NEW c \in Codes, Kept(c), Moving(c),
         opened' \in [Codes -> Nat], opened'[c] >= opened[c],
         user.otp = c => user'.otp = c \/ c \in replaced' \/ opened'[c] > 0,
         replaced \subseteq replaced', disturbed \subseteq disturbed'
  PROVE  Kept(c)'
<1>1. opened[c] > 0 => opened'[c] > 0
  BY DEF PlaceOfSessions, SessionsTypeOK
<1>2. Coming(c) => Coming(c)'
  BY DEF Coming, Moving
<1>3. QED
  BY <1>1, <1>2 DEF Kept

LEMMA MailInvIsKept ==
  PlaceOfSessions => (MailInv <=> \A c \in 1..sent : Kept(c))
<1> SUFFICES ASSUME PlaceOfSessions
             PROVE  MailInv <=> \A c \in 1..sent : Kept(c)
  OBVIOUS
<1>1. \A c \in 1..sent : c \in Codes /\ opened[c] \in Nat
  BY SessionConstants DEF PlaceOfSessions, SessionsTypeOK, Codes
<1>2. \A c \in 1..sent : opened[c] > 0 <=> opened[c] # 0
  BY <1>1
<1>3. QED
  BY <1>2 DEF MailInv, Kept

LEMMA MailInvIsKeptNext ==
  PlaceOfSessions' => (MailInv' <=> \A c \in 1..sent' : Kept(c)')
<1>1. (PlaceOfSessions => (MailInv <=> \A c \in 1..sent : Kept(c)))'
  BY MailInvIsKept, PTL
<1>2. QED
  BY <1>1

LEMMA StartsMail ==
  ASSUME PlaceOfSessions, \A c \in 1..sent : Kept(c), NEW r \in Requests,
         NEW kind \in {"login", "forgot"},
         Starts(r, kind, IF kind = "login" THEN "store" ELSE "mail")
  PROVE  \A c \in 1..sent' : Kept(c)'
<1> DEFINE pc == IF kind = "login" THEN "store" ELSE "mail"
<1>0. pc \in {"store", "mail"}
  OBVIOUS
<1>1. /\ req'[r].code = sent + 1 /\ req'[r].pc = pc /\ req'[r].kind = kind
      /\ \A q \in Requests \ {r} : req'[q] = req[q]
      /\ req[r].pc = "idle"
  BY <1>0, StartsPlace DEF Starts
<1>2. UNCHANGED <<user, opened, replaced, disturbed>> /\ sent' = sent + 1
  BY DEF Starts, uses
<1>3. sent \in 0..MaxMails /\ opened \in [Codes -> Nat]
  BY DEF PlaceOfSessions, SessionsTypeOK
<1>4. ASSUME NEW c \in 1..sent PROVE Kept(c)'
  <2>1. c \in Codes /\ opened[c] \in Nat
    BY <1>3, SessionConstants DEF Codes
  <2>2. Moving(c)
    BY <1>1 DEF Moving
  <2>3. opened'[c] >= opened[c] /\ opened' \in [Codes -> Nat]
    BY <2>1, <1>2, <1>3
  <2>4. QED
    BY <2>1, <2>2, <2>3, <1>2, StillKept
<1>5. ASSUME NEW c \in Nat, c = sent + 1 PROVE Kept(c)'
  BY <1>1, <1>5 DEF Kept, Coming
<1>6. 1..sent' = (1..sent) \cup {sent + 1} /\ sent + 1 \in Nat
  BY <1>2, <1>3, SessionConstants
<1>7. QED
  BY <1>4, <1>5, <1>6

LEMMA StoreMailMail ==
  ASSUME PlaceOfSessions, NEW r \in Requests, NEW c \in Codes, Kept(c),
         StoreCode(r) \/ StoreOrMailFails(r) \/ SendMail(r)
  PROVE  Kept(c)'
<1> DEFINE d == req[r].code
<1>1. /\ d \in Codes /\ d # NoCode /\ req[r].kind \in {"login", "forgot"}
      /\ req[r].pc \in {"store", "mail"}
  BY SessionConstants DEF StoreCode, StoreOrMailFails, SendMail, PlaceOfSessions,
     Standing, SessionsTypeOK, Codes, NoCode
<1>2. /\ opened' = opened /\ opened \in [Codes -> Nat] /\ user \in SessionUser
      /\ disturbed \subseteq disturbed' /\ replaced \subseteq replaced'
  BY DEF StoreCode, StoreOrMailFails, SendMail, uses, PlaceOfSessions,
     SessionsTypeOK, SessionUser
<1>3. \A q \in Requests \ {r} : req'[q] = req[q]
  BY Advances DEF StoreCode, StoreOrMailFails, SendMail
<1>4. opened'[c] >= opened[c] /\ opened' \in [Codes -> Nat]
  BY <1>2
<1>5. /\ StoreCode(r) => user'.otp = d /\ replaced' = replaced \cup ({user.otp} \ {NoCode})
      /\ ~StoreCode(r) => user' = user
  BY <1>1, <1>2, UserTypes DEF StoreCode, StoreOrMailFails, SendMail
<1>6. user.otp = c => user'.otp = c \/ c \in replaced'
  BY <1>5, NoRequestFields
<1>7. CASE c # d
  <2>1. Moving(c)
    BY <1>3, <1>7 DEF Moving
  <2>2. QED
    BY <2>1, <1>2, <1>4, <1>6, StillKept
<1>8. CASE c = d /\ StoreCode(r)
  BY <1>5, <1>8 DEF Kept
<1>9. CASE c = d /\ StoreOrMailFails(r)
  BY <1>9 DEF Kept, StoreOrMailFails
<1>10. CASE c = d /\ SendMail(r) /\ req[r].kind = "forgot"
  <2>1. Goto(r, "store")
    BY <1>10 DEF SendMail
  <2>2. req'[r].code = c /\ req'[r].pc = "store"
    BY <2>1, <1>10, Advances
  <2>3. QED
    BY <2>2 DEF Kept, Coming
<1>11. CASE c = d /\ SendMail(r) /\ req[r].kind = "login"
  <2>1. Coming(c) => Coming(c)'
    <3>1. req[r].pc = "mail"
      BY <1>11 DEF SendMail
    <3>2. QED
      BY <3>1, <1>3, <1>11 DEF Coming
  <2>2. user' = user /\ opened'[c] = opened[c]
    BY <1>11, <1>2 DEF SendMail
  <2>3. QED
    BY <2>1, <2>2, <1>2 DEF Kept
<1>12. QED
  BY <1>1, <1>7, <1>8, <1>9, <1>10, <1>11

LEMMA EndsMail ==
  ASSUME PlaceOfSessions, NEW r \in Requests, NEW c \in Codes, Kept(c),
         ClearCode(r) \/ Answer(r) \/ SetPassword(r)
  PROVE  Kept(c)'
<1> DEFINE d == req[r].code
<1>1. user \in SessionUser /\ opened \in [Codes -> Nat]
  BY DEF PlaceOfSessions, SessionsTypeOK, SessionUser
<1>2. /\ req[r].pc \notin {"store", "mail"}
      /\ disturbed \subseteq disturbed' /\ replaced \subseteq replaced'
  BY DEF ClearCode, Answer, SetPassword, uses, Wiped
<1>3. \A q \in Requests \ {r} : req'[q] = req[q]
  BY Advances DEF ClearCode, Answer, SetPassword
<1>4. Moving(c)
  BY <1>2, <1>3 DEF Moving
<1>5. \/ opened' = opened /\ user' = user
      \/ /\ d \in Codes => opened' = [opened EXCEPT ![d] = @ + 1]
         /\ req[r].pc \in {"clear", "setpassword"}
         /\ user' = user \/ replaced' = Wiped(d)
  BY DEF ClearCode, Answer, SetPassword, uses
<1>6. req[r].pc \in {"clear", "setpassword"} => d \in Codes
  BY SessionConstants DEF PlaceOfSessions, SessionsTypeOK, SessionRequest,
     Standing, Codes, NoCode
<1>7. opened' \in [Codes -> Nat] /\ opened'[c] >= opened[c]
  BY <1>1, <1>5, <1>6
<1>8. user.otp = c => user'.otp = c \/ c \in replaced' \/ opened'[c] > 0
  <2>1. CASE user' = user
    BY <2>1
  <2>2. CASE user' # user /\ c = d
    BY <2>2, <1>1, <1>5, <1>6
  <2>3. CASE user' # user /\ c # d
    BY <2>3, <1>5, NoRequestFields DEF Wiped
  <2>4. QED
    BY <2>1, <2>2, <2>3
<1>9. QED
  BY <1>2, <1>4, <1>7, <1>8, StillKept

LEMMA StepMail ==
  PlaceOfSessions /\ MailInv /\ [SessionsNext]_sessionvars => MailInv'
<1> SUFFICES ASSUME PlaceOfSessions, MailInv, [SessionsNext]_sessionvars
             PROVE  MailInv'
  OBVIOUS
<1>1. /\ \A c \in 1..sent : c \in Codes /\ Kept(c)
      /\ opened \in [Codes -> Nat] /\ Opens \in Token
  BY MailInvIsKept, TokenTypes, SessionConstants
     DEF PlaceOfSessions, SessionsTypeOK, Codes
<1>2. SUFFICES \A c \in 1..sent' : Kept(c)'
  BY MailInvIsKeptNext, StepPlaceOfSessions
<1>3. ASSUME sent' = sent, \A c \in Codes : Moving(c), opened' = opened,
             user'.otp = user.otp, replaced' = replaced,
             disturbed \subseteq disturbed'
      PROVE  \A c \in 1..sent' : Kept(c)'
  <2>1. ASSUME NEW c \in 1..sent PROVE Kept(c)'
    <3>1. c \in Codes /\ opened' \in [Codes -> Nat] /\ opened'[c] >= opened[c]
      BY <1>1, <1>3
    <3>2. QED
      BY <3>1, <1>1, <1>3, StillKept
  <2>2. QED
    BY <2>1, <1>3
<1>4. ASSUME NEW r \in Requests, NEW c \in Companies, Signs(r, FullToken(c))
      PROVE  \A d \in 1..sent' : Kept(d)'
  <2>1. req[r].pc = "idle" /\ \A q \in Requests \ {r} : req'[q] = req[q]
    BY <1>4, TokenTypes, SignsPlace DEF Signs
  <2>2. \A d \in Codes : Moving(d)
    BY <2>1 DEF Moving
  <2>3. UNCHANGED <<opened, user, sent, replaced, disturbed>>
    BY <1>4 DEF Signs, uses, mail
  <2>4. QED
    BY <2>2, <2>3, <1>3
<1>5. ASSUME NEW r \in Requests, NEW c \in inbox, NEW kind \in {"verify", "reset"},
             Uses(r, c, kind, IF kind = "verify" THEN "clear" ELSE "setpassword",
                  IF kind = "verify" THEN Opens ELSE NoToken)
      PROVE  \A d \in 1..sent' : Kept(d)'
  <2>1. req[r].pc = "idle" /\ \A q \in Requests \ {r} : req'[q] = req[q]
    BY <1>1, <1>5, UsesPlace DEF Uses
  <2>2. \A d \in Codes : Moving(d)
    BY <2>1 DEF Moving
  <2>3. /\ UNCHANGED <<opened, user, sent, replaced>>
        /\ disturbed \subseteq disturbed'
    BY <1>5 DEF Uses, mail
  <2>4. QED
    BY <2>2, <2>3, <1>3
<1>6. ASSUME Quietly PROVE \A d \in 1..sent' : Kept(d)'
  <2>1. \A d \in Codes : Moving(d)
    BY <1>6 DEF Quietly, Moving
  <2>2. QED
    BY <2>1, <1>6, <1>3 DEF Quietly
<1>7. ASSUME ReviewChanges PROVE \A d \in 1..sent' : Kept(d)'
  <2>1. \A d \in Codes : Moving(d)
    BY <1>7, ReviewPlace DEF Moving
  <2>2. UNCHANGED <<opened, user, sent, replaced, disturbed>>
    BY <1>7 DEF ReviewChanges, uses, mail
  <2>3. QED
    BY <2>1, <2>2, <1>3
<1>8. ASSUME Restart PROVE \A d \in 1..sent' : Kept(d)'
  <2>1. /\ UNCHANGED <<opened, user, sent, replaced>>
        /\ disturbed' = disturbed \cup {req[r].code : r \in
                           {r \in Requests : req[r].pc \in {"store", "mail", "clear"}}}
    BY <1>8 DEF Restart, mail
  <2>2. \A d \in 1..sent : Coming(d) => d \in disturbed'
    BY <2>1 DEF Coming
  <2>3. ASSUME NEW d \in 1..sent PROVE Kept(d)'
    BY <1>1, <2>1, <2>2 DEF Kept
  <2>4. QED
    BY <2>1, <2>3
<1>9. ASSUME NEW r \in Requests,
             \/ StoreCode(r) \/ StoreOrMailFails(r) \/ SendMail(r)
             \/ ClearCode(r) \/ Answer(r) \/ SetPassword(r)
      PROVE  \A d \in 1..sent' : Kept(d)'
  <2>1. sent' = sent
    BY <1>9 DEF StoreCode, StoreOrMailFails, SendMail, ClearCode, Answer,
       SetPassword, mail
  <2>2. QED
    BY <1>1, <1>9, <2>1, StoreMailMail, EndsMail
<1>10. ASSUME NEW r \in Requests, NEW kind \in {"login", "forgot"},
              Starts(r, kind, IF kind = "login" THEN "store" ELSE "mail")
       PROVE  \A d \in 1..sent' : Kept(d)'
  BY <1>1, <1>10, StartsMail
<1>11. QED
  BY <1>4, <1>5, <1>6, <1>7, <1>8, <1>9, <1>10, SessionCases

\* For any requests and mails: a mailed code is in the users table until it
\* is used, replaced, or wiped out with another.
THEOREM MailedCodesWork == SessionsSpec => []MailedCodeWorks
<1>1. SessionsInit => PlaceOfSessions /\ MailInv
  <2>1. SessionsInit => sent = 0
    BY DEF SessionsInit
  <2>2. SessionsInit => MailInv
    BY <2>1 DEF MailInv
  <2>3. QED
    BY <2>2, InitPlaceOfSessions
<1>2. PlaceOfSessions /\ MailInv /\ [SessionsNext]_sessionvars
        => PlaceOfSessions' /\ MailInv'
  BY StepPlaceOfSessions, StepMail
<1>3. PlaceOfSessions /\ MailInv => MailedCodeWorks
  BY DEF PlaceOfSessions, SessionsTypeOK, MailInv, Coming, MailedCodeWorks
<1>4. QED
  BY <1>1, <1>2, <1>3, PTL DEF SessionsSpec

-----------------------------------------------------------------------------
(***************************************************************************)
(* Where a token in production mode comes from                             *)
(***************************************************************************)
LEMMA TruthfulTokens ==
  /\ \A t : t.mode = "none" => Truthful(t)
  /\ \A c : Truthful(FullToken(c))
  /\ Truthful(Opens) /\ Truthful(NoToken)
  /\ \A t \in Token \cup {NoToken} : Truthful(t) /\ Outdated(t).mode = "prod" =>
        Outdated(t).kind = "full" /\ Outdated(t).late
<1>1. \A t : t.mode = "none" => Truthful(t)
  BY DEF Truthful
<1>2. \A c : Truthful(FullToken(c))
  BY DEF Truthful, FullToken
<1>3. [NoToken EXCEPT !.kind = "temp"].mode = "none" /\ NoToken.mode = "none"
  BY DEF NoToken
<1>4. Truthful(Opens)
  BY <1>1, <1>2, <1>3 DEF Opens
<1>5. ASSUME NEW t \in Token \cup {NoToken}, Truthful(t), Outdated(t).mode = "prod"
      PROVE  Outdated(t).kind = "full" /\ Outdated(t).late
  <2>1. CASE t.kind = "full"
    <3>1. t \in Token
      BY <2>1 DEF NoToken
    <3>2. QED
      BY <2>1, <3>1 DEF Outdated, Token
  <2>2. CASE t.kind # "full"
    BY <2>2, <1>5 DEF Truthful, Outdated
  <2>3. QED
    BY <2>1, <2>2
<1>6. QED
  BY <1>1, <1>2, <1>3, <1>4, <1>5

LEMMA StepMode ==
  PlaceOfSessions /\ ModeInv /\ [SessionsNext]_sessionvars => ModeInv'
<1> SUFFICES ASSUME PlaceOfSessions, ModeInv, [SessionsNext]_sessionvars
             PROVE  ModeInv'
  OBVIOUS
<1>1. /\ Opens \in Token
      /\ \A r \in Requests : req[r].token \in Token \cup {NoToken}
      /\ \A s \in Slots : tokens[s] \in Token \cup {NoToken}
  BY TokenTypes DEF PlaceOfSessions, SessionsTypeOK
\* As long as the approvals stay, so do the truths.
<1>2. ASSUME kyc' = kyc, kyb' = kyb,
             \A s \in Slots : \/ tokens'[s] = tokens[s]
                              \/ tokens'[s].mode = "none"
                              \/ Truthful(tokens'[s]),
             \A r \in Requests : \/ req'[r].token = req[r].token
                                 \/ Truthful(req'[r].token)
      PROVE  ModeInv'
  BY <1>2 DEF ModeInv, Truthful, ModeOf
<1>3. ASSUME NEW r \in Requests, NEW kind \in {"login", "forgot"},
             Starts(r, kind, IF kind = "login" THEN "store" ELSE "mail")
      PROVE  ModeInv'
  <2>1. /\ req'[r].token = NoToken
        /\ \A q \in Requests \ {r} : req'[q] = req[q]
    BY <1>3, StartsPlace
  <2>2. UNCHANGED <<kyc, kyb, tokens>>
    BY <1>3 DEF Starts, account, held
  <2>3. QED
    BY <2>1, <2>2, <1>2, TruthfulTokens
<1>4. ASSUME NEW r \in Requests, NEW c \in inbox, NEW kind \in {"verify", "reset"},
             Uses(r, c, kind, IF kind = "verify" THEN "clear" ELSE "setpassword",
                  IF kind = "verify" THEN Opens ELSE NoToken)
      PROVE  ModeInv'
  <2>1. /\ req'[r].token \in {Opens, NoToken}
        /\ \A q \in Requests \ {r} : req'[q] = req[q]
    BY <1>1, <1>4, UsesPlace
  <2>2. UNCHANGED <<kyc, kyb, tokens>>
    BY <1>4 DEF Uses, account, held
  <2>3. QED
    BY <2>1, <2>2, <1>2, TruthfulTokens
<1>5. ASSUME NEW r \in Requests, NEW c \in Companies, Signs(r, FullToken(c))
      PROVE  ModeInv'
  <2>1. /\ req'[r].token = FullToken(c)
        /\ \A q \in Requests \ {r} : req'[q] = req[q]
    BY <1>5, TokenTypes, SignsPlace
  <2>2. UNCHANGED <<kyc, kyb, tokens>>
    BY <1>5 DEF Signs, account, held
  <2>3. QED
    BY <2>1, <2>2, <1>2, TruthfulTokens
<1>6. ASSUME NEW r \in Requests,
             \/ StoreCode(r) \/ StoreOrMailFails(r) \/ SendMail(r)
             \/ ClearCode(r) \/ Answer(r) \/ SetPassword(r)
      PROVE  ModeInv'
  <2>1. /\ \A q \in Requests \ {r} : req'[q] = req[q]
        /\ req'[r].token \in {req[r].token, NoToken}
    BY <1>6, Advances, NoRequestFields
       DEF StoreCode, StoreOrMailFails, SendMail, ClearCode, Answer, SetPassword
  <2>2. UNCHANGED <<kyc, kyb>>
    BY <1>6 DEF StoreCode, StoreOrMailFails, SendMail, ClearCode, Answer,
       SetPassword, account
  <2>3. \A s \in Slots : tokens'[s] \in {tokens[s], req[r].token}
    <3>1. CASE Answer(r)
      BY <1>1, <3>1, HandsType DEF Answer
    <3>2. CASE ~Answer(r)
      BY <1>6, <3>2 DEF StoreCode, StoreOrMailFails, SendMail, ClearCode,
         SetPassword, held
    <3>3. QED
      BY <3>1, <3>2
  <2>4. Truthful(req[r].token)
    BY DEF ModeInv
  <2>5. QED
    BY <2>1, <2>2, <2>3, <2>4, <1>2, TruthfulTokens
<1>7. ASSUME Quietly, NothingNew, kyc' = kyc, kyb' = kyb PROVE ModeInv'
  BY <1>7, <1>2 DEF Quietly, NothingNew
<1>8. CASE ReviewChanges
  <2>1. /\ \A r \in Requests :
             req'[r].token.mode = "prod" =>
                 req'[r].token.kind = "full" /\ req'[r].token.late
        /\ \A s \in Slots :
             tokens'[s].mode = "prod" => tokens'[s].kind = "full" /\ tokens'[s].late
    BY <1>1, <1>8, ReviewPlace, TruthfulTokens DEF ModeInv
  <2>2. QED
    BY <2>1 DEF ModeInv, Truthful
<1>9. CASE Restart
  <2>1. \A r \in Requests : req'[r].token = NoToken
    BY <1>9, RestartPlace, NoRequestFields
  <2>2. UNCHANGED <<kyc, kyb, tokens>>
    BY <1>9 DEF Restart, account
  <2>3. QED
    BY <2>1, <2>2, <1>2, TruthfulTokens
<1>10. QED
  BY <1>3, <1>4, <1>5, <1>6, <1>7, <1>8, <1>9, SessionCases

\* For any companies and reviews: a session in production mode without both
\* approvals was read before one of them was withdrawn.
THEOREM ProdWasBefore == SessionsSpec => []ProdOnlyFromBefore
<1>1. SessionsInit => PlaceOfSessions /\ ModeInv
  <2>1. SessionsInit => /\ \A s \in Slots : tokens[s] = NoToken
                        /\ \A r \in Requests : req[r].token = NoToken
    BY NoRequestFields DEF SessionsInit
  <2>2. SessionsInit => ModeInv
    BY <2>1, TruthfulTokens DEF ModeInv
  <2>3. QED
    BY <2>2, InitPlaceOfSessions
<1>2. PlaceOfSessions /\ ModeInv /\ [SessionsNext]_sessionvars
        => PlaceOfSessions' /\ ModeInv'
  BY StepPlaceOfSessions, StepMode
<1>3. PlaceOfSessions /\ ModeInv => ProdOnlyFromBefore
  BY DEF ModeInv, Truthful, ProdOnlyFromBefore
<1>4. QED
  BY <1>1, <1>2, <1>3, PTL DEF SessionsSpec

(***************************************************************************)
(* Onboarding: its invariants                                              *)
(***************************************************************************)
CompanyRow == [by : Emails, email : Emails \cup {"none"},
               step : Nat, wallets : [Currencies -> Nat],
               priced : {"no", "partly", "yes"}, steps : [Slugs -> StepStatus]]
MemberRow == Emails \X CompanyIds \X Roles

CompanyRequest == [pc : {"idle", "company", "user", "role", "newrole", "member",
                         "wallets", "prices", "steps", "newsteps", "business",
                         "submit", "tick", "count", "decision", "decide"},
                   kind : {"none", "atonce", "personal", "business", "invite",
                           "steps", "kyc", "kyb", "profile"} \cup Decisions,
                   email : Emails \cup {"none"}, company : Nat, seen : Nat,
                   value : Subjects \cup {"none"}]

\* Where a request is that signs a person up, and one that has a company.
SigningUp == {"role", "newrole", "member"}
Signing == SigningUp \cup {"user"}
Inside == Signing \cup {"wallets", "prices", "steps", "newsteps", "business",
                        "submit", "tick", "count"}

MemberEmails == {members[i][1] : i \in DOMAIN members}

\* What a request that is under way is about, with n companies there and
\* known the people that are in one.
Proper(call, n, known) ==
    /\ call.company \in 0..n
    /\ call.pc \in Inside => call.company \in 1..n
    /\ call.pc \in Signing \cup {"company"} => call.email \in Emails
    /\ call.pc = "submit" =>
          \/ call.kind = "kyb" /\ call.value = call.company /\ call.seen >= 1
          \/ call.kind \in {"kyc", "profile"} /\ call.value \in known
    /\ call.pc \in {"decision", "decide"} =>
          call.kind \in Decisions /\ call.value \in Subjects

PlaceOfCompanies ==
    /\ OnboardingTypeOK /\ req \in [Requests -> CompanyRequest]
    /\ \A c \in 1..Len(companies) : companies[c].step >= 1
    /\ \A i \in 1..Len(members) : members[i][2] \in 1..Len(companies)
    /\ \A r \in Requests : Proper(req[r], Len(companies), MemberEmails)

\* Requests about one e-mail overlap only when that is recorded.
Sole ==
    \A r, q \in Requests :
        r # q /\ req[r].email = req[q].email /\ req[r].email \in Emails =>
            req[r].email \in parted

\* Who signs up is not there yet, or was before.
SignsUp(r) ==
    /\ req[r].pc \in {"company", "user"} =>
          users[req[r].email] = "none" \/ req[r].email \in parted
    /\ req[r].pc \in SigningUp => users[req[r].email] # "none"

\* A user is in a company, or about to be.
Settled(e) ==
    /\ e \in MemberEmails => users[e] # "none"
    /\ users[e] # "none" =>
          \/ e \in MemberEmails \cup parted
          \/ \E r \in Requests : /\ req[r].email = e
                                 /\ req[r].pc \in SigningUp

HasMember(c) == \E i \in 1..Len(members) : members[i][2] = c

\* A company has someone in it, or about to be.
Owned(c) ==
    \/ HasMember(c)
    \/ companies[c].by \in parted
    \/ \E r \in Requests : /\ req[r].pc \in Signing /\ req[r].company = c
                           /\ req[r].email = companies[c].by

OwnerInv ==
    /\ Sole /\ \A r \in Requests : SignsUp(r)
    /\ \A e \in Emails : Settled(e)
    /\ \A c \in 1..Len(companies) : Owned(c)

-----------------------------------------------------------------------------
LEMMA OnboardingConstants ==
  /\ MaxCompanies \in Nat \ {0} /\ MaxCalls \in Nat /\ MaxTroubles \in Nat
  /\ "none" \notin Emails
  BY OnboardingAssumption, RequestsAssumption

LEMMA PlaceTypes ==
  ASSUME PlaceOfCompanies
  PROVE  /\ companies \in Seq(CompanyRow) /\ Len(companies) \in 0..MaxCompanies
         /\ DOMAIN companies = 1..Len(companies)
         /\ \A c \in 1..Len(companies) : companies[c] \in CompanyRow
         /\ members \in Seq(MemberRow) /\ Len(members) \in Nat
         /\ DOMAIN members = 1..Len(members)
         /\ \A i \in 1..Len(members) : members[i] \in MemberRow
         /\ \A i \in 1..Len(members) : members[i][2] \in 1..Len(companies)
         /\ MemberEmails \subseteq Emails
         /\ \A r \in Requests : req[r] \in CompanyRequest
         /\ \A c \in 1..Len(companies) : c \in CompanyIds
<1>1. companies \in Seq(CompanyRow) /\ Len(companies) <= MaxCompanies
  BY DEF PlaceOfCompanies, OnboardingTypeOK, CompanyRow
<1>2. members \in Seq(MemberRow)
  BY DEF PlaceOfCompanies, OnboardingTypeOK, MemberRow
<1>3. /\ Len(companies) \in Nat /\ DOMAIN companies = 1..Len(companies)
      /\ \A c \in 1..Len(companies) : companies[c] \in CompanyRow
  BY <1>1, LenProperties, ElementOfSeq
<1>4. /\ Len(members) \in Nat /\ DOMAIN members = 1..Len(members)
      /\ \A i \in 1..Len(members) : members[i] \in MemberRow
  BY <1>2, LenProperties, ElementOfSeq
<1>5. MemberEmails \subseteq Emails
  BY <1>4 DEF MemberEmails, MemberRow
<1>6. \A c \in 1..Len(companies) : c \in CompanyIds
  BY <1>1, <1>3, OnboardingConstants DEF CompanyIds
<1>7. /\ \A r \in Requests : req[r] \in CompanyRequest
      /\ \A i \in 1..Len(members) : members[i][2] \in 1..Len(companies)
  BY DEF PlaceOfCompanies
<1>8. QED
  BY <1>1, <1>2, <1>3, <1>4, <1>5, <1>6, <1>7, OnboardingConstants

LEMMA IdleType ==
  /\ Idle \in CompanyRequest /\ Idle.pc = "idle" /\ Idle.kind = "none"
  /\ Idle.email = "none" /\ Idle.company = 0
  /\ \A n \in Nat : \A known : Proper(Idle, n, known)
<1>1. /\ Idle \in CompanyRequest /\ Idle.pc = "idle" /\ Idle.kind = "none"
      /\ Idle.email = "none" /\ Idle.company = 0
  BY DEF Idle, NoCompany, CompanyRequest
<1>2. QED
  BY <1>1 DEF Proper, Inside, Signing, SigningUp

LEMMA ProperStays ==
  ASSUME NEW call, NEW n \in Nat, NEW m \in Nat, n <= m, NEW known, NEW more,
         known \subseteq more, Proper(call, n, known)
  PROVE  Proper(call, m, more)
<1>1. 0..n \subseteq 0..m /\ 1..n \subseteq 1..m
  OBVIOUS
<1>2. QED
  BY <1>1 DEF Proper

\* The rows of the companies and of the people in them grow.
Grown == Len(companies') \in Nat /\ Len(companies) <= Len(companies')
         /\ MemberEmails \subseteq MemberEmails'

\* One request goes to its next step.
LEMMA CompanyBecoming ==
  ASSUME PlaceOfCompanies, NEW r \in Requests, NEW rec \in CompanyRequest,
         req' = [req EXCEPT ![r] = rec], Grown,
         Proper(rec, Len(companies'), MemberEmails')
  PROVE  /\ req' \in [Requests -> CompanyRequest]
         /\ \A q \in Requests : Proper(req'[q], Len(companies'), MemberEmails')
         /\ req'[r] = rec
         /\ \A q \in Requests \ {r} : req'[q] = req[q]
<1>1. req \in [Requests -> CompanyRequest]
  BY DEF PlaceOfCompanies
<1>2. /\ req' \in [Requests -> CompanyRequest]
      /\ req'[r] = rec
      /\ \A q \in Requests \ {r} : req'[q] = req[q]
  BY <1>1
<1>3. ASSUME NEW q \in Requests \ {r}
      PROVE  Proper(req'[q], Len(companies'), MemberEmails')
  BY <1>2, PlaceTypes, ProperStays DEF PlaceOfCompanies, Grown
<1>4. QED
  BY <1>2, <1>3

\* How requests move on.
MovesOn(r, pc) ==
    \/ req[r].pc \in Signing /\ pc \in Signing
    \/ /\ req[r].pc \in Inside
       /\ pc \in {"wallets", "prices", "steps", "newsteps", "tick", "count"}
    \/ req[r].pc = "decision" /\ pc = "decide"

LEMMA RequestGoesOn ==
  ASSUME PlaceOfCompanies, NEW r \in Requests, Grown,
         NEW pc, Goto(r, pc), MovesOn(r, pc)
  PROVE  /\ req' \in [Requests -> CompanyRequest]
         /\ \A q \in Requests : Proper(req'[q], Len(companies'), MemberEmails')
         /\ \A q \in Requests \ {r} : req'[q] = req[q]
         /\ req'[r].pc = pc /\ req'[r].kind = req[r].kind
         /\ req'[r].email = req[r].email /\ req'[r].company = req[r].company
         /\ req'[r].seen = req[r].seen /\ req'[r].value = req[r].value
<1> DEFINE rec == [req[r] EXCEPT !.pc = pc]
<1>1. req \in [Requests -> CompanyRequest] /\ req[r] \in CompanyRequest
  BY DEF PlaceOfCompanies
<1>2. pc \in {"user", "role", "newrole", "member", "wallets", "prices", "steps",
              "newsteps", "tick", "count", "decide"}
  BY DEF MovesOn, Signing, SigningUp
<1>3. /\ rec \in CompanyRequest /\ rec.pc = pc /\ rec.kind = req[r].kind
      /\ rec.email = req[r].email /\ rec.company = req[r].company
      /\ rec.seen = req[r].seen /\ rec.value = req[r].value
  BY <1>1, <1>2 DEF CompanyRequest
<1>4. req' = [req EXCEPT ![r] = rec]
  BY <1>1 DEF Goto
<1> HIDE DEF rec
<1>5. Proper(req[r], Len(companies'), MemberEmails')
  BY PlaceTypes, ProperStays DEF PlaceOfCompanies, Grown
<1>6. Proper(rec, Len(companies'), MemberEmails')
  BY <1>2, <1>3, <1>5 DEF Proper, MovesOn, Inside, Signing, SigningUp
<1>7. QED
  BY <1>3, <1>4, <1>6, CompanyBecoming

LEMMA RequestIsDone ==
  ASSUME PlaceOfCompanies, NEW r \in Requests, Grown, Done(r)
  PROVE  /\ req' \in [Requests -> CompanyRequest]
         /\ \A q \in Requests : Proper(req'[q], Len(companies'), MemberEmails')
         /\ \A q \in Requests \ {r} : req'[q] = req[q]
         /\ req'[r] = Idle
<1>1. Proper(Idle, Len(companies'), MemberEmails')
  BY IdleType DEF Grown
<1>2. req' = [req EXCEPT ![r] = Idle]
  BY DEF Done
<1>3. QED
  BY <1>1, <1>2, IdleType, CompanyBecoming

\* One company's row is written.
LEMMA RowWritten ==
  ASSUME PlaceOfCompanies, NEW c \in 1..Len(companies), NEW row \in CompanyRow,
         companies' = [companies EXCEPT ![c] = row], row.step >= 1
  PROVE  /\ companies' \in Seq(CompanyRow) /\ Len(companies') = Len(companies)
         /\ DOMAIN companies' = DOMAIN companies
         /\ companies'[c] = row
         /\ \A d \in 1..Len(companies) : d # c => companies'[d] = companies[d]
         /\ \A d \in 1..Len(companies') : companies'[d].step >= 1
<1>1. /\ companies' \in Seq(CompanyRow) /\ Len(companies') = Len(companies)
      /\ \A d \in 1..Len(companies) :
            companies'[d] = IF d = c THEN row ELSE companies[d]
  BY PlaceTypes, ExceptSeq
<1>2. DOMAIN companies' = 1..Len(companies')
  BY <1>1, LenProperties
<1>3. QED
  BY <1>1, <1>2, PlaceTypes DEF PlaceOfCompanies

UserStatuses == {"none", "PENDING", "ACTIVE"}
Papers == [status : {"NONE", "PENDING"} \cup Decisions, docs : Nat]

LEMMA PlaceAgain ==
  ASSUME PlaceOfCompanies,
         \/ companies' = companies
         \/ /\ companies' \in Seq(CompanyRow) /\ Len(companies') <= MaxCompanies
            /\ Len(companies) <= Len(companies')
            /\ \A d \in 1..Len(companies') : companies'[d].step >= 1,
         \/ members' = members
         \/ /\ members' \in Seq(MemberRow)
            /\ \A i \in 1..Len(members') : members'[i][2] \in 1..Len(companies'),
         users' = users \/ users' \in [Emails -> UserStatuses],
         roleRows' \subseteq roleRows \cup Roles,
         papers' = papers \/ papers' \in [Subjects -> Papers],
         reviewed' = reviewed \/ reviewed' \in [Subjects -> Nat],
         crossed' \subseteq crossed \cup Subjects,
         parted' \subseteq parted \cup Emails,
         calls' = calls \/ (calls < MaxCalls /\ calls' = calls + 1),
         troubles' = troubles \/ Trouble,
         req' \in [Requests -> CompanyRequest],
         \A r \in Requests : Proper(req'[r], Len(companies'), MemberEmails')
  PROVE  PlaceOfCompanies'
<1>1. /\ companies' \in Seq(CompanyRow) /\ Len(companies') <= MaxCompanies
      /\ \A d \in 1..Len(companies') : companies'[d].step >= 1
      /\ Len(companies') \in Nat /\ Len(companies) <= Len(companies')
  <2>1. /\ companies' \in Seq(CompanyRow) /\ Len(companies') <= MaxCompanies
        /\ \A d \in 1..Len(companies') : companies'[d].step >= 1
        /\ Len(companies) <= Len(companies')
    BY PlaceTypes, OnboardingConstants DEF PlaceOfCompanies
  <2>2. QED
    BY <2>1, LenProperties
<1>2. /\ members' \in Seq(MemberRow) /\ users' \in [Emails -> UserStatuses]
      /\ roleRows' \subseteq Roles
  BY PlaceTypes DEF PlaceOfCompanies, OnboardingTypeOK, UserStatuses
<1>3. papers' \in [Subjects -> Papers] /\ reviewed' \in [Subjects -> Nat]
  BY DEF PlaceOfCompanies, OnboardingTypeOK, Papers
<1>4. /\ crossed' \subseteq Subjects /\ parted' \subseteq Emails
  BY DEF PlaceOfCompanies, OnboardingTypeOK
<1>5. calls' \in 0..MaxCalls /\ troubles' \in 0..MaxTroubles
  BY OnboardingConstants DEF PlaceOfCompanies, OnboardingTypeOK, Trouble
<1>6. \A r \in Requests : /\ req'[r].company \in 0..Len(companies')
                          /\ req'[r].email \in Emails \cup {"none"}
  BY DEF CompanyRequest, Proper
<1>7. OnboardingTypeOK'
  BY <1>1, <1>2, <1>3, <1>4, <1>5, <1>6
     DEF OnboardingTypeOK, CompanyRow, MemberRow, UserStatuses, Papers
<1>8. \A i \in 1..Len(members') : members'[i][2] \in 1..Len(companies')
  <2>1. CASE members' = members
    <3>1. 1..Len(companies) \subseteq 1..Len(companies')
      BY <1>1, PlaceTypes
    <3>2. QED
      BY <2>1, <3>1, PlaceTypes
  <2>2. QED
    BY <2>1
<1>9. QED
  BY <1>1, <1>7, <1>8 DEF PlaceOfCompanies

Alone(r) == \A q \in Requests \ {r} : req'[q] = req[q]

\* What the steps of a request leave of those who sign up, once it does not
\* sign up itself.
Later(r) ==
    /\ members' = members /\ parted' = parted
    /\ Len(companies') = Len(companies)
    /\ \A c \in 1..Len(companies) : companies'[c].by = companies[c].by
    /\ \A e \in Emails : users'[e] = users[e]
                         \/ (e \in MemberEmails /\ users'[e] = "ACTIVE")
    /\ req[r].pc \notin Signing \cup {"company"}
    /\ req'[r].pc \notin Signing \cup {"company"}
    /\ req'[r].email \in {req[r].email, "none"}

(***************************************************************************)
(* The steps that only move on                                             *)
(***************************************************************************)
\* Those that write nothing but the request.
LEMMA WalksOn ==
  ASSUME PlaceOfCompanies, NEW r \in Requests,
         \/ WriteBusinessInfo(r) \/ RefuseKyb(r) \/ FindSteps(r)
         \/ AnswerSubmission(r) \/ MailDecision(r) \/ ReadRole(r)
  PROVE  /\ PlaceOfCompanies' /\ Alone(r)
         /\ UNCHANGED <<companies, users, members, roleRows, papers, reviewed,
                        crossed, parted>>
         /\ ~ReadRole(r) => Later(r)
         /\ ReadRole(r) => /\ req[r].pc = "role" /\ req'[r].email = req[r].email
                           /\ req'[r].company = req[r].company
                           /\ req'[r].pc \in {"member", "newrole"}
<1>1. /\ UNCHANGED <<companies, users, members, roleRows, papers, reviewed,
                     crossed, parted, calls, troubles>>
      /\ \/ Done(r) /\ ~ReadRole(r)
         \/ \E pc \in {"newsteps", "decide", "member", "newrole"} :
               /\ Goto(r, pc) /\ MovesOn(r, pc)
               /\ ReadRole(r) <=> pc \in {"member", "newrole"}
      /\ req[r].pc \in {"business", "submit", "steps", "count", "decision",
                        "role"}
      /\ ReadRole(r) <=> req[r].pc = "role"
  BY DEF WriteBusinessInfo, RefuseKyb, FindSteps, AnswerSubmission,
     MailDecision, ReadRole, people, reviews, MovesOn, Inside, Signing, SigningUp
<1>2. Grown
  BY <1>1, PlaceTypes DEF Grown, MemberEmails
<1>3. req[r] \in CompanyRequest
  BY PlaceTypes
<1>4. CASE Done(r) /\ ~ReadRole(r)
  <2>1. /\ req' \in [Requests -> CompanyRequest]
        /\ \A q \in Requests : Proper(req'[q], Len(companies'), MemberEmails')
        /\ Alone(r) /\ req'[r] = Idle
    BY <1>2, <1>4, RequestIsDone DEF Alone
  <2>2. PlaceOfCompanies'
    BY <1>1, <2>1, PlaceAgain
  <2>3. Later(r)
    BY <1>1, <1>4, <2>1, IdleType DEF Later, Signing, SigningUp
  <2>4. QED
    BY <1>1, <1>4, <2>1, <2>2, <2>3
<1>5. ASSUME NEW pc \in {"newsteps", "decide", "member", "newrole"},
             Goto(r, pc), MovesOn(r, pc),
             ReadRole(r) <=> pc \in {"member", "newrole"}
      PROVE  /\ PlaceOfCompanies' /\ Alone(r)
             /\ ~ReadRole(r) => Later(r)
             /\ ReadRole(r) => /\ req'[r].email = req[r].email
                               /\ req'[r].company = req[r].company
                               /\ req'[r].pc \in {"member", "newrole"}
  <2>1. /\ req' \in [Requests -> CompanyRequest]
        /\ \A q \in Requests : Proper(req'[q], Len(companies'), MemberEmails')
        /\ Alone(r)
        /\ req'[r].pc = pc /\ req'[r].kind = req[r].kind
        /\ req'[r].email = req[r].email /\ req'[r].company = req[r].company
    BY <1>2, <1>5, RequestGoesOn DEF Alone
  <2>2. PlaceOfCompanies'
    BY <1>1, <2>1, PlaceAgain
  <2>3. ~ReadRole(r) => Later(r)
    BY <1>1, <1>5, <2>1 DEF Later, Signing, SigningUp
  <2>4. QED
    BY <1>5, <2>1, <2>2, <2>3
<1>6. QED
  BY <1>1, <1>4, <1>5

(***************************************************************************)
(* The steps that write a company's row                                    *)
(***************************************************************************)
LEMMA WritesRow ==
  ASSUME PlaceOfCompanies, NEW r \in Requests, NEW c \in 1..Len(companies),
         NEW row \in CompanyRow, companies' = [companies EXCEPT ![c] = row],
         row.step >= 1, row.by = companies[c].by,
         NEW pc \in {"prices", "steps", "tick", "count"},
         Done(r) \/ (Goto(r, pc) /\ MovesOn(r, pc)),
         UNCHANGED <<users, members, roleRows, reviewed, crossed, parted,
                     calls>>,
         papers' = papers \/ papers' \in [Subjects -> Papers],
         troubles' = troubles \/ Trouble,
         req[r].pc \in Inside \ Signing
  PROVE  /\ PlaceOfCompanies' /\ Alone(r) /\ Later(r)
         /\ companies'[c] = row /\ Len(companies') = Len(companies)
         /\ \A d \in 1..Len(companies) : d # c => companies'[d] = companies[d]
         /\ \/ req'[r] = Idle
            \/ /\ req'[r].pc = pc /\ req'[r].kind = req[r].kind
               /\ req'[r].company = req[r].company
<1>1. /\ companies' \in Seq(CompanyRow) /\ Len(companies') = Len(companies)
      /\ companies'[c] = row
      /\ \A d \in 1..Len(companies) : d # c => companies'[d] = companies[d]
      /\ \A d \in 1..Len(companies') : companies'[d].step >= 1
  BY RowWritten
<1>2. Grown
  BY <1>1, PlaceTypes DEF Grown, MemberEmails
<1>3. req[r] \in CompanyRequest
  BY PlaceTypes
<1>4. /\ req' \in [Requests -> CompanyRequest]
      /\ \A q \in Requests : Proper(req'[q], Len(companies'), MemberEmails')
      /\ Alone(r)
      /\ \/ req'[r] = Idle
         \/ /\ req'[r].pc = pc /\ req'[r].kind = req[r].kind
            /\ req'[r].email = req[r].email /\ req'[r].company = req[r].company
  BY <1>2, RequestIsDone, RequestGoesOn DEF Alone
<1>5. PlaceOfCompanies'
  <2>1. Len(companies') <= MaxCompanies
    BY <1>1, PlaceTypes, OnboardingConstants
  <2>2. QED
    BY <1>1, <1>4, <2>1, PlaceAgain
<1>6. Later(r)
  BY <1>1, <1>4, IdleType DEF Later, Signing, SigningUp, Inside
<1>7. QED
  BY <1>1, <1>4, <1>5, <1>6

LEMMA InsideCompany ==
  ASSUME PlaceOfCompanies, NEW r \in Requests, req[r].pc \in Inside
  PROVE  /\ req[r].company \in 1..Len(companies)
         /\ companies[req[r].company] \in CompanyRow
         /\ companies[req[r].company].step >= 1
  BY PlaceTypes DEF PlaceOfCompanies, Proper

\* The prices and the steps.
LEMMA WritesTerms ==
  ASSUME PlaceOfCompanies, NEW r \in Requests,
         CreatePrices(r) \/ CreateSteps(r) \/ TickStep(r)
  PROVE  /\ PlaceOfCompanies' /\ Alone(r) /\ Later(r)
         /\ UNCHANGED reviews
<1> DEFINE c == req[r].company
           old == companies[c]
<1>1. /\ req[r].pc \in {"prices", "newsteps", "tick"}
      /\ req[r].pc \in Inside \ Signing
  BY DEF CreatePrices, CreateSteps, TickStep, Inside, Signing, SigningUp
<1>2. c \in 1..Len(companies) /\ old \in CompanyRow /\ old.step >= 1
  BY <1>1, InsideCompany
<1>3. /\ UNCHANGED <<users, members, roleRows, papers, reviewed, crossed, parted, calls>>
      /\ troubles' = troubles \/ Trouble
      /\ \E pc \in {"steps", "count"} :
            Done(r) \/ (Goto(r, pc) /\ MovesOn(r, pc))
  BY <1>1 DEF CreatePrices, CreateSteps, TickStep, people, reviews,
     MovesOn
<1>4. ASSUME NEW row \in CompanyRow, companies' = [companies EXCEPT ![c] = row],
             row.by = old.by, row.email = old.email, row.step = old.step,
             row.wallets = old.wallets
      PROVE  PlaceOfCompanies' /\ Alone(r) /\ Later(r)
  <2>1. PICK pc \in {"steps", "count"} :
            Done(r) \/ (Goto(r, pc) /\ MovesOn(r, pc))
    BY <1>3
  <2> HIDE DEF c
  <2>2. QED
    BY <1>1, <1>2, <1>3, <1>4, <2>1, WritesRow
<1>5. CASE CreatePrices(r)
  <2>1. PICK priced \in {"partly", "yes"} :
           companies' = [companies EXCEPT ![c].priced = priced]
    BY <1>5 DEF CreatePrices
  <2> DEFINE row == [old EXCEPT !.priced = priced]
  <2>2. companies' = [companies EXCEPT ![c] = row]
    BY <2>1, <1>2, PlaceTypes
  <2>3. /\ row \in CompanyRow /\ row.by = old.by /\ row.email = old.email
        /\ row.step = old.step /\ row.wallets = old.wallets
    BY <1>2 DEF CompanyRow
  <2> HIDE DEF row
  <2>4. QED
    BY <1>3, <2>2, <2>3, <1>4 DEF reviews
<1>6. ASSUME NEW steps \in [Slugs -> StepStatus],
             companies' = [companies EXCEPT ![c].steps = steps]
      PROVE  PlaceOfCompanies' /\ Alone(r) /\ Later(r)
  <2> DEFINE row == [old EXCEPT !.steps = steps]
  <2>2. companies' = [companies EXCEPT ![c] = row]
    BY <1>6, <1>2, PlaceTypes
  <2>3. /\ row \in CompanyRow /\ row.by = old.by /\ row.email = old.email
        /\ row.step = old.step /\ row.wallets = old.wallets
    BY <1>2 DEF CompanyRow
  <2> HIDE DEF row
  <2>4. QED
    BY <2>2, <2>3, <1>4
<1>7. CASE CreateSteps(r)
  <2> DEFINE steps == [g \in Slugs |-> IF old.steps[g] = "absent" THEN "open"
                                       ELSE old.steps[g]]
  <2>1. steps \in [Slugs -> StepStatus]
    BY <1>2 DEF CompanyRow, StepStatus
  <2>2. companies' = [companies EXCEPT ![c].steps = steps]
    BY <1>7 DEF CreateSteps
  <2> HIDE DEF steps
  <2>3. QED
    BY <1>3, <2>1, <2>2, <1>6 DEF reviews
<1>8. CASE TickStep(r)
  <2>1. \/ companies' = companies
        \/ companies' = [companies EXCEPT ![c].steps[SlugOf(r)] = "COMPLETED"]
    BY <1>8 DEF TickStep
  <2>2. CASE companies' = companies
    <3>1. companies' = [companies EXCEPT ![c] = old]
      BY <2>2, <1>2, PlaceTypes
    <3>2. QED
      BY <1>3, <3>1, <1>2, <1>4 DEF reviews
  <2>3. CASE companies' = [companies EXCEPT ![c].steps[SlugOf(r)] = "COMPLETED"]
    <3> DEFINE steps == [old.steps EXCEPT ![SlugOf(r)] = "COMPLETED"]
    <3>1. steps \in [Slugs -> StepStatus]
      BY <1>2 DEF CompanyRow, StepStatus, SlugOf, Slugs
    <3>2. companies' = [companies EXCEPT ![c].steps = steps]
      BY <2>3
    <3> HIDE DEF steps
    <3>3. QED
      BY <1>3, <3>1, <3>2, <1>6 DEF reviews
  <2>4. QED
    BY <2>1, <2>2, <2>3
<1>9. QED
  BY <1>3, <1>5, <1>7, <1>8 DEF reviews

(***************************************************************************)
(* The steps that begin a request                                          *)
(***************************************************************************)
LEMMA FirstRow ==
  ASSUME PlaceOfCompanies, NEW rows \in SUBSET (DOMAIN members), rows # {}
  PROVE  /\ \E i \in rows : First(rows) = members[i]
         /\ First(rows) \in MemberRow /\ First(rows)[1] \in MemberEmails
<1> DEFINE f == [i \in rows |-> -i]
<1>1. /\ rows \subseteq 1..Len(members) /\ IsFiniteSet(rows)
      /\ \A i \in rows : i \in Int
  <2>1. Len(members) \in Nat /\ DOMAIN members = 1..Len(members)
    BY PlaceTypes
  <2>2. IsFiniteSet(1..Len(members))
    BY <2>1, FS_Interval
  <2>3. QED
    BY <2>1, <2>2, FS_Subset
<1>2. \A i \in rows : f[i] \in Int
  BY <1>1
<1>3. PICK i \in rows : \A j \in rows : f[j] <= f[i]
  BY <1>1, <1>2, GreatestExists
<1>4. \A j \in rows : i <= j
  BY <1>1, <1>3
<1>5. (CHOOSE k \in rows : \A j \in rows : k <= j) \in rows
  BY <1>4
<1>6. PICK k \in rows : First(rows) = members[k]
  BY <1>5 DEF First
<1>7. QED
  BY <1>1, <1>6, PlaceTypes DEF MemberEmails

LEMMA BeginsPlace ==
  ASSUME PlaceOfCompanies, NEW r \in Requests, NEW call \in CompanyRequest,
         Begins(r, call), Proper(call, Len(companies), MemberEmails),
         UNCHANGED <<companies, people, reviews, troubles>>,
         parted' \subseteq parted \cup Emails
  PROVE  /\ PlaceOfCompanies' /\ Alone(r) /\ req'[r] = call
         /\ req[r].pc = "idle"
<1>1. Grown /\ Len(companies') = Len(companies) /\ MemberEmails' = MemberEmails
  BY PlaceTypes DEF Grown, MemberEmails, people
<1>2. req' = [req EXCEPT ![r] = call] /\ req[r].pc = "idle"
      /\ calls < MaxCalls /\ calls' = calls + 1
  BY DEF Begins
<1>3. /\ req' \in [Requests -> CompanyRequest]
      /\ \A q \in Requests : Proper(req'[q], Len(companies'), MemberEmails')
      /\ Alone(r) /\ req'[r] = call
  BY <1>1, <1>2, CompanyBecoming DEF Alone
<1>4. PlaceOfCompanies'
  BY <1>2, <1>3, PlaceAgain DEF people, reviews
<1>5. QED
  BY <1>2, <1>3, <1>4

\* Those that are about a company or a subject.
BeginsAside(r) ==
    /\ req[r].pc = "idle" /\ req'[r].kind # "atonce"
    /\ req'[r].pc \notin {"wallets", "prices"}

LEMMA LaterBegins ==
  ASSUME PlaceOfCompanies, NEW r \in Requests,
         \/ \E e \in Emails, v \in Decisions :
               HandleKyc(r, e, v) \/ UpdateKycStatus(r, e, v)
         \/ \E c \in DOMAIN companies :
               \/ RegisterBusinessInfo(r, c) \/ InitializeOnboardingSteps(r, c)
               \/ CompleteKyc(r, c) \/ CompleteKyb(r, c) \/ CompleteProfile(r, c)
               \/ \E v \in Decisions :
                     HandleKyb(r, c, v) \/ UpdateKybStatus(r, c, v)
  PROVE  /\ PlaceOfCompanies' /\ Alone(r) /\ Later(r) /\ BeginsAside(r)
         /\ UNCHANGED <<companies, reviews>>
<1>1. /\ UNCHANGED <<companies, people, reviews, parted, troubles>>
      /\ \E call : Begins(r, call)
  BY DEF HandleKyc, UpdateKycStatus, HandleKyb, UpdateKybStatus, Review,
     RegisterBusinessInfo, InitializeOnboardingSteps, CompleteKyc, CompleteKyb,
     CompleteProfile
<1>2. ASSUME NEW call \in CompanyRequest, Begins(r, call),
             Proper(call, Len(companies), MemberEmails), call.email = "none",
             call.pc \notin Signing \cup {"company", "wallets", "prices"},
             call.kind # "atonce"
      PROVE  PlaceOfCompanies' /\ Alone(r) /\ Later(r) /\ BeginsAside(r)
  <2>1. PlaceOfCompanies' /\ Alone(r) /\ req'[r] = call /\ req[r].pc = "idle"
    BY <1>1, <1>2, BeginsPlace
  <2>2. Later(r)
    BY <1>1, <1>2, <2>1 DEF Later, people, Signing, SigningUp
  <2>3. BeginsAside(r)
    BY <1>2, <2>1 DEF BeginsAside
  <2>4. QED
    BY <2>1, <2>2, <2>3
<1>3. ASSUME NEW s \in Subjects, NEW v \in Decisions,
             NEW pc \in {"decision", "decide"}, Review(r, s, v, pc)
      PROVE  PlaceOfCompanies' /\ Alone(r) /\ Later(r) /\ BeginsAside(r)
  <2> DEFINE call == [pc |-> pc, kind |-> v, email |-> "none",
                      company |-> NoCompany, seen |-> papers[s].docs, value |-> s]
  <2>1. papers[s].docs \in Nat
    BY DEF PlaceOfCompanies, OnboardingTypeOK
  <2>2. /\ call \in CompanyRequest /\ call.email = "none" /\ call.pc = pc
        /\ call.kind = v /\ call.company = 0 /\ call.value = s
    BY <2>1 DEF CompanyRequest, NoCompany
  <2>3. Begins(r, call)
    BY <1>3 DEF Review
  <2> HIDE DEF call
  <2>4. Proper(call, Len(companies), MemberEmails)
    BY <2>2, PlaceTypes DEF Proper, Inside, Signing, SigningUp
  <2>5. QED
    BY <1>2, <2>2, <2>3, <2>4 DEF Signing, SigningUp, Decisions
<1>4. ASSUME NEW c \in DOMAIN companies, MembersOf(c) # {}
      PROVE  First(MembersOf(c))[1] \in MemberEmails
  BY <1>4, FirstRow DEF MembersOf
<1>5. ASSUME NEW c \in DOMAIN companies, NEW call \in CompanyRequest,
             Begins(r, call), call.email = "none", call.company = c,
             \/ call.pc \in {"steps", "business"} /\ call.kind # "atonce"
             \/ /\ call.pc = "submit" /\ call.kind \in {"kyc", "profile"}
                /\ call.value \in MemberEmails
             \/ /\ call.pc = "submit" /\ call.kind = "kyb" /\ call.value = c
                /\ call.seen >= 1
      PROVE  PlaceOfCompanies' /\ Alone(r) /\ Later(r) /\ BeginsAside(r)
  <2>1. c \in 1..Len(companies) /\ c \in 0..Len(companies)
    BY PlaceTypes
  <2>2. Proper(call, Len(companies), MemberEmails)
    BY <1>5, <2>1 DEF Proper, Inside, Signing, SigningUp
  <2>3. QED
    BY <1>2, <1>5, <2>2 DEF Signing, SigningUp
<1>6. \A e \in Emails : e \in Subjects
  BY DEF Subjects
<1>7. \A c \in DOMAIN companies : c \in Subjects /\ c \in Nat
  BY PlaceTypes DEF Subjects
<1>8. CASE \E e \in Emails, v \in Decisions :
              HandleKyc(r, e, v) \/ UpdateKycStatus(r, e, v)
  BY <1>1, <1>3, <1>6, <1>8 DEF HandleKyc, UpdateKycStatus
<1>9. ASSUME NEW c \in DOMAIN companies,
             RegisterBusinessInfo(r, c) \/ InitializeOnboardingSteps(r, c)
      PROVE  PlaceOfCompanies' /\ Alone(r) /\ Later(r) /\ BeginsAside(r)
  <2> PICK pc \in {"steps", "business"} :
        Begins(r, [Idle EXCEPT !.pc = pc, !.kind = pc, !.company = c])
    BY <1>9 DEF RegisterBusinessInfo, InitializeOnboardingSteps
  <2> DEFINE call == [Idle EXCEPT !.pc = pc, !.kind = pc, !.company = c]
  <2>1. /\ call \in CompanyRequest /\ call.email = "none" /\ call.company = c
        /\ call.pc = pc /\ call.kind = pc
    BY <1>7 DEF Idle, NoCompany, CompanyRequest
  <2>2. Begins(r, call)
    OBVIOUS
  <2> HIDE DEF call
  <2>3. QED
    BY <1>5, <2>1, <2>2
<1>10. ASSUME NEW c \in DOMAIN companies, CompleteKyc(r, c) \/ CompleteProfile(r, c)
       PROVE  PlaceOfCompanies' /\ Alone(r) /\ Later(r) /\ BeginsAside(r)
  <2>1. PICK kind \in {"kyc", "profile"} :
          Begins(r, [Idle EXCEPT !.pc = "submit", !.kind = kind, !.company = c,
                                 !.value = First(MembersOf(c))[1]])
    BY <1>10 DEF CompleteKyc, CompleteProfile
  <2>2. PICK e \in MemberEmails : e = First(MembersOf(c))[1]
    BY <1>4, <1>10 DEF CompleteKyc, CompleteProfile
  <2> DEFINE call == [Idle EXCEPT !.pc = "submit", !.kind = kind, !.company = c,
                                  !.value = e]
  <2>3. e \in Subjects
    BY <1>6, PlaceTypes
  <2>4. /\ call \in CompanyRequest /\ call.email = "none" /\ call.company = c
        /\ call.pc = "submit" /\ call.kind = kind /\ call.value = e
    BY <1>7, <2>3 DEF Idle, NoCompany, CompanyRequest
  <2>5. Begins(r, call)
    BY <2>1, <2>2
  <2> HIDE DEF call
  <2>6. QED
    BY <1>5, <2>4, <2>5
<1>11. ASSUME NEW c \in DOMAIN companies, CompleteKyb(r, c)
       PROVE  PlaceOfCompanies' /\ Alone(r) /\ Later(r) /\ BeginsAside(r)
  <2> DEFINE call == [Idle EXCEPT !.pc = "submit", !.kind = "kyb", !.company = c,
                                  !.value = c, !.seen = companies[c].step]
  <2>1. companies[c].step \in Nat /\ companies[c].step >= 1
    BY PlaceTypes DEF PlaceOfCompanies, CompanyRow
  <2>2. /\ call \in CompanyRequest /\ call.email = "none" /\ call.company = c
        /\ call.pc = "submit" /\ call.kind = "kyb" /\ call.value = c
        /\ call.seen >= 1
    BY <1>7, <2>1 DEF Idle, NoCompany, CompanyRequest
  <2>3. Begins(r, call)
    BY <1>11 DEF CompleteKyb
  <2> HIDE DEF call
  <2>4. QED
    BY <1>5, <2>2, <2>3
<1>12. ASSUME NEW c \in DOMAIN companies, NEW v \in Decisions,
              HandleKyb(r, c, v) \/ UpdateKybStatus(r, c, v)
       PROVE  PlaceOfCompanies' /\ Alone(r) /\ Later(r) /\ BeginsAside(r)
  BY <1>3, <1>7, <1>12 DEF HandleKyb, UpdateKybStatus
<1>13. QED
  BY <1>1, <1>8, <1>9, <1>10, <1>11, <1>12

\* Those that may sign a person up.
NewcomerCall(call, e) ==
    /\ call.email = e
    /\ \/ /\ call.pc = "company" /\ call.kind \in {"atonce", "personal"}
          /\ call.company = NoCompany
          /\ users[e] = "none" \/ e \notin MemberEmails
       \/ call.pc = "user" /\ call.kind = "invite" /\ users[e] = "none"
       \/ call.pc = "role" /\ call.kind = "invite" /\ users[e] # "none"

LEMMA Newcomer ==
  ASSUME PlaceOfCompanies, NEW r \in Requests, NEW e \in Emails,
         \/ CreateCompanyUser(r, e) \/ RegisterPersonalInfo(r, e)
         \/ \E o \in Emails : CreateUserByOwner(r, o, e)
  PROVE  /\ PlaceOfCompanies' /\ Alone(r) /\ Parts(e)
         /\ UNCHANGED <<companies, people, reviews>>
         /\ req[r].pc = "idle" /\ NewcomerCall(req'[r], e)
<1>1. /\ UNCHANGED <<companies, people, reviews, troubles>>
      /\ Parts(e)
  BY DEF CreateCompanyUser, RegisterPersonalInfo, CreateUserByOwner
<1>2. parted' \subseteq parted \cup Emails
  BY <1>1 DEF Parts
<1>3. ASSUME NEW call \in CompanyRequest, Begins(r, call), call.email = e,
             NewcomerCall(call, e), call.company \in 0..Len(companies),
             call.pc # "company" => call.company \in 1..Len(companies)
      PROVE  /\ PlaceOfCompanies' /\ Alone(r)
             /\ req[r].pc = "idle" /\ NewcomerCall(req'[r], e)
  <2>1. Proper(call, Len(companies), MemberEmails)
    <3>1. call.pc \in {"company", "user", "role"} /\ call.email \in Emails
      BY <1>3 DEF NewcomerCall
    <3>2. QED
      BY <1>3, <3>1 DEF Proper, Inside, Signing, SigningUp
  <2>2. PlaceOfCompanies' /\ Alone(r) /\ req'[r] = call /\ req[r].pc = "idle"
    <3>1. UNCHANGED <<companies, people, reviews, troubles>>
      BY <1>1
    <3>2. QED
      BY <1>2, <1>3, <2>1, <3>1, BeginsPlace
  <2>3. QED
    BY <1>3, <2>2
<1>4. CASE CreateCompanyUser(r, e) \/ RegisterPersonalInfo(r, e)
  <2>1. PICK kind \in {"atonce", "personal"} :
          Begins(r, [Idle EXCEPT !.pc = "company", !.kind = kind, !.email = e])
    BY <1>4 DEF CreateCompanyUser, RegisterPersonalInfo
  <2> DEFINE call == [Idle EXCEPT !.pc = "company", !.kind = kind, !.email = e]
  <2>2. /\ call \in CompanyRequest /\ call.pc = "company" /\ call.kind = kind
        /\ call.email = e /\ call.company = 0
    BY DEF Idle, NoCompany, CompanyRequest
  <2>3. Begins(r, call)
    BY <2>1
  <2> HIDE DEF call
  <2>4. RowsOf(e) = {} => e \notin MemberEmails
    BY DEF RowsOf, MemberEmails
  <2>5. NewcomerCall(call, e)
    BY <1>4, <2>2, <2>4
       DEF NewcomerCall, CreateCompanyUser, RegisterPersonalInfo, NoCompany
  <2>6. QED
    BY <1>1, <1>3, <2>2, <2>3, <2>5, PlaceTypes
<1>5. ASSUME NEW o \in Emails, CreateUserByOwner(r, o, e)
      PROVE  /\ PlaceOfCompanies' /\ Alone(r)
             /\ req[r].pc = "idle" /\ NewcomerCall(req'[r], e)
  <2>1. /\ First(RowsOf(o)) \in MemberRow
        /\ \E i \in RowsOf(o) : First(RowsOf(o)) = members[i]
    <3>1. RowsOf(o) # {} /\ RowsOf(o) \subseteq DOMAIN members
      BY <1>5 DEF CreateUserByOwner, RowsOf
    <3>2. QED
      BY <3>1, FirstRow
  <2>2. PICK c : c = First(RowsOf(o))[2]
    OBVIOUS
  <2>3. c \in 1..Len(companies)
    <3>1. \E i \in 1..Len(members) : First(RowsOf(o)) = members[i]
      BY <2>1, PlaceTypes DEF RowsOf
    <3>2. QED
      BY <2>2, <3>1, PlaceTypes
  <2> PICK pc \in {"user", "role"} :
        pc = IF users[e] = "none" THEN "user" ELSE "role"
    OBVIOUS
  <2> DEFINE call == [Idle EXCEPT !.pc = pc, !.kind = "invite", !.email = e,
                                  !.company = c]
  <2>4. /\ call \in CompanyRequest /\ call.kind = "invite" /\ call.pc = pc
        /\ call.email = e /\ call.company = c
    <3>1. c \in Nat
      BY <2>3, PlaceTypes
    <3>2. QED
      BY <3>1 DEF Idle, NoCompany, CompanyRequest
  <2>5. Begins(r, call)
    BY <1>5, <2>2 DEF CreateUserByOwner
  <2> HIDE DEF call
  <2>6. NewcomerCall(call, e)
    BY <2>4 DEF NewcomerCall
  <2>7. c \in 0..Len(companies)
    BY <2>3, PlaceTypes
  <2>8. QED
    BY <1>1, <1>3, <2>3, <2>4, <2>5, <2>6, <2>7
<1>6. QED
  BY <1>1, <1>4, <1>5

(***************************************************************************)
(* The steps that sign a person up                                         *)
(***************************************************************************)
\* What a step of a request leaves of those about other people.
LeavesOthers(r) ==
    /\ Alone(r) /\ req'[r].email \in {req[r].email, "none"}
    /\ parted \subseteq parted' /\ Len(companies) <= Len(companies')
    /\ \A c \in 1..Len(companies) : companies'[c].by = companies[c].by
    /\ MemberEmails \subseteq MemberEmails'
    /\ MemberEmails' \subseteq MemberEmails \cup {req[r].email}
    /\ \A c \in 1..Len(companies) : HasMember(c) => HasMember(c)'
    /\ \A e \in Emails :
          \/ users'[e] = users[e]
          \/ users'[e] # "none" /\ e \in MemberEmails \cup {req[r].email}

LEMMA LaterLeavesOthers ==
  ASSUME PlaceOfCompanies, NEW r \in Requests, Alone(r), Later(r)
  PROVE  LeavesOthers(r)
<1>1. MemberEmails' = MemberEmails /\ \A c : HasMember(c) => HasMember(c)'
  BY DEF Later, MemberEmails, HasMember
<1>2. Len(companies) <= Len(companies')
  BY PlaceTypes DEF Later
<1>3. QED
  BY <1>1, <1>2 DEF Later, LeavesOthers

LEMMA NewCompanyType ==
  ASSUME NEW e \in Emails, NEW email \in Emails \cup {"none"}
  PROVE  /\ NewCompany(e, email) \in CompanyRow
         /\ NewCompany(e, email).by = e /\ NewCompany(e, email).email = email
         /\ NewCompany(e, email).step = 1
  BY DEF NewCompany, CompanyRow, Currencies, Slugs, StepStatus

LEMMA CompanyIsCreated ==
  ASSUME PlaceOfCompanies, NEW r \in Requests, CreateCompany(r)
  PROVE  /\ PlaceOfCompanies' /\ LeavesOthers(r) /\ req[r].pc = "company"
         /\ UNCHANGED <<users, members, reviews, parted>>
         /\ \A c \in 1..Len(companies) : companies'[c] = companies[c]
         /\ \/ companies' = companies /\ req'[r] = Idle
            \/ /\ Len(companies') = Len(companies) + 1
               /\ req'[r].pc = "user" /\ req'[r].company = Len(companies')
               /\ req'[r].email = req[r].email /\ req'[r].kind = req[r].kind
               /\ companies'[Len(companies')] =
                    NewCompany(req[r].email, IF req[r].kind = "atonce"
                                             THEN req[r].email ELSE "none")
<1> DEFINE e == req[r].email
           email == IF req[r].kind = "atonce" THEN e ELSE "none"
           n == Len(companies)
<1>1. /\ req[r].pc = "company"
      /\ UNCHANGED <<people, reviews, parted, calls, troubles>>
      /\ \/ Done(r) /\ companies' = companies
         \/ /\ n < MaxCompanies
            /\ companies' = Append(companies, NewCompany(e, email))
            /\ req' = [req EXCEPT ![r].pc = "user", ![r].company = n + 1]
  BY DEF CreateCompany
<1>2. e \in Emails /\ email \in Emails \cup {"none"} /\ n \in Nat
  BY <1>1, PlaceTypes DEF PlaceOfCompanies, Proper
<1>3. MemberEmails' = MemberEmails /\ \A c : HasMember(c) => HasMember(c)'
  BY <1>1 DEF MemberEmails, HasMember, people
<1>4. UNCHANGED <<users, members, reviews, parted>>
  BY <1>1 DEF people
<1> HIDE DEF email
<1>5. CASE Done(r) /\ companies' = companies
  <2>1. Grown
    BY <1>3, <1>5, PlaceTypes DEF Grown
  <2>2. /\ req' \in [Requests -> CompanyRequest]
        /\ \A q \in Requests : Proper(req'[q], Len(companies'), MemberEmails')
        /\ Alone(r) /\ req'[r] = Idle
    BY <1>5, <2>1, RequestIsDone DEF Alone
  <2>3. PlaceOfCompanies'
    BY <1>1, <1>5, <2>2, PlaceAgain DEF people, reviews
  <2>4. LeavesOthers(r)
    BY <1>3, <1>4, <1>5, <2>1, <2>2, IdleType DEF LeavesOthers, Grown
  <2>5. QED
    BY <1>1, <1>4, <1>5, <2>2, <2>3, <2>4
<1>6. CASE /\ n < MaxCompanies
           /\ companies' = Append(companies, NewCompany(e, email))
           /\ req' = [req EXCEPT ![r].pc = "user", ![r].company = n + 1]
  <2>1. PICK row \in CompanyRow : row = NewCompany(e, email) /\ row.step = 1
    BY <1>2, NewCompanyType
  <2>2. /\ companies' \in Seq(CompanyRow) /\ Len(companies') = n + 1
        /\ companies'[n + 1] = row
        /\ \A c \in 1..n : companies'[c] = companies[c]
    BY <1>2, <1>6, <2>1, PlaceTypes, AppendProperties
  <2>3. \A d \in 1..Len(companies') : companies'[d].step >= 1
    BY <1>2, <2>1, <2>2 DEF PlaceOfCompanies
  <2>4. Grown
    BY <1>2, <1>3, <2>2 DEF Grown
  <2> DEFINE rec == [req[r] EXCEPT !.pc = "user", !.company = n + 1]
  <2>5. req \in [Requests -> CompanyRequest] /\ req[r] \in CompanyRequest
    BY DEF PlaceOfCompanies
  <2>6. /\ rec \in CompanyRequest /\ rec.pc = "user" /\ rec.kind = req[r].kind
        /\ rec.email = e /\ rec.company = n + 1
    <3>1. ASSUME NEW m \in Nat
          PROVE  LET next == [req[r] EXCEPT !.pc = "user", !.company = m]
                 IN  /\ next \in CompanyRequest /\ next.pc = "user"
                     /\ next.kind = req[r].kind /\ next.email = e
                     /\ next.company = m
      BY <2>5 DEF CompanyRequest
    <3>2. n + 1 \in Nat
      BY <1>2
    <3>3. QED
      BY <3>1, <3>2
  <2>7. req' = [req EXCEPT ![r] = rec]
    BY <1>6, <2>5
  <2> HIDE DEF rec
  <2>8. Proper(rec, Len(companies'), MemberEmails')
    BY <1>2, <2>2, <2>6 DEF Proper, Inside, Signing, SigningUp
  <2>9. /\ req' \in [Requests -> CompanyRequest]
        /\ \A q \in Requests : Proper(req'[q], Len(companies'), MemberEmails')
        /\ Alone(r) /\ req'[r] = rec
    BY <2>4, <2>6, <2>7, <2>8, CompanyBecoming DEF Alone
  <2>10. Len(companies') <= MaxCompanies
    BY <1>2, <1>6, <2>2, OnboardingConstants
  <2>11. PlaceOfCompanies'
    BY <1>1, <2>2, <2>3, <2>4, <2>9, <2>10, PlaceAgain
       DEF people, reviews, Grown
  <2>12. LeavesOthers(r)
    BY <1>3, <1>4, <2>2, <2>4, <2>6, <2>9 DEF LeavesOthers, Grown
  <2>13. companies'[Len(companies')] = NewCompany(e, email)
    BY <2>1, <2>2
  <2>14. QED
    BY <1>1, <1>4, <2>2, <2>6, <2>9, <2>11, <2>12, <2>13 DEF email
<1>7. QED
  BY <1>1, <1>5, <1>6

\* Creating the user, and the role of those there is one of.
LEMMA UserIsCreated ==
  ASSUME PlaceOfCompanies, NEW r \in Requests, CreateUser(r)
  PROVE  /\ PlaceOfCompanies' /\ LeavesOthers(r) /\ req[r].pc = "user"
         /\ UNCHANGED <<companies, members, reviews, parted>>
         /\ \/ users' = users /\ users[req[r].email] # "none" /\ req'[r] = Idle
            \/ /\ users'[req[r].email] # "none" /\ req'[r].pc = "role"
               /\ req'[r].email = req[r].email /\ req'[r].company = req[r].company
<1> DEFINE e == req[r].email
<1>1. /\ req[r].pc = "user" /\ req[r].pc \in Signing
      /\ UNCHANGED <<companies, members, roleRows, reviews, parted, calls,
                     troubles>>
      /\ \/ users[e] # "none" /\ Done(r) /\ users' = users
         \/ \E status \in {"PENDING", "ACTIVE"} :
               /\ users' = [users EXCEPT ![e] = status]
               /\ Goto(r, "role")
  BY DEF CreateUser, Signing, SigningUp
<1>2. e \in Emails /\ users \in [Emails -> UserStatuses]
  BY <1>1 DEF PlaceOfCompanies, Proper, OnboardingTypeOK, UserStatuses
<1>3. MemberEmails' = MemberEmails /\ \A c : HasMember(c) => HasMember(c)'
  BY <1>1 DEF MemberEmails, HasMember
<1>4. Grown /\ Len(companies) <= Len(companies')
  BY <1>1, <1>3, PlaceTypes DEF Grown
<1>5. UNCHANGED <<companies, members, reviews, parted>>
  BY <1>1
<1>6. CASE users[e] # "none" /\ Done(r) /\ users' = users
  <2>1. /\ req' \in [Requests -> CompanyRequest]
        /\ \A q \in Requests : Proper(req'[q], Len(companies'), MemberEmails')
        /\ Alone(r) /\ req'[r] = Idle
    BY <1>4, <1>6, RequestIsDone DEF Alone
  <2>2. PlaceOfCompanies'
    BY <1>1, <1>6, <2>1, PlaceAgain DEF reviews
  <2>3. LeavesOthers(r)
    BY <1>3, <1>4, <1>5, <1>6, <2>1, IdleType DEF LeavesOthers
  <2>4. QED
    BY <1>1, <1>5, <1>6, <2>1, <2>2, <2>3
<1>7. ASSUME NEW status \in {"PENDING", "ACTIVE"},
             users' = [users EXCEPT ![e] = status], Goto(r, "role")
      PROVE  /\ PlaceOfCompanies' /\ LeavesOthers(r)
             /\ users'[e] # "none" /\ req'[r].pc = "role"
             /\ req'[r].email = e /\ req'[r].company = req[r].company
  <2>1. MovesOn(r, "role")
    BY <1>1 DEF MovesOn, Signing, SigningUp
  <2>2. /\ req' \in [Requests -> CompanyRequest]
        /\ \A q \in Requests : Proper(req'[q], Len(companies'), MemberEmails')
        /\ Alone(r) /\ req'[r].pc = "role" /\ req'[r].email = e
        /\ req'[r].company = req[r].company /\ req'[r].kind = req[r].kind
    BY <1>4, <1>7, <2>1, RequestGoesOn DEF Alone
  <2>3. /\ users' \in [Emails -> UserStatuses] /\ users'[e] # "none"
        /\ \A x \in Emails : x # e => users'[x] = users[x]
    BY <1>2, <1>7 DEF UserStatuses
  <2>4. PlaceOfCompanies'
    BY <1>1, <2>2, <2>3, PlaceAgain DEF reviews
  <2>5. LeavesOthers(r)
    BY <1>3, <1>4, <1>5, <2>2, <2>3 DEF LeavesOthers
  <2>6. QED
    BY <2>2, <2>3, <2>4, <2>5
<1>8. QED
  BY <1>1, <1>5, <1>6, <1>7

LEMMA RoleIsCreated ==
  ASSUME PlaceOfCompanies, NEW r \in Requests, ReadRole(r) \/ CreateRole(r)
  PROVE  /\ PlaceOfCompanies' /\ LeavesOthers(r)
         /\ req[r].pc \in {"role", "newrole"}
         /\ UNCHANGED <<companies, users, members, reviews>>
         /\ \/ req'[r] = Idle /\ req[r].email \in parted'
            \/ /\ req'[r].pc \in {"member", "newrole"}
               /\ req'[r].email = req[r].email /\ req'[r].company = req[r].company
<1>1. /\ req[r].pc \in {"role", "newrole"} /\ req[r].pc \in Signing
      /\ UNCHANGED <<companies, users, members, reviews, calls, troubles>>
      /\ roleRows' \subseteq roleRows \cup Roles
      /\ \/ Done(r) /\ parted' = parted \cup {req[r].email}
         \/ \E pc \in {"member", "newrole"} : Goto(r, pc) /\ parted' = parted
  BY DEF ReadRole, CreateRole, RoleOf, Roles, people, Signing, SigningUp
<1>2. req[r].email \in Emails
  BY <1>1 DEF PlaceOfCompanies, Proper
<1>3. MemberEmails' = MemberEmails /\ \A c : HasMember(c) => HasMember(c)'
  BY <1>1 DEF MemberEmails, HasMember
<1>4. Grown /\ Len(companies) <= Len(companies')
  BY <1>1, <1>3, PlaceTypes DEF Grown
<1>5. parted \subseteq parted' /\ parted' \subseteq parted \cup Emails
  BY <1>1, <1>2
<1>6. CASE Done(r) /\ parted' = parted \cup {req[r].email}
  <2>1. /\ req' \in [Requests -> CompanyRequest]
        /\ \A q \in Requests : Proper(req'[q], Len(companies'), MemberEmails')
        /\ Alone(r) /\ req'[r] = Idle
    BY <1>4, <1>6, RequestIsDone DEF Alone
  <2>2. PlaceOfCompanies'
    BY <1>1, <1>5, <2>1, PlaceAgain DEF reviews
  <2>3. LeavesOthers(r)
    BY <1>1, <1>3, <1>4, <1>5, <2>1, IdleType DEF LeavesOthers
  <2>4. QED
    BY <1>1, <1>6, <2>1, <2>2, <2>3
<1>7. ASSUME NEW pc \in {"member", "newrole"}, Goto(r, pc), parted' = parted
      PROVE  /\ PlaceOfCompanies' /\ LeavesOthers(r)
             /\ req'[r].pc \in {"member", "newrole"}
             /\ req'[r].email = req[r].email /\ req'[r].company = req[r].company
  <2>1. MovesOn(r, pc)
    BY <1>1, <1>7 DEF MovesOn, Signing, SigningUp
  <2>2. /\ req' \in [Requests -> CompanyRequest]
        /\ \A q \in Requests : Proper(req'[q], Len(companies'), MemberEmails')
        /\ Alone(r) /\ req'[r].pc = pc /\ req'[r].email = req[r].email
        /\ req'[r].company = req[r].company /\ req'[r].kind = req[r].kind
    BY <1>4, <1>7, <2>1, RequestGoesOn DEF Alone
  <2>3. PlaceOfCompanies'
    BY <1>1, <1>5, <2>2, PlaceAgain DEF reviews
  <2>4. LeavesOthers(r)
    BY <1>1, <1>3, <1>4, <1>5, <2>2 DEF LeavesOthers
  <2>5. QED
    BY <2>2, <2>3, <2>4
<1>8. QED
  BY <1>1, <1>6, <1>7

LEMMA MemberIsCreated ==
  ASSUME PlaceOfCompanies, NEW r \in Requests, CreateMember(r)
  PROVE  /\ PlaceOfCompanies' /\ LeavesOthers(r)
         /\ req[r].pc = "member"
         /\ UNCHANGED <<companies, users, reviews, parted>>
         /\ req[r].email \in MemberEmails'
         /\ \A d : d = req[r].company => HasMember(d)'
         /\ req'[r] = Idle \/ req'[r].pc = "wallets"
<1> DEFINE e == req[r].email
           c == req[r].company
           row == <<e, c, RoleOf(r)>>
<1>1. /\ req[r].pc = "member" /\ req[r].pc \in Signing /\ req[r].pc \in Inside
      /\ UNCHANGED <<companies, users, roleRows, reviews, parted, calls,
                     troubles>>
      /\ Done(r) \/ (req[r].kind = "atonce" /\ Goto(r, "wallets"))
      /\ \/ members' = members /\ \E i \in DOMAIN members : members[i] = row
         \/ members' = Append(members, row)
  BY DEF CreateMember, Signing, SigningUp, Inside
<1>2. /\ e \in Emails /\ c \in 1..Len(companies) /\ row \in MemberRow
      /\ row[1] = e /\ row[2] = c
  BY <1>1, PlaceTypes
     DEF PlaceOfCompanies, Proper, MemberRow, RoleOf, Roles
<1> HIDE DEF e, c, row
<1>3. /\ members' = members
           \/ (members' \in Seq(MemberRow)
               /\ \A i \in 1..Len(members') : members'[i][2] \in 1..Len(companies'))
      /\ \E i \in 1..Len(members') : members'[i][1] = e /\ members'[i][2] = c
      /\ Len(members') \in Nat /\ Len(members) <= Len(members')
      /\ DOMAIN members' = 1..Len(members')
      /\ \A i \in 1..Len(members) : members'[i] = members[i]
      /\ \A i \in 1..Len(members') : i \in 1..Len(members) \/ members'[i][1] = e
  <2>1. CASE members' = members /\ \E i \in DOMAIN members : members[i] = row
    <3>1. PICK i \in 1..Len(members) : members[i] = row
      BY <2>1, PlaceTypes
    <3>2. members[i][1] = e /\ members[i][2] = c
      BY <1>2, <3>1
    <3>3. QED
      BY <2>1, <3>2, PlaceTypes
  <2>2. CASE members' = Append(members, row)
    <3>1. /\ members' \in Seq(MemberRow) /\ Len(members') = Len(members) + 1
          /\ members'[Len(members) + 1] = row
          /\ \A i \in 1..Len(members) : members'[i] = members[i]
      BY <1>2, <2>2, PlaceTypes, AppendProperties
    <3>2. /\ Len(members) \in Nat /\ Len(members) + 1 \in 1..Len(members')
          /\ \A i \in 1..Len(members') : i \in 1..Len(members)
                                         \/ i = Len(members) + 1
      BY <3>1, PlaceTypes
    <3>3. DOMAIN members' = 1..Len(members')
      BY <3>1, LenProperties
    <3>4. \A i \in 1..Len(members') : members'[i][2] \in 1..Len(companies')
      BY <1>1, <1>2, <3>1, <3>2, PlaceTypes
    <3>5. QED
      BY <1>2, <3>1, <3>2, <3>3, <3>4
  <2>3. QED
    BY <1>1, <2>1, <2>2
<1>4. /\ MemberEmails \subseteq MemberEmails' /\ e \in MemberEmails'
      /\ MemberEmails' \subseteq MemberEmails \cup {e}
  <2>1. 1..Len(members) \subseteq 1..Len(members')
    BY <1>3, PlaceTypes
  <2>2. QED
    BY <1>3, <2>1, PlaceTypes DEF MemberEmails
<1>5. /\ \A d : HasMember(d) => HasMember(d)'
      /\ \A d : d = c => HasMember(d)'
  <2>1. 1..Len(members) \subseteq 1..Len(members')
    BY <1>3, PlaceTypes
  <2>2. QED
    BY <1>3, <2>1 DEF HasMember
<1>6. Grown /\ Len(companies) <= Len(companies')
  BY <1>1, <1>4, PlaceTypes DEF Grown
<1>7. /\ req' \in [Requests -> CompanyRequest]
      /\ \A q \in Requests : Proper(req'[q], Len(companies'), MemberEmails')
      /\ Alone(r)
      /\ \/ req'[r] = Idle
         \/ /\ req'[r].pc = "wallets" /\ req'[r].email = e
            /\ req'[r].kind = req[r].kind /\ req'[r].company = c
            /\ req[r].kind = "atonce"
  <2>1. MovesOn(r, "wallets")
    BY <1>1 DEF MovesOn
  <2>2. QED
    BY <1>1, <1>6, <2>1, RequestIsDone, RequestGoesOn DEF Alone, e, c
<1>8. PlaceOfCompanies'
  BY <1>1, <1>3, <1>7, PlaceAgain DEF reviews
<1>9. LeavesOthers(r)
  BY <1>1, <1>4, <1>5, <1>6, <1>7, IdleType DEF LeavesOthers, e
<1>10. QED
  BY <1>1, <1>4, <1>5, <1>7, <1>8, <1>9 DEF e, c

(***************************************************************************)
(* The other steps                                                         *)
(***************************************************************************)
LEMMA WalletsAreCreated ==
  ASSUME PlaceOfCompanies, NEW r \in Requests, CreateWallets(r)
  PROVE  /\ PlaceOfCompanies' /\ Alone(r) /\ Later(r)
         /\ UNCHANGED reviews
<1> DEFINE c == req[r].company
           old == companies[c]
<1>1. /\ req[r].pc = "wallets" /\ req[r].pc \in Inside \ Signing
      /\ UNCHANGED <<people, reviews, parted, calls>>
      /\ troubles' = troubles \/ Trouble
      /\ Goto(r, "prices")
  BY DEF CreateWallets, Inside, Signing, SigningUp
<1>2. PICK made \in SUBSET Currencies :
        companies' = [companies EXCEPT ![c].wallets =
                        [k \in Currencies |-> @[k] + IF k \in made THEN 1 ELSE 0]]
  BY DEF CreateWallets
<1>3. c \in 1..Len(companies) /\ old \in CompanyRow /\ old.step >= 1
  BY <1>1, InsideCompany
<1> DEFINE wallets == [k \in Currencies |-> old.wallets[k]
                                            + IF k \in made THEN 1 ELSE 0]
<1>4. old.wallets \in [Currencies -> Nat]
  BY <1>3 DEF CompanyRow
<1>5. wallets \in [Currencies -> Nat]
  BY <1>4
<1>6. companies' = [companies EXCEPT ![c].wallets = wallets]
  BY <1>2
<1> HIDE DEF wallets
<1> DEFINE row == [old EXCEPT !.wallets = wallets]
<1>7. companies' = [companies EXCEPT ![c] = row]
  BY <1>3, <1>6, PlaceTypes
<1>8. /\ row \in CompanyRow /\ row.by = old.by /\ row.email = old.email
      /\ row.step = old.step /\ row.wallets = wallets
  BY <1>3, <1>5 DEF CompanyRow
<1> HIDE DEF row
<1>9. MovesOn(r, "prices")
  BY <1>1 DEF MovesOn, Inside
<1>10. UNCHANGED <<users, members, roleRows, papers, reviewed, crossed, parted, calls>>
  BY <1>1 DEF people, reviews
<1>11. /\ PlaceOfCompanies' /\ Alone(r) /\ Later(r)
       /\ companies'[c] = row /\ Len(companies') = Len(companies)
       /\ \A d \in 1..Len(companies) : d # c => companies'[d] = companies[d]
  <2> HIDE DEF c
  <2>1. row.step >= 1 /\ row.by = companies[c].by
    BY <1>3, <1>8
  <2>2. QED
    BY <1>1, <1>3, <1>7, <1>8, <1>9, <1>10, <2>1, WritesRow
<1>12. QED
  BY <1>1, <1>11 DEF reviews

\* A submission, and what becomes of the papers.
LEMMA IsSubmitted ==
  ASSUME PlaceOfCompanies, NEW r \in Requests, Submit(r)
  PROVE  /\ PlaceOfCompanies' /\ Alone(r) /\ Later(r)
         /\ UNCHANGED <<reviewed, crossed>>
         /\ papers' \in [Subjects -> Papers]
         /\ \A s \in Subjects : papers'[s] = papers[s]
                                \/ papers'[s].status = "PENDING"
<1> DEFINE s == req[r].value
           c == req[r].company
           old == companies[c]
<1>1. /\ req[r].pc = "submit" /\ req[r].pc \in Inside \ Signing
      /\ UNCHANGED <<members, roleRows, reviewed, crossed, parted, calls,
                     troubles>>
      /\ Goto(r, "tick")
      /\ papers' = papers \/ papers' = [papers EXCEPT ![s] = Submitted(@)]
      /\ \/ /\ req[r].kind = "kyb" /\ users' = users
            /\ companies' = [companies EXCEPT ![s].step = req[r].seen + 1]
         \/ /\ req[r].kind # "kyb" /\ companies' = companies
            /\ users' = [users EXCEPT ![s] = "ACTIVE"]
  BY DEF Submit, Inside, Signing, SigningUp
<1>2. c \in 1..Len(companies) /\ old \in CompanyRow /\ old.step >= 1
  BY <1>1, InsideCompany
<1>3. \/ req[r].kind = "kyb" /\ s = c /\ req[r].seen >= 1
      \/ req[r].kind # "kyb" /\ s \in MemberEmails
  BY <1>1 DEF PlaceOfCompanies, Proper
<1>4. s \in Subjects /\ req[r].seen \in Nat
  BY <1>2, <1>3, PlaceTypes DEF Subjects, CompanyRequest
<1>5. papers \in [Subjects -> Papers]
  BY DEF PlaceOfCompanies, OnboardingTypeOK, Papers
<1>6. /\ papers' \in [Subjects -> Papers]
      /\ \A x \in Subjects : papers'[x] = papers[x] \/ papers'[x].status = "PENDING"
  <2>1. Submitted(papers[s]) \in Papers /\ Submitted(papers[s]).status = "PENDING"
    BY <1>4, <1>5 DEF Submitted, Papers
  <2>2. CASE papers' = [papers EXCEPT ![s] = Submitted(@)]
    <3>1. papers' = [papers EXCEPT ![s] = Submitted(papers[s])]
      BY <2>2
    <3>2. QED
      BY <1>4, <1>5, <2>1, <3>1
  <2>3. QED
    BY <1>1, <1>5, <2>2
<1>7. MovesOn(r, "tick")
  BY <1>1 DEF MovesOn, Inside
<1>8. CASE /\ req[r].kind = "kyb" /\ users' = users
           /\ companies' = [companies EXCEPT ![s].step = req[r].seen + 1]
  <2> DEFINE row == [old EXCEPT !.step = req[r].seen + 1]
  <2>1. s = c /\ req[r].seen + 1 \in Nat /\ req[r].seen + 1 > 1
    BY <1>3, <1>4, <1>8
  <2>2. companies' = [companies EXCEPT ![c] = row]
    BY <1>2, <1>8, <2>1, PlaceTypes
  <2>3. /\ row \in CompanyRow /\ row.by = old.by /\ row.email = old.email
        /\ row.step = req[r].seen + 1 /\ row.wallets = old.wallets
    BY <1>2, <2>1 DEF CompanyRow
  <2> HIDE DEF row, s
  <2>4. row.step >= 1 /\ row.step > 1 /\ row.by = companies[c].by
    BY <1>4, <2>1, <2>3
  <2>5. PlaceOfCompanies' /\ Alone(r) /\ Later(r)
    <3> HIDE DEF c
    <3>1. QED
      BY <1>1, <1>2, <1>6, <1>7, <1>8, <2>2, <2>3, <2>4, WritesRow
  <2>6. QED
    BY <1>1, <1>6, <2>5
<1>9. CASE /\ req[r].kind # "kyb" /\ companies' = companies
           /\ users' = [users EXCEPT ![s] = "ACTIVE"]
  <2>1. s \in MemberEmails /\ s \in Emails
    BY <1>3, <1>9, PlaceTypes
  <2>2. users \in [Emails -> UserStatuses]
    BY DEF PlaceOfCompanies, OnboardingTypeOK, UserStatuses
  <2>3. /\ users' \in [Emails -> UserStatuses]
        /\ \A e \in Emails : users'[e] = users[e]
                             \/ (e \in MemberEmails /\ users'[e] = "ACTIVE")
    BY <1>9, <2>1, <2>2 DEF UserStatuses
  <2>4. Grown
    BY <1>1, <1>9, PlaceTypes DEF Grown, MemberEmails
  <2>5. /\ req' \in [Requests -> CompanyRequest]
        /\ \A q \in Requests : Proper(req'[q], Len(companies'), MemberEmails')
        /\ Alone(r) /\ req'[r].pc = "tick" /\ req'[r].kind = req[r].kind
        /\ req'[r].email = req[r].email /\ req'[r].company = req[r].company
    BY <1>1, <1>7, <2>4, RequestGoesOn DEF Alone
  <2>6. PlaceOfCompanies'
    BY <1>1, <1>6, <1>9, <2>3, <2>5, PlaceAgain
  <2>7. Later(r)
    BY <1>1, <1>9, <2>3, <2>5 DEF Later, Signing, SigningUp
  <2>8. QED
    BY <1>1, <1>6, <2>5, <2>6, <2>7
<1>10. QED
  BY <1>1, <1>8, <1>9

LEMMA IsDecided ==
  ASSUME PlaceOfCompanies, NEW r \in Requests, Decide(r)
  PROVE  /\ PlaceOfCompanies' /\ Alone(r) /\ Later(r)
         /\ \A s \in Subjects :
               \/ /\ papers'[s] = papers[s] /\ reviewed'[s] = reviewed[s]
                  /\ s \in crossed' <=> s \in crossed
               \/ s \in crossed'
               \/ reviewed'[s] = papers'[s].docs
<1> DEFINE s == req[r].value
           v == req[r].kind
<1>1. /\ req[r].pc = "decide" /\ Done(r)
      /\ UNCHANGED <<companies, people, parted, calls, troubles>>
      /\ papers' = [papers EXCEPT ![s].status = v]
      /\ reviewed' = [reviewed EXCEPT ![s] = req[r].seen]
      /\ crossed' = IF papers[s].docs # req[r].seen THEN crossed \cup {s}
                    ELSE crossed \ {s}
  BY DEF Decide
<1>2. s \in Subjects /\ v \in Decisions /\ req[r].seen \in Nat
  BY <1>1, PlaceTypes DEF PlaceOfCompanies, Proper, CompanyRequest
<1>3. /\ papers \in [Subjects -> Papers] /\ reviewed \in [Subjects -> Nat]
      /\ crossed \subseteq Subjects
  BY DEF PlaceOfCompanies, OnboardingTypeOK, Papers
<1> HIDE DEF s, v
<1>4. /\ papers' \in [Subjects -> Papers] /\ papers'[s].docs = papers[s].docs
      /\ \A x \in Subjects : x # s => papers'[x] = papers[x]
  <2>1. [papers[s] EXCEPT !.status = v] \in Papers
        /\ [papers[s] EXCEPT !.status = v].docs = papers[s].docs
    BY <1>2, <1>3 DEF Papers
  <2>2. papers' = [papers EXCEPT ![s] = [papers[s] EXCEPT !.status = v]]
    BY <1>1, <1>2, <1>3
  <2>3. QED
    BY <1>2, <1>3, <2>1, <2>2
<1>5. /\ reviewed' \in [Subjects -> Nat] /\ reviewed'[s] = req[r].seen
      /\ \A x \in Subjects : x # s => reviewed'[x] = reviewed[x]
      /\ crossed' \subseteq crossed \cup Subjects
  BY <1>1, <1>2, <1>3
<1>6. Grown /\ UNCHANGED <<companies, members, users, parted, roleRows>>
  BY <1>1, PlaceTypes DEF Grown, MemberEmails, people
<1>7. /\ req' \in [Requests -> CompanyRequest]
      /\ \A q \in Requests : Proper(req'[q], Len(companies'), MemberEmails')
      /\ Alone(r) /\ req'[r] = Idle
  BY <1>1, <1>6, RequestIsDone DEF Alone
<1>8. PlaceOfCompanies'
  BY <1>1, <1>4, <1>5, <1>6, <1>7, PlaceAgain
<1>9. Later(r)
  BY <1>1, <1>6, <1>7, IdleType DEF Later, Signing, SigningUp
<1>10. ASSUME NEW x \in Subjects
       PROVE  \/ /\ papers'[x] = papers[x] /\ reviewed'[x] = reviewed[x]
                 /\ x \in crossed' <=> x \in crossed
              \/ x \in crossed'
              \/ reviewed'[x] = papers'[x].docs
  <2>1. CASE x = s
    <3>1. CASE papers[s].docs # req[r].seen
      BY <1>1, <2>1, <3>1
    <3>2. CASE papers[s].docs = req[r].seen
      BY <1>4, <1>5, <2>1, <3>2
    <3>3. QED
      BY <3>1, <3>2
  <2>2. CASE x # s
    <3>1. x \in crossed' <=> x \in crossed
      BY <1>1, <2>2
    <3>2. QED
      BY <1>4, <1>5, <2>2, <3>1
  <2>3. QED
    BY <2>1, <2>2
<1>11. QED
  BY <1>7, <1>8, <1>9, <1>10

LEMMA IsCutShort ==
  ASSUME PlaceOfCompanies, NEW r \in Requests, CutShort(r)
  PROVE  /\ PlaceOfCompanies' /\ LeavesOthers(r)
         /\ UNCHANGED <<companies, users, members, reviews>>
         /\ req'[r] = Idle
         /\ req[r].email \in Emails => req[r].email \in parted'
<1>1. /\ Done(r) /\ Trouble /\ parted' = parted \cup ({req[r].email} \cap Emails)
      /\ UNCHANGED <<companies, people, reviews, calls>>
  BY DEF CutShort
<1>2. MemberEmails' = MemberEmails /\ \A c : HasMember(c) => HasMember(c)'
  BY <1>1 DEF MemberEmails, HasMember, people
<1>3. Grown /\ Len(companies) <= Len(companies')
  BY <1>1, <1>2, PlaceTypes DEF Grown
<1>4. /\ req' \in [Requests -> CompanyRequest]
      /\ \A q \in Requests : Proper(req'[q], Len(companies'), MemberEmails')
      /\ Alone(r) /\ req'[r] = Idle
  BY <1>1, <1>3, RequestIsDone DEF Alone
<1>5. UNCHANGED <<companies, users, members, roleRows, reviews>>
  BY <1>1 DEF people
<1>6. parted \subseteq parted' /\ parted' \subseteq parted \cup Emails
  BY <1>1
<1>7. PlaceOfCompanies'
  BY <1>1, <1>4, <1>5, <1>6, PlaceAgain DEF reviews
<1>8. LeavesOthers(r)
  BY <1>2, <1>3, <1>4, <1>5, <1>6, IdleType DEF LeavesOthers
<1>9. QED
  BY <1>1, <1>4, <1>5, <1>7, <1>8

LEMMA Crashes ==
  ASSUME PlaceOfCompanies, Crash
  PROVE  /\ PlaceOfCompanies'
         /\ UNCHANGED <<companies, users, members, reviews>>
         /\ \A r \in Requests : /\ req'[r] = Idle
                                /\ req[r].email \in Emails => req[r].email \in parted'
         /\ parted \subseteq parted'
<1>1. /\ Trouble /\ req' = [r \in Requests |-> Idle]
      /\ parted' = parted \cup ({req[r].email : r \in Requests} \cap Emails)
      /\ UNCHANGED <<companies, users, members, roleRows, reviews, calls>>
  BY DEF Crash, people
<1>2. req' \in [Requests -> CompanyRequest]
  BY <1>1, IdleType
<1>3. \A r \in Requests : Proper(req'[r], Len(companies'), MemberEmails')
  BY <1>1, PlaceTypes, IdleType
<1>4. parted \subseteq parted' /\ parted' \subseteq parted \cup Emails
  BY <1>1
<1>5. PlaceOfCompanies'
  BY <1>1, <1>2, <1>3, <1>4, PlaceAgain DEF reviews
<1>6. QED
  BY <1>1, <1>4, <1>5

\* Steps changed by hand.
SomeStepsChange ==
    \E c \in DOMAIN companies :
        \/ \E g \in Slugs :
              \/ \E status \in {"open", "COMPLETED"} :
                    \/ CreateOnboardingStep(c, g, status)
                    \/ UpdateStepStatus(c, g, status)
              \/ DeleteOnboardingStep(c, g)
        \/ ResetCompanySteps(c)

LEMMA StepsChange ==
  ASSUME PlaceOfCompanies, SomeStepsChange
  PROVE  /\ PlaceOfCompanies'
         /\ UNCHANGED <<users, members, reviews, req, parted>>
         /\ Len(companies') = Len(companies)
         /\ \A c \in 1..Len(companies) :
               /\ companies'[c].by = companies[c].by
               /\ companies'[c].email = companies[c].email
               /\ companies'[c].step = companies[c].step
               /\ companies'[c].wallets = companies[c].wallets
               /\ companies'[c].priced = companies[c].priced
<1>1. PICK c \in DOMAIN companies :
        \/ \E g \in Slugs, s \in StepStatus :
              ChangeSteps(c, [companies[c].steps EXCEPT ![g] = s])
        \/ ChangeSteps(c, [g \in Slugs |-> IF HasStep(c, g) THEN "open"
                                           ELSE "absent"])
  BY DEF SomeStepsChange, CreateOnboardingStep, UpdateStepStatus,
     DeleteOnboardingStep, ResetCompanySteps, StepStatus
<1> DEFINE old == companies[c]
<1>2. c \in 1..Len(companies) /\ old \in CompanyRow /\ old.step >= 1
  BY PlaceTypes DEF PlaceOfCompanies
<1>3. \E steps \in [Slugs -> StepStatus] : ChangeSteps(c, steps)
  <2>1. old.steps \in [Slugs -> StepStatus]
    BY <1>2 DEF CompanyRow
  <2>2. ASSUME NEW g \in Slugs, NEW s \in StepStatus
        PROVE  [old.steps EXCEPT ![g] = s] \in [Slugs -> StepStatus]
    BY <2>1
  <2>3. [g \in Slugs |-> IF HasStep(c, g) THEN "open" ELSE "absent"]
          \in [Slugs -> StepStatus]
    BY DEF StepStatus
  <2>4. QED
    BY <1>1, <2>2, <2>3
<1>4. PICK steps \in [Slugs -> StepStatus] : ChangeSteps(c, steps)
  BY <1>3
<1>5. /\ calls < MaxCalls /\ calls' = calls + 1
      /\ companies' = [companies EXCEPT ![c].steps = steps]
      /\ UNCHANGED <<users, members, roleRows, reviews, req, parted,
                     troubles>>
  BY <1>4 DEF ChangeSteps, people
<1> DEFINE row == [old EXCEPT !.steps = steps]
<1>6. companies' = [companies EXCEPT ![c] = row]
  BY <1>2, <1>5, PlaceTypes
<1>7. /\ row \in CompanyRow /\ row.by = old.by /\ row.email = old.email
      /\ row.step = old.step /\ row.wallets = old.wallets
      /\ row.priced = old.priced
  BY <1>2 DEF CompanyRow
<1> HIDE DEF row
<1>8. /\ companies' \in Seq(CompanyRow) /\ Len(companies') = Len(companies)
      /\ companies'[c] = row
      /\ \A d \in 1..Len(companies) : d # c => companies'[d] = companies[d]
      /\ \A d \in 1..Len(companies') : companies'[d].step >= 1
  BY <1>2, <1>6, <1>7, RowWritten
<1>9. /\ req' \in [Requests -> CompanyRequest]
      /\ \A q \in Requests : Proper(req'[q], Len(companies'), MemberEmails')
  BY <1>5, <1>8 DEF PlaceOfCompanies, MemberEmails
<1>10. Len(companies') <= MaxCompanies /\ Len(companies) <= Len(companies')
  BY <1>8, PlaceTypes, OnboardingConstants
<1>11. PlaceOfCompanies'
  BY <1>5, <1>8, <1>9, <1>10, PlaceAgain DEF reviews
<1>12. QED
  BY <1>5, <1>7, <1>8, <1>11

\* Every step is one of these.
LEMMA OnboardingCases ==
  ASSUME OnboardingNext
  PROVE  \/ \E r \in Requests :
              \/ \E e \in Emails : \/ CreateCompanyUser(r, e)
                                   \/ RegisterPersonalInfo(r, e)
                                   \/ \E o \in Emails : CreateUserByOwner(r, o, e)
              \/ \E e \in Emails, v \in Decisions :
                    HandleKyc(r, e, v) \/ UpdateKycStatus(r, e, v)
              \/ \E c \in DOMAIN companies :
                    \/ RegisterBusinessInfo(r, c)
                    \/ InitializeOnboardingSteps(r, c)
                    \/ CompleteKyc(r, c) \/ CompleteKyb(r, c)
                    \/ CompleteProfile(r, c)
                    \/ \E v \in Decisions :
                          HandleKyb(r, c, v) \/ UpdateKybStatus(r, c, v)
              \/ CreateCompany(r) /\ req[r].kind \in {"atonce", "personal"}
              \/ CreateUser(r) \/ ReadRole(r) \/ CreateRole(r) \/ CreateMember(r)
              \/ CreateWallets(r)
              \/ WriteBusinessInfo(r) \/ RefuseKyb(r) \/ FindSteps(r)
              \/ AnswerSubmission(r) \/ MailDecision(r)
              \/ CreatePrices(r) \/ CreateSteps(r) \/ TickStep(r)
              \/ Submit(r) \/ Decide(r) \/ CutShort(r)
         \/ SomeStepsChange
         \/ Crash
<1>1. CASE \E r \in Requests :
             \/ CreatesCompanyUser(r) \/ RegistersPersonalInfo(r)
             \/ RegistersBusinessInfo(r) \/ HandlesInvitation(r)
             \/ InitializesSteps(r)
             \/ CompletesKyc(r) \/ CompletesKyb(r) \/ CompletesProfile(r)
  BY <1>1 DEF CreatesCompanyUser, RegistersPersonalInfo, RegistersBusinessInfo,
     HandlesInvitation, InitializesSteps, CompletesKyc, CompletesKyb,
     CompletesProfile
<1>2. CASE ~\E r \in Requests :
             \/ CreatesCompanyUser(r) \/ RegistersPersonalInfo(r)
             \/ RegistersBusinessInfo(r) \/ HandlesInvitation(r)
             \/ InitializesSteps(r)
             \/ CompletesKyc(r) \/ CompletesKyb(r) \/ CompletesProfile(r)
  BY <1>2 DEF OnboardingNext, GoesOnWith, SomeStepsChange
<1>3. QED
  BY <1>1, <1>2

(***************************************************************************)
(* A company nobody is in                                                  *)
(***************************************************************************)
\* What is left of the invariant when one request takes a step that leaves
\* the others alone.
LEMMA OthersAreKept ==
  ASSUME PlaceOfCompanies, OwnerInv, NEW r \in Requests, LeavesOthers(r)
  PROVE  /\ Sole'
         /\ \A q \in Requests \ {r} : SignsUp(q)'
         /\ \A e \in Emails : e # req[r].email => Settled(e)'
         /\ \A e \in Emails :
               req[r].pc \notin SigningUp /\ users'[e] = users[e]
                 /\ MemberEmails' = MemberEmails => Settled(e)'
         /\ \A c \in 1..Len(companies) :
               \/ Owned(c)'
               \/ /\ req[r].pc \in Signing /\ req[r].company = c
                  /\ req[r].email = companies[c].by
<1>1. /\ Alone(r) /\ req'[r].email \in {req[r].email, "none"}
      /\ parted \subseteq parted'
      /\ MemberEmails \subseteq MemberEmails'
      /\ MemberEmails' \subseteq MemberEmails \cup {req[r].email}
      /\ \A e \in Emails :
            \/ users'[e] = users[e]
            \/ users'[e] # "none" /\ e \in MemberEmails \cup {req[r].email}
  BY DEF LeavesOthers
<1>2. "none" \notin Emails
  BY OnboardingConstants
<1>3. Sole'
  BY <1>1, <1>2 DEF OwnerInv, Sole, Alone
<1>4. ASSUME NEW q \in Requests \ {r} PROVE SignsUp(q)'
  <2>1. req'[q] = req[q] /\ SignsUp(q)
    BY <1>1 DEF Alone, OwnerInv
  <2>2. req[q].pc \in Signing \cup {"company"} => req[q].email \in Emails
    BY DEF PlaceOfCompanies, Proper
  <2>3. CASE req[q].pc \in {"company", "user"}
    <3>1. users[req[q].email] = "none" \/ req[q].email \in parted
      BY <2>1, <2>3 DEF SignsUp
    <3>2. CASE req[q].email = req[r].email
      BY <1>1, <2>1, <2>2, <2>3, <3>2 DEF OwnerInv, Sole, SignsUp, Signing, SigningUp
    <3>3. CASE req[q].email \in MemberEmails
      <4>1. users[req[q].email] # "none"
        BY <2>2, <2>3, <3>3 DEF OwnerInv, Settled, Signing
      <4>2. QED
        BY <1>1, <2>1, <2>3, <3>1, <4>1 DEF SignsUp, SigningUp
    <3>4. CASE req[q].email \notin MemberEmails \cup {req[r].email}
      <4>1. users'[req[q].email] = users[req[q].email]
        BY <1>1, <2>2, <2>3, <3>4 DEF Signing
      <4>2. QED
        BY <1>1, <2>1, <2>3, <3>1, <4>1 DEF SignsUp
    <3>5. QED
      BY <3>2, <3>3, <3>4
  <2>4. CASE req[q].pc \in SigningUp
    BY <1>1, <2>1, <2>2, <2>4 DEF SignsUp, SigningUp, Signing
  <2>5. QED
    BY <2>1, <2>3, <2>4 DEF SignsUp, SigningUp
<1>5. ASSUME NEW e \in Emails,
             \/ e # req[r].email
             \/ /\ req[r].pc \notin SigningUp /\ users'[e] = users[e]
                /\ MemberEmails' = MemberEmails
      PROVE  Settled(e)'
  <2>1. Settled(e)
    BY DEF OwnerInv
  <2>2. e \in MemberEmails' <=> e \in MemberEmails
    BY <1>1, <1>5
  <2>3. e \in MemberEmails \/ users'[e] = users[e]
    BY <1>1, <1>5
  <2>4. e \in MemberEmails' => users'[e] # "none"
    BY <1>1, <2>1, <2>2 DEF Settled
  <2>5. ASSUME NEW q \in Requests, req[q].email = e, req[q].pc \in SigningUp
        PROVE  req'[q] = req[q]
    BY <1>1, <1>5, <2>5 DEF Alone
  <2>6. users'[e] # "none" =>
          \/ e \in MemberEmails' \cup parted'
          \/ \E q \in Requests : /\ req'[q].email = e
                                 /\ req'[q].pc \in SigningUp
    BY <1>1, <2>1, <2>2, <2>3, <2>5 DEF Settled, SigningUp
  <2>7. QED
    BY <2>4, <2>6 DEF Settled
<1>6. ASSUME NEW c \in 1..Len(companies),
             ~(/\ req[r].pc \in Signing /\ req[r].company = c
               /\ req[r].email = companies[c].by)
      PROVE  Owned(c)'
  <2>1. Owned(c) /\ companies'[c].by = companies[c].by
    BY DEF OwnerInv, LeavesOthers
  <2>2. HasMember(c) => HasMember(c)'
    BY DEF LeavesOthers
  <2>4. CASE HasMember(c)
    BY <2>2, <2>4 DEF Owned
  <2>5. CASE companies[c].by \in parted
    BY <1>1, <2>1, <2>5 DEF Owned
  <2>6. ASSUME NEW q \in Requests, req[q].pc \in Signing, req[q].company = c,
               req[q].email = companies[c].by
        PROVE  Owned(c)'
    <3>1. q # r
      BY <1>6, <2>6
    <3>2. req'[q] = req[q]
      BY <1>1, <3>1 DEF Alone
    <3>3. QED
      BY <2>1, <2>6, <3>2 DEF Owned
  <2>7. QED
    BY <2>1, <2>4, <2>5, <2>6 DEF Owned
<1>7. QED
  BY <1>3, <1>4, <1>5, <1>6

\* A request that takes no part in signing anyone up leaves it so.
LEMMA LaterOwners ==
  ASSUME PlaceOfCompanies, OwnerInv, NEW r \in Requests, Alone(r), Later(r)
  PROVE  OwnerInv'
<1>1. LeavesOthers(r)
  BY LaterLeavesOthers
<1>2. /\ req[r].pc \notin Signing \cup {"company"}
      /\ req'[r].pc \notin Signing \cup {"company"}
      /\ Len(companies') = Len(companies) /\ MemberEmails' = MemberEmails
      /\ members' = members /\ parted' = parted
      /\ \A e \in Emails : users'[e] = users[e]
                           \/ (e \in MemberEmails /\ users'[e] = "ACTIVE")
  BY DEF Later, MemberEmails
<1>3. Sole' /\ \A q \in Requests \ {r} : SignsUp(q)'
  BY <1>1, OthersAreKept
<1>4. SignsUp(r)'
  BY <1>2 DEF SignsUp, Signing, SigningUp
<1>5. ASSUME NEW e \in Emails PROVE Settled(e)'
  <2>1. CASE users'[e] = users[e]
    BY <1>1, <1>2, <2>1, OthersAreKept DEF Signing
  <2>2. CASE e \in MemberEmails /\ users'[e] = "ACTIVE"
    BY <1>2, <2>2 DEF Settled
  <2>3. QED
    BY <1>2, <2>1, <2>2
<1>6. \A c \in 1..Len(companies') : Owned(c)'
  BY <1>1, <1>2, OthersAreKept
<1>7. QED
  BY <1>3, <1>4, <1>5, <1>6 DEF OwnerInv

\* A step of a request that signs someone up keeps the invariant when it keeps
\* it for that person and for the company.
LEMMA OwnersStep ==
  ASSUME PlaceOfCompanies, OwnerInv, NEW r \in Requests, LeavesOthers(r),
         SignsUp(r)',
         \A e \in Emails : e = req[r].email => Settled(e)',
         \A c \in 1..Len(companies') : c \notin 1..Len(companies) => Owned(c)',
         \A c \in 1..Len(companies) :
            (/\ req[r].pc \in Signing /\ req[r].company = c
             /\ req[r].email = companies[c].by) => Owned(c)'
  PROVE  OwnerInv'
<1>1. Sole' /\ \A q \in Requests \ {r} : SignsUp(q)'
  BY OthersAreKept
<1>2. \A e \in Emails : Settled(e)'
  BY OthersAreKept
<1>3. \A c \in 1..Len(companies') : Owned(c)'
  BY OthersAreKept
<1>4. QED
  BY <1>1, <1>2, <1>3 DEF OwnerInv

LEMMA NewcomerOwners ==
  ASSUME PlaceOfCompanies, OwnerInv, NEW r \in Requests, NEW e \in Emails,
         \/ CreateCompanyUser(r, e) \/ RegisterPersonalInfo(r, e)
         \/ \E o \in Emails : CreateUserByOwner(r, o, e)
  PROVE  OwnerInv'
<1>1. /\ Alone(r) /\ Parts(e) /\ req[r].pc = "idle" /\ NewcomerCall(req'[r], e)
      /\ UNCHANGED <<companies, users, members>>
  BY Newcomer DEF people
<1>2. /\ parted \subseteq parted'
      /\ \A q \in Requests : req[q].email = e => e \in parted'
      /\ MemberEmails' = MemberEmails /\ \A c : HasMember(c) => HasMember(c)'
  BY <1>1 DEF Parts, MemberEmails, HasMember
<1>3. req'[r].email = e /\ \A q \in Requests \ {r} : req'[q] = req[q]
  BY <1>1 DEF NewcomerCall, Alone
<1>4. Sole'
  BY <1>2, <1>3 DEF OwnerInv, Sole
<1>5. ASSUME NEW q \in Requests \ {r} PROVE SignsUp(q)'
  BY <1>1, <1>2, <1>3 DEF OwnerInv, SignsUp
<1>6. SignsUp(r)'
  <2>1. CASE req'[r].pc = "company" /\ users[e] # "none" /\ e \notin MemberEmails
    <3>1. e \in parted \/ \E q \in Requests : req[q].email = e
      BY <2>1 DEF OwnerInv, Settled
    <3>2. e \in parted'
      BY <1>2, <3>1
    <3>3. QED
      BY <1>3, <2>1, <3>2 DEF SignsUp, SigningUp
  <2>2. CASE users[e] = "none" /\ req'[r].pc \in {"company", "user"}
    BY <1>1, <1>3, <2>2 DEF SignsUp, SigningUp
  <2>3. CASE users[e] # "none" /\ req'[r].pc = "role"
    BY <1>1, <1>3, <2>3 DEF SignsUp
  <2>4. QED
    BY <1>1, <2>1, <2>2, <2>3 DEF NewcomerCall
<1>7. ASSUME NEW q \in Requests, req[q].pc \in Signing PROVE req'[q] = req[q]
  BY <1>1, <1>3, <1>7 DEF Signing, SigningUp
<1>8. ASSUME NEW x \in Emails PROVE Settled(x)'
  BY <1>1, <1>2, <1>7 DEF OwnerInv, Settled, Signing
<1>9. ASSUME NEW c \in 1..Len(companies) PROVE Owned(c)'
  BY <1>1, <1>2, <1>7 DEF OwnerInv, Owned
<1>10. QED
  BY <1>1, <1>4, <1>5, <1>6, <1>8, <1>9 DEF OwnerInv

\* The steps that sign a person up.
LEMMA SigningOwners ==
  ASSUME PlaceOfCompanies, OwnerInv, NEW r \in Requests,
         \/ CreateCompany(r) \/ CreateUser(r) \/ ReadRole(r) \/ CreateRole(r)
         \/ CreateMember(r) \/ CutShort(r)
  PROVE  OwnerInv'
<1>1. req[r].pc \in Signing \cup {"company"} => req[r].email \in Emails
  BY DEF PlaceOfCompanies, Proper
<1>2. Idle.pc = "idle"
  BY IdleType
<1>3. ASSUME NEW c \in 1..Len(companies)
      PROVE  companies[c].by \in Emails
  BY PlaceTypes DEF CompanyRow
<1>4. CASE CreateCompany(r)
  <2>1. /\ LeavesOthers(r) /\ req[r].pc = "company"
        /\ UNCHANGED <<users, members, parted>> /\ MemberEmails' = MemberEmails
    BY <1>4, CompanyIsCreated DEF MemberEmails
  <2>2. \A e \in Emails : Settled(e)'
    BY <2>1, OthersAreKept DEF SigningUp
  <2>3. CASE companies' = companies /\ req'[r] = Idle
    <3>1. SignsUp(r)'
      BY <1>2, <2>3 DEF SignsUp, SigningUp
    <3>2. QED
      BY <2>1, <2>2, <2>3, <3>1, OwnersStep DEF Signing, SigningUp
  <2>4. CASE /\ Len(companies') = Len(companies) + 1
             /\ req'[r].pc = "user" /\ req'[r].company = Len(companies')
             /\ req'[r].email = req[r].email
             /\ companies'[Len(companies')] =
                  NewCompany(req[r].email, IF req[r].kind = "atonce"
                                           THEN req[r].email ELSE "none")
    <3>1. SignsUp(r)'
      BY <2>1, <2>4 DEF OwnerInv, SignsUp, SigningUp
    <3>2. companies'[Len(companies')].by = req[r].email
      BY <2>4 DEF NewCompany
    <3>3. \A c : c = Len(companies') => Owned(c)'
      BY <2>4, <3>2 DEF Owned, Signing
    <3>4. \A c \in 1..Len(companies') : c \in 1..Len(companies)
                                        \/ c = Len(companies')
      BY <2>4, PlaceTypes
    <3>5. QED
      BY <2>1, <2>2, <3>1, <3>3, <3>4, OwnersStep DEF Signing, SigningUp
  <2>5. QED
    BY <1>4, <2>3, <2>4, CompanyIsCreated
<1>5. ASSUME LeavesOthers(r), companies' = companies, members' = members,
             users' = users, req'[r] = Idle,
             req[r].email \in Emails => req[r].email \in parted'
      PROVE  OwnerInv'
  <2>1. SignsUp(r)'
    BY <1>2, <1>5 DEF SignsUp, SigningUp
  <2>2. MemberEmails' = MemberEmails
    BY <1>5 DEF MemberEmails
  <2>3. \A e \in Emails : e = req[r].email => Settled(e)'
    BY <1>5, <2>2 DEF OwnerInv, Settled
  <2>4. \A c \in 1..Len(companies) : req[r].email = companies[c].by => Owned(c)'
    BY <1>3, <1>5 DEF Owned
  <2>5. QED
    BY <1>5, <2>1, <2>3, <2>4, OwnersStep
<1>6. ASSUME LeavesOthers(r), companies' = companies, members' = members,
             req'[r].email = req[r].email, req'[r].company = req[r].company,
             req'[r].pc \in SigningUp, req[r].email \in Emails,
             users'[req[r].email] # "none"
      PROVE  OwnerInv'
  <2>1. SignsUp(r)'
    BY <1>6 DEF SignsUp, SigningUp
  <2>2. \A e \in Emails : e = req[r].email => Settled(e)'
    BY <1>6 DEF Settled
  <2>3. \A c \in 1..Len(companies) :
           req[r].email = companies[c].by /\ req[r].company = c => Owned(c)'
    BY <1>6 DEF Owned, Signing
  <2>4. QED
    BY <1>6, <2>1, <2>2, <2>3, OwnersStep
<1>7. CASE CreateUser(r)
  <2>1. /\ LeavesOthers(r) /\ req[r].pc = "user"
        /\ UNCHANGED <<companies, members, parted>>
        /\ \/ users' = users /\ users[req[r].email] # "none" /\ req'[r] = Idle
           \/ /\ users'[req[r].email] # "none" /\ req'[r].pc = "role"
              /\ req'[r].email = req[r].email /\ req'[r].company = req[r].company
    BY <1>7, UserIsCreated
  <2>2. users[req[r].email] = "none" \/ req[r].email \in parted
    BY <2>1 DEF OwnerInv, SignsUp
  <2>3. CASE users' = users /\ users[req[r].email] # "none" /\ req'[r] = Idle
    BY <1>5, <2>1, <2>2, <2>3
  <2>4. CASE /\ users'[req[r].email] # "none" /\ req'[r].pc = "role"
             /\ req'[r].email = req[r].email /\ req'[r].company = req[r].company
    BY <1>1, <1>6, <2>1, <2>4 DEF Signing, SigningUp
  <2>5. QED
    BY <2>1, <2>3, <2>4
<1>8. CASE ReadRole(r) \/ CreateRole(r)
  <2>1. /\ LeavesOthers(r) /\ req[r].pc \in {"role", "newrole"}
        /\ UNCHANGED <<companies, users, members>>
        /\ \/ req'[r] = Idle /\ req[r].email \in parted'
           \/ /\ req'[r].pc \in {"member", "newrole"}
              /\ req'[r].email = req[r].email /\ req'[r].company = req[r].company
    BY <1>8, RoleIsCreated
  <2>2. req[r].email \in Emails /\ users[req[r].email] # "none"
    BY <1>1, <2>1 DEF OwnerInv, SignsUp, Signing, SigningUp
  <2>3. CASE req'[r] = Idle /\ req[r].email \in parted'
    BY <1>5, <2>1, <2>3
  <2>4. CASE /\ req'[r].pc \in {"member", "newrole"}
             /\ req'[r].email = req[r].email /\ req'[r].company = req[r].company
    BY <1>6, <2>1, <2>2, <2>4 DEF SigningUp
  <2>5. QED
    BY <2>1, <2>3, <2>4
<1>9. CASE CreateMember(r)
  <2>1. /\ LeavesOthers(r) /\ req[r].pc = "member"
        /\ UNCHANGED <<companies, users>>
        /\ req[r].email \in MemberEmails'
        /\ \A d : d = req[r].company => HasMember(d)'
        /\ req'[r] = Idle \/ req'[r].pc = "wallets"
    BY <1>9, MemberIsCreated
  <2>2. users[req[r].email] # "none"
    BY <2>1 DEF OwnerInv, SignsUp, SigningUp
  <2>3. SignsUp(r)'
    BY <1>2, <2>1 DEF SignsUp, SigningUp
  <2>4. \A e \in Emails : e = req[r].email => Settled(e)'
    BY <2>1, <2>2 DEF Settled
  <2>5. \A c \in 1..Len(companies) : req[r].company = c => Owned(c)'
    BY <2>1 DEF Owned
  <2>6. QED
    BY <2>1, <2>3, <2>4, <2>5, OwnersStep
<1>10. CASE CutShort(r)
  BY <1>5, <1>10, IsCutShort
<1>11. QED
  BY <1>4, <1>7, <1>8, <1>9, <1>10

(***************************************************************************)
(* What holds at first, and after each step                                *)
(***************************************************************************)
LEMMA EmptyPlace ==
  ASSUME req = [r \in Requests |-> Idle], calls = 0, troubles = 0,
         papers = [s \in Subjects |-> [status |-> "NONE", docs |-> 0]],
         reviewed = [s \in Subjects |-> 0], crossed = {}, parted = {},
         users \in [Emails -> UserStatuses], roleRows \subseteq Roles,
         companies \in Seq(CompanyRow), Len(companies) <= MaxCompanies,
         \A c \in 1..Len(companies) : companies[c].step >= 1,
         members \in Seq(MemberRow),
         \A i \in 1..Len(members) : members[i][2] \in 1..Len(companies)
  PROVE  PlaceOfCompanies /\ \A r \in Requests : req[r] = Idle
<1>1. req \in [Requests -> CompanyRequest] /\ \A r \in Requests : req[r] = Idle
  BY IdleType
<1>2. Len(companies) \in Nat
  BY LenProperties
<1>3. \A r \in Requests : Proper(req[r], Len(companies), MemberEmails)
  BY <1>1, <1>2, IdleType
<1>4. \A r \in Requests : /\ req[r].company \in 0..Len(companies)
                          /\ req[r].email \in Emails \cup {"none"}
  <2>1. 0 \in 0..Len(companies)
    BY <1>2
  <2>2. QED
    BY <1>1, <2>1, IdleType
<1>5. papers \in [Subjects -> Papers] /\ reviewed \in [Subjects -> Nat]
  BY DEF Papers
<1>6. OnboardingTypeOK
  BY <1>4, <1>5, OnboardingConstants
     DEF OnboardingTypeOK, CompanyRow, MemberRow, UserStatuses, Papers
<1>7. QED
  BY <1>1, <1>3, <1>6 DEF PlaceOfCompanies

\* At first nobody is there, or one person with a company that has its wallets.
LEMMA InitCompanies ==
  ASSUME OnboardingInit
  PROVE  /\ PlaceOfCompanies /\ \A r \in Requests : req[r] = Idle
         /\ \/ Len(companies) = 0 /\ \A e \in Emails : users[e] = "none"
               /\ MemberEmails = {}
            \/ \E e \in Emails :
                  /\ Len(companies) = 1 /\ companies[1].by = e /\ HasMember(1)
                  /\ MemberEmails = {e} /\ users[e] = "ACTIVE"
                  /\ \A x \in Emails : x # e => users[x] = "none"
<1>1. /\ req = [r \in Requests |-> Idle] /\ calls = 0 /\ troubles = 0
      /\ papers = [s \in Subjects |-> [status |-> "NONE", docs |-> 0]]
      /\ reviewed = [s \in Subjects |-> 0] /\ crossed = {} /\ parted = {}
  BY DEF OnboardingInit
<1>2. CASE /\ companies = <<>> /\ members = <<>> /\ roleRows = {}
           /\ users = [e \in Emails |-> "none"]
  <2>1. /\ companies \in Seq(CompanyRow) /\ Len(companies) = 0
        /\ members \in Seq(MemberRow) /\ Len(members) = 0
    BY <1>2
  <2>2. /\ Len(companies) <= MaxCompanies
        /\ \A c \in 1..Len(companies) : companies[c].step >= 1
        /\ \A i \in 1..Len(members) : members[i][2] \in 1..Len(companies)
    BY <2>1, OnboardingConstants
  <2>3. users \in [Emails -> UserStatuses] /\ \A e \in Emails : users[e] = "none"
    BY <1>2 DEF UserStatuses
  <2>4. MemberEmails = {}
    BY <1>2 DEF MemberEmails
  <2>5. PlaceOfCompanies /\ \A r \in Requests : req[r] = Idle
    BY <1>1, <1>2, <2>1, <2>2, <2>3, EmptyPlace
  <2>6. QED
    BY <2>1, <2>3, <2>4, <2>5
<1>3. ASSUME NEW e \in Emails,
             companies = <<[NewCompany(e, e) EXCEPT
                             !.wallets = [k \in Currencies |-> 1],
                             !.priced = "yes",
                             !.steps = [g \in Slugs |-> "open"]]>>,
             members = << <<e, 1, "owner">> >>, roleRows = {"owner"},
             users = [x \in Emails |-> IF x = e THEN "ACTIVE" ELSE "none"]
      PROVE  /\ PlaceOfCompanies /\ \A r \in Requests : req[r] = Idle
             /\ Len(companies) = 1 /\ companies[1].by = e /\ HasMember(1)
             /\ MemberEmails = {e} /\ users[e] = "ACTIVE"
             /\ \A x \in Emails : x # e => users[x] = "none"
  <2> DEFINE row == [NewCompany(e, e) EXCEPT
                       !.wallets = [k \in Currencies |-> 1], !.priced = "yes",
                       !.steps = [g \in Slugs |-> "open"]]
  <2>1. row \in CompanyRow /\ row.by = e /\ row.step = 1
    BY DEF NewCompany, CompanyRow, Slugs, StepStatus, Currencies
  <2>2. companies = <<row>>
    BY <1>3
  <2> HIDE DEF row
  <2>3. 1 \in CompanyIds /\ 1 <= MaxCompanies
    BY OnboardingConstants DEF CompanyIds
  <2>4. /\ companies \in Seq(CompanyRow) /\ Len(companies) = 1
        /\ companies[1] = row
    BY <2>1, <2>2
  <2>5. /\ members \in Seq(MemberRow) /\ Len(members) = 1
        /\ members[1] = <<e, 1, "owner">>
    <3>1. <<e, 1, "owner">> \in MemberRow
      BY <2>3 DEF MemberRow, Roles
    <3>2. QED
      BY <1>3, <3>1
  <2>6. members[1][1] = e /\ members[1][2] = 1 /\ DOMAIN members = 1..1
    BY <2>5, LenProperties
  <2>7. MemberEmails = {e} /\ HasMember(1)
    BY <2>5, <2>6 DEF MemberEmails, HasMember
  <2>8. /\ users \in [Emails -> UserStatuses] /\ users[e] = "ACTIVE"
        /\ \A x \in Emails : x # e => users[x] = "none"
    BY <1>3 DEF UserStatuses
  <2>9. /\ Len(companies) <= MaxCompanies
        /\ \A c \in 1..Len(companies) : companies[c].step >= 1
        /\ \A i \in 1..Len(members) : members[i][2] \in 1..Len(companies)
        /\ roleRows \subseteq Roles
    <3>1. /\ \A c \in 1..1 : c = 1
          /\ roleRows \subseteq Roles
      BY <1>3 DEF Roles
    <3>2. QED
      BY <2>1, <2>3, <2>4, <2>5, <2>6, <3>1
  <2>10. PlaceOfCompanies /\ \A r \in Requests : req[r] = Idle
    BY <1>1, <2>4, <2>5, <2>8, <2>9, EmptyPlace
  <2>11. QED
    BY <2>1, <2>4, <2>7, <2>8, <2>10
<1>4. QED
  BY <1>2, <1>3 DEF OnboardingInit

LEMMA StutterCompanies ==
  ASSUME UNCHANGED onboardingvars
  PROVE  /\ PlaceOfCompanies => PlaceOfCompanies'
         /\ OwnerInv => OwnerInv'
         /\ ApprovedWasReviewed => ApprovedWasReviewed'
<1>1. UNCHANGED <<companies, users, members, roleRows, papers, req, reviewed,
                  crossed, parted, calls, troubles>>
  BY DEF onboardingvars
<1>2. MemberEmails' = MemberEmails
  BY <1>1 DEF MemberEmails
<1>3. PlaceOfCompanies => PlaceOfCompanies'
  BY <1>1, <1>2 DEF PlaceOfCompanies, OnboardingTypeOK
<1>4. OwnerInv => OwnerInv'
  BY <1>1, <1>2 DEF OwnerInv, Sole, SignsUp, Settled, Owned, HasMember
<1>5. ApprovedWasReviewed => ApprovedWasReviewed'
  BY <1>1 DEF ApprovedWasReviewed
<1>6. QED
  BY <1>3, <1>4, <1>5

LEMMA StepPlaceOfCompanies ==
  ASSUME PlaceOfCompanies, [OnboardingNext]_onboardingvars
  PROVE  PlaceOfCompanies'
<1>1. CASE UNCHANGED onboardingvars
  BY <1>1, StutterCompanies
<1>2. CASE OnboardingNext
  BY <1>2, OnboardingCases, Newcomer, LaterBegins,
     CompanyIsCreated, UserIsCreated, RoleIsCreated, MemberIsCreated,
     WalletsAreCreated, WalksOn, WritesTerms, IsSubmitted,
     IsDecided, IsCutShort, StepsChange, Crashes
<1>3. QED
  BY <1>1, <1>2

LEMMA AlwaysPlaceOfCompanies == OnboardingSpec => []PlaceOfCompanies
<1>1. OnboardingInit => PlaceOfCompanies
  BY InitCompanies
<1>2. PlaceOfCompanies /\ [OnboardingNext]_onboardingvars => PlaceOfCompanies'
  BY StepPlaceOfCompanies
<1>3. QED
  BY <1>1, <1>2, PTL DEF OnboardingSpec

\* For any people and companies: every state has its type.
THEOREM OnboardingTypeCorrect == OnboardingSpec => []OnboardingTypeOK
<1>1. PlaceOfCompanies => OnboardingTypeOK
  BY DEF PlaceOfCompanies
<1>2. QED
  BY <1>1, AlwaysPlaceOfCompanies, PTL

LEMMA StepOwners ==
  ASSUME PlaceOfCompanies, OwnerInv, [OnboardingNext]_onboardingvars
  PROVE  OwnerInv'
<1>1. CASE UNCHANGED onboardingvars
  BY <1>1, StutterCompanies
<1>2. ASSUME NEW r \in Requests, Alone(r) /\ Later(r) PROVE OwnerInv'
  BY <1>2, LaterOwners
<1>3. CASE SomeStepsChange
  <2>1. /\ UNCHANGED <<users, members, req, parted>>
        /\ Len(companies') = Len(companies)
        /\ \A c \in 1..Len(companies) : companies'[c].by = companies[c].by
    BY <1>3, StepsChange
  <2>2. MemberEmails' = MemberEmails
    BY <2>1 DEF MemberEmails
  <2>3. QED
    BY <2>1, <2>2 DEF OwnerInv, Sole, SignsUp, Settled, Owned, HasMember
<1>4. CASE Crash
  <2>1. /\ UNCHANGED <<companies, users, members>> /\ parted \subseteq parted'
        /\ \A r \in Requests : req'[r] = Idle
        /\ \A r \in Requests : req[r].email \in Emails => req[r].email \in parted'
    BY <1>4, Crashes
  <2>2. MemberEmails' = MemberEmails
    BY <2>1 DEF MemberEmails
  <2>3. Sole' /\ \A r \in Requests : SignsUp(r)'
    BY <2>1, IdleType, OnboardingConstants DEF Sole, SignsUp, SigningUp
  <2>4. \A e \in Emails : Settled(e)'
    BY <2>1, <2>2 DEF OwnerInv, Settled
  <2>5. \A c \in 1..Len(companies) : companies[c].by \in Emails
    BY PlaceTypes DEF CompanyRow
  <2>6. \A c \in 1..Len(companies) : Owned(c)'
    BY <2>1, <2>5 DEF OwnerInv, Owned, HasMember
  <2>7. QED
    BY <2>1, <2>3, <2>4, <2>6 DEF OwnerInv
<1>5. CASE OnboardingNext
  BY <1>2, <1>3, <1>4, <1>5, OnboardingCases, NewcomerOwners, SigningOwners,
     LaterBegins, WalletsAreCreated, WalksOn,
     WritesTerms, IsSubmitted, IsDecided
<1>6. QED
  BY <1>1, <1>5

LEMMA InitOwners == OnboardingInit => OwnerInv
<1> SUFFICES ASSUME OnboardingInit PROVE OwnerInv
  OBVIOUS
<1>1. /\ \A r \in Requests : req[r].pc = "idle" /\ req[r].email = "none"
      /\ "none" \notin Emails
  BY InitCompanies, IdleType, OnboardingConstants
<1>2. Sole /\ \A r \in Requests : SignsUp(r)
  BY <1>1 DEF Sole, SignsUp, SigningUp
<1>3. \A e \in Emails : Settled(e)
  BY InitCompanies DEF Settled
<1>4. \A c \in 1..Len(companies) : Owned(c)
  <2>1. Len(companies) = 0 \/ (Len(companies) = 1 /\ HasMember(1))
    BY InitCompanies
  <2>2. (\A c \in 1..0 : FALSE) /\ (\A c \in 1..1 : c = 1)
    OBVIOUS
  <2>3. QED
    BY <2>1, <2>2 DEF Owned
<1>5. QED
  BY <1>2, <1>3, <1>4 DEF OwnerInv

\* For any people and companies: a company nobody is in is still being
\* registered, or the requests about its founder overlapped, raced for a role
\* or were cut short.
THEOREM OwnersUnlessParted == OnboardingSpec => []OwnerUnlessParted
<1>1. OnboardingInit => PlaceOfCompanies /\ OwnerInv
  BY InitCompanies, InitOwners
<1>2. PlaceOfCompanies /\ OwnerInv /\ [OnboardingNext]_onboardingvars
        => PlaceOfCompanies' /\ OwnerInv'
  BY StepPlaceOfCompanies, StepOwners
<1>3. PlaceOfCompanies /\ OwnerInv => OwnerUnlessParted
  <2> SUFFICES ASSUME PlaceOfCompanies, OwnerInv,
                      NEW c \in DOMAIN companies, MembersOf(c) = {}
               PROVE  \/ companies[c].by \in parted
                      \/ \E r \in Requests : req[r].company = c
    BY DEF OwnerUnlessParted
  <2>1. c \in 1..Len(companies) /\ DOMAIN members = 1..Len(members)
    BY PlaceTypes
  <2>2. ~HasMember(c)
    BY <2>1 DEF MembersOf, HasMember
  <2>3. QED
    BY <2>1, <2>2 DEF OwnerInv, Owned
<1>4. QED
  BY <1>1, <1>2, <1>3, PTL DEF OnboardingSpec

(***************************************************************************)
(* What a registration at once leaves                                      *)
(***************************************************************************)
AtOnce(r, c) == req[r].kind = "atonce" /\ req[r].company = c
HasWallets(c, n) == \A k \in Currencies : companies[c].wallets[k] = n
Furnishing == {"wallets", "prices", "steps", "newsteps"}

\* How far registration r has come with its company c.
AsFar(r, c) ==
    /\ companies[c].by = req[r].email
    /\ req[r].pc \in Signing \cup {"wallets"} => HasWallets(c, 0)
    /\ req[r].pc \in Furnishing \ {"wallets"} => HasWallets(c, 1)
    /\ req[r].pc \in {"steps", "newsteps"} => companies[c].priced = "yes"

\* Its founder is in no company before.
Furnishes(r) ==
    /\ req[r].pc \in {"wallets", "prices"} => req[r].kind = "atonce"
    /\ req[r].kind = "atonce" =>
          /\ req[r].pc \in {"company"} \cup Signing \cup Furnishing
          /\ req[r].pc = "company" => req[r].company = 0
          /\ req[r].pc \in {"company"} \cup Signing =>
                req[r].email \in parted \/ req[r].email \notin MemberEmails
    /\ \A c \in 1..Len(companies) : AtOnce(r, c) => AsFar(r, c)

\* Company c has been furnished, or is being, or its founder was disturbed.
Whole(c) ==
    \/ companies[c].email # companies[c].by \/ companies[c].by \in parted
    \/ \E r \in Requests : AtOnce(r, c)
    \/ HasWallets(c, 1) /\ companies[c].priced = "yes"

OnceEach ==
    \A r, q \in Requests : \A c \in 1..Len(companies) :
        AtOnce(r, c) /\ AtOnce(q, c) => q = r

AtOnceInv ==
    /\ \A r \in Requests : Furnishes(r)
    /\ OnceEach
    /\ \A c \in 1..Len(companies) : Whole(c)

SameTerms(c) ==
    /\ companies'[c].by = companies[c].by
    /\ companies'[c].email = companies[c].email
    /\ companies'[c].wallets = companies[c].wallets
    /\ companies'[c].priced = companies[c].priced

\* What a step of request r may do outside the company it registers.
OnItsOwn(r) ==
    /\ Alone(r) /\ parted \subseteq parted'
    /\ 1..Len(companies) \subseteq 1..Len(companies')
    /\ MemberEmails' \subseteq MemberEmails \cup {req[r].email}
    /\ \A c \in 1..Len(companies) : AtOnce(r, c) \/ SameTerms(c)
    /\ \A c \in 1..Len(companies) : AtOnce(r, c)' => AtOnce(r, c)

\* Such a step keeps what is known of the others.
LEMMA OthersStayWhole ==
  ASSUME PlaceOfCompanies, OwnerInv, AtOnceInv, NEW r \in Requests, OnItsOwn(r)
  PROVE  /\ \A q \in Requests \ {r} : Furnishes(q)'
         /\ \A p, q \in Requests : \A c \in 1..Len(companies) :
               AtOnce(p, c)' /\ AtOnce(q, c)' => q = p
         /\ \A c \in 1..Len(companies) : AtOnce(r, c) \/ Whole(c)'
<1>1. /\ \A q \in Requests \ {r} : req'[q] = req[q]
      /\ \A q \in Requests \ {r} : \A c : AtOnce(q, c)' <=> AtOnce(q, c)
  BY DEF OnItsOwn, Alone, AtOnce
<1>2. \A p, q \in Requests : \A c \in 1..Len(companies) :
         AtOnce(p, c)' /\ AtOnce(q, c)' => q = p
  BY <1>1 DEF OnItsOwn, AtOnceInv, OnceEach
<1>3. ASSUME NEW q \in Requests \ {r} PROVE Furnishes(q)'
  <2>1. Furnishes(q) /\ req'[q] = req[q]
    BY <1>1 DEF AtOnceInv
  <2>2. ASSUME req[q].kind = "atonce", req[q].pc \in {"company"} \cup Signing
        PROVE  req[q].email \in parted' \/ req[q].email \notin MemberEmails'
    <3>1. req[q].email \in Emails
      BY <2>2 DEF PlaceOfCompanies, Proper
    <3>2. CASE req[q].email = req[r].email
      BY <3>1, <3>2 DEF OwnerInv, Sole, OnItsOwn
    <3>3. CASE req[q].email # req[r].email
      BY <2>1, <2>2, <3>3 DEF Furnishes, OnItsOwn
    <3>4. QED
      BY <3>2, <3>3
  <2>3. ASSUME NEW c \in 1..Len(companies'), AtOnce(q, c)'
        PROVE  AsFar(q, c)'
    <3>1. AtOnce(q, c) /\ c \in 0..Len(companies)
      BY <1>1, <2>3 DEF AtOnce, PlaceOfCompanies, Proper
    <3>2. c \in 1..Len(companies)
      BY <2>3, <3>1, PlaceTypes
    <3>3. ~AtOnce(r, c) /\ AsFar(q, c)
      BY <2>1, <3>1, <3>2 DEF AtOnceInv, OnceEach, Furnishes
    <3>4. SameTerms(c)
      BY <3>2, <3>3 DEF OnItsOwn
    <3>5. QED
      BY <2>1, <3>3, <3>4 DEF SameTerms, AsFar, HasWallets
  <2>4. QED
    BY <2>1, <2>2, <2>3 DEF Furnishes
<1>4. ASSUME NEW c \in 1..Len(companies), ~AtOnce(r, c) PROVE Whole(c)'
  <2>1. SameTerms(c) /\ Whole(c)
    BY <1>4 DEF OnItsOwn, AtOnceInv
  <2>2. \A q \in Requests : AtOnce(q, c) => AtOnce(q, c)'
    BY <1>1, <1>4
  <2>3. QED
    BY <2>1, <2>2 DEF SameTerms, Whole, HasWallets, OnItsOwn
<1>5. QED
  BY <1>2, <1>3, <1>4

\* A step that creates no company keeps the invariant when it keeps it for
\* its own request and company.
LEMMA StaysWhole ==
  ASSUME PlaceOfCompanies, OwnerInv, AtOnceInv, NEW r \in Requests, OnItsOwn(r),
         Len(companies') = Len(companies), Furnishes(r)',
         \A c \in 1..Len(companies) : AtOnce(r, c) => Whole(c)'
  PROVE  AtOnceInv'
<1>1. \A q \in Requests : Furnishes(q)'
  BY OthersStayWhole
<1>2. OnceEach'
  BY OthersStayWhole DEF OnceEach
<1>3. \A c \in 1..Len(companies') : Whole(c)'
  BY OthersStayWhole
<1>4. QED
  BY <1>1, <1>2, <1>3 DEF AtOnceInv

\* A request that registers nothing at once changes nothing of this.
LEMMA AsideStaysWhole ==
  ASSUME PlaceOfCompanies, OwnerInv, AtOnceInv, NEW r \in Requests, Alone(r),
         parted \subseteq parted', Len(companies') = Len(companies),
         MemberEmails' \subseteq MemberEmails \cup {req[r].email},
         \A c \in 1..Len(companies) : SameTerms(c),
         req[r].kind # "atonce", req'[r].kind # "atonce",
         req'[r].pc \notin {"wallets", "prices"}
  PROVE  AtOnceInv'
<1>1. \A c : ~AtOnce(r, c) /\ ~AtOnce(r, c)'
  BY DEF AtOnce
<1>2. OnItsOwn(r) /\ Furnishes(r)'
  BY <1>1 DEF OnItsOwn, Furnishes
<1>3. QED
  BY <1>1, <1>2, StaysWhole

LEMMA RequestStays ==
  ASSUME PlaceOfCompanies, NEW r \in Requests
  PROVE  /\ \A pc : Goto(r, pc) =>
               /\ Alone(r) /\ req'[r].pc = pc /\ req'[r].kind = req[r].kind
               /\ req'[r].email = req[r].email /\ req'[r].company = req[r].company
         /\ Done(r) => Alone(r) /\ req'[r] = Idle
         /\ \A call : Begins(r, call) => Alone(r) /\ req'[r] = call
         /\ troubles \in Nat /\ req[r].company \in Nat
<1>1. req \in [Requests -> CompanyRequest] /\ req[r] \in CompanyRequest
  BY DEF PlaceOfCompanies
<1>2. ASSUME NEW pc, Goto(r, pc)
      PROVE  /\ Alone(r) /\ req'[r].pc = pc /\ req'[r].kind = req[r].kind
             /\ req'[r].email = req[r].email /\ req'[r].company = req[r].company
  BY <1>1, <1>2 DEF Goto, Alone, CompanyRequest
<1>3. Done(r) => Alone(r) /\ req'[r] = Idle
  BY <1>1 DEF Done, Alone
<1>4. \A call : Begins(r, call) => Alone(r) /\ req'[r] = call
  BY <1>1 DEF Begins, Alone
<1>5. troubles \in Nat /\ req[r].company \in Nat
  BY <1>1, OnboardingConstants
     DEF PlaceOfCompanies, OnboardingTypeOK, CompanyRequest
<1>6. QED
  BY <1>2, <1>3, <1>4, <1>5

\* Requests that begin.
LEMMA BeginningStaysWhole ==
  ASSUME PlaceOfCompanies, OwnerInv, AtOnceInv, NEW r \in Requests,
         \/ \E e \in Emails : \/ CreateCompanyUser(r, e)
                              \/ RegisterPersonalInfo(r, e)
                              \/ \E o \in Emails : CreateUserByOwner(r, o, e)
  PROVE  AtOnceInv'
<1>1. PICK e \in Emails : \/ CreateCompanyUser(r, e) \/ RegisterPersonalInfo(r, e)
                          \/ \E o \in Emails : CreateUserByOwner(r, o, e)
  OBVIOUS
<1>2. /\ Alone(r) /\ Parts(e) /\ UNCHANGED <<companies, users, members>>
      /\ req[r].pc = "idle" /\ NewcomerCall(req'[r], e)
  BY <1>1, Newcomer DEF people
<1>3. /\ MemberEmails' = MemberEmails /\ parted \subseteq parted'
      /\ \A c \in 1..Len(companies) : SameTerms(c)
  BY <1>2 DEF MemberEmails, Parts, SameTerms
<1>4. req[r].kind # "atonce"
  BY <1>2 DEF AtOnceInv, Furnishes, Signing, SigningUp, Furnishing
<1>5. CASE req'[r].kind = "atonce"
  <2>1. /\ req'[r].pc = "company" /\ req'[r].company = 0 /\ req'[r].email = e
        /\ users[e] = "none" \/ e \notin MemberEmails
    BY <1>2, <1>5 DEF NewcomerCall, NoCompany
  <2>2. e \notin MemberEmails
    BY <2>1 DEF OwnerInv, Settled
  <2>3. \A c \in 1..Len(companies) : ~AtOnce(r, c) /\ ~AtOnce(r, c)'
    BY <1>4, <2>1 DEF AtOnce
  <2>4. OnItsOwn(r)
    BY <1>2, <1>3, <2>3 DEF OnItsOwn
  <2>5. Furnishes(r)'
    BY <1>2, <1>3, <2>1, <2>2, <2>3 DEF Furnishes
  <2>6. QED
    BY <1>2, <2>3, <2>4, <2>5, StaysWhole
<1>6. CASE req'[r].kind # "atonce"
  <2>1. req'[r].pc \notin {"wallets", "prices"}
    BY <1>2 DEF NewcomerCall
  <2>2. QED
    BY <1>2, <1>3, <1>4, <1>6, <2>1, AsideStaysWhole
<1>7. QED
  BY <1>5, <1>6

LEMMA OthersBeginWhole ==
  ASSUME PlaceOfCompanies, OwnerInv, AtOnceInv, NEW r \in Requests,
         \/ \E e \in Emails, v \in Decisions :
               HandleKyc(r, e, v) \/ UpdateKycStatus(r, e, v)
         \/ \E c \in DOMAIN companies :
               \/ RegisterBusinessInfo(r, c) \/ InitializeOnboardingSteps(r, c)
               \/ CompleteKyc(r, c) \/ CompleteKyb(r, c) \/ CompleteProfile(r, c)
               \/ \E v \in Decisions :
                     HandleKyb(r, c, v) \/ UpdateKybStatus(r, c, v)
  PROVE  AtOnceInv'
<1>1. /\ Alone(r) /\ Later(r) /\ BeginsAside(r) /\ companies' = companies
  BY LaterBegins
<1>2. UNCHANGED <<members, parted>>
  BY <1>1 DEF Later
<1>3. /\ req'[r].kind # "atonce" /\ req[r].pc = "idle"
      /\ req'[r].pc \notin {"wallets", "prices"}
  BY <1>1 DEF BeginsAside
<1>4. req[r].kind # "atonce"
  BY <1>3 DEF AtOnceInv, Furnishes, Signing, SigningUp, Furnishing
<1>5. MemberEmails' = MemberEmails /\ \A c \in 1..Len(companies) : SameTerms(c)
  BY <1>1, <1>2 DEF MemberEmails, SameTerms
<1>6. QED
  BY <1>1, <1>2, <1>3, <1>4, <1>5, AsideStaysWhole

LEMMA CreatedCompanyIsWhole ==
  ASSUME PlaceOfCompanies, OwnerInv, AtOnceInv, NEW r \in Requests,
         CreateCompany(r)
  PROVE  AtOnceInv'
<1>1. /\ Alone(r) /\ req[r].pc = "company" /\ UNCHANGED <<members, parted>>
      /\ \A c \in 1..Len(companies) : companies'[c] = companies[c]
      /\ 1..Len(companies) \subseteq 1..Len(companies')
      /\ Len(companies) \in Nat
  BY CompanyIsCreated, PlaceTypes DEF LeavesOthers
<1>2. /\ MemberEmails' = MemberEmails
      /\ \A c \in 1..Len(companies) : SameTerms(c)
  BY <1>1 DEF MemberEmails, SameTerms
<1>3. \A c \in 1..Len(companies) : ~AtOnce(r, c)
  BY <1>1 DEF AtOnceInv, Furnishes, AtOnce
<1>4. CASE companies' = companies /\ req'[r] = Idle
  <2>1. /\ \A c \in 1..Len(companies) : ~AtOnce(r, c)'
        /\ Furnishes(r)'
    BY <1>4, IdleType DEF AtOnce, Furnishes
  <2>2. OnItsOwn(r)
    BY <1>1, <1>2, <2>1 DEF OnItsOwn
  <2>3. QED
    BY <1>3, <1>4, <2>1, <2>2, StaysWhole
<1>5. CASE /\ Len(companies') = Len(companies) + 1
           /\ req'[r].pc = "user" /\ req'[r].company = Len(companies')
           /\ req'[r].email = req[r].email /\ req'[r].kind = req[r].kind
           /\ companies'[Len(companies')] =
                NewCompany(req[r].email, IF req[r].kind = "atonce"
                                         THEN req[r].email ELSE "none")
  <2> PICK n \in Nat : n = Len(companies')
    BY <1>1, <1>5
  <2>1. /\ \A c \in 1..n : c \in 1..Len(companies) \/ c = n
        /\ \A c \in 0..Len(companies) : c # n
    BY <1>1, <1>5
  <2>2. \A c \in 1..Len(companies) : ~AtOnce(r, c)'
    BY <1>5, <2>1 DEF AtOnce
  <2>3. OnItsOwn(r)
    BY <1>1, <1>2, <2>2 DEF OnItsOwn
  <2>4. ASSUME NEW q \in Requests, q # r PROVE ~AtOnce(q, n)'
    <3>1. req'[q] = req[q] /\ req[q].company \in 0..Len(companies)
      BY <1>1, <2>4 DEF Alone, PlaceOfCompanies, Proper
    <3>2. QED
      BY <2>1, <3>1 DEF AtOnce
  <2>5. OnceEach'
    BY <2>1, <2>3, <2>4, OthersStayWhole DEF OnceEach
  <2>6. Furnishes(r)'
    <3>1. ASSUME AtOnce(r, n)' PROVE AsFar(r, n)'
      <4>1. companies'[n].by = req'[r].email /\ HasWallets(n, 0)'
        BY <1>5 DEF NewCompany, HasWallets
      <4>2. QED
        BY <1>5, <4>1 DEF AsFar, Furnishing
    <3>2. req[r].kind = "atonce" =>
            req[r].email \in parted \/ req[r].email \notin MemberEmails
      BY <1>1 DEF AtOnceInv, Furnishes
    <3>3. \A c \in 1..n : AtOnce(r, c)' => AsFar(r, c)'
      BY <2>1, <2>2, <3>1
    <3>4. QED
      BY <1>1, <1>2, <1>5, <3>2, <3>3 DEF Furnishes, Signing, SigningUp
  <2>7. Whole(n)'
    <3>1. CASE req[r].kind = "atonce"
      BY <1>5, <3>1 DEF AtOnce, Whole
    <3>2. CASE req[r].kind # "atonce"
      <4>1. companies'[n].by \in Emails /\ companies'[n].email = "none"
        BY <1>1, <1>5, <3>2 DEF NewCompany, PlaceOfCompanies, Proper
      <4>2. QED
        BY <4>1, OnboardingConstants DEF Whole
    <3>3. QED
      BY <3>1, <3>2
  <2>8. \A c \in 1..n : Whole(c)'
    BY <1>3, <2>1, <2>3, <2>7, OthersStayWhole
  <2>9. \A q \in Requests : Furnishes(q)'
    BY <2>3, <2>6, OthersStayWhole
  <2>10. QED
    BY <2>5, <2>8, <2>9 DEF AtOnceInv
<1>6. QED
  BY <1>4, <1>5, CompanyIsCreated

\* The steps that sign the founder up.
LEMMA SigningStaysWhole ==
  ASSUME PlaceOfCompanies, OwnerInv, AtOnceInv, NEW r \in Requests,
         CreateUser(r) \/ ReadRole(r) \/ CreateRole(r) \/ CreateMember(r)
  PROVE  AtOnceInv'
<1>1. /\ Alone(r) /\ companies' = companies /\ parted \subseteq parted'
      /\ MemberEmails' \subseteq MemberEmails \cup {req[r].email}
      /\ req[r].pc \in Signing /\ req[r].email \in Emails
  <2>1. LeavesOthers(r) /\ companies' = companies /\ req[r].pc \in Signing
    BY UserIsCreated, RoleIsCreated, MemberIsCreated DEF Signing, SigningUp
  <2>2. QED
    BY <2>1 DEF LeavesOthers, PlaceOfCompanies, Proper
<1>2. \/ /\ req'[r] = Idle
         /\ req[r].kind = "atonce" => req[r].email \in parted'
      \/ /\ req'[r].pc \in Signing /\ MemberEmails' = MemberEmails
         /\ req'[r].kind = req[r].kind
         /\ req'[r].email = req[r].email /\ req'[r].company = req[r].company
      \/ /\ req'[r].pc = "wallets" /\ req[r].kind = "atonce"
         /\ req'[r].kind = req[r].kind
         /\ req'[r].email = req[r].email /\ req'[r].company = req[r].company
  <2>1. CASE CreateUser(r)
    <3>1. users[req[r].email] # "none" => req[r].email \in parted
      BY <2>1 DEF CreateUser, OwnerInv, SignsUp
    <3>2. MemberEmails' = MemberEmails
      BY <2>1 DEF CreateUser, MemberEmails
    <3>3. \/ Done(r) /\ users[req[r].email] # "none"
          \/ Goto(r, "role")
      BY <2>1 DEF CreateUser
    <3>4. QED
      BY <1>1, <3>1, <3>2, <3>3, RequestStays DEF Signing, SigningUp
  <2>2. CASE ReadRole(r) \/ CreateRole(r)
    <3>1. MemberEmails' = MemberEmails
      BY <2>2 DEF ReadRole, CreateRole, MemberEmails, people
    <3>2. \/ Done(r) /\ req[r].email \in parted'
          \/ Goto(r, "member") \/ Goto(r, "newrole")
      BY <2>2 DEF ReadRole, CreateRole
    <3>3. QED
      BY <3>1, <3>2, RequestStays DEF Signing, SigningUp
  <2>3. CASE CreateMember(r)
    <3>1. \/ /\ Done(r)
             /\ \/ req[r].kind # "atonce"
                \/ \E i \in DOMAIN members : members[i] =
                      <<req[r].email, req[r].company, RoleOf(r)>>
          \/ Goto(r, "wallets") /\ req[r].kind = "atonce"
      BY <2>3 DEF CreateMember
    <3>2. req[r].kind = "atonce" =>
             req[r].email \in parted \/ req[r].email \notin MemberEmails
      BY <1>1 DEF AtOnceInv, Furnishes
    <3>3. (\E i \in DOMAIN members : members[i] =
              <<req[r].email, req[r].company, RoleOf(r)>>)
            => req[r].email \in MemberEmails
      BY DEF MemberEmails
    <3>4. QED
      BY <1>1, <3>1, <3>2, <3>3, RequestStays
  <2>4. QED
    BY <2>1, <2>2, <2>3
<1>3. \A c \in 1..Len(companies) : AtOnce(r, c)' => AtOnce(r, c)
  BY <1>2, IdleType DEF AtOnce
<1>4. OnItsOwn(r)
  BY <1>1, <1>3 DEF OnItsOwn, SameTerms
<1>5. \A c \in 1..Len(companies) :
         AtOnce(r, c) => companies[c].by = req[r].email /\ HasWallets(c, 0)
  BY <1>1 DEF AtOnceInv, Furnishes, AsFar
<1>6. Furnishes(r)'
  <2>1. CASE req'[r] = Idle
    BY <2>1, IdleType DEF Furnishes, AtOnce
  <2>2. CASE /\ req'[r].pc \in Signing \cup {"wallets"}
             /\ req'[r].pc \in Signing => MemberEmails' = MemberEmails
             /\ req'[r].pc = "wallets" => req[r].kind = "atonce"
             /\ req'[r].kind = req[r].kind
             /\ req'[r].email = req[r].email /\ req'[r].company = req[r].company
    <3>1. \A c \in 1..Len(companies') : AtOnce(r, c)' => AsFar(r, c)'
      BY <1>1, <1>3, <1>5, <2>2
         DEF AsFar, HasWallets, Furnishing, Signing, SigningUp
    <3>2. req[r].kind = "atonce" =>
             req[r].email \in parted \/ req[r].email \notin MemberEmails
      BY <1>1 DEF AtOnceInv, Furnishes
    <3>3. QED
      BY <1>1, <2>2, <3>1, <3>2 DEF Furnishes, Signing, SigningUp, Furnishing
  <2>3. QED
    BY <1>2, <2>1, <2>2 DEF Signing, SigningUp
<1>7. ASSUME NEW c \in 1..Len(companies), AtOnce(r, c) PROVE Whole(c)'
  BY <1>1, <1>2, <1>5, <1>7 DEF Whole, AtOnce
<1>8. QED
  BY <1>1, <1>4, <1>6, <1>7, StaysWhole

\* A step that furnishes company c on behalf of request r.
LEMMA FurnishingStaysWhole ==
  ASSUME PlaceOfCompanies, OwnerInv, AtOnceInv, NEW r \in Requests, Alone(r),
         UNCHANGED <<members, parted>>, Len(companies') = Len(companies),
         req[r].pc \in Furnishing, NEW c, c = req[r].company,
         \A d \in 1..Len(companies) : d # c \/ req[r].kind # "atonce"
                                        => SameTerms(d),
         \/ /\ req'[r] = Idle
            /\ req[r].kind = "atonce" =>
                  HasWallets(c, 1)' /\ companies'[c].priced = "yes"
         \/ /\ req'[r].pc \in {"prices", "steps", "newsteps"}
            /\ req'[r].pc = "prices" => req[r].kind = "atonce"
            /\ req'[r].kind = req[r].kind /\ req'[r].company = c
            /\ req[r].kind = "atonce" => AsFar(r, c)'
  PROVE  AtOnceInv'
<1>1. MemberEmails' = MemberEmails
  BY DEF MemberEmails
<1>2. \A d \in 1..Len(companies) : AtOnce(r, d)' => AtOnce(r, d)
  BY IdleType DEF AtOnce
<1>3. OnItsOwn(r)
  BY <1>1, <1>2 DEF OnItsOwn, AtOnce
<1>4. Furnishes(r)'
  BY IdleType DEF Furnishes, AtOnce, Furnishing, Signing, SigningUp
<1>5. ASSUME NEW d \in 1..Len(companies), AtOnce(r, d) PROVE Whole(d)'
  BY <1>5 DEF AtOnce, Whole
<1>6. QED
  BY <1>3, <1>4, <1>5, StaysWhole

LEMMA WalletsStayWhole ==
  ASSUME PlaceOfCompanies, OwnerInv, AtOnceInv, NEW r \in Requests,
         CreateWallets(r), troubles' = troubles
  PROVE  AtOnceInv'
<1> PICK c \in Nat : c = req[r].company
  BY RequestStays
<1> DEFINE row == [companies[c] EXCEPT !.wallets =
                     [k \in Currencies |-> companies[c].wallets[k] + 1]]
<1>1. /\ req[r].pc = "wallets" /\ Goto(r, "prices")
      /\ UNCHANGED <<members, parted>>
  BY DEF CreateWallets, people
<1>2. companies' = [companies EXCEPT ![c].wallets =
                      [k \in Currencies |-> @[k] + 1]]
  <2>1. PICK made \in SUBSET Currencies :
          /\ made = Currencies \/ troubles' = troubles + 1
          /\ companies' = [companies EXCEPT ![c].wallets =
                [k \in Currencies |-> @[k] + IF k \in made THEN 1 ELSE 0]]
    BY DEF CreateWallets, Trouble
  <2>2. made = Currencies
    BY <2>1, RequestStays
  <2>3. QED
    BY <2>1, <2>2
<1>3. /\ c \in 1..Len(companies) /\ companies[c] \in CompanyRow
      /\ DOMAIN companies = 1..Len(companies)
  BY <1>1, InsideCompany, PlaceTypes DEF Inside
<1>4. Alone(r) /\ Later(r)
  BY WalletsAreCreated
<1>5. /\ companies'[c] = row
      /\ \A d \in 1..Len(companies) : d # c => companies'[d] = companies[d]
      /\ Len(companies') = Len(companies)
  BY <1>2, <1>3, <1>4 DEF Later
<1>6. /\ row.by = companies[c].by
      /\ row.wallets = [k \in Currencies |-> companies[c].wallets[k] + 1]
  BY <1>3 DEF CompanyRow
<1> HIDE DEF row
<1>7. req[r].kind = "atonce" /\ AtOnce(r, c)
  BY <1>1 DEF AtOnceInv, Furnishes, AtOnce
<1>8. companies[c].by = req[r].email /\ HasWallets(c, 0)
  BY <1>1, <1>3, <1>7 DEF AtOnceInv, Furnishes, AsFar
<1>9. HasWallets(c, 1)'
  <2>1. \A k \in Currencies : companies[c].wallets[k] = 0
    BY <1>8 DEF HasWallets
  <2>2. \A k \in Currencies : row.wallets[k] = 1
    BY <1>6, <2>1
  <2>3. QED
    BY <1>5, <2>2 DEF HasWallets
<1>10. /\ req'[r].pc = "prices" /\ req'[r].kind = req[r].kind
       /\ req'[r].email = req[r].email /\ req'[r].company = c
  BY <1>1, RequestStays
<1>11. AsFar(r, c)'
  BY <1>5, <1>6, <1>8, <1>9, <1>10 DEF AsFar, Furnishing, Signing, SigningUp
<1>12. \A d \in 1..Len(companies) : d # c => SameTerms(d)
  BY <1>5 DEF SameTerms
<1>13. req[r].pc \in Furnishing
  BY <1>1 DEF Furnishing
<1>14. QED
  BY <1>1, <1>4, <1>5, <1>7, <1>10, <1>11, <1>12, <1>13,
     FurnishingStaysWhole

LEMMA PricesStayWhole ==
  ASSUME PlaceOfCompanies, OwnerInv, AtOnceInv, NEW r \in Requests,
         CreatePrices(r), troubles' = troubles
  PROVE  AtOnceInv'
<1> PICK c \in Nat : c = req[r].company
  BY RequestStays
<1> DEFINE row == [companies[c] EXCEPT !.priced = "yes"]
<1>1. /\ req[r].pc = "prices" /\ Goto(r, "steps")
      /\ UNCHANGED <<members, parted>>
  BY DEF CreatePrices, people
<1>2. companies' = [companies EXCEPT ![c].priced = "yes"]
  <2>1. PICK priced \in {"partly", "yes"} :
          /\ priced = "yes" \/ troubles' = troubles + 1
          /\ companies' = [companies EXCEPT ![c].priced = priced]
    BY DEF CreatePrices, Trouble
  <2>2. priced = "yes"
    BY <2>1, RequestStays
  <2>3. QED
    BY <2>1, <2>2
<1>3. /\ c \in 1..Len(companies) /\ companies[c] \in CompanyRow
      /\ DOMAIN companies = 1..Len(companies)
  BY <1>1, InsideCompany, PlaceTypes DEF Inside
<1>4. Alone(r) /\ Later(r)
  BY WritesTerms
<1>5. /\ companies'[c] = row
      /\ \A d \in 1..Len(companies) : d # c => companies'[d] = companies[d]
      /\ Len(companies') = Len(companies)
  BY <1>2, <1>3, <1>4 DEF Later
<1>6. /\ row.by = companies[c].by /\ row.wallets = companies[c].wallets
      /\ row.priced = "yes"
  BY <1>3 DEF CompanyRow
<1> HIDE DEF row
<1>7. req[r].kind = "atonce" /\ AtOnce(r, c)
  BY <1>1 DEF AtOnceInv, Furnishes, AtOnce
<1>8. companies[c].by = req[r].email /\ HasWallets(c, 1)
  BY <1>1, <1>3, <1>7 DEF AtOnceInv, Furnishes, AsFar, Furnishing
<1>9. /\ req'[r].pc = "steps" /\ req'[r].kind = req[r].kind
      /\ req'[r].email = req[r].email /\ req'[r].company = c
  BY <1>1, RequestStays
<1>10. AsFar(r, c)'
  BY <1>5, <1>6, <1>8, <1>9 DEF AsFar, HasWallets, Signing, SigningUp
<1>11. \A d \in 1..Len(companies) : d # c => SameTerms(d)
  BY <1>5 DEF SameTerms
<1>12. req[r].pc \in Furnishing
  BY <1>1 DEF Furnishing
<1>13. QED
  BY <1>1, <1>4, <1>5, <1>7, <1>9, <1>10, <1>11, <1>12,
     FurnishingStaysWhole

\* The onboarding steps come last, and change no terms.
LEMMA LastStepsStayWhole ==
  ASSUME PlaceOfCompanies, OwnerInv, AtOnceInv, NEW r \in Requests,
         FindSteps(r) \/ CreateSteps(r)
  PROVE  AtOnceInv'
<1> PICK c \in Nat : c = req[r].company
  BY RequestStays
<1>1. /\ req[r].pc \in {"steps", "newsteps"}
      /\ UNCHANGED <<members, parted>>
      /\ Done(r) \/ Goto(r, "newsteps")
  BY DEF FindSteps, CreateSteps, people
<1>2. /\ Alone(r) /\ Len(companies') = Len(companies)
  BY WalksOn, WritesTerms DEF Later
<1>3. /\ c \in 1..Len(companies) /\ companies[c] \in CompanyRow
      /\ DOMAIN companies = 1..Len(companies)
  BY <1>1, InsideCompany, PlaceTypes DEF Inside
<1>4. \A d \in 1..Len(companies) : SameTerms(d)
  <2>1. CASE FindSteps(r)
    BY <2>1 DEF FindSteps, SameTerms
  <2>2. CASE CreateSteps(r)
    <3>1. PICK steps : companies' = [companies EXCEPT ![c].steps = steps]
      BY <2>2 DEF CreateSteps
    <3>2. /\ companies'[c] = [companies[c] EXCEPT !.steps = steps]
          /\ \A d \in 1..Len(companies) : d # c => companies'[d] = companies[d]
      BY <1>3, <3>1
    <3>3. SameTerms(c)
      BY <1>3, <3>2 DEF SameTerms, CompanyRow
    <3>4. QED
      BY <3>2, <3>3 DEF SameTerms
  <2>3. QED
    BY <2>1, <2>2
<1>5. req[r].kind = "atonce" =>
        /\ companies[c].by = req[r].email /\ HasWallets(c, 1)
        /\ companies[c].priced = "yes"
  BY <1>1, <1>3 DEF AtOnceInv, Furnishes, AtOnce, AsFar, Furnishing
<1>6. req[r].kind = "atonce" =>
        /\ companies'[c].by = req[r].email /\ HasWallets(c, 1)'
        /\ companies'[c].priced = "yes"
  BY <1>3, <1>4, <1>5 DEF SameTerms, HasWallets
<1>7. \/ req'[r] = Idle
      \/ /\ req'[r].pc = "newsteps" /\ req'[r].kind = req[r].kind
         /\ req'[r].email = req[r].email /\ req'[r].company = c
         /\ req[r].kind = "atonce" => AsFar(r, c)'
  BY <1>1, <1>6, RequestStays DEF AsFar, Signing, SigningUp
<1>8. req[r].pc \in Furnishing
  BY <1>1 DEF Furnishing
<1>9. QED
  BY <1>1, <1>2, <1>4, <1>6, <1>7, <1>8,
     FurnishingStaysWhole

\* What the requests do that register nothing at once.
LEMMA OthersStepsStayWhole ==
  ASSUME PlaceOfCompanies, OwnerInv, AtOnceInv, NEW r \in Requests,
         \/ WriteBusinessInfo(r) \/ RefuseKyb(r) \/ AnswerSubmission(r)
         \/ MailDecision(r) \/ TickStep(r) \/ Submit(r) \/ Decide(r)
  PROVE  AtOnceInv'
<1>1. /\ Alone(r) /\ UNCHANGED <<members, parted>>
      /\ Len(companies') = Len(companies)
  BY WalksOn, WritesTerms, IsSubmitted, IsDecided DEF Later, RefuseKyb,
     WriteBusinessInfo, AnswerSubmission, MailDecision, ReadRole
<1>2. req[r].pc \in {"business", "submit", "count", "decision", "tick", "decide"}
  BY DEF WriteBusinessInfo, RefuseKyb, AnswerSubmission, MailDecision,
     TickStep, Submit, Decide
<1>3. req[r].kind # "atonce"
  BY <1>2 DEF AtOnceInv, Furnishes, Signing, SigningUp, Furnishing
<1>4. Done(r) \/ Goto(r, "decide") \/ Goto(r, "count") \/ Goto(r, "tick")
  BY DEF WriteBusinessInfo, RefuseKyb, AnswerSubmission, MailDecision,
     TickStep, Submit, Decide
<1>5. req'[r].kind # "atonce" /\ req'[r].pc \notin {"wallets", "prices"}
  BY <1>3, <1>4, RequestStays, IdleType
<1>6. \A c \in 1..Len(companies) : SameTerms(c)
  <2>1. CASE companies' = companies
    BY <2>1 DEF SameTerms
  <2>2. CASE Submit(r)
    <3>1. PICK s, n : \/ companies' = companies
                      \/ companies' = [companies EXCEPT ![s].step = n]
      BY <2>2 DEF Submit
    <3>2. \A c \in 1..Len(companies) :
             \/ companies'[c] = companies[c]
             \/ companies'[c] = [companies[c] EXCEPT !.step = n]
      BY <3>1, PlaceTypes
    <3>3. QED
      BY <3>2, PlaceTypes DEF SameTerms, CompanyRow
  <2>3. CASE TickStep(r)
    <3>1. PICK s, g : \/ companies' = companies
                      \/ companies' = [companies EXCEPT ![s].steps[g] = "COMPLETED"]
      BY <2>3 DEF TickStep
    <3>2. \A c \in 1..Len(companies) :
             \/ companies'[c] = companies[c]
             \/ companies'[c] = [companies[c] EXCEPT !.steps[g] = "COMPLETED"]
      BY <3>1, PlaceTypes
    <3>3. QED
      BY <3>2, PlaceTypes DEF SameTerms, CompanyRow
  <2>4. QED
    BY <2>1, <2>2, <2>3 DEF WriteBusinessInfo, RefuseKyb, AnswerSubmission,
       MailDecision, Decide
<1>7. MemberEmails' = MemberEmails
  BY <1>1 DEF MemberEmails
<1>8. QED
  BY <1>1, <1>3, <1>5, <1>6, <1>7, AsideStaysWhole

LEMMA SameRequestsStayWhole ==
  ASSUME PlaceOfCompanies, AtOnceInv, SomeStepsChange \/ UNCHANGED onboardingvars
  PROVE  AtOnceInv'
<1>1. /\ UNCHANGED <<members, req, parted>> /\ Len(companies') = Len(companies)
      /\ \A c \in 1..Len(companies) : SameTerms(c)
  BY StepsChange DEF onboardingvars, SameTerms
<1>2. MemberEmails' = MemberEmails
  BY <1>1 DEF MemberEmails
<1>3. \A r \in Requests : Furnishes(r)'
  BY <1>1, <1>2 DEF AtOnceInv, Furnishes, AtOnce, AsFar, HasWallets, SameTerms
<1>4. OnceEach' /\ \A c \in 1..Len(companies') : Whole(c)'
  BY <1>1 DEF AtOnceInv, OnceEach, Whole, AtOnce, HasWallets, SameTerms
<1>5. QED
  BY <1>3, <1>4 DEF AtOnceInv

\* As long as nothing fails.
LEMMA StepWhole ==
  ASSUME PlaceOfCompanies, OwnerInv, [OnboardingNext]_onboardingvars,
         troubles = 0 => AtOnceInv
  PROVE  troubles' = 0 => AtOnceInv'
<1> SUFFICES ASSUME troubles' = 0 PROVE AtOnceInv'
  OBVIOUS
<1>1. CASE SomeStepsChange \/ UNCHANGED onboardingvars
  <2>1. troubles = 0
    BY <1>1 DEF SomeStepsChange, CreateOnboardingStep, UpdateStepStatus,
       DeleteOnboardingStep, ResetCompanySteps, ChangeSteps, onboardingvars
  <2>2. QED
    BY <1>1, <2>1, SameRequestsStayWhole
<1>2. ~Trouble
  BY DEF Trouble, PlaceOfCompanies, OnboardingTypeOK
<1>3. ~Crash /\ \A r \in Requests : ~CutShort(r)
  BY <1>2 DEF Crash, CutShort
<1>4. ASSUME NEW r \in Requests,
             \/ \E e \in Emails : \/ CreateCompanyUser(r, e)
                                  \/ RegisterPersonalInfo(r, e)
                                  \/ \E o \in Emails : CreateUserByOwner(r, o, e)
      PROVE  AtOnceInv'
  <2>1. troubles = 0
    BY <1>4 DEF CreateCompanyUser, RegisterPersonalInfo, CreateUserByOwner
  <2>2. QED
    BY <1>4, <2>1, BeginningStaysWhole
<1>5. ASSUME NEW r \in Requests,
             \/ \E e \in Emails, v \in Decisions :
                   HandleKyc(r, e, v) \/ UpdateKycStatus(r, e, v)
             \/ \E c \in DOMAIN companies :
                   \/ RegisterBusinessInfo(r, c) \/ InitializeOnboardingSteps(r, c)
                   \/ CompleteKyc(r, c) \/ CompleteKyb(r, c)
                   \/ CompleteProfile(r, c)
                   \/ \E v \in Decisions :
                         HandleKyb(r, c, v) \/ UpdateKybStatus(r, c, v)
      PROVE  AtOnceInv'
  <2>1. troubles = 0
    BY <1>5 DEF HandleKyc, UpdateKycStatus, RegisterBusinessInfo,
       InitializeOnboardingSteps, CompleteKyc, CompleteKyb, CompleteProfile,
       HandleKyb, UpdateKybStatus, Review
  <2>2. QED
    BY <1>5, <2>1, OthersBeginWhole
<1>6. ASSUME NEW r \in Requests,
             \/ CreateCompany(r) \/ CreateUser(r) \/ ReadRole(r) \/ CreateRole(r)
             \/ CreateMember(r) \/ FindSteps(r) \/ CreateSteps(r)
      PROVE  AtOnceInv'
  <2>1. troubles = 0
    BY <1>6 DEF CreateCompany, CreateUser, ReadRole, CreateRole, CreateMember,
       FindSteps, CreateSteps
  <2>2. QED
    BY <1>6, <2>1, CreatedCompanyIsWhole, SigningStaysWhole, LastStepsStayWhole
<1>7. ASSUME NEW r \in Requests, CreateWallets(r) \/ CreatePrices(r)
      PROVE  AtOnceInv'
  <2>1. troubles' = troubles
    BY <1>2, <1>7 DEF CreateWallets, CreatePrices
  <2>2. QED
    BY <1>7, <2>1, WalletsStayWhole, PricesStayWhole
<1>8. ASSUME NEW r \in Requests,
             \/ WriteBusinessInfo(r) \/ RefuseKyb(r) \/ AnswerSubmission(r)
             \/ MailDecision(r) \/ TickStep(r) \/ Submit(r) \/ Decide(r)
      PROVE  AtOnceInv'
  <2>1. troubles = 0
    BY <1>2, <1>8 DEF WriteBusinessInfo, RefuseKyb, AnswerSubmission,
       MailDecision, TickStep, Submit, Decide
  <2>2. QED
    BY <1>8, <2>1, OthersStepsStayWhole
<1>9. CASE OnboardingNext
  BY <1>1, <1>3, <1>4, <1>5, <1>6, <1>7, <1>8, <1>9, OnboardingCases
<1>10. QED
  BY <1>1, <1>9

LEMMA InitWhole == OnboardingInit => AtOnceInv
<1> SUFFICES ASSUME OnboardingInit PROVE AtOnceInv
  OBVIOUS
<1>1. \A r \in Requests : req[r] = Idle
  BY InitCompanies
<1>2. (\A r \in Requests : Furnishes(r)) /\ OnceEach
  BY <1>1, IdleType DEF Furnishes, OnceEach, AtOnce
<1>3. \A c \in 1..Len(companies) : HasWallets(c, 1) /\ companies[c].priced = "yes"
  <2>1. CASE companies = <<>>
    BY <2>1
  <2>2. ASSUME NEW row, row.wallets = [k \in Currencies |-> 1],
               row.priced = "yes", companies = <<row>>
        PROVE  \A c \in 1..Len(companies) :
                  HasWallets(c, 1) /\ companies[c].priced = "yes"
    <3>1. Len(companies) = 1 /\ companies[1] = row /\ \A c \in 1..1 : c = 1
      BY <2>2
    <3>2. QED
      BY <2>2, <3>1 DEF HasWallets
  <2>3. ASSUME NEW e \in Emails
        PROVE  LET row == [NewCompany(e, e) EXCEPT
                             !.wallets = [k \in Currencies |-> 1],
                             !.priced = "yes",
                             !.steps = [g \in Slugs |-> "open"]]
               IN  row.wallets = [k \in Currencies |-> 1] /\ row.priced = "yes"
    BY DEF NewCompany
  <2>4. QED
    BY <2>1, <2>2, <2>3 DEF OnboardingInit
<1>4. QED
  BY <1>2, <1>3 DEF AtOnceInv, Whole

\* For any people and companies: a company registered at once has a wallet
\* per currency and all its prices when its registration is over, unless
\* something failed or requests about its founder overlapped.
THEOREM RegisteredAtOnceAreWhole == OnboardingSpec => []AtOnceIsWhole
<1> DEFINE WholeInv == /\ PlaceOfCompanies /\ OwnerInv
                       /\ troubles = 0 => AtOnceInv
<1>1. OnboardingInit => WholeInv
  BY InitCompanies, InitOwners, InitWhole
<1>2. WholeInv /\ [OnboardingNext]_onboardingvars => WholeInv'
  BY StepPlaceOfCompanies, StepOwners, StepWhole
<1>3. WholeInv => AtOnceIsWhole
  <2> SUFFICES ASSUME WholeInv, NEW c \in DOMAIN companies,
                      companies[c].email = companies[c].by, troubles = 0,
                      companies[c].by \notin parted,
                      \A r \in Requests :
                         req[r].kind = "atonce" => req[r].company # c
               PROVE  /\ \A k \in Currencies : companies[c].wallets[k] = 1
                      /\ companies[c].priced = "yes"
    BY DEF AtOnceIsWhole
  <2>1. Whole(c)
    BY PlaceTypes DEF AtOnceInv
  <2>2. QED
    BY <2>1 DEF Whole, AtOnce, HasWallets
<1> HIDE DEF WholeInv
<1>4. QED
  BY <1>1, <1>2, <1>3, PTL DEF OnboardingSpec

(***************************************************************************)
(* What a review approves                                                  *)
(***************************************************************************)
\* For any people and companies: an approval rests on the documents as they
\* are, unless new ones came in while it was being made.
THEOREM ApprovedWereReviewed == OnboardingSpec => []ApprovedWasReviewed
<1>1. OnboardingInit => PlaceOfCompanies /\ ApprovedWasReviewed
  <2>1. OnboardingInit =>
          papers = [s \in Subjects |-> [status |-> "NONE", docs |-> 0]]
    BY DEF OnboardingInit
  <2>2. QED
    BY <2>1, InitCompanies DEF ApprovedWasReviewed
<1>2. ASSUME PlaceOfCompanies, ApprovedWasReviewed,
             [OnboardingNext]_onboardingvars
      PROVE  ApprovedWasReviewed'
  <2>1. CASE UNCHANGED <<papers, reviewed, crossed>>
    BY <1>2, <2>1 DEF ApprovedWasReviewed
  <2>2. ASSUME NEW r \in Requests, Submit(r) PROVE ApprovedWasReviewed'
    BY <1>2, <2>2, IsSubmitted DEF ApprovedWasReviewed
  <2>3. ASSUME NEW r \in Requests, Decide(r) PROVE ApprovedWasReviewed'
    BY <1>2, <2>3, IsDecided DEF ApprovedWasReviewed
  <2>4. CASE OnboardingNext
    <3>1. CASE UNCHANGED reviews
      BY <2>1, <3>1 DEF reviews
    <3>2. ASSUME NEW r \in Requests,
                 \/ WriteBusinessInfo(r) \/ RefuseKyb(r) \/ FindSteps(r)
                 \/ AnswerSubmission(r) \/ MailDecision(r) \/ ReadRole(r)
          PROVE  UNCHANGED reviews
      BY <1>2, <3>2, WalksOn DEF reviews
    <3>3. QED
      BY <1>2, <2>2, <2>3, <2>4, <3>1, <3>2, OnboardingCases, Newcomer,
         LaterBegins, CompanyIsCreated, UserIsCreated,
         RoleIsCreated, MemberIsCreated, WalletsAreCreated,
         WritesTerms, IsCutShort, StepsChange, Crashes
  <2>5. QED
    BY <1>2, <2>1, <2>4 DEF onboardingvars
<1>3. QED
  <2>1. PlaceOfCompanies /\ ApprovedWasReviewed /\ [OnboardingNext]_onboardingvars
          => PlaceOfCompanies' /\ ApprovedWasReviewed'
    BY <1>2, StepPlaceOfCompanies
  <2>2. QED
    BY <1>1, <2>1, PTL DEF OnboardingSpec
=============================================================================
