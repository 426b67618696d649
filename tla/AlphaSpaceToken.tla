-------------------------- MODULE AlphaSpaceToken --------------------------
(***************************************************************************)
(* The access token all AlphaSpace requests of a process share.  A request *)
(* that finds it missing or about to expire logs in; one that finds a      *)
(* login under way waits for it and takes whatever it leaves behind.       *)
(***************************************************************************)
EXTENDS Integers, FiniteSets

CONSTANTS Handlers   \* requests the server works on at once

VARIABLES
    token,          \* accessToken and tokenExpiry, in memory
    authenticating, \* isAuthenticating
    ask,            \* where each request is on its way to a token
    let_down        \* history: requests a login failed upon while they waited

tvars == <<token, authenticating, ask, let_down>>

TokenStates == {"none", "valid", "expired"}
Asking == {"no", "login", "wait", "have", "none", "failed"}

\* A request may go to the provider: with a token, or with none at all.
MayCall(h) == ask[h] \in {"have", "none"}

TokenTypeOK ==
    /\ token \in TokenStates
    /\ authenticating \in BOOLEAN
    /\ ask \in [Handlers -> Asking]
    /\ let_down \subseteq Handlers

TokenInit ==
    /\ token = "none"
    /\ authenticating = FALSE
    /\ ask = [h \in Handlers |-> "no"]
    /\ let_down = {}

Reply(h, answer) == ask' = [ask EXCEPT ![h] = answer]

\* getValidAccessToken up to its first await.
GetValidAccessToken(h) ==
    /\ ask[h] = "no"
    /\ Reply(h, IF token = "valid" THEN "have"
                ELSE IF authenticating THEN "wait" ELSE "login")
    /\ authenticating' = (authenticating \/ token # "valid")
    /\ let_down' = let_down \ {h}
    /\ UNCHANGED token

\* Mutant: a login that fails keeps the others out.
AuthenticateKeepsFlag(h) ==
    /\ ask[h] = "login"
    /\ \/ /\ token' = "valid" /\ authenticating' = FALSE
          /\ Reply(h, "have")
          /\ UNCHANGED let_down
       \/ /\ token' = "none"
          /\ Reply(h, "failed")
          /\ let_down' = let_down \cup {g \in Handlers : ask[g] = "wait"}
          /\ UNCHANGED authenticating

\* The login is answered, or fails or times out; then no token is left.
Authenticate(h) ==
    /\ ask[h] = "login"
    /\ authenticating' = FALSE
    /\ \/ /\ token' = "valid"
          /\ Reply(h, "have")
          /\ UNCHANGED let_down
       \/ /\ token' = "none"
          /\ Reply(h, "failed")
          /\ let_down' = let_down \cup {g \in Handlers : ask[g] = "wait"}

\* Mutant: a request does not wait for the login that is under way.
TakeWhatThereIs(h) ==
    /\ ask[h] = "wait"
    /\ Reply(h, IF token = "none" THEN "none" ELSE "have")
    /\ UNCHANGED <<token, authenticating, let_down>>

\* The loop of 100 ms sees no login any more and returns accessToken.
StopWaiting(h) ==
    /\ ask[h] = "wait"
    /\ ~authenticating
    /\ Reply(h, IF token = "none" THEN "none" ELSE "have")
    /\ UNCHANGED <<token, authenticating, let_down>>

TokenStep(h) == Authenticate(h) \/ StopWaiting(h)

TokenExpires ==
    /\ token = "valid"
    /\ token' = "expired"
    /\ UNCHANGED <<authenticating, ask, let_down>>

\* The memory of the process is gone.
ForgetToken ==
    /\ token' = "none"
    /\ authenticating' = FALSE
    /\ ask' = [h \in Handlers |-> "no"]
    /\ let_down' = {}

\* A request is sent without a token only if a login failed while it waited
\* for one, and there is never more than one login under way
\* (alphaspace-auth.service.ts:83-91).
TokenlessOnlyAfterFailure ==
    /\ \A h \in Handlers : ask[h] = "none" => h \in let_down
    /\ Cardinality({h \in Handlers : ask[h] = "login"})
          = IF authenticating THEN 1 ELSE 0
============================================================================
