------------------------------- MODULE Sessions -------------------------------
(****************************************************************************)
(* The refresh tokens of one user: how AuthService issues, exchanges and    *)
(* revokes them, and the browser whose tabs share the cookie.               *)
(*                                                                          *)
(* A slot is a tab of the web console with its request: the interceptor in  *)
(* services/api.ts lets one refresh run per tab (refreshing), and tabs know *)
(* nothing of each other.  Tokens are numbered as issued.  The password and *)
(* the lock that guard a login are in Accounts.                             *)
(****************************************************************************)
EXTENDS Requests, Naturals

CONSTANTS
    NumTokens,  \* bound: the refresh tokens that are issued
    NoToken     \* no cookie, no parent

Tokens == 1 .. NumTokens

ASSUME SessionsAssumption == NumTokens \in Nat /\ NoToken \notin Tokens

VARIABLES
    token,      \* refresh_tokens
    parent,     \* the token a token was exchanged for
    cookie,     \* refresh_token in the browser
    signedIn    \* tabs whose store holds an access token

sessionVars == <<token, parent, cookie, signedIn>>

TokenState == {"absent", "live", "revoked", "expired"}
Cookies == Tokens \cup {NoToken}

SessionCalls ==
         {Idle}
    \cup [op : {"revoke"}, from : Tokens]
    \cup [op : {"issue"}, from : Cookies]
    \cup [op : {"answer"}, from : Cookies, token : Tokens]
    \cup [op : {"cleared"}]

SessionsTypeOK ==
    /\ token \in [Tokens -> TokenState]
    /\ parent \in [Tokens -> Cookies]
    /\ cookie \in Cookies
    /\ signedIn \in SUBSET Slots

SessionsInit ==
    /\ token = [t \in Tokens |-> "absent"]
    /\ parent = [t \in Tokens |-> NoToken]
    /\ cookie = NoToken
    /\ signedIn = {}

\* POST /auth/login whose password was right.
LoginAccepted(w) ==
    /\ MayStart(w)
    /\ Continue(w, [op |-> "issue", from |-> NoToken])
    /\ UNCHANGED sessionVars

\* Bug: WHERE token = ... without is_revoked = false.
ExchangeableEvenIfRevoked(t) == t # NoToken /\ token[t] \in {"live", "revoked"}

\* The record findOne returns and whose expires_at is still ahead.
Exchangeable(t) == t # NoToken /\ token[t] = "live"

\* A tab got a 401, be it from its own login, and sends the browser's cookie.
Refresh(w) ==
    /\ MayStart(w)
    /\ Exchangeable(cookie)
    /\ Continue(w, [op |-> "revoke", from |-> cookie])
    /\ UNCHANGED sessionVars

\* There is no such token, or it has expired and is marked revoked for that.
RefreshRefused(w) ==
    /\ MayStart(w)
    /\ ~ Exchangeable(cookie)
    /\ token' = [t \in Tokens |->
                    IF t = cookie /\ token[t] = "expired" THEN "revoked" ELSE token[t]]
    /\ signedIn' = signedIn \ {w}
    /\ UNCHANGED <<world, call, parent, cookie>>

\* Bug: the token is handed out again without being revoked.
RefreshRevokeNothing(w) ==
    /\ call[w].op = "revoke"
    /\ Continue(w, [op |-> "issue", from |-> call[w].from])
    /\ UNCHANGED sessionVars

\* UPDATE ... SET is_revoked WHERE id, whether or not it was revoked meanwhile.
RefreshRevoke(w) ==
    /\ call[w].op = "revoke"
    /\ token' = [token EXCEPT ![call[w].from] = "revoked"]
    /\ Continue(w, [op |-> "issue", from |-> call[w].from])
    /\ UNCHANGED <<parent, cookie, signedIn>>

GenerateTokens(w) ==
    /\ call[w].op = "issue"
    /\ \E t \in Tokens :
          /\ \A u \in Tokens : token[u] = "absent" <=> u >= t
          /\ token' = [token EXCEPT ![t] = "live"]
          /\ parent' = [parent EXCEPT ![t] = call[w].from]
          /\ Continue(w, [op |-> "answer", from |-> call[w].from, token |-> t])
    /\ UNCHANGED <<cookie, signedIn>>

\* Bug: refresh answers without setting the cookie.
AnswerWithoutCookie(w) ==
    /\ call[w].op = "answer"
    /\ cookie' = IF call[w].from = NoToken THEN call[w].token ELSE cookie
    /\ signedIn' = signedIn \cup {w}
    /\ Finish(w)
    /\ UNCHANGED <<token, parent>>

\* The answer sets the cookie of the browser and the access token of the tab.
Answer(w) ==
    /\ call[w].op = "answer"
    /\ cookie' = call[w].token
    /\ signedIn' = signedIn \cup {w}
    /\ Finish(w)
    /\ UNCHANGED <<token, parent>>

\* With a cookie its token is revoked, without one all tokens of the user.
Logout(w) ==
    /\ MayStart(w)
    /\ w \in signedIn
    /\ token' = [t \in Tokens |->
                    IF token[t] # "absent" /\ cookie \in {t, NoToken}
                    THEN "revoked" ELSE token[t]]
    /\ Continue(w, [op |-> "cleared"])
    /\ UNCHANGED <<parent, cookie, signedIn>>

LogoutAnswer(w) ==
    /\ call[w].op = "cleared"
    /\ cookie' = NoToken
    /\ signedIn' = signedIn \ {w}
    /\ Finish(w)
    /\ UNCHANGED <<token, parent>>

\* The button of the console only forgets the access token.
SignOut(w) ==
    /\ call[w] = Idle
    /\ w \in signedIn
    /\ signedIn' = signedIn \ {w}
    /\ UNCHANGED <<world, call, token, parent, cookie>>

\* Seven days pass for a token, and for the cookie that carries it.
Expire ==
    /\ \E t \in Tokens :
          /\ token[t] = "live"
          /\ token' = [token EXCEPT ![t] = "expired"]
          /\ cookie' \in IF cookie = t THEN {t, NoToken} ELSE {cookie}
    /\ UNCHANGED <<world, call, parent, signedIn>>

\* A refresh that fails signs its tab out, a login that fails changes nothing.
SessionCrash(w) ==
    /\ Crash(w)
    /\ signedIn' = IF call[w].op = "cleared" \/ call[w].from = NoToken
                   THEN signedIn ELSE signedIn \ {w}
    /\ UNCHANGED <<token, parent, cookie>>

SessionsNext ==
    \/ Expire
    \/ \E w \in Slots :
          \/ LoginAccepted(w)
          \/ Refresh(w) \/ RefreshRefused(w) \/ RefreshRevoke(w)
          \/ GenerateTokens(w) \/ Answer(w)
          \/ Logout(w) \/ LogoutAnswer(w) \/ SignOut(w)
          \/ SessionCrash(w)

SessionsSpec ==
    /\ RequestsInit /\ SessionsInit
    /\ [][SessionsNext]_<<world, call, sessionVars>>

--------------------------------------------------------------------------------
(* Properties.                                                              *)

\* "Token rotation: revoke old token".  Whoever got a token for another has ended
\* that other one, also when several tabs refresh at once and pods crash.
ParentsAreRevoked ==
    \A t \in Tokens : parent[t] # NoToken => token[parent[t]] = "revoked"

\* Exchanging tokens never multiplies sessions.  Two tabs that refresh at once
\* break it: both find the token valid before either revokes it.
ExchangedOnce ==
    \A t, u \in Tokens : parent[t] = parent[u] /\ parent[t] # NoToken => t = u

SerialExchangedOnce == serial => ExchangedOnce

\* While nobody races and no answer is lost, the browser is never left with a
\* cookie that a refresh has spent: a refresh ends no session.
CalmCookieIsNewest ==
    calm /\ AtRest /\ cookie # NoToken => \A t \in Tokens : parent[t] # cookie
================================================================================
