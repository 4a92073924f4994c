---------------------------- MODULE LoginSessions ----------------------------
(***************************************************************************)
(* The optional login protection (api/security, the /auth routes and the     *)
(* /login, /logout pages): sessions live in the database's auth_session      *)
(* table, which a restart keeps, and LoginProtectionMiddleware reads it for   *)
(* every request. A request is the interleaving unit: it arrives, its token   *)
(* is looked up, and only then is the row's expiry compared with the clock    *)
(* (is_token_valid compares after it has closed its database session).        *)
(* A token stands for itself and for its hash.                               *)
(***************************************************************************)
EXTENDS Integers

CONSTANTS Browsers, Scripts,  \* clients that log in through the page and through the API
          Tokens,   \* the tokens that may be drawn
          NoToken,  \* no token
          TTL,      \* session_ttl_hours
          MaxTime   \* bound on the clock

ASSUME LoginAssumption == TTL \in Nat \ {0} /\ NoToken \notin Tokens

Clients == Browsers \union Scripts

VARIABLES now,         \* the clock
          protected,   \* enable_login_protection as read at the server's start
          expires,     \* the auth_session rows: token -> expires_at, or NoRow
          cookie,      \* client -> the session cookie its browser keeps, or NoToken
          bearer,      \* client -> the token it sends in its Authorization header, or NoToken
          request,     \* client -> its request in flight
          until,       \* token -> the end of the max_age it was handed out with, or NoRow
          ended        \* tokens whose session was ended by a logout or a dropped table

loginVars == <<now, protected, expires, cookie, bearer, request, until, ended>>

NoRow == 0
NoRequest == [path |-> "none", token |-> NoToken, row |-> NoRow, live |-> FALSE, stage |-> "idle"]

(* What a request asks for. The exempt paths (health, docs, static files) need *)
(* no token and touch no session; the login pages are the two login actions.   *)
Paths == {"other", "api_logout", "page_logout"}

InitLogin ==
    /\ now = 1
    /\ protected \in BOOLEAN
    /\ expires = [t \in Tokens |-> NoRow]
    /\ cookie = [c \in Clients |-> NoToken]
    /\ bearer = [c \in Clients |-> NoToken]
    /\ request = [c \in Clients |-> NoRequest]
    /\ until = [t \in Tokens |-> NoRow]
    /\ ended = {}

Idle(c) == request[c].stage = "idle"

OpenSession_Bug(t) ==
    /\ until[t] = NoRow
    /\ expires' = [u \in Tokens |-> IF u = t THEN now + TTL
                                    ELSE IF expires[u] <= now + 1 THEN NoRow ELSE expires[u]]
    /\ until' = [until EXCEPT ![t] = now + TTL]

OpenSession_SameToken(t) ==
    /\ expires' = [expires EXCEPT ![t] = now + TTL]
    /\ until' = [until EXCEPT ![t] = now + TTL]

(* open_session: drop the rows that have expired, add the new one.            *)
OpenSession(t) ==
    /\ until[t] = NoRow
    /\ expires' = [u \in Tokens |-> IF u = t THEN now + TTL
                                    ELSE IF expires[u] <= now THEN NoRow ELSE expires[u]]
    /\ until' = [until EXCEPT ![t] = now + TTL]

(* POST /login and POST /api/auth/login with the right credentials; both are  *)
(* refused when protection is off.                                           *)
PageLogin(c) ==
    /\ c \in Browsers /\ Idle(c) /\ protected
    /\ \E t \in Tokens : OpenSession(t) /\ cookie' = [cookie EXCEPT ![c] = t]
    /\ UNCHANGED <<now, protected, bearer, request, ended>>

ApiLogin(c) ==
    /\ c \in Scripts /\ Idle(c) /\ protected
    /\ \E t \in Tokens : OpenSession(t) /\ bearer' = [bearer EXCEPT ![c] = t]
    /\ UNCHANGED <<now, protected, cookie, request, ended>>

(* dispatch: the header's token if there is one, else the cookie's.           *)
SentToken(c) == IF bearer[c] # NoToken THEN bearer[c] ELSE cookie[c]

(* Whether a token's session runs: handed out, not ended, not over.           *)
Live(t) == t \in Tokens /\ until[t] > now /\ t \notin ended

(* `live` remembers, for the properties, whether the token was live by then.  *)
(* (A request without any token is answered with the 401 or redirect at once.) *)
Arrive(c, path) ==
    /\ Idle(c)
    /\ protected => SentToken(c) # NoToken
    /\ request' = [request EXCEPT ![c] =
          [path |-> path, token |-> SentToken(c), row |-> NoRow, live |-> Live(SentToken(c)),
           stage |-> IF protected THEN "looking" ELSE "passed"]]
    /\ UNCHANGED <<now, protected, expires, cookie, bearer, until, ended>>

(* is_token_valid, first half: the session's row.                            *)
LookUp(c) ==
    /\ request[c].stage = "looking"
    /\ request' = [request EXCEPT ![c].row = expires[request[c].token], ![c].stage = "found"]
    /\ UNCHANGED <<now, protected, expires, cookie, bearer, until, ended>>

Decide_Bug(c) ==
    /\ request[c].stage = "found"
    /\ request' = [request EXCEPT ![c] = IF @.row >= now THEN [@ EXCEPT !.stage = "passed"] ELSE NoRequest]
    /\ UNCHANGED <<now, protected, expires, cookie, bearer, until, ended>>

Decide_LeavesRefused(c) ==
    /\ request[c].stage = "found"
    /\ request' = [request EXCEPT ![c].stage = IF request[c].row > now THEN "passed" ELSE "refused"]
    /\ UNCHANGED <<now, protected, expires, cookie, bearer, until, ended>>

(* is_token_valid, second half: the expiry against the clock by then. The      *)
(* request goes to its handler, or the 401 or the redirect ends it.           *)
Decide(c) ==
    /\ request[c].stage = "found"
    /\ request' = [request EXCEPT ![c] = IF @.row > now THEN [@ EXCEPT !.stage = "passed"] ELSE NoRequest]
    /\ UNCHANGED <<now, protected, expires, cookie, bearer, until, ended>>

Revoke(t) ==
    /\ expires' = [expires EXCEPT ![t] = NoRow]
    /\ ended' = ended \union {t}

(* POST /api/auth/logout ends the session of the bearer token (and answers    *)
(* 401 to a request that has only a cookie).                                 *)
ApiLogout(c) ==
    /\ request[c].stage = "passed" /\ request[c].path = "api_logout"
    /\ IF bearer[c] # NoToken
       THEN Revoke(bearer[c]) /\ bearer' = [bearer EXCEPT ![c] = NoToken]
       ELSE UNCHANGED <<expires, ended, bearer>>
    /\ request' = [request EXCEPT ![c] = NoRequest]
    /\ UNCHANGED <<now, protected, cookie, until>>

(* POST /logout ends the session of the cookie and clears it.                *)
PageLogout(c) ==
    /\ request[c].stage = "passed" /\ request[c].path = "page_logout"
    /\ IF cookie[c] # NoToken THEN Revoke(cookie[c]) ELSE UNCHANGED <<expires, ended>>
    /\ cookie' = [cookie EXCEPT ![c] = NoToken]
    /\ request' = [request EXCEPT ![c] = NoRequest]
    /\ UNCHANGED <<now, protected, bearer, until>>

(* Any other handler answers without touching a session.                     *)
Answer(c) ==
    /\ request[c].stage = "passed" /\ request[c].path = "other"
    /\ request' = [request EXCEPT ![c] = NoRequest]
    /\ UNCHANGED <<now, protected, expires, cookie, bearer, until, ended>>

(* Time passes; a browser drops a cookie whose max_age (the session's TTL) is  *)
(* over.                                                                     *)
Tick ==
    /\ now < MaxTime
    /\ now' = now + 1
    /\ UNCHANGED <<protected, expires, cookie, bearer, request, until, ended>>

CookieExpires(c) ==
    /\ Idle(c) /\ cookie[c] # NoToken
    /\ until[cookie[c]] <= now
    /\ cookie' = [cookie EXCEPT ![c] = NoToken]
    /\ UNCHANGED <<now, protected, expires, bearer, request, until, ended>>

(* The server restarts: requests in flight are lost, the settings are read     *)
(* again, the rows stay.                                                     *)
Restart ==
    /\ request' = [c \in Clients |-> NoRequest]
    /\ protected' \in BOOLEAN
    /\ UNCHANGED <<now, expires, cookie, bearer, until, ended>>

(* A downgrade drops the auth_session table, and every session with it.       *)
TableDropped ==
    /\ expires' = [t \in Tokens |-> NoRow]
    /\ ended' = {t \in Tokens : until[t] # NoRow}
    /\ request' = [c \in Clients |-> NoRequest]
    /\ UNCHANGED <<now, protected, cookie, bearer, until>>

ClientStep(c) ==
    \/ PageLogin(c) \/ ApiLogin(c)
    \/ \E p \in Paths : Arrive(c, p)
    \/ LookUp(c) \/ Decide(c)
    \/ ApiLogout(c) \/ PageLogout(c) \/ Answer(c) \/ CookieExpires(c)

LoginNext == (\E c \in Clients : ClientStep(c)) \/ Tick \/ Restart \/ TableDropped

LoginSpec == InitLogin /\ [][LoginNext]_loginVars

-----------------------------------------------------------------------------
Stages == {"idle", "looking", "found", "passed"}

HeldBy(c) == {cookie[c], bearer[c]} \ {NoToken}

(* Type correctness of the login state (auth_sessions.py, middleware.py).     *)
LoginTypeOK ==
    /\ now \in Nat \ {0}
    /\ protected \in BOOLEAN
    /\ expires \in [Tokens -> Nat] /\ until \in [Tokens -> Nat]
    /\ cookie \in [Clients -> Tokens \union {NoToken}]
    /\ bearer \in [Clients -> Tokens \union {NoToken}]
    /\ request \in [Clients -> [path : Paths \union {"none"}, token : Tokens \union {NoToken},
                                row : Nat, live : BOOLEAN, stage : Stages]]
    /\ ended \subseteq Tokens

(* A login lasts its TTL: whoever else logs in (which purges expired rows) or   *)
(* out, and however often the server restarts, the session of a token a client *)
(* still holds has its row until the token's time is over, unless a downgrade   *)
(* dropped the table (configuration.md: "how long a login token stays valid"). *)
LoginLasts ==
    \A t \in Tokens : until[t] > now /\ t \notin ended => expires[t] = until[t]

(* A request that the middleware let through on its token carried one that was *)
(* live when the request came in: a logout or an expiry is never undone by the *)
(* lookup and the comparison being two steps (AuthSessionStore.is_token_valid).*)
PassedWasLive ==
    \A c \in Clients :
        request[c].stage = "passed" /\ protected => request[c].live

(* A logout ends the session of the client that logs out and of nobody else:    *)
(* two clients never share a session, so what another holds is untouched.      *)
LogoutIsOwn ==
    [][\A c \in Clients : \A t \in HeldBy(c) :
          (t \in ended' \ ended /\ t \in HeldBy(c)') => expires' = [u \in Tokens |-> NoRow]]_loginVars
=============================================================================
