---------------------------- MODULE ServerProofs ----------------------------
(***************************************************************************)
(* Proofs about logins for every set of clients and tokens, every TTL and    *)
(* every history of commands. The login invariants are proved of             *)
(* LoginSessions alone; ServerSpec is shown to implement it, whatever the     *)
(* migrations do, so they hold of the whole installation. Then: what the      *)
(* migrations leave of the schema and of the backups.                        *)
(***************************************************************************)
EXTENDS Server, SequenceTheorems, TLAPS

RequestType ==
    [path : Paths \union {"none"}, token : Tokens \union {NoToken},
     row : Nat, live : BOOLEAN, stage : Stages]

(* Rows say no more than what was handed out, and an ended session has none.   *)
RowsAreIssued ==
    \A t \in Tokens : /\ expires[t] \in {NoRow, until[t]}
                      /\ t \in ended => expires[t] = NoRow /\ until[t] # NoRow

(* A request on a dead token is stuck with a row that is missing or over, or   *)
(* with a token whose session is ended or over.                               *)
DeadRequest(r) ==
    /\ r.token \in Tokens /\ until[r.token] # NoRow
    /\ r.stage = "looking" => r.token \in ended \/ until[r.token] <= now
    /\ r.stage = "found" => r.row <= now
DeadStaysDead ==
    \A c \in Clients : protected /\ request[c].stage # "idle" /\ ~request[c].live
                          => request[c].stage # "passed" /\ DeadRequest(request[c])

(* Whatever a client holds was handed out, to it alone and for one purpose.    *)
HeldOnce ==
    /\ \A c \in Clients : \A t \in HeldBy(c) : until[t] # NoRow
    /\ \A c \in Clients : cookie[c] = bearer[c] => cookie[c] = NoToken
    /\ \A c, d \in Clients : c # d => HeldBy(c) \intersect HeldBy(d) = {}

(* Only a request with a token is looked up.                                 *)
Asking(r) == r.stage \in {"looking", "found"} => r.token \in Tokens
AskedHasToken == \A c \in Clients : Asking(request[c])

LoginInv ==
    /\ LoginTypeOK /\ LoginLasts /\ RowsAreIssued
    /\ DeadStaysDead /\ AskedHasToken /\ HeldOnce

LEMMA NoRequestType == NoRequest \in RequestType
  BY LoginAssumption DEF NoRequest, RequestType, NoRow, Stages, Paths

LEMMA InitLoginInv == InitLogin => LoginInv
  BY LoginAssumption DEF InitLogin, LoginInv, LoginTypeOK, LoginLasts, RowsAreIssued, DeadStaysDead,
     AskedHasToken, Asking, HeldOnce, HeldBy, NoRequest, NoRow, Paths, Stages

(* Handing a token out: the one step that adds a row.                         *)
LEMMA OpenSessionRows ==
    ASSUME LoginInv, NEW t \in Tokens, OpenSession(t), now' = now, ended' = ended
    PROVE  /\ expires' \in [Tokens -> Nat] /\ until' \in [Tokens -> Nat]
           /\ LoginLasts' /\ RowsAreIssued'
           /\ until[t] = NoRow /\ until'[t] # NoRow
           /\ \A u \in Tokens : u # t => until'[u] = until[u]
<1>1. /\ now \in Nat \ {0} /\ now + TTL \in Nat /\ now + TTL > now
      /\ expires \in [Tokens -> Nat] /\ until \in [Tokens -> Nat]
  BY LoginAssumption DEF LoginInv, LoginTypeOK
<1>2. /\ expires' = [u \in Tokens |-> IF u = t THEN now + TTL
                                     ELSE IF expires[u] <= now THEN NoRow ELSE expires[u]]
      /\ until' = [until EXCEPT ![t] = now + TTL]
      /\ until[t] = NoRow
  BY DEF OpenSession
<1>3. expires' \in [Tokens -> Nat] /\ until' \in [Tokens -> Nat]
  BY <1>1, <1>2 DEF NoRow
<1>4. until'[t] = now + TTL /\ \A u \in Tokens : u # t => until'[u] = until[u]
  BY <1>1, <1>2
<1>5. LoginLasts'
  BY <1>1, <1>2, <1>4 DEF LoginLasts, LoginInv
<1>6. t \notin ended
  BY <1>2 DEF LoginInv, RowsAreIssued
<1>7. RowsAreIssued'
  BY <1>1, <1>2, <1>4, <1>6 DEF RowsAreIssued, LoginInv, NoRow
<1>. QED  BY <1>1, <1>2, <1>3, <1>4, <1>5, <1>7 DEF NoRow

(* A login: requests keep their tokens, the new token is held by one client.   *)
LEMMA LoginKeepsInv ==
    ASSUME LoginInv, NEW c \in Clients, PageLogin(c) \/ ApiLogin(c)
    PROVE  LoginInv'
<1>1. PICK t \in Tokens :
         /\ OpenSession(t)
         /\ \/ cookie' = [cookie EXCEPT ![c] = t] /\ bearer' = bearer
            \/ bearer' = [bearer EXCEPT ![c] = t] /\ cookie' = cookie
  BY DEF PageLogin, ApiLogin
<1>2. now' = now /\ protected' = protected /\ request' = request /\ ended' = ended
  BY DEF PageLogin, ApiLogin
<1>3. /\ expires' \in [Tokens -> Nat] /\ until' \in [Tokens -> Nat]
      /\ LoginLasts' /\ RowsAreIssued'
      /\ until[t] = NoRow /\ until'[t] # NoRow
      /\ \A u \in Tokens : u # t => until'[u] = until[u]
  BY <1>1, <1>2, OpenSessionRows
<1>4. LoginTypeOK'
  BY <1>1, <1>2, <1>3 DEF LoginInv, LoginTypeOK
<1>5. DeadStaysDead' /\ AskedHasToken'
  BY <1>2, <1>3 DEF LoginInv, DeadStaysDead, DeadRequest, AskedHasToken, Asking
<1>6. \A d \in Clients : /\ HeldBy(d)' \subseteq HeldBy(d) \union {t}
                         /\ t \notin HeldBy(d)
                         /\ d # c => HeldBy(d)' = HeldBy(d)
  BY <1>1, <1>3 DEF LoginInv, LoginTypeOK, HeldOnce, HeldBy
<1>7. \A d \in Clients : HeldBy(d) \subseteq Tokens
  BY DEF LoginInv, LoginTypeOK, HeldBy
<1>8. \A d \in Clients : \A u \in HeldBy(d)' : until'[u] # NoRow
  BY <1>3, <1>6, <1>7 DEF LoginInv, HeldOnce
<1>9. \A d \in Clients : cookie'[d] = bearer'[d] => cookie'[d] = NoToken
  BY <1>1, <1>6, LoginAssumption DEF LoginInv, LoginTypeOK, HeldOnce, HeldBy
<1>10. \A d, e \in Clients : d # e => HeldBy(d)' \intersect HeldBy(e)' = {}
  BY <1>6 DEF LoginInv, HeldOnce
<1>11. HeldOnce'
  BY <1>8, <1>9, <1>10 DEF HeldOnce
<1>. QED  BY <1>3, <1>4, <1>5, <1>11 DEF LoginInv

(* A request's own steps: its client gets another request record, nothing else *)
(* moves.                                                                    *)
RequestOnly(c, r) ==
    /\ request' = [request EXCEPT ![c] = r]
    /\ UNCHANGED <<now, protected, expires, cookie, bearer, until, ended>>

LEMMA RequestKeepsInv ==
    ASSUME LoginInv, NEW c \in Clients, NEW r \in RequestType, RequestOnly(c, r),
           Asking(r),
           protected /\ r.stage # "idle" /\ ~r.live => r.stage # "passed" /\ DeadRequest(r)
    PROVE  LoginInv'
<1>1. request \in [Clients -> RequestType]
  BY DEF LoginInv, LoginTypeOK, RequestType
<1>2. request' \in [Clients -> RequestType]
  BY <1>1 DEF RequestOnly
<1>3. LoginTypeOK'
  BY <1>2 DEF LoginInv, LoginTypeOK, RequestOnly, RequestType
<1>4. ASSUME NEW d \in Clients
      PROVE  protected' /\ request'[d].stage # "idle" /\ ~request'[d].live
                => request'[d].stage # "passed" /\ DeadRequest(request[d])'
  <2>1. CASE d = c
    <3>1. request'[d] = r
      BY <1>1, <2>1 DEF RequestOnly
    <3>. QED  BY <3>1 DEF RequestOnly, DeadRequest
  <2>2. CASE d # c
    <3>1. request'[d] = request[d]
      BY <1>1, <2>2 DEF RequestOnly
    <3>. QED  BY <3>1 DEF RequestOnly, DeadRequest, LoginInv, DeadStaysDead
  <2>. QED  BY <2>1, <2>2
<1>5. DeadStaysDead' /\ AskedHasToken'
  BY <1>1, <1>4 DEF DeadStaysDead, AskedHasToken, Asking, RequestOnly, LoginInv
<1>6. LoginLasts' /\ RowsAreIssued' /\ HeldOnce'
  BY DEF LoginInv, RequestOnly, LoginLasts, RowsAreIssued, HeldOnce, HeldBy
<1>. QED  BY <1>3, <1>5, <1>6 DEF LoginInv

LEMMA ArriveKeepsInv ==
    ASSUME LoginInv, NEW c \in Clients, NEW p \in Paths, Arrive(c, p)
    PROVE  LoginInv'
<1> DEFINE r == [path |-> p, token |-> SentToken(c), row |-> NoRow, live |-> Live(SentToken(c)),
                 stage |-> IF protected THEN "looking" ELSE "passed"]
<1>1. SentToken(c) \in Tokens \union {NoToken}
  BY DEF LoginInv, LoginTypeOK, SentToken
<1>2. r \in RequestType
  BY <1>1 DEF RequestType, Stages, NoRow, Live
<1>3. RequestOnly(c, r)
  BY DEF Arrive, RequestOnly
<1>4. ASSUME protected, ~Live(SentToken(c))  PROVE DeadRequest(r)
  <2>1. SentToken(c) \in HeldBy(c) /\ SentToken(c) \in Tokens
    BY <1>1, <1>4 DEF Arrive, SentToken, HeldBy
  <2>2. until[SentToken(c)] # NoRow /\ until[SentToken(c)] \in Nat /\ now \in Nat
    BY <2>1 DEF LoginInv, HeldOnce, LoginTypeOK
  <2>3. SentToken(c) \in ended \/ until[SentToken(c)] <= now
    BY <1>4, <2>1, <2>2 DEF Live
  <2>. QED  BY <1>4, <2>1, <2>2, <2>3 DEF DeadRequest
<1>5. protected /\ r.stage # "idle" /\ ~r.live => r.stage # "passed" /\ DeadRequest(r)
  BY <1>4
<1>6. Asking(r)
  BY <1>1 DEF Asking, Arrive
<1>. QED  BY <1>2, <1>3, <1>5, <1>6, RequestKeepsInv

LEMMA LookUpKeepsInv ==
    ASSUME LoginInv, NEW c \in Clients, LookUp(c)
    PROVE  LoginInv'
<1> DEFINE q == request[c]
           r == [q EXCEPT !.row = expires[q.token], !.stage = "found"]
<1>1. q \in RequestType /\ q.stage = "looking"
  BY DEF LoginInv, LoginTypeOK, RequestType, LookUp
<1>2. RequestOnly(c, r)
  BY DEF LookUp, RequestOnly
<1>3. q.token \in Tokens /\ expires[q.token] \in Nat
  BY <1>1 DEF LoginInv, AskedHasToken, Asking, LoginTypeOK
<1>4. /\ r \in RequestType /\ r.token = q.token /\ r.row = expires[q.token]
      /\ r.live = q.live /\ r.stage = "found"
  BY <1>1, <1>3 DEF RequestType, Stages
<1>5. Asking(r)
  BY <1>3, <1>4 DEF Asking
<1>6. ASSUME protected, ~q.live  PROVE DeadRequest(r)
  <2>1. DeadRequest(q)
    BY <1>1, <1>6 DEF LoginInv, DeadStaysDead
  <2>2. expires[q.token] <= now
    BY <1>1, <1>3, <2>1 DEF DeadRequest, LoginInv, RowsAreIssued, LoginTypeOK, NoRow
  <2>. QED  BY <1>4, <2>1, <2>2 DEF DeadRequest
<1>. QED  BY <1>2, <1>4, <1>5, <1>6, RequestKeepsInv

LEMMA DecideKeepsInv ==
    ASSUME LoginInv, NEW c \in Clients, Decide(c)
    PROVE  LoginInv'
<1> DEFINE q == request[c]
           r == IF q.row > now THEN [q EXCEPT !.stage = "passed"] ELSE NoRequest
<1>1. q \in RequestType /\ q.stage = "found"
  BY DEF LoginInv, LoginTypeOK, RequestType, Decide
<1>2. RequestOnly(c, r)
  BY DEF Decide, RequestOnly
<1>3. CASE q.row > now
  <2>1. r \in RequestType /\ r.live = q.live /\ r.stage = "passed"
    BY <1>1, <1>3 DEF RequestType, Stages
  <2>2. Asking(r)
    BY <2>1 DEF Asking
  <2>3. ASSUME protected  PROVE q.live
    BY <1>1, <1>3, <2>3 DEF LoginInv, LoginTypeOK, DeadStaysDead, DeadRequest, RequestType
  <2>. QED  BY <1>2, <2>1, <2>2, <2>3, RequestKeepsInv
<1>4. CASE ~(q.row > now)
  <2>1. r = NoRequest
    BY <1>4
  <2>. QED  BY <1>2, <2>1, NoRequestType, RequestKeepsInv DEF NoRequest, Asking
<1>. QED  BY <1>3, <1>4

LEMMA AnswerKeepsInv ==
    ASSUME LoginInv, NEW c \in Clients, Answer(c)
    PROVE  LoginInv'
<1>1. RequestOnly(c, NoRequest)
  BY DEF Answer, RequestOnly
<1>. QED  BY <1>1, NoRequestType, RequestKeepsInv DEF NoRequest, Asking

(* A logout: the token's row goes, its client forgets it, its request ends.    *)
LEMMA LogoutKeepsInv ==
    ASSUME LoginInv, NEW c \in Clients, ApiLogout(c) \/ PageLogout(c)
    PROVE  LoginInv'
<1>1. /\ request' = [request EXCEPT ![c] = NoRequest]
      /\ now' = now /\ protected' = protected /\ until' = until
  BY DEF ApiLogout, PageLogout
<1>2. \/ expires' = expires /\ ended' = ended
      \/ \E t \in HeldBy(c) : expires' = [expires EXCEPT ![t] = NoRow] /\ ended' = ended \union {t}
  BY DEF ApiLogout, PageLogout, Revoke, HeldBy
<1>3. /\ cookie' = cookie \/ cookie' = [cookie EXCEPT ![c] = NoToken]
      /\ bearer' = bearer \/ bearer' = [bearer EXCEPT ![c] = NoToken]
  BY DEF ApiLogout, PageLogout
<1>4. \A d \in Clients : HeldBy(d) \subseteq Tokens
  BY DEF LoginInv, LoginTypeOK, HeldBy
<1>5. ended \subseteq ended' /\ ended' \subseteq Tokens
  BY <1>2, <1>4 DEF LoginInv, LoginTypeOK
<1>6. request \in [Clients -> RequestType] /\ request' \in [Clients -> RequestType]
  BY <1>1, NoRequestType DEF LoginInv, LoginTypeOK, RequestType
<1>7. LoginTypeOK'
  BY <1>1, <1>2, <1>3, <1>4, <1>5, <1>6 DEF LoginInv, LoginTypeOK, RequestType, NoRow
<1>8. LoginLasts' /\ RowsAreIssued'
  BY <1>1, <1>2, <1>4 DEF LoginInv, LoginTypeOK, LoginLasts, RowsAreIssued, HeldOnce
<1>9. \A d \in Clients : request'[d] = request[d] \/ request'[d] = NoRequest
  BY <1>1, <1>6
<1>10. DeadStaysDead' /\ AskedHasToken'
  BY <1>1, <1>5, <1>9 DEF LoginInv, DeadStaysDead, DeadRequest, AskedHasToken, Asking, NoRequest
<1>11. \A d \in Clients : HeldBy(d)' \subseteq HeldBy(d)
  BY <1>3 DEF HeldBy, LoginInv, LoginTypeOK
<1>12. \A d \in Clients : cookie'[d] = bearer'[d] => cookie'[d] = NoToken
  BY <1>3 DEF LoginInv, LoginTypeOK, HeldOnce
<1>13. HeldOnce'
  BY <1>1, <1>11, <1>12 DEF LoginInv, HeldOnce
<1>. QED  BY <1>7, <1>8, <1>10, <1>13 DEF LoginInv

LEMMA CookieKeepsInv ==
    ASSUME LoginInv, NEW c \in Clients, CookieExpires(c)
    PROVE  LoginInv'
<1>1. /\ cookie' = [cookie EXCEPT ![c] = NoToken]
      /\ UNCHANGED <<now, protected, expires, bearer, request, until, ended>>
  BY DEF CookieExpires
<1>2. LoginTypeOK' /\ LoginLasts' /\ RowsAreIssued' /\ DeadStaysDead' /\ AskedHasToken'
  BY <1>1 DEF LoginInv, LoginTypeOK, LoginLasts, RowsAreIssued, DeadStaysDead, DeadRequest,
     AskedHasToken, Asking
<1>3. \A d \in Clients : HeldBy(d)' \subseteq HeldBy(d)
  BY <1>1 DEF HeldBy, LoginInv, LoginTypeOK
<1>4. \A d \in Clients : cookie'[d] = bearer'[d] => cookie'[d] = NoToken
  BY <1>1 DEF LoginInv, LoginTypeOK, HeldOnce
<1>5. HeldOnce'
  BY <1>1, <1>3, <1>4 DEF LoginInv, HeldOnce
<1>. QED  BY <1>2, <1>5 DEF LoginInv

LEMMA TickKeepsInv == LoginInv /\ Tick => LoginInv'
<1> SUFFICES ASSUME LoginInv, Tick  PROVE LoginInv'
  OBVIOUS
<1>1. /\ now \in Nat /\ now' = now + 1
      /\ UNCHANGED <<protected, expires, cookie, bearer, request, until, ended>>
  BY DEF Tick, LoginInv, LoginTypeOK
<1>2. LoginTypeOK'
  BY <1>1 DEF LoginInv, LoginTypeOK
<1>3. RowsAreIssued' /\ AskedHasToken' /\ HeldOnce'
  BY <1>1 DEF LoginInv, RowsAreIssued, AskedHasToken, Asking, HeldOnce, HeldBy
<1>4. LoginLasts'
  BY <1>1 DEF LoginInv, LoginTypeOK, LoginLasts
<1>5. DeadStaysDead'
  BY <1>1 DEF LoginInv, LoginTypeOK, DeadStaysDead, DeadRequest
<1>. QED  BY <1>2, <1>3, <1>4, <1>5 DEF LoginInv

(* A restart or a dropped table: no request is left.                         *)
LEMMA RestartKeepsInv == LoginInv /\ (Restart \/ TableDropped) => LoginInv'
<1> SUFFICES ASSUME LoginInv, Restart \/ TableDropped  PROVE LoginInv'
  OBVIOUS
<1>1. /\ request' = [c \in Clients |-> NoRequest]
      /\ protected' \in BOOLEAN
      /\ UNCHANGED <<now, cookie, bearer, until>>
      /\ \/ expires' = expires /\ ended' = ended
         \/ expires' = [t \in Tokens |-> NoRow] /\ ended' = {t \in Tokens : until[t] # NoRow}
  BY DEF Restart, TableDropped, LoginInv, LoginTypeOK
<1>2. LoginTypeOK'
  BY <1>1, NoRequestType DEF LoginInv, LoginTypeOK, RequestType, NoRow
<1>3. DeadStaysDead' /\ AskedHasToken'
  BY <1>1 DEF DeadStaysDead, AskedHasToken, Asking, NoRequest
<1>4. LoginLasts' /\ RowsAreIssued' /\ HeldOnce'
  BY <1>1 DEF LoginInv, LoginTypeOK, LoginLasts, RowsAreIssued, HeldOnce, HeldBy, NoRow
<1>. QED  BY <1>2, <1>3, <1>4 DEF LoginInv

LEMMA LoginNextInv == LoginInv /\ [LoginNext]_loginVars => LoginInv'
<1> SUFFICES ASSUME LoginInv, [LoginNext]_loginVars  PROVE LoginInv'
  OBVIOUS
<1>1. ASSUME NEW c \in Clients, ClientStep(c)  PROVE LoginInv'
  BY <1>1, LoginKeepsInv, ArriveKeepsInv, LookUpKeepsInv, DecideKeepsInv, AnswerKeepsInv,
     LogoutKeepsInv, CookieKeepsInv DEF ClientStep
<1>2. CASE UNCHANGED loginVars
  BY <1>2 DEF loginVars, LoginInv, LoginTypeOK, LoginLasts, RowsAreIssued, DeadStaysDead, DeadRequest,
     AskedHasToken, Asking, HeldOnce, HeldBy
<1>. QED  BY <1>1, <1>2, TickKeepsInv, RestartKeepsInv DEF LoginNext

-----------------------------------------------------------------------------
(* An installation implements LoginSessions: the migrations' steps leave the   *)
(* logins alone, restart the server or drop the session table.               *)
LEMMA ServerStepIsLoginStep == [ServerNext]_serverVars => [LoginNext]_loginVars
<1> SUFFICES ASSUME [ServerNext]_serverVars  PROVE [LoginNext]_loginVars
  OBVIOUS
<1>1. CASE MigrationPart
  BY <1>1 DEF MigrationPart, SessionRows, Serve, LoginNext
<1>2. CASE LoginPart
  BY <1>2 DEF LoginPart, LoginNext
<1>3. CASE UNCHANGED serverVars
  BY <1>3 DEF serverVars
<1>. QED  BY <1>1, <1>2, <1>3 DEF ServerNext

(* ServerSpec implements LoginSpec: what LoginSessions promises about logins    *)
(* (auth_sessions.py, middleware.py) holds through migrations and restarts.    *)
THEOREM ServerImplementsLogin == ServerSpec => LoginSpec
<1>1. InitServer => InitLogin
  BY DEF InitServer
<1>. QED  BY <1>1, ServerStepIsLoginStep, PTL DEF ServerSpec, LoginSpec

LEMMA ServerInvariant == ServerSpec => []LoginInv
<1>1. LoginSpec => []LoginInv
  BY InitLoginInv, LoginNextInv, PTL DEF LoginSpec
<1>. QED  BY <1>1, ServerImplementsLogin, PTL

(* The login state keeps its type (auth_sessions.py, middleware.py).           *)
THEOREM LoginTypeCorrect == ServerSpec => []LoginTypeOK
<1>1. LoginInv => LoginTypeOK
  BY DEF LoginInv
<1>. QED  BY <1>1, ServerInvariant, PTL

(* A login lasts its TTL through restarts, purges and other clients' logouts    *)
(* (AuthSessionStore.open_session, revoke_token).                            *)
THEOREM LoginsLast == ServerSpec => []LoginLasts
<1>1. LoginInv => LoginLasts
  BY DEF LoginInv
<1>. QED  BY <1>1, ServerInvariant, PTL

(* Only a request whose token was live when it came in passes the middleware   *)
(* (LoginProtectionMiddleware.dispatch).                                     *)
THEOREM OnlyLivePass == ServerSpec => []PassedWasLive
<1>1. LoginInv => PassedWasLive
  BY DEF LoginInv, DeadStaysDead, PassedWasLive, LoginTypeOK
<1>. QED  BY <1>1, ServerInvariant, PTL

(* A logout ends nobody else's session (the two /logout handlers).            *)
THEOREM LogoutsAreOwn == ServerSpec => LogoutIsOwn
<1> DEFINE Own == \A c \in Clients : \A t \in HeldBy(c) :
                     (t \in ended' \ ended /\ t \in HeldBy(c)') => expires' = [u \in Tokens |-> NoRow]
<1>1. ASSUME LoginInv, NEW d \in Clients, ApiLogout(d) \/ PageLogout(d)  PROVE Own
  <2>1. \/ ended' = ended
        \/ ended' = ended \union {bearer[d]} /\ bearer' = [bearer EXCEPT ![d] = NoToken]
           /\ cookie' = cookie /\ bearer[d] # NoToken
        \/ ended' = ended \union {cookie[d]} /\ cookie' = [cookie EXCEPT ![d] = NoToken]
           /\ bearer' = bearer /\ cookie[d] # NoToken
    BY <1>1 DEF ApiLogout, PageLogout, Revoke
  <2>2. ASSUME NEW t \in ended' \ ended  PROVE t \in HeldBy(d) /\ t \notin HeldBy(d)'
    BY <1>1, <2>1, <2>2 DEF LoginInv, LoginTypeOK, HeldOnce, HeldBy
  <2>3. \A c \in Clients : c # d => HeldBy(c) \intersect HeldBy(d) = {}
    BY <1>1 DEF LoginInv, HeldOnce
  <2>. QED  BY <2>2, <2>3
<1>2. ASSUME LoginInv, [LoginNext]_loginVars  PROVE [Own]_loginVars
  <2>1. CASE ended' = ended
    BY <2>1
  <2>2. CASE TableDropped
    BY <2>2 DEF TableDropped
  <2>3. CASE \E d \in Clients : ApiLogout(d) \/ PageLogout(d)
    BY <1>2, <1>1, <2>3
  <2>4. \/ ended' = ended \/ TableDropped \/ \E d \in Clients : ApiLogout(d) \/ PageLogout(d)
    BY <1>2 DEF LoginNext, ClientStep, loginVars, PageLogin, ApiLogin, Arrive, LookUp, Decide, Answer,
       CookieExpires, Tick, Restart
  <2>. QED  BY <2>1, <2>2, <2>3, <2>4
<1>3. LoginSpec /\ []LoginInv => [][Own]_loginVars
  BY <1>2, PTL DEF LoginSpec
<1>. QED  BY <1>3, ServerImplementsLogin, ServerInvariant, PTL DEF LogoutIsOwn

-----------------------------------------------------------------------------
(* The revisions as data.                                                   *)

\* What each revision adds ...
Added ==
    <<{<<"listener_event">>, <<"album_event">>, <<"track_event">>},
      {<<"import_job">>, <<"import_lock">>},
      {<<"import_job", "output">>},
      {<<"import_job", "quiet">>},
      {<<"import_job", "logpath">>, <<"import_job", "group_albums">>, <<"import_job", "flat">>,
       <<"import_job", "set_fields_json">>},
      {<<"auth_session">>},
      {<<"import_source_path">>, <<"import_destination_path">>},
      {<<"listener_event", "ix_pushed_at_event_id">>,
       <<"album_event", "ix_listener_event_id">>, <<"album_event", "ix_beets_album_id">>,
       <<"track_event", "ix_listener_event_id">>, <<"track_event", "ix_beets_item_id">>,
       <<"import_source_path", "ix_listener_event_id">>,
       <<"import_destination_path", "ix_listener_event_id">>},
      {<<"album_event", "album_name">>, <<"track_event", "track_title">>, <<"track_event", "album_name">>},
      {<<"import_job", "query_json">>, <<"import_job", "singletons">>, <<"import_job", "move_files">>,
       <<"import_job", "write_tags">>, <<"import_job", "reimport_report_json">>},
      {<<"inferred_source_path">>},
      {<<"import_job", "clean_slate_album_id">>, <<"import_job", "clean_slate_item_id">>,
       <<"import_job", "clean_slate_allow_fewer_files">>}>>

Scratches == {<<"_alembic_tmp_import_job">>, <<"_alembic_tmp_track_event">>}

\* ... and the revision that an element's name tells, 0 for a scratch table.
TableLevel ==
    [_alembic_tmp_import_job |-> 0, _alembic_tmp_track_event |-> 0,
     listener_event |-> 1, album_event |-> 1, track_event |-> 1,
     import_job |-> 2, import_lock |-> 2, auth_session |-> 6,
     import_source_path |-> 7, import_destination_path |-> 7, inferred_source_path |-> 11]
NameLevel ==
    [output |-> 3, quiet |-> 4, logpath |-> 5, group_albums |-> 5, flat |-> 5, set_fields_json |-> 5,
     ix_pushed_at_event_id |-> 8, ix_listener_event_id |-> 8, ix_beets_album_id |-> 8,
     ix_beets_item_id |-> 8, album_name |-> 9, track_title |-> 9,
     query_json |-> 10, singletons |-> 10, move_files |-> 10, write_tags |-> 10,
     reimport_report_json |-> 10, clean_slate_album_id |-> 12, clean_slate_item_id |-> 12,
     clean_slate_allow_fewer_files |-> 12]
Level(e) == IF Len(e) = 1 THEN TableLevel[e[1]] ELSE NameLevel[e[2]]

Leveled(q) == \A e \in Added[q] : Level(e) = q /\ Level(<<e[1]>>) \in (1..q) \ {10}

\* What the name of an element tells is the revision that adds it, and its
\* table is no younger.
LEMMA TableLevels == \A t : Level(<<t>>) = TableLevel[t]
BY DEF Level
LEMMA NameLevels == \A t, n : Level(<<t, n>>) = NameLevel[n]
BY DEF Level

LEMMA ElementsAre == \A q \in 1..12 : Leveled(q)
<1>1. Leveled(1)
  BY TableLevels, NameLevels DEF Leveled, Added, TableLevel, NameLevel
<1>2. Leveled(2)
  BY TableLevels, NameLevels DEF Leveled, Added, TableLevel, NameLevel
<1>3. Leveled(3)
  BY TableLevels, NameLevels DEF Leveled, Added, TableLevel, NameLevel
<1>4. Leveled(4)
  BY TableLevels, NameLevels DEF Leveled, Added, TableLevel, NameLevel
<1>5. Leveled(5)
  BY TableLevels, NameLevels DEF Leveled, Added, TableLevel, NameLevel
<1>6. Leveled(6)
  BY TableLevels, NameLevels DEF Leveled, Added, TableLevel, NameLevel
<1>7. Leveled(7)
  BY TableLevels, NameLevels DEF Leveled, Added, TableLevel, NameLevel
<1>8. Leveled(8)
  BY TableLevels, NameLevels DEF Leveled, Added, TableLevel, NameLevel
<1>9. Leveled(9)
  BY TableLevels, NameLevels DEF Leveled, Added, TableLevel, NameLevel
<1>10. Leveled(10)
  BY TableLevels, NameLevels DEF Leveled, Added, TableLevel, NameLevel
<1>11. Leveled(11)
  BY TableLevels, NameLevels DEF Leveled, Added, TableLevel, NameLevel
<1>12. Leveled(12)
  BY TableLevels, NameLevels DEF Leveled, Added, TableLevel, NameLevel
<1> QED BY <1>1, <1>2, <1>3, <1>4, <1>5, <1>6, <1>7, <1>8, <1>9, <1>10, <1>11, <1>12

\* The revisions one by one: what their statements add and drop.
LEMMA RevisionsAre ==
    /\ Latest = 12
    /\ Revisions[1] = InitialEventTables /\ Revisions[2] = ImportJobPersistenceTables
    /\ Revisions[3] = ImportJobOutputColumn /\ Revisions[4] = ImportJobQuietColumn
    /\ Revisions[5] = ImportJobSettingsColumns /\ Revisions[6] = AuthSessionTable
    /\ Revisions[7] = ImportPathTables /\ Revisions[8] = EventTableIndexes
    /\ Revisions[9] = EventSubjectNameColumns /\ Revisions[10] = ImportJobReimportColumns
    /\ Revisions[11] = InferredSourcePathTable /\ Revisions[12] = ImportJobCleanSlate
BY DEF Revisions, Latest


DdlOf(m) == /\ Len(m.ddl) \in Nat /\ DOMAIN m.ddl = 1..Len(m.ddl)

\* An upgrade adds what is listed for it.
UpIs(q) ==
    LET m == Revisions[q].up
    IN  /\ DdlOf(m) /\ m.commit = Nothing
        /\ \A i \in DOMAIN m.ddl : /\ m.ddl[i].adds \subseteq Added[q]
                                  /\ m.ddl[i].drops \subseteq (IF q = 12 THEN Added[10] ELSE {})

UpCovers(q) ==
    LET m == Revisions[q].up
    IN  /\ \A e \in Added[q] : \E i \in DOMAIN m.ddl : e \in m.ddl[i].adds
        /\ q = 12 => \A e \in Added[10] : \E i \in DOMAIN m.ddl : e \in m.ddl[i].drops

LEMMA EarlierUpsAre == \A q \in 1..11 : UpIs(q) /\ UpCovers(q)
<1>1. UpIs(1) /\ UpCovers(1)
  <2> DEFINE m == Revisions[1].up
  <2>1. DdlOf(m) /\ Len(m.ddl) = 3 /\ m.commit = Nothing
    BY RevisionsAre DEF DdlOf, InitialEventTables, Plain
  <2>2. \A i \in 1..3 : m.ddl[i].drops = {} /\ m.ddl[i].adds \subseteq Added[1]
    BY RevisionsAre DEF InitialEventTables, Plain, Add, Statement, Added
  <2>3. \A e \in Added[1] : e \in m.ddl[1].adds \/ e \in m.ddl[2].adds \/ e \in m.ddl[3].adds
    BY RevisionsAre DEF InitialEventTables, Plain, Add, Statement, Added
  <2> HIDE DEF m
  <2> QED BY <2>1, <2>2, <2>3 DEF UpIs, UpCovers, DdlOf, m
<1>2. UpIs(2) /\ UpCovers(2)
  <2> DEFINE m == Revisions[2].up
  <2>1. DdlOf(m) /\ Len(m.ddl) = 2 /\ m.commit = Nothing
    BY RevisionsAre DEF DdlOf, ImportJobPersistenceTables, Plain
  <2>2. \A i \in 1..2 : m.ddl[i].drops = {} /\ m.ddl[i].adds \subseteq Added[2]
    BY RevisionsAre DEF ImportJobPersistenceTables, Plain, Add, Statement, Added
  <2>3. \A e \in Added[2] : e \in m.ddl[1].adds \/ e \in m.ddl[2].adds
    BY RevisionsAre DEF ImportJobPersistenceTables, Plain, Add, Statement, Added
  <2> HIDE DEF m
  <2> QED BY <2>1, <2>2, <2>3 DEF UpIs, UpCovers, DdlOf, m
<1>3. UpIs(3) /\ UpCovers(3)
  <2> DEFINE m == Revisions[3].up
  <2>1. DdlOf(m) /\ Len(m.ddl) = 1 /\ m.commit = Nothing
    BY RevisionsAre DEF DdlOf, ImportJobOutputColumn, Plain
  <2>2. \A i \in 1..1 : m.ddl[i].drops = {} /\ m.ddl[i].adds \subseteq Added[3]
    BY RevisionsAre DEF ImportJobOutputColumn, Plain, Add, Statement, Added
  <2>3. \A e \in Added[3] : e \in m.ddl[1].adds
    BY RevisionsAre DEF ImportJobOutputColumn, Plain, Add, Statement, Added
  <2> HIDE DEF m
  <2> QED BY <2>1, <2>2, <2>3 DEF UpIs, UpCovers, DdlOf, m
<1>4. UpIs(4) /\ UpCovers(4)
  <2> DEFINE m == Revisions[4].up
  <2>1. DdlOf(m) /\ Len(m.ddl) = 1 /\ m.commit = Nothing
    BY RevisionsAre DEF DdlOf, ImportJobQuietColumn, Plain
  <2>2. \A i \in 1..1 : m.ddl[i].drops = {} /\ m.ddl[i].adds \subseteq Added[4]
    BY RevisionsAre DEF ImportJobQuietColumn, Plain, Add, Statement, Added
  <2>3. \A e \in Added[4] : e \in m.ddl[1].adds
    BY RevisionsAre DEF ImportJobQuietColumn, Plain, Add, Statement, Added
  <2> HIDE DEF m
  <2> QED BY <2>1, <2>2, <2>3 DEF UpIs, UpCovers, DdlOf, m
<1>5. UpIs(5) /\ UpCovers(5)
  <2> DEFINE m == Revisions[5].up
  <2>1. DdlOf(m) /\ Len(m.ddl) = 4 /\ m.commit = Nothing
    BY RevisionsAre DEF DdlOf, ImportJobSettingsColumns, Plain, AddAll, SettingsColumns
  <2>2. \A i \in 1..4 : m.ddl[i].drops = {} /\ m.ddl[i].adds \subseteq Added[5]
    BY RevisionsAre DEF ImportJobSettingsColumns, Plain, AddAll, SettingsColumns, Add, Statement, Added
  <2>3. \A e \in Added[5] : e \in m.ddl[1].adds \/ e \in m.ddl[2].adds \/ e \in m.ddl[3].adds \/ e \in m.ddl[4].adds
    BY RevisionsAre DEF ImportJobSettingsColumns, Plain, AddAll, SettingsColumns, Add, Statement, Added
  <2> HIDE DEF m
  <2> QED BY <2>1, <2>2, <2>3 DEF UpIs, UpCovers, DdlOf, m
<1>6. UpIs(6) /\ UpCovers(6)
  <2> DEFINE m == Revisions[6].up
  <2>1. DdlOf(m) /\ Len(m.ddl) = 1 /\ m.commit = Nothing
    BY RevisionsAre DEF DdlOf, AuthSessionTable, Plain
  <2>2. \A i \in 1..1 : m.ddl[i].drops = {} /\ m.ddl[i].adds \subseteq Added[6]
    BY RevisionsAre DEF AuthSessionTable, Plain, Add, Statement, Added
  <2>3. \A e \in Added[6] : e \in m.ddl[1].adds
    BY RevisionsAre DEF AuthSessionTable, Plain, Add, Statement, Added
  <2> HIDE DEF m
  <2> QED BY <2>1, <2>2, <2>3 DEF UpIs, UpCovers, DdlOf, m
<1>7. UpIs(7) /\ UpCovers(7)
  <2> DEFINE m == Revisions[7].up
  <2>1. DdlOf(m) /\ Len(m.ddl) = 2 /\ m.commit = Nothing
    BY RevisionsAre DEF DdlOf, ImportPathTables, Plain
  <2>2. \A i \in 1..2 : m.ddl[i].drops = {} /\ m.ddl[i].adds \subseteq Added[7]
    BY RevisionsAre DEF ImportPathTables, Plain, Add, Statement, Added
  <2>3. \A e \in Added[7] : e \in m.ddl[1].adds \/ e \in m.ddl[2].adds
    BY RevisionsAre DEF ImportPathTables, Plain, Add, Statement, Added
  <2> HIDE DEF m
  <2> QED BY <2>1, <2>2, <2>3 DEF UpIs, UpCovers, DdlOf, m
<1>8. UpIs(8) /\ UpCovers(8)
  <2> DEFINE m == Revisions[8].up
  <2>1. DdlOf(m) /\ Len(m.ddl) = 7 /\ m.commit = Nothing
    BY RevisionsAre DEF DdlOf, EventTableIndexes, Plain, EventIndexes
  <2>2. \A i \in 1..7 : m.ddl[i].drops = {} /\ m.ddl[i].adds \subseteq Added[8]
    BY RevisionsAre DEF EventTableIndexes, Plain, EventIndexes, Add, Statement, Added
  <2>3. \A e \in Added[8] : e \in m.ddl[1].adds \/ e \in m.ddl[2].adds \/ e \in m.ddl[3].adds \/ e \in m.ddl[4].adds \/ e \in m.ddl[5].adds \/ e \in m.ddl[6].adds \/ e \in m.ddl[7].adds
    BY RevisionsAre DEF EventTableIndexes, Plain, EventIndexes, Add, Statement, Added
  <2> HIDE DEF m
  <2> QED BY <2>1, <2>2, <2>3 DEF UpIs, UpCovers, DdlOf, m
<1>9. UpIs(9) /\ UpCovers(9)
  <2> DEFINE m == Revisions[9].up
  <2>1. DdlOf(m) /\ Len(m.ddl) = 3 /\ m.commit = Nothing
    BY RevisionsAre DEF DdlOf, EventSubjectNameColumns, Plain
  <2>2. \A i \in 1..3 : m.ddl[i].drops = {} /\ m.ddl[i].adds \subseteq Added[9]
    BY RevisionsAre DEF EventSubjectNameColumns, Plain, Add, Statement, Added
  <2>3. \A e \in Added[9] : e \in m.ddl[1].adds \/ e \in m.ddl[2].adds \/ e \in m.ddl[3].adds
    BY RevisionsAre DEF EventSubjectNameColumns, Plain, Add, Statement, Added
  <2> HIDE DEF m
  <2> QED BY <2>1, <2>2, <2>3 DEF UpIs, UpCovers, DdlOf, m
<1>10. UpIs(10) /\ UpCovers(10)
  <2> DEFINE m == Revisions[10].up
  <2>1. DdlOf(m) /\ Len(m.ddl) = 5 /\ m.commit = Nothing
    BY RevisionsAre DEF DdlOf, ImportJobReimportColumns, Plain, AddAll, ReimportColumnNames
  <2>2. \A i \in 1..5 : m.ddl[i].drops = {} /\ m.ddl[i].adds \subseteq Added[10]
    BY RevisionsAre DEF ImportJobReimportColumns, Plain, AddAll, ReimportColumnNames, Add, Statement, Added
  <2>3. \A e \in Added[10] : e \in m.ddl[1].adds \/ e \in m.ddl[2].adds \/ e \in m.ddl[3].adds \/ e \in m.ddl[4].adds \/ e \in m.ddl[5].adds
    BY RevisionsAre DEF ImportJobReimportColumns, Plain, AddAll, ReimportColumnNames, Add, Statement, Added
  <2> HIDE DEF m
  <2> QED BY <2>1, <2>2, <2>3 DEF UpIs, UpCovers, DdlOf, m
<1>11. UpIs(11) /\ UpCovers(11)
  <2> DEFINE m == Revisions[11].up
  <2>1. DdlOf(m) /\ Len(m.ddl) = 1 /\ m.commit = Nothing
    BY RevisionsAre DEF DdlOf, InferredSourcePathTable, Plain
  <2>2. \A i \in 1..1 : m.ddl[i].drops = {} /\ m.ddl[i].adds \subseteq Added[11]
    BY RevisionsAre DEF InferredSourcePathTable, Plain, Add, Statement, Added
  <2>3. \A e \in Added[11] : e \in m.ddl[1].adds
    BY RevisionsAre DEF InferredSourcePathTable, Plain, Add, Statement, Added
  <2> HIDE DEF m
  <2> QED BY <2>1, <2>2, <2>3 DEF UpIs, UpCovers, DdlOf, m
<1> QED BY <1>1, <1>2, <1>3, <1>4, <1>5, <1>6, <1>7, <1>8, <1>9, <1>10, <1>11


\* The last revision drops besides adding; its statements are two sequences.
LEMMA TwoParts ==
    ASSUME NEW S, NEW a \in Seq(S), NEW b \in Seq(S)
    PROVE  /\ Len(a \o b) = Len(a) + Len(b) /\ DOMAIN (a \o b) = 1..(Len(a) + Len(b))
           /\ \A i \in 1..(Len(a) + Len(b)) :
                 (a \o b)[i] = IF i <= Len(a) THEN a[i] ELSE b[i - Len(a)]
<1>1. /\ a \o b \in Seq(S) /\ Len(a \o b) = Len(a) + Len(b)
      /\ \A i \in 1..(Len(a) + Len(b)) : (a \o b)[i] = IF i <= Len(a) THEN a[i] ELSE b[i - Len(a)]
  BY ConcatProperties
<1> QED BY <1>1

LEMMA LastUpStatements ==
    LET m == Revisions[12].up
    IN  /\ Len(m.ddl) = 8 /\ DOMAIN m.ddl = 1..8 /\ m.commit = Nothing
        /\ \A i \in 1..3 : m.ddl[i] = Add(<<"import_job", CleanSlateColumns[i]>>)
        /\ \A i \in 4..8 : m.ddl[i] = Drop(<<"import_job", ReimportColumnNames[9 - i]>>)
<1> DEFINE m == Revisions[12].up
           a == AddAll("import_job", CleanSlateColumns)
           d == DropAll("import_job", [i \in 1..5 |-> ReimportColumnNames[6 - i]])
           S == {a[i] : i \in 1..3} \union {d[i] : i \in 1..5}
<1>1. m.ddl = a \o d /\ m.commit = Nothing
  BY RevisionsAre DEF ImportJobCleanSlate, Plain
<1>2. DOMAIN a = 1..3 /\ a = [i \in 1..3 |-> Add(<<"import_job", CleanSlateColumns[i]>>)]
  BY DEF AddAll, CleanSlateColumns
<1>3. d = [i \in 1..5 |-> Drop(<<"import_job", ReimportColumnNames[6 - i]>>)]
  BY DEF DropAll
<1>4. /\ a \in Seq(S) /\ Len(a) = 3
      /\ d \in Seq(S) /\ Len(d) = 5
  <2> HIDE DEF a, d
  <2> QED BY <1>2, <1>3
<1> HIDE DEF m, a, d, S
<1>5. /\ Len(m.ddl) = 8 /\ DOMAIN m.ddl = 1..8
      /\ \A i \in 1..8 : m.ddl[i] = IF i <= 3 THEN a[i] ELSE d[i - 3]
  <2>1. /\ Len(a \o d) = Len(a) + Len(d) /\ DOMAIN (a \o d) = 1..(Len(a) + Len(d))
        /\ \A i \in 1..(Len(a) + Len(d)) :
              (a \o d)[i] = IF i <= Len(a) THEN a[i] ELSE d[i - Len(a)]
    BY <1>4, TwoParts
  <2> QED BY <1>1, <1>4, <2>1
<1>6. \A i \in 1..3 : m.ddl[i] = Add(<<"import_job", CleanSlateColumns[i]>>)
  BY <1>2, <1>5
<1>7. \A i \in 4..8 : m.ddl[i] = Drop(<<"import_job", ReimportColumnNames[9 - i]>>)
  BY <1>3, <1>5
<1> QED BY <1>1, <1>5, <1>6, <1>7 DEF m

LEMMA LastUpIs == UpIs(12) /\ UpCovers(12)
<1> DEFINE m == Revisions[12].up
<1>1. /\ Len(m.ddl) = 8 /\ DOMAIN m.ddl = 1..8 /\ m.commit = Nothing
      /\ \A i \in 1..3 : m.ddl[i] = Add(<<"import_job", CleanSlateColumns[i]>>)
      /\ \A i \in 4..8 : m.ddl[i] = Drop(<<"import_job", ReimportColumnNames[9 - i]>>)
  BY LastUpStatements
<1> HIDE DEF m
<1>2. \A i \in 1..3 : m.ddl[i].drops = {} /\ m.ddl[i].adds \subseteq Added[12]
  BY <1>1 DEF Add, Statement, Added, CleanSlateColumns
<1>3. \A i \in 4..8 : m.ddl[i].adds = {} /\ m.ddl[i].drops \subseteq Added[10]
  BY <1>1 DEF Drop, Statement, Added, ReimportColumnNames
<1>4. \A e \in Added[12] : \/ e \in m.ddl[1].adds \/ e \in m.ddl[2].adds \/ e \in m.ddl[3].adds
  BY <1>1 DEF Add, Statement, Added, CleanSlateColumns
<1>5. \A e \in Added[10] : \/ e \in m.ddl[4].drops \/ e \in m.ddl[5].drops \/ e \in m.ddl[6].drops
                            \/ e \in m.ddl[7].drops \/ e \in m.ddl[8].drops
  BY <1>1 DEF Drop, Statement, Added, ReimportColumnNames
<1>6. \A i \in 1..8 : i \in 1..3 \/ i \in 4..8
  OBVIOUS
<1>7. UpIs(12)
  <2>1. DdlOf(m)
    BY <1>1 DEF DdlOf
  <2>2. ASSUME NEW i \in DOMAIN m.ddl
        PROVE  m.ddl[i].adds \subseteq Added[12] /\ m.ddl[i].drops \subseteq Added[10]
    BY <1>1, <1>2, <1>3, <1>6
  <2> QED BY <1>1, <2>1, <2>2 DEF UpIs, m
<1>8. UpCovers(12)
  <2>1. /\ \A e \in Added[12] : \E i \in DOMAIN m.ddl : e \in m.ddl[i].adds
        /\ \A e \in Added[10] : \E i \in DOMAIN m.ddl : e \in m.ddl[i].drops
    BY <1>1, <1>4, <1>5
  <2> QED BY <2>1 DEF UpCovers, m
<1> QED BY <1>7, <1>8

\* A downgrade drops what its revision added, and scratch tables of its own.
DownIs(q) ==
    LET m == Revisions[q].down
    IN  /\ DdlOf(m) /\ m.commit.adds = {}
        /\ m.commit.drops \subseteq Added[q] \union Scratches
        /\ \A i \in DOMAIN m.ddl :
              /\ m.ddl[i].adds \subseteq (m.commit.drops \intersect Scratches)
                                         \union (IF q = 12 THEN Added[10] ELSE {})
              /\ m.ddl[i].drops \subseteq Added[q]

LEMMA EarlierDownsAre == \A q \in 1..11 : DownIs(q)
<1>1. DownIs(1)
  <2> DEFINE m == Revisions[1].down
  <2>1. DdlOf(m) /\ Len(m.ddl) = 3 /\ m.commit = Nothing
    BY RevisionsAre DEF DdlOf, InitialEventTables, Plain
  <2>2. \A i \in 1..3 : m.ddl[i].adds = {} /\ m.ddl[i].drops \subseteq Added[1]
    BY RevisionsAre DEF InitialEventTables, Plain, Drop, Statement, Added
  <2>3. Nothing.adds = {} /\ Nothing.drops = {}
    BY DEF Nothing, Statement
  <2> HIDE DEF m
  <2> QED BY <2>1, <2>2, <2>3 DEF DownIs, DdlOf, m
<1>2. DownIs(2)
  <2> DEFINE m == Revisions[2].down
  <2>1. DdlOf(m) /\ Len(m.ddl) = 2 /\ m.commit = Nothing
    BY RevisionsAre DEF DdlOf, ImportJobPersistenceTables, Plain
  <2>2. \A i \in 1..2 : m.ddl[i].adds = {} /\ m.ddl[i].drops \subseteq Added[2]
    BY RevisionsAre DEF ImportJobPersistenceTables, Plain, Drop, Statement, Added
  <2>3. Nothing.adds = {} /\ Nothing.drops = {}
    BY DEF Nothing, Statement
  <2> HIDE DEF m
  <2> QED BY <2>1, <2>2, <2>3 DEF DownIs, DdlOf, m
<1>3. DownIs(3)
  BY RevisionsAre DEF DownIs, DdlOf, Added, ImportJobOutputColumn, Rebuild, AddScratch, Scratch, ScratchNames, Scratches, Statement
<1>4. DownIs(4)
  BY RevisionsAre DEF DownIs, DdlOf, Added, ImportJobQuietColumn, Rebuild, AddScratch, Scratch, ScratchNames, Scratches, Statement
<1>5. DownIs(5)
  BY RevisionsAre DEF DownIs, DdlOf, Added, ImportJobSettingsColumns, Rebuild, SettingsColumns, AddScratch, Scratch, ScratchNames, Scratches, Statement
<1>6. DownIs(6)
  <2> DEFINE m == Revisions[6].down
  <2>1. DdlOf(m) /\ Len(m.ddl) = 1 /\ m.commit = Nothing
    BY RevisionsAre DEF DdlOf, AuthSessionTable, Plain
  <2>2. \A i \in 1..1 : m.ddl[i].adds = {} /\ m.ddl[i].drops \subseteq Added[6]
    BY RevisionsAre DEF AuthSessionTable, Plain, Drop, Statement, Added
  <2>3. Nothing.adds = {} /\ Nothing.drops = {}
    BY DEF Nothing, Statement
  <2> HIDE DEF m
  <2> QED BY <2>1, <2>2, <2>3 DEF DownIs, DdlOf, m
<1>7. DownIs(7)
  <2> DEFINE m == Revisions[7].down
  <2>1. DdlOf(m) /\ Len(m.ddl) = 2 /\ m.commit = Nothing
    BY RevisionsAre DEF DdlOf, ImportPathTables, Plain
  <2>2. \A i \in 1..2 : m.ddl[i].adds = {} /\ m.ddl[i].drops \subseteq Added[7]
    BY RevisionsAre DEF ImportPathTables, Plain, Drop, Statement, Added
  <2>3. Nothing.adds = {} /\ Nothing.drops = {}
    BY DEF Nothing, Statement
  <2> HIDE DEF m
  <2> QED BY <2>1, <2>2, <2>3 DEF DownIs, DdlOf, m
<1>8. DownIs(8)
  <2> DEFINE m == Revisions[8].down
  <2>1. DdlOf(m) /\ Len(m.ddl) = 7 /\ m.commit = Nothing
    BY RevisionsAre DEF DdlOf, EventTableIndexes, Plain, EventIndexes
  <2>2. \A i \in 1..7 : m.ddl[i].adds = {} /\ m.ddl[i].drops \subseteq Added[8]
    BY RevisionsAre DEF EventTableIndexes, Plain, EventIndexes, Drop, Statement, Added
  <2>3. Nothing.adds = {} /\ Nothing.drops = {}
    BY DEF Nothing, Statement
  <2> HIDE DEF m
  <2> QED BY <2>1, <2>2, <2>3 DEF DownIs, DdlOf, m
<1>9. DownIs(9)
  BY RevisionsAre DEF DownIs, DdlOf, Added, EventSubjectNameColumns, Rebuild, AddScratch, Scratch, ScratchNames, Scratches, Statement
<1>10. DownIs(10)
  BY RevisionsAre DEF DownIs, DdlOf, Added, ImportJobReimportColumns, Rebuild, ReimportColumnNames, AddScratch, Scratch, ScratchNames, Scratches, Statement
<1>11. DownIs(11)
  <2> DEFINE m == Revisions[11].down
  <2>1. DdlOf(m) /\ Len(m.ddl) = 1 /\ m.commit = Nothing
    BY RevisionsAre DEF DdlOf, InferredSourcePathTable, Plain
  <2>2. \A i \in 1..1 : m.ddl[i].adds = {} /\ m.ddl[i].drops \subseteq Added[11]
    BY RevisionsAre DEF InferredSourcePathTable, Plain, Drop, Statement, Added
  <2>3. Nothing.adds = {} /\ Nothing.drops = {}
    BY DEF Nothing, Statement
  <2> HIDE DEF m
  <2> QED BY <2>1, <2>2, <2>3 DEF DownIs, DdlOf, m
<1> QED BY <1>1, <1>2, <1>3, <1>4, <1>5, <1>6, <1>7, <1>8, <1>9, <1>10, <1>11

LastLosing == {<<"import_job", CleanSlateColumns[i]>> : i \in 1..3}
LEMMA LastDownStatements ==
    LET m == Revisions[12].down
    IN  /\ Len(m.ddl) = 6 /\ DOMAIN m.ddl = 1..6
        /\ \A i \in 1..5 : m.ddl[i] = Add(<<"import_job", ReimportColumnNames[i]>>)
        /\ m.ddl[6] = AddScratch("import_job", LastLosing)
        /\ m.commit = Statement({}, LastLosing \union {Scratch("import_job")})
<1> DEFINE m == Revisions[12].down
           a == AddAll("import_job", ReimportColumnNames)
           gone == {<<"import_job", CleanSlateColumns[i]>> : i \in 1..3}
           s == AddScratch("import_job", gone)
           S == {a[i] : i \in 1..5} \union {s}
<1>1. /\ m.ddl = a \o <<s>>
      /\ m.commit = Statement({}, gone \union {Scratch("import_job")})
  <2> DEFINE rebuild == Rebuild("import_job", gone)
  <2>1. rebuild.ddl = <<s>> /\ rebuild.commit = Statement({}, gone \union {Scratch("import_job")})
    BY DEF Rebuild
  <2>2. m = [rebuild EXCEPT !.ddl = a \o @]
    BY RevisionsAre DEF ImportJobCleanSlate
  <2>3. rebuild = [ddl |-> rebuild.ddl, commit |-> rebuild.commit]
    BY DEF Rebuild
  <2> HIDE DEF rebuild, a, s, gone, m
  <2>4. m.ddl = a \o rebuild.ddl /\ m.commit = rebuild.commit
    BY <2>2, <2>3
  <2> QED BY <2>1, <2>4
<1>2. DOMAIN a = 1..5 /\ a = [i \in 1..5 |-> Add(<<"import_job", ReimportColumnNames[i]>>)]
  BY DEF AddAll, ReimportColumnNames
<1>3. a \in Seq(S) /\ Len(a) = 5 /\ <<s>> \in Seq(S) /\ Len(<<s>>) = 1
  <2> HIDE DEF a, s
  <2> QED BY <1>2
<1> HIDE DEF m, a, s, S, gone
<1>4. /\ Len(m.ddl) = 6 /\ DOMAIN m.ddl = 1..6
      /\ \A i \in 1..6 : m.ddl[i] = IF i <= 5 THEN a[i] ELSE <<s>>[i - 5]
  <2> DEFINE b == <<s>>
  <2>1. b \in Seq(S) /\ Len(b) = 1
    BY <1>3
  <2> HIDE DEF b
  <2>2. /\ Len(a \o b) = Len(a) + Len(b) /\ DOMAIN (a \o b) = 1..(Len(a) + Len(b))
        /\ \A i \in 1..(Len(a) + Len(b)) :
              (a \o b)[i] = IF i <= Len(a) THEN a[i] ELSE b[i - Len(a)]
    BY <1>3, <2>1, TwoParts
  <2>3. m.ddl = a \o b
    BY <1>1 DEF b
  <2>4. /\ Len(m.ddl) = 6 /\ DOMAIN m.ddl = 1..6
        /\ \A i \in 1..6 : m.ddl[i] = IF i <= 5 THEN a[i] ELSE b[i - 5]
    BY <1>3, <2>1, <2>2, <2>3
  <2> QED BY <2>4 DEF b
<1>5. \A i \in 1..5 : m.ddl[i] = Add(<<"import_job", ReimportColumnNames[i]>>)
  BY <1>2, <1>4
<1>6. m.ddl[6] = s
  BY <1>4
<1>7. gone = LastLosing
  BY DEF gone, LastLosing
<1> QED BY <1>1, <1>4, <1>5, <1>6, <1>7 DEF m, s

LEMMA LastDownIs == DownIs(12)
<1> DEFINE m == Revisions[12].down
<1>1. /\ Len(m.ddl) = 6 /\ DOMAIN m.ddl = 1..6
      /\ \A i \in 1..5 : m.ddl[i] = Add(<<"import_job", ReimportColumnNames[i]>>)
      /\ m.ddl[6] = AddScratch("import_job", LastLosing)
      /\ m.commit = Statement({}, LastLosing \union {Scratch("import_job")})
  BY LastDownStatements
<1> HIDE DEF m
<1>2. LastLosing \subseteq Added[12]
  BY DEF LastLosing, CleanSlateColumns, Added
<1>3. /\ m.ddl[6].adds = {Scratch("import_job")} /\ m.ddl[6].drops = {}
      /\ Scratch("import_job") \in Scratches
  BY <1>1 DEF AddScratch, Scratch, ScratchNames, Scratches
<1>4. m.commit.adds = {} /\ m.commit.drops = LastLosing \union {Scratch("import_job")}
  BY <1>1 DEF Statement
<1>5. \A i \in 1..5 : m.ddl[i].drops = {} /\ m.ddl[i].adds \subseteq Added[10]
  BY <1>1 DEF Add, Statement, Added, ReimportColumnNames
<1>6. \A i \in 1..6 : i \in 1..5 \/ i = 6
  OBVIOUS
<1>7. \A i \in 1..6 : /\ m.ddl[i].adds \subseteq (m.commit.drops \intersect Scratches) \union Added[10]
                    /\ m.ddl[i].drops \subseteq Added[12]
  BY <1>3, <1>4, <1>5, <1>6
<1>8. DdlOf(m) /\ m.commit.drops \subseteq Added[12] \union Scratches
  BY <1>1, <1>2, <1>3, <1>4 DEF DdlOf
<1> QED BY <1>1, <1>4, <1>7, <1>8 DEF DownIs, m

LEMMA UpsAre == \A q \in 1..12 : UpIs(q) /\ UpCovers(q)
BY EarlierUpsAre, LastUpIs

LEMMA DownsAre == \A q \in 1..12 : DownIs(q)
BY EarlierDownsAre, LastDownIs

LEMMA ScratchLevel == \A e \in Scratches : Level(e) = 0
BY TableLevels DEF Scratches, TableLevel

\* No upgrade drops anything but the columns of the tenth revision.
LEMMA UpKeeps ==
    ASSUME NEW q \in 1..12, NEW r \in 1..12, NEW i \in DOMAIN Revisions[q].up.ddl,
           NEW e \in Added[r], q # 12 \/ r # 10
    PROVE  ~Gone(Revisions[q].up.ddl[i], e)
<1>1. Revisions[q].up.ddl[i].drops \subseteq (IF q = 12 THEN Added[10] ELSE {})
  BY UpsAre DEF UpIs
<1>2. Level(e) = r /\ Level(<<e[1]>>) # 10
  BY ElementsAre DEF Leveled
<1>3. \A d \in Added[10] : Level(d) = 10
  <2>1. 10 \in 1..12
    OBVIOUS
  <2> QED BY <2>1, ElementsAre DEF Leveled
<1> QED BY <1>1, <1>2, <1>3 DEF Gone

\* No downgrade drops anything of the revisions before it.
LEMMA DownKeeps ==
    ASSUME NEW q \in 1..12, NEW r \in 1..12, r < q, NEW e \in Added[r]
    PROVE  /\ \A i \in DOMAIN Revisions[q].down.ddl : ~Gone(Revisions[q].down.ddl[i], e)
           /\ ~Gone(Revisions[q].down.commit, e)
<1>1. Level(e) = r /\ Level(<<e[1]>>) \in 1..r
  BY ElementsAre DEF Leveled
<1>2. \A d \in Added[q] \union Scratches : Level(d) \in {0, q}
  BY ElementsAre, ScratchLevel DEF Leveled
<1>3. /\ \A i \in DOMAIN Revisions[q].down.ddl : Revisions[q].down.ddl[i].drops \subseteq Added[q]
      /\ Revisions[q].down.commit.drops \subseteq Added[q] \union Scratches
  BY DownsAre DEF DownIs
<1> QED BY <1>1, <1>2, <1>3 DEF Gone

\* What the schema of a revision has, and has not.
LEMMA SchemasAre ==
    ASSUME NEW rev \in 0..12
    PROVE  /\ \A e \in SchemaAt[rev] : \E q \in 1..rev : e \in Added[q]
           /\ \A q \in 1..rev : q # 10 \/ rev # 12 => Added[q] \subseteq SchemaAt[rev]
           /\ rev = 12 => Added[10] \intersect SchemaAt[rev] = {}
<1> DEFINE done == UNION {{<<q, i>> : i \in DOMAIN Revisions[q].up.ddl} : q \in 1..rev}
           Up(p) == Revisions[p[1]].up.ddl[p[2]]
           After(p, r) == p[1] < r[1] \/ (p[1] = r[1] /\ p[2] < r[2])
           Left(p) == {e \in Up(p).adds : \A r \in done : After(p, r) => ~Gone(Up(r), e)}
<1>1. SchemaAt[rev] = UNION {Left(p) : p \in done}
  BY RevisionsAre DEF SchemaAt
<1>2. \A p \in done : /\ p = <<p[1], p[2]>> /\ p[1] \in 1..rev /\ p[1] \in 1..12
                     /\ p[2] \in DOMAIN Revisions[p[1]].up.ddl
  OBVIOUS
<1>3. \A q \in 1..rev : \A i \in DOMAIN Revisions[q].up.ddl :
          <<q, i>> \in done /\ Up(<<q, i>>) = Revisions[q].up.ddl[i]
  OBVIOUS
<1> HIDE DEF done
<1>4. \A p \in done : Up(p).adds \subseteq Added[p[1]]
  BY <1>2, UpsAre DEF UpIs
<1>5. ASSUME NEW e \in SchemaAt[rev] PROVE \E q \in 1..rev : e \in Added[q]
  BY <1>1, <1>2, <1>4
<1>6. ASSUME NEW q \in 1..rev, q # 10 \/ rev # 12, NEW e \in Added[q] PROVE e \in SchemaAt[rev]
  <2>1. q \in 1..12
    OBVIOUS
  <2>2. PICK i \in DOMAIN Revisions[q].up.ddl : e \in Revisions[q].up.ddl[i].adds
    BY <2>1, UpsAre DEF UpCovers
  <2>3. <<q, i>> \in done /\ e \in Up(<<q, i>>).adds
    BY <1>3, <2>2
  <2>4. \A r \in done : ~Gone(Up(r), e)
    <3>1. \A r \in done : r[1] # 12 \/ q # 10
      BY <1>2, <1>6
    <3> QED BY <1>2, <1>6, <2>1, <3>1, UpKeeps
  <2>5. e \in Left(<<q, i>>)
    BY <2>3, <2>4
  <2> HIDE DEF Left
  <2> QED BY <1>1, <2>3, <2>5
<1>7. ASSUME rev = 12, NEW e \in Added[10], e \in SchemaAt[rev] PROVE FALSE
  <2>1. PICK p \in done : e \in Left(p)
    <3> HIDE DEF Left
    <3> QED BY <1>1, <1>7
  <2>2. e \in Added[p[1]] /\ p[1] \in 1..12
    BY <1>2, <1>4, <2>1
  <2>3. p[1] = 10
    <3>1. 10 \in 1..12
      OBVIOUS
    <3>2. Level(e) = 10 /\ Level(e) = p[1]
      BY <1>7, <2>2, <3>1, ElementsAre DEF Leveled
    <3> QED BY <3>2
  <2>4. PICK i \in DOMAIN Revisions[12].up.ddl : e \in Revisions[12].up.ddl[i].drops
    BY <1>7, UpsAre DEF UpCovers
  <2> DEFINE r == <<12, i>>
  <2>5. r \in done /\ Up(r) = Revisions[12].up.ddl[i] /\ r[1] = 12
    BY <1>3, <1>7, <2>4
  <2> HIDE DEF r
  <2>6. After(p, r) /\ Gone(Up(r), e)
    BY <2>3, <2>4, <2>5 DEF Gone
  <2> QED BY <2>1, <2>5, <2>6
<1> QED BY <1>5, <1>6, <1>7

\* The models are what all revisions add, less the columns of the tenth.
LEMMA ModelsAre ==
    /\ \A q \in 1..12 : q # 10 => Added[q] \subseteq ModelsSchema
    /\ \A e \in ModelsSchema : \E q \in 1..12 : q # 10 /\ e \in Added[q]
<1>1. /\ Added[1] \subseteq ModelsSchema /\ Added[2] \subseteq ModelsSchema
      /\ Added[3] \subseteq ModelsSchema /\ Added[4] \subseteq ModelsSchema
      /\ Added[5] \subseteq ModelsSchema /\ Added[6] \subseteq ModelsSchema
  BY DEF Added, ModelsSchema, Columns
<1>2. /\ Added[7] \subseteq ModelsSchema /\ Added[8] \subseteq ModelsSchema
      /\ Added[9] \subseteq ModelsSchema /\ Added[11] \subseteq ModelsSchema
      /\ Added[12] \subseteq ModelsSchema
  BY DEF Added, ModelsSchema, Columns
<1>3. ModelsSchema \subseteq Added[1] \union Added[2] \union Added[3] \union Added[4]
                         \union Added[5] \union Added[6] \union Added[7] \union Added[8]
                         \union Added[9] \union Added[11] \union Added[12]
  BY DEF Added, ModelsSchema, Columns
<1> QED BY <1>1, <1>2, <1>3

-----------------------------------------------------------------------------
(* How far a command has got.                                               *)

CommandInv ==
    /\ release \in 1..Latest /\ stamp \in 0..Latest /\ target \in 0..Latest /\ pos \in Nat
    /\ phase \in {"off", "upgrading", "downgrading", "serving"}
    /\ serve \in BOOLEAN /\ interrupted \in BOOLEAN
    /\ serve => phase \in {"upgrading", "serving"}
    /\ phase = "upgrading" => stamp <= target /\ (serve => target = release)
    /\ phase = "downgrading" => target <= stamp
    /\ phase = "serving" => stamp = release
    /\ Migrating => pos <= (IF stamp = target THEN 0 ELSE Len(Migration.ddl))

\* The revision of the stamp is being undone.
Undoing == phase = "downgrading" /\ pos > 0

\* As long as no downgrade was cut off, the schema has what the revisions up to
\* the stamp have added, and what the revision at work has added so far; the
\* columns of the tenth until the last drops them, and no longer; and nothing
\* that no revision adds, but the scratch table of a downgrade under way.
SchemaInv ==
    ~interrupted =>
        /\ \A e \in schema : e \in Scratches \/ \E q \in 1..12 : e \in Added[q]
        /\ \A q \in 1..stamp : q # 10 /\ ~(Undoing /\ q = stamp) => Added[q] \subseteq schema
        /\ phase = "upgrading" /\ stamp # target =>
              \A i \in 1..pos : /\ Migration.ddl[i].adds \subseteq schema
                               /\ Migration.ddl[i].drops \intersect schema = {}
        /\ stamp = 12 /\ ~Undoing => Added[10] \intersect schema = {}
        /\ schema \intersect Scratches \subseteq (IF Undoing THEN Migration.commit.drops ELSE {})

\* What a start's upgrade found of its revision, and has not taken out, is saved.
BackupInv ==
    /\ DOMAIN backups = 0..Latest
    /\ exists \in BOOLEAN
    /\ phase = "upgrading" /\ serve /\ filed =>
          /\ current \in 0..stamp
          /\ schema \intersect SchemaAt[current] \subseteq backups[current]

MigrationNext ==
    \/ StartCommand \/ RunStatement \/ CommitRevision \/ StatementFails
    \/ MigrationDone \/ MigrationCrash \/ StopServing

\* What the requests do leaves the migrations alone.
LEMMA MigrationSteps == [ServerNext]_serverVars => [MigrationNext]_migrationVars
BY DEF ServerNext, MigrationPart, LoginPart, MigrationNext, serverVars

\* The revision at work is one of the twelve.
LEMMA AtWork ==
    ASSUME CommandInv, Migrating, stamp # target
    PROVE  /\ phase = "upgrading" => /\ stamp + 1 \in 1..12 /\ stamp \in 0..11
                                     /\ Migration = Revisions[stamp + 1].up
           /\ phase = "downgrading" => stamp \in 1..12 /\ Migration = Revisions[stamp].down
           /\ phase \in {"upgrading", "downgrading"}
           /\ DdlOf(Migration)
<1>1. phase \in {"upgrading", "downgrading"} /\ Latest = 12
  BY RevisionsAre DEF Migrating
<1>2. CASE phase = "upgrading"
  <2>1. stamp + 1 \in 1..12 /\ stamp \in 0..11 /\ Migration = Revisions[stamp + 1].up
    BY <1>1, <1>2 DEF CommandInv, Migration
  <2>2. DdlOf(Revisions[stamp + 1].up)
    BY <2>1, UpsAre DEF UpIs
  <2> QED BY <1>2, <2>1, <2>2
<1>3. CASE phase = "downgrading"
  <2>1. stamp \in 1..12 /\ Migration = Revisions[stamp].down
    BY <1>1, <1>3 DEF CommandInv, Migration
  <2>2. DdlOf(Revisions[stamp].down)
    BY <2>1, DownsAre DEF DownIs
  <2> QED BY <1>3, <2>1, <2>2
<1> QED BY <1>1, <1>2, <1>3

LEMMA DdlLengths == \A q \in 1..12 : Len(Revisions[q].up.ddl) \in Nat /\ Len(Revisions[q].down.ddl) \in Nat
BY UpsAre, DownsAre DEF UpIs, DownIs, DdlOf

LEMMA CommandStarts ==
    ASSUME CommandInv, StartCommand
    PROVE  CommandInv'
<1>1. Latest = 12 /\ Releases \subseteq 1..Latest
  BY RevisionsAre, ReleasesAssumption
<1>2. phase = "off" /\ ~serve
  BY DEF CommandInv, StartCommand, InstallRelease, RunCurrent, RunRefused, RunStale, CliUpgrade,
         CliDowngrade, Command
<1>3. ASSUME NEW r \in Releases, InstallRelease(r) PROVE CommandInv'
  BY <1>1, <1>2, <1>3 DEF CommandInv, InstallRelease, dbVars, cmdVars, Migrating
<1>4. CASE RunCurrent
  BY <1>1, <1>2, <1>4 DEF CommandInv, RunCurrent, Migrating
<1>5. ASSUME NEW auto \in BOOLEAN, RunRefused(auto) PROVE CommandInv'
  BY <1>1, <1>2, <1>5 DEF CommandInv, RunRefused, cmdVars, Migrating
<1>6. CASE RunStale
  <2>1. /\ phase' = "upgrading" /\ serve' = TRUE /\ target' = release /\ pos' = 0
        /\ UNCHANGED <<release, stamp, interrupted>> /\ stamp < release
    BY <1>6 DEF RunStale
  <2>2. stamp + 1 \in 1..12 /\ Migration' = Revisions[stamp + 1].up
    BY <1>1, <2>1 DEF CommandInv, Migration
  <2>3. Len(Migration'.ddl) \in Nat
    BY <2>2, DdlLengths
  <2>4. stamp \in 0..12 /\ release \in 1..12 /\ target' \in 0..12 /\ interrupted \in BOOLEAN
    BY <1>1, <2>1 DEF CommandInv
  <2> QED BY <1>1, <2>1, <2>3, <2>4 DEF CommandInv, Migrating
<1>7. ASSUME NEW rev \in Releases, CliUpgrade(rev) PROVE CommandInv'
  <2>1. /\ phase' = "upgrading" /\ serve' = FALSE /\ target' = rev /\ pos' = 0
        /\ UNCHANGED <<release, stamp, interrupted>> /\ rev \in stamp + 1..release
    BY <1>7 DEF CliUpgrade
  <2>2. stamp + 1 \in 1..12 /\ Migration' = Revisions[stamp + 1].up
    BY <1>1, <2>1 DEF CommandInv, Migration
  <2>3. Len(Migration'.ddl) \in Nat
    BY <2>2, DdlLengths
  <2>4. /\ stamp \in 0..12 /\ release \in 1..12 /\ target' \in 0..12 /\ interrupted \in BOOLEAN
        /\ stamp <= target'
    BY <1>1, <2>1 DEF CommandInv
  <2>5. ~serve' /\ serve' \in BOOLEAN
    BY <2>1
  <2>6. pos' <= (IF stamp' = target' THEN 0 ELSE Len(Migration'.ddl))
    BY <2>1, <2>3
  <2> QED BY <1>1, <2>1, <2>4, <2>5, <2>6 DEF CommandInv
<1>8. ASSUME NEW rev \in {0} \union Releases, CliDowngrade(rev) PROVE CommandInv'
  <2>1. /\ phase' = "downgrading" /\ serve' = FALSE /\ target' = rev /\ pos' = 0
        /\ UNCHANGED <<release, stamp, interrupted>> /\ rev \in 0..stamp - 1
    BY <1>8 DEF CliDowngrade
  <2>2. stamp \in 1..12 /\ Migration' = Revisions[stamp].down
    BY <1>1, <2>1 DEF CommandInv, Migration
  <2>3. Len(Migration'.ddl) \in Nat
    BY <2>2, DdlLengths
  <2>4. /\ stamp \in 0..12 /\ release \in 1..12 /\ target' \in 0..12 /\ interrupted \in BOOLEAN
        /\ target' <= stamp
    BY <1>1, <2>1 DEF CommandInv
  <2>5. ~serve' /\ serve' \in BOOLEAN
    BY <2>1
  <2>6. pos' <= (IF stamp' = target' THEN 0 ELSE Len(Migration'.ddl))
    BY <2>1, <2>3
  <2> QED BY <1>1, <2>1, <2>4, <2>5, <2>6 DEF CommandInv
<1> QED BY <1>3, <1>4, <1>5, <1>6, <1>7, <1>8 DEF StartCommand

LEMMA CommandCommits ==
    ASSUME CommandInv, CommitRevision
    PROVE  CommandInv'
<1>1. Latest = 12
  BY RevisionsAre
<1>2. /\ Migrating /\ stamp # target /\ pos' = 0
      /\ stamp' = IF phase = "upgrading" THEN stamp + 1 ELSE stamp - 1
      /\ UNCHANGED <<release, phase, serve, target, interrupted>>
  BY DEF CommitRevision
<1>3. stamp' \in 0..12 /\ target \in 0..12
  BY <1>1, <1>2, AtWork DEF CommandInv
<1>4. CASE phase = "upgrading"
  <2>1. stamp' <= target
    BY <1>1, <1>2, <1>4 DEF CommandInv
  <2>2. stamp' # target => Len(Migration'.ddl) \in Nat
    <3>1. stamp' # target => stamp' + 1 \in 1..12 /\ Migration' = Revisions[stamp' + 1].up
      BY <1>2, <1>3, <1>4, <2>1 DEF Migration
    <3> QED BY <3>1, DdlLengths
  <2> QED BY <1>1, <1>2, <1>3, <1>4, <2>1, <2>2 DEF CommandInv, Migrating
<1>5. CASE phase = "downgrading"
  <2>1. target <= stamp'
    BY <1>1, <1>2, <1>5 DEF CommandInv
  <2>2. stamp' # target => Len(Migration'.ddl) \in Nat
    <3>1. stamp' # target => stamp' \in 1..12 /\ Migration' = Revisions[stamp'].down
      BY <1>2, <1>3, <1>5, <2>1 DEF Migration
    <3> QED BY <3>1, DdlLengths
  <2> QED BY <1>1, <1>2, <1>3, <1>5, <2>1, <2>2 DEF CommandInv, Migrating
<1> QED BY <1>2, <1>4, <1>5 DEF Migrating

LEMMA CommandKept ==
    ASSUME CommandInv, [MigrationNext]_migrationVars
    PROVE  CommandInv'
<1>1. CASE RunStatement
  <2>1. /\ Migrating /\ stamp # target /\ pos < Len(Migration.ddl) /\ pos' = pos + 1
        /\ UNCHANGED <<release, stamp, phase, serve, target, interrupted>>
    BY <1>1 DEF RunStatement
  <2>2. Migration' = Migration /\ Len(Migration.ddl) \in Nat
    BY <2>1, AtWork DEF Migration, DdlOf
  <2> QED BY <2>1, <2>2 DEF CommandInv, Migrating
<1>2. CASE StatementFails \/ MigrationCrash
  BY <1>2 DEF StatementFails, MigrationCrash, CommandInv, Migrating, dbVars
<1>3. CASE MigrationDone
  BY <1>3 DEF MigrationDone, CommandInv, Migrating, dbVars
<1>4. CASE StopServing
  BY <1>4 DEF StopServing, CommandInv, Migrating, dbVars
<1>5. CASE UNCHANGED migrationVars
  BY <1>5 DEF migrationVars, dbVars, cmdVars, CommandInv, Migrating, Migration
<1> QED BY <1>1, <1>2, <1>3, <1>4, <1>5, CommandStarts, CommandCommits DEF MigrationNext

\* The steps as the schema sees them: those that leave it, the stamp and what is
\* done of a revision as they are ...
LEMMA SchemaLeft ==
    ASSUME SchemaInv, UNCHANGED <<schema, stamp>>, ~interrupted' => ~interrupted,
           ~interrupted' => ~Undoing, ~Undoing', phase' = "upgrading" => pos' = 0
    PROVE  SchemaInv'
<1> SUFFICES ASSUME ~interrupted' PROVE SchemaInv'
  BY DEF SchemaInv
<1>1. ~interrupted /\ ~Undoing /\ Undoing' = FALSE
  OBVIOUS
<1>2. phase' = "upgrading" => 1..pos' = {}
  OBVIOUS
<1> QED BY <1>1, <1>2 DEF SchemaInv

\* ... a statement of an upgrade ...
LEMMA SchemaGrows ==
    ASSUME CommandInv, SchemaInv, RunStatement, phase = "upgrading"
    PROVE  SchemaInv'
<1> DEFINE q == stamp + 1
           ddl == Revisions[q].up.ddl
           d == ddl[pos + 1]
<1>1. /\ Migrating /\ stamp # target /\ pos < Len(Migration.ddl) /\ pos' = pos + 1
      /\ schema' = Apply(Migration.ddl[pos + 1], schema)
      /\ UNCHANGED <<stamp, phase, target, interrupted>>
  BY DEF RunStatement
<1>2. /\ q \in 1..12 /\ stamp \in 0..11 /\ Migration.ddl = ddl /\ Migration' = Migration
      /\ pos \in Nat /\ pos + 1 \in 1..Len(ddl) /\ DOMAIN ddl = 1..Len(ddl)
  BY <1>1, AtWork DEF CommandInv, DdlOf, Migration
<1>3. \A i \in 1..Len(ddl) : /\ ddl[i].adds \subseteq Added[q]
                             /\ ddl[i].drops \subseteq (IF q = 12 THEN Added[10] ELSE {})
  BY <1>2, UpsAre DEF UpIs
<1>4. \A r \in 1..12 : \A e \in Added[r] : q # 12 \/ r # 10 => ~Gone(d, e)
  BY <1>2, UpKeeps
<1>5. /\ \A e \in Added[q] : e \notin Scratches /\ (q = 12 => e \notin Added[10])
  <2>1. 10 \in 1..12
    OBVIOUS
  <2>2. (\A e \in Added[10] : Level(e) = 10) /\ (\A e \in Added[q] : Level(e) = q)
    BY <1>2, <2>1, ElementsAre DEF Leveled
  <2>3. q \in Int /\ q # 0
    BY <1>2
  <2> HIDE DEF q
  <2> QED BY <2>2, <2>3, ScratchLevel
<1> HIDE DEF q, ddl
<1>6. schema' = {e \in schema : ~Gone(d, e)} \union d.adds
  BY <1>1, <1>2 DEF Apply
<1>7. d.adds \subseteq Added[q] /\ \A e \in d.drops : Gone(d, e)
  BY <1>2, <1>3 DEF Gone
<1> SUFFICES ASSUME ~interrupted' PROVE SchemaInv'
  BY DEF SchemaInv
<1>8. ~interrupted /\ ~Undoing /\ ~Undoing'
  BY <1>1 DEF Undoing
<1>9. \A e \in schema' : e \in Scratches \/ \E r \in 1..12 : e \in Added[r]
  BY <1>2, <1>6, <1>7, <1>8 DEF SchemaInv
<1>10. \A r \in 1..stamp : r # 10 => Added[r] \subseteq schema'
  <2>1. \A r \in 1..stamp : r # 10 => r \in 1..12 /\ Added[r] \subseteq schema
    BY <1>2, <1>8 DEF SchemaInv
  <2> QED BY <1>4, <1>6, <2>1
<1>11. ASSUME NEW i \in 1..(pos + 1)
       PROVE  ddl[i].adds \subseteq schema' /\ ddl[i].drops \intersect schema' = {}
  <2>1. ddl[i].adds \subseteq Added[q] /\ i \in 1..Len(ddl)
    BY <1>2, <1>3
  <2>2. \A e \in Added[q] : ~Gone(d, e)
    BY <1>2, <1>4
  <2>3. ddl[i].drops \intersect d.adds = {}
    BY <1>3, <1>5, <1>7, <2>1
  <2>4. CASE i = pos + 1
    BY <1>6, <1>7, <2>3, <2>4
  <2>5. CASE i # pos + 1
    <3>1. i \in 1..pos
      BY <1>2, <2>5
    <3>2. ddl[i].adds \subseteq schema /\ ddl[i].drops \intersect schema = {}
      BY <1>1, <1>2, <1>8, <3>1 DEF SchemaInv
    <3> QED BY <1>6, <2>1, <2>2, <2>3, <3>2
  <2> QED BY <2>4, <2>5
<1>12. schema' \intersect Scratches = {}
  BY <1>5, <1>6, <1>7, <1>8 DEF SchemaInv
<1> QED BY <1>1, <1>2, <1>8, <1>9, <1>10, <1>11, <1>12 DEF SchemaInv

\* ... a statement of a downgrade ...
LEMMA SchemaShrinks ==
    ASSUME CommandInv, SchemaInv, RunStatement, phase = "downgrading"
    PROVE  SchemaInv'
<1> DEFINE q == stamp
           m == Revisions[q].down
           d == m.ddl[pos + 1]
<1>1. /\ Migrating /\ stamp # target /\ pos < Len(Migration.ddl) /\ pos' = pos + 1
      /\ schema' = Apply(Migration.ddl[pos + 1], schema)
      /\ UNCHANGED <<stamp, phase, target, interrupted>>
  BY DEF RunStatement
<1>2. /\ q \in 1..12 /\ Migration = m /\ Migration' = Migration
      /\ pos \in Nat /\ pos + 1 \in DOMAIN m.ddl
  BY <1>1, AtWork DEF CommandInv, DdlOf, Migration
<1>3. d.adds \subseteq (m.commit.drops \intersect Scratches) \union Added[10]
  BY <1>2, DownsAre DEF DownIs
<1>4. \A r \in 1..12 : \A e \in Added[r] : r < q => ~Gone(d, e)
  BY <1>2, DownKeeps
<1>5. 10 \in 1..12 /\ \A e \in Added[10] : e \notin Scratches
  <2>1. 10 \in 1..12
    OBVIOUS
  <2>2. \A e \in Added[10] : Level(e) = 10
    BY <2>1, ElementsAre DEF Leveled
  <2> QED BY <2>1, <2>2, ScratchLevel
<1> HIDE DEF m
<1>6. schema' = {e \in schema : ~Gone(d, e)} \union d.adds
  BY <1>1, <1>2 DEF Apply
<1> SUFFICES ASSUME ~interrupted' PROVE SchemaInv'
  BY DEF SchemaInv
<1> HIDE DEF d
<1>7. ~interrupted /\ Undoing'
  BY <1>1, <1>2 DEF Undoing
<1>8. \A e \in schema' : e \in Scratches \/ \E r \in 1..12 : e \in Added[r]
  BY <1>3, <1>5, <1>6, <1>7 DEF SchemaInv
<1>9. \A r \in 1..stamp : r # 10 /\ r # stamp => Added[r] \subseteq schema'
  <2>1. \A r \in 1..stamp : r # 10 /\ r # stamp => r \in 1..12 /\ r < q /\ Added[r] \subseteq schema
    BY <1>2, <1>7 DEF SchemaInv
  <2> QED BY <1>4, <1>6, <2>1
<1>10. schema' \intersect Scratches \subseteq m.commit.drops
  <2>1. schema \intersect Scratches \subseteq m.commit.drops
    BY <1>2, <1>7 DEF SchemaInv
  <2> QED BY <1>3, <1>5, <1>6, <2>1
<1> QED BY <1>1, <1>2, <1>7, <1>8, <1>9, <1>10 DEF SchemaInv

\* ... and the end of a revision.
LEMMA SchemaCommits ==
    ASSUME CommandInv, SchemaInv, CommitRevision
    PROVE  SchemaInv'
<1>1. /\ Migrating /\ stamp # target /\ pos = Len(Migration.ddl) /\ pos' = 0
      /\ schema' = Apply(Migration.commit, schema)
      /\ stamp' = IF phase = "upgrading" THEN stamp + 1 ELSE stamp - 1
      /\ UNCHANGED <<phase, interrupted>>
  BY DEF CommitRevision
<1> SUFFICES ASSUME ~interrupted' PROVE SchemaInv'
  BY DEF SchemaInv
<1>2. ~interrupted /\ ~Undoing' /\ 1..pos' = {}
  BY <1>1 DEF Undoing
<1>3. schema' = {e \in schema : ~Gone(Migration.commit, e)} \union Migration.commit.adds
  BY <1>1 DEF Apply
<1>4. CASE phase = "upgrading"
  <2> DEFINE q == stamp + 1
  <2>1. /\ q \in 1..12 /\ stamp \in 0..11 /\ Migration = Revisions[q].up
        /\ DOMAIN Migration.ddl = 1..pos /\ ~Undoing
    BY <1>1, <1>4, AtWork DEF DdlOf, Undoing
  <2>2. Migration.commit.adds = {} /\ Migration.commit.drops = {}
    BY <2>1, UpsAre DEF UpIs, Nothing, Statement
  <2>3. schema' = schema
    BY <1>3, <2>2 DEF Gone
  <2>4. \A i \in 1..pos : /\ Migration.ddl[i].adds \subseteq schema
                          /\ Migration.ddl[i].drops \intersect schema = {}
    BY <1>1, <1>2, <1>4 DEF SchemaInv
  <2>5. /\ Added[q] \subseteq schema
        /\ q = 12 => Added[10] \intersect schema = {}
    BY <2>1, <2>4, UpsAre DEF UpCovers
  <2>6. \A r \in 1..stamp' : r # 10 => Added[r] \subseteq schema
    <3>1. \A r \in 1..stamp' : r = q \/ r \in 1..stamp
      BY <1>1, <1>4, <2>1
    <3> QED BY <1>2, <2>1, <2>5, <3>1 DEF SchemaInv
  <2>7. /\ \A e \in schema : e \in Scratches \/ \E r \in 1..12 : e \in Added[r]
        /\ schema \intersect Scratches = {}
    BY <1>2, <2>1 DEF SchemaInv
  <2>8. stamp' = q
    BY <1>1, <1>4
  <2> HIDE DEF q
  <2> QED BY <1>1, <1>2, <2>3, <2>5, <2>6, <2>7, <2>8 DEF SchemaInv
<1>5. CASE phase = "downgrading"
  <2> DEFINE m == Revisions[stamp].down
  <2>1. stamp \in 1..12 /\ Migration = m
    BY <1>1, <1>5, AtWork
  <2>2. m.commit.adds = {}
    BY <2>1, DownsAre DEF DownIs
  <2>3. \A r \in 1..12 : \A e \in Added[r] : r < stamp => ~Gone(m.commit, e)
    BY <2>1, DownKeeps
  <2>4. \A e \in m.commit.drops : Gone(m.commit, e)
    BY DEF Gone
  <2> HIDE DEF m
  <2>5. schema' = {e \in schema : ~Gone(m.commit, e)}
    BY <1>3, <2>1, <2>2
  <2>6. stamp' = stamp - 1 /\ stamp' \in 0..11
    BY <1>1, <1>5, <2>1
  <2>7. \A r \in 1..stamp' : r # 10 => Added[r] \subseteq schema'
    <3>1. \A r \in 1..stamp' : r # 10 => r \in 1..12 /\ r < stamp /\ Added[r] \subseteq schema
      BY <1>2, <2>1, <2>6 DEF SchemaInv
    <3> QED BY <2>3, <2>5, <3>1
  <2>8. schema' \intersect Scratches = {}
    <3>1. schema \intersect Scratches \subseteq m.commit.drops
      BY <1>2, <2>1 DEF SchemaInv
    <3> QED BY <2>4, <2>5, <3>1
  <2>9. \A e \in schema' : e \in Scratches \/ \E r \in 1..12 : e \in Added[r]
    BY <1>2, <2>5 DEF SchemaInv
  <2>10. phase' # "upgrading" /\ stamp' # 12
    BY <1>1, <1>5, <2>6
  <2> QED BY <1>2, <2>7, <2>8, <2>9, <2>10 DEF SchemaInv
<1> QED BY <1>1, <1>4, <1>5 DEF Migrating

LEMMA SchemaKept ==
    ASSUME CommandInv, SchemaInv, [MigrationNext]_migrationVars
    PROVE  SchemaInv'
<1>1. CASE RunStatement
  BY <1>1, SchemaGrows, SchemaShrinks DEF RunStatement, Migrating
<1>2. CASE CommitRevision
  BY <1>2, SchemaCommits
<1>3. CASE StatementFails \/ MigrationCrash
  <2>1. /\ UNCHANGED <<schema, stamp>> /\ phase' = "off"
        /\ interrupted' = (interrupted \/ (phase = "downgrading" /\ pos > 0))
    BY <1>3 DEF StatementFails, MigrationCrash, dbVars
  <2>2. (~interrupted' => ~interrupted) /\ (~interrupted' => ~Undoing) /\ ~Undoing'
    BY <2>1 DEF Undoing
  <2> QED BY <2>1, <2>2, SchemaLeft
<1>4. CASE MigrationDone
  <2>1. /\ UNCHANGED <<schema, stamp, interrupted>> /\ phase' \in {"off", "serving"}
        /\ Migrating /\ stamp = target
    BY <1>4 DEF MigrationDone, dbVars
  <2>2. ~Undoing /\ ~Undoing'
    BY <2>1 DEF Undoing, CommandInv
  <2> QED BY <2>1, <2>2, SchemaLeft
<1>5. CASE StopServing
  <2>1. UNCHANGED <<schema, stamp, interrupted>> /\ phase = "serving" /\ phase' = "off"
    BY <1>5 DEF StopServing, dbVars
  <2>2. ~Undoing /\ ~Undoing'
    BY <2>1 DEF Undoing
  <2> QED BY <2>1, <2>2, SchemaLeft
<1>6. CASE StartCommand
  <2>1. /\ UNCHANGED <<schema, stamp, interrupted>> /\ phase = "off"
        /\ phase' # "off" /\ phase' # "serving" => pos' = 0
        /\ phase' = "downgrading" \/ phase' = "upgrading" => pos' = 0
    BY <1>6 DEF StartCommand, InstallRelease, RunCurrent, RunRefused, RunStale, CliUpgrade,
       CliDowngrade, Command, dbVars, cmdVars
  <2>2. ~Undoing /\ ~Undoing'
    BY <2>1 DEF Undoing
  <2> QED BY <2>1, <2>2, SchemaLeft
<1>7. CASE UNCHANGED migrationVars
  <2>1. UNCHANGED <<schema, stamp, interrupted, phase, pos, target>>
    BY <1>7 DEF migrationVars, dbVars, cmdVars
  <2>2. Migration' = Migration /\ Undoing' = Undoing
    BY <2>1 DEF Migration, Undoing
  <2> QED BY <2>1, <2>2 DEF SchemaInv
<1> QED BY <1>1, <1>2, <1>3, <1>4, <1>5, <1>6, <1>7 DEF MigrationNext

\* What a start's migration finds of the revision it found is in its backup.
LEMMA BackupKept ==
    ASSUME CommandInv, BackupInv, [MigrationNext]_migrationVars
    PROVE  BackupInv'
<1>1. ASSUME UNCHANGED backups, UNCHANGED exists, ~(phase' = "upgrading" /\ serve')
      PROVE  BackupInv'
  BY <1>1 DEF BackupInv
<1>2. ASSUME UNCHANGED <<schema, stamp, current, backups>>, exists' \in BOOLEAN,
             phase' = "upgrading" /\ serve' /\ filed' => phase = "upgrading" /\ serve /\ filed
      PROVE  BackupInv'
  BY <1>2 DEF BackupInv
<1>3. CASE StartCommand
  <2>1. CASE RunStale
    <3>1. /\ phase' = "upgrading" /\ exists' = TRUE /\ filed' = exists
          /\ current' = stamp /\ UNCHANGED <<schema, stamp>>
          /\ backups' = IF exists THEN [backups EXCEPT ![stamp] = schema] ELSE backups
      BY <2>1 DEF RunStale
    <3>2. stamp \in 0..Latest /\ stamp \in 0..stamp
      BY RevisionsAre DEF CommandInv
    <3>3. DOMAIN backups' = 0..Latest /\ (filed' => backups'[stamp] = schema)
      BY <3>1, <3>2 DEF BackupInv
    <3> QED BY <3>1, <3>2, <3>3 DEF BackupInv
  <2>2. CASE ~RunStale
    <3>1. /\ UNCHANGED <<schema, stamp, backups>> /\ phase = "off"
          /\ exists' \in {exists, TRUE}
          /\ phase' = "upgrading" => ~serve'
      BY <1>3, <2>2 DEF StartCommand, InstallRelease, RunCurrent, RunRefused, CliUpgrade,
         CliDowngrade, Command, dbVars, cmdVars
    <3> QED BY <3>1 DEF BackupInv
  <2> QED BY <2>1, <2>2
<1>4. CASE RunStatement
  <2>1. /\ Migrating /\ stamp # target /\ pos < Len(Migration.ddl)
        /\ schema' = Apply(Migration.ddl[pos + 1], schema)
        /\ UNCHANGED <<stamp, phase, serve, filed, current, backups, exists>>
    BY <1>4 DEF RunStatement
  <2>2. CASE phase = "upgrading" /\ serve /\ filed
    <3> DEFINE q == stamp + 1
               d == Migration.ddl[pos + 1]
    <3>1. q \in 1..12 /\ stamp \in 0..11 /\ Migration = Revisions[q].up /\ pos + 1 \in DOMAIN Migration.ddl
      BY <2>1, <2>2, AtWork DEF CommandInv, DdlOf
    <3>2. d.adds \subseteq Added[q]
      BY <3>1, UpsAre DEF UpIs
    <3>3. current \in 0..stamp /\ schema \intersect SchemaAt[current] \subseteq backups[current]
      BY <2>2 DEF BackupInv
    <3>4. Added[q] \intersect SchemaAt[current] = {}
      <4>1. current \in 0..12 /\ \A r \in 1..current : r \in 1..12 /\ r # q
        BY <3>1, <3>3
      <4>2. \A e \in SchemaAt[current] : \E r \in 1..current : e \in Added[r]
        BY <4>1, SchemasAre
      <4>3. \A r \in 1..12 : \A e \in Added[r] : Level(e) = r
        BY ElementsAre DEF Leveled
      <4> HIDE DEF q
      <4> QED BY <3>1, <4>1, <4>2, <4>3
    <3> HIDE DEF d, q
    <3>5. schema' \subseteq schema \union d.adds
      BY <2>1 DEF Apply, d
    <3> QED BY <2>1, <3>2, <3>3, <3>4, <3>5 DEF BackupInv
  <2>3. CASE ~(phase = "upgrading" /\ serve /\ filed)
    BY <2>1, <2>3 DEF BackupInv
  <2> QED BY <2>2, <2>3
<1>5. CASE CommitRevision
  <2>1. /\ Migrating /\ stamp # target
        /\ schema' = Apply(Migration.commit, schema)
        /\ stamp' = IF phase = "upgrading" THEN stamp + 1 ELSE stamp - 1
        /\ UNCHANGED <<phase, serve, filed, current, backups, exists>>
    BY <1>5 DEF CommitRevision
  <2>2. CASE phase = "upgrading"
    <3>1. stamp + 1 \in 1..12 /\ stamp \in 0..11 /\ Migration = Revisions[stamp + 1].up
      BY <2>1, <2>2, AtWork
    <3>2. Migration.commit.adds = {}
      BY <3>1, UpsAre DEF UpIs, Nothing, Statement
    <3>3. schema' \subseteq schema
      BY <2>1, <3>2 DEF Apply
    <3>4. 0..stamp \subseteq 0..stamp'
      BY <2>1, <2>2, <3>1
    <3> QED BY <2>1, <3>3, <3>4 DEF BackupInv
  <2>3. CASE phase # "upgrading"
    BY <2>1, <2>3 DEF BackupInv
  <2> QED BY <2>2, <2>3
<1>6. CASE StatementFails \/ MigrationCrash \/ MigrationDone \/ StopServing
  <2>1. UNCHANGED <<backups, exists>> /\ phase' # "upgrading"
    BY <1>6 DEF StatementFails, MigrationCrash, MigrationDone, StopServing, dbVars
  <2> QED BY <2>1 DEF BackupInv
<1>7. CASE UNCHANGED migrationVars
  BY <1>7 DEF migrationVars, dbVars, cmdVars, BackupInv
<1> QED BY <1>3, <1>4, <1>5, <1>6, <1>7 DEF MigrationNext

LEMMA MigrationInvariant == ServerSpec => [](CommandInv /\ SchemaInv /\ BackupInv)
<1>1. InitServer => CommandInv /\ SchemaInv /\ BackupInv
  <2> SUFFICES ASSUME InitServer PROVE CommandInv /\ SchemaInv /\ BackupInv
    OBVIOUS
  <2>1. /\ release \in Releases /\ exists \in BOOLEAN /\ stamp \in {0} \union Releases
        /\ schema = SchemaAt[stamp] /\ DOMAIN backups = 0..Latest
        /\ phase = "off" /\ serve = FALSE /\ target = 0 /\ pos = 0 /\ interrupted = FALSE
    BY DEF InitServer, InitMigrations
  <2>2. Latest = 12 /\ Releases \subseteq 1..12 /\ stamp \in 0..12
    BY <2>1, RevisionsAre, ReleasesAssumption
  <2>3. CommandInv
    <3>1. ~serve /\ serve \in BOOLEAN /\ interrupted \in BOOLEAN /\ ~Migrating
      BY <2>1 DEF Migrating
    <3> QED BY <2>1, <2>2, <3>1 DEF CommandInv
  <2>4. BackupInv
    BY <2>1 DEF BackupInv
  <2>5. /\ \A e \in schema : \E q \in 1..stamp : e \in Added[q]
        /\ \A q \in 1..stamp : q # 10 => Added[q] \subseteq schema
        /\ stamp = 12 => Added[10] \intersect schema = {}
    BY <2>1, <2>2, SchemasAre
  <2>6. \A e \in schema : (\E q \in 1..12 : e \in Added[q]) /\ e \notin Scratches
    <3>1. \A q \in 1..stamp : q \in 1..12 /\ q # 0
      BY <2>2
    <3>2. \A q \in 1..12 : \A e \in Added[q] : Level(e) = q
      BY ElementsAre DEF Leveled
    <3> QED BY <2>5, <3>1, <3>2, ScratchLevel
  <2>7. ~Undoing /\ phase # "upgrading"
    BY <2>1 DEF Undoing
  <2>8. SchemaInv
    BY <2>5, <2>6, <2>7 DEF SchemaInv
  <2> QED BY <2>3, <2>4, <2>8
<1>2. CommandInv /\ SchemaInv /\ BackupInv /\ [ServerNext]_serverVars
        => (CommandInv /\ SchemaInv /\ BackupInv)'
  BY MigrationSteps, CommandKept, SchemaKept, BackupKept
<1> QED BY <1>1, <1>2, PTL DEF ServerSpec

(* The server serves on the schema of its models, whatever commands, failures  *)
(* and crashes the file has been through, unless a downgrade was cut off        *)
(* (startup_upgrade).                                                       *)
THEOREM ServersHaveTheirSchema == ServerSpec => []ServesModelsSchema
<1>1. CommandInv /\ SchemaInv => ServesModelsSchema
  <2> SUFFICES ASSUME CommandInv, SchemaInv, phase = "serving", release = Latest, ~interrupted
               PROVE  schema = ModelsSchema
    BY DEF ServesModelsSchema
  <2>1. stamp = 12 /\ ~Undoing
    BY RevisionsAre DEF CommandInv, Undoing
  <2>2. /\ \A q \in 1..12 : q # 10 => Added[q] \subseteq schema
        /\ Added[10] \intersect schema = {}
        /\ \A e \in schema : e \in Scratches \/ \E q \in 1..12 : e \in Added[q]
        /\ schema \intersect Scratches = {}
    BY <2>1 DEF SchemaInv
  <2>3. ModelsSchema \subseteq schema
    BY <2>2, ModelsAre
  <2>4. \A e \in schema : \E q \in 1..12 : q # 10 /\ e \in Added[q]
    BY <2>2
  <2>5. schema \subseteq ModelsSchema
    BY <2>4, ModelsAre
  <2> QED BY <2>3, <2>5
<1> QED BY <1>1, MigrationInvariant, PTL

(* What the migration of a start takes out of the revision it found, the backup *)
(* named after that revision has (startup_upgrade, _backup_db).               *)
THEOREM BackupsKeepWhatIsDropped == ServerSpec => NothingLostUnsaved
<1>1. BackupInv => (phase = "upgrading" /\ serve /\ filed =>
          (schema \ schema') \intersect SchemaAt[current] \subseteq backups[current])
  BY DEF BackupInv
<1> QED BY <1>1, MigrationInvariant, PTL DEF NothingLostUnsaved

-----------------------------------------------------------------------------
(* Before the first crash.                                                  *)

\* A table stands for itself; a column or index is of a table that an earlier
\* revision adds, and none drops.
TablesOf(q) ==
    \A e \in Added[q] : \/ Len(e) = 1 /\ <<e[1]>> = e
                        \/ /\ Len(e) = 2
                           /\ \E r \in 1..12 : r < q /\ r # 10 /\ <<e[1]>> \in Added[r]

LEMMA TablesAre == \A q \in 1..12 : TablesOf(q)
<1>1. TablesOf(1)
  BY DEF TablesOf, Added
<1>2. TablesOf(2)
  BY DEF TablesOf, Added
<1>3. TablesOf(3)
  <2>1. \A e \in Added[3] : Len(e) = 2 /\ (<<e[1]>> \in Added[2])
    BY DEF Added
  <2>2. 2 \in 1..12
    OBVIOUS
  <2>3. ASSUME NEW e \in Added[3]
        PROVE  \E r \in 1..12 : r < 3 /\ r # 10 /\ <<e[1]>> \in Added[r]
    BY <2>1, <2>2
  <2> QED BY <2>1, <2>3 DEF TablesOf
<1>4. TablesOf(4)
  <2>1. \A e \in Added[4] : Len(e) = 2 /\ (<<e[1]>> \in Added[2])
    BY DEF Added
  <2>2. 2 \in 1..12
    OBVIOUS
  <2>3. ASSUME NEW e \in Added[4]
        PROVE  \E r \in 1..12 : r < 4 /\ r # 10 /\ <<e[1]>> \in Added[r]
    BY <2>1, <2>2
  <2> QED BY <2>1, <2>3 DEF TablesOf
<1>5. TablesOf(5)
  <2>1. \A e \in Added[5] : Len(e) = 2 /\ (<<e[1]>> \in Added[2])
    BY DEF Added
  <2>2. 2 \in 1..12
    OBVIOUS
  <2>3. ASSUME NEW e \in Added[5]
        PROVE  \E r \in 1..12 : r < 5 /\ r # 10 /\ <<e[1]>> \in Added[r]
    BY <2>1, <2>2
  <2> QED BY <2>1, <2>3 DEF TablesOf
<1>6. TablesOf(6)
  BY DEF TablesOf, Added
<1>7. TablesOf(7)
  BY DEF TablesOf, Added
<1>8. TablesOf(8)
  <2>1. \A e \in Added[8] : Len(e) = 2 /\ (<<e[1]>> \in Added[1] \/ <<e[1]>> \in Added[7])
    BY DEF Added
  <2>2. 1 \in 1..12 /\ 7 \in 1..12
    OBVIOUS
  <2>3. ASSUME NEW e \in Added[8]
        PROVE  \E r \in 1..12 : r < 8 /\ r # 10 /\ <<e[1]>> \in Added[r]
    BY <2>1, <2>2
  <2> QED BY <2>1, <2>3 DEF TablesOf
<1>9. TablesOf(9)
  <2>1. \A e \in Added[9] : Len(e) = 2 /\ (<<e[1]>> \in Added[1])
    BY DEF Added
  <2>2. 1 \in 1..12
    OBVIOUS
  <2>3. ASSUME NEW e \in Added[9]
        PROVE  \E r \in 1..12 : r < 9 /\ r # 10 /\ <<e[1]>> \in Added[r]
    BY <2>1, <2>2
  <2> QED BY <2>1, <2>3 DEF TablesOf
<1>10. TablesOf(10)
  <2>1. \A e \in Added[10] : Len(e) = 2 /\ (<<e[1]>> \in Added[2])
    BY DEF Added
  <2>2. 2 \in 1..12
    OBVIOUS
  <2>3. ASSUME NEW e \in Added[10]
        PROVE  \E r \in 1..12 : r < 10 /\ r # 10 /\ <<e[1]>> \in Added[r]
    BY <2>1, <2>2
  <2> QED BY <2>1, <2>3 DEF TablesOf
<1>11. TablesOf(11)
  BY DEF TablesOf, Added
<1>12. TablesOf(12)
  <2>1. \A e \in Added[12] : Len(e) = 2 /\ (<<e[1]>> \in Added[2])
    BY DEF Added
  <2>2. 2 \in 1..12
    OBVIOUS
  <2>3. ASSUME NEW e \in Added[12]
        PROVE  \E r \in 1..12 : r < 12 /\ r # 10 /\ <<e[1]>> \in Added[r]
    BY <2>1, <2>2
  <2> QED BY <2>1, <2>3 DEF TablesOf
<1> QED BY <1>1, <1>2, <1>3, <1>4, <1>5, <1>6, <1>7, <1>8, <1>9, <1>10, <1>11, <1>12

\* No two statements of an upgrade add the same, nor drop the same.
UpRuns(q) ==
    LET ddl == Revisions[q].up.ddl
    IN  \A j \in DOMAIN ddl :
            /\ ddl[j].needs = ddl[j].drops
            /\ \A i \in 1..j - 1 : /\ ddl[i].adds \intersect ddl[j].adds = {}
                                   /\ ddl[i].drops \intersect ddl[j].drops = {}

LEMMA EarlierUpsRun == \A q \in 1..11 : UpRuns(q)
<1>1. UpRuns(1)
  <2> DEFINE m == Revisions[1].up
  <2>1. DOMAIN m.ddl = 1..3
    BY RevisionsAre DEF InitialEventTables, Plain
  <2>2. \A j \in 1..3 : m.ddl[j].needs = {} /\ m.ddl[j].drops = {}
    BY RevisionsAre DEF InitialEventTables, Plain, Add, Statement
  <2>3. \A i, j \in 1..3 : i # j => m.ddl[i].adds \intersect m.ddl[j].adds = {}
    BY RevisionsAre DEF InitialEventTables, Plain, Add, Statement
  <2>4. \A j \in 1..3 : \A i \in 1..j - 1 : i \in 1..3 /\ i # j
    OBVIOUS
  <2> HIDE DEF m
  <2> QED BY <2>1, <2>2, <2>3, <2>4 DEF UpRuns, m
<1>2. UpRuns(2)
  <2> DEFINE m == Revisions[2].up
  <2>1. DOMAIN m.ddl = 1..2
    BY RevisionsAre DEF ImportJobPersistenceTables, Plain
  <2>2. \A j \in 1..2 : m.ddl[j].needs = {} /\ m.ddl[j].drops = {}
    BY RevisionsAre DEF ImportJobPersistenceTables, Plain, Add, Statement
  <2>3. \A i, j \in 1..2 : i # j => m.ddl[i].adds \intersect m.ddl[j].adds = {}
    BY RevisionsAre DEF ImportJobPersistenceTables, Plain, Add, Statement
  <2>4. \A j \in 1..2 : \A i \in 1..j - 1 : i \in 1..2 /\ i # j
    OBVIOUS
  <2> HIDE DEF m
  <2> QED BY <2>1, <2>2, <2>3, <2>4 DEF UpRuns, m
<1>3. UpRuns(3)
  <2> DEFINE m == Revisions[3].up
  <2>1. DOMAIN m.ddl = 1..1
    BY RevisionsAre DEF ImportJobOutputColumn, Plain
  <2>2. \A j \in 1..1 : m.ddl[j].needs = {} /\ m.ddl[j].drops = {}
    BY RevisionsAre DEF ImportJobOutputColumn, Plain, Add, Statement
  <2>3. \A i, j \in 1..1 : i # j => m.ddl[i].adds \intersect m.ddl[j].adds = {}
    BY RevisionsAre DEF ImportJobOutputColumn, Plain, Add, Statement
  <2>4. \A j \in 1..1 : \A i \in 1..j - 1 : i \in 1..1 /\ i # j
    OBVIOUS
  <2> HIDE DEF m
  <2> QED BY <2>1, <2>2, <2>3, <2>4 DEF UpRuns, m
<1>4. UpRuns(4)
  <2> DEFINE m == Revisions[4].up
  <2>1. DOMAIN m.ddl = 1..1
    BY RevisionsAre DEF ImportJobQuietColumn, Plain
  <2>2. \A j \in 1..1 : m.ddl[j].needs = {} /\ m.ddl[j].drops = {}
    BY RevisionsAre DEF ImportJobQuietColumn, Plain, Add, Statement
  <2>3. \A i, j \in 1..1 : i # j => m.ddl[i].adds \intersect m.ddl[j].adds = {}
    BY RevisionsAre DEF ImportJobQuietColumn, Plain, Add, Statement
  <2>4. \A j \in 1..1 : \A i \in 1..j - 1 : i \in 1..1 /\ i # j
    OBVIOUS
  <2> HIDE DEF m
  <2> QED BY <2>1, <2>2, <2>3, <2>4 DEF UpRuns, m
<1>5. UpRuns(5)
  <2> DEFINE m == Revisions[5].up
  <2>1. DOMAIN m.ddl = 1..4
    BY RevisionsAre DEF ImportJobSettingsColumns, Plain, AddAll, SettingsColumns
  <2>2. \A j \in 1..4 : m.ddl[j].needs = {} /\ m.ddl[j].drops = {}
    BY RevisionsAre DEF ImportJobSettingsColumns, Plain, AddAll, SettingsColumns, Add, Statement
  <2>3. \A i, j \in 1..4 : i # j => m.ddl[i].adds \intersect m.ddl[j].adds = {}
    BY RevisionsAre DEF ImportJobSettingsColumns, Plain, AddAll, SettingsColumns, Add, Statement
  <2>4. \A j \in 1..4 : \A i \in 1..j - 1 : i \in 1..4 /\ i # j
    OBVIOUS
  <2> HIDE DEF m
  <2> QED BY <2>1, <2>2, <2>3, <2>4 DEF UpRuns, m
<1>6. UpRuns(6)
  <2> DEFINE m == Revisions[6].up
  <2>1. DOMAIN m.ddl = 1..1
    BY RevisionsAre DEF AuthSessionTable, Plain
  <2>2. \A j \in 1..1 : m.ddl[j].needs = {} /\ m.ddl[j].drops = {}
    BY RevisionsAre DEF AuthSessionTable, Plain, Add, Statement
  <2>3. \A i, j \in 1..1 : i # j => m.ddl[i].adds \intersect m.ddl[j].adds = {}
    BY RevisionsAre DEF AuthSessionTable, Plain, Add, Statement
  <2>4. \A j \in 1..1 : \A i \in 1..j - 1 : i \in 1..1 /\ i # j
    OBVIOUS
  <2> HIDE DEF m
  <2> QED BY <2>1, <2>2, <2>3, <2>4 DEF UpRuns, m
<1>7. UpRuns(7)
  <2> DEFINE m == Revisions[7].up
  <2>1. DOMAIN m.ddl = 1..2
    BY RevisionsAre DEF ImportPathTables, Plain
  <2>2. \A j \in 1..2 : m.ddl[j].needs = {} /\ m.ddl[j].drops = {}
    BY RevisionsAre DEF ImportPathTables, Plain, Add, Statement
  <2>3. \A i, j \in 1..2 : i # j => m.ddl[i].adds \intersect m.ddl[j].adds = {}
    BY RevisionsAre DEF ImportPathTables, Plain, Add, Statement
  <2>4. \A j \in 1..2 : \A i \in 1..j - 1 : i \in 1..2 /\ i # j
    OBVIOUS
  <2> HIDE DEF m
  <2> QED BY <2>1, <2>2, <2>3, <2>4 DEF UpRuns, m
<1>8. UpRuns(8)
  <2> DEFINE m == Revisions[8].up
  <2>1. DOMAIN m.ddl = 1..7
    BY RevisionsAre DEF EventTableIndexes, Plain, EventIndexes
  <2>2. \A j \in 1..7 : m.ddl[j].needs = {} /\ m.ddl[j].drops = {}
    BY RevisionsAre DEF EventTableIndexes, Plain, EventIndexes, Add, Statement
  <2>3. \A i, j \in 1..7 : i # j => m.ddl[i].adds \intersect m.ddl[j].adds = {}
    BY RevisionsAre DEF EventTableIndexes, Plain, EventIndexes, Add, Statement
  <2>4. \A j \in 1..7 : \A i \in 1..j - 1 : i \in 1..7 /\ i # j
    OBVIOUS
  <2> HIDE DEF m
  <2> QED BY <2>1, <2>2, <2>3, <2>4 DEF UpRuns, m
<1>9. UpRuns(9)
  <2> DEFINE m == Revisions[9].up
  <2>1. DOMAIN m.ddl = 1..3
    BY RevisionsAre DEF EventSubjectNameColumns, Plain
  <2>2. \A j \in 1..3 : m.ddl[j].needs = {} /\ m.ddl[j].drops = {}
    BY RevisionsAre DEF EventSubjectNameColumns, Plain, Add, Statement
  <2>3. \A i, j \in 1..3 : i # j => m.ddl[i].adds \intersect m.ddl[j].adds = {}
    BY RevisionsAre DEF EventSubjectNameColumns, Plain, Add, Statement
  <2>4. \A j \in 1..3 : \A i \in 1..j - 1 : i \in 1..3 /\ i # j
    OBVIOUS
  <2> HIDE DEF m
  <2> QED BY <2>1, <2>2, <2>3, <2>4 DEF UpRuns, m
<1>10. UpRuns(10)
  <2> DEFINE m == Revisions[10].up
  <2>1. DOMAIN m.ddl = 1..5
    BY RevisionsAre DEF ImportJobReimportColumns, Plain, AddAll, ReimportColumnNames
  <2>2. \A j \in 1..5 : m.ddl[j].needs = {} /\ m.ddl[j].drops = {}
    BY RevisionsAre DEF ImportJobReimportColumns, Plain, AddAll, ReimportColumnNames, Add, Statement
  <2>3. \A i, j \in 1..5 : i # j => m.ddl[i].adds \intersect m.ddl[j].adds = {}
    BY RevisionsAre DEF ImportJobReimportColumns, Plain, AddAll, ReimportColumnNames, Add, Statement
  <2>4. \A j \in 1..5 : \A i \in 1..j - 1 : i \in 1..5 /\ i # j
    OBVIOUS
  <2> HIDE DEF m
  <2> QED BY <2>1, <2>2, <2>3, <2>4 DEF UpRuns, m
<1>11. UpRuns(11)
  <2> DEFINE m == Revisions[11].up
  <2>1. DOMAIN m.ddl = 1..1
    BY RevisionsAre DEF InferredSourcePathTable, Plain
  <2>2. \A j \in 1..1 : m.ddl[j].needs = {} /\ m.ddl[j].drops = {}
    BY RevisionsAre DEF InferredSourcePathTable, Plain, Add, Statement
  <2>3. \A i, j \in 1..1 : i # j => m.ddl[i].adds \intersect m.ddl[j].adds = {}
    BY RevisionsAre DEF InferredSourcePathTable, Plain, Add, Statement
  <2>4. \A j \in 1..1 : \A i \in 1..j - 1 : i \in 1..1 /\ i # j
    OBVIOUS
  <2> HIDE DEF m
  <2> QED BY <2>1, <2>2, <2>3, <2>4 DEF UpRuns, m
<1> QED BY <1>1, <1>2, <1>3, <1>4, <1>5, <1>6, <1>7, <1>8, <1>9, <1>10, <1>11

\* Each statement of a downgrade finds what it needs of its revision; together,
\* and with the commit, they drop all of it, and the last puts the columns of the
\* tenth back.
DownRuns(q) ==
    LET m == Revisions[q].down
    IN  /\ \A j \in DOMAIN m.ddl :
              /\ m.ddl[j].needs \subseteq Added[q]
              /\ \A i \in 1..j - 1 : /\ m.ddl[i].adds \intersect m.ddl[j].adds = {}
                                     /\ m.ddl[i].drops \intersect m.ddl[j].needs = {}
        /\ \A e \in Added[q] : e \in m.commit.drops \/ \E i \in DOMAIN m.ddl : e \in m.ddl[i].drops
        /\ q = 12 => \A e \in Added[10] : \E i \in DOMAIN m.ddl : e \in m.ddl[i].adds

LEMMA EarlierDownsRun == \A q \in 1..11 : DownRuns(q)
<1>1. DownRuns(1)
  <2> DEFINE m == Revisions[1].down
  <2>1. DOMAIN m.ddl = 1..3
    BY RevisionsAre DEF InitialEventTables, Plain
  <2>2. \A j \in 1..3 : m.ddl[j].adds = {} /\ m.ddl[j].needs \subseteq Added[1]
    BY RevisionsAre DEF InitialEventTables, Plain, Drop, Statement, Added
  <2>3. \A i, j \in 1..3 : i # j => m.ddl[i].drops \intersect m.ddl[j].needs = {}
    BY RevisionsAre DEF InitialEventTables, Plain, Drop, Statement
  <2>4. \A e \in Added[1] : e \in m.ddl[1].drops \/ e \in m.ddl[2].drops \/ e \in m.ddl[3].drops
    BY RevisionsAre DEF InitialEventTables, Plain, Drop, Statement, Added
  <2>5. \A j \in 1..3 : \A i \in 1..j - 1 : i \in 1..3 /\ i # j
    OBVIOUS
  <2> HIDE DEF m
  <2>6. \A e \in Added[1] : \E i \in 1..3 : e \in m.ddl[i].drops
    BY <2>4
  <2>7. \A j \in DOMAIN m.ddl : \A i \in 1..j - 1 : /\ m.ddl[i].adds \intersect m.ddl[j].adds = {}
                                                     /\ m.ddl[i].drops \intersect m.ddl[j].needs = {}
    BY <2>1, <2>2, <2>3, <2>5
  <2>8. /\ \A j \in DOMAIN m.ddl : m.ddl[j].needs \subseteq Added[1]
        /\ \A e \in Added[1] : \E i \in DOMAIN m.ddl : e \in m.ddl[i].drops
    BY <2>1, <2>2, <2>6
  <2> QED BY <2>7, <2>8 DEF DownRuns, m
<1>2. DownRuns(2)
  <2> DEFINE m == Revisions[2].down
  <2>1. DOMAIN m.ddl = 1..2
    BY RevisionsAre DEF ImportJobPersistenceTables, Plain
  <2>2. \A j \in 1..2 : m.ddl[j].adds = {} /\ m.ddl[j].needs \subseteq Added[2]
    BY RevisionsAre DEF ImportJobPersistenceTables, Plain, Drop, Statement, Added
  <2>3. \A i, j \in 1..2 : i # j => m.ddl[i].drops \intersect m.ddl[j].needs = {}
    BY RevisionsAre DEF ImportJobPersistenceTables, Plain, Drop, Statement
  <2>4. \A e \in Added[2] : e \in m.ddl[1].drops \/ e \in m.ddl[2].drops
    BY RevisionsAre DEF ImportJobPersistenceTables, Plain, Drop, Statement, Added
  <2>5. \A j \in 1..2 : \A i \in 1..j - 1 : i \in 1..2 /\ i # j
    OBVIOUS
  <2> HIDE DEF m
  <2>6. \A e \in Added[2] : \E i \in 1..2 : e \in m.ddl[i].drops
    BY <2>4
  <2>7. \A j \in DOMAIN m.ddl : \A i \in 1..j - 1 : /\ m.ddl[i].adds \intersect m.ddl[j].adds = {}
                                                     /\ m.ddl[i].drops \intersect m.ddl[j].needs = {}
    BY <2>1, <2>2, <2>3, <2>5
  <2>8. /\ \A j \in DOMAIN m.ddl : m.ddl[j].needs \subseteq Added[2]
        /\ \A e \in Added[2] : \E i \in DOMAIN m.ddl : e \in m.ddl[i].drops
    BY <2>1, <2>2, <2>6
  <2> QED BY <2>7, <2>8 DEF DownRuns, m
<1>3. DownRuns(3)
  <2> DEFINE m == Revisions[3].down
  <2>1. DOMAIN m.ddl = 1..1 /\ m.ddl[1].needs \subseteq Added[3] /\ Added[3] \subseteq m.commit.drops
    BY RevisionsAre DEF ImportJobOutputColumn, Rebuild, AddScratch, Statement, Added
  <2>2. \A j \in 1..1 : j = 1 /\ 1..j - 1 = {}
    OBVIOUS
  <2> HIDE DEF m
  <2> QED BY <2>1, <2>2 DEF DownRuns, m
<1>4. DownRuns(4)
  <2> DEFINE m == Revisions[4].down
  <2>1. DOMAIN m.ddl = 1..1 /\ m.ddl[1].needs \subseteq Added[4] /\ Added[4] \subseteq m.commit.drops
    BY RevisionsAre DEF ImportJobQuietColumn, Rebuild, AddScratch, Statement, Added
  <2>2. \A j \in 1..1 : j = 1 /\ 1..j - 1 = {}
    OBVIOUS
  <2> HIDE DEF m
  <2> QED BY <2>1, <2>2 DEF DownRuns, m
<1>5. DownRuns(5)
  <2> DEFINE m == Revisions[5].down
  <2>1. DOMAIN m.ddl = 1..1 /\ m.ddl[1].needs \subseteq Added[5] /\ Added[5] \subseteq m.commit.drops
    BY RevisionsAre DEF ImportJobSettingsColumns, Rebuild, AddScratch, Statement, Added, SettingsColumns
  <2>2. \A j \in 1..1 : j = 1 /\ 1..j - 1 = {}
    OBVIOUS
  <2> HIDE DEF m
  <2> QED BY <2>1, <2>2 DEF DownRuns, m
<1>6. DownRuns(6)
  <2> DEFINE m == Revisions[6].down
  <2>1. DOMAIN m.ddl = 1..1
    BY RevisionsAre DEF AuthSessionTable, Plain
  <2>2. \A j \in 1..1 : m.ddl[j].adds = {} /\ m.ddl[j].needs \subseteq Added[6]
    BY RevisionsAre DEF AuthSessionTable, Plain, Drop, Statement, Added
  <2>3. \A i, j \in 1..1 : i # j => m.ddl[i].drops \intersect m.ddl[j].needs = {}
    BY RevisionsAre DEF AuthSessionTable, Plain, Drop, Statement
  <2>4. \A e \in Added[6] : e \in m.ddl[1].drops
    BY RevisionsAre DEF AuthSessionTable, Plain, Drop, Statement, Added
  <2>5. \A j \in 1..1 : \A i \in 1..j - 1 : i \in 1..1 /\ i # j
    OBVIOUS
  <2> HIDE DEF m
  <2>6. \A e \in Added[6] : \E i \in 1..1 : e \in m.ddl[i].drops
    BY <2>4
  <2>7. \A j \in DOMAIN m.ddl : \A i \in 1..j - 1 : /\ m.ddl[i].adds \intersect m.ddl[j].adds = {}
                                                     /\ m.ddl[i].drops \intersect m.ddl[j].needs = {}
    BY <2>1, <2>2, <2>3, <2>5
  <2>8. /\ \A j \in DOMAIN m.ddl : m.ddl[j].needs \subseteq Added[6]
        /\ \A e \in Added[6] : \E i \in DOMAIN m.ddl : e \in m.ddl[i].drops
    BY <2>1, <2>2, <2>6
  <2> QED BY <2>7, <2>8 DEF DownRuns, m
<1>7. DownRuns(7)
  <2> DEFINE m == Revisions[7].down
  <2>1. DOMAIN m.ddl = 1..2
    BY RevisionsAre DEF ImportPathTables, Plain
  <2>2. \A j \in 1..2 : m.ddl[j].adds = {} /\ m.ddl[j].needs \subseteq Added[7]
    BY RevisionsAre DEF ImportPathTables, Plain, Drop, Statement, Added
  <2>3. \A i, j \in 1..2 : i # j => m.ddl[i].drops \intersect m.ddl[j].needs = {}
    BY RevisionsAre DEF ImportPathTables, Plain, Drop, Statement
  <2>4. \A e \in Added[7] : e \in m.ddl[1].drops \/ e \in m.ddl[2].drops
    BY RevisionsAre DEF ImportPathTables, Plain, Drop, Statement, Added
  <2>5. \A j \in 1..2 : \A i \in 1..j - 1 : i \in 1..2 /\ i # j
    OBVIOUS
  <2> HIDE DEF m
  <2>6. \A e \in Added[7] : \E i \in 1..2 : e \in m.ddl[i].drops
    BY <2>4
  <2>7. \A j \in DOMAIN m.ddl : \A i \in 1..j - 1 : /\ m.ddl[i].adds \intersect m.ddl[j].adds = {}
                                                     /\ m.ddl[i].drops \intersect m.ddl[j].needs = {}
    BY <2>1, <2>2, <2>3, <2>5
  <2>8. /\ \A j \in DOMAIN m.ddl : m.ddl[j].needs \subseteq Added[7]
        /\ \A e \in Added[7] : \E i \in DOMAIN m.ddl : e \in m.ddl[i].drops
    BY <2>1, <2>2, <2>6
  <2> QED BY <2>7, <2>8 DEF DownRuns, m
<1>8. DownRuns(8)
  <2> DEFINE m == Revisions[8].down
  <2>1. DOMAIN m.ddl = 1..7
    BY RevisionsAre DEF EventTableIndexes, Plain, EventIndexes
  <2>2. \A j \in 1..7 : m.ddl[j].adds = {} /\ m.ddl[j].needs \subseteq Added[8]
    BY RevisionsAre DEF EventTableIndexes, Plain, EventIndexes, Drop, Statement, Added
  <2>3. \A i, j \in 1..7 : i # j => m.ddl[i].drops \intersect m.ddl[j].needs = {}
    BY RevisionsAre DEF EventTableIndexes, Plain, EventIndexes, Drop, Statement
  <2>4. \A e \in Added[8] : e \in m.ddl[1].drops \/ e \in m.ddl[2].drops \/ e \in m.ddl[3].drops \/ e \in m.ddl[4].drops \/ e \in m.ddl[5].drops \/ e \in m.ddl[6].drops \/ e \in m.ddl[7].drops
    BY RevisionsAre DEF EventTableIndexes, Plain, EventIndexes, Drop, Statement, Added
  <2>5. \A j \in 1..7 : \A i \in 1..j - 1 : i \in 1..7 /\ i # j
    OBVIOUS
  <2> HIDE DEF m
  <2>6. \A e \in Added[8] : \E i \in 1..7 : e \in m.ddl[i].drops
    BY <2>4
  <2>7. \A j \in DOMAIN m.ddl : \A i \in 1..j - 1 : /\ m.ddl[i].adds \intersect m.ddl[j].adds = {}
                                                     /\ m.ddl[i].drops \intersect m.ddl[j].needs = {}
    BY <2>1, <2>2, <2>3, <2>5
  <2>8. /\ \A j \in DOMAIN m.ddl : m.ddl[j].needs \subseteq Added[8]
        /\ \A e \in Added[8] : \E i \in DOMAIN m.ddl : e \in m.ddl[i].drops
    BY <2>1, <2>2, <2>6
  <2> QED BY <2>7, <2>8 DEF DownRuns, m
<1>9. DownRuns(9)
  <2> DEFINE m == Revisions[9].down
  <2>1. DOMAIN m.ddl = 1..1 /\ m.ddl[1].needs \subseteq Added[9] /\ Added[9] \subseteq m.commit.drops
    BY RevisionsAre DEF EventSubjectNameColumns, Rebuild, AddScratch, Statement, Added
  <2>2. \A j \in 1..1 : j = 1 /\ 1..j - 1 = {}
    OBVIOUS
  <2> HIDE DEF m
  <2> QED BY <2>1, <2>2 DEF DownRuns, m
<1>10. DownRuns(10)
  <2> DEFINE m == Revisions[10].down
  <2>1. DOMAIN m.ddl = 1..1 /\ m.ddl[1].needs \subseteq Added[10] /\ Added[10] \subseteq m.commit.drops
    BY RevisionsAre DEF ImportJobReimportColumns, Rebuild, AddScratch, Statement, Added, ReimportColumnNames
  <2>2. \A j \in 1..1 : j = 1 /\ 1..j - 1 = {}
    OBVIOUS
  <2> HIDE DEF m
  <2> QED BY <2>1, <2>2 DEF DownRuns, m
<1>11. DownRuns(11)
  <2> DEFINE m == Revisions[11].down
  <2>1. DOMAIN m.ddl = 1..1
    BY RevisionsAre DEF InferredSourcePathTable, Plain
  <2>2. \A j \in 1..1 : m.ddl[j].adds = {} /\ m.ddl[j].needs \subseteq Added[11]
    BY RevisionsAre DEF InferredSourcePathTable, Plain, Drop, Statement, Added
  <2>3. \A i, j \in 1..1 : i # j => m.ddl[i].drops \intersect m.ddl[j].needs = {}
    BY RevisionsAre DEF InferredSourcePathTable, Plain, Drop, Statement
  <2>4. \A e \in Added[11] : e \in m.ddl[1].drops
    BY RevisionsAre DEF InferredSourcePathTable, Plain, Drop, Statement, Added
  <2>5. \A j \in 1..1 : \A i \in 1..j - 1 : i \in 1..1 /\ i # j
    OBVIOUS
  <2> HIDE DEF m
  <2>6. \A e \in Added[11] : \E i \in 1..1 : e \in m.ddl[i].drops
    BY <2>4
  <2>7. \A j \in DOMAIN m.ddl : \A i \in 1..j - 1 : /\ m.ddl[i].adds \intersect m.ddl[j].adds = {}
                                                     /\ m.ddl[i].drops \intersect m.ddl[j].needs = {}
    BY <2>1, <2>2, <2>3, <2>5
  <2>8. /\ \A j \in DOMAIN m.ddl : m.ddl[j].needs \subseteq Added[11]
        /\ \A e \in Added[11] : \E i \in DOMAIN m.ddl : e \in m.ddl[i].drops
    BY <2>1, <2>2, <2>6
  <2> QED BY <2>7, <2>8 DEF DownRuns, m
<1> QED BY <1>1, <1>2, <1>3, <1>4, <1>5, <1>6, <1>7, <1>8, <1>9, <1>10, <1>11

LEMMA LastUpRuns == UpRuns(12)
<1> DEFINE m == Revisions[12].up
<1>1. /\ DOMAIN m.ddl = 1..8
      /\ \A i \in 1..3 : m.ddl[i] = Add(<<"import_job", CleanSlateColumns[i]>>)
      /\ \A i \in 4..8 : m.ddl[i] = Drop(<<"import_job", ReimportColumnNames[9 - i]>>)
  BY LastUpStatements
<1> HIDE DEF m
<1>2. \A i \in 1..3 : /\ m.ddl[i].adds = {<<"import_job", CleanSlateColumns[i]>>}
                      /\ m.ddl[i].drops = {} /\ m.ddl[i].needs = {}
  BY <1>1 DEF Add, Statement
<1>3. \A i \in 4..8 : /\ m.ddl[i].adds = {}
                      /\ m.ddl[i].drops = {<<"import_job", ReimportColumnNames[9 - i]>>}
                      /\ m.ddl[i].needs = m.ddl[i].drops
  <2>1. ASSUME NEW i \in 4..8
        PROVE  /\ m.ddl[i].adds = {} /\ m.ddl[i].needs = m.ddl[i].drops
               /\ m.ddl[i].drops = {<<"import_job", ReimportColumnNames[9 - i]>>}
    <3>1. m.ddl[i] = Drop(<<"import_job", ReimportColumnNames[9 - i]>>)
      BY <1>1
    <3> QED BY <3>1 DEF Drop, Statement
  <2> QED BY <2>1
<1>4. \A i, j \in 1..3 : i # j => CleanSlateColumns[i] # CleanSlateColumns[j]
  BY DEF CleanSlateColumns
<1>5. \A i, j \in 4..8 : i # j => ReimportColumnNames[9 - i] # ReimportColumnNames[9 - j]
  BY DEF ReimportColumnNames
<1>6. \A j \in 1..8 : j \in 1..3 \/ j \in 4..8
  OBVIOUS
<1>7. \A j \in 1..8 : \A i \in 1..j - 1 : i \in 1..8 /\ i # j
  OBVIOUS
<1>8. \A i, j \in 1..8 : i # j => m.ddl[i].adds \intersect m.ddl[j].adds = {}
  BY <1>2, <1>3, <1>4, <1>6
<1>9. \A i, j \in 1..8 : i # j => m.ddl[i].drops \intersect m.ddl[j].drops = {}
  BY <1>2, <1>3, <1>5, <1>6
<1>10. \A j \in 1..8 : m.ddl[j].needs = m.ddl[j].drops
  BY <1>2, <1>3, <1>6
<1> QED BY <1>1, <1>7, <1>8, <1>9, <1>10 DEF UpRuns, m

LEMMA LastDownRuns == DownRuns(12)
<1> DEFINE m == Revisions[12].down
<1>1. /\ DOMAIN m.ddl = 1..6
      /\ \A i \in 1..5 : m.ddl[i] = Add(<<"import_job", ReimportColumnNames[i]>>)
      /\ m.ddl[6] = AddScratch("import_job", LastLosing)
      /\ m.commit = Statement({}, LastLosing \union {Scratch("import_job")})
  BY LastDownStatements
<1> HIDE DEF m
<1>2. \A i \in 1..5 : /\ m.ddl[i].adds = {<<"import_job", ReimportColumnNames[i]>>}
                      /\ m.ddl[i].drops = {} /\ m.ddl[i].needs = {}
  BY <1>1 DEF Add, Statement
<1>3. /\ m.ddl[6].adds = {Scratch("import_job")} /\ m.ddl[6].needs = LastLosing
      /\ m.ddl[6].drops = {}
  BY <1>1 DEF AddScratch
<1>4. \A i, j \in 1..5 : i # j => ReimportColumnNames[i] # ReimportColumnNames[j]
  BY DEF ReimportColumnNames
<1>5. \A i \in 1..5 : <<"import_job", ReimportColumnNames[i]>> # Scratch("import_job")
  BY DEF Scratch, ScratchNames
<1>6. \A j \in 1..6 : j \in 1..5 \/ j = 6
  OBVIOUS
<1>7. \A j \in 1..6 : \A i \in 1..j - 1 : i \in 1..6 /\ i # j
  OBVIOUS
<1>8. \A i, j \in 1..6 : i # j => m.ddl[i].adds \intersect m.ddl[j].adds = {}
  BY <1>2, <1>3, <1>4, <1>5, <1>6
<1>9. \A i \in 1..6 : m.ddl[i].drops = {}
  BY <1>2, <1>3, <1>6
<1>10. LastLosing = Added[12]
  BY DEF LastLosing, CleanSlateColumns, Added
<1>11. \A j \in 1..6 : m.ddl[j].needs \subseteq Added[12]
  BY <1>2, <1>3, <1>6, <1>10
<1>12. Added[12] \subseteq m.commit.drops
  BY <1>1, <1>10 DEF Statement
<1>13. \A e \in Added[10] : \/ e \in m.ddl[1].adds \/ e \in m.ddl[2].adds \/ e \in m.ddl[3].adds
                            \/ e \in m.ddl[4].adds \/ e \in m.ddl[5].adds
  BY <1>2 DEF Added, ReimportColumnNames
<1>14. \A e \in Added[10] : \E i \in 1..6 : e \in m.ddl[i].adds
  BY <1>13
<1>15. \A j \in DOMAIN m.ddl : /\ m.ddl[j].needs \subseteq Added[12]
                              /\ \A i \in 1..j - 1 : /\ m.ddl[i].adds \intersect m.ddl[j].adds = {}
                                                     /\ m.ddl[i].drops \intersect m.ddl[j].needs = {}
  BY <1>1, <1>7, <1>8, <1>9, <1>11
<1> QED BY <1>1, <1>12, <1>14, <1>15 DEF DownRuns, m

LEMMA UpsRun == \A q \in 1..12 : UpRuns(q)
BY EarlierUpsRun, LastUpRuns

LEMMA DownsRun == \A q \in 1..12 : DownRuns(q)
BY EarlierDownsRun, LastDownRuns

\* A schema after the first n statements of a migration.
Partly(m, n, sch) ==
    {e \in sch : \A i \in 1..n : ~Gone(m.ddl[i], e)} \union UNION {m.ddl[i].adds : i \in 1..n}

\* Nothing that is added is dropped again by the same migration.
Lasting(m) == \A j \in DOMAIN m.ddl : \A i \in 1..j - 1 : \A e \in m.ddl[i].adds : ~Gone(m.ddl[j], e)

LEMMA OneMore ==
    ASSUME NEW m, NEW sch, Lasting(m), NEW n \in Nat, n + 1 \in DOMAIN m.ddl
    PROVE  Apply(m.ddl[n + 1], Partly(m, n, sch)) = Partly(m, n + 1, sch)
<1> DEFINE j == n + 1
<1>1. \A i \in 1..n : \A e \in m.ddl[i].adds : ~Gone(m.ddl[j], e)
  <2>1. j - 1 = n
    OBVIOUS
  <2> QED BY <2>1 DEF Lasting
<1>2. \A i : i \in 1..j <=> i \in 1..n \/ i = j
  OBVIOUS
<1> HIDE DEF j
<1>3. ASSUME NEW e PROVE e \in Apply(m.ddl[j], Partly(m, n, sch)) <=> e \in Partly(m, j, sch)
  <2>1. e \in Partly(m, n, sch) <=> \/ e \in sch /\ \A i \in 1..n : ~Gone(m.ddl[i], e)
                                    \/ \E i \in 1..n : e \in m.ddl[i].adds
    BY DEF Partly
  <2>2. e \in Partly(m, j, sch) <=> \/ e \in sch /\ \A i \in 1..j : ~Gone(m.ddl[i], e)
                                    \/ \E i \in 1..j : e \in m.ddl[i].adds
    BY DEF Partly
  <2>3. e \in Apply(m.ddl[j], Partly(m, n, sch)) <=>
            \/ e \in Partly(m, n, sch) /\ ~Gone(m.ddl[j], e)
            \/ e \in m.ddl[j].adds
    BY DEF Apply
  <2> QED BY <1>1, <1>2, <2>1, <2>2, <2>3
<1> QED BY <1>3 DEF j

\* Of what a revision adds, a statement drops what it names and nothing else.
LEMMA GoneByName ==
    ASSUME NEW q \in 1..12, NEW e \in Added[q], NEW s, s.drops \subseteq Added[q], Gone(s, e)
    PROVE  e \in s.drops
<1>1. <<e[1]>> = e \/ \E r \in 1..12 : r < q /\ <<e[1]>> \in Added[r]
  BY TablesAre DEF TablesOf
<1>2. ASSUME NEW r \in 1..12, r < q, <<e[1]>> \in Added[r] PROVE <<e[1]>> \notin s.drops
  <2>1. \A k \in 1..12 : \A f \in Added[k] : Level(f) = k
    BY ElementsAre DEF Leveled
  <2> QED BY <1>2, <2>1
<1> QED BY <1>1, <1>2 DEF Gone

\* The revision above a schema applies to it, statement by statement.
LEMMA UpApplies ==
    ASSUME NEW q \in 1..12, NEW n \in Nat, n + 1 \in DOMAIN Revisions[q].up.ddl
    PROVE  Applies(Revisions[q].up.ddl[n + 1], Partly(Revisions[q].up, n, SchemaAt[q - 1]))
<1> DEFINE m == Revisions[q].up
           s == m.ddl[n + 1]
           base == SchemaAt[q - 1]
           sch == Partly(m, n, base)
<1>1. /\ q - 1 \in 0..12 /\ q - 1 # 12 /\ (\A r \in 1..q - 1 : r \in 1..12 /\ r # q)
      /\ n + 1 - 1 = n
  OBVIOUS
<1>2. /\ \A e \in base : \E r \in 1..q - 1 : e \in Added[r]
      /\ \A r \in 1..q - 1 : Added[r] \subseteq base
  BY <1>1, SchemasAre
<1>3. /\ s.needs = s.drops
      /\ \A i \in 1..n : /\ m.ddl[i].adds \intersect s.adds = {}
                        /\ m.ddl[i].drops \intersect s.drops = {}
  <2>1. UpRuns(q) /\ n + 1 \in DOMAIN m.ddl
    BY UpsRun
  <2> QED BY <1>1, <2>1 DEF UpRuns
<1>4. DdlOf(m) /\ \A i \in 1..n : i \in DOMAIN m.ddl
  <2>1. DdlOf(m)
    BY UpsAre DEF UpIs
  <2> QED BY <2>1 DEF DdlOf
<1>5. \A i \in DOMAIN m.ddl : /\ m.ddl[i].adds \subseteq Added[q]
                             /\ m.ddl[i].drops \subseteq (IF q = 12 THEN Added[10] ELSE {})
  BY UpsAre DEF UpIs
<1>6. \A r \in 1..12 : \A e \in Added[r] : Level(e) = r
  BY ElementsAre DEF Leveled
<1>7. \A r \in 1..q - 1 : r # 10 => Added[r] \subseteq sch
  <2> SUFFICES ASSUME NEW r \in 1..q - 1, r # 10, NEW e \in Added[r] PROVE e \in sch
    OBVIOUS
  <2>1. \A i \in 1..n : ~Gone(m.ddl[i], e)
    BY <1>1, <1>4, UpKeeps
  <2>2. e \in base
    BY <1>2
  <2> QED BY <2>1, <2>2 DEF Partly
<1> HIDE DEF base
<1>8. \A e \in sch : e \in base \/ \E i \in 1..n : e \in m.ddl[i].adds
  BY DEF Partly
<1> HIDE DEF m, sch
<1>9. \A e \in s.adds : e \notin sch
  <2>1. \A e \in s.adds : e \in Added[q]
    BY <1>5 DEF m
  <2>2. \A e \in s.adds : e \notin base
    BY <1>1, <1>2, <1>6, <2>1
  <2> QED BY <1>3, <1>8, <2>2
<1>10. \A e \in s.adds : Len(e) = 2 => <<e[1]>> \in sch
  <2>1. \A e \in s.adds : e \in Added[q]
    BY <1>5 DEF m
  <2>2. \A e \in s.adds : Len(e) = 2 => \E r \in 1..12 : r < q /\ r # 10 /\ <<e[1]>> \in Added[r]
    BY <2>1, TablesAre DEF TablesOf
  <2>3. \A r \in 1..12 : r < q => r \in 1..q - 1
    OBVIOUS
  <2> QED BY <1>7, <2>2, <2>3
<1>11. s.needs \subseteq sch
  <2> SUFFICES ASSUME NEW e \in s.drops PROVE e \in sch
    BY <1>3
  <2>1. q = 12 /\ e \in Added[10] /\ 10 \in 1..12 /\ 10 \in 1..q - 1
    BY <1>5 DEF m
  <2>2. e \in base
    BY <1>2, <2>1
  <2>3. ASSUME NEW i \in 1..n, Gone(m.ddl[i], e) PROVE FALSE
    <3>1. m.ddl[i].drops \subseteq Added[10]
      BY <1>4, <1>5, <2>1
    <3>2. e \in m.ddl[i].drops
      BY <2>1, <2>3, <3>1, GoneByName
    <3> QED BY <1>3, <3>2
  <2> QED BY <2>2, <2>3 DEF sch, Partly
<1> QED BY <1>9, <1>10, <1>11 DEF Applies, m, sch, base

LEMMA UpLasts == \A q \in 1..12 : Lasting(Revisions[q].up)
<1> SUFFICES ASSUME NEW q \in 1..12, NEW j \in DOMAIN Revisions[q].up.ddl, NEW i \in 1..j - 1,
                    NEW e \in Revisions[q].up.ddl[i].adds
             PROVE  ~Gone(Revisions[q].up.ddl[j], e)
  BY DEF Lasting
<1>1. i \in DOMAIN Revisions[q].up.ddl
  <2>1. DdlOf(Revisions[q].up)
    BY UpsAre DEF UpIs
  <2> QED BY <2>1 DEF DdlOf
<1>2. e \in Added[q]
  BY <1>1, UpsAre DEF UpIs
<1> QED BY <1>2, UpKeeps

\* An upgrade makes of the schema of a revision that of the next.
LEMMA UpMakes ==
    ASSUME NEW q \in 1..12
    PROVE  LET m == Revisions[q].up
           IN  Apply(m.commit, Partly(m, Len(m.ddl), SchemaAt[q - 1])) = SchemaAt[q]
<1> DEFINE m == Revisions[q].up
           base == SchemaAt[q - 1]
           sch == Partly(m, Len(m.ddl), base)
<1>1. /\ q - 1 \in 0..12 /\ q - 1 # 12 /\ q \in 0..12 /\ q \in 1..q
      /\ \A r : r \in 1..q <=> r \in 1..q - 1 \/ r = q
      /\ \A r \in 1..q : r \in 1..12
  OBVIOUS
<1>2. /\ \A e \in base : \E r \in 1..q - 1 : e \in Added[r]
      /\ \A r \in 1..q - 1 : Added[r] \subseteq base
  BY <1>1, SchemasAre
<1>3. /\ \A e \in SchemaAt[q] : \E r \in 1..q : e \in Added[r]
      /\ \A r \in 1..q : r # 10 \/ q # 12 => Added[r] \subseteq SchemaAt[q]
      /\ q = 12 => Added[10] \intersect SchemaAt[q] = {}
  BY <1>1, SchemasAre
<1>4. /\ m.commit = Nothing /\ DOMAIN m.ddl = 1..Len(m.ddl)
      /\ \A i \in DOMAIN m.ddl : m.ddl[i].adds \subseteq Added[q]
  BY UpsAre DEF UpIs, DdlOf
<1>5. /\ \A e \in Added[q] : \E i \in DOMAIN m.ddl : e \in m.ddl[i].adds
      /\ q = 12 => \A e \in Added[10] : \E i \in DOMAIN m.ddl : e \in m.ddl[i].drops
  BY UpsAre DEF UpCovers
<1>6. \A i \in DOMAIN m.ddl : \A r \in 1..12 : \A e \in Added[r] :
          q # 12 \/ r # 10 => ~Gone(m.ddl[i], e)
  BY UpKeeps
<1>7. \A r \in 1..12 : \A e \in Added[r] : Level(e) = r
  BY ElementsAre DEF Leveled
<1>8. 10 \in 1..12 /\ 12 # 10
  OBVIOUS
<1> HIDE DEF m, base
<1>9. ASSUME NEW e PROVE e \in sch <=> \/ e \in base /\ \A i \in DOMAIN m.ddl : ~Gone(m.ddl[i], e)
                                       \/ \E i \in DOMAIN m.ddl : e \in m.ddl[i].adds
  BY <1>4 DEF Partly
<1> HIDE DEF sch
<1>10. ASSUME NEW e \in sch PROVE e \in SchemaAt[q]
  <2>1. CASE e \in Added[q]
    BY <1>1, <1>3, <1>8, <2>1
  <2>2. CASE e \notin Added[q]
    <3>1. e \in base /\ \A i \in DOMAIN m.ddl : ~Gone(m.ddl[i], e)
      BY <1>4, <1>9, <2>2
    <3>2. PICK r \in 1..q - 1 : e \in Added[r]
      BY <1>2, <3>1
    <3>3. r # 10 \/ q # 12
      BY <1>5, <3>1, <3>2 DEF Gone
    <3> QED BY <1>1, <1>3, <3>2, <3>3
  <2> QED BY <2>1, <2>2
<1>11. ASSUME NEW e \in SchemaAt[q] PROVE e \in sch
  <2>1. PICK r \in 1..q : e \in Added[r]
    BY <1>3
  <2>2. CASE r = q
    BY <1>5, <1>9, <2>1, <2>2
  <2>3. CASE r # q
    <3>1. r \in 1..q - 1 /\ e \in base
      BY <1>1, <1>2, <2>1, <2>3
    <3>2. q # 12 \/ r # 10
      BY <1>3, <2>1
    <3>3. \A i \in DOMAIN m.ddl : ~Gone(m.ddl[i], e)
      BY <1>1, <1>6, <2>1, <3>2
    <3> QED BY <1>9, <3>1, <3>3
  <2> QED BY <2>2, <2>3
<1>12. Apply(m.commit, sch) = sch
  BY <1>4 DEF Apply, Nothing, Statement, Gone
<1> QED BY <1>10, <1>11, <1>12 DEF m, sch, base

\* The downgrade of a revision applies to its schema, statement by statement.
LEMMA DownLasts == \A q \in 1..12 : Lasting(Revisions[q].down)
<1> SUFFICES ASSUME NEW q \in 1..12, NEW j \in DOMAIN Revisions[q].down.ddl, NEW i \in 1..j - 1,
                    NEW e \in Revisions[q].down.ddl[i].adds
             PROVE  ~Gone(Revisions[q].down.ddl[j], e)
  BY DEF Lasting
<1>1. i \in DOMAIN Revisions[q].down.ddl
  <2>1. DdlOf(Revisions[q].down)
    BY DownsAre DEF DownIs
  <2> QED BY <2>1 DEF DdlOf
<1>2. /\ e \in Scratches \/ (q = 12 /\ e \in Added[10])
      /\ Revisions[q].down.ddl[j].drops \subseteq Added[q]
  BY <1>1, DownsAre DEF DownIs
<1>3. CASE e \in Scratches
  <2>1. Level(e) = 0 /\ Level(<<e[1]>>) = 0
    BY <1>3, TableLevels DEF Scratches, TableLevel
  <2>2. \A d \in Added[q] : Level(d) = q
    BY ElementsAre DEF Leveled
  <2> QED BY <1>2, <2>1, <2>2 DEF Gone
<1>4. CASE q = 12 /\ e \in Added[10]
  <2>1. 10 \in 1..12 /\ 10 < q
    BY <1>4
  <2> QED BY <1>4, <2>1, DownKeeps
<1> QED BY <1>2, <1>3, <1>4

LEMMA DownApplies ==
    ASSUME NEW q \in 1..12, NEW n \in Nat, n + 1 \in DOMAIN Revisions[q].down.ddl
    PROVE  Applies(Revisions[q].down.ddl[n + 1], Partly(Revisions[q].down, n, SchemaAt[q]))
<1> DEFINE m == Revisions[q].down
           s == m.ddl[n + 1]
           base == SchemaAt[q]
           sch == Partly(m, n, base)
<1>1. /\ q \in 0..12 /\ q \in 1..q /\ (\A r \in 1..q : r \in 1..12)
      /\ n + 1 - 1 = n /\ 10 \in 1..12 /\ 2 \in 1..12 /\ q # 0
  OBVIOUS
<1>2. /\ \A e \in base : \E r \in 1..q : e \in Added[r]
      /\ \A r \in 1..q : r # 10 \/ q # 12 => Added[r] \subseteq base
      /\ q = 12 => Added[10] \intersect base = {}
  BY <1>1, SchemasAre
<1>3. /\ s.needs \subseteq Added[q]
      /\ \A i \in 1..n : /\ m.ddl[i].adds \intersect s.adds = {}
                        /\ m.ddl[i].drops \intersect s.needs = {}
  <2>1. DownRuns(q) /\ n + 1 \in DOMAIN m.ddl
    BY DownsRun
  <2> QED BY <1>1, <2>1 DEF DownRuns
<1>4. \A i \in 1..n : i \in DOMAIN m.ddl
  <2>1. DdlOf(m)
    BY DownsAre DEF DownIs
  <2> QED BY <2>1 DEF DdlOf
<1>5. \A i \in DOMAIN m.ddl : /\ m.ddl[i].adds \subseteq Scratches \union (IF q = 12 THEN Added[10] ELSE {})
                             /\ m.ddl[i].drops \subseteq Added[q]
  BY DownsAre DEF DownIs
<1>6. \A r \in 1..12 : \A e \in Added[r] : Level(e) = r
  BY ElementsAre DEF Leveled
<1>7. \A i \in DOMAIN m.ddl : \A r \in 1..12 : r < q => \A e \in Added[r] : ~Gone(m.ddl[i], e)
  BY DownKeeps
<1> HIDE DEF m, base
<1>8. \A e : e \in sch <=> \/ e \in base /\ \A i \in 1..n : ~Gone(m.ddl[i], e)
                           \/ \E i \in 1..n : e \in m.ddl[i].adds
  BY DEF Partly
<1> HIDE DEF sch
<1>9. \A e \in s.adds : e \notin sch
  <2> SUFFICES ASSUME NEW e \in s.adds, e \in base PROVE FALSE
    BY <1>3, <1>8
  <2>1. e \in Scratches \/ (q = 12 /\ e \in Added[10])
    BY <1>5 DEF s, m
  <2>2. e \in Scratches
    BY <1>2, <2>1
  <2>3. PICK r \in 1..q : e \in Added[r]
    BY <1>2
  <2>4. Level(e) = 0 /\ Level(e) = r /\ r # 0
    BY <1>1, <1>6, <2>2, <2>3, ScratchLevel
  <2> QED BY <2>4
<1>10. \A e \in s.adds : Len(e) = 2 => <<e[1]>> \in sch
  <2> SUFFICES ASSUME NEW e \in s.adds, Len(e) = 2 PROVE <<e[1]>> \in sch
    OBVIOUS
  <2>1. \A f \in Scratches : Len(f) = 1
    BY DEF Scratches
  <2>2. q = 12 /\ e \in Added[10]
    BY <1>5, <2>1 DEF s, m
  <2>3. PICK r \in 1..12 : r < 10 /\ <<e[1]>> \in Added[r]
    <3>1. TablesOf(10)
      BY <1>1, TablesAre
    <3> QED BY <2>2, <3>1 DEF TablesOf
  <2>4. r \in 1..12 /\ r < q /\ r # 10 /\ r \in 1..q
    BY <2>2, <2>3
  <2>5. <<e[1]>> \in base /\ \A i \in 1..n : ~Gone(m.ddl[i], <<e[1]>>)
    BY <1>2, <1>4, <1>7, <2>3, <2>4
  <2> QED BY <1>8, <2>5
<1>11. s.needs \subseteq sch
  <2> SUFFICES ASSUME NEW e \in s.needs PROVE e \in sch
    OBVIOUS
  <2>1. e \in Added[q] /\ (q # 10 \/ q # 12)
    BY <1>3
  <2>2. e \in base
    BY <1>1, <1>2, <2>1
  <2>3. ASSUME NEW i \in 1..n, Gone(m.ddl[i], e) PROVE FALSE
    <3>1. m.ddl[i].drops \subseteq Added[q]
      BY <1>4, <1>5
    <3>2. e \in m.ddl[i].drops
      BY <2>1, <2>3, <3>1, GoneByName
    <3> QED BY <1>3, <3>2
  <2> QED BY <1>8, <2>2, <2>3
<1> QED BY <1>9, <1>10, <1>11 DEF Applies, m, sch, base

\* A downgrade makes of the schema of a revision that of the one before.
LEMMA DownMakes ==
    ASSUME NEW q \in 1..12
    PROVE  LET m == Revisions[q].down
           IN  Apply(m.commit, Partly(m, Len(m.ddl), SchemaAt[q])) = SchemaAt[q - 1]
<1> DEFINE m == Revisions[q].down
           base == SchemaAt[q]
           sch == Partly(m, Len(m.ddl), base)
           left == Apply(m.commit, sch)
<1>1. /\ q - 1 \in 0..12 /\ q - 1 # 12 /\ q \in 0..12 /\ 10 \in 1..12
      /\ \A r : r \in 1..q <=> r \in 1..q - 1 \/ r = q
      /\ \A r \in 1..q : r \in 1..12
      /\ \A r \in 1..q - 1 : r < q
      /\ q = 12 => 10 \in 1..q - 1 /\ 10 < q
  OBVIOUS
<1>2. /\ \A e \in base : \E r \in 1..q : e \in Added[r]
      /\ \A r \in 1..q : r # 10 \/ q # 12 => Added[r] \subseteq base
      /\ q = 12 => Added[10] \intersect base = {}
  BY <1>1, SchemasAre
<1>3. /\ \A e \in SchemaAt[q - 1] : \E r \in 1..q - 1 : e \in Added[r]
      /\ \A r \in 1..q - 1 : Added[r] \subseteq SchemaAt[q - 1]
  BY <1>1, SchemasAre
<1>4. DOMAIN m.ddl = 1..Len(m.ddl)
  BY DownsAre DEF DownIs, DdlOf
<1>5. /\ m.commit.adds = {}
      /\ \A i \in DOMAIN m.ddl : m.ddl[i].adds \subseteq m.commit.drops \union (IF q = 12 THEN Added[10] ELSE {})
  BY DownsAre DEF DownIs
<1>6. /\ \A e \in Added[q] : e \in m.commit.drops \/ \E i \in DOMAIN m.ddl : e \in m.ddl[i].drops
      /\ q = 12 => \A e \in Added[10] : \E i \in DOMAIN m.ddl : e \in m.ddl[i].adds
  BY DownsRun DEF DownRuns
<1>7. \A r \in 1..12 : r < q => \A e \in Added[r] : /\ \A i \in DOMAIN m.ddl : ~Gone(m.ddl[i], e)
                                                   /\ ~Gone(m.commit, e)
  BY DownKeeps
<1> HIDE DEF m, base
<1>8. ASSUME NEW e PROVE e \in left <=> /\ \/ e \in base /\ \A i \in DOMAIN m.ddl : ~Gone(m.ddl[i], e)
                                           \/ \E i \in DOMAIN m.ddl : e \in m.ddl[i].adds
                                        /\ ~Gone(m.commit, e)
  BY <1>4, <1>5 DEF Partly, Apply
<1> HIDE DEF left
<1>9. ASSUME NEW e \in left PROVE e \in SchemaAt[q - 1]
  <2>1. e \notin m.commit.drops
    BY <1>8 DEF Gone
  <2>2. CASE e \in base /\ \A i \in DOMAIN m.ddl : ~Gone(m.ddl[i], e)
    <3>1. e \notin Added[q]
      BY <1>6, <2>1, <2>2 DEF Gone
    <3>2. PICK r \in 1..q - 1 : e \in Added[r]
      BY <1>1, <1>2, <2>2, <3>1
    <3> QED BY <1>3, <3>2
  <2>3. CASE \E i \in DOMAIN m.ddl : e \in m.ddl[i].adds
    <3>1. q = 12 /\ e \in Added[10]
      BY <1>5, <2>1, <2>3
    <3> QED BY <1>1, <1>3, <3>1
  <2> QED BY <1>8, <2>2, <2>3
<1>10. ASSUME NEW e \in SchemaAt[q - 1] PROVE e \in left
  <2>1. PICK r \in 1..q - 1 : e \in Added[r]
    BY <1>3
  <2>2. (\A i \in DOMAIN m.ddl : ~Gone(m.ddl[i], e)) /\ ~Gone(m.commit, e)
    BY <1>1, <1>7, <2>1
  <2>3. CASE r # 10 \/ q # 12
    <3>1. e \in base
      BY <1>1, <1>2, <2>1, <2>3
    <3> QED BY <1>8, <2>2, <3>1
  <2>4. CASE r = 10 /\ q = 12
    BY <1>6, <1>8, <2>1, <2>2, <2>4
  <2> QED BY <2>3, <2>4
<1> QED BY <1>9, <1>10 DEF left, m, sch, base

\* Until something crashes, the schema is that of the stamp, with what the
\* statements of the revision at work have done to it; and a backup is that of
\* the revision it is named after.
Scheduled == IF Migrating /\ stamp # target THEN Partly(Migration, pos, SchemaAt[stamp])
                                            ELSE SchemaAt[stamp]
BackupHoldsRevision ==
    \A r \in 0..Latest : backups[r] # NoBackup => backups[r] = SchemaAt[r]

ExactInv ==
    /\ crashes \in Nat
    /\ crashes = 0 => schema = Scheduled /\ BackupHoldsRevision

LEMMA PartlyNone == ASSUME NEW m, NEW sch PROVE Partly(m, 0, sch) = sch
<1>1. 1..0 = {}
  OBVIOUS
<1> QED BY <1>1 DEF Partly

\* Before a crash, every statement applies.
LEMMA NothingFails ==
    ASSUME CommandInv, ExactInv, crashes = 0, Migrating, stamp # target, pos < Len(Migration.ddl)
    PROVE  /\ Applies(Migration.ddl[pos + 1], schema)
           /\ Apply(Migration.ddl[pos + 1], schema) = Partly(Migration, pos + 1, SchemaAt[stamp])
<1>1. schema = Partly(Migration, pos, SchemaAt[stamp])
  BY DEF ExactInv, Scheduled
<1>2. pos \in Nat /\ pos + 1 \in DOMAIN Migration.ddl
  BY AtWork DEF CommandInv, DdlOf
<1>3. CASE phase = "upgrading"
  <2> DEFINE q == stamp + 1
  <2>1. q \in 1..12 /\ Migration = Revisions[q].up /\ q - 1 = stamp
    BY <1>3, AtWork
  <2> HIDE DEF q
  <2>2. Applies(Migration.ddl[pos + 1], schema)
    BY <1>1, <1>2, <2>1, UpApplies
  <2>3. Lasting(Migration)
    BY <2>1, UpLasts
  <2> QED BY <1>1, <1>2, <2>2, <2>3, OneMore
<1>4. CASE phase = "downgrading"
  <2>1. stamp \in 1..12 /\ Migration = Revisions[stamp].down
    BY <1>4, AtWork
  <2>2. Applies(Migration.ddl[pos + 1], schema)
    BY <1>1, <1>2, <2>1, DownApplies
  <2>3. Lasting(Migration)
    BY <2>1, DownLasts
  <2> QED BY <1>1, <1>2, <2>2, <2>3, OneMore
<1> QED BY <1>3, <1>4, AtWork

LEMMA ExactKept ==
    ASSUME CommandInv, BackupInv, ExactInv, [MigrationNext]_migrationVars
    PROVE  ExactInv'
<1> USE DEF BackupHoldsRevision
<1>1. CASE RunStatement
  <2>1. /\ Migrating /\ stamp # target /\ pos < Len(Migration.ddl) /\ pos' = pos + 1
        /\ schema' = Apply(Migration.ddl[pos + 1], schema)
        /\ UNCHANGED <<phase, stamp, target, backups, crashes>>
    BY <1>1 DEF RunStatement
  <2>2. Migration' = Migration /\ Migrating' /\ stamp' # target'
    BY <2>1 DEF Migration, Migrating
  <2>3. ASSUME crashes = 0 PROVE schema' = Scheduled'
    BY <2>1, <2>2, <2>3, NothingFails DEF Scheduled
  <2> QED BY <2>1, <2>3 DEF ExactInv
<1>2. CASE CommitRevision
  <2>1. /\ Migrating /\ stamp # target /\ pos = Len(Migration.ddl) /\ pos' = 0
        /\ schema' = Apply(Migration.commit, schema)
        /\ stamp' = IF phase = "upgrading" THEN stamp + 1 ELSE stamp - 1
        /\ UNCHANGED <<backups, crashes>>
    BY <1>2 DEF CommitRevision
  <2>2. ASSUME crashes = 0 PROVE schema' = SchemaAt[stamp']
    <3>1. schema' = Apply(Migration.commit, Partly(Migration, Len(Migration.ddl), SchemaAt[stamp]))
      BY <2>1, <2>2 DEF ExactInv, Scheduled
    <3>2. CASE phase = "upgrading"
      <4> DEFINE q == stamp + 1
      <4>1. q \in 1..12 /\ Migration = Revisions[q].up /\ q - 1 = stamp
        BY <2>1, <3>2, AtWork
      <4> HIDE DEF q
      <4>2. schema' = SchemaAt[q]
        BY <3>1, <4>1, UpMakes
      <4> QED BY <2>1, <3>2, <4>2 DEF q
    <3>3. CASE phase = "downgrading"
      <4>1. stamp \in 1..12 /\ Migration = Revisions[stamp].down
        BY <2>1, <3>3, AtWork
      <4>2. schema' = SchemaAt[stamp - 1]
        BY <3>1, <4>1, DownMakes
      <4> QED BY <2>1, <3>3, <4>2
    <3> QED BY <2>1, <3>2, <3>3, AtWork
  <2>3. pos' = 0 => Scheduled' = SchemaAt[stamp']
    BY PartlyNone DEF Scheduled
  <2> QED BY <2>1, <2>2, <2>3 DEF ExactInv
<1>3. CASE StatementFails
  <2>1. /\ Migrating /\ stamp # target /\ pos < Len(Migration.ddl)
        /\ ~Applies(Migration.ddl[pos + 1], schema) /\ UNCHANGED crashes
    BY <1>3 DEF StatementFails
  <2>2. crashes # 0
    BY <2>1, NothingFails
  <2> QED BY <2>1, <2>2 DEF ExactInv
<1>4. CASE MigrationCrash
  BY <1>4 DEF MigrationCrash, ExactInv
<1>5. CASE MigrationDone \/ StopServing
  <2>1. UNCHANGED <<schema, stamp, backups, crashes>> /\ ~Migrating'
        /\ (~Migrating \/ stamp = target)
    BY <1>5 DEF MigrationDone, StopServing, dbVars, Migrating
  <2> QED BY <2>1 DEF ExactInv, Scheduled
<1>6. CASE StartCommand
  <2>1. /\ UNCHANGED <<schema, stamp, crashes>> /\ phase = "off"
        /\ Migrating' => pos' = 0
        /\ backups' \in {backups, [backups EXCEPT ![stamp] = schema]}
    BY <1>6 DEF StartCommand, InstallRelease, RunCurrent, RunRefused, RunStale, CliUpgrade,
       CliDowngrade, Command, dbVars, cmdVars, Migrating
  <2>2. Scheduled' = SchemaAt[stamp'] /\ Scheduled = SchemaAt[stamp]
    BY <2>1, PartlyNone DEF Scheduled, Migrating
  <2>3. ASSUME crashes = 0 PROVE BackupHoldsRevision'
    <3>1. schema = SchemaAt[stamp] /\ \A r \in 0..Latest : backups[r] # NoBackup => backups[r] = SchemaAt[r]
      BY <2>2, <2>3 DEF ExactInv
    <3>2. \A r \in 0..Latest : backups'[r] = backups[r] \/ (r = stamp /\ backups'[r] = schema)
      BY <2>1 DEF BackupInv
    <3> QED BY <3>1, <3>2
  <2> QED BY <2>1, <2>2, <2>3 DEF ExactInv
<1>7. CASE UNCHANGED migrationVars
  <2>1. UNCHANGED <<schema, stamp, phase, pos, target, backups, crashes>>
    BY <1>7 DEF migrationVars, dbVars, cmdVars
  <2>2. Scheduled' = Scheduled
    BY <2>1 DEF Migration, Migrating, Scheduled
  <2> QED BY <2>1, <2>2 DEF ExactInv
<1> QED BY <1>1, <1>2, <1>3, <1>4, <1>5, <1>6, <1>7 DEF MigrationNext

LEMMA ExactInvariant == ServerSpec => [](CommandInv /\ ExactInv)
<1>1. InitServer => ExactInv
  <2> SUFFICES ASSUME InitServer PROVE ExactInv
    OBVIOUS
  <2>1. /\ schema = SchemaAt[stamp] /\ phase = "off" /\ crashes = 0
        /\ backups = [r \in 0..Latest |-> NoBackup]
    BY DEF InitServer, InitMigrations
  <2>2. Scheduled = SchemaAt[stamp] /\ BackupHoldsRevision
    BY <2>1 DEF Scheduled, Migrating, BackupHoldsRevision
  <2> QED BY <2>1, <2>2 DEF ExactInv
<1>2. CommandInv /\ BackupInv /\ ExactInv /\ [ServerNext]_serverVars => ExactInv'
  BY MigrationSteps, ExactKept
<1> QED BY <1>1, <1>2, MigrationInvariant, PTL DEF ServerSpec

(* A start that has to migrate fails only on what a crash left: every revision  *)
(* applies to what the upgrades and downgrades before it leave                *)
(* (startup_upgrade).                                                       *)
THEOREM StartsMigrate == ServerSpec => StartFailsOnlyAfterCrash
<1>1. CommandInv /\ ExactInv /\ [ServerNext]_serverVars
        => [phase = "upgrading" /\ serve /\ phase' = "off" => crashes' > 0]_serverVars
  <2> SUFFICES ASSUME CommandInv, ExactInv, [MigrationNext]_migrationVars,
                      phase = "upgrading", serve, phase' = "off"
               PROVE  crashes' > 0
    BY MigrationSteps
  <2>1. \/ RunStatement \/ CommitRevision \/ StatementFails \/ MigrationCrash
        \/ ~Migrating' /\ phase' = "serving"
    BY DEF MigrationNext, StartCommand, InstallRelease, RunCurrent, RunRefused, RunStale, CliUpgrade,
       CliDowngrade, Command, MigrationDone, StopServing, migrationVars, cmdVars, Migrating
  <2>2. CASE RunStatement \/ CommitRevision
    BY <2>2 DEF RunStatement, CommitRevision
  <2>3. CASE StatementFails
    <3>1. /\ Migrating /\ stamp # target /\ pos < Len(Migration.ddl)
          /\ ~Applies(Migration.ddl[pos + 1], schema) /\ UNCHANGED crashes
      BY <2>3 DEF StatementFails
    <3>2. crashes # 0
      BY <3>1, NothingFails
    <3> QED BY <3>1, <3>2 DEF ExactInv
  <2>4. CASE MigrationCrash
    BY <2>4 DEF MigrationCrash, ExactInv
  <2> QED BY <2>1, <2>2, <2>3, <2>4
<1> QED BY <1>1, ExactInvariant, PTL DEF ServerSpec, StartFailsOnlyAfterCrash

(* Until a migration crashes, each backup holds a database of the revision it   *)
(* is named after (docs/quickstart/deployment.md:86-95): only after a crash can *)
(* a backup be replaced by a worse one, against GoodBackupsStay.              *)
THEOREM BackupsHoldTheirRevision == ServerSpec => [](crashes = 0 => BackupHoldsRevision)
<1>1. ExactInv => (crashes = 0 => BackupHoldsRevision)
  BY DEF ExactInv
<1> QED BY <1>1, ExactInvariant, PTL
=============================================================================
