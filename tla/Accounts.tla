------------------------------ MODULE Accounts ------------------------------
(***************************************************************************)
(* Accounts, and the sessions that browsers hold for them.  The browser    *)
(* keeps two cookies, an access token and a refresh token; the web server  *)
(* in front of the API attaches the first to what it passes on, and when   *)
(* it has none, or the API rejects it, has a new one minted from the       *)
(* second, on a click (the proxy) and on a page (the middleware) alike.    *)
(* The API looks the account up again on every request, and remembers when *)
(* it last saw it.  A token is the time at which it expires, and 0 stands  *)
(* for none.                                                               *)
(***************************************************************************)
EXTENDS Naturals, FiniteSets

CONSTANTS
  Users,       \* e-mail addresses, each with a browser of its own
  Operations,  \* what each browser asks for
  Present,     \* the accounts there are from the start
  Admins,      \* those of them that are administrators
  AccessTTL, RefreshTTL,   \* access_token_minutes, refresh_token_days
  Margin,      \* a page is not served with less than this left of its token
  Throttle,    \* last_seen_at is not written again within this time
  Online,      \* how long an account stays online after it was seen
  Patience,    \* a bound on the duration of a request
  MaxNow       \* a bound on time

Updates == [do : {"update"}, user : Users, field : {"active", "admin"}, to : BOOLEAN]
Creations == [do : {"create"}, user : Users]

TimesAssumption ==
  /\ \A u \in Users : Operations[u] \subseteq [do : {"work", "heartbeat"}] \cup Updates \cup Creations
  /\ Admins \subseteq Present /\ Present \subseteq Users
  /\ {AccessTTL, RefreshTTL, Margin, Throttle, Online, Patience, MaxNow} \subseteq Nat
  /\ Patience + Margin < AccessTTL /\ RefreshTTL > 0 /\ Throttle < Online /\ MaxNow > 0

VARIABLES
  now,
  account,   \* the row of each user
  cookie,    \* the two tokens in each user's browser
  request,   \* what each browser is waiting for
  login,     \* when each user logged in last (history)
  served     \* when the API last accepted each user's token (history)

vars == <<now, account, cookie, request, login, served>>

Never == 0
Idle == [at |-> "idle"]
Times == 0 .. MaxNow + RefreshTTL + AccessTTL
Row == [there : BOOLEAN, active : BOOLEAN, admin : BOOLEAN, seen : 0 .. MaxNow]

TypeOK ==
  /\ now \in 1 .. MaxNow
  /\ account \in [Users -> Row]
  /\ cookie \in [Users -> [access : Times, refresh : Times]]
  /\ login \in [Users -> 0 .. MaxNow] /\ served \in [Users -> 0 .. MaxNow]
  /\ \A u \in Users : request[u] # Idle =>
       /\ request[u].at \in {"mint", "call", "handle", "answer"}
       /\ request[u].token \in Times /\ request[u].refresh \in Times
       /\ request[u].applied \in Nat

Init ==
  /\ now = 1
  /\ account = [u \in Users |-> [there |-> u \in Present, active |-> u \in Present,
                                 admin |-> u \in Admins, seen |-> Never]]
  /\ cookie = [u \in Users |-> [access |-> 0, refresh |-> 0]]
  /\ request = [u \in Users |-> Idle]
  /\ login = [u \in Users |-> Never] /\ served = [u \in Users |-> Never]

Valid(token) == token > now
Active(u) == account[u].there /\ account[u].active
Put(u, changed) == request' = [request EXCEPT ![u] = changed]

-----------------------------------------------------------------------------
Tick ==
  /\ now < MaxNow
  /\ \A u \in Users : request[u] # Idle => now < request[u].since + Patience
  /\ now' = now + 1
  /\ UNCHANGED <<account, cookie, request, login, served>>

Login(u) ==
  /\ Active(u)
  /\ cookie' = [cookie EXCEPT ![u] = [access |-> now + AccessTTL, refresh |-> now + RefreshTTL]]
  /\ login' = [login EXCEPT ![u] = now]
  /\ UNCHANGED <<now, account, request, served>>

Logout(u) ==
  /\ cookie' = [cookie EXCEPT ![u] = [access |-> 0, refresh |-> 0]]
  /\ UNCHANGED <<now, account, request, login, served>>

-----------------------------------------------------------------------------
\* The middleware wants a margin for a page; the proxy takes any cookie.
Usable(page, token) == IF page THEN token > now + Margin ELSE token # 0

\* Pages only read.  A browser may hold a cookie whose token has just expired.
Begin(u, op, page) ==
  LET refresh == IF Valid(cookie[u].refresh) THEN cookie[u].refresh ELSE 0 IN
  \E access \in {cookie[u].access, 0} :
    /\ request[u] = Idle /\ (page => op.do = "work")
    /\ Valid(cookie[u].access) => access = cookie[u].access
    /\ Usable(page, access) \/ refresh # 0
    /\ Put(u, [at |-> IF Usable(page, access) THEN "call" ELSE "mint", op |-> op, page |-> page,
               token |-> access, refresh |-> refresh, keep |-> 0, since |-> now,
               again |-> page \/ Usable(page, access), status |-> 0, cause |-> FALSE, applied |-> 0])
    /\ UNCHANGED <<now, account, cookie, login, served>>

\* cause (history) tells whether the user is to be turned away.
Reject(u, again) ==
  Put(u, [request[u] EXCEPT !.at = "answer", !.status = 401, !.again = again,
                            !.cause = ~Active(u) \/ ~Valid(request[u].refresh)])

\* /auth/refresh: the token is for the browser too, unless it is minted
\* while a page is being rendered, when no cookie can be set.
Mint_WithoutExpiry(u) ==
  /\ request[u].at = "mint"
  /\ Put(u, [request[u] EXCEPT !.at = "call", !.token = now + AccessTTL, !.keep = now + AccessTTL])
  /\ UNCHANGED <<now, account, cookie, login, served>>
Mint(u) ==
  /\ request[u].at = "mint"
  /\ IF Valid(request[u].refresh) /\ Active(u)
     THEN Put(u, [request[u] EXCEPT !.at = "call", !.token = now + AccessTTL,
                    !.keep = IF request[u].page /\ request[u].status # 0 THEN @ ELSE now + AccessTTL])
     ELSE Reject(u, FALSE)
  /\ UNCHANGED <<now, account, cookie, login, served>>

\* get_current_user and require_roles.
Seen_Rarely(u) ==
  IF account[u].seen = Never \/ now - account[u].seen > Online THEN now ELSE account[u].seen
Seen(u) ==
  IF account[u].seen = Never \/ now - account[u].seen > Throttle THEN now ELSE account[u].seen
Allowed(u) == request[u].op.do \in {"work", "heartbeat"} \/ account[u].admin
Call(u) ==
  /\ request[u].at = "call"
  /\ IF Valid(request[u].token) /\ Active(u)
     THEN /\ account' = [account EXCEPT ![u].seen = Seen(u)]
          /\ served' = [served EXCEPT ![u] = now]
          /\ Put(u, IF Allowed(u) THEN [request[u] EXCEPT !.at = "handle"]
                    ELSE [request[u] EXCEPT !.at = "answer", !.status = 403])
     ELSE Reject(u, request[u].again) /\ UNCHANGED <<account, served>>
  /\ UNCHANGED <<now, cookie, login>>

\* create_user, update_user, the heartbeat and everything else.
Conflict(u, op) ==
  \/ op.do = "create" /\ account[op.user].there
  \/ op.do = "update" /\ ~account[op.user].there
  \/ op.do = "update" /\ op.user = u /\ op.field = "active" /\ ~op.to
Effect(u, op) ==
  CASE op.do = "create" -> [account EXCEPT ![op.user].there = TRUE, ![op.user].active = TRUE]
    [] op.do = "update" -> [account EXCEPT ![op.user][op.field] = op.to]
    [] op.do = "heartbeat" -> [account EXCEPT ![u].seen = now]
    [] op.do = "work" -> account
Handle(u) ==
  LET op == request[u].op IN
  /\ request[u].at = "handle"
  /\ account' = IF Conflict(u, op) THEN account ELSE Effect(u, op)
  /\ Put(u, [request[u] EXCEPT !.at = "answer", !.status = IF Conflict(u, op) THEN 409 ELSE 200,
                               !.applied = @ + 1])
  /\ UNCHANGED <<now, cookie, login, served>>

\* The connection to the API fails, whatever was done there.
Lose(u) ==
  /\ request[u].at = "answer" /\ request[u].status # 502
  /\ Put(u, [request[u] EXCEPT !.status = 502])
  /\ UNCHANGED <<now, account, cookie, login, served>>

\* Only a request whose token was rejected is made again, once, with a new
\* token, and never when the token was new.
Again_WhenLost(u) == request[u].status \in {401, 502} /\ request[u].again /\ request[u].refresh # 0
Again_Never(u) == FALSE
Again(u) == request[u].status = 401 /\ request[u].again /\ request[u].refresh # 0
Finish(u) ==
  /\ request[u].at = "answer"
  /\ IF Again(u)
     THEN Put(u, [request[u] EXCEPT !.at = "mint", !.again = FALSE]) /\ UNCHANGED cookie
     ELSE /\ Put(u, Idle)
          /\ IF request[u].keep # 0 /\ request[u].status # 502
             THEN cookie' = [cookie EXCEPT ![u].access = request[u].keep] ELSE UNCHANGED cookie
  /\ UNCHANGED <<now, account, login, served>>

Next ==
  \/ Tick
  \/ \E u \in Users : Login(u) \/ Logout(u) \/ Mint(u) \/ Call(u) \/ Handle(u) \/ Lose(u) \/ Finish(u)
  \/ \E u \in Users : \E op \in Operations[u], page \in BOOLEAN : Begin(u, op, page)

Spec == Init /\ [][Next]_vars

-----------------------------------------------------------------------------
\* get_users_presence.
IsOnline(u) == account[u].seen # Never /\ now - account[u].seen <= Online

\* Someone who was just using the system is shown online although the time
\* is not written on every request, and nobody is who was not using it.
SeenIsOnline ==
  \A u \in Users :
    /\ served[u] # Never /\ now - served[u] <= Online - Throttle => IsOnline(u)
    /\ IsOnline(u) => now - served[u] <= Online + Patience

\* However often the access token is renewed, the session ends with the
\* refresh token that the last login gave and one access token on top.
SessionsAreBounded ==
  \A u \in Users : login[u] # Never => cookie[u].access < login[u] + RefreshTTL + AccessTTL

\* The second attempt never repeats what the first has done.
AppliedOnce == \A u \in Users : request[u] # Idle => request[u].applied <= 1

\* A user is sent to log in again only when deactivated or when the session
\* is over, however the tokens expire while the request is under way.
TurnedAwayForCause ==
  \A u \in Users :
    request[u] # Idle /\ request'[u] = Idle /\ request[u].status = 401 => request[u].cause
=============================================================================
