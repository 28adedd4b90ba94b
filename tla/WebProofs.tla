------------------------------ MODULE WebProofs ------------------------------
(***************************************************************************)
(* What Web guarantees for any offices, users, operations and lives of the *)
(* tokens, and for any number of pages, saves and openings.                *)
(***************************************************************************)
EXTENDS Web, FiniteSetTheorems, TLAPS

-----------------------------------------------------------------------------
(***************************************************************************)
(* Sessions at one office.  What a request carries is bounded by the time  *)
(* it began at and by the last login; a token minted for it outlives it.   *)
(***************************************************************************)
Idle == [at |-> "idle"]
Times(z) == 0 .. MaxNow[z] + RefreshTTL[z] + AccessTTL[z]
Ops(z) ==
  [do : {"work", "heartbeat"}]
  \cup [do : {"update"}, user : Users[z], field : {"active", "admin"}, to : BOOLEAN]
  \cup [do : {"create"}, user : Users[z]]
Row(z) == [there : BOOLEAN, active : BOOLEAN, admin : BOOLEAN, seen : 0 .. MaxNow[z]]
OpenRequest(z) ==
  [at : {"mint", "call", "handle", "answer"}, op : Ops(z), page : BOOLEAN,
   token : Times(z), refresh : Times(z), keep : Times(z), since : Nat, again : BOOLEAN,
   status : {0, 200, 401, 403, 409, 502}, cause : BOOLEAN, applied : {0, 1}]

SessionsType(z) ==
  /\ now \in 1 .. MaxNow[z]
  /\ account \in [Users[z] -> Row(z)]
  /\ cookie \in [Users[z] -> [access : Times(z), refresh : Times(z)]]
  /\ request \in [Users[z] -> {Idle} \cup OpenRequest(z)]
  /\ login \in [Users[z] -> 0 .. MaxNow[z]] /\ served \in [Users[z] -> 0 .. MaxNow[z]]

\* Of a request r, with the login and the last acceptance of its user.
RequestFits(z, r, since, accepted) ==
  /\ r.since <= now /\ now <= r.since + Patience[z]
  /\ r.at \in {"mint", "call", "handle"} => r.applied = 0
  /\ r.status = 401 => r.applied = 0
  /\ r.at = "call" /\ ~ r.again => r.token >= r.since + AccessTTL[z]
  /\ r.at = "answer" /\ r.status = 401 /\ (~ r.again \/ r.refresh = 0) => r.cause
  /\ r.at = "handle" => accepted >= r.since
  /\ r.refresh <= since + RefreshTTL[z]
  /\ r.keep < since + RefreshTTL[z] + AccessTTL[z]
CookieFits(z, c, since) ==
  /\ since <= now
  /\ c.refresh <= since + RefreshTTL[z]
  /\ c.access < since + RefreshTTL[z] + AccessTTL[z]
UseFits(z, seen, accepted) ==
  /\ accepted <= now /\ seen <= now
  /\ seen <= accepted + Patience[z]
  /\ accepted # 0 => seen # 0 /\ accepted <= seen + Throttle[z]

SessionsInv(z) ==
  /\ SessionsType(z)
  /\ \A u \in Users[z] : request[u] # Idle => RequestFits(z, request[u], login[u], served[u])
  /\ \A u \in Users[z] : CookieFits(z, cookie[u], login[u])
  /\ \A u \in Users[z] : UseFits(z, account[u].seen, served[u])

LEMMA TimesAre ==
  ASSUME NEW z \in Offices
  PROVE  /\ AccessTTL[z] \in Nat /\ RefreshTTL[z] \in Nat /\ Margin[z] \in Nat
         /\ Throttle[z] \in Nat /\ Online[z] \in Nat /\ Patience[z] \in Nat /\ MaxNow[z] \in Nat
         /\ Patience[z] + Margin[z] < AccessTTL[z] /\ RefreshTTL[z] > 0
         /\ Throttle[z] < Online[z] /\ MaxNow[z] > 0
         /\ \A u \in Users[z] : Operations[z][u] \subseteq Ops(z)
BY OfficesAssumption DEF Sessions!TimesAssumption, Sessions!Updates, Sessions!Creations, Ops

LEMMA SessionsInit ==
  ASSUME NEW z \in Offices, Sessions(z)!Init
  PROVE  SessionsInv(z)
<1>1. /\ now = 1
      /\ account = [u \in Users[z] |-> [there |-> u \in Present[z], active |-> u \in Present[z],
                                        admin |-> u \in Admins[z], seen |-> 0]]
      /\ cookie = [u \in Users[z] |-> [access |-> 0, refresh |-> 0]]
      /\ request = [u \in Users[z] |-> Idle]
      /\ login = [u \in Users[z] |-> 0] /\ served = [u \in Users[z] |-> 0]
  BY DEF Sessions!Init, Sessions!Never, Sessions!Idle, Idle
<1>2. 0 \in Times(z) /\ 0 \in 0 .. MaxNow[z] /\ 1 \in 1 .. MaxNow[z]  BY TimesAre DEF Times
<1>3. \A u \in Users[z] : /\ account[u].seen = 0 /\ cookie[u] = [access |-> 0, refresh |-> 0]
                          /\ request[u] = Idle /\ login[u] = 0 /\ served[u] = 0
  BY <1>1
<1>4. SessionsType(z)
  <2>1. account \in [Users[z] -> Row(z)]  BY <1>1, <1>2 DEF Row
  <2>2. cookie \in [Users[z] -> [access : Times(z), refresh : Times(z)]]  BY <1>1, <1>2
  <2> QED  BY <1>1, <1>2, <2>1, <2>2 DEF SessionsType
<1>5. \A u \in Users[z] : CookieFits(z, cookie[u], login[u])
  BY <1>1, <1>3, TimesAre DEF CookieFits
<1>6. \A u \in Users[z] : UseFits(z, account[u].seen, served[u])
  BY <1>1, <1>3, TimesAre DEF UseFits
<1> QED  BY <1>3, <1>4, <1>5, <1>6 DEF SessionsInv

\* No request is over.
NoneEnds(z) == \A u \in Users[z] : request'[u] = Idle => request[u] = Idle

LEMMA OpenIsNotIdle == \A z : \A r \in OpenRequest(z) : r # Idle
BY DEF OpenRequest, Idle

\* The request of one user changes, and the account of nobody.
LEMMA Changed ==
  ASSUME NEW z \in Offices, SessionsInv(z), NEW u \in Users[z],
         NEW r \in {Idle} \cup OpenRequest(z),
         r # Idle => RequestFits(z, r, login[u], served[u]),
         request' = [request EXCEPT ![u] = r],
         UNCHANGED <<now, account, cookie, login, served>>
  PROVE  SessionsInv(z)' /\ (r \in OpenRequest(z) => NoneEnds(z))
<1>1. SessionsType(z)'  BY DEF SessionsInv, SessionsType
<1>2. \A v \in Users[z] : request'[v] = IF v = u THEN r ELSE request[v]
  BY DEF SessionsInv, SessionsType
<1>3. \A v \in Users[z] : request'[v] # Idle => RequestFits(z, request[v], login[v], served[v])'
  BY <1>2 DEF SessionsInv, RequestFits
<1>4. r \in OpenRequest(z) => NoneEnds(z)  BY <1>2, OpenIsNotIdle DEF NoneEnds
<1> QED  BY <1>1, <1>3, <1>4 DEF SessionsInv, CookieFits, UseFits
LEMMA RequestIs ==
  ASSUME NEW z \in Offices, SessionsInv(z), NEW u \in Users[z], request[u].at # "idle"
  PROVE  /\ request[u] \in OpenRequest(z) /\ request[u] # Idle
         /\ RequestFits(z, request[u], login[u], served[u])
         /\ CookieFits(z, cookie[u], login[u])
         /\ now \in Nat /\ now > 0 /\ now <= MaxNow[z]
         /\ login[u] \in Nat /\ served[u] \in Nat
         /\ now + AccessTTL[z] \in Times(z)
<1>1. request[u] \in OpenRequest(z) /\ request[u] # Idle  BY DEF SessionsInv, SessionsType, Idle
<1>2. now \in Nat /\ now > 0 /\ now <= MaxNow[z]  BY TimesAre DEF SessionsInv, SessionsType
<1>3. login[u] \in 0 .. MaxNow[z] /\ served[u] \in 0 .. MaxNow[z]  BY DEF SessionsInv, SessionsType
<1>4. login[u] \in Nat /\ served[u] \in Nat  BY <1>3, TimesAre
<1>5. now + AccessTTL[z] \in Times(z)  BY <1>2, TimesAre DEF Times
<1> QED  BY <1>1, <1>2, <1>4, <1>5 DEF SessionsInv

\* A request of which one field has changed.
SetAt(r, x) == [r EXCEPT !.at = x]
SetToken(r, x) == [r EXCEPT !.token = x]
SetKeep(r, x) == [r EXCEPT !.keep = x]
SetAgain(r, x) == [r EXCEPT !.again = x]
SetStatus(r, x) == [r EXCEPT !.status = x]
SetCause(r, x) == [r EXCEPT !.cause = x]
SetApplied(r, x) == [r EXCEPT !.applied = x]

LEMMA FieldSet ==
  ASSUME NEW z, NEW r \in OpenRequest(z)
  PROVE  /\ \A x \in {"mint", "call", "handle", "answer"} : SetAt(r, x) \in OpenRequest(z)
         /\ \A x \in BOOLEAN : SetAgain(r, x) \in OpenRequest(z)
         /\ \A x \in {0, 200, 401, 403, 409, 502} : SetStatus(r, x) \in OpenRequest(z)
         /\ \A x \in BOOLEAN : SetCause(r, x) \in OpenRequest(z)
         /\ \A x \in {0, 1} : SetApplied(r, x) \in OpenRequest(z)
BY DEF OpenRequest, SetAt, SetAgain, SetStatus, SetCause, SetApplied

LEMMA TokenSet ==
  ASSUME NEW z, NEW r \in OpenRequest(z), NEW x \in Times(z)
  PROVE  SetToken(r, x) \in OpenRequest(z) /\ SetKeep(r, x) \in OpenRequest(z)
BY DEF OpenRequest, SetToken, SetKeep

\* A request that is turned away, or made again.
LEMMA Rejected ==
  ASSUME NEW z \in Offices, SessionsInv(z), NEW u \in Users[z], NEW again \in BOOLEAN,
         request[u].at \in {"mint", "call"},
         ~ again => ~ Sessions(z)!Active(u) \/ ~ Sessions(z)!Valid(request[u].refresh),
         Sessions(z)!Reject(u, again),
         UNCHANGED <<now, account, cookie, login, served>>
  PROVE  SessionsInv(z)' /\ NoneEnds(z)
<1> DEFINE r == request[u]
           cause == ~ Sessions(z)!Active(u) \/ ~ Sessions(z)!Valid(r.refresh)
           new == [r EXCEPT !.at = "answer", !.status = 401, !.again = again, !.cause = cause]
<1>1. /\ r \in OpenRequest(z) /\ r # Idle /\ now > 0 /\ now \in Nat
      /\ RequestFits(z, r, login[u], served[u])
  BY RequestIs
<1>2. request' = [request EXCEPT ![u] = new]
  BY DEF Sessions!Reject, Sessions!Put
<1>3. r.refresh = 0 => cause  BY <1>1 DEF Sessions!Valid
<1>4. ~ again => cause  OBVIOUS
<1>5. cause \in BOOLEAN  OBVIOUS
<1> HIDE DEF r, cause
<1>6. new \in OpenRequest(z)
  <2>1. new = SetCause(SetAgain(SetStatus(SetAt(r, "answer"), 401), again), cause)
    BY DEF SetAt, SetStatus, SetAgain, SetCause
  <2> HIDE DEF new
  <2>2. SetAt(r, "answer") \in OpenRequest(z)  BY <1>1, FieldSet
  <2>3. SetStatus(SetAt(r, "answer"), 401) \in OpenRequest(z)  BY <2>2, FieldSet
  <2>4. SetAgain(SetStatus(SetAt(r, "answer"), 401), again) \in OpenRequest(z)  BY <2>3, FieldSet
  <2> QED  BY <1>5, <2>1, <2>4, FieldSet
<1>7. /\ new.at = "answer" /\ new.status = 401 /\ new.again = again /\ new.cause = cause
      /\ new.since = r.since /\ new.applied = r.applied /\ new.token = r.token
      /\ new.refresh = r.refresh /\ new.keep = r.keep
  BY <1>1 DEF OpenRequest
<1>8. r.applied = 0  BY <1>1 DEF RequestFits, r
<1> HIDE DEF new
<1>9. RequestFits(z, new, login[u], served[u])
  BY <1>1, <1>3, <1>4, <1>7, <1>8 DEF RequestFits
<1> QED  BY <1>2, <1>6, <1>9, Changed

LEMMA MintStep ==
  ASSUME NEW z \in Offices, SessionsInv(z), NEW u \in Users[z], Sessions(z)!Mint(u)
  PROVE  SessionsInv(z)' /\ NoneEnds(z)
<1> DEFINE r == request[u]
           cookied == IF r.page /\ r.status # 0 THEN r.keep ELSE now + AccessTTL[z]
           new == [r EXCEPT !.at = "call", !.token = now + AccessTTL[z], !.keep = cookied]
<1>0. /\ r.at = "mint"
      /\ IF Sessions(z)!Valid(r.refresh) /\ Sessions(z)!Active(u)
         THEN request' = [request EXCEPT ![u] = new] ELSE Sessions(z)!Reject(u, FALSE)
      /\ UNCHANGED <<now, account, cookie, login, served>>
  BY DEF Sessions!Mint, Sessions!Put
<1>1. /\ r \in OpenRequest(z) /\ r # Idle /\ now > 0 /\ now \in Nat /\ login[u] \in Nat
      /\ RequestFits(z, r, login[u], served[u]) /\ now + AccessTTL[z] \in Times(z)
  BY <1>0, RequestIs
<1>2. CASE Sessions(z)!Valid(r.refresh) /\ Sessions(z)!Active(u)
  <2>1. r.refresh > now /\ r.refresh \in Nat /\ r.since \in Nat /\ r.keep \in Nat
    BY <1>1, <1>2, TimesAre DEF Sessions!Valid, OpenRequest, Times
  <2> HIDE DEF r
  <2>2. cookied \in Times(z)  BY <1>1 DEF OpenRequest
  <2>3. cookied < login[u] + RefreshTTL[z] + AccessTTL[z]
    BY <1>1, <2>1, TimesAre DEF RequestFits
  <2> HIDE DEF cookied
  <2>4. new \in OpenRequest(z)
    <3>1. new = SetKeep(SetToken(SetAt(r, "call"), now + AccessTTL[z]), cookied)
      BY DEF SetAt, SetToken, SetKeep
    <3> HIDE DEF new
    <3>2. SetAt(r, "call") \in OpenRequest(z)  BY <1>1, FieldSet
    <3>3. SetToken(SetAt(r, "call"), now + AccessTTL[z]) \in OpenRequest(z)  BY <1>1, <3>2, TokenSet, Zenon
    <3> QED  BY <2>2, <3>1, <3>3, TokenSet, Zenon
  <2>5. /\ new.at = "call" /\ new.token = now + AccessTTL[z] /\ new.keep = cookied
        /\ new.since = r.since /\ new.applied = r.applied /\ new.status = r.status
        /\ new.refresh = r.refresh
    BY <1>1 DEF OpenRequest
  <2>6. request' = [request EXCEPT ![u] = new]  BY <1>0, <1>2 DEF r, cookied
  <2>7. r.applied = 0 /\ r.since <= now  BY <1>0, <1>1 DEF RequestFits, r
  <2> HIDE DEF new
  <2>8. RequestFits(z, new, login[u], served[u])
    BY <1>1, <2>1, <2>3, <2>5, <2>7, TimesAre DEF RequestFits
  <2> QED  BY <1>0, <2>4, <2>6, <2>8, Changed
<1>3. CASE ~ (Sessions(z)!Valid(r.refresh) /\ Sessions(z)!Active(u))
  <2> DEFINE again == FALSE
  <2>1. Sessions(z)!Reject(u, again)  BY <1>0, <1>3
  <2>2. again \in BOOLEAN  OBVIOUS
  <2> HIDE DEF again
  <2> QED  BY <1>0, <1>3, <2>1, <2>2, Rejected
<1> QED  BY <1>2, <1>3
\* A request whose token the API accepts, and whose account it has seen.
LEMMA Accepted ==
  ASSUME NEW z \in Offices, SessionsInv(z), NEW u \in Users[z],
         NEW r \in OpenRequest(z), RequestFits(z, r, login[u], now), r # Idle,
         NEW seen \in 0 .. MaxNow[z], UseFits(z, seen, now),
         request' = [request EXCEPT ![u] = r],
         account' = [account EXCEPT ![u].seen = seen],
         served' = [served EXCEPT ![u] = now],
         UNCHANGED <<now, cookie, login>>
  PROVE  SessionsInv(z)' /\ NoneEnds(z)
<1>1. now \in 0 .. MaxNow[z]  BY TimesAre DEF SessionsInv, SessionsType
<1>2. account' \in [Users[z] -> Row(z)]  BY DEF SessionsInv, SessionsType, Row
<1>3. SessionsType(z)'  BY <1>1, <1>2 DEF SessionsInv, SessionsType
<1>4. \A v \in Users[z] :
        /\ request'[v] = IF v = u THEN r ELSE request[v]
        /\ served'[v] = IF v = u THEN now ELSE served[v]
        /\ account'[v].seen = IF v = u THEN seen ELSE account[v].seen
  BY DEF SessionsInv, SessionsType, Row
<1>5. \A v \in Users[z] : request'[v] # Idle => RequestFits(z, request[v], login[v], served[v])'
  BY <1>4 DEF SessionsInv, RequestFits
<1>6. \A v \in Users[z] : UseFits(z, account[v].seen, served[v])'
  BY <1>4 DEF SessionsInv, UseFits
<1>7. NoneEnds(z)  BY <1>4 DEF NoneEnds
<1> QED  BY <1>3, <1>5, <1>6, <1>7 DEF SessionsInv, CookieFits

LEMMA CallStep ==
  ASSUME NEW z \in Offices, SessionsInv(z), NEW u \in Users[z], Sessions(z)!Call(u)
  PROVE  SessionsInv(z)' /\ NoneEnds(z)
<1> DEFINE r == request[u]
           accepts == Sessions(z)!Valid(r.token) /\ Sessions(z)!Active(u)
           seen == Sessions(z)!Seen(u)
           handled == [r EXCEPT !.at = "handle"]
           refused == [r EXCEPT !.at = "answer", !.status = 403]
           new == IF Sessions(z)!Allowed(u) THEN handled ELSE refused
<1>0. /\ r.at = "call"
      /\ IF accepts
         THEN /\ account' = [account EXCEPT ![u].seen = seen]
              /\ served' = [served EXCEPT ![u] = now]
              /\ request' = [request EXCEPT ![u] = new]
         ELSE Sessions(z)!Reject(u, r.again) /\ UNCHANGED <<account, served>>
      /\ UNCHANGED <<now, cookie, login>>
  BY DEF Sessions!Call, Sessions!Put
<1>1. /\ r \in OpenRequest(z) /\ r # Idle /\ now > 0 /\ now \in Nat /\ now <= MaxNow[z]
      /\ RequestFits(z, r, login[u], served[u])
  BY <1>0, RequestIs
<1>2. r.again \in BOOLEAN /\ r.since \in Nat /\ r.token \in Nat
  BY <1>1, TimesAre DEF OpenRequest, Times
<1>3. CASE accepts
  <2>1. r.applied = 0 /\ r.since <= now  BY <1>0, <1>1 DEF RequestFits
  <2>2. seen \in 0 .. MaxNow[z] /\ UseFits(z, seen, now)
    <3>1. account[u].seen \in Nat /\ account[u].seen <= now
      <4>1. account[u].seen \in 0 .. MaxNow[z]  BY DEF SessionsInv, SessionsType, Row
      <4>2. account[u].seen <= now  BY DEF SessionsInv, UseFits
      <4> QED  BY <4>1, <4>2, TimesAre
    <3>2. seen = IF account[u].seen = 0 \/ now - account[u].seen > Throttle[z]
                 THEN now ELSE account[u].seen
      BY DEF Sessions!Seen, Sessions!Never
    <3> HIDE DEF seen
    <3> QED  BY <1>1, <3>1, <3>2, TimesAre DEF UseFits
  <2> HIDE DEF r, seen
  <2>3. /\ handled.at = "handle" /\ handled.since = r.since /\ handled.applied = r.applied
        /\ handled.token = r.token /\ handled.again = r.again /\ handled.status = r.status
        /\ handled.refresh = r.refresh /\ handled.keep = r.keep
    BY <1>1 DEF OpenRequest
  <2>4. /\ refused.at = "answer" /\ refused.since = r.since /\ refused.applied = r.applied
        /\ refused.token = r.token /\ refused.again = r.again /\ refused.status = 403
        /\ refused.refresh = r.refresh /\ refused.keep = r.keep
    BY <1>1 DEF OpenRequest
  <2>5. handled \in OpenRequest(z) /\ refused \in OpenRequest(z)
    <3>1. handled = SetAt(r, "handle") /\ refused = SetStatus(SetAt(r, "answer"), 403)
      BY DEF SetAt, SetStatus
    <3> HIDE DEF handled, refused
    <3>2. SetAt(r, "answer") \in OpenRequest(z)  BY <1>1, FieldSet
    <3>3. SetAt(r, "handle") \in OpenRequest(z)  BY <1>1, FieldSet
    <3>4. SetStatus(SetAt(r, "answer"), 403) \in OpenRequest(z)  BY <3>2, FieldSet
    <3> QED  BY <3>1, <3>3, <3>4
  <2> HIDE DEF handled, refused
  <2>6. RequestFits(z, handled, login[u], now) /\ RequestFits(z, refused, login[u], now)
    BY <1>1, <2>1, <2>3, <2>4 DEF RequestFits
  <2>7. new \in OpenRequest(z) /\ RequestFits(z, new, login[u], now) /\ new # Idle
    BY <2>3, <2>4, <2>5, <2>6 DEF Idle
  <2> HIDE DEF new
  <2> QED  BY <1>0, <1>3, <2>2, <2>7, Accepted
<1>4. CASE ~ accepts
  <2>1. Sessions(z)!Reject(u, r.again) /\ UNCHANGED <<account, served>>  BY <1>0, <1>4
  <2>2. ASSUME ~ r.again PROVE ~ Sessions(z)!Active(u)
    <3>1. r.token >= r.since + AccessTTL[z] /\ now <= r.since + Patience[z]
      BY <1>0, <1>1, <2>2 DEF RequestFits
    <3>2. r.token > now  BY <1>1, <1>2, <3>1, TimesAre
    <3> QED  BY <1>4, <3>2 DEF Sessions!Valid
  <2> QED  BY <1>0, <1>2, <2>1, <2>2, Rejected
<1> QED  BY <1>3, <1>4

LEMMA EffectIs ==
  ASSUME NEW z \in Offices, SessionsInv(z), NEW u \in Users[z], NEW op \in Ops(z)
  PROVE  /\ Sessions(z)!Effect(u, op) \in [Users[z] -> Row(z)]
         /\ \A v \in Users[z] :
              \/ Sessions(z)!Effect(u, op)[v].seen = account[v].seen
              \/ v = u /\ Sessions(z)!Effect(u, op)[v].seen = now
<1>1. account \in [Users[z] -> Row(z)] /\ now \in 0 .. MaxNow[z]
  BY TimesAre DEF SessionsInv, SessionsType
<1>2. CASE op.do = "create"
  <2>1. op.user \in Users[z]  BY <1>2 DEF Ops
  <2>2. Sessions(z)!Effect(u, op) = [account EXCEPT ![op.user].there = TRUE, ![op.user].active = TRUE]
    BY <1>2 DEF Sessions!Effect
  <2> DEFINE there == [account EXCEPT ![op.user].there = TRUE]
             activated == [there EXCEPT ![op.user].active = TRUE]
  <2>3. there \in [Users[z] -> Row(z)] /\ \A v \in Users[z] : there[v].seen = account[v].seen
    BY <1>1, <2>1 DEF Row
  <2>4. Sessions(z)!Effect(u, op) = activated  BY <2>2
  <2> HIDE DEF there
  <2>5. activated \in [Users[z] -> Row(z)] /\ \A v \in Users[z] : activated[v].seen = there[v].seen
    BY <2>1, <2>3 DEF Row
  <2> HIDE DEF activated
  <2> QED  BY <2>3, <2>4, <2>5
<1>3. CASE op.do = "update"
  <2>1. op.user \in Users[z] /\ op.to \in BOOLEAN /\ op.field \in {"active", "admin"}
    BY <1>3 DEF Ops
  <2>2. Sessions(z)!Effect(u, op) = [account EXCEPT ![op.user][op.field] = op.to]
    BY <1>3 DEF Sessions!Effect
  <2> QED  BY <1>1, <2>1, <2>2 DEF Row
<1>4. CASE op.do = "heartbeat"
  <2>1. Sessions(z)!Effect(u, op) = [account EXCEPT ![u].seen = now]
    BY <1>4 DEF Sessions!Effect
  <2> QED  BY <1>1, <2>1 DEF Row
<1>5. CASE op.do = "work"
  <2>1. Sessions(z)!Effect(u, op) = account  BY <1>5 DEF Sessions!Effect
  <2> QED  BY <1>1, <2>1
<1>6. op.do \in {"work", "heartbeat", "update", "create"}  BY DEF Ops
<1> QED  BY <1>2, <1>3, <1>4, <1>5, <1>6

LEMMA HandleStep ==
  ASSUME NEW z \in Offices, SessionsInv(z), NEW u \in Users[z], Sessions(z)!Handle(u)
  PROVE  SessionsInv(z)' /\ NoneEnds(z)
<1> DEFINE r == request[u]
           conflict == Sessions(z)!Conflict(u, r.op)
           status1 == IF conflict THEN 409 ELSE 200
           new == [r EXCEPT !.at = "answer", !.status = status1, !.applied = r.applied + 1]
<1>0. /\ r.at = "handle"
      /\ account' = IF conflict THEN account ELSE Sessions(z)!Effect(u, r.op)
      /\ request' = [request EXCEPT ![u] = new]
      /\ UNCHANGED <<now, cookie, login, served>>
  BY DEF Sessions!Handle, Sessions!Put
<1>1. /\ r \in OpenRequest(z) /\ r # Idle /\ now > 0 /\ now \in Nat /\ now <= MaxNow[z]
      /\ RequestFits(z, r, login[u], served[u]) /\ served[u] \in Nat
  BY <1>0, RequestIs
<1>2. r.since \in Nat /\ r.applied = 0 /\ r.op \in Ops(z)
  BY <1>0, <1>1 DEF OpenRequest, RequestFits
<1>3. now <= served[u] + Patience[z]
  <2>1. served[u] >= r.since /\ now <= r.since + Patience[z]  BY <1>0, <1>1 DEF RequestFits
  <2> QED  BY <1>1, <1>2, <2>1, TimesAre
<1> HIDE DEF r
<1>4. /\ account' \in [Users[z] -> Row(z)]
      /\ \A v \in Users[z] : \/ account'[v].seen = account[v].seen
                             \/ v = u /\ account'[v].seen = now
  <2>1. account \in [Users[z] -> Row(z)]  BY DEF SessionsInv, SessionsType
  <2>2. CASE conflict  BY <1>0, <2>1, <2>2
  <2>3. CASE ~ conflict
    <3>1. account' = Sessions(z)!Effect(u, r.op)  BY <1>0, <2>3
    <3> QED  BY <1>2, <3>1, EffectIs
  <2> QED  BY <2>2, <2>3
<1>5. status1 \in {409, 200}  OBVIOUS
<1> HIDE DEF status1
<1>6. new \in OpenRequest(z)
  <2>1. new = SetApplied(SetStatus(SetAt(r, "answer"), status1), 1)
    BY <1>2 DEF SetAt, SetStatus, SetApplied
  <2> HIDE DEF new
  <2>2. SetAt(r, "answer") \in OpenRequest(z)  BY <1>1, FieldSet
  <2>3. SetStatus(SetAt(r, "answer"), status1) \in OpenRequest(z)  BY <1>5, <2>2, FieldSet
  <2> QED  BY <2>1, <2>3, FieldSet
<1>7. /\ new.at = "answer" /\ new.since = r.since /\ new.status = status1
      /\ new.refresh = r.refresh /\ new.keep = r.keep
  BY <1>1 DEF OpenRequest
<1> HIDE DEF new
<1>8. RequestFits(z, new, login[u], served[u])
  BY <1>1, <1>5, <1>7 DEF RequestFits
<1>9. \A v \in Users[z] : request'[v] = IF v = u THEN new ELSE request[v]
  BY <1>0 DEF SessionsInv, SessionsType
<1>10. SessionsType(z)'  BY <1>0, <1>4, <1>6 DEF SessionsInv, SessionsType
<1>11. \A v \in Users[z] : request'[v] # Idle => RequestFits(z, request[v], login[v], served[v])'
  BY <1>0, <1>8, <1>9 DEF SessionsInv, RequestFits
<1>12. \A v \in Users[z] : UseFits(z, account[v].seen, served[v])'
  <2> SUFFICES ASSUME NEW v \in Users[z] PROVE UseFits(z, account[v].seen, served[v])'
    OBVIOUS
  <2>1. UseFits(z, account[v].seen, served[v]) /\ served'[v] = served[v] /\ now' = now
    BY <1>0 DEF SessionsInv
  <2>2. CASE account'[v].seen = account[v].seen  BY <2>1, <2>2 DEF UseFits
  <2>3. CASE v = u /\ account'[v].seen = now
    <3>1. served[u] <= now  BY <2>1, <2>3 DEF UseFits
    <3> QED  BY <1>1, <1>3, <2>1, <2>3, <3>1, TimesAre DEF UseFits
  <2> QED  BY <1>4, <2>2, <2>3
<1>13. NoneEnds(z)  BY <1>6, <1>9, OpenIsNotIdle DEF NoneEnds
<1> QED  BY <1>0, <1>10, <1>11, <1>12, <1>13 DEF SessionsInv, CookieFits
LEMMA LoseStep ==
  ASSUME NEW z \in Offices, SessionsInv(z), NEW u \in Users[z], Sessions(z)!Lose(u)
  PROVE  SessionsInv(z)' /\ NoneEnds(z)
<1> DEFINE r == request[u]
           new == [r EXCEPT !.status = 502]
<1>0. /\ r.at = "answer" /\ request' = [request EXCEPT ![u] = new]
      /\ UNCHANGED <<now, account, cookie, login, served>>
  BY DEF Sessions!Lose, Sessions!Put
<1>1. r \in OpenRequest(z) /\ r # Idle /\ RequestFits(z, r, login[u], served[u])
  BY <1>0, RequestIs
<1> HIDE DEF r
<1>2. new \in OpenRequest(z)
  <2>1. new = SetStatus(r, 502)  BY DEF SetStatus
  <2> HIDE DEF new
  <2> QED  BY <1>1, <2>1, FieldSet
<1>3. /\ new.at = r.at /\ new.since = r.since /\ new.applied = r.applied /\ new.status = 502
      /\ new.refresh = r.refresh /\ new.keep = r.keep
  BY <1>1 DEF OpenRequest
<1> HIDE DEF new
<1>4. RequestFits(z, new, login[u], served[u])  BY <1>0, <1>1, <1>3 DEF RequestFits
<1> QED  BY <1>0, <1>2, <1>4, Changed

\* A browser's cookies are set, with a login or without.
LEMMA CookieSet ==
  ASSUME NEW z \in Offices, SessionsInv(z), NEW u \in Users[z],
         NEW c \in [access : Times(z), refresh : Times(z)],
         NEW at \in {now, login[u]}, CookieFits(z, c, at),
         NEW r, r = Idle \/ r = request[u],
         request' = [request EXCEPT ![u] = r],
         cookie' = [cookie EXCEPT ![u] = c], login' = [login EXCEPT ![u] = at],
         UNCHANGED <<now, account, served>>
  PROVE  SessionsInv(z)'
<1>1. now \in 0 .. MaxNow[z] /\ login[u] \in 0 .. MaxNow[z]  BY TimesAre DEF SessionsInv, SessionsType
<1>2. SessionsType(z)'  BY <1>1 DEF SessionsInv, SessionsType
<1>3. \A v \in Users[z] :
        /\ request'[v] = IF v = u THEN r ELSE request[v]
        /\ cookie'[v] = IF v = u THEN c ELSE cookie[v]
        /\ login'[v] = IF v = u THEN at ELSE login[v]
  BY DEF SessionsInv, SessionsType
<1>4. login[u] <= at
  <2>1. login[u] <= now  BY DEF SessionsInv, CookieFits
  <2> QED  BY <1>1, <2>1, TimesAre
<1>5. \A v \in Users[z] : CookieFits(z, cookie[v], login[v])'
  BY <1>3 DEF SessionsInv, CookieFits
<1>6. ASSUME NEW v \in Users[z], request'[v] # Idle
      PROVE  RequestFits(z, request[v], login[v], served[v])'
  <2>1. request'[v] = request[v] /\ RequestFits(z, request[v], login[v], served[v])
    BY <1>3, <1>6 DEF SessionsInv
  <2>2. CASE v # u  BY <1>3, <2>1, <2>2 DEF RequestFits
  <2>3. CASE v = u
    <3>1. request[u] \in OpenRequest(z)  BY <1>6, <2>1, <2>3 DEF SessionsInv, SessionsType
    <3>2. request[u].refresh \in Nat /\ request[u].keep \in Nat
      BY <3>1, TimesAre DEF OpenRequest, Times
    <3>3. login'[u] = at /\ at \in Nat /\ login[u] \in Nat  BY <1>1, <1>3, TimesAre
    <3>4. /\ request[u].refresh <= at + RefreshTTL[z]
          /\ request[u].keep < at + RefreshTTL[z] + AccessTTL[z]
      BY <1>4, <2>1, <2>3, <3>2, <3>3, TimesAre DEF RequestFits
    <3> QED  BY <2>1, <2>3, <3>3, <3>4 DEF RequestFits
  <2> QED  BY <2>2, <2>3
<1> QED  BY <1>2, <1>5, <1>6 DEF SessionsInv, UseFits

LEMMA FinishStep ==
  ASSUME NEW z \in Offices, SessionsInv(z), NEW u \in Users[z], Sessions(z)!Finish(u)
  PROVE  /\ SessionsInv(z)'
         /\ request'[u] = Idle /\ request[u].status = 401 => request[u].cause
         /\ \A v \in Users[z] : v # u => request'[v] = request[v]
<1> DEFINE r == request[u]
           again == Sessions(z)!Again(u)
           new == [r EXCEPT !.at = "mint", !.again = FALSE]
           to == IF again THEN new ELSE Idle
<1>0. /\ r.at = "answer" /\ request' = [request EXCEPT ![u] = to]
      /\ again => UNCHANGED cookie
      /\ ~ again => \/ UNCHANGED cookie
                    \/ r.keep # 0 /\ cookie' = [cookie EXCEPT ![u].access = r.keep]
      /\ UNCHANGED <<now, account, login, served>>
  BY DEF Sessions!Finish, Sessions!Put, Sessions!Idle, Idle
<1>1. /\ r \in OpenRequest(z) /\ r # Idle /\ RequestFits(z, r, login[u], served[u])
      /\ CookieFits(z, cookie[u], login[u])
  BY <1>0, RequestIs
<1>2. again <=> r.status = 401 /\ r.again /\ r.refresh # 0  BY DEF Sessions!Again
<1>3. \A v \in Users[z] : request'[v] = IF v = u THEN to ELSE request[v]
  BY <1>0 DEF SessionsInv, SessionsType
<1>4. new # Idle
  <2>1. new.at = "mint"  BY <1>1 DEF OpenRequest
  <2> QED  BY <2>1 DEF Idle
<1>5. request'[u] = Idle /\ r.status = 401 => r.cause
  <2>1. request'[u] = to  BY <1>3
  <2>2. ~ again /\ r.status = 401 => ~ r.again \/ r.refresh = 0  BY <1>2
  <2>3. r.status = 401 /\ (~ r.again \/ r.refresh = 0) => r.cause
    BY <1>0, <1>1 DEF RequestFits
  <2> HIDE DEF r, new, again
  <2>4. request'[u] = Idle => ~ again  BY <1>4, <2>1
  <2> QED  BY <2>2, <2>3, <2>4
<1>6. CASE again
  <2> HIDE DEF r, again
  <2>1. new \in OpenRequest(z)
    <3> DEFINE spent == FALSE
    <3>1. new = SetAgain(SetAt(r, "mint"), spent) /\ spent \in BOOLEAN  BY DEF SetAt, SetAgain
    <3> HIDE DEF new, spent
    <3>2. SetAt(r, "mint") \in OpenRequest(z)  BY <1>1, FieldSet
    <3> QED  BY <3>1, <3>2, FieldSet
  <2>2. /\ new.at = "mint" /\ new.since = r.since /\ new.applied = r.applied
        /\ new.status = 401 /\ new.refresh = r.refresh /\ new.keep = r.keep
    BY <1>1, <1>2, <1>6 DEF OpenRequest
  <2>3. r.applied = 0  BY <1>1, <1>2, <1>6 DEF RequestFits
  <2> HIDE DEF new
  <2>4. RequestFits(z, new, login[u], served[u])  BY <1>1, <2>2, <2>3 DEF RequestFits
  <2>5. SessionsInv(z)'  BY <1>0, <1>6, <2>1, <2>4, Changed
  <2> QED  BY <1>3, <1>5, <2>5 DEF r
<1>7. CASE ~ again
  <2>1. to = Idle  BY <1>7
  <2>2. CASE UNCHANGED cookie
    <3>1. SessionsInv(z)'  BY <1>0, <2>1, <2>2, Changed
    <3> QED  BY <1>3, <1>5, <3>1
  <2>3. CASE cookie' = [cookie EXCEPT ![u].access = r.keep]
    <3> DEFINE c == [cookie[u] EXCEPT !.access = r.keep]
    <3>1. cookie[u] \in [access : Times(z), refresh : Times(z)] /\ r.keep \in Times(z)
      BY <1>1 DEF SessionsInv, SessionsType, OpenRequest
    <3>2. /\ c \in [access : Times(z), refresh : Times(z)]
          /\ c.access = r.keep /\ c.refresh = cookie[u].refresh
      BY <3>1
    <3>3. cookie' = [cookie EXCEPT ![u] = c]  BY <2>3
    <3>4. login' = [login EXCEPT ![u] = login[u]]
      BY <1>0 DEF SessionsInv, SessionsType
    <3>5. request' = [request EXCEPT ![u] = Idle]  BY <1>0, <2>1
    <3> HIDE DEF c
    <3>6. CookieFits(z, c, login[u])  BY <1>1, <3>2 DEF CookieFits, RequestFits
    <3>7. SessionsInv(z)'  BY <1>0, <3>2, <3>3, <3>4, <3>5, <3>6, CookieSet
    <3> QED  BY <1>3, <1>5, <3>7
  <2> QED  BY <1>0, <1>7, <2>2, <2>3
<1> QED  BY <1>6, <1>7
LEMMA BeginStep ==
  ASSUME NEW z \in Offices, SessionsInv(z), NEW u \in Users[z], NEW op \in Operations[z][u],
         NEW paged \in BOOLEAN, Sessions(z)!Begin(u, op, paged)
  PROVE  SessionsInv(z)'
<1> DEFINE kept == IF Sessions(z)!Valid(cookie[u].refresh) THEN cookie[u].refresh ELSE 0
           ready(t) == Sessions(z)!Usable(paged, t)
           new(t) == [at |-> IF ready(t) THEN "call" ELSE "mint", op |-> op, page |-> paged,
                      token |-> t, refresh |-> kept, keep |-> 0, since |-> now,
                      again |-> paged \/ ready(t), status |-> 0, cause |-> FALSE, applied |-> 0]
<1>1. PICK t \in {cookie[u].access, 0} :
        /\ request' = [request EXCEPT ![u] = new(t)]
        /\ UNCHANGED <<now, account, cookie, login, served>>
  BY DEF Sessions!Begin, Sessions!Put
<1>2. /\ now \in Nat /\ login[u] \in Nat /\ CookieFits(z, cookie[u], login[u])
      /\ 0 \in Times(z) /\ t \in Times(z) /\ kept \in Times(z)
  <2>1. cookie[u] \in [access : Times(z), refresh : Times(z)]  BY DEF SessionsInv, SessionsType
  <2>2. 0 \in Times(z)  BY TimesAre DEF Times
  <2>3. now \in 1 .. MaxNow[z] /\ login[u] \in 0 .. MaxNow[z]  BY DEF SessionsInv, SessionsType
  <2> QED  BY <2>1, <2>2, <2>3, TimesAre DEF SessionsInv
<1>3. kept <= login[u] + RefreshTTL[z]
  <2>1. CASE kept = 0  BY <1>2, <2>1, TimesAre
  <2>2. CASE kept = cookie[u].refresh  BY <1>2, <2>2 DEF CookieFits
  <2> QED  BY <2>1, <2>2
<1>4. op \in Ops(z)  BY TimesAre
<1> DEFINE first == ready(t)
           at == IF first THEN "call" ELSE "mint"
           again == paged \/ first
           nocause == FALSE
<1>5. at \in {"mint", "call"} /\ again \in BOOLEAN /\ (at = "call" => again) /\ nocause \in BOOLEAN
  BY DEF Sessions!Usable
<1>6. new(t) = [at |-> at, op |-> op, page |-> paged, token |-> t, refresh |-> kept, keep |-> 0,
                since |-> now, again |-> again, status |-> 0, cause |-> nocause, applied |-> 0]
  OBVIOUS
<1> HIDE DEF at, again, first, nocause, ready, kept
<1>7. new(t) \in OpenRequest(z)
  BY <1>2, <1>4, <1>5, <1>6 DEF OpenRequest
<1>8. RequestFits(z, new(t), login[u], served[u])
  <2>1. 0 < login[u] + RefreshTTL[z] + AccessTTL[z] /\ now <= now + Patience[z] /\ now <= now
    BY <1>2, TimesAre
  <2>2. /\ new(t).at = at /\ new(t).since = now /\ new(t).applied = 0 /\ new(t).status = 0
        /\ new(t).again = again /\ new(t).refresh = kept /\ new(t).keep = 0
    BY <1>6
  <2> HIDE DEF new
  <2> QED  BY <1>3, <1>5, <2>1, <2>2 DEF RequestFits
<1> HIDE DEF new
<1> QED  BY <1>1, <1>7, <1>8, Changed

LEMMA TickStep ==
  ASSUME NEW z \in Offices, SessionsInv(z), Sessions(z)!Tick
  PROVE  SessionsInv(z)'
<1>1. /\ now' = now + 1 /\ now < MaxNow[z]
      /\ \A u \in Users[z] : request[u] # Idle => now < request[u].since + Patience[z]
      /\ UNCHANGED <<account, cookie, request, login, served>>
  BY DEF Sessions!Tick, Sessions!Idle, Idle
<1>2. now \in Nat /\ now > 0  BY TimesAre DEF SessionsInv, SessionsType
<1>3. SessionsType(z)'  BY <1>1, <1>2, TimesAre DEF SessionsInv, SessionsType
<1>4. ASSUME NEW u \in Users[z], request[u] # Idle
      PROVE  RequestFits(z, request[u], login[u], served[u])'
  <2>1. request[u] \in OpenRequest(z)  BY <1>4 DEF SessionsInv, SessionsType
  <2>2. request[u].since \in Nat  BY <2>1 DEF OpenRequest
  <2>3. now < request[u].since + Patience[z] /\ request[u].since <= now
    BY <1>1, <1>4 DEF SessionsInv, RequestFits
  <2>4. request[u].since <= now' /\ now' <= request[u].since + Patience[z]
    BY <1>1, <1>2, <2>2, <2>3, TimesAre
  <2> QED  BY <1>1, <1>4, <2>4 DEF SessionsInv, RequestFits
<1>5. ASSUME NEW u \in Users[z]
      PROVE  CookieFits(z, cookie[u], login[u])' /\ UseFits(z, account[u].seen, served[u])'
  <2>1. login[u] \in 0 .. MaxNow[z] /\ served[u] \in 0 .. MaxNow[z] /\ account[u].seen \in 0 .. MaxNow[z]
    BY DEF SessionsInv, SessionsType, Row
  <2>2. login[u] <= now /\ served[u] <= now /\ account[u].seen <= now
    BY DEF SessionsInv, CookieFits, UseFits
  <2>3. login[u] <= now' /\ served[u] <= now' /\ account[u].seen <= now'
    BY <1>1, <1>2, <2>1, <2>2, TimesAre
  <2> QED  BY <1>1, <2>3 DEF SessionsInv, CookieFits, UseFits
<1> QED  BY <1>1, <1>3, <1>4, <1>5 DEF SessionsInv

LEMMA SessionsStep ==
  ASSUME NEW z \in Offices, SessionsInv(z), [Sessions(z)!Next]_accountsVars
  PROVE  SessionsInv(z)' /\ Sessions(z)!TurnedAwayForCause
<1>1. CASE Sessions(z)!Tick
  <2>1. UNCHANGED request  BY <1>1 DEF Sessions!Tick
  <2> QED  BY <1>1, <2>1, TickStep DEF Sessions!TurnedAwayForCause
<1>2. ASSUME NEW u \in Users[z], Sessions(z)!Login(u) \/ Sessions(z)!Logout(u)
      PROVE  SessionsInv(z)' /\ UNCHANGED request
  <2>1. now \in Nat /\ login[u] \in Nat /\ now <= MaxNow[z] /\ now > 0 /\ login[u] <= now
    <3>1. now \in 1 .. MaxNow[z] /\ login[u] \in 0 .. MaxNow[z] /\ login[u] <= now
      BY DEF SessionsInv, SessionsType, CookieFits
    <3> QED  BY <3>1, TimesAre
  <2>2. request' = [request EXCEPT ![u] = request[u]] /\ UNCHANGED <<now, account, served, request>>
    BY <1>2 DEF SessionsInv, SessionsType, Sessions!Login, Sessions!Logout
  <2>3. CASE Sessions(z)!Login(u)
    <3> DEFINE c == [access |-> now + AccessTTL[z], refresh |-> now + RefreshTTL[z]]
    <3>1. cookie' = [cookie EXCEPT ![u] = c] /\ login' = [login EXCEPT ![u] = now]
      BY <2>3 DEF Sessions!Login
    <3>2. c \in [access : Times(z), refresh : Times(z)]  BY <2>1, TimesAre DEF Times
    <3>3. CookieFits(z, c, now)  BY <2>1, TimesAre DEF CookieFits
    <3> HIDE DEF c
    <3> QED  BY <2>2, <3>1, <3>2, <3>3, CookieSet
  <2>4. CASE Sessions(z)!Logout(u)
    <3> DEFINE c == [access |-> 0, refresh |-> 0]
    <3>1. cookie' = [cookie EXCEPT ![u] = c] /\ login' = [login EXCEPT ![u] = login[u]]
      BY <2>4 DEF Sessions!Logout, SessionsInv, SessionsType
    <3>2. c \in [access : Times(z), refresh : Times(z)]  BY TimesAre DEF Times
    <3>3. CookieFits(z, c, login[u])  BY <2>1, TimesAre DEF CookieFits
    <3> HIDE DEF c
    <3> QED  BY <2>2, <3>1, <3>2, <3>3, CookieSet
  <2> QED  BY <1>2, <2>3, <2>4
<1>3. ASSUME NEW u \in Users[z], Sessions(z)!Mint(u) \/ Sessions(z)!Call(u) \/ Sessions(z)!Handle(u) \/ Sessions(z)!Lose(u)
      PROVE  SessionsInv(z)' /\ NoneEnds(z)
  BY <1>3, MintStep, CallStep, HandleStep, LoseStep
<1>4. ASSUME NEW u \in Users[z], NEW op \in Operations[z][u], NEW paged \in BOOLEAN,
             Sessions(z)!Begin(u, op, paged)
      PROVE  SessionsInv(z)' /\ \A v \in Users[z] : request[v] # Idle => request'[v] = request[v]
  <2>1. PICK r : request[u] = Idle /\ request' = [request EXCEPT ![u] = r]
    BY <1>4 DEF Sessions!Begin, Sessions!Put, Sessions!Idle, Idle
  <2> QED  BY <1>4, <2>1, BeginStep DEF SessionsInv, SessionsType
<1>5. CASE UNCHANGED accountsVars
  <2>1. SessionsInv(z)'
    BY <1>5 DEF accountsVars, SessionsInv, SessionsType, RequestFits, CookieFits, UseFits
  <2> QED  BY <1>5, <2>1 DEF accountsVars, Sessions!TurnedAwayForCause
<1> USE DEF Sessions!TurnedAwayForCause, Sessions!Idle, Idle
<1>6. ASSUME NEW u \in Users[z],
             \/ Sessions(z)!Login(u) \/ Sessions(z)!Logout(u) \/ Sessions(z)!Mint(u)
             \/ Sessions(z)!Call(u) \/ Sessions(z)!Handle(u) \/ Sessions(z)!Lose(u)
             \/ Sessions(z)!Finish(u)
      PROVE  SessionsInv(z)' /\ Sessions(z)!TurnedAwayForCause
  BY <1>2, <1>3, <1>6, FinishStep DEF NoneEnds
<1>7. ASSUME NEW u \in Users[z], NEW op \in Operations[z][u], NEW paged \in BOOLEAN,
             Sessions(z)!Begin(u, op, paged)
      PROVE  SessionsInv(z)' /\ Sessions(z)!TurnedAwayForCause
  BY <1>4, <1>7
<1> QED  BY <1>1, <1>5, <1>6, <1>7 DEF Sessions!Next

LEMMA SessionsPromises ==
  ASSUME NEW z \in Offices, SessionsInv(z)
  PROVE  /\ Sessions(z)!TypeOK
         /\ Sessions(z)!SeenIsOnline /\ Sessions(z)!SessionsAreBounded
         /\ Sessions(z)!AppliedOnce
<1>1. Sessions(z)!TypeOK
  BY DEF SessionsInv, SessionsType, OpenRequest, Sessions!TypeOK, Sessions!Row, Sessions!Times,
     Sessions!Idle, Idle, Row, Times
<1>2. Sessions(z)!SessionsAreBounded
  BY DEF SessionsInv, CookieFits, Sessions!SessionsAreBounded
<1>3. Sessions(z)!AppliedOnce
  <2> SUFFICES ASSUME NEW u \in Users[z], request[u] # Idle PROVE request[u].applied <= 1
    BY DEF Sessions!AppliedOnce, Sessions!Idle, Idle
  <2>1. request[u] \in OpenRequest(z)  BY DEF SessionsInv, SessionsType
  <2>2. request[u].applied \in {0, 1}  BY <2>1 DEF OpenRequest
  <2> QED  BY <2>2
<1>4. Sessions(z)!SeenIsOnline
  <2> SUFFICES ASSUME NEW u \in Users[z]
               PROVE  /\ served[u] # 0 /\ now - served[u] <= Online[z] - Throttle[z] =>
                           account[u].seen # 0 /\ now - account[u].seen <= Online[z]
                      /\ account[u].seen # 0 /\ now - account[u].seen <= Online[z] =>
                           now - served[u] <= Online[z] + Patience[z]
    BY DEF Sessions!SeenIsOnline, Sessions!IsOnline, Sessions!Never
  <2>1. served[u] \in 0 .. MaxNow[z] /\ account[u].seen \in 0 .. MaxNow[z] /\ now \in 1 .. MaxNow[z]
    BY DEF SessionsInv, SessionsType, Row
  <2>2. UseFits(z, account[u].seen, served[u])  BY DEF SessionsInv
  <2>3. served[u] \in Int /\ account[u].seen \in Int /\ now \in Int  BY <2>1
  <2> QED  BY <2>2, <2>3, TimesAre DEF UseFits
<1> QED  BY <1>1, <1>2, <1>3, <1>4
-----------------------------------------------------------------------------
(***************************************************************************)
(* The workbench.  While a call of a page is under way its form changes    *)
(* only by typing; so what a save stored is still what the form holds when *)
(* its answer arrives, unless it was typed into.                           *)
(***************************************************************************)
NoCall == [do |-> "none", at |-> "none", text |-> 0, typed |-> FALSE, draft |-> 0]
PageState ==
  [open : BOOLEAN, status : Bench!Statuses, fills : BOOLEAN, shown : 0..MaxSaves,
   text : 0..MaxSaves, typed : BOOLEAN,
   load : {"none", "asked", "served", "failed"}, loaded : 0..MaxSaves,
   busy : BOOLEAN, stale : BOOLEAN]
Calls == [do : {"none", "save", "submit", "approve", "return"},
          at : {"none", "sent", "done", "failed"},
          text : 0..MaxSaves, typed : BOOLEAN, draft : 0..MaxSaves]

\* Saves that the API has not seen yet.
Sending(calls) == {p \in Pages : calls[p].do = "save" /\ calls[p].at = "sent"}
Sent(calls) == Cardinality(Sending(calls))
Counted == draft + Sent(main) + Sent(side) <= saves

\* Of a page that holds g: itself, and a call c of it.
PageFits(g) ==
  /\ g.shown <= draft /\ g.loaded <= draft
  /\ g.fills /\ ~ g.typed => g.text = text[g.shown]
CallFits(p, g, c) ==
  /\ c.at = "sent" => c.do # "none"
  /\ c # NoCall /\ g.fills => g.load \in {"none", "failed"}
  /\ c.do = "save" /\ c.at = "sent" /\ g.fills /\ ~ g.typed => c.text = g.text /\ ~ c.typed
  /\ c.do = "save" /\ c.at = "done" =>
       /\ c.draft \in 1..draft /\ author[c.draft] = p
       /\ g.fills /\ ~ g.typed => text[c.draft] = g.text
  /\ c.do = "submit" /\ c.at = "sent" => c.draft \in 1..draft /\ author[c.draft] = p
Fits(p, g, m, s) ==
  PageFits(g) /\ CallFits(p, g, m) /\ CallFits(p, g, s) /\ s.do \in {"none", "save"}

ServerType ==
  /\ status \in Bench!Statuses /\ draft \in 0..MaxSaves
  /\ status = "received" <=> draft = 0
  /\ text \in [0..MaxSaves -> 0..MaxSaves] /\ author \in [0..MaxSaves -> Pages]
PagesType ==
  /\ page \in [Pages -> PageState]
  /\ main \in [Pages -> Calls] /\ side \in [Pages -> Calls]
  /\ saves \in 0..MaxSaves /\ opens \in 0..MaxOpens

BenchInv ==
  /\ ServerType /\ PagesType
  /\ Counted
  /\ text[0] = 0
  /\ \A p \in Pages : Fits(p, page[p], main[p], side[p])

LEMMA BenchIs ==
  /\ TheyWait
  /\ Pages # {} /\ IsFiniteSet(Pages) /\ MaxSaves \in Nat /\ MaxOpens \in Nat
  /\ NoCall \in Calls
BY WorkbenchAssumption DEF Bench!WorkbenchAssumption, Bench!IsFiniteSet, IsFiniteSet, TheyWait, NoCall, Calls

LEMMA BenchInit == Bench!Init => BenchInv
<1> SUFFICES ASSUME Bench!Init PROVE BenchInv  OBVIOUS
<1>1. /\ status = "received" /\ draft = 0
      /\ text = [d \in 0..MaxSaves |-> 0]
      /\ author = [d \in 0..MaxSaves |-> CHOOSE p \in Pages : TRUE]
      /\ page = [p \in Pages |-> Bench!Closed]
      /\ main = [p \in Pages |-> NoCall] /\ side = [p \in Pages |-> NoCall]
      /\ saves = 0 /\ opens = 0
  BY DEF Bench!Init, Bench!Drafts, Bench!NoCall, NoCall
<1>2. ServerType
  BY <1>1, BenchIs DEF ServerType, Bench!Statuses, Bench!EDITABLE_STATUSES
<1>3. Bench!Closed \in PageState
  BY BenchIs DEF Bench!Closed, PageState, Bench!Statuses, Bench!EDITABLE_STATUSES
<1>4. PagesType  BY <1>1, <1>3, BenchIs DEF PagesType
<1>5. Counted
  <2>1. Sending(main) = {} /\ Sending(side) = {}  BY <1>1 DEF Sending, NoCall
  <2> QED  BY <1>1, <2>1, FS_EmptySet DEF Counted, Sent
<1>6. text[0] = 0  BY <1>1, BenchIs
<1>7. \A p \in Pages : Fits(p, page[p], main[p], side[p])
  <2> SUFFICES ASSUME NEW p \in Pages PROVE Fits(p, page[p], main[p], side[p])  OBVIOUS
  <2>1. /\ page[p].shown = 0 /\ page[p].loaded = 0 /\ page[p].text = 0
        /\ main[p] = NoCall /\ side[p] = NoCall
    BY <1>1 DEF Bench!Closed
  <2> QED  BY <1>1, <1>6, <2>1 DEF Fits, PageFits, CallFits, NoCall
<1> QED  BY <1>2, <1>4, <1>5, <1>6, <1>7 DEF BenchInv

\* Who is sending after a call of p has changed.
LEMMA SendingIs ==
  ASSUME NEW calls \in [Pages -> Calls], NEW p \in Pages, NEW c
  PROVE  /\ Sent(calls) \in Nat /\ Sent([calls EXCEPT ![p] = c]) \in Nat
         /\ Sent([calls EXCEPT ![p] = c]) <= Sent(calls) + 1
         /\ ~ (c.do = "save" /\ c.at = "sent") =>
              /\ Sent([calls EXCEPT ![p] = c]) <= Sent(calls)
              /\ calls[p].do = "save" /\ calls[p].at = "sent" =>
                   Sent([calls EXCEPT ![p] = c]) = Sent(calls) - 1
<1> DEFINE old == Sending(calls)
           new == Sending([calls EXCEPT ![p] = c])
<1>1. IsFiniteSet(old) /\ Cardinality(old) \in Nat
  BY BenchIs, FS_Subset, FS_CardinalityType DEF Sending
<1>2. IsFiniteSet(new) /\ Cardinality(new) \in Nat
  BY BenchIs, FS_Subset, FS_CardinalityType DEF Sending
<1>3. new \subseteq old \cup {p}  BY DEF Sending
<1>4. ~ (c.do = "save" /\ c.at = "sent") => new = old \ {p}  BY DEF Sending
<1>5. calls[p].do = "save" /\ calls[p].at = "sent" => p \in old  BY DEF Sending
<1>6. Sent(calls) = Cardinality(old) /\ Sent([calls EXCEPT ![p] = c]) = Cardinality(new)  BY DEF Sent
<1> HIDE DEF old, new
<1>7. Cardinality(new) <= Cardinality(old) + 1
  <2>1. IsFiniteSet(old \cup {p}) /\ Cardinality(old \cup {p}) <= Cardinality(old) + 1
        /\ Cardinality(old \cup {p}) \in Nat
    <3>1. IsFiniteSet(old \cup {p})  BY <1>1, FS_AddElement
    <3>2. Cardinality(old \cup {p}) = IF p \in old THEN Cardinality(old) ELSE Cardinality(old) + 1
      BY <1>1, FS_AddElement
    <3> QED  BY <1>1, <3>1, <3>2
  <2>2. Cardinality(new) <= Cardinality(old \cup {p})  BY <1>3, <2>1, FS_Subset
  <2> QED  BY <1>1, <1>2, <2>1, <2>2
<1>8. Cardinality(old \ {p}) = IF p \in old THEN Cardinality(old) - 1 ELSE Cardinality(old)
  BY <1>1, FS_RemoveElement
<1>9. ~ (c.do = "save" /\ c.at = "sent") =>
        Cardinality(new) = IF p \in old THEN Cardinality(old) - 1 ELSE Cardinality(old)
  BY <1>4, <1>8
<1>10. ~ (c.do = "save" /\ c.at = "sent") =>
         /\ Cardinality(new) <= Cardinality(old)
         /\ p \in old => Cardinality(new) = Cardinality(old) - 1
  BY <1>1, <1>2, <1>9
<1> QED  BY <1>1, <1>2, <1>5, <1>6, <1>7, <1>10

\* One page moves, and the API does not.
LEMMA Moved ==
  ASSUME BenchInv, NEW p \in Pages, NEW g \in PageState, NEW m \in Calls, NEW s \in Calls,
         Fits(p, g, m, s),
         page' = [page EXCEPT ![p] = g],
         main' = [main EXCEPT ![p] = m], side' = [side EXCEPT ![p] = s],
         UNCHANGED <<status, draft, text, author>>,
         opens' \in 0..MaxOpens, saves' \in 0..MaxSaves, Counted'
  PROVE  BenchInv'
<1>1. ServerType' /\ PagesType'  BY DEF BenchInv, ServerType, PagesType
<1>2. \A q \in Pages : /\ page'[q] = IF q = p THEN g ELSE page[q]
                       /\ main'[q] = IF q = p THEN m ELSE main[q]
                       /\ side'[q] = IF q = p THEN s ELSE side[q]
  BY DEF BenchInv, PagesType
<1>3. \A q \in Pages : Fits(q, page[q], main[q], side[q])'
  BY <1>2 DEF BenchInv, Fits, PageFits, CallFits
<1> QED  BY <1>1, <1>3 DEF BenchInv

LEMMA Here ==
  ASSUME BenchInv, NEW p \in Pages
  PROVE  /\ page[p] \in PageState /\ main[p] \in Calls /\ side[p] \in Calls
         /\ Fits(p, page[p], main[p], side[p])
         /\ status \in Bench!Statuses /\ draft \in 0..MaxSaves /\ draft \in Nat
         /\ saves \in 0..MaxSaves /\ opens \in 0..MaxOpens
         /\ text \in [0..MaxSaves -> 0..MaxSaves] /\ author \in [0..MaxSaves -> Pages]
         /\ 0 \in 0..MaxSaves
BY BenchIs DEF BenchInv, ServerType, PagesType

LEMMA PageMoves ==
  ASSUME BenchInv, NEW p \in Pages, NEW g \in PageState,
         Fits(p, g, main[p], side[p]),
         page' = [page EXCEPT ![p] = g],
         UNCHANGED <<status, draft, text, author, main, side, saves>>,
         opens' \in 0..MaxOpens
  PROVE  BenchInv'
<1>1. main' = [main EXCEPT ![p] = main[p]] /\ side' = [side EXCEPT ![p] = side[p]]
  BY DEF BenchInv, PagesType
<1>2. Counted' /\ saves' \in 0..MaxSaves  BY DEF BenchInv, PagesType, Counted, Sent, Sending
<1> QED  BY <1>1, <1>2, Here, Moved

\* A page of which one field has changed.
PutOpen(g, x) == [g EXCEPT !.open = x]
PutStatus(g, x) == [g EXCEPT !.status = x]
PutFills(g, x) == [g EXCEPT !.fills = x]
PutShown(g, x) == [g EXCEPT !.shown = x]
PutText(g, x) == [g EXCEPT !.text = x]
PutTyped(g, x) == [g EXCEPT !.typed = x]
PutLoad(g, x) == [g EXCEPT !.load = x]
PutLoaded(g, x) == [g EXCEPT !.loaded = x]
PutBusy(g, x) == [g EXCEPT !.busy = x]
PutStale(g, x) == [g EXCEPT !.stale = x]

LEMMA PageSet ==
  ASSUME NEW g \in PageState
  PROVE  /\ \A x \in BOOLEAN : PutOpen(g, x) \in PageState
         /\ \A x \in Bench!Statuses : PutStatus(g, x) \in PageState
         /\ \A x \in BOOLEAN : PutFills(g, x) \in PageState
         /\ \A x \in 0..MaxSaves : PutShown(g, x) \in PageState
         /\ \A x \in 0..MaxSaves : PutText(g, x) \in PageState
         /\ \A x \in BOOLEAN : PutTyped(g, x) \in PageState
         /\ \A x \in {"none", "asked", "served", "failed"} : PutLoad(g, x) \in PageState
         /\ \A x \in 0..MaxSaves : PutLoaded(g, x) \in PageState
         /\ \A x \in BOOLEAN : PutBusy(g, x) \in PageState
         /\ \A x \in BOOLEAN : PutStale(g, x) \in PageState
BY DEF PageState, PutOpen, PutStatus, PutFills, PutShown, PutText, PutTyped, PutLoad, PutLoaded,
       PutBusy, PutStale

LEMMA OpenStep ==
  ASSUME BenchInv, NEW p \in Pages, Bench!Open(p)
  PROVE  BenchInv'
<1> DEFINE fills == status \in Bench!EDITABLE_STATUSES
           on == TRUE
           new == [Bench!Closed EXCEPT !.open = on, !.status = status, !.fills = fills,
                                       !.load = "asked"]
<1>1. /\ main[p] = NoCall /\ side[p] = NoCall
      /\ opens < MaxOpens /\ opens' = opens + 1
      /\ page' = [page EXCEPT ![p] = new]
      /\ UNCHANGED <<status, draft, text, author, main, side, saves>>
  BY DEF Bench!Open, Bench!NoCall, NoCall, Bench!server, Bench!calls
<1>2. /\ Bench!Closed \in PageState
      /\ Bench!Closed.shown = 0 /\ Bench!Closed.loaded = 0 /\ Bench!Closed.text = 0
  BY BenchIs DEF Bench!Closed, PageState, Bench!Statuses, Bench!EDITABLE_STATUSES
<1>3. fills \in BOOLEAN /\ on \in BOOLEAN  OBVIOUS
<1>4. new = PutLoad(PutFills(PutStatus(PutOpen(Bench!Closed, on), status), fills), "asked")
  BY DEF PutOpen, PutStatus, PutFills, PutLoad
<1> HIDE DEF new, fills, on
<1>5. new \in PageState /\ new.shown = 0 /\ new.loaded = 0 /\ new.text = 0
  <2>1. PutOpen(Bench!Closed, on) \in PageState  BY <1>2, <1>3, PageSet
  <2>2. PutStatus(PutOpen(Bench!Closed, on), status) \in PageState  BY <2>1, Here, PageSet
  <2>3. PutFills(PutStatus(PutOpen(Bench!Closed, on), status), fills) \in PageState
    BY <1>3, <2>2, PageSet
  <2>4. new \in PageState  BY <1>4, <2>3, PageSet
  <2>5. new.shown = 0 /\ new.loaded = 0 /\ new.text = 0
    BY <1>2, <1>4 DEF PutOpen, PutStatus, PutFills, PutLoad, PageState
  <2> QED  BY <2>4, <2>5
<1> HIDE DEF new
<1>6. Fits(p, new, main[p], side[p])
  <2>1. text[0] = 0 /\ draft \in Nat  BY Here DEF BenchInv
  <2>2. PageFits(new)  BY <1>5, <2>1 DEF PageFits
  <2> QED  BY <1>1, <2>2 DEF Fits, CallFits, NoCall
<1>7. opens' \in 0..MaxOpens
  <2>1. \A o \in 0..MaxOpens : o < MaxOpens => o + 1 \in 0..MaxOpens  BY BenchIs
  <2> QED  BY <1>1, <2>1, Here, Zenon
<1> QED  BY <1>1, <1>5, <1>6, <1>7, PageMoves

LEMMA RetryStep ==
  ASSUME BenchInv, NEW p \in Pages, Bench!Retry(p)
  PROVE  BenchInv'
<1> DEFINE off == FALSE
           new == PutFills(PutLoad(page[p], "asked"), off)
<1>1. /\ page' = [page EXCEPT ![p] = [page[p] EXCEPT !.load = "asked", !.fills = FALSE]]
      /\ UNCHANGED <<status, draft, text, author, main, side, saves, opens>>
  BY DEF Bench!Retry, Bench!server, Bench!calls, BenchInv, PagesType
<1>2. page' = [page EXCEPT ![p] = new]  BY <1>1 DEF PutFills, PutLoad
<1>3. off \in BOOLEAN /\ ~ off  OBVIOUS
<1>4. new.fills = off /\ new.shown = page[p].shown /\ new.loaded = page[p].loaded
  BY Here DEF PutFills, PutLoad, PageState
<1> HIDE DEF off
<1>5. new \in PageState
  <2>1. PutLoad(page[p], "asked") \in PageState  BY Here, PageSet
  <2> QED  BY <1>3, <2>1, PageSet
<1> HIDE DEF new
<1>6. Fits(p, new, main[p], side[p])
  <2>1. PageFits(new)  BY <1>3, <1>4, Here DEF Fits, PageFits
  <2> QED  BY <1>3, <1>4, <2>1, Here DEF Fits, CallFits
<1> QED  BY <1>1, <1>2, <1>5, <1>6, Here, PageMoves

LEMMA ServeLoadStep ==
  ASSUME BenchInv, NEW p \in Pages, Bench!ServeLoad(p)
  PROVE  BenchInv'
<1> DEFINE new == PutLoaded(PutLoad(page[p], "served"), draft)
<1>1. /\ page[p].load = "asked"
      /\ page' = [page EXCEPT ![p] = new]
      /\ UNCHANGED <<status, draft, text, author, main, side, saves, opens>>
  BY DEF Bench!ServeLoad, Bench!server, Bench!calls, BenchInv, PagesType, PutLoad, PutLoaded
<1>2. /\ new.load = "served" /\ new.loaded = draft /\ new.shown = page[p].shown
      /\ new.fills = page[p].fills /\ new.typed = page[p].typed /\ new.text = page[p].text
  BY Here DEF PutLoaded, PutLoad, PageState
<1>3. new \in PageState
  <2>1. PutLoad(page[p], "served") \in PageState  BY Here, PageSet
  <2> QED  BY <2>1, Here, PageSet
<1> HIDE DEF new
<1>4. Fits(p, new, main[p], side[p])
  <2>1. PageFits(new)  BY <1>2, Here DEF Fits, PageFits
  <2> QED  BY <1>1, <1>2, <2>1, Here DEF Fits, CallFits
<1> QED  BY <1>1, <1>3, <1>4, Here, PageMoves

\* The draft arrives: no call is under way in a page that it fills in.
LEMMA AnswerLoadStep ==
  ASSUME BenchInv, NEW p \in Pages, Bench!AnswerLoad(p)
  PROVE  BenchInv'
<1> DEFINE off == FALSE
           d == page[p].loaded
           kept == PutShown(PutLoaded(PutLoad(page[p], "none"), 0), d)
           filled == PutTyped(PutText(kept, text[d]), off)
<1>1. /\ page[p].load = "served"
      /\ page' = [page EXCEPT ![p] = IF page[p].fills THEN filled ELSE kept]
      /\ UNCHANGED <<status, draft, text, author, main, side, saves, opens>>
  BY DEF Bench!AnswerLoad, Bench!Loaded, Bench!server, Bench!calls,
         PutShown, PutLoaded, PutLoad, PutTyped, PutText
<1>2. /\ page[p] \in PageState /\ d \in 0..MaxSaves /\ d <= draft /\ text[d] \in 0..MaxSaves
      /\ 0 <= draft
  <2>1. page[p] \in PageState /\ PageFits(page[p]) /\ draft \in Nat  BY Here DEF Fits
  <2>2. d \in 0..MaxSaves  BY <2>1 DEF PageState
  <2>3. d <= draft /\ 0 <= draft  BY <2>1 DEF PageFits
  <2> HIDE DEF d
  <2> QED  BY <2>1, <2>2, <2>3, Here
<1>3. off \in BOOLEAN /\ ~ off  OBVIOUS
<1> HIDE DEF off, d
<1>4. kept \in PageState
  <2>1. PutLoad(page[p], "none") \in PageState  BY <1>2, PageSet
  <2>2. PutLoaded(PutLoad(page[p], "none"), 0) \in PageState  BY <2>1, Here, PageSet
  <2> QED  BY <1>2, <2>2, PageSet
<1>5. kept.load = "none" /\ kept.loaded = 0 /\ kept.shown = d /\ kept.fills = page[p].fills
  BY <1>2 DEF PutShown, PutLoaded, PutLoad, PageState
<1> HIDE DEF kept
<1>6. CASE page[p].fills
  <2>1. filled \in PageState
    <3>1. PutText(kept, text[d]) \in PageState  BY <1>2, <1>4, PageSet
    <3> QED  BY <1>3, <3>1, PageSet
  <2>2. /\ filled.load = "none" /\ filled.loaded = 0 /\ filled.shown = d
        /\ filled.text = text[d]
    BY <1>4, <1>5 DEF PutTyped, PutText, PageState
  <2>3. main[p] = NoCall /\ side[p] = NoCall  BY <1>1, <1>6, Here DEF Fits, CallFits
  <2> HIDE DEF filled
  <2>4. PageFits(filled)  BY <1>2, <2>2 DEF PageFits
  <2>5. Fits(p, filled, main[p], side[p])  BY <2>3, <2>4 DEF Fits, CallFits, NoCall
  <2> QED  BY <1>1, <1>6, <2>1, <2>5, Here, PageMoves
<1>7. CASE ~ page[p].fills
  <2>1. PageFits(kept)  BY <1>2, <1>5, <1>7 DEF PageFits
  <2>2. Fits(p, kept, main[p], side[p])  BY <1>5, <1>7, <2>1, Here DEF Fits, CallFits
  <2> QED  BY <1>1, <1>4, <1>7, <2>2, Here, PageMoves
<1> QED  BY <1>6, <1>7

LEMMA FailLoadStep ==
  ASSUME BenchInv, NEW p \in Pages, Bench!FailLoad(p)
  PROVE  BenchInv'
<1> DEFINE new == PutLoaded(PutLoad(page[p], "failed"), 0)
<1>1. /\ page' = [page EXCEPT ![p] = new]
      /\ UNCHANGED <<status, draft, text, author, main, side, saves, opens>>
  BY DEF Bench!FailLoad, Bench!server, Bench!calls, BenchInv, PagesType, PutLoad, PutLoaded
<1>2. /\ new.load = "failed" /\ new.loaded = 0 /\ new.shown = page[p].shown
      /\ new.fills = page[p].fills /\ new.typed = page[p].typed /\ new.text = page[p].text
  BY Here DEF PutLoaded, PutLoad, PageState
<1>3. new \in PageState
  <2>1. PutLoad(page[p], "failed") \in PageState  BY Here, PageSet
  <2> QED  BY <2>1, Here, PageSet
<1> HIDE DEF new
<1>4. Fits(p, new, main[p], side[p])
  <2>1. PageFits(new)  BY <1>2, Here DEF Fits, PageFits
  <2> QED  BY <1>2, <2>1, Here DEF Fits, CallFits
<1> QED  BY <1>1, <1>3, <1>4, Here, PageMoves

LEMMA TypeStep ==
  ASSUME BenchInv, NEW p \in Pages, Bench!Type(p)
  PROVE  BenchInv'
<1> DEFINE on == TRUE
           new == PutTyped(page[p], on)
<1>1. /\ page' = [page EXCEPT ![p] = new]
      /\ UNCHANGED <<status, draft, text, author, main, side, saves, opens>>
  BY DEF Bench!Type, Bench!server, Bench!calls, BenchInv, PagesType, PutTyped
<1>2. on \in BOOLEAN /\ on  OBVIOUS
<1>3. /\ new.typed = on /\ new.load = page[p].load /\ new.loaded = page[p].loaded
      /\ new.shown = page[p].shown /\ new.fills = page[p].fills
  BY Here DEF PutTyped, PageState
<1> HIDE DEF on
<1>4. new \in PageState  BY <1>2, Here, PageSet
<1> HIDE DEF new
<1>5. Fits(p, new, main[p], side[p])
  <2>1. PageFits(new)  BY <1>2, <1>3, Here DEF Fits, PageFits
  <2> QED  BY <1>2, <1>3, <2>1, Here DEF Fits, CallFits
<1> QED  BY <1>1, <1>4, <1>5, Here, PageMoves

LEMMA RefreshStep ==
  ASSUME BenchInv, NEW p \in Pages, Bench!Refresh(p)
  PROVE  BenchInv'
<1> DEFINE off == FALSE
           new == PutStale(PutStatus(page[p], status), off)
<1>1. /\ page' = [page EXCEPT ![p] = new]
      /\ UNCHANGED <<status, draft, text, author, main, side, saves, opens>>
  BY DEF Bench!Refresh, Bench!server, Bench!calls, BenchInv, PagesType, PutStatus, PutStale
<1>2. off \in BOOLEAN  OBVIOUS
<1> HIDE DEF off
<1>3. /\ new.load = page[p].load /\ new.loaded = page[p].loaded /\ new.shown = page[p].shown
      /\ new.fills = page[p].fills /\ new.typed = page[p].typed /\ new.text = page[p].text
  BY Here DEF PutStatus, PutStale, PageState
<1>4. new \in PageState
  <2>1. PutStatus(page[p], status) \in PageState  BY Here, PageSet
  <2> QED  BY <1>2, <2>1, PageSet
<1> HIDE DEF new
<1>5. Fits(p, new, main[p], side[p])
  <2>1. PageFits(new)  BY <1>3, Here DEF Fits, PageFits
  <2> QED  BY <1>3, <2>1, Here DEF Fits, CallFits
<1> QED  BY <1>1, <1>4, <1>5, Here, PageMoves

\* A call of which one field has changed.
CallDo(c, x) == [c EXCEPT !.do = x]
CallAt(c, x) == [c EXCEPT !.at = x]
CallText(c, x) == [c EXCEPT !.text = x]
CallTyped(c, x) == [c EXCEPT !.typed = x]
CallDraft(c, x) == [c EXCEPT !.draft = x]

LEMMA CallSet ==
  ASSUME NEW c \in Calls
  PROVE  /\ \A x \in {"none", "save", "submit", "approve", "return"} : CallDo(c, x) \in Calls
         /\ \A x \in {"none", "sent", "done", "failed"} : CallAt(c, x) \in Calls
         /\ \A x \in 0..MaxSaves : CallText(c, x) \in Calls
         /\ \A x \in BOOLEAN : CallTyped(c, x) \in Calls
         /\ \A x \in 0..MaxSaves : CallDraft(c, x) \in Calls
BY DEF Calls, CallDo, CallAt, CallText, CallTyped, CallDraft

\* A button pressed: the call, and the page that waits for it.
LEMMA CallIs ==
  ASSUME BenchInv, NEW p \in Pages, NEW what \in {"save", "approve", "return"}
  PROVE  LET c == Bench!Call(p, what) IN
         /\ c \in Calls /\ c.do = what /\ c.at = "sent" /\ c # NoCall
         /\ what = "save" => c.text = page[p].text /\ c.typed = page[p].typed
<1> DEFINE bare == CallAt(CallDo(NoCall, what), "sent")
           full == CallTyped(CallText(bare, page[p].text), page[p].typed)
           c == Bench!Call(p, what)
<1>1. c = IF what = "save" THEN full ELSE bare
  BY DEF Bench!Call, Bench!NoCall, NoCall, CallAt, CallDo, CallTyped, CallText
<1>2. page[p].text \in 0..MaxSaves /\ page[p].typed \in BOOLEAN
  BY Here DEF PageState
<1>3. bare \in Calls /\ bare.do = what /\ bare.at = "sent"
  <2>1. CallDo(NoCall, what) \in Calls  BY BenchIs, CallSet
  <2>2. bare \in Calls  BY <2>1, CallSet
  <2>3. bare.do = what /\ bare.at = "sent"  BY BenchIs DEF CallAt, CallDo, Calls
  <2> QED  BY <2>2, <2>3
<1> HIDE DEF bare
<1>4. /\ full \in Calls /\ full.do = what /\ full.at = "sent"
      /\ full.text = page[p].text /\ full.typed = page[p].typed
  <2>1. CallText(bare, page[p].text) \in Calls  BY <1>2, <1>3, CallSet
  <2>2. full \in Calls  BY <1>2, <2>1, CallSet
  <2>3. /\ full.do = what /\ full.at = "sent"
        /\ full.text = page[p].text /\ full.typed = page[p].typed
    BY <1>3 DEF CallTyped, CallText, Calls
  <2> QED  BY <2>2, <2>3
<1> HIDE DEF full
<1>5. c \in Calls /\ c.do = what /\ c.at = "sent"  BY <1>1, <1>3, <1>4
<1>6. c # NoCall
  <2>1. NoCall.at = "none"  BY DEF NoCall
  <2> QED  BY <1>5, <2>1
<1>7. what = "save" => c.text = page[p].text /\ c.typed = page[p].typed  BY <1>1, <1>4
<1> QED  BY <1>5, <1>6, <1>7

\* A new call fits its page, which shows that it is busy.
LEMMA CallFitsNew ==
  ASSUME BenchInv, NEW p \in Pages, NEW what \in {"save", "approve", "return"},
         NEW busy \in BOOLEAN, Bench!Ready(p)
  PROVE  LET c == Bench!Call(p, what)
             g == PutBusy(page[p], busy) IN
         /\ g \in PageState /\ PageFits(g) /\ CallFits(p, g, c)
         /\ CallFits(p, g, main[p]) /\ CallFits(p, g, side[p])
<1> DEFINE c == Bench!Call(p, what)
           g == PutBusy(page[p], busy)
<1>1. /\ c \in Calls /\ c.do = what /\ c.at = "sent" /\ c # NoCall
      /\ what = "save" => c.text = page[p].text /\ c.typed = page[p].typed
  BY CallIs
<1>2. /\ g.load = page[p].load /\ g.loaded = page[p].loaded /\ g.shown = page[p].shown
      /\ g.fills = page[p].fills /\ g.typed = page[p].typed /\ g.text = page[p].text
  BY Here DEF PutBusy, PageState
<1>3. g \in PageState  BY Here, PageSet
<1>4. page[p].load \in {"none", "failed"}  BY BenchIs DEF Bench!Ready
<1> HIDE DEF c, g
<1>5. PageFits(g)  BY <1>2, Here DEF Fits, PageFits
<1>6. CallFits(p, g, c)  BY <1>1, <1>2, <1>4 DEF CallFits
<1>7. CallFits(p, g, main[p]) /\ CallFits(p, g, side[p])  BY <1>2, Here DEF Fits, CallFits
<1> QED  BY <1>3, <1>5, <1>6, <1>7 DEF c, g

LEMMA SavesMore == \A x \in 0..MaxSaves : x < MaxSaves => x + 1 \in 0..MaxSaves
BY BenchIs

LEMMA SaveStep ==
  ASSUME BenchInv, NEW p \in Pages, Bench!Save(p)
  PROVE  BenchInv'
<1> DEFINE on == TRUE
           c == Bench!Call(p, "save")
           g == PutBusy(page[p], on)
<1>1. /\ Bench!Ready(p) /\ side[p] = NoCall
      /\ saves < MaxSaves /\ saves' = saves + 1
      /\ side' = [side EXCEPT ![p] = c] /\ page' = [page EXCEPT ![p] = g]
      /\ UNCHANGED <<status, draft, text, author, main, opens>>
  BY DEF Bench!Save, Bench!server, Bench!NoCall, NoCall, PutBusy
<1>2. on \in BOOLEAN  OBVIOUS
<1> HIDE DEF on
<1>3. c \in Calls /\ c.do = "save"  BY CallIs
<1>4. /\ g \in PageState /\ PageFits(g) /\ CallFits(p, g, c)
      /\ CallFits(p, g, main[p]) /\ CallFits(p, g, side[p])
  BY <1>1, <1>2, CallFitsNew
<1> HIDE DEF c, g
<1>5. Fits(p, g, main[p], c)  BY <1>3, <1>4 DEF Fits
<1>6. Counted'
  <2>1. /\ Sent(side) \in Nat /\ Sent(side') \in Nat /\ Sent(side') <= Sent(side) + 1
        /\ Sent(main) \in Nat
    BY <1>1, SendingIs DEF BenchInv, PagesType
  <2>2. draft + Sent(main) + Sent(side) <= saves /\ saves \in Nat
    BY Here, BenchIs DEF BenchInv, Counted
  <2>3. draft + Sent(main) + Sent(side') <= saves + 1  BY <2>1, <2>2, Here
  <2>4. draft' = draft /\ saves' = saves + 1 /\ Sent(main)' = Sent(main) /\ Sent(side)' = Sent(side')
    BY <1>1 DEF Sent, Sending
  <2> QED  BY <2>3, <2>4 DEF Counted
<1>7. saves' \in 0..MaxSaves  BY <1>1, Here, SavesMore, Zenon
<1>8. main' = [main EXCEPT ![p] = main[p]]  BY <1>1 DEF BenchInv, PagesType
<1> QED  BY <1>1, <1>3, <1>4, <1>5, <1>6, <1>7, <1>8, Here, Moved

LEMMA PressStep ==
  ASSUME BenchInv, NEW p \in Pages, NEW what \in {"save", "approve", "return"},
         Bench!Press(p, what), saves' \in 0..MaxSaves,
         what = "save" => saves' = saves + 1, what # "save" => saves' = saves
  PROVE  BenchInv'
<1> DEFINE on == TRUE
           c == Bench!Call(p, what)
           g == PutBusy(page[p], on)
<1>1. /\ Bench!Ready(p)
      /\ main' = [main EXCEPT ![p] = c] /\ page' = [page EXCEPT ![p] = g]
      /\ UNCHANGED <<status, draft, text, author, side, opens>>
  BY DEF Bench!Press, Bench!server, PutBusy
<1>2. on \in BOOLEAN  OBVIOUS
<1> HIDE DEF on
<1>3. c \in Calls /\ c.do = what  BY CallIs
<1>4. /\ g \in PageState /\ PageFits(g) /\ CallFits(p, g, c)
      /\ CallFits(p, g, main[p]) /\ CallFits(p, g, side[p])
  BY <1>1, <1>2, CallFitsNew
<1> HIDE DEF c, g
<1>5. Fits(p, g, c, side[p])  BY <1>4, Here DEF Fits
<1>6. Counted'
  <2>1. /\ Sent(main) \in Nat /\ Sent(main') \in Nat /\ Sent(side) \in Nat
        /\ what = "save" => Sent(main') <= Sent(main) + 1
        /\ what # "save" => Sent(main') <= Sent(main)
    BY <1>1, <1>3, SendingIs DEF BenchInv, PagesType
  <2>2. draft + Sent(main) + Sent(side) <= saves /\ saves \in Nat
    BY Here, BenchIs DEF BenchInv, Counted
  <2>3. draft + Sent(main') + Sent(side) <= saves'
    <3>1. draft \in Nat  BY Here
    <3>2. CASE what = "save"  BY <2>1, <2>2, <3>1, <3>2
    <3>3. CASE what # "save"  BY <2>1, <2>2, <3>1, <3>3
    <3> QED  BY <3>2, <3>3
  <2>4. draft' = draft /\ Sent(main)' = Sent(main') /\ Sent(side)' = Sent(side)
    BY <1>1 DEF Sent, Sending
  <2> QED  BY <2>3, <2>4 DEF Counted
<1>7. side' = [side EXCEPT ![p] = side[p]]  BY <1>1 DEF BenchInv, PagesType
<1> QED  BY <1>1, <1>3, <1>4, <1>5, <1>6, <1>7, Here, Moved

LEMMA ButtonStep ==
  ASSUME BenchInv, NEW p \in Pages,
         Bench!sendForReview(p) \/ Bench!doApprove(p) \/ Bench!doRequestChanges(p)
  PROVE  BenchInv' /\ UNCHANGED status
<1>1. CASE Bench!sendForReview(p)
  <2>1. Bench!Press(p, "save") /\ saves < MaxSaves /\ saves' = saves + 1
    BY <1>1 DEF Bench!sendForReview
  <2>2. saves' \in 0..MaxSaves  BY <2>1, Here, SavesMore, Zenon
  <2>3. BenchInv'  BY <2>1, <2>2, PressStep
  <2> QED  BY <2>1, <2>3 DEF Bench!Press, Bench!server
<1>2. CASE Bench!doApprove(p)
  <2>1. Bench!Press(p, "approve") /\ saves' = saves  BY <1>2 DEF Bench!doApprove
  <2>2. BenchInv'  BY <2>1, Here, PressStep
  <2> QED  BY <2>1, <2>2 DEF Bench!Press, Bench!server
<1>3. CASE Bench!doRequestChanges(p)
  <2>1. Bench!Press(p, "return") /\ saves' = saves  BY <1>3 DEF Bench!doRequestChanges
  <2>2. BenchInv'  BY <2>1, Here, PressStep
  <2> QED  BY <2>1, <2>2 DEF Bench!Press, Bench!server
<1> QED  BY <1>1, <1>2, <1>3

\* A call that failed, whoever lost or refused it.
LEMMA FailedIs ==
  ASSUME NEW c \in Calls
  PROVE  /\ Bench!Failed(c) \in Calls /\ Bench!Failed(c).at = "failed"
         /\ Bench!Failed(c).do = c.do /\ Bench!Failed(c) # NoCall
<1>1. Bench!Failed(c) = CallAt(CallDo(NoCall, c.do), "failed")
  BY DEF Bench!Failed, Bench!NoCall, NoCall, CallAt, CallDo
<1>2. CallDo(NoCall, c.do) \in Calls
  <2>1. c.do \in {"none", "save", "submit", "approve", "return"}  BY DEF Calls
  <2> QED  BY <2>1, BenchIs, CallSet
<1>3. Bench!Failed(c) \in Calls  BY <1>1, <1>2, CallSet
<1>4. Bench!Failed(c).at = "failed" /\ Bench!Failed(c).do = c.do
  BY <1>1, BenchIs DEF CallAt, CallDo, Calls
<1>5. NoCall.at = "none"  BY DEF NoCall
<1> QED  BY <1>3, <1>4, <1>5

\* The calls of a page change, but no save is sent.
LEMMA CallsMove ==
  ASSUME BenchInv, NEW p \in Pages, NEW g \in PageState, NEW m \in Calls, NEW s \in Calls,
         Fits(p, g, m, s),
         m = main[p] \/ ~ (m.do = "save" /\ m.at = "sent"),
         s = side[p] \/ ~ (s.do = "save" /\ s.at = "sent"),
         page' = [page EXCEPT ![p] = g],
         main' = [main EXCEPT ![p] = m], side' = [side EXCEPT ![p] = s],
         UNCHANGED <<status, draft, text, author, saves, opens>>
  PROVE  BenchInv'
<1>1. /\ Sent(main) \in Nat /\ Sent(main') \in Nat /\ Sent(side) \in Nat /\ Sent(side') \in Nat
  BY SendingIs DEF BenchInv, PagesType
<1>2. Sent(main') <= Sent(main)
  <2>1. CASE m = main[p]
    <3>1. main' = main  BY <2>1 DEF BenchInv, PagesType
    <3> QED  BY <1>1, <3>1
  <2>2. CASE ~ (m.do = "save" /\ m.at = "sent")
    BY <2>2, SendingIs DEF BenchInv, PagesType
  <2> QED  BY <2>1, <2>2
<1>3. Sent(side') <= Sent(side)
  <2>1. CASE s = side[p]
    <3>1. side' = side  BY <2>1 DEF BenchInv, PagesType
    <3> QED  BY <1>1, <3>1
  <2>2. CASE ~ (s.do = "save" /\ s.at = "sent")
    BY <2>2, SendingIs DEF BenchInv, PagesType
  <2> QED  BY <2>1, <2>2
<1>4. Counted'
  <2>1. draft + Sent(main) + Sent(side) <= saves /\ saves \in Nat
    BY Here, BenchIs DEF BenchInv, Counted
  <2>2. draft + Sent(main') + Sent(side') <= saves  BY <1>1, <1>2, <1>3, <2>1, Here
  <2>3. Sent(main)' = Sent(main') /\ Sent(side)' = Sent(side')  BY DEF Sent, Sending
  <2> QED  BY <2>2, <2>3 DEF Counted
<1> QED  BY <1>4, Here, Moved

LEMMA LoseMainStep ==
  ASSUME BenchInv, NEW p \in Pages, Bench!LoseMain(p)
  PROVE  BenchInv' /\ UNCHANGED status
<1> DEFINE c == Bench!Failed(main[p])
<1>1. /\ main[p].at \in {"sent", "done"} /\ main' = [main EXCEPT ![p] = c]
      /\ UNCHANGED <<status, draft, text, author, page, side, saves, opens>>
  BY DEF Bench!LoseMain, Bench!server
<1>2. c \in Calls /\ c.at = "failed"  BY Here, FailedIs
<1> HIDE DEF c
<1>3. main[p] # NoCall  BY <1>1 DEF NoCall
<1>4. Fits(p, page[p], c, side[p])  BY <1>2, <1>3, Here DEF Fits, CallFits
<1>5. page' = [page EXCEPT ![p] = page[p]] /\ side' = [side EXCEPT ![p] = side[p]]
  BY <1>1 DEF BenchInv, PagesType
<1>6. BenchInv'  BY <1>1, <1>2, <1>4, <1>5, Here, CallsMove
<1> QED  BY <1>1, <1>6

LEMMA LoseSideStep ==
  ASSUME BenchInv, NEW p \in Pages, Bench!LoseSide(p)
  PROVE  BenchInv' /\ UNCHANGED status
<1> DEFINE c == Bench!Failed(side[p])
<1>1. /\ side[p].at \in {"sent", "done"} /\ side' = [side EXCEPT ![p] = c]
      /\ UNCHANGED <<status, draft, text, author, page, main, saves, opens>>
  BY DEF Bench!LoseSide, Bench!server
<1>2. c \in Calls /\ c.at = "failed" /\ c.do = side[p].do  BY Here, FailedIs
<1> HIDE DEF c
<1>3. side[p] # NoCall  BY <1>1 DEF NoCall
<1>4. Fits(p, page[p], main[p], c)  BY <1>2, <1>3, Here DEF Fits, CallFits
<1>5. page' = [page EXCEPT ![p] = page[p]] /\ main' = [main EXCEPT ![p] = main[p]]
  BY <1>1 DEF BenchInv, PagesType
<1>6. BenchInv'  BY <1>1, <1>2, <1>4, <1>5, Here, CallsMove
<1> QED  BY <1>1, <1>6

\* The answer to a save moves the draft that the page shows, to one of its text.
LEMMA ShownIs ==
  ASSUME BenchInv, NEW p \in Pages, NEW c \in {main[p], side[p]}
  PROVE  LET d == Bench!Shown(p, c) IN
         /\ d \in 0..MaxSaves /\ d <= draft
         /\ page[p].fills /\ ~ page[p].typed => page[p].text = text[d]
<1>1. /\ page[p] \in PageState /\ c \in Calls /\ PageFits(page[p]) /\ CallFits(p, page[p], c)
      /\ draft \in Nat
  BY Here DEF Fits
<1>2. c.draft \in 0..MaxSaves /\ page[p].shown \in 0..MaxSaves  BY <1>1 DEF Calls, PageState
<1>3. CASE c.do = "save" /\ c.at = "done"
  <2>1. /\ Bench!Shown(p, c) = c.draft /\ c.draft \in 1..draft
        /\ page[p].fills /\ ~ page[p].typed => text[c.draft] = page[p].text
    BY <1>1, <1>3 DEF Bench!Shown, CallFits
  <2>2. c.draft <= draft  BY <1>1, <2>1
  <2> QED  BY <1>2, <2>1, <2>2
<1>4. CASE ~ (c.do = "save" /\ c.at = "done")
  <2>1. Bench!Shown(p, c) = page[p].shown  BY <1>4 DEF Bench!Shown
  <2> QED  BY <1>1, <1>2, <2>1 DEF PageFits
<1> QED  BY <1>3, <1>4

LEMMA AnswerMainStep ==
  ASSUME BenchInv, NEW p \in Pages, Bench!AnswerMain(p)
  PROVE  BenchInv' /\ UNCHANGED status
<1> DEFINE c == Bench!Following(main[p])
           d == Bench!Shown(p, main[p])
           stale == page[p].stale \/ (main[p].at = "done" /\ main'[p] = NoCall)
           busy == page[p].busy /\ main'[p] # NoCall
           g == PutBusy(PutStale(PutShown(page[p], d), stale), busy)
<1>1. /\ main[p].at \in {"done", "failed"}
      /\ main' = [main EXCEPT ![p] = c]
      /\ UNCHANGED <<status, draft, text, author, side, saves, opens>>
  BY DEF Bench!AnswerMain, Bench!server
<1>2. page' = [page EXCEPT ![p] = g]
  BY Here DEF Bench!AnswerMain, PutBusy, PutStale, PutShown, Bench!NoCall, NoCall, BenchInv,
              PagesType
<1>3. /\ d \in 0..MaxSaves /\ d <= draft
      /\ page[p].fills /\ ~ page[p].typed => page[p].text = text[d]
  BY ShownIs
<1>4. /\ page[p] \in PageState /\ main[p] \in Calls /\ main[p] # NoCall
      /\ PageFits(page[p]) /\ CallFits(p, page[p], main[p]) /\ CallFits(p, page[p], side[p])
      /\ side[p].do \in {"none", "save"}
  BY <1>1, Here DEF Fits, NoCall
<1>5. stale \in BOOLEAN /\ busy \in BOOLEAN  BY <1>4 DEF PageState
<1> HIDE DEF stale, busy, d
<1>6. g \in PageState
  <2>1. PutShown(page[p], d) \in PageState  BY <1>3, <1>4, PageSet
  <2>2. PutStale(PutShown(page[p], d), stale) \in PageState  BY <1>5, <2>1, PageSet
  <2> QED  BY <1>5, <2>2, PageSet
<1>7. /\ g.load = page[p].load /\ g.loaded = page[p].loaded /\ g.shown = d
      /\ g.fills = page[p].fills /\ g.typed = page[p].typed /\ g.text = page[p].text
  BY <1>4 DEF PutBusy, PutStale, PutShown, PageState
<1> HIDE DEF g
<1>8. /\ c \in Calls /\ ~ (c.do = "save" /\ c.at = "sent")
      /\ c # NoCall => /\ c.do = "submit" /\ c.at = "sent" /\ c.draft = main[p].draft
                       /\ main[p].do = "save" /\ main[p].at = "done"
  <2>1. CASE main[p].do = "save" /\ main[p].at = "done"
    <3>1. c = CallAt(CallDo(main[p], "submit"), "sent")
      BY <2>1 DEF Bench!Following, CallAt, CallDo
    <3>2. CallDo(main[p], "submit") \in Calls  BY <1>4, CallSet
    <3>3. c \in Calls  BY <3>1, <3>2, CallSet
    <3>4. c.do = "submit" /\ c.at = "sent" /\ c.draft = main[p].draft
      BY <1>4, <3>1 DEF CallAt, CallDo, Calls
    <3> QED  BY <2>1, <3>3, <3>4
  <2>2. CASE ~ (main[p].do = "save" /\ main[p].at = "done")
    <3>1. c = NoCall  BY <2>2 DEF Bench!Following, Bench!NoCall, NoCall
    <3>2. NoCall.do = "none"  BY DEF NoCall
    <3> QED  BY <3>1, <3>2, BenchIs
  <2> QED  BY <2>1, <2>2
<1> HIDE DEF c
<1>9. Fits(p, g, c, side[p])
  <2>1. PageFits(g)  BY <1>3, <1>4, <1>7 DEF PageFits
  <2>2. CallFits(p, g, side[p])  BY <1>4, <1>7 DEF CallFits
  <2>3. CASE c = NoCall
    <3>1. CallFits(p, g, c)  BY <2>3 DEF CallFits, NoCall
    <3> QED  BY <1>4, <2>1, <2>2, <3>1 DEF Fits
  <2>4. CASE c # NoCall
    <3>1. CallFits(p, g, c)  BY <1>4, <1>7, <1>8, <2>4 DEF CallFits
    <3> QED  BY <1>4, <2>1, <2>2, <3>1 DEF Fits
  <2> QED  BY <2>3, <2>4
<1>10. side' = [side EXCEPT ![p] = side[p]]  BY <1>1 DEF BenchInv, PagesType
<1>11. BenchInv'  BY <1>1, <1>2, <1>6, <1>8, <1>9, <1>10, Here, CallsMove
<1> QED  BY <1>1, <1>11

LEMMA AnswerSideStep ==
  ASSUME BenchInv, NEW p \in Pages, Bench!AnswerSide(p)
  PROVE  BenchInv' /\ UNCHANGED status
<1> DEFINE off == FALSE
           d == Bench!Shown(p, side[p])
           g == PutBusy(PutShown(page[p], d), off)
<1>1. /\ side' = [side EXCEPT ![p] = NoCall]
      /\ page' = [page EXCEPT ![p] = g]
      /\ UNCHANGED <<status, draft, text, author, main, saves, opens>>
  BY DEF Bench!AnswerSide, Bench!server, Bench!NoCall, NoCall, PutBusy, PutShown, BenchInv, PagesType
<1>2. /\ d \in 0..MaxSaves /\ d <= draft
      /\ page[p].fills /\ ~ page[p].typed => page[p].text = text[d]
  BY ShownIs
<1>3. /\ page[p] \in PageState
      /\ PageFits(page[p]) /\ CallFits(p, page[p], main[p])
  BY Here DEF Fits
<1>4. off \in BOOLEAN  OBVIOUS
<1> HIDE DEF off, d
<1>5. g \in PageState
  <2>1. PutShown(page[p], d) \in PageState  BY <1>2, <1>3, PageSet
  <2> QED  BY <1>4, <2>1, PageSet
<1>6. /\ g.load = page[p].load /\ g.loaded = page[p].loaded /\ g.shown = d
      /\ g.fills = page[p].fills /\ g.typed = page[p].typed /\ g.text = page[p].text
  BY <1>3 DEF PutBusy, PutShown, PageState
<1> HIDE DEF g
<1>7. NoCall.do = "none" /\ NoCall.at = "none" /\ NoCall \in Calls  BY BenchIs DEF NoCall
<1>8. Fits(p, g, main[p], NoCall)
  <2>1. PageFits(g)  BY <1>2, <1>3, <1>6 DEF PageFits
  <2>2. CallFits(p, g, main[p])  BY <1>3, <1>6 DEF CallFits
  <2>3. CallFits(p, g, NoCall)  BY <1>7 DEF CallFits
  <2> QED  BY <1>7, <2>1, <2>2, <2>3 DEF Fits
<1>9. main' = [main EXCEPT ![p] = main[p]]  BY <1>1 DEF BenchInv, PagesType
<1>10. BenchInv'  BY <1>1, <1>5, <1>7, <1>8, <1>9, Here, CallsMove
<1> QED  BY <1>1, <1>10

\* What a page and its calls rest on is still there when drafts are added.
LEMMA DraftsStay ==
  ASSUME BenchInv, NEW p \in Pages, NEW g \in PageState, NEW c \in Calls,
         draft' \in Nat, draft <= draft',
         \A d \in 0..MaxSaves : d <= draft => text'[d] = text[d] /\ author'[d] = author[d],
         PageFits(g), CallFits(p, g, c)
  PROVE  PageFits(g)' /\ CallFits(p, g, c)'
<1>1. draft \in Nat /\ draft <= MaxSaves  BY Here, BenchIs
<1>2. g.shown \in Nat /\ g.loaded \in Nat /\ g.shown \in 0..MaxSaves  BY BenchIs DEF PageState
<1>3. c.draft \in 0..MaxSaves  BY DEF Calls
<1>4. PageFits(g)'
  <2>1. g.shown <= draft' /\ g.loaded <= draft'  BY <1>1, <1>2 DEF PageFits
  <2>2. text'[g.shown] = text[g.shown]  BY <1>2 DEF PageFits
  <2> QED  BY <2>1, <2>2 DEF PageFits
<1>5. c.draft \in 1..draft =>
        /\ c.draft \in 1..draft'
        /\ text'[c.draft] = text[c.draft] /\ author'[c.draft] = author[c.draft]
  BY <1>1, <1>3
<1>6. CallFits(p, g, c)'  BY <1>5 DEF CallFits
<1> QED  BY <1>4, <1>6

\* The API serves a call: what it does, and what it answers.
LEMMA ServedIs ==
  ASSUME BenchInv, NEW p \in Pages, NEW c \in {main[p], side[p]}, c.at = "sent",
         Bench!Serve(p, c), c.do = "save" => draft < MaxSaves,
         NEW g, g = page[p], NEW o, o = Bench!Outcome(p, c)
  PROVE  /\ ServerType' /\ text'[0] = 0
         /\ \/ draft' = draft
            \/ c.do = "save" /\ draft' = draft + 1
         /\ \A d \in 0..MaxSaves : d <= draft => text'[d] = text[d] /\ author'[d] = author[d]
         /\ o \in Calls /\ o.do = c.do /\ o.at \in {"done", "failed"}
         /\ CallFits(p, g, o)'
         /\ status # "review" /\ status' = "review" =>
              c.do = "submit" /\ c.draft \in 1..draft /\ author[c.draft] = p
<1>1. /\ c \in Calls /\ c # NoCall /\ g \in PageState /\ CallFits(p, g, c)
      /\ c.do \in {"save", "submit", "approve", "return"}
      /\ draft \in 0..MaxSaves /\ draft \in Nat /\ ServerType /\ text[0] = 0
  <2>1. c \in Calls /\ CallFits(p, g, c) /\ g \in PageState  BY Here DEF Fits
  <2>2. c.do \in {"save", "submit", "approve", "return"}  BY <2>1 DEF Calls, CallFits
  <2>3. c # NoCall  BY DEF NoCall
  <2> QED  BY <2>1, <2>2, <2>3, Here DEF BenchInv
<1>2. c.draft \in 0..MaxSaves /\ c.text \in 0..MaxSaves /\ c.typed \in BOOLEAN  BY <1>1 DEF Calls
<1>3. CASE ~ Bench!Accepts(p, c)
  <2>1. o = Bench!Failed(c)  BY <1>3 DEF Bench!Outcome
  <2>2. /\ UNCHANGED <<status, draft, text, author>>
    BY <1>3 DEF Bench!Serve, Bench!server
  <2>3. o \in Calls /\ o.at = "failed" /\ o.do = c.do  BY <1>1, <2>1, FailedIs
  <2>4. CallFits(p, g, o)  BY <1>1, <2>3 DEF CallFits
  <2>5. CallFits(p, g, o)'  BY <2>2, <2>4 DEF CallFits
  <2>6. ServerType'  BY <1>1, <2>2 DEF ServerType
  <2> QED  BY <1>1, <2>2, <2>3, <2>5, <2>6
<1>4. CASE Bench!Accepts(p, c)
  <2>1. Bench!Handle(p, c)  BY <1>4 DEF Bench!Serve
  <2> DEFINE d == IF c.do = "save" THEN draft + 1 ELSE c.draft
  <2>2. o = CallDraft(CallAt(CallDo(NoCall, c.do), "done"), d)
    BY <1>4 DEF Bench!Outcome, Bench!NoCall, NoCall, CallAt, CallDo, CallDraft
  <2>3. c.do = "save" => draft + 1 \in 0..MaxSaves
    BY <1>1, BenchIs
  <2>4. d \in 0..MaxSaves  BY <1>2, <2>3
  <2>5. o \in Calls /\ o.do = c.do /\ o.at = "done" /\ o.draft = d
    <3> HIDE DEF d
    <3>1. CallDo(NoCall, c.do) \in Calls  BY <1>1, BenchIs, CallSet
    <3>2. CallAt(CallDo(NoCall, c.do), "done") \in Calls  BY <3>1, CallSet
    <3>3. o \in Calls  BY <2>2, <2>4, <3>2, CallSet
    <3>4. o.do = c.do /\ o.at = "done" /\ o.draft = d
      BY <2>2, BenchIs DEF CallAt, CallDo, CallDraft, Calls
    <3> QED  BY <3>3, <3>4
  <2>6. CASE c.do = "save"
    <3> DEFINE new == IF c.typed THEN draft + 1 ELSE c.text
    <3>1. /\ status' = "draft" /\ draft' = draft + 1
          /\ text' = [text EXCEPT ![draft + 1] = new]
          /\ author' = [author EXCEPT ![draft + 1] = p]
      BY <2>1, <2>6 DEF Bench!Handle, Bench!Target
    <3>2. draft + 1 \in 0..MaxSaves /\ draft + 1 # 0 /\ new \in 0..MaxSaves
      BY <1>1, <1>2, <2>3, <2>6
    <3>3. text' \in [0..MaxSaves -> 0..MaxSaves] /\ author' \in [0..MaxSaves -> Pages]
      BY <1>1, <3>1, <3>2 DEF ServerType
    <3>4. ServerType'
      <4>1. status' \in Bench!Statuses /\ status' # "received"
        BY <3>1 DEF Bench!Statuses, Bench!EDITABLE_STATUSES
      <4>2. draft' \in 0..MaxSaves /\ draft' # 0  BY <3>1, <3>2
      <4> QED  BY <3>3, <4>1, <4>2 DEF ServerType, Bench!Statuses, Bench!EDITABLE_STATUSES
    <3>5. \A e \in 0..MaxSaves : e <= draft => text'[e] = text[e] /\ author'[e] = author[e]
      <4>1. \A e \in 0..MaxSaves : e <= draft => e # draft + 1  BY <1>1, BenchIs
      <4> QED  BY <1>1, <3>1, <4>1 DEF ServerType
    <3>6. text'[draft + 1] = new /\ author'[draft + 1] = p
      BY <1>1, <3>1, <3>2 DEF ServerType
    <3>7. g.fills /\ ~ g.typed => new = g.text
      BY <1>1, <2>6 DEF CallFits
    <3> HIDE DEF new
    <3>8. CallFits(p, g, o)'
      <4>1. o.draft = draft + 1 /\ draft + 1 \in 1..draft'  BY <1>1, <2>5, <2>6, <3>1
      <4>2. author'[o.draft] = p /\ g.fills /\ ~ g.typed => text'[o.draft] = g.text
        BY <3>6, <3>7, <4>1
      <4> QED  BY <1>1, <2>5, <2>6, <3>6, <3>7, <4>1 DEF CallFits
    <3>9. text'[0] = 0  BY <1>1, <3>5, Here
    <3> QED  BY <2>5, <2>6, <3>1, <3>4, <3>5, <3>8, <3>9
  <2>7. CASE c.do # "save"
    <3>1. /\ UNCHANGED <<draft, text, author>> /\ status' = Bench!Target(c.do)
      BY <2>1, <2>7 DEF Bench!Handle
    <3>2. status' \in {"review", "approved", "changes_requested"} /\ (status' = "review" => c.do = "submit")
      BY <1>1, <2>7, <3>1 DEF Bench!Target
    <3>3. status \in {"draft", "review"}  BY <1>1, <1>4, <2>7 DEF Bench!Accepts
    <3>4. ServerType'
      BY <1>1, <3>1, <3>2, <3>3 DEF ServerType, Bench!Statuses, Bench!EDITABLE_STATUSES
    <3>5. CallFits(p, g, o)'  BY <1>1, <2>5, <2>7 DEF CallFits
    <3>6. status' = "review" => c.do = "submit" /\ c.draft \in 1..draft /\ author[c.draft] = p
      BY <1>1, <3>2 DEF CallFits
    <3> QED  BY <1>1, <2>5, <3>1, <3>4, <3>5, <3>6
  <2> QED  BY <2>6, <2>7
<1> QED  BY <1>3, <1>4

\* Nothing is reviewed but by a page's own submit, of a draft that it saved.
Earned == status # "review" /\ status' = "review" =>
  \E p \in Pages : /\ main[p].do = "submit"
                   /\ main[p].draft \in 1..draft /\ author[main[p].draft] = p

LEMMA OthersFit ==
  ASSUME BenchInv, NEW p \in Pages, UNCHANGED page,
         \A q \in Pages : q # p => main'[q] = main[q] /\ side'[q] = side[q],
         draft' \in Nat, draft <= draft',
         \A d \in 0..MaxSaves : d <= draft => text'[d] = text[d] /\ author'[d] = author[d],
         Fits(p, page[p], main[p], side[p])'
  PROVE  \A q \in Pages : Fits(q, page[q], main[q], side[q])'
<1> SUFFICES ASSUME NEW q \in Pages PROVE Fits(q, page[q], main[q], side[q])'  OBVIOUS
<1>1. CASE q = p  BY <1>1
<1>2. CASE q # p
  <2>1. /\ page[q] \in PageState /\ main[q] \in Calls /\ side[q] \in Calls
        /\ Fits(q, page[q], main[q], side[q])
    BY Here
  <2> SUFFICES ASSUME NEW g \in PageState, NEW m \in Calls, NEW s \in Calls,
                      g = page[q], m = main[q], s = side[q]
               PROVE  Fits(q, page[q], main[q], side[q])'
    BY <2>1
  <2>2. PageFits(g) /\ CallFits(q, g, m) /\ CallFits(q, g, s) /\ s.do \in {"none", "save"}
    BY <2>1 DEF Fits
  <2>3. PageFits(g)' /\ CallFits(q, g, m)' /\ CallFits(q, g, s)'  BY <2>2, DraftsStay
  <2>4. page'[q] = g /\ main'[q] = m /\ side'[q] = s  BY <1>2
  <2> QED  BY <2>2, <2>3, <2>4 DEF Fits, PageFits, CallFits
<1> QED  BY <1>1, <1>2

LEMMA CountIs ==
  ASSUME BenchInv
  PROVE  /\ draft \in Nat /\ draft <= MaxSaves /\ saves \in Nat /\ saves <= MaxSaves
         /\ draft + Sent(main) + Sent(side) <= saves
         /\ main \in [Pages -> Calls] /\ side \in [Pages -> Calls]
<1>1. \A x \in 0..MaxSaves : x \in Nat /\ x <= MaxSaves  BY BenchIs
<1>2. draft \in 0..MaxSaves /\ saves \in 0..MaxSaves
  BY DEF BenchInv, ServerType, PagesType
<1>3. draft + Sent(main) + Sent(side) <= saves  BY DEF BenchInv, Counted
<1>4. main \in [Pages -> Calls] /\ side \in [Pages -> Calls]  BY DEF BenchInv, PagesType
<1> QED  BY <1>1, <1>2, <1>3, <1>4

LEMMA ServeMainStep ==
  ASSUME BenchInv, NEW p \in Pages, Bench!ServeMain(p)
  PROVE  BenchInv' /\ Earned
<1> SUFFICES ASSUME NEW c, c = main[p], NEW o, o = Bench!Outcome(p, c), NEW g, g = page[p],
                    NEW s, s = side[p]
             PROVE  BenchInv' /\ Earned
  OBVIOUS
<1>1. /\ c.at = "sent" /\ Bench!Serve(p, c) /\ main' = [main EXCEPT ![p] = o]
      /\ UNCHANGED <<page, side, saves, opens>>
  BY DEF Bench!ServeMain
<1>2. /\ draft \in Nat /\ draft <= MaxSaves /\ saves \in Nat /\ saves <= MaxSaves
      /\ draft + Sent(main) + Sent(side) <= saves
      /\ main \in [Pages -> Calls] /\ side \in [Pages -> Calls]
  BY CountIs
<1>3. /\ Sent(main) \in Nat /\ Sent(main') \in Nat /\ Sent(side) \in Nat
      /\ ~ (o.do = "save" /\ o.at = "sent") =>
           /\ Sent(main') <= Sent(main)
           /\ c.do = "save" => Sent(main') = Sent(main) - 1
  BY <1>1, <1>2, SendingIs
<1>4. c.do = "save" => draft < MaxSaves
  <2>1. c.do = "save" => Sent(main) >= 1
    <3>2. /\ Sent([main EXCEPT ![p] = NoCall]) \in Nat
          /\ c.do = "save" => Sent([main EXCEPT ![p] = NoCall]) = Sent(main) - 1
      <4>1. NoCall.do = "none"  BY DEF NoCall
      <4> QED  BY <1>1, <1>2, <4>1, SendingIs
    <3> QED  BY <1>3, <3>2
  <2> QED  BY <1>2, <1>3, <2>1, BenchIs
<1>5. /\ ServerType' /\ text'[0] = 0
      /\ \/ draft' = draft
         \/ c.do = "save" /\ draft' = draft + 1
      /\ \A d \in 0..MaxSaves : d <= draft => text'[d] = text[d] /\ author'[d] = author[d]
      /\ o \in Calls /\ o.do = c.do /\ o.at \in {"done", "failed"}
      /\ CallFits(p, g, o)'
      /\ status # "review" /\ status' = "review" =>
           c.do = "submit" /\ c.draft \in 1..draft /\ author[c.draft] = p
  BY <1>1, <1>4, ServedIs
<1>6. PagesType'  BY <1>1, <1>5 DEF BenchInv, PagesType
<1>7. draft' \in Nat /\ draft <= draft'  BY <1>2, <1>5
<1>8. Counted'
  <2>1. draft' + Sent(main') + Sent(side) <= saves  BY <1>2, <1>3, <1>5
  <2>2. saves' = saves /\ Sent(main)' = Sent(main') /\ Sent(side)' = Sent(side)
    BY <1>1 DEF Sent, Sending
  <2> QED  BY <2>1, <2>2 DEF Counted
<1>9. Fits(p, page[p], main[p], side[p])'
  <2>1. /\ g \in PageState /\ s \in Calls /\ PageFits(g) /\ CallFits(p, g, s)
        /\ s.do \in {"none", "save"}
    BY Here DEF Fits
  <2>2. PageFits(g)' /\ CallFits(p, g, s)'  BY <1>5, <1>7, <2>1, DraftsStay
  <2>3. page'[p] = g /\ main'[p] = o /\ side'[p] = s  BY <1>1, <1>2
  <2> QED  BY <1>5, <2>1, <2>2, <2>3 DEF Fits, PageFits, CallFits
<1>10. \A q \in Pages : Fits(q, page[q], main[q], side[q])'
  <2>1. \A q \in Pages : q # p => main'[q] = main[q] /\ side'[q] = side[q]  BY <1>1, <1>2
  <2> QED  BY <1>1, <1>5, <1>7, <1>9, <2>1, OthersFit
<1>11. Earned  BY <1>5 DEF Earned
<1> QED  BY <1>5, <1>6, <1>8, <1>10, <1>11 DEF BenchInv

LEMMA ServeSideStep ==
  ASSUME BenchInv, NEW p \in Pages, Bench!ServeSide(p)
  PROVE  BenchInv' /\ Earned
<1> SUFFICES ASSUME NEW c, c = side[p], NEW o, o = Bench!Outcome(p, c), NEW g, g = page[p],
                    NEW m, m = main[p]
             PROVE  BenchInv' /\ Earned
  OBVIOUS
<1>1. /\ c.at = "sent" /\ Bench!Serve(p, c) /\ side' = [side EXCEPT ![p] = o]
      /\ UNCHANGED <<page, main, saves, opens>>
  BY DEF Bench!ServeSide
<1>2. /\ draft \in Nat /\ draft <= MaxSaves /\ saves \in Nat /\ saves <= MaxSaves
      /\ draft + Sent(main) + Sent(side) <= saves
      /\ main \in [Pages -> Calls] /\ side \in [Pages -> Calls]
  BY CountIs
<1>3. /\ Sent(side) \in Nat /\ Sent(side') \in Nat /\ Sent(main) \in Nat
      /\ ~ (o.do = "save" /\ o.at = "sent") =>
           /\ Sent(side') <= Sent(side)
           /\ c.do = "save" => Sent(side') = Sent(side) - 1
  BY <1>1, <1>2, SendingIs
<1>4. c.do = "save" => draft < MaxSaves
  <2>1. /\ Sent([side EXCEPT ![p] = NoCall]) \in Nat
        /\ c.do = "save" => Sent([side EXCEPT ![p] = NoCall]) = Sent(side) - 1
    <3>1. NoCall.do = "none"  BY DEF NoCall
    <3> QED  BY <1>1, <1>2, <3>1, SendingIs
  <2> QED  BY <1>2, <1>3, <2>1, BenchIs
<1>5. /\ ServerType' /\ text'[0] = 0
      /\ \/ draft' = draft
         \/ c.do = "save" /\ draft' = draft + 1
      /\ \A d \in 0..MaxSaves : d <= draft => text'[d] = text[d] /\ author'[d] = author[d]
      /\ o \in Calls /\ o.do = c.do /\ o.at \in {"done", "failed"}
      /\ CallFits(p, g, o)'
      /\ status # "review" /\ status' = "review" => c.do = "submit"
  BY <1>1, <1>4, ServedIs
<1>6. PagesType'  BY <1>1, <1>5 DEF BenchInv, PagesType
<1>7. draft' \in Nat /\ draft <= draft'  BY <1>2, <1>5
<1>8. Counted'
  <2>1. draft' + Sent(main) + Sent(side') <= saves  BY <1>2, <1>3, <1>5
  <2>2. saves' = saves /\ Sent(main)' = Sent(main) /\ Sent(side)' = Sent(side')
    BY <1>1 DEF Sent, Sending
  <2> QED  BY <2>1, <2>2 DEF Counted
<1>9. /\ g \in PageState /\ m \in Calls /\ PageFits(g) /\ CallFits(p, g, m)
      /\ c.do = "save"
  BY <1>1, Here DEF Fits, CallFits
<1>10. Fits(p, page[p], main[p], side[p])'
  <2>1. PageFits(g)' /\ CallFits(p, g, m)'  BY <1>5, <1>7, <1>9, DraftsStay
  <2>2. page'[p] = g /\ main'[p] = m /\ side'[p] = o  BY <1>1, <1>2
  <2> QED  BY <1>5, <1>9, <2>1, <2>2 DEF Fits, PageFits, CallFits
<1>11. \A q \in Pages : Fits(q, page[q], main[q], side[q])'
  <2>1. \A q \in Pages : q # p => main'[q] = main[q] /\ side'[q] = side[q]  BY <1>1, <1>2
  <2> QED  BY <1>1, <1>5, <1>7, <1>10, <2>1, OthersFit
<1>12. Earned  BY <1>5, <1>9 DEF Earned
<1> QED  BY <1>5, <1>6, <1>8, <1>11, <1>12 DEF BenchInv

LEMMA BenchStep ==
  ASSUME BenchInv, [Bench!Next]_workbenchVars
  PROVE  BenchInv' /\ Earned
<1>1. CASE UNCHANGED workbenchVars
  <2>1. BenchInv'
    BY <1>1 DEF workbenchVars, BenchInv, ServerType, PagesType, Counted, Sent, Sending, Fits,
                PageFits, CallFits
  <2>2. Earned  BY <1>1 DEF workbenchVars, Earned
  <2> QED  BY <2>1, <2>2
<1>2. ASSUME NEW p \in Pages,
             \/ Bench!Open(p) \/ Bench!Retry(p) \/ Bench!Type(p) \/ Bench!Save(p)
             \/ Bench!ServeLoad(p) \/ Bench!AnswerLoad(p) \/ Bench!FailLoad(p) \/ Bench!Refresh(p)
      PROVE  BenchInv' /\ Earned
  <2>1. BenchInv'
    BY <1>2, OpenStep, RetryStep, TypeStep, SaveStep, ServeLoadStep, AnswerLoadStep,
       FailLoadStep, RefreshStep
  <2>2. UNCHANGED status
    BY <1>2 DEF Bench!Open, Bench!Retry, Bench!Type, Bench!Save, Bench!ServeLoad,
                Bench!AnswerLoad, Bench!FailLoad, Bench!Refresh, Bench!server
  <2> QED  BY <2>1, <2>2 DEF Earned
<1>3. ASSUME NEW p \in Pages,
             \/ Bench!sendForReview(p) \/ Bench!doApprove(p) \/ Bench!doRequestChanges(p)
             \/ Bench!LoseMain(p) \/ Bench!LoseSide(p)
             \/ Bench!AnswerMain(p) \/ Bench!AnswerSide(p)
      PROVE  BenchInv' /\ Earned
  <2>1. BenchInv' /\ UNCHANGED status
    BY <1>3, ButtonStep, LoseMainStep, LoseSideStep, AnswerMainStep, AnswerSideStep
  <2> QED  BY <2>1 DEF Earned
<1>4. ASSUME NEW p \in Pages, Bench!ServeMain(p) \/ Bench!ServeSide(p)
      PROVE  BenchInv' /\ Earned
  BY <1>4, ServeMainStep, ServeSideStep
<1> QED  BY <1>1, <1>2, <1>3, <1>4 DEF Bench!Next, Bench!Network, Bench!User

LEMMA BenchPromises == BenchInv => Bench!TypeOK /\ Bench!OpenedFormIsDraft
<1> SUFFICES ASSUME BenchInv PROVE Bench!TypeOK /\ Bench!OpenedFormIsDraft  OBVIOUS
<1>1. Bench!TypeOK
  BY DEF BenchInv, ServerType, PagesType, PageState, Calls, Bench!TypeOK, Bench!Drafts, Bench!Calls
<1>2. Bench!OpenedFormIsDraft
  BY DEF BenchInv, Fits, PageFits, Bench!OpenedFormIsDraft
<1> QED  BY <1>1, <1>2

-----------------------------------------------------------------------------
(***************************************************************************)
(* The composition: the part that is shown moves, the other stands still.  *)
(***************************************************************************)
Inv ==
  /\ shown \in Offices \cup {"workbench"}
  /\ \A z \in Offices : shown = z => SessionsInv(z)
  /\ BenchInv

LEMMA InvInit == Init => Inv
<1> SUFFICES ASSUME Init PROVE Inv  OBVIOUS
<1>1. BenchInv  BY BenchInit DEF Init
<1>2. CASE shown = "workbench"
  BY <1>1, <1>2, WorkbenchAssumption DEF Inv
<1>3. ASSUME NEW z \in Offices, shown = z, Sessions(z)!Init PROVE Inv
  BY <1>1, <1>3, SessionsInit DEF Inv
<1> QED  BY <1>2, <1>3 DEF Init

LEMMA StepOfOne ==
  ASSUME [Next]_webVars
  PROVE  /\ shown' = shown
         /\ \A z \in Offices : shown = z => [Sessions(z)!Next]_accountsVars
         /\ [Bench!Next]_workbenchVars
BY WorkbenchAssumption DEF Next, webVars

LEMMA InvStep ==
  ASSUME Inv, [Next]_webVars
  PROVE  /\ Inv' /\ Earned
         /\ \A z \in Offices : shown = z => Sessions(z)!TurnedAwayForCause
<1>1. BenchInv' /\ Earned  BY StepOfOne, BenchStep DEF Inv
<1>2. ASSUME NEW z \in Offices, shown = z
      PROVE  SessionsInv(z)' /\ Sessions(z)!TurnedAwayForCause
  BY <1>2, StepOfOne, SessionsStep DEF Inv
<1>3. shown' = shown  BY StepOfOne
<1> QED  BY <1>1, <1>2, <1>3 DEF Inv

LEMMA Invariance == Spec => []Inv
<1>1. Inv /\ [Next]_webVars => Inv'  BY InvStep
<1> QED  BY InvInit, <1>1, PTL DEF Spec

LEMMA InvPromises == Inv => TypeOK /\ PresenceFollowsUse /\ AppliedOnce /\ Bench!OpenedFormIsDraft
<1> SUFFICES ASSUME Inv
             PROVE  TypeOK /\ PresenceFollowsUse /\ AppliedOnce /\ Bench!OpenedFormIsDraft
  OBVIOUS
<1>1. ASSUME NEW z \in Offices, shown = z
      PROVE  /\ Sessions(z)!TypeOK
             /\ Sessions(z)!SeenIsOnline /\ Sessions(z)!SessionsAreBounded
             /\ Sessions(z)!AppliedOnce
  BY <1>1, SessionsPromises DEF Inv
<1>2. Bench!TypeOK /\ Bench!OpenedFormIsDraft  BY BenchPromises DEF Inv
<1> QED  BY <1>1, <1>2 DEF TypeOK, PresenceFollowsUse, AppliedOnce

-----------------------------------------------------------------------------
\* Accounts, cookies, requests, pages and calls stay of their types, at every
\* office and for every number of pages (middleware, proxy, Workbench).
THEOREM TypeCorrect == Spec => []TypeOK
BY Invariance, InvPromises, PTL

\* For any length of the tokens, of the throttle and of the window: who used
\* the system lately is online, and a session ends with its refresh token and
\* one access token on top (get_current_user, get_users_presence, refresh).
THEOREM PresenceFollowsUseHolds == Spec => []PresenceFollowsUse
BY Invariance, InvPromises, PTL

\* The second attempt of the proxy never repeats what the first has done,
\* whatever is lost or expires between the two (proxy).
THEOREM AppliedOnceHolds == Spec => []AppliedOnce
BY Invariance, InvPromises, PTL

\* Nobody is sent to log in again without a cause: an account that is
\* deactivated, or a session that is over (middleware, proxy).
THEOREM RefusedForCauseHolds == Spec => RefusedForCause
<1>1. Inv /\ [Next]_webVars =>
        [\A z \in Offices : shown = z => Sessions(z)!TurnedAwayForCause]_webVars
  BY InvStep
<1> QED  BY Invariance, <1>1, PTL DEF Spec, RefusedForCause

\* However the saves of any number of pages cross, a form opened for editing
\* holds the draft its page names, and only a draft that a page saved goes to
\* review by it (loadNotam, saveDraftData, sendForReview).
THEOREM SubmittedWasSavedHolds == Spec => SubmittedWasSaved
<1>1. Inv /\ [Next]_webVars =>
        [status # "review" /\ status' = "review" =>
           \E p \in Pages : /\ main[p].do = "submit"
                            /\ main[p].draft \in 1..draft /\ author[main[p].draft] = p]_(Bench!vars)
  BY InvStep DEF Earned
<1>2. Inv /\ Inv' => Bench!OpenedFormIsDraft /\ [(Bench!OpenedFormIsDraft)']_webVars
  <2>1. Inv => Bench!OpenedFormIsDraft  BY InvPromises
  <2>2. Inv' => (Bench!OpenedFormIsDraft)'  BY <2>1, PTL
  <2> QED  BY <2>1, <2>2
<1> QED  BY Invariance, <1>1, <1>2, PTL DEF Spec, SubmittedWasSaved, Bench!SubmittedWasSaved

=============================================================================
