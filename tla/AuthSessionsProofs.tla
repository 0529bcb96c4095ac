------------------------- MODULE AuthSessionsProofs -------------------------
(* Theorems about AuthSessions, for every value of its constants.          *)
EXTENDS AuthSessions, TLAPS

\* A session that was ever opened belongs to an account that was registered,
\* and a row of the table, committed or not, to one that still exists.
SessionsOwned ==
    \A s \in Sessions :
        /\ row[s] # "unused" => owner[s] \in Users /\ account[owner[s]] \in {"row", "gone"}
        /\ row[s] \in {"inserted", "row"} => account[owner[s]] = "row"
        /\ row[s] = "unused" => owner[s] = Nil
        /\ row[s] = "unused" <=> token[s] = 0
        /\ token[s] <= issued

TokensDistinct ==
    \A s, t \in Sessions : token[s] # 0 /\ token[s] = token[t] => s = t

NamesDistinct ==
    \A u, v \in Users : account[u] \in {"inserted", "row"}
                          /\ account[v] \in {"inserted", "row"}
                          /\ name[u] = name[v] => u = v

TablesInv == SessionsOwned /\ TokensDistinct /\ NamesDistinct

\* What a request holds when it reaches a step names existing ids.
Filled(q) ==
    /\ q.at = "session" => q.kind \in ByAccess \cup {"refresh"}
    /\ q.at = "session" /\ q.kind \in ByAccess =>
         q.session \in Sessions /\ row[q.session] # "unused" /\ q.user = owner[q.session]
    /\ q.at \in {"user", "again", "write"} =>
         /\ q.user \in Users /\ account[q.user] \in {"row", "gone"}
         /\ q.kind # "register"
         /\ q.kind # "login" => q.session \in Sessions /\ row[q.session] \in {"row", "gone"}
    /\ q.at \in {"user", "again"} => q.kind # "login"
    /\ q.kind = "refresh" => q.token # 0 /\ q.token <= issued
    /\ q.at = "granted" =>
         /\ q.kind \in {"register", "login", "delete", "socket"} => q.user \in Users
         /\ q.kind \in {"delete", "socket"} => account[q.user] \in {"row", "gone"}
         /\ q.kind = "login" => q.session \in Sessions
         /\ q.kind \in {"logout", "refresh"} =>
              q.session \in Sessions /\ row[q.session] \in {"row", "gone"}
    /\ q.fresh # 0 <=> q.at = "granted" /\ q.kind = "refresh"
    /\ q.fresh <= issued

\* The row of a dead credential stays dead, so that a request that brought
\* one gets no further than the check of the session.
Stopped(q) ==
    q.late =>
        /\ q.at = "session"
        /\ q.kind \in ByAccess => row[q.session] = "gone" \/ revoked[q.session]
        /\ q.kind = "refresh" =>
             /\ \A s \in Sessions : token[s] = q.token => row[s] = "gone" \/ revoked[s]
             /\ \A x \in Requests : req[x].fresh # q.token

RequestsInv == \A r \in Requests : Filled(req[r]) /\ Stopped(req[r])

\* A row that is not committed is held by the one login that inserted it.
LoginsHold ==
    /\ \A r \in Requests : Flushed(r, "login") =>
         row[req[r].session] = "inserted" /\ owner[req[r].session] = req[r].user
    /\ \A s \in Sessions : row[s] = "inserted" =>
         \E r \in Requests : Flushed(r, "login") /\ req[r].session = s
    /\ \A r, x \in Requests :
         Flushed(r, "login") /\ Flushed(x, "login") /\ req[r].session = req[x].session
           => r = x

\* So is an account, by its registration.
RegistersHold ==
    /\ \A r \in Requests : Flushed(r, "register") => account[req[r].user] = "inserted"
    /\ \A r, x \in Requests :
         Flushed(r, "register") /\ Flushed(x, "register") /\ req[r].user = req[x].user
           => r = x

\* The locks keep a deletion and a login of one account apart.
DeletesExclude ==
    \A r, x \in Requests :
        Flushed(r, "delete") /\ Flushed(x, "login") => req[r].user # req[x].user

\* A token on its way into a session is nobody else's.
FreshDistinct ==
    /\ \A r, x \in Requests : req[r].fresh # 0 /\ req[r].fresh = req[x].fresh => r = x
    /\ \A r \in Requests, s \in Sessions : req[r].fresh # 0 => token[s] # req[r].fresh

HoldsInv == LoginsHold /\ RegistersHold /\ DeletesExclude /\ FreshDistinct

LogoutPending(s) == \E r \in Requests : Flushed(r, "logout") /\ req[r].session = s

\* What a client was told is so, or is about to be committed.
ToldInv ==
    /\ \A s \in Sessions : s \in told => row[s] \in {"row", "gone"}
                                           /\ (Dead(s) \/ LogoutPending(s))
    /\ \A u \in Users : u \in told => account[u] = "gone" \/ DeletePending(u)

AuthInv == TypeOK /\ TablesInv /\ RequestsInv /\ HoldsInv /\ ToldInv

\* How the tables may change: ids are never issued again, rows never come
\* back, revocation stays and tokens are new.
Grows ==
    /\ \A s \in Sessions :
         /\ row[s] # "unused" => row'[s] # "unused" /\ owner'[s] = owner[s]
         /\ row[s] \in {"row", "gone"} => row'[s] \in {"row", "gone"}
         /\ row[s] = "gone" => row'[s] = "gone"
         /\ revoked[s] => revoked'[s]
         /\ \/ token'[s] = token[s] \/ token'[s] > issued
            \/ \E x \in Requests : token'[s] = req[x].fresh
    /\ \A u \in Users : account[u] \in {"row", "gone"} => account'[u] \in {"row", "gone"}
    /\ \A x \in Requests : req'[x].fresh \in {0, req[x].fresh} \/ req'[x].fresh > issued
    /\ issued' \in Nat
    /\ issued <= issued'

-----------------------------------------------------------------------------
(* Requests.                                                               *)

\* Whatever one request does leaves every other as well informed, and as
\* dead, as it was.
LEMMA GrowthKeepsRequest ==
    ASSUME TypeOK, SessionsOwned, Grows, NEW q \in Request,
           Filled(q), Stopped(q)
    PROVE  Filled(q)' /\ Stopped(q)'
<1> USE DEF TypeOK
<1>0. /\ q.token \in Nat /\ q.fresh \in Nat
      /\ q.late \in BOOLEAN
      /\ issued \in Nat
  BY AuthAssumption DEF Request
<1>1. Filled(q)'
  BY <1>0 DEF Grows, Filled, ByAccess
<1>2. Stopped(q)'
  <2> SUFFICES ASSUME q.late PROVE Stopped(q)'
    BY DEF Stopped
  <2>1. q.at = "session"
    BY DEF Stopped
  <2>2. ASSUME q.kind \in ByAccess
        PROVE  row'[q.session] = "gone" \/ revoked'[q.session]
    BY <2>1, <2>2 DEF Filled, Stopped, Grows
  <2>3. ASSUME q.kind = "refresh"
        PROVE  /\ \A s \in Sessions : token'[s] = q.token => row'[s] = "gone" \/ revoked'[s]
               /\ \A x \in Requests : req'[x].fresh # q.token
    <3>1. q.token # 0 /\ q.token <= issued
      BY <2>3 DEF Filled
    <3>2. \A x \in Requests : req[x].fresh # q.token
      BY <2>3 DEF Stopped
    <3>3. \A x \in Requests : req'[x].fresh # q.token
      BY <1>0, <3>1, <3>2 DEF Grows
    <3>4. ASSUME NEW s \in Sessions, token'[s] = q.token
          PROVE  row'[s] = "gone" \/ revoked'[s]
      <4>1. token[s] = q.token
        BY <1>0, <3>1, <3>2, <3>4 DEF Grows
      <4>2. row[s] = "gone" \/ revoked[s]
        BY <2>3, <4>1 DEF Stopped
      <4> QED BY <4>2 DEF Grows
    <3> QED BY <3>3, <3>4
  <2> QED BY <2>1, <2>2, <2>3 DEF Stopped
<1> QED BY <1>1, <1>2

\* The request that acts has to be looked at, and no other.
LEMMA StepKeepsRequests ==
    ASSUME AuthInv, Grows, NEW r \in Requests, NEW q \in Request,
           Filled(q)', Stopped(q)', req' = [req EXCEPT ![r] = q]
    PROVE  RequestsInv' /\ req' \in [Requests -> Request]
<1>1. req' \in [Requests -> Request]
  BY DEF AuthInv, TypeOK
<1>2. \A z \in Request : Filled(z) /\ Stopped(z) => Filled(z)' /\ Stopped(z)'
  BY GrowthKeepsRequest DEF AuthInv, TablesInv
<1>3. \A x \in Requests :
         /\ x # r => req'[x] \in Request /\ Filled(req'[x]) /\ Stopped(req'[x])
         /\ x = r => req'[x] = q
  BY DEF AuthInv, TypeOK, RequestsInv
<1>4. RequestsInv'
  BY <1>2, <1>3 DEF RequestsInv, Filled, Stopped
<1> QED BY <1>1, <1>4

-----------------------------------------------------------------------------
(* The steps that only read.                                               *)

\* The request has no writes that are flushed and not committed.
Quiet(q) == q.at = "granted" => q.kind \in {"socket", "session"}

\* A step that only reads keeps the invariant when what request r becomes is
\* sound, and it has nothing flushed.
LEMMA ReadKeepsInv ==
    ASSUME AuthInv, NEW r \in Requests, NEW q \in Request, Quiet(req[r]),
           Filled(q), Stopped(q), Quiet(q), Reads(r, q)
    PROVE  AuthInv' /\ Grows
<1>1. UNCHANGED << account, name, row, owner, token, revoked, expired, issued, told >>
  BY DEF Reads, accounts, sessions
<1>2. req' = [req EXCEPT ![r] = q]
  BY DEF Reads
<1>3. TypeOK'
  BY <1>1, <1>2 DEF AuthInv, TypeOK
<1>4. /\ req'[r] = q
      /\ \A x \in Requests : x # r => req'[x] = req[x]
  BY <1>2 DEF AuthInv, TypeOK
<1>5. /\ \A x \in Requests : req[x] \in Request /\ Filled(req[x])
      /\ issued \in Nat
  BY AuthAssumption DEF AuthInv, TypeOK, RequestsInv
<1>6. q.fresh = 0 /\ req[r].fresh = 0
  BY <1>5 DEF Quiet, Filled
<1>7. Grows
  BY <1>1, <1>4, <1>5, <1>6 DEF AuthInv, TypeOK, Grows
<1>8. Filled(q)' /\ Stopped(q)'
  BY <1>7, GrowthKeepsRequest DEF AuthInv, TablesInv
<1>9. RequestsInv'
  BY <1>2, <1>7, <1>8, StepKeepsRequests
<1>10. TablesInv'
  BY <1>1 DEF AuthInv, TablesInv, SessionsOwned, TokensDistinct, NamesDistinct
<1>11. \A x \in Requests, k \in {"register", "login", "logout", "delete", "refresh"} :
          /\ Flushed(x, k)' <=> Flushed(x, k)
          /\ Flushed(x, k) => req'[x] = req[x]
  BY <1>4 DEF Flushed, Quiet
<1>12. HoldsInv'
  <2>1. LoginsHold' /\ RegistersHold' /\ DeletesExclude'
    BY <1>1, <1>11 DEF AuthInv, HoldsInv, LoginsHold, RegistersHold, DeletesExclude
  <2>2. FreshDistinct'
    BY <1>1, <1>4, <1>6 DEF AuthInv, HoldsInv, FreshDistinct
  <2> QED BY <2>1, <2>2 DEF HoldsInv
<1>13. ToldInv'
  BY <1>1, <1>11 DEF AuthInv, ToldInv, LogoutPending, DeletePending, Dead
<1> QED BY <1>3, <1>7, <1>9, <1>10, <1>12, <1>13 DEF AuthInv

\* The empty slot is a sound request, and so is the one that has crashed.
LEMMA NoRequestSound ==
    ASSUME NEW q \in {NoRequest, [NoRequest EXCEPT !.at = "crashed"]}, issued \in Nat
    PROVE  q \in Request /\ Filled(q) /\ Stopped(q) /\ Quiet(q)
<1>1. NoRequest \in Request
  <2>1. 0 \in 0 .. MaxTokens
    BY AuthAssumption
  <2> QED BY <2>1, Zenon DEF NoRequest, Request, Kind, Place
<1>2. q \in Request
  BY <1>1 DEF Request, Place
<1>3. /\ q.at \in {"idle", "crashed"} /\ q.kind = "login"
      /\ q.fresh = 0 /\ q.late = FALSE
  BY DEF NoRequest
<1> QED BY <1>2, <1>3 DEF Filled, Stopped, Quiet

\* A request that is refused or crashes leaves the tables alone.
LEMMA EndKeepsInv ==
    ASSUME AuthInv, NEW r \in Requests, Quiet(req[r]), Refused(r) \/ Crashed(r)
    PROVE  AuthInv' /\ Grows
<1>1. issued \in Nat
  BY AuthAssumption DEF AuthInv, TypeOK
<1> QED BY <1>1, NoRequestSound, ReadKeepsInv DEF Refused, Crashed

\* A request that goes on has a sound place to go to when it is not late and
\* holds its account and its session.
LEMMA GoOnKeepsInv ==
    ASSUME AuthInv, NEW r \in Requests, NEW q \in Request,
           NEW place \in {"user", "again", "write"},
           q.at = place, q.kind \notin {"login", "register"}, q.late = FALSE, q.fresh = 0,
           q.user \in Users, account[q.user] \in {"row", "gone"},
           q.session \in Sessions, row[q.session] \in {"row", "gone"},
           q.kind = "refresh" => q.token # 0 /\ q.token <= issued,
           Quiet(req[r]), Reads(r, q)
    PROVE  AuthInv' /\ Grows
<1>1. issued \in Nat
  BY AuthAssumption DEF AuthInv, TypeOK
<1>2. Filled(q) /\ Stopped(q) /\ Quiet(q)
  BY <1>1 DEF Filled, Stopped, Quiet
<1> QED BY <1>2, ReadKeepsInv

\* With the tables consistent, a dead session is one that is gone or revoked.
LEMMA DeadSession ==
    ASSUME AuthInv, NEW s \in Sessions, row[s] # "unused", Dead(s)
    PROVE  row[s] = "gone" \/ revoked[s]
BY DEF AuthInv, TypeOK, Life, TablesInv, SessionsOwned, Dead

\* An arriving request notes exactly what Stopped needs.
LEMMA ArriveAccessStep ==
    ASSUME AuthInv, NEW r \in Requests, NEW kind \in ByAccess, NEW s \in Sessions,
           ArriveAccess(r, kind, s)
    PROVE  AuthInv' /\ Grows
<1> DEFINE q == [NoRequest EXCEPT !.kind = kind, !.at = "session",
                                  !.session = s, !.user = owner[s], !.late = Dead(s)]
<1>1. req[r].at = "idle" /\ row[s] # "unused" /\ Reads(r, q)
  BY DEF ArriveAccess
<1>2. owner[s] \in Users /\ Dead(s) \in BOOLEAN
  BY <1>1 DEF AuthInv, TablesInv, SessionsOwned, Dead
<1>3. issued \in Nat
  BY AuthAssumption DEF AuthInv, TypeOK
<1>4. q \in Request
  BY <1>2, <1>3, NoRequestSound DEF Request, Kind, Place
<1>5. /\ q.kind = kind /\ q.at = "session" /\ q.session = s /\ q.user = owner[s]
      /\ q.late = Dead(s) /\ q.fresh = 0 /\ kind # "refresh"
  BY DEF NoRequest, ByAccess
<1> HIDE DEF q
<1>6. Filled(q) /\ Stopped(q) /\ Quiet(q)
  BY <1>1, <1>3, <1>5, DeadSession DEF Filled, Stopped, Quiet
<1> QED BY <1>1, <1>4, <1>6, ReadKeepsInv DEF Quiet

LEMMA ArriveRefreshStep ==
    ASSUME AuthInv, NEW r \in Requests, NEW t \in 1 .. MaxTokens, ArriveRefresh(r, t)
    PROVE  AuthInv' /\ Grows
<1> DEFINE q == [NoRequest EXCEPT !.kind = "refresh", !.at = "session",
                                  !.token = t, !.late = DeadToken(t)]
<1>1. req[r].at = "idle" /\ t \in 1 .. issued /\ Reads(r, q)
  BY DEF ArriveRefresh
<1>2. DeadToken(t) \in BOOLEAN
  BY DEF DeadToken
<1>3. issued \in Nat
  BY AuthAssumption DEF AuthInv, TypeOK
<1>4. q \in Request
  <2>1. "refresh" \in Kind /\ "session" \in Place /\ t \in 0 .. MaxTokens
    BY AuthAssumption DEF Kind, Place
  <2> QED BY <1>2, <1>3, <2>1, NoRequestSound DEF Request
<1>5. /\ q.kind = "refresh" /\ q.at = "session" /\ q.token = t
      /\ q.late = DeadToken(t) /\ q.fresh = 0
  BY DEF NoRequest
<1>6. DeadToken(t) =>
        /\ \A s \in Sessions : token[s] = t => row[s] = "gone" \/ revoked[s]
        /\ \A x \in Requests : req[x].fresh # t
  <2> SUFFICES ASSUME DeadToken(t), NEW s \in Sessions, token[s] = t
               PROVE  row[s] = "gone" \/ revoked[s]
    BY DEF DeadToken
  <2>1. row[s] # "unused"
    BY <1>1 DEF AuthInv, TablesInv, SessionsOwned
  <2> QED BY <2>1, DeadSession DEF DeadToken
<1> HIDE DEF q
<1>7. Filled(q) /\ Stopped(q) /\ Quiet(q)
  BY <1>1, <1>3, <1>5, <1>6 DEF Filled, Stopped, Quiet, ByAccess
<1> QED BY <1>1, <1>4, <1>7, ReadKeepsInv DEF Quiet

LEMMA ArriveLoginStep ==
    ASSUME AuthInv, NEW r \in Requests, NEW u \in Users, ArriveLogin(r, u)
    PROVE  AuthInv' /\ Grows
<1> DEFINE q == [NoRequest EXCEPT !.at = "write", !.user = u]
<1>1. req[r].at = "idle" /\ account[u] = "row" /\ Reads(r, q)
  BY DEF ArriveLogin
<1>2. issued \in Nat
  BY AuthAssumption DEF AuthInv, TypeOK
<1>3. q \in Request
  BY <1>2, NoRequestSound DEF Request, Place
<1>4. q.kind = "login" /\ q.at = "write" /\ q.user = u /\ q.late = FALSE /\ q.fresh = 0
  BY DEF NoRequest
<1> HIDE DEF q
<1>5. Filled(q) /\ Stopped(q) /\ Quiet(q)
  BY <1>1, <1>2, <1>4 DEF Filled, Stopped, Quiet
<1> QED BY <1>1, <1>3, <1>5, ReadKeepsInv DEF Quiet

\* The session that a request names or presents a token of is read.  One that
\* is usable is not dead, so that no late request gets past this step.
LEMMA ChecksStep ==
    ASSUME AuthInv, NEW r \in Requests, req[r].at = "session",
           NEW s \in Sessions, row[s] = "row",
           req[r].kind \in ByAccess => s = req[r].session,
           req[r].kind = "refresh" => token[s] = req[r].token,
           Checks(r, s)
    PROVE  AuthInv' /\ Grows
<1>1. req[r] \in Request /\ Filled(req[r]) /\ Stopped(req[r]) /\ Quiet(req[r])
  BY DEF AuthInv, TypeOK, RequestsInv, Quiet
<1>2. CASE Usable(s) = "user" /\ Reads(r, [req[r] EXCEPT !.at = "user", !.session = s,
                                                        !.user = owner[s]])
  <2> DEFINE q == [req[r] EXCEPT !.at = "user", !.session = s, !.user = owner[s]]
  <2>1. ~revoked[s]
    BY <1>2, AuthAssumption DEF AuthInv, TypeOK, Usable
  <2>2. owner[s] \in Users /\ account[owner[s]] \in {"row", "gone"}
    BY DEF AuthInv, TablesInv, SessionsOwned
  <2>3. q \in Request
    BY <1>1, <2>2 DEF Request, Place
  <2>4. /\ q.at = "user" /\ q.session = s /\ q.user = owner[s]
        /\ q.kind = req[r].kind /\ q.token = req[r].token
        /\ q.fresh = req[r].fresh /\ q.late = req[r].late
    BY <1>1 DEF Request
  <2>5. q.late = FALSE
    BY <1>1, <2>1, <2>4 DEF Filled, Stopped, Request
  <2>6. /\ q.kind \notin {"login", "register"} /\ q.fresh = 0
        /\ q.kind = "refresh" => q.token # 0 /\ q.token <= issued
    BY <1>1, <2>4 DEF Filled, ByAccess
  <2> HIDE DEF q
  <2> QED BY <1>1, <1>2, <2>2, <2>3, <2>4, <2>5, <2>6, GoOnKeepsInv DEF q
<1>3. CASE Refused(r) \/ Crashed(r)
  BY <1>1, <1>3, EndKeepsInv
<1> QED BY <1>2, <1>3 DEF Checks

\* A request past the check of its session may go on, or be granted when it
\* has nothing to write.
LEMMA GoesKeepsInv ==
    ASSUME AuthInv, NEW r \in Requests, req[r].at \in {"user", "again"},
           NEW place \in {"again", "write", "granted"},
           place = "granted" => req[r].kind \in {"socket", "session"},
           Goes(r, place)
    PROVE  AuthInv' /\ Grows
<1> DEFINE q == [req[r] EXCEPT !.at = place]
<1>1. /\ req[r] \in Request /\ Filled(req[r]) /\ Stopped(req[r]) /\ Quiet(req[r])
      /\ issued \in Nat
  BY AuthAssumption DEF AuthInv, TypeOK, RequestsInv, Quiet
<1>2. /\ q.at = place /\ q.session = req[r].session /\ q.user = req[r].user
      /\ q.kind = req[r].kind /\ q.token = req[r].token
      /\ q.fresh = req[r].fresh /\ q.late = req[r].late
      /\ q \in Request
  BY <1>1 DEF Request, Place
<1>3. q.late = FALSE
  BY <1>1, <1>2 DEF Stopped, Request
<1>4. Reads(r, q)
  BY DEF Goes
<1> HIDE DEF q
<1>5. CASE place \in {"again", "write"}
  <2>1. /\ q.kind \notin {"login", "register"} /\ q.fresh = 0
        /\ q.user \in Users /\ account[q.user] \in {"row", "gone"}
        /\ q.session \in Sessions /\ row[q.session] \in {"row", "gone"}
        /\ q.kind = "refresh" => q.token # 0 /\ q.token <= issued
    BY <1>1, <1>2 DEF Filled
  <2> QED BY <1>1, <1>2, <1>3, <1>4, <1>5, <2>1, GoOnKeepsInv
<1>6. CASE place = "granted"
  <2>1. Filled(q) /\ Stopped(q) /\ Quiet(q)
    BY <1>1, <1>2, <1>3, <1>6 DEF Filled, Stopped, Quiet
  <2> QED BY <1>1, <1>2, <1>4, <2>1, ReadKeepsInv
<1> QED BY <1>5, <1>6

LEMMA CheckStep ==
    ASSUME AuthInv, NEW r \in Requests, Check(r)
    PROVE  AuthInv' /\ Grows
<1>1. Filled(req[r])
  BY DEF AuthInv, RequestsInv
<1>2. CASE ReadSession(r)
  <2>1. req[r].at = "session" /\ req[r].kind \in ByAccess
    BY <1>2 DEF ReadSession
  <2>2. req[r].session \in Sessions /\ req[r].kind # "refresh" /\ Quiet(req[r])
    BY <1>1, <2>1 DEF Filled, ByAccess, Quiet
  <2> QED BY <1>2, <2>1, <2>2, ChecksStep, EndKeepsInv DEF ReadSession
<1>3. CASE ReadByToken(r)
  <2>1. req[r].at = "session" /\ req[r].kind = "refresh" /\ Quiet(req[r])
    BY <1>3 DEF ReadByToken, Quiet
  <2>2. req[r].kind \notin ByAccess
    BY <2>1 DEF ByAccess
  <2> QED BY <1>3, <2>1, <2>2, ChecksStep, EndKeepsInv DEF ReadByToken
<1>4. CASE ReadUser(r)
  <2>1. req[r].at = "user" /\ Quiet(req[r])
    BY <1>4 DEF ReadUser, Quiet
  <2>2. /\ Accepted(req[r].kind) \in {"again", "write", "granted"}
        /\ Accepted(req[r].kind) = "granted" => req[r].kind = "socket"
    BY DEF Accepted
  <2>3. Refused(r) => AuthInv' /\ Grows
    BY <2>1, EndKeepsInv
  <2>4. Goes(r, Accepted(req[r].kind)) => AuthInv' /\ Grows
    BY <2>1, <2>2, GoesKeepsInv
  <2> QED BY <1>4, <2>3, <2>4 DEF ReadUser
<1> QED BY <1>2, <1>3, <1>4 DEF Check

\* The steps of the routes, and the ends of a request, that write nothing.
LEMMA QuietStep ==
    ASSUME AuthInv, NEW r \in Requests,
           \/ SessionStatus(r) \/ LogoutReads(r) \/ DeleteReads(r)
           \/ RowVanished(r) \/ LoginOrphaned(r)
           \/ SessionEnds(r) \/ SocketEnds(r) \/ Abort(r) \/ Answered(r)
    PROVE  AuthInv' /\ Grows
<1>1. CASE SessionStatus(r) \/ LogoutReads(r) \/ DeleteReads(r)
  <2>1. req[r].at = "again" /\ Quiet(req[r])
    BY <1>1 DEF SessionStatus, LogoutReads, DeleteReads, Quiet
  <2>2. \/ Goes(r, "write") \/ Refused(r)
        \/ Goes(r, "granted") /\ req[r].kind = "session"
    BY <1>1 DEF SessionStatus, LogoutReads, DeleteReads
  <2> QED BY <2>1, <2>2, GoesKeepsInv, EndKeepsInv
<1>2. CASE RowVanished(r) \/ LoginOrphaned(r) \/ Abort(r)
  BY <1>2, EndKeepsInv DEF RowVanished, LoginOrphaned, Abort, Quiet
<1>3. CASE SessionEnds(r) \/ SocketEnds(r) \/ Answered(r)
  BY <1>3, EndKeepsInv DEF SessionEnds, SocketEnds, Answered, Flushed, Quiet, Refused
<1> QED BY <1>1, <1>2, <1>3

-----------------------------------------------------------------------------
(* The flushes.                                                            *)

\* The new account is known to nobody yet, and its name to no other account.
LEMMA RegisterFlushStep ==
    ASSUME AuthInv, NEW r \in Requests, NEW u \in Users, NEW n \in Names,
           RegisterFlush(r, u, n)
    PROVE  AuthInv' /\ Grows
<1> DEFINE q == [NoRequest EXCEPT !.kind = "register", !.at = "granted", !.user = u]
<1>1. /\ req[r].at = "idle" /\ account[u] = "unused" /\ NameFree(n)
      /\ account' = [account EXCEPT ![u] = "inserted"]
      /\ name' = [name EXCEPT ![u] = n]
      /\ req' = [req EXCEPT ![r] = q]
      /\ UNCHANGED << row, owner, token, revoked, expired, issued, told >>
  BY DEF RegisterFlush, sessions
<1>2. issued \in Nat
  BY AuthAssumption DEF AuthInv, TypeOK
<1>3. q \in Request
  <2>1. "register" \in Kind /\ "granted" \in Place
    BY DEF Kind, Place
  <2> QED BY <1>2, <2>1, NoRequestSound DEF Request
<1>4. /\ q.kind = "register" /\ q.at = "granted" /\ q.user = u
      /\ q.late = FALSE /\ q.fresh = 0
  BY DEF NoRequest
<1> HIDE DEF q
<1>5. req'[r] = q /\ \A x \in Requests : x # r => req'[x] = req[x]
  BY <1>1 DEF AuthInv, TypeOK
<1>6. \A v \in Users : v # u => account'[v] = account[v] /\ name'[v] = name[v]
  BY <1>1 DEF AuthInv, TypeOK
<1>7. account'[u] = "inserted" /\ name'[u] = n
  BY <1>1 DEF AuthInv, TypeOK
<1>8. Grows
  <2>1. \A v \in Users : account[v] \in {"row", "gone"} => account'[v] \in {"row", "gone"}
    BY <1>1, <1>6
  <2>2. \A x \in Requests : req'[x].fresh \in {0, req[x].fresh}
    BY <1>4, <1>5
  <2> QED BY <1>1, <1>2, <2>1, <2>2 DEF Grows
<1>9. Filled(q)' /\ Stopped(q)'
  BY <1>1, <1>2, <1>4 DEF Filled, Stopped
<1>10. RequestsInv' /\ req' \in [Requests -> Request]
  BY <1>1, <1>3, <1>8, <1>9, StepKeepsRequests
<1>11. TypeOK'
  BY <1>1, <1>10 DEF AuthInv, TypeOK, Life
<1>12. TablesInv'
  <2>1. SessionsOwned' /\ TokensDistinct'
    BY <1>1, <1>6, <1>7 DEF AuthInv, TablesInv, SessionsOwned, TokensDistinct
  <2>2. NamesDistinct'
    BY <1>1, <1>6, <1>7 DEF AuthInv, TablesInv, NamesDistinct, NameFree
  <2> QED BY <2>1, <2>2 DEF TablesInv
<1>13. \A x \in Requests :
          /\ Flushed(x, "login")' <=> Flushed(x, "login")
          /\ Flushed(x, "delete")' <=> Flushed(x, "delete")
          /\ Flushed(x, "logout")' <=> Flushed(x, "logout")
          /\ Flushed(x, "login") \/ Flushed(x, "delete") \/ Flushed(x, "logout") =>
               req'[x] = req[x]
  BY <1>1, <1>4, <1>5 DEF Flushed
<1>14. HoldsInv'
  <2>1. LoginsHold' /\ DeletesExclude'
    BY <1>1, <1>13 DEF AuthInv, HoldsInv, LoginsHold, DeletesExclude
  <2>2. RegistersHold'
    <3>1. \A x \in Requests : x # r =>
            /\ Flushed(x, "register")' <=> Flushed(x, "register")
            /\ Flushed(x, "register") => req[x].user \in Users /\ req[x].user # u
      BY <1>1, <1>5 DEF AuthInv, RequestsInv, Filled, HoldsInv, RegistersHold, Flushed
    <3> QED BY <1>4, <1>5, <1>6, <1>7, <3>1 DEF AuthInv, HoldsInv, RegistersHold
  <2>3. FreshDistinct'
    BY <1>1, <1>4, <1>5 DEF AuthInv, HoldsInv, FreshDistinct
  <2> QED BY <2>1, <2>2, <2>3 DEF HoldsInv
<1>15. ToldInv'
  <2>1. ~DeletePending(u)
    BY <1>1 DEF AuthInv, RequestsInv, Filled, Flushed, DeletePending
  <2>2. \A v \in Users : v \in told' => account'[v] = "gone" \/ DeletePending(v)'
    BY <1>1, <1>6, <1>13, <2>1 DEF AuthInv, ToldInv, DeletePending
  <2>3. ASSUME NEW s \in Sessions, s \in told'
        PROVE  row'[s] \in {"row", "gone"} /\ (Dead(s)' \/ LogoutPending(s)')
    <3>1. row[s] \in {"row", "gone"} /\ (Dead(s) \/ LogoutPending(s))
      BY <1>1, <2>3 DEF AuthInv, ToldInv
    <3>2. owner[s] \in Users /\ owner[s] # u
      BY <1>1, <3>1 DEF AuthInv, TablesInv, SessionsOwned
    <3> QED BY <1>1, <1>6, <1>13, <3>1, <3>2 DEF Dead, LogoutPending
  <2> QED BY <2>2, <2>3 DEF ToldInv
<1> QED BY <1>8, <1>10, <1>11, <1>12, <1>14, <1>15 DEF AuthInv

\* An end is answered while its own commit is pending, and a deletion only
\* when no login of the account is.
LEMMA TellsStep ==
    ASSUME AuthInv, NEW r \in Requests, req[r].at \in {"again", "write"},
           NEW what,
           \/ req[r].kind = "logout" /\ what = req[r].session
           \/ /\ req[r].kind = "delete" /\ what = req[r].user
              /\ \A x \in Requests : Flushed(x, "login") => req[x].user # what,
           Tells(r, what)
    PROVE  AuthInv' /\ Grows
<1>1. /\ req' = [req EXCEPT ![r].at = "granted"]
      /\ told' = told \cup {what}
      /\ UNCHANGED << account, name, row, owner, token, revoked, expired, issued >>
  BY DEF Tells, accounts, sessions
<1>2. /\ req[r] \in Request /\ Filled(req[r]) /\ Stopped(req[r])
      /\ issued \in Nat
  BY AuthAssumption DEF AuthInv, TypeOK, RequestsInv
<1> PICK q \in Request : q = [req[r] EXCEPT !.at = "granted"]
  BY <1>2 DEF Request, Place
<1>3. /\ q.at = "granted" /\ q.session = req[r].session /\ q.user = req[r].user
      /\ q.kind = req[r].kind /\ q.token = req[r].token
      /\ q.fresh = req[r].fresh /\ q.late = req[r].late
      /\ req' = [req EXCEPT ![r] = q]
  BY <1>1, <1>2 DEF Request
<1>4. /\ q.late = FALSE /\ q.fresh = 0
      /\ q.user \in Users /\ account[q.user] \in {"row", "gone"}
      /\ q.session \in Sessions /\ row[q.session] \in {"row", "gone"}
  BY <1>2, <1>3 DEF Filled, Stopped, Request
<1>5. req'[r] = q /\ \A x \in Requests : x # r => req'[x] = req[x]
  BY <1>1 DEF AuthInv, TypeOK
<1>6. Grows
  <2>1. \A x \in Requests : req'[x].fresh \in {0, req[x].fresh}
    BY <1>4, <1>5
  <2> QED BY <1>1, <1>2, <2>1 DEF Grows
<1>7. Filled(q)' /\ Stopped(q)'
  BY <1>1, <1>2, <1>3, <1>4 DEF Filled, Stopped
<1>8. RequestsInv' /\ req' \in [Requests -> Request]
  BY <1>3, <1>6, <1>7, StepKeepsRequests
<1>9. TypeOK'
  BY <1>1, <1>3, <1>4, <1>8 DEF AuthInv, TypeOK
<1>10. TablesInv'
  BY <1>1 DEF AuthInv, TablesInv, SessionsOwned, TokensDistinct, NamesDistinct
<1>11. \A x \in Requests, k \in {"register", "login", "refresh"} :
          /\ Flushed(x, k)' <=> Flushed(x, k)
          /\ Flushed(x, k) => req'[x] = req[x]
  BY <1>3, <1>5 DEF Flushed
<1>12. \A x \in Requests :
          /\ Flushed(x, "logout") => Flushed(x, "logout")' /\ req'[x] = req[x]
          /\ Flushed(x, "delete") => Flushed(x, "delete")' /\ req'[x] = req[x]
          /\ Flushed(x, "delete")' =>
               Flushed(x, "delete") \/ (x = r /\ req[r].kind = "delete")
  <2>1. ~Flushed(r, "logout") /\ ~Flushed(r, "delete")
    BY DEF Flushed
  <2> QED BY <1>3, <1>5, <2>1 DEF Flushed
<1>13. HoldsInv'
  <2>1. LoginsHold' /\ RegistersHold'
    BY <1>1, <1>11 DEF AuthInv, HoldsInv, LoginsHold, RegistersHold
  <2>2. DeletesExclude'
    BY <1>3, <1>5, <1>11, <1>12 DEF AuthInv, HoldsInv, DeletesExclude
  <2>3. FreshDistinct'
    BY <1>1, <1>4, <1>5 DEF AuthInv, HoldsInv, FreshDistinct
  <2> QED BY <2>1, <2>2, <2>3 DEF HoldsInv
<1>14. ToldInv'
  <2>1. CASE q.kind = "logout"
    <3>1. what = q.session /\ what \notin Users /\ LogoutPending(what)'
      BY <1>3, <1>4, <1>5, <2>1, AuthAssumption DEF LogoutPending, Flushed
    <3> QED BY <1>1, <1>4, <1>12, <3>1
            DEF AuthInv, ToldInv, Dead, LogoutPending, DeletePending
  <2>2. CASE q.kind = "delete"
    <3>1. what = q.user /\ what \notin Sessions /\ DeletePending(what)'
      BY <1>3, <1>4, <1>5, <2>2, AuthAssumption DEF DeletePending, Flushed
    <3> QED BY <1>1, <1>12, <3>1
            DEF AuthInv, ToldInv, Dead, LogoutPending, DeletePending
  <2> QED BY <1>3, <2>1, <2>2
<1> QED BY <1>6, <1>8, <1>9, <1>10, <1>13, <1>14 DEF AuthInv

\* The row locks give TellsStep what it needs of a deletion.
LEMMA TellingStep ==
    ASSUME AuthInv, NEW r \in Requests,
           LogoutFindsNone(r) \/ LogoutFlush(r) \/ DeleteFlush(r)
    PROVE  AuthInv' /\ Grows
<1>1. CASE LogoutFindsNone(r) \/ LogoutFlush(r)
  BY <1>1, TellsStep DEF LogoutFindsNone, LogoutFlush
<1>2. CASE DeleteFlush(r)
  <2>1. \A x \in Requests : Flushed(x, "login") => req[x].user # req[r].user
    BY <1>2 DEF DeleteFlush, AccountLocked
  <2> QED BY <1>2, <2>1, TellsStep DEF DeleteFlush
<1> QED BY <1>1, <1>2

\* A rotated token is newer than every token there is.
LEMMA RefreshFlushStep ==
    ASSUME AuthInv, NEW r \in Requests, RefreshFlush(r)
    PROVE  AuthInv' /\ Grows
<1>1. /\ req[r].at = "write" /\ req[r].kind = "refresh"
      /\ row[req[r].session] = "row"
      /\ issued < MaxTokens /\ issued' = issued + 1
      /\ req' = [req EXCEPT ![r] = [@ EXCEPT !.at = "granted", !.fresh = issued + 1]]
      /\ UNCHANGED << account, name, row, owner, token, revoked, expired, told >>
  BY DEF RefreshFlush, accounts, sessions
<1>2. /\ req[r] \in Request /\ Filled(req[r]) /\ Stopped(req[r])
      /\ issued \in Nat /\ issued + 1 \in 0 .. MaxTokens
  BY <1>1, AuthAssumption DEF AuthInv, TypeOK, RequestsInv
<1> PICK q \in Request : q = [req[r] EXCEPT !.at = "granted", !.fresh = issued + 1]
  BY <1>2 DEF Request, Place
<1>3. /\ q.at = "granted" /\ q.session = req[r].session /\ q.user = req[r].user
      /\ q.kind = "refresh" /\ q.token = req[r].token
      /\ q.fresh = issued + 1 /\ q.late = req[r].late
      /\ req' = [req EXCEPT ![r] = q]
  BY <1>1, <1>2 DEF Request
<1>4. /\ q.late = FALSE /\ q.token # 0 /\ q.token <= issued
      /\ q.session \in Sessions /\ row[q.session] \in {"row", "gone"}
      /\ q.token \in Nat
  BY <1>1, <1>2, <1>3, AuthAssumption DEF Filled, Stopped, Request
<1>5. req'[r] = q /\ \A x \in Requests : x # r => req'[x] = req[x]
  BY <1>3 DEF AuthInv, TypeOK
<1>6. \A x \in Requests : req[x].fresh \in Nat /\ req[x].fresh <= issued
  BY AuthAssumption DEF AuthInv, TypeOK, RequestsInv, Filled, Request
<1>7. Grows
  <2>1. \A x \in Requests : req'[x].fresh = req[x].fresh \/ req'[x].fresh > issued
    BY <1>2, <1>3, <1>5
  <2> QED BY <1>1, <1>2, <2>1 DEF Grows
<1>8. Filled(q)' /\ Stopped(q)'
  BY <1>1, <1>2, <1>3, <1>4 DEF Filled, Stopped
<1>9. RequestsInv' /\ req' \in [Requests -> Request]
  BY <1>3, <1>7, <1>8, StepKeepsRequests
<1>10. TypeOK'
  BY <1>1, <1>2, <1>9 DEF AuthInv, TypeOK
<1>11. TablesInv'
  <2>1. SessionsOwned'
    BY <1>1, <1>2 DEF AuthInv, TypeOK, TablesInv, SessionsOwned
  <2> QED BY <1>1, <2>1 DEF AuthInv, TablesInv, TokensDistinct, NamesDistinct
<1>12. \A x \in Requests, k \in {"register", "login", "logout", "delete"} :
          /\ Flushed(x, k)' <=> Flushed(x, k)
          /\ Flushed(x, k) => req'[x] = req[x]
  BY <1>1, <1>3, <1>5 DEF Flushed
<1>13. HoldsInv'
  <2>1. LoginsHold' /\ RegistersHold' /\ DeletesExclude'
    BY <1>1, <1>12 DEF AuthInv, HoldsInv, LoginsHold, RegistersHold, DeletesExclude
  <2>2. \A s \in Sessions : token[s] \in Nat /\ token[s] <= issued
    BY AuthAssumption DEF AuthInv, TypeOK, TablesInv, SessionsOwned
  <2>3. FreshDistinct'
    BY <1>1, <1>2, <1>3, <1>5, <1>6, <2>2 DEF AuthInv, HoldsInv, FreshDistinct
  <2> QED BY <2>1, <2>3 DEF HoldsInv
<1>14. ToldInv'
  BY <1>1, <1>12 DEF AuthInv, ToldInv, LogoutPending, DeletePending, Dead
<1> QED BY <1>7, <1>9, <1>10, <1>11, <1>13, <1>14 DEF AuthInv

\* A new session belongs to an account that no deletion in flight removes.
LEMMA LoginFlushStep ==
    ASSUME AuthInv, NEW r \in Requests, NEW z \in Sessions, LoginFlush(r, z)
    PROVE  AuthInv' /\ Grows
<1>1. /\ req[r].at = "write" /\ req[r].kind = "login"
      /\ account[req[r].user] = "row" /\ ~DeletePending(req[r].user)
      /\ row[z] = "unused" /\ issued < MaxTokens /\ issued' = issued + 1
      /\ row' = [row EXCEPT ![z] = "inserted"]
      /\ owner' = [owner EXCEPT ![z] = req[r].user]
      /\ token' = [token EXCEPT ![z] = issued + 1]
      /\ req' = [req EXCEPT ![r] = [@ EXCEPT !.at = "granted", !.session = z]]
      /\ UNCHANGED << account, name, revoked, expired, told >>
  BY DEF LoginFlush, ForeignKeyHolds, accounts
<1>2. /\ req[r] \in Request /\ Filled(req[r]) /\ Stopped(req[r])
      /\ issued \in Nat /\ issued + 1 \in 0 .. MaxTokens
  BY <1>1, AuthAssumption DEF AuthInv, TypeOK, RequestsInv
<1> PICK q \in Request : q = [req[r] EXCEPT !.at = "granted", !.session = z]
  BY <1>2 DEF Request, Place
<1>3. /\ q.at = "granted" /\ q.session = z /\ q.user = req[r].user
      /\ q.kind = "login" /\ q.fresh = req[r].fresh /\ q.late = req[r].late
      /\ req' = [req EXCEPT ![r] = q]
  BY <1>1, <1>2 DEF Request
<1>4. q.late = FALSE /\ q.fresh = 0 /\ q.user \in Users
  BY <1>1, <1>2, <1>3 DEF Filled, Stopped, Request
<1>5. req'[r] = q /\ \A x \in Requests : x # r => req'[x] = req[x]
  BY <1>3 DEF AuthInv, TypeOK
<1>6. /\ row'[z] = "inserted" /\ owner'[z] = q.user /\ token'[z] = issued + 1
      /\ \A s \in Sessions : s # z =>
           row'[s] = row[s] /\ owner'[s] = owner[s] /\ token'[s] = token[s]
  BY <1>1, <1>3 DEF AuthInv, TypeOK
<1>7. Grows
  <2>1. \A x \in Requests : req'[x].fresh = 0 \/ req'[x].fresh = req[x].fresh
    BY <1>4, <1>5
  <2> QED BY <1>1, <1>2, <1>6, <2>1 DEF Grows
<1>8. Filled(q)' /\ Stopped(q)'
  BY <1>1, <1>2, <1>3, <1>4 DEF Filled, Stopped
<1>9. RequestsInv' /\ req' \in [Requests -> Request]
  BY <1>3, <1>7, <1>8, StepKeepsRequests
<1>10. TypeOK'
  BY <1>1, <1>2, <1>3, <1>4, <1>9 DEF AuthInv, TypeOK, Life
<1>11. \A s \in Sessions : token[s] \in Nat /\ token[s] <= issued
  BY AuthAssumption DEF AuthInv, TypeOK, TablesInv, SessionsOwned
<1>12. TablesInv'
  <2>1. SessionsOwned'
    BY <1>1, <1>2, <1>3, <1>4, <1>6, <1>11 DEF AuthInv, TablesInv, SessionsOwned
  <2>2. TokensDistinct'
    BY <1>2, <1>6, <1>11 DEF AuthInv, TablesInv, TokensDistinct
  <2> QED BY <1>1, <2>1, <2>2 DEF AuthInv, TablesInv, NamesDistinct
<1>13. \A x \in Requests, k \in {"register", "logout", "delete"} :
          /\ Flushed(x, k)' <=> Flushed(x, k)
          /\ Flushed(x, k) => req'[x] = req[x]
  BY <1>1, <1>3, <1>5 DEF Flushed
<1>14. /\ Flushed(r, "login")'
       /\ \A x \in Requests : x # r =>
            /\ Flushed(x, "login")' <=> Flushed(x, "login")
            /\ Flushed(x, "login") => req[x].session \in Sessions /\ req[x].session # z
  BY <1>1, <1>3, <1>5
     DEF AuthInv, RequestsInv, Filled, HoldsInv, LoginsHold, Flushed
<1>15. HoldsInv'
  <2>1. LoginsHold'
    <3>1. \A x \in Requests : Flushed(x, "login")' =>
            row'[req'[x].session] = "inserted" /\ owner'[req'[x].session] = req'[x].user
      <4>1. row'[req'[r].session] = "inserted" /\ owner'[req'[r].session] = req'[r].user
        BY <1>3, <1>5, <1>6
      <4>2. ASSUME NEW x \in Requests, x # r, Flushed(x, "login")'
            PROVE  row'[req'[x].session] = "inserted" /\ owner'[req'[x].session] = req'[x].user
        BY <1>5, <1>6, <1>14, <4>2 DEF AuthInv, HoldsInv, LoginsHold
      <4> QED BY <4>1, <4>2
    <3>2. ASSUME NEW s \in Sessions, row'[s] = "inserted"
          PROVE  \E x \in Requests : Flushed(x, "login")' /\ req'[x].session = s
      <4>1. CASE s = z
        BY <1>3, <1>5, <1>14, <4>1
      <4>2. CASE s # z
        <5>1. PICK x \in Requests : Flushed(x, "login") /\ req[x].session = s
          BY <1>6, <3>2, <4>2 DEF AuthInv, HoldsInv, LoginsHold
        <5>2. x # r
          BY <1>1, <5>1 DEF Flushed
        <5> QED BY <1>5, <1>14, <5>1, <5>2
      <4> QED BY <4>1, <4>2
    <3>3. \A x, y \in Requests :
            Flushed(x, "login")' /\ Flushed(y, "login")' /\ req'[x].session = req'[y].session
              => x = y
      <4>1. ASSUME NEW x \in Requests, x # r, Flushed(x, "login")'
            PROVE  Flushed(x, "login") /\ req'[x] = req[x] /\ req'[x].session # req'[r].session
        BY <1>3, <1>5, <1>14, <4>1
      <4> QED BY <4>1 DEF AuthInv, HoldsInv, LoginsHold
    <3> QED BY <3>1, <3>2, <3>3 DEF LoginsHold
  <2>2. RegistersHold'
    BY <1>1, <1>13 DEF AuthInv, HoldsInv, RegistersHold
  <2>3. DeletesExclude'
    BY <1>1, <1>3, <1>5, <1>13, <1>14
       DEF AuthInv, HoldsInv, DeletesExclude, DeletePending
  <2>4. FreshDistinct'
    <3>1. \A x \in Requests : req[x].fresh \in Nat /\ req[x].fresh <= issued
      BY AuthAssumption DEF AuthInv, TypeOK, RequestsInv, Filled, Request
    <3>2. \A x \in Requests : req'[x].fresh = req[x].fresh
      BY <1>2, <1>3, <1>4, <1>5
    <3>3. \A x \in Requests, s \in Sessions : req[x].fresh # 0 => token'[s] # req[x].fresh
      BY <1>2, <1>6, <3>1 DEF AuthInv, HoldsInv, FreshDistinct
    <3> QED BY <3>2, <3>3 DEF AuthInv, HoldsInv, FreshDistinct
  <2> QED BY <2>1, <2>2, <2>3, <2>4 DEF HoldsInv
<1>16. ToldInv'
  <2>1. \A s \in Sessions : s \in told => s # z
    BY <1>1 DEF AuthInv, ToldInv
  <2>2. \A s \in Sessions : s # z => (Dead(s) => Dead(s)')
    BY <1>1, <1>6 DEF Dead
  <2>3. /\ \A s \in Sessions : LogoutPending(s) => LogoutPending(s)'
        /\ \A u \in Users : DeletePending(u) => DeletePending(u)'
    BY <1>13 DEF LogoutPending, DeletePending
  <2> QED BY <1>1, <1>6, <2>1, <2>2, <2>3 DEF AuthInv, ToldInv
<1> QED BY <1>7, <1>9, <1>10, <1>12, <1>15, <1>16 DEF AuthInv

-----------------------------------------------------------------------------
(* The commits.                                                            *)

\* A request that ends leaves an empty slot, and no other request changes.
LEMMA ReleaseKeepsRequests ==
    ASSUME AuthInv, NEW r \in Requests, Releases(r), Grows
    PROVE  /\ RequestsInv' /\ req' \in [Requests -> Request]
           /\ req'[r].at = "idle" /\ req'[r].fresh = 0
           /\ \A x \in Requests : x # r => req'[x] = req[x]
           /\ \A x \in Requests, k \in Kind :
                Flushed(x, k)' <=> x # r /\ Flushed(x, k)
<1>1. issued \in Nat /\ NoRequest \in Request /\ Filled(NoRequest) /\ Stopped(NoRequest)
  BY NoRequestSound, AuthAssumption DEF AuthInv, TypeOK
<1>2. Filled(NoRequest)' /\ Stopped(NoRequest)'
  BY <1>1, GrowthKeepsRequest DEF AuthInv, TablesInv
<1>3. RequestsInv' /\ req' \in [Requests -> Request]
  BY <1>1, <1>2, StepKeepsRequests DEF Releases
<1>4. /\ req'[r] = NoRequest
      /\ \A x \in Requests : x # r => req'[x] = req[x]
  BY DEF AuthInv, TypeOK, Releases
<1>5. NoRequest.at = "idle" /\ NoRequest.fresh = 0
  BY DEF NoRequest
<1> QED BY <1>3, <1>4, <1>5 DEF Flushed

\* Freed of its token, the slot leaves the others' as they were.
LEMMA ReleaseKeepsFresh ==
    ASSUME AuthInv, NEW r \in Requests, req'[r].fresh = 0,
           \A x \in Requests : x # r => req'[x] = req[x],
           \A s \in Sessions : token'[s] = token[s] \/ token'[s] = req[r].fresh
    PROVE  FreshDistinct'
<1>1. \A x, y \in Requests : req'[x].fresh # 0 /\ req'[x].fresh = req'[y].fresh => x = y
  BY DEF AuthInv, HoldsInv, FreshDistinct
<1>2. ASSUME NEW x \in Requests, NEW s \in Sessions, req'[x].fresh # 0
      PROVE  token'[s] # req'[x].fresh
  <2>1. x # r /\ req'[x] = req[x]
    BY <1>2
  <2> QED BY <1>2, <2>1 DEF AuthInv, HoldsInv, FreshDistinct
<1> QED BY <1>1, <1>2 DEF FreshDistinct

\* A new account becomes visible, or is lost.
LEMMA RegisterEnds ==
    ASSUME AuthInv, NEW r \in Requests, NEW life \in {"row", "gone"},
           Flushed(r, "register"), Releases(r),
           account' = [account EXCEPT ![req[r].user] = life],
           UNCHANGED << name, row, owner, token, revoked, expired, issued, told >>
    PROVE  AuthInv' /\ Grows
<1> DEFINE u == req[r].user
<1>1. /\ u \in Users /\ account[u] = "inserted" /\ issued \in Nat
      /\ \A x \in Requests : x # r /\ Flushed(x, "register") =>
           req[x].user \in Users /\ req[x].user # u
  BY AuthAssumption
     DEF AuthInv, TypeOK, RequestsInv, Filled, HoldsInv, RegistersHold, Flushed
<1>2. account'[u] = life /\ \A v \in Users : v # u => account'[v] = account[v]
  BY <1>1 DEF AuthInv, TypeOK
<1>3. Grows
  <2>1. \A x \in Requests : req'[x].fresh \in {0, req[x].fresh}
    BY DEF AuthInv, TypeOK, Releases, NoRequest
  <2> QED BY <1>1, <1>2, <2>1 DEF Grows
<1>4. /\ RequestsInv' /\ req' \in [Requests -> Request]
      /\ req'[r].fresh = 0
      /\ \A x \in Requests : x # r => req'[x] = req[x]
      /\ \A x \in Requests, k \in Kind : Flushed(x, k)' <=> x # r /\ Flushed(x, k)
  BY <1>3, ReleaseKeepsRequests
<1>5. TypeOK'
  BY <1>4 DEF AuthInv, TypeOK, Life
<1>6. TablesInv'
  <2>1. SessionsOwned' /\ TokensDistinct'
    BY <1>1, <1>2 DEF AuthInv, TablesInv, SessionsOwned, TokensDistinct
  <2>2. NamesDistinct'
    BY <1>1, <1>2 DEF AuthInv, TablesInv, NamesDistinct
  <2> QED BY <2>1, <2>2 DEF TablesInv
<1>7. HoldsInv'
  <2>1. \A x \in Requests :
          /\ Flushed(x, "login")' <=> Flushed(x, "login")
          /\ Flushed(x, "login") => req'[x] = req[x]
    BY <1>4 DEF Flushed, Kind
  <2>2. LoginsHold'
    BY <2>1 DEF AuthInv, HoldsInv, LoginsHold
  <2>3. RegistersHold' /\ DeletesExclude'
    BY <1>1, <1>2, <1>4, <2>1 DEF AuthInv, HoldsInv, RegistersHold, DeletesExclude, Kind, ByAccess
  <2>4. FreshDistinct'
    BY <1>4, ReleaseKeepsFresh
  <2> QED BY <2>2, <2>3, <2>4 DEF HoldsInv
<1>8. ToldInv'
  <2>1. \A x \in Requests :
          /\ Flushed(x, "logout") => Flushed(x, "logout")' /\ req'[x] = req[x]
          /\ Flushed(x, "delete") => Flushed(x, "delete")' /\ req'[x] = req[x]
    BY <1>4 DEF Flushed, Kind, ByAccess
  <2>2. \A s \in Sessions : row[s] # "unused" /\ Dead(s) => Dead(s)'
    BY <1>1, <1>2 DEF AuthInv, TablesInv, SessionsOwned, Dead
  <2> QED BY <1>1, <1>2, <2>1, <2>2 DEF AuthInv, ToldInv, LogoutPending, DeletePending
<1> QED BY <1>3, <1>4, <1>5, <1>6, <1>7, <1>8 DEF AuthInv

\* The row of a login becomes visible, or is lost.
LEMMA LoginEnds ==
    ASSUME AuthInv, NEW r \in Requests, NEW life \in {"row", "gone"},
           Flushed(r, "login"), Releases(r),
           row' = [row EXCEPT ![req[r].session] = life],
           UNCHANGED << account, name, owner, token, revoked, expired, issued, told >>
    PROVE  AuthInv' /\ Grows
<1> DEFINE z == req[r].session
<1>1. /\ z \in Sessions /\ row[z] = "inserted" /\ issued \in Nat
      /\ \A x \in Requests : x # r /\ Flushed(x, "login") =>
           req[x].session \in Sessions /\ req[x].session # z
  BY AuthAssumption
     DEF AuthInv, TypeOK, RequestsInv, Filled, HoldsInv, LoginsHold, Flushed
<1>2. row'[z] = life /\ \A s \in Sessions : s # z => row'[s] = row[s]
  BY <1>1 DEF AuthInv, TypeOK
<1>3. Grows
  <2>1. \A x \in Requests : req'[x].fresh \in {0, req[x].fresh}
    BY DEF AuthInv, TypeOK, Releases, NoRequest
  <2> QED BY <1>1, <1>2, <2>1 DEF Grows
<1>4. /\ RequestsInv' /\ req' \in [Requests -> Request]
      /\ req'[r].fresh = 0
      /\ \A x \in Requests : x # r => req'[x] = req[x]
      /\ \A x \in Requests, k \in Kind : Flushed(x, k)' <=> x # r /\ Flushed(x, k)
  BY <1>3, ReleaseKeepsRequests
<1>5. TypeOK'
  BY <1>4 DEF AuthInv, TypeOK, Life
<1>6. TablesInv'
  <2>1. SessionsOwned'
    BY <1>1, <1>2 DEF AuthInv, TablesInv, SessionsOwned
  <2> QED BY <2>1 DEF AuthInv, TablesInv, TokensDistinct, NamesDistinct
<1>7. HoldsInv'
  <2>1. \A x \in Requests :
          /\ Flushed(x, "login")' <=> x # r /\ Flushed(x, "login")
          /\ Flushed(x, "register")' <=> Flushed(x, "register")
          /\ Flushed(x, "delete")' <=> Flushed(x, "delete")
          /\ Flushed(x, "register") \/ Flushed(x, "delete") => req'[x] = req[x]
    BY <1>4 DEF Flushed, Kind, ByAccess
  <2>2. LoginsHold'
    <3>1. ASSUME NEW x \in Requests, Flushed(x, "login")'
          PROVE  /\ x # r /\ Flushed(x, "login") /\ req'[x] = req[x]
                 /\ req[x].session \in Sessions /\ req[x].session # z
      BY <1>1, <1>4, <2>1, <3>1
    <3>2. ASSUME NEW s \in Sessions, row'[s] = "inserted"
          PROVE  \E x \in Requests : Flushed(x, "login")' /\ req'[x].session = s
      <4>1. s # z /\ row[s] = "inserted"
        BY <1>2, <3>2
      <4>2. PICK x \in Requests : Flushed(x, "login") /\ req[x].session = s
        BY <4>1 DEF AuthInv, HoldsInv, LoginsHold
      <4> QED BY <1>4, <2>1, <4>1, <4>2
    <3> QED BY <1>2, <3>1, <3>2 DEF AuthInv, HoldsInv, LoginsHold
  <2>3. RegistersHold'
    BY <2>1 DEF AuthInv, HoldsInv, RegistersHold
  <2>4. DeletesExclude'
    BY <1>4, <2>1 DEF AuthInv, HoldsInv, DeletesExclude
  <2>5. FreshDistinct'
    BY <1>4, ReleaseKeepsFresh
  <2> QED BY <2>2, <2>3, <2>4, <2>5 DEF HoldsInv
<1>8. ToldInv'
  <2>1. \A x \in Requests :
          /\ Flushed(x, "logout") => Flushed(x, "logout")' /\ req'[x] = req[x]
          /\ Flushed(x, "delete") => Flushed(x, "delete")' /\ req'[x] = req[x]
    BY <1>4 DEF Flushed, Kind, ByAccess
  <2>2. \A s \in Sessions : s \in told => s # z
    BY <1>1 DEF AuthInv, ToldInv
  <2> QED BY <1>2, <2>1, <2>2 DEF AuthInv, ToldInv, LogoutPending, DeletePending, Dead
<1> QED BY <1>3, <1>4, <1>5, <1>6, <1>7, <1>8 DEF AuthInv

\* The logout that was answered takes effect.
LEMMA LogoutCommitStep ==
    ASSUME AuthInv, NEW r \in Requests, LogoutCommit(r)
    PROVE  AuthInv' /\ Grows
<1> DEFINE z == req[r].session
<1>1. /\ Flushed(r, "logout") /\ Releases(r)
      /\ revoked' = [revoked EXCEPT ![z] = TRUE]
      /\ UNCHANGED << account, name, row, owner, token, expired, issued, told >>
  BY DEF LogoutCommit, accounts
<1>2. z \in Sessions /\ issued \in Nat
  BY <1>1, AuthAssumption DEF AuthInv, TypeOK, RequestsInv, Filled, Flushed
<1>3. revoked'[z] /\ \A s \in Sessions : revoked[s] => revoked'[s]
  BY <1>1, <1>2 DEF AuthInv, TypeOK
<1>4. Grows
  <2>1. \A x \in Requests : req'[x].fresh \in {0, req[x].fresh}
    BY <1>1 DEF AuthInv, TypeOK, Releases, NoRequest
  <2> QED BY <1>1, <1>2, <1>3, <2>1 DEF Grows
<1>5. /\ RequestsInv' /\ req' \in [Requests -> Request]
      /\ req'[r].fresh = 0
      /\ \A x \in Requests : x # r => req'[x] = req[x]
      /\ \A x \in Requests, k \in Kind : Flushed(x, k)' <=> x # r /\ Flushed(x, k)
  BY <1>1, <1>4, ReleaseKeepsRequests
<1>6. TypeOK'
  BY <1>1, <1>5 DEF AuthInv, TypeOK
<1>7. TablesInv'
  BY <1>1 DEF AuthInv, TablesInv, SessionsOwned, TokensDistinct, NamesDistinct
<1>8. \A x \in Requests :
        /\ Flushed(x, "login")' <=> Flushed(x, "login")
        /\ Flushed(x, "register")' <=> Flushed(x, "register")
        /\ Flushed(x, "delete")' <=> Flushed(x, "delete")
        /\ Flushed(x, "login") \/ Flushed(x, "register") \/ Flushed(x, "delete") =>
             req'[x] = req[x]
  BY <1>1, <1>5 DEF Flushed, Kind, ByAccess
<1>9. HoldsInv'
  <2>1. LoginsHold' /\ RegistersHold' /\ DeletesExclude'
    BY <1>1, <1>8 DEF AuthInv, HoldsInv, LoginsHold, RegistersHold, DeletesExclude
  <2>2. FreshDistinct'
    BY <1>1, <1>5, ReleaseKeepsFresh
  <2> QED BY <2>1, <2>2 DEF HoldsInv
<1>10. ToldInv'
  <2>1. ASSUME NEW s \in Sessions, LogoutPending(s), s # z
        PROVE  LogoutPending(s)'
    BY <1>5, <2>1 DEF LogoutPending, Kind, ByAccess
  <2>2. \A s \in Sessions : Dead(s) => Dead(s)'
    BY <1>1, <1>3 DEF Dead
  <2>3. \A s \in Sessions : s = z => Dead(s)'
    BY <1>3 DEF Dead
  <2> QED BY <1>1, <1>8, <2>1, <2>2, <2>3 DEF AuthInv, ToldInv, DeletePending
<1> QED BY <1>4, <1>5, <1>6, <1>7, <1>9, <1>10 DEF AuthInv

\* The token that was fresh is the session's, and nobody else's.
LEMMA RefreshCommitStep ==
    ASSUME AuthInv, NEW r \in Requests, RefreshCommit(r)
    PROVE  AuthInv' /\ Grows
<1> DEFINE z == req[r].session
<1>1. /\ Flushed(r, "refresh") /\ Releases(r)
      /\ token' = [token EXCEPT ![z] = req[r].fresh]
      /\ expired' = [expired EXCEPT ![z] = FALSE]
      /\ UNCHANGED << account, name, row, owner, revoked, issued, told >>
  BY DEF RefreshCommit, Rotate, accounts
<1>2. /\ z \in Sessions /\ row[z] \in {"row", "gone"} /\ issued \in Nat
      /\ req[r].fresh # 0 /\ req[r].fresh <= issued /\ req[r].fresh \in 0 .. MaxTokens
  BY <1>1, AuthAssumption DEF AuthInv, TypeOK, RequestsInv, Filled, Flushed, Request
<1>3. token'[z] = req[r].fresh /\ \A s \in Sessions : s # z => token'[s] = token[s]
  BY <1>1, <1>2 DEF AuthInv, TypeOK
<1>4. Grows
  <2>1. \A x \in Requests : req'[x].fresh \in {0, req[x].fresh}
    BY <1>1 DEF AuthInv, TypeOK, Releases, NoRequest
  <2> QED BY <1>1, <1>2, <1>3, <2>1 DEF Grows
<1>5. /\ RequestsInv' /\ req' \in [Requests -> Request]
      /\ req'[r].fresh = 0
      /\ \A x \in Requests : x # r => req'[x] = req[x]
      /\ \A x \in Requests, k \in Kind : Flushed(x, k)' <=> x # r /\ Flushed(x, k)
  BY <1>1, <1>4, ReleaseKeepsRequests
<1>6. TypeOK'
  BY <1>1, <1>2, <1>5 DEF AuthInv, TypeOK
<1>7. TablesInv'
  <2>1. SessionsOwned'
    BY <1>1, <1>2, <1>3 DEF AuthInv, TablesInv, SessionsOwned
  <2>2. TokensDistinct'
    BY <1>2, <1>3 DEF AuthInv, TablesInv, TokensDistinct, HoldsInv, FreshDistinct
  <2> QED BY <1>1, <2>1, <2>2 DEF AuthInv, TablesInv, NamesDistinct
<1>8. \A x \in Requests :
        /\ Flushed(x, "login")' <=> Flushed(x, "login")
        /\ Flushed(x, "register")' <=> Flushed(x, "register")
        /\ Flushed(x, "delete")' <=> Flushed(x, "delete")
        /\ Flushed(x, "logout")' <=> Flushed(x, "logout")
        /\ Flushed(x, "login") \/ Flushed(x, "register")
             \/ Flushed(x, "delete") \/ Flushed(x, "logout") => req'[x] = req[x]
  BY <1>1, <1>5 DEF Flushed, Kind, ByAccess
<1>9. HoldsInv'
  <2>1. LoginsHold' /\ RegistersHold' /\ DeletesExclude'
    BY <1>1, <1>8 DEF AuthInv, HoldsInv, LoginsHold, RegistersHold, DeletesExclude
  <2>2. FreshDistinct'
    BY <1>3, <1>5, ReleaseKeepsFresh
  <2> QED BY <2>1, <2>2 DEF HoldsInv
<1>10. ToldInv'
  BY <1>1, <1>8 DEF AuthInv, ToldInv, DeletePending, LogoutPending, Dead
<1> QED BY <1>4, <1>5, <1>6, <1>7, <1>9, <1>10 DEF AuthInv

\* No session that the deletion does not see belongs to the account: a login
\* that inserted one would have held its lock.
LEMMA DeleteCommitStep ==
    ASSUME AuthInv, NEW r \in Requests, DeleteCommit(r)
    PROVE  AuthInv' /\ Grows
<1> DEFINE u == req[r].user
           ends == {s \in Sessions : row[s] = "row" /\ owner[s] = u}
<1>1. /\ Flushed(r, "delete") /\ Releases(r)
      /\ account' = [account EXCEPT ![u] = "gone"]
      /\ row' = [s \in Sessions |-> IF s \in ends THEN "gone" ELSE row[s]]
      /\ revoked' = [s \in Sessions |-> s \in ends \/ revoked[s]]
      /\ UNCHANGED << name, owner, token, expired, issued, told >>
  BY DEF DeleteCommit
<1>2. u \in Users /\ account[u] \in {"row", "gone"} /\ issued \in Nat
  BY <1>1, AuthAssumption DEF AuthInv, TypeOK, RequestsInv, Filled, Flushed
<1>3. account'[u] = "gone" /\ \A v \in Users : v # u => account'[v] = account[v]
  BY <1>1, <1>2 DEF AuthInv, TypeOK
<1>4. \A s \in Sessions :
        /\ row[s] = "row" /\ owner[s] = u => row'[s] = "gone" /\ revoked'[s]
        /\ row[s] # "row" \/ owner[s] # u =>
             row'[s] = row[s] /\ (revoked[s] => revoked'[s])
  BY <1>1
<1>5. \A s \in Sessions : row[s] = "inserted" => owner[s] # u
  BY <1>1 DEF AuthInv, HoldsInv, LoginsHold, DeletesExclude
<1>6. Grows
  <2>1. \A x \in Requests : req'[x].fresh \in {0, req[x].fresh}
    BY <1>1 DEF AuthInv, TypeOK, Releases, NoRequest
  <2> QED BY <1>1, <1>2, <1>3, <1>4, <2>1 DEF Grows
<1>7. /\ RequestsInv' /\ req' \in [Requests -> Request]
      /\ req'[r].fresh = 0
      /\ \A x \in Requests : x # r => req'[x] = req[x]
      /\ \A x \in Requests, k \in Kind : Flushed(x, k)' <=> x # r /\ Flushed(x, k)
  BY <1>1, <1>6, ReleaseKeepsRequests
<1>8. TypeOK'
  <2>1. row' \in [Sessions -> Life] /\ revoked' \in [Sessions -> BOOLEAN]
    BY <1>1 DEF AuthInv, TypeOK, Life
  <2> QED BY <1>1, <1>7, <2>1 DEF AuthInv, TypeOK, Life
<1>9. TablesInv'
  <2>1. SessionsOwned'
    BY <1>1, <1>2, <1>3, <1>4, <1>5 DEF AuthInv, TablesInv, SessionsOwned
  <2>2. NamesDistinct'
    BY <1>1, <1>3 DEF AuthInv, TablesInv, NamesDistinct
  <2> QED BY <1>1, <2>1, <2>2 DEF AuthInv, TablesInv, TokensDistinct
<1>10. \A x \in Requests :
        /\ Flushed(x, "login")' <=> Flushed(x, "login")
        /\ Flushed(x, "register")' <=> Flushed(x, "register")
        /\ Flushed(x, "delete")' <=> x # r /\ Flushed(x, "delete")
        /\ Flushed(x, "logout")' <=> Flushed(x, "logout")
        /\ x # r => req'[x] = req[x]
        /\ Flushed(x, "login") \/ Flushed(x, "register") \/ Flushed(x, "logout") => x # r
  BY <1>1, <1>7 DEF Flushed, Kind, ByAccess
<1>11. HoldsInv'
  <2>1. LoginsHold'
    <3>1. \A s \in Sessions : row'[s] = "inserted" <=> row[s] = "inserted"
      BY <1>4
    <3>2. \A x \in Requests : Flushed(x, "login") => req[x].session \in Sessions
      BY DEF AuthInv, RequestsInv, Filled, Flushed
    <3> QED BY <1>1, <1>10, <3>1, <3>2 DEF AuthInv, HoldsInv, LoginsHold
  <2>2. RegistersHold'
    <3>1. \A x \in Requests : Flushed(x, "register") =>
            req[x].user \in Users /\ req[x].user # u
      BY <1>2 DEF AuthInv, RequestsInv, Filled, Flushed, HoldsInv, RegistersHold
    <3> QED BY <1>3, <1>10, <3>1 DEF AuthInv, HoldsInv, RegistersHold
  <2>3. DeletesExclude'
    BY <1>10 DEF AuthInv, HoldsInv, DeletesExclude
  <2>4. FreshDistinct'
    BY <1>1, <1>7, ReleaseKeepsFresh
  <2> QED BY <2>1, <2>2, <2>3, <2>4 DEF HoldsInv
<1>12. ToldInv'
  <2>1. \A s \in Sessions : row[s] \in {"row", "gone"} /\ Dead(s) => Dead(s)'
    BY <1>1, <1>3, <1>4 DEF AuthInv, TablesInv, SessionsOwned, Dead
  <2>2. \A s \in Sessions : LogoutPending(s) => LogoutPending(s)'
    BY <1>10 DEF LogoutPending
  <2>3. \A v \in Users : v # u /\ DeletePending(v) => DeletePending(v)'
    BY <1>10 DEF DeletePending
  <2> QED BY <1>1, <1>3, <1>4, <2>1, <2>2, <2>3 DEF AuthInv, ToldInv
<1> QED BY <1>6, <1>7, <1>8, <1>9, <1>11, <1>12 DEF AuthInv

\* A lost update takes back what the client was told, if it was told anything.
LEMMA UpdateLost ==
    ASSUME AuthInv, NEW r \in Requests, NEW kind \in {"logout", "delete", "refresh"},
           Flushed(r, kind), Releases(r), told' \subseteq told,
           kind = "logout" => req[r].session \notin told',
           kind = "delete" => req[r].user \notin told',
           UNCHANGED << account, name, row, owner, token, revoked, expired, issued >>
    PROVE  AuthInv' /\ Grows
<1>1. issued \in Nat
  BY AuthAssumption DEF AuthInv, TypeOK
<1>2. Grows
  <2>1. \A x \in Requests : req'[x].fresh \in {0, req[x].fresh}
    BY DEF AuthInv, TypeOK, Releases, NoRequest
  <2> QED BY <1>1, <2>1 DEF Grows
<1>3. /\ RequestsInv' /\ req' \in [Requests -> Request]
      /\ req'[r].fresh = 0
      /\ \A x \in Requests : x # r => req'[x] = req[x]
      /\ \A x \in Requests, k \in Kind : Flushed(x, k)' <=> x # r /\ Flushed(x, k)
  BY <1>2, ReleaseKeepsRequests
<1>4. TypeOK'
  BY <1>3 DEF AuthInv, TypeOK
<1>5. TablesInv'
  BY DEF AuthInv, TablesInv, SessionsOwned, TokensDistinct, NamesDistinct
<1>6. \A x \in Requests :
        /\ Flushed(x, "login")' <=> Flushed(x, "login")
        /\ Flushed(x, "register")' <=> Flushed(x, "register")
        /\ Flushed(x, "delete")' <=> x # r /\ Flushed(x, "delete")
        /\ Flushed(x, "logout")' <=> x # r /\ Flushed(x, "logout")
        /\ x # r => req'[x] = req[x]
        /\ Flushed(x, "login") \/ Flushed(x, "register") => x # r
  BY <1>3 DEF Flushed, Kind, ByAccess
<1>7. HoldsInv'
  <2>1. LoginsHold' /\ RegistersHold' /\ DeletesExclude'
    BY <1>6 DEF AuthInv, HoldsInv, LoginsHold, RegistersHold, DeletesExclude
  <2>2. FreshDistinct'
    BY <1>3, ReleaseKeepsFresh
  <2> QED BY <2>1, <2>2 DEF HoldsInv
<1>8. ToldInv'
  <2>1. ASSUME NEW s \in Sessions, s \in told', LogoutPending(s)
        PROVE  LogoutPending(s)'
    <3>1. PICK x \in Requests : Flushed(x, "logout") /\ req[x].session = s
      BY <2>1 DEF LogoutPending
    <3>2. x # r
      BY <2>1, <3>1 DEF Flushed
    <3> QED BY <1>6, <3>1, <3>2 DEF LogoutPending
  <2>2. ASSUME NEW u \in Users, u \in told', DeletePending(u)
        PROVE  DeletePending(u)'
    <3>1. PICK x \in Requests : Flushed(x, "delete") /\ req[x].user = u
      BY <2>2 DEF DeletePending
    <3>2. x # r
      BY <2>2, <3>1 DEF Flushed
    <3> QED BY <1>6, <3>1, <3>2 DEF DeletePending
  <2>3. \A s \in Sessions : Dead(s)' <=> Dead(s)
    BY DEF Dead
  <2> QED BY <2>1, <2>2, <2>3 DEF AuthInv, ToldInv
<1> QED BY <1>2, <1>3, <1>4, <1>5, <1>7, <1>8 DEF AuthInv

LEMMA CommitFailsStep ==
    ASSUME AuthInv, NEW r \in Requests, CommitFails(r)
    PROVE  AuthInv' /\ Grows
<1>1. /\ req[r].at = "granted" /\ Releases(r)
      /\ UNCHANGED << name, owner, token, revoked, expired, issued >>
      /\ req[r].kind \in Kind
  BY DEF CommitFails, AuthInv, TypeOK, Request
<1>2. CASE req[r].kind = "register"
  <2>1. account' = [account EXCEPT ![req[r].user] = "gone"] /\ row' = row /\ told' = told
    BY <1>2 DEF CommitFails
  <2> QED BY <1>1, <1>2, <2>1, RegisterEnds DEF Flushed
<1>3. CASE req[r].kind = "login"
  <2>1. row' = [row EXCEPT ![req[r].session] = "gone"] /\ account' = account /\ told' = told
    BY <1>3 DEF CommitFails
  <2> QED BY <1>1, <1>3, <2>1, LoginEnds DEF Flushed
<1>4. CASE req[r].kind \in {"logout", "delete", "refresh"}
  <2>1. /\ account' = account /\ row' = row /\ told' \subseteq told
        /\ req[r].kind = "logout" => req[r].session \notin told'
        /\ req[r].kind = "delete" => req[r].user \notin told'
    BY <1>4 DEF CommitFails
  <2> QED BY <1>1, <1>4, <2>1, UpdateLost DEF Flushed
<1> QED BY <1>1, <1>2, <1>3, <1>4 DEF CommitFails, Kind, ByAccess

LEMMA CommitStep ==
    ASSUME AuthInv, NEW r \in Requests, Commit(r)
    PROVE  AuthInv' /\ Grows
<1>1. CASE RegisterCommit(r)
  BY <1>1, RegisterEnds DEF RegisterCommit, sessions
<1>2. CASE LoginCommit(r)
  BY <1>2, LoginEnds DEF LoginCommit, accounts
<1> QED BY <1>1, <1>2, LogoutCommitStep, RefreshCommitStep, DeleteCommitStep,
           CommitFailsStep, QuietStep DEF Commit

LEMMA ExpireStep ==
    ASSUME AuthInv, NEW z \in Sessions, Expire(z)
    PROVE  AuthInv' /\ Grows
<1>1. /\ expired' = [expired EXCEPT ![z] = TRUE]
      /\ UNCHANGED << account, name, row, owner, token, revoked, issued, told, req >>
  BY DEF Expire, accounts
<1>2. issued \in Nat
  BY AuthAssumption DEF AuthInv, TypeOK
<1>3. Grows
  BY <1>1, <1>2 DEF Grows
<1>4. TypeOK'
  BY <1>1 DEF AuthInv, TypeOK
<1>5. TablesInv' /\ RequestsInv'
  BY <1>1 DEF AuthInv, TablesInv, SessionsOwned, TokensDistinct, NamesDistinct,
              RequestsInv, Filled, Stopped
<1>6. HoldsInv' /\ ToldInv'
  BY <1>1 DEF AuthInv, HoldsInv, LoginsHold, RegistersHold, DeletesExclude,
              FreshDistinct, ToldInv, LogoutPending, DeletePending, Dead, Flushed
<1> QED BY <1>3, <1>4, <1>5, <1>6 DEF AuthInv

-----------------------------------------------------------------------------
(* The specification.                                                      *)

LEMMA InitAuth == Init => AuthInv
<1> SUFFICES ASSUME Init PROVE AuthInv
  OBVIOUS
<1>1. /\ NoRequest \in Request /\ Filled(NoRequest) /\ Stopped(NoRequest)
      /\ NoRequest.at = "idle" /\ NoRequest.fresh = 0
  BY NoRequestSound DEF Init, NoRequest
<1>2. \A r \in Requests : req[r] = NoRequest
  BY DEF Init
<1>3. TypeOK
  BY <1>1, AuthAssumption DEF Init, TypeOK, Life
<1>4. TablesInv
  BY DEF Init, TablesInv, SessionsOwned, TokensDistinct, NamesDistinct
<1>5. RequestsInv
  BY <1>1, <1>2 DEF RequestsInv
<1>6. \A r \in Requests, k \in Kind : ~Flushed(r, k)
  BY <1>1, <1>2 DEF Flushed
<1>7. HoldsInv
  BY <1>1, <1>2, <1>6 DEF Init, HoldsInv, LoginsHold, RegistersHold, DeletesExclude,
                         FreshDistinct, Kind, ByAccess
<1>8. ToldInv
  BY DEF Init, ToldInv
<1> QED BY <1>3, <1>4, <1>5, <1>7, <1>8 DEF AuthInv

LEMMA ActStep ==
    ASSUME AuthInv, NEW r \in Requests, Act(r)
    PROVE  AuthInv' /\ Grows
BY QuietStep, TellingStep, RefreshFlushStep, LoginFlushStep DEF Act

LEMMA NextAuth == AuthInv /\ [Next]_avars => AuthInv' /\ (Grows \/ UNCHANGED avars)
<1> SUFFICES ASSUME AuthInv, [Next]_avars
             PROVE  AuthInv' /\ (Grows \/ UNCHANGED avars)
  OBVIOUS
<1>1. CASE UNCHANGED avars
  BY <1>1 DEF avars, accounts, sessions, AuthInv, TypeOK,
              TablesInv, SessionsOwned, TokensDistinct, NamesDistinct,
              RequestsInv, Filled, Stopped,
              HoldsInv, LoginsHold, RegistersHold, DeletesExclude, FreshDistinct,
              ToldInv, LogoutPending, DeletePending, Dead, Flushed
<1>2. ASSUME NEW r \in Requests, Arrive(r) PROVE AuthInv' /\ Grows
  BY <1>2, ArriveAccessStep, ArriveRefreshStep, ArriveLoginStep, RegisterFlushStep
     DEF Arrive
<1>3. ASSUME NEW r \in Requests,
             Check(r) \/ Act(r) \/ Commit(r) \/ Abort(r) \/ Answered(r) \/ SocketEnds(r)
      PROVE  AuthInv' /\ Grows
  BY <1>3, CheckStep, ActStep, CommitStep, QuietStep
<1>4. ASSUME NEW s \in Sessions, Expire(s) PROVE AuthInv' /\ Grows
  BY <1>4, ExpireStep
<1> QED BY <1>1, <1>2, <1>3, <1>4 DEF Next, StoreNext

LEMMA AuthInvariant == Spec => []AuthInv
<1>1. Init => AuthInv
  BY InitAuth
<1>2. AuthInv /\ [Next]_avars => AuthInv'
  BY NextAuth
<1> QED BY <1>1, <1>2, PTL DEF Spec

\* A credential that was dead when its request came is never granted, however
\* the steps and the commits of other requests fall (resolve_access_token and
\* refresh re-check the stored session and the account).
THEOREM DeadCredentialTheorem == Spec => []DeadCredentialRefused
<1>1. AuthInv => DeadCredentialRefused
  BY DEF AuthInv, RequestsInv, Stopped, DeadCredentialRefused
<1> QED BY <1>1, AuthInvariant, PTL

\* Sessions belong to existing accounts, and names and current refresh tokens
\* are unique, committed or not (the unique constraints, the foreign key and
\* the cascade of the deletion, decided under their row locks).
THEOREM StoreTheorem == Spec => []StoreConsistent
<1>1. AuthInv => StoreConsistent
  BY DEF AuthInv, TablesInv, SessionsOwned, TokensDistinct, NamesDistinct,
         StoreConsistent
<1> QED BY <1>1, AuthInvariant, PTL

\* A 204 for a logout or a deletion is true once the commit that get_db still
\* owes is through, for any number of logins, refreshes and failing commits
\* beside it.
THEOREM AnswerTheorem == Spec => []AnswerTakesEffect
<1>1. ASSUME AuthInv, NEW s \in Sessions, owner[s] \in told
      PROVE  row[s] = "gone" \/ DeletePending(owner[s])
  <2>1. told \subseteq Sessions \cup Users /\ owner[s] \in Users \cup {Nil}
    BY <1>1 DEF AuthInv, TypeOK
  <2>2. owner[s] \in Users /\ row[s] \in Life
    BY <1>1, <2>1, AuthAssumption DEF AuthInv, TypeOK
  <2>3. account[owner[s]] = "gone" \/ DeletePending(owner[s])
    BY <1>1, <2>2 DEF AuthInv, ToldInv
  <2>4. row[s] # "unused"
    BY <1>1, <2>2, AuthAssumption DEF AuthInv, TablesInv, SessionsOwned
  <2> QED BY <1>1, <2>2, <2>3, <2>4 DEF AuthInv, TablesInv, SessionsOwned, Life
<1>2. AuthInv => AnswerTakesEffect
  BY <1>1 DEF AuthInv, ToldInv, LogoutPending, AnswerTakesEffect
<1> QED BY <1>2, AuthInvariant, PTL

\* No step of any request undoes a revocation or brings back a removed
\* session (revoke, rotate_refresh_token, delete_account).
THEOREM RevocationTheorem == Spec => RevocationSticks
<1> DEFINE Sticks == \A s \in Sessions :
                       /\ revoked[s] => revoked'[s]
                       /\ row[s] = "gone" => row'[s] = "gone"
<1>1. AuthInv /\ [Next]_avars => [Sticks]_avars
  BY NextAuth DEF Grows
<1> QED BY <1>1, AuthInvariant, PTL DEF Spec, RevocationSticks

=============================================================================
