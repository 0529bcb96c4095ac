---------------------------- MODULE AuthSessions ----------------------------
(***************************************************************************)
(* Accounts and sessions: AuthService (service.py), its repositories and   *)
(* the routes that run it, one database transaction per request.           *)
(*                                                                         *)
(* Every read of a request is a step of its own, and sees what is          *)
(* committed; what it read stays in the request's identity map.  The flush *)
(* of its writes is the next step: it takes row locks, decides the request *)
(* and answers it.  The commit comes last, after the answer: get_db ends   *)
(* with commit() behind its yield, and the pinned FastAPI resumes such a   *)
(* dependency when the response has been sent.                             *)
(*                                                                         *)
(* Signatures, hashes and passwords are abstracted: an access token is the *)
(* session it names (`sid`), a refresh token a number, and a password is   *)
(* right or wrong.  No code disables an account, so is_active holds.       *)
(***************************************************************************)
EXTENDS Naturals, FiniteSets

CONSTANTS
    Users,       \* opaque account ids; each is issued once
    Names,       \* normalized usernames
    Sessions,    \* session ids; each is issued once
    Requests,    \* requests that may be in flight together
    Nil,         \* a field not filled in
    NaiveTimes,  \* TRUE: the database returns datetimes without their
                 \* offset, as SQLite does
    MaxTokens    \* bound of the model: refresh tokens ever issued

ASSUME AuthAssumption ==
    /\ Nil \notin Users \cup Sessions \cup Names
    /\ Users \cap Sessions = {}
    /\ NaiveTimes \in BOOLEAN
    /\ MaxTokens \in Nat

VARIABLES
    account,   \* users: "unused", "inserted" (not committed), "row" or "gone"
    name,      \* username_normalized of each account
    row,       \* auth_sessions, likewise
    owner,     \* user_id of each session
    token,     \* the refresh token whose hash the session holds, 0 if none
    revoked,   \* revoked_at is set
    expired,   \* expires_at has passed
    issued,    \* refresh tokens issued so far: 1 .. issued
    told,      \* history: sessions and accounts whose end was answered with
               \* 204, less those whose commit failed
    req        \* the requests

accounts == << account, name >>
sessions == << row, owner, token, revoked, expired >>
avars    == << accounts, sessions, issued, told, req >>

Life == {"unused", "inserted", "row", "gone"}

ByAccess == {"socket", "session", "logout", "delete"}  \* bearer token
Kind     == ByAccess \cup {"register", "login", "refresh"}

\* "granted": answered, and not yet committed.
Place == {"idle", "session", "user", "again", "write", "granted", "crashed"}

Request == [kind: Kind, at: Place, session: Sessions \cup {Nil},
            user: Users \cup {Nil}, token: 0 .. MaxTokens,
            fresh: 0 .. MaxTokens, late: BOOLEAN]

NoRequest == [kind |-> "login", at |-> "idle", session |-> Nil, user |-> Nil,
              token |-> 0, fresh |-> 0, late |-> FALSE]

Init ==
    /\ account = [u \in Users |-> "unused"]
    /\ name = [u \in Users |-> Nil]
    /\ row = [s \in Sessions |-> "unused"]
    /\ owner = [s \in Sessions |-> Nil]
    /\ token = [s \in Sessions |-> 0]
    /\ revoked = [s \in Sessions |-> FALSE]
    /\ expired = [s \in Sessions |-> FALSE]
    /\ issued = 0
    /\ told = {}
    /\ req = [r \in Requests |-> NoRequest]

\* A step that only reads moves request r on and changes nothing else.
Reads(r, next) ==
    /\ req' = [req EXCEPT ![r] = next]
    /\ UNCHANGED << accounts, sessions, issued, told >>

Goes(r, place) == Reads(r, [req[r] EXCEPT !.at = place])

\* A request that is refused, or rolled back, before its flush leaves nothing
\* behind.  One refused at first sight (no or no valid credential, no such
\* account, a wrong password, a registration against the policy) has no action.
Refused(r) == Reads(r, NoRequest)

\* An exception that no route handles ends it the same way, as an error 500.
Crashed(r) == Reads(r, [NoRequest EXCEPT !.at = "crashed"])

-----------------------------------------------------------------------------
(* Row locks: what a request has flushed and not committed.                *)

Flushed(r, kind) == req[r].at = "granted" /\ req[r].kind = kind

DeletePending(u) == \E r \in Requests : Flushed(r, "delete") /\ req[r].user = u

SessionLocked(s) ==
    \/ \E r \in Requests : /\ Flushed(r, "logout") \/ Flushed(r, "refresh")
                           /\ req[r].session = s
    \/ DeletePending(owner[s])

AccountLocked(u) ==
    \/ DeletePending(u)
    \/ \E r \in Requests : Flushed(r, "login") /\ req[r].user = u
    \/ \E s \in Sessions : owner[s] = u /\ SessionLocked(s)

-----------------------------------------------------------------------------
(* Arrival.  `late` notes that the credential was dead before the request  *)
(* came: its session or account is gone, revoked, or the token rotated.    *)

Dead(s) == row[s] = "gone" \/ revoked[s] \/ account[owner[s]] = "gone"

\* A request that carries the access token of session s, decoded.
ArriveAccess(r, kind, s) ==
    /\ req[r].at = "idle"
    /\ row[s] # "unused"
    /\ Reads(r, [NoRequest EXCEPT !.kind = kind, !.at = "session",
                                  !.session = s, !.user = owner[s],
                                  !.late = Dead(s)])

\* No session holds t, or will once a refresh in flight commits.
DeadToken(t) ==
    /\ \A s \in Sessions : token[s] = t => Dead(s)
    /\ \A x \in Requests : req[x].fresh # t

\* A refresh with the cookie that holds refresh token t.
ArriveRefresh(r, t) ==
    /\ req[r].at = "idle"
    /\ t \in 1 .. issued
    /\ Reads(r, [NoRequest EXCEPT !.kind = "refresh", !.at = "session",
                                  !.token = t, !.late = DeadToken(t)])

\* login has read account u and verified its password.
ArriveLogin(r, u) ==
    /\ req[r].at = "idle"
    /\ account[u] = "row"
    /\ Reads(r, [NoRequest EXCEPT !.at = "write", !.user = u])

-----------------------------------------------------------------------------
(* Registration: one INSERT, decided by the unique constraint.             *)

\* A constraint that does not see what other transactions have inserted.
NameFreeAmongCommitted(n) == \A u \in Users : account[u] = "row" => name[u] # n

NameFree(n) ==
    \A u \in Users : account[u] \in {"inserted", "row"} => name[u] # n

\* An INSERT of a taken name is refused, or waits for the transaction that
\* is about to decide on it.
RegisterFlush(r, u, n) ==
    /\ req[r].at = "idle"
    /\ account[u] = "unused"
    /\ NameFree(n)
    /\ account' = [account EXCEPT ![u] = "inserted"]
    /\ name' = [name EXCEPT ![u] = n]
    /\ req' = [req EXCEPT ![r] = [NoRequest EXCEPT !.kind = "register",
                                                   !.at = "granted", !.user = u]]
    /\ UNCHANGED << sessions, issued, told >>

-----------------------------------------------------------------------------
(* The checks of resolve_access_token and refresh.                         *)

\* A check that looks at the expiry alone.
UsableUnlessExpired(s) == IF expired[s] THEN "refused" ELSE "user"

\* What is_usable makes of the row just read: comparing a datetime without
\* offset with an aware one raises TypeError.
Usable(s) ==
    CASE revoked[s]                    -> "refused"
      [] ~revoked[s] /\ NaiveTimes     -> "crashed"
      [] ~revoked[s] /\ ~NaiveTimes    -> IF expired[s] THEN "refused" ELSE "user"

\* Session s is read.
Checks(r, s) ==
    \/ /\ Usable(s) = "user"
       /\ Reads(r, [req[r] EXCEPT !.at = "user", !.session = s, !.user = owner[s]])
    \/ Usable(s) = "refused" /\ Refused(r)
    \/ Usable(s) = "crashed" /\ Crashed(r)

\* resolve_access_token reads the session named by the token.
ReadSession(r) ==
    LET s == req[r].session IN
    /\ req[r].at = "session"
    /\ req[r].kind \in ByAccess
    /\ \/ row[s] = "row" /\ Checks(r, s)
       \/ row[s] # "row" /\ Refused(r)

\* refresh looks for the session that holds the presented token.
ReadByToken(r) ==
    /\ req[r].at = "session"
    /\ req[r].kind = "refresh"
    /\ \/ \E s \in Sessions :
            row[s] = "row" /\ token[s] = req[r].token /\ Checks(r, s)
       \/ /\ \A s \in Sessions : row[s] = "row" => token[s] # req[r].token
          /\ Refused(r)

\* Where a request goes that has found its session usable and its account.
Accepted(kind) ==
    CASE kind = "socket"  -> "granted"
      [] kind = "refresh" -> "write"
      [] OTHER            -> "again"

\* Both then read the account.
ReadUser(r) ==
    /\ req[r].at = "user"
    /\ \/ account[req[r].user] = "row" /\ Goes(r, Accepted(req[r].kind))
       \/ account[req[r].user] # "row" /\ Refused(r)

-----------------------------------------------------------------------------
(* What the routes do with the identity, up to their answer.               *)

\* GET /session reads the account once more.
SessionStatus(r) ==
    /\ req[r].at = "again"
    /\ req[r].kind = "session"
    /\ \/ account[req[r].user] = "row" /\ Goes(r, "granted")
       \/ account[req[r].user] # "row" /\ Refused(r)

\* logout reads the session once more; the identity map keeps its fields.
LogoutReads(r) ==
    /\ req[r].at = "again"
    /\ req[r].kind = "logout"
    /\ row[req[r].session] = "row"
    /\ Goes(r, "write")

\* An answer of 204: the session, or the account, is said to have ended.
Tells(r, what) ==
    /\ req' = [req EXCEPT ![r].at = "granted"]
    /\ told' = told \cup {what}
    /\ UNCHANGED << accounts, sessions, issued >>

\* The session is gone: logout has nothing to do.
LogoutFindsNone(r) ==
    /\ req[r].at = "again"
    /\ req[r].kind = "logout"
    /\ row[req[r].session] # "row"
    /\ Tells(r, req[r].session)

\* revoke.
LogoutFlush(r) ==
    /\ req[r].at = "write"
    /\ req[r].kind = "logout"
    /\ row[req[r].session] = "row"
    /\ ~SessionLocked(req[r].session)
    /\ Tells(r, req[r].session)

\* delete_account reads the account once more and verifies the password.
DeleteReads(r) ==
    /\ req[r].at = "again"
    /\ req[r].kind = "delete"
    /\ \/ account[req[r].user] = "row" /\ Goes(r, "write")
       \/ Refused(r)

\* revoke_all_for_user and delete; a DELETE that matches no row is no error.
DeleteFlush(r) ==
    /\ req[r].at = "write"
    /\ req[r].kind = "delete"
    /\ ~AccountLocked(req[r].user)
    /\ Tells(r, req[r].user)

\* The ORM refuses an UPDATE that matches no row (StaleDataError).
RowVanished(r) ==
    /\ req[r].at = "write"
    /\ req[r].kind \in {"logout", "refresh"}
    /\ row[req[r].session] # "row"
    /\ Crashed(r)

\* rotate_refresh_token.
RefreshFlush(r) ==
    /\ req[r].at = "write"
    /\ req[r].kind = "refresh"
    /\ row[req[r].session] = "row"
    /\ ~SessionLocked(req[r].session)
    /\ issued < MaxTokens
    /\ issued' = issued + 1
    /\ req' = [req EXCEPT ![r] = [@ EXCEPT !.at = "granted", !.fresh = issued + 1]]
    /\ UNCHANGED << accounts, sessions, told >>

\* An insert whose foreign key nobody checks.
ForeignKeyIgnored(u) == TRUE

\* The foreign key of a new session row: its account is still there, and no
\* transaction in flight removes it.
ForeignKeyHolds(u) == account[u] = "row" /\ ~DeletePending(u)

\* login opens the session.
LoginFlush(r, s) ==
    /\ req[r].at = "write"
    /\ req[r].kind = "login"
    /\ ForeignKeyHolds(req[r].user)
    /\ row[s] = "unused"
    /\ issued < MaxTokens
    /\ row' = [row EXCEPT ![s] = "inserted"]
    /\ owner' = [owner EXCEPT ![s] = req[r].user]
    /\ token' = [token EXCEPT ![s] = issued + 1]
    /\ issued' = issued + 1
    /\ req' = [req EXCEPT ![r] = [@ EXCEPT !.at = "granted", !.session = s]]
    /\ UNCHANGED << accounts, revoked, expired, told >>

\* The account was deleted meanwhile: nothing catches the IntegrityError.
LoginOrphaned(r) ==
    /\ req[r].at = "write"
    /\ req[r].kind = "login"
    /\ account[req[r].user] = "gone"
    /\ Crashed(r)

-----------------------------------------------------------------------------
(* The commit, when the client has its answer.                             *)

Releases(r) == req' = [req EXCEPT ![r] = NoRequest]

RegisterCommit(r) ==
    /\ Flushed(r, "register")
    /\ account' = [account EXCEPT ![req[r].user] = "row"]
    /\ Releases(r)
    /\ UNCHANGED << name, sessions, issued, told >>

LoginCommit(r) ==
    /\ Flushed(r, "login")
    /\ row' = [row EXCEPT ![req[r].session] = "row"]
    /\ Releases(r)
    /\ UNCHANGED << accounts, owner, token, revoked, expired, issued, told >>

LogoutCommit(r) ==
    /\ Flushed(r, "logout")
    /\ revoked' = [revoked EXCEPT ![req[r].session] = TRUE]
    /\ Releases(r)
    /\ UNCHANGED << accounts, row, owner, token, expired, issued, told >>

\* A rotation that writes back every field it read, revoked_at among them.
RotateWholeRow(s, t) ==
    /\ token' = [token EXCEPT ![s] = t]
    /\ expired' = [expired EXCEPT ![s] = FALSE]
    /\ revoked' = [revoked EXCEPT ![s] = FALSE]

\* The two fields that rotate_refresh_token assigns.
Rotate(s, t) ==
    /\ token' = [token EXCEPT ![s] = t]
    /\ expired' = [expired EXCEPT ![s] = FALSE]
    /\ UNCHANGED revoked

RefreshCommit(r) ==
    /\ Flushed(r, "refresh")
    /\ Rotate(req[r].session, req[r].fresh)
    /\ Releases(r)
    /\ UNCHANGED << accounts, row, owner, issued, told >>

\* The account's sessions are revoked, and go with it by cascade.
DeleteCommit(r) ==
    LET u    == req[r].user
        ends == {s \in Sessions : row[s] = "row" /\ owner[s] = u}
    IN
    /\ Flushed(r, "delete")
    /\ account' = [account EXCEPT ![u] = "gone"]
    /\ row' = [s \in Sessions |-> IF s \in ends THEN "gone" ELSE row[s]]
    /\ revoked' = [s \in Sessions |-> s \in ends \/ revoked[s]]
    /\ Releases(r)
    /\ UNCHANGED << name, owner, token, expired, issued, told >>

\* GET /session has nothing to commit.
SessionEnds(r) ==
    /\ Flushed(r, "session")
    /\ Reads(r, NoRequest)

\* Nor has auth.authenticate: what it resolved goes to the connection.
SocketEnds(r) ==
    /\ Flushed(r, "socket")
    /\ Reads(r, NoRequest)

\* The commit fails, or the process ends before it: the writes are lost, and
\* the client has been told otherwise.
CommitFails(r) ==
    LET q == req[r] IN
    /\ q.at = "granted"
    /\ q.kind \notin {"socket", "session"}
    /\ account' = IF q.kind = "register" THEN [account EXCEPT ![q.user] = "gone"]
                                         ELSE account
    /\ row' = IF q.kind = "login" THEN [row EXCEPT ![q.session] = "gone"] ELSE row
    /\ told' = told \ CASE q.kind = "delete" -> {q.user}
                        [] q.kind = "logout" -> {q.session}
                        [] OTHER             -> {}
    /\ Releases(r)
    /\ UNCHANGED << name, owner, token, revoked, expired, issued >>

-----------------------------------------------------------------------------
\* The refresh lifetime of a session runs out.
Expire(s) ==
    /\ row[s] = "row"
    /\ ~expired[s]
    /\ expired' = [expired EXCEPT ![s] = TRUE]
    /\ UNCHANGED << accounts, row, owner, token, revoked, issued, told, req >>

\* The error has been answered and the slot is free for another request.
Answered(r) ==
    /\ req[r].at = "crashed"
    /\ Reads(r, NoRequest)

\* A database failure, or the end of the process, rolls the request back.
Abort(r) ==
    /\ req[r].at \in {"session", "user", "again", "write"}
    /\ Refused(r)

Arrive(r) ==
    \/ \E kind \in ByAccess, s \in Sessions : ArriveAccess(r, kind, s)
    \/ \E t \in 1 .. MaxTokens : ArriveRefresh(r, t)
    \/ \E u \in Users : ArriveLogin(r, u)
    \/ \E u \in Users, n \in Names : RegisterFlush(r, u, n)

Check(r) == ReadSession(r) \/ ReadByToken(r) \/ ReadUser(r)

Act(r) ==
    \/ SessionStatus(r) \/ LogoutReads(r) \/ DeleteReads(r)
    \/ LogoutFindsNone(r) \/ LogoutFlush(r) \/ DeleteFlush(r)
    \/ RefreshFlush(r) \/ RowVanished(r) \/ LoginOrphaned(r)
    \/ \E s \in Sessions : LoginFlush(r, s)

Commit(r) ==
    \/ RegisterCommit(r) \/ LoginCommit(r) \/ LogoutCommit(r)
    \/ RefreshCommit(r) \/ DeleteCommit(r) \/ SessionEnds(r)
    \/ CommitFails(r)

\* Everything but the end of an auth.authenticate.
StoreNext ==
    \/ \E r \in Requests : \/ Arrive(r) \/ Check(r) \/ Act(r) \/ Commit(r)
                           \/ Abort(r) \/ Answered(r)
    \/ \E s \in Sessions : Expire(s)

Next == StoreNext \/ \E r \in Requests : SocketEnds(r)

Spec == Init /\ [][Next]_avars

-----------------------------------------------------------------------------
\* Type correctness of the tables and the requests.
TypeOK ==
    /\ account \in [Users -> Life]
    /\ name \in [Users -> Names \cup {Nil}]
    /\ row \in [Sessions -> Life]
    /\ owner \in [Sessions -> Users \cup {Nil}]
    /\ token \in [Sessions -> 0 .. MaxTokens]
    /\ revoked \in [Sessions -> BOOLEAN]
    /\ expired \in [Sessions -> BOOLEAN]
    /\ issued \in 0 .. MaxTokens
    /\ told \subseteq Sessions \cup Users
    /\ req \in [Requests -> Request]

\* Revocation is final: no request in flight brings back a session that was
\* revoked or removed, a refresh that read it before included (rotate writes
\* two fields, and an UPDATE of a missing row fails).
RevocationSticks ==
    [][\A s \in Sessions :
         /\ revoked[s] => revoked'[s]
         /\ row[s] = "gone" => row'[s] = "gone"]_avars

\* A request that arrives after its session was revoked, its account deleted
\* or its refresh token rotated is never granted, whatever runs beside it:
\* every use re-checks the stored session and the account.
DeadCredentialRefused ==
    \A r \in Requests : req[r].at = "granted" => ~req[r].late

\* No session outlives its account, and no name has two: login, registration
\* and deletion may overlap in any way, committed or not.
StoreConsistent ==
    /\ \A s \in Sessions : row[s] \in {"inserted", "row"} => account[owner[s]] = "row"
    /\ \A u, v \in Users : account[u] \in {"inserted", "row"}
                             /\ account[v] \in {"inserted", "row"}
                             /\ name[u] = name[v] => u = v
    /\ \A s, t \in Sessions : row[s] = "row" /\ row[t] = "row"
                                /\ token[s] = token[t] => s = t

\* A client that was told of the end of its session or account (204 on logout
\* and on deletion) can rely on it once the transaction is through: no session
\* of an account whose deletion was answered is left, nor usable the one that
\* was logged out, whatever logins and refreshes were under way.  In between
\* stands only the commit that get_db still owes.
AnswerTakesEffect ==
    /\ \A s \in Sessions \cap told :
         Dead(s) \/ \E r \in Requests : Flushed(r, "logout") /\ req[r].session = s
    /\ \A s \in Sessions :
         owner[s] \in told => row[s] = "gone" \/ DeletePending(owner[s])

\* service.py: a refresh token stops working immediately after a successful
\* refresh, so a refresh finds its session with the token it was given.
RefreshTokenUsedOnce ==
    [][\A r \in Requests :
         RefreshCommit(r) => token[req[r].session] = req[r].token]_avars

=============================================================================
