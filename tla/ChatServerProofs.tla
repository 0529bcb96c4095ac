--------------------------- MODULE ChatServerProofs ---------------------------
(* Theorems about ChatServer, for every value of its constants.            *)
EXTENDS ChatServer, AuthSessionsProofs

\* Connections are bound to accounts that were registered, and mail waits for
\* such accounts under the name they had when it was sent.
LinkInv ==
    /\ link \in [Conns -> Users \cup {Nil}]
    /\ \A c \in Conns : link[c] # Nil => account[link[c]] \in {"row", "gone"}

MailInv ==
    /\ mail \in [Identifier -> SUBSET Users]
    /\ \A to \in Identifier : \A u \in mail[to] :
         account[u] \in {"row", "gone"} /\ StoredUsername(u) = to

ChatInv == AuthInv /\ typed \in [Users -> AllForms] /\ LinkInv /\ MailInv

\* An account that was registered keeps its name, even when it is deleted.
NamesStay ==
    \A u \in Users : account[u] \in {"row", "gone"} =>
        name'[u] = name[u] /\ account'[u] \in {"row", "gone"}

-----------------------------------------------------------------------------
\* What the composition does to the accounts and sessions is a behaviour of
\* AuthSessions: the connections only take what auth.authenticate resolved.
THEOREM ChatImplementsAuth == ChatSpec => Spec
<1>1. ChatInit => Init
  BY DEF ChatInit
<1>2. [ChatNext]_<< avars, cvars >> => [Next]_avars
  BY DEF ChatNext, StoreStep, Next, Bind, Send, Unlink
<1> QED BY <1>1, <1>2, PTL DEF ChatSpec, Spec

LEMMA NextKeepsNames == AuthInv /\ [Next]_avars => NamesStay
<1> SUFFICES ASSUME AuthInv, [Next]_avars PROVE NamesStay
  OBVIOUS
<1>1. ASSUME NEW r \in Requests, NEW z \in Users, NEW n \in Names, RegisterFlush(r, z, n)
      PROVE  \A u \in Users : account[u] \in {"row", "gone"} => name'[u] = name[u]
  BY <1>1 DEF RegisterFlush, AuthInv, TypeOK
<1>2. \/ UNCHANGED name
      \/ \E r \in Requests, z \in Users, n \in Names : RegisterFlush(r, z, n)
  <2>1. ASSUME NEW r \in Requests, Arrive(r)
        PROVE  UNCHANGED name \/ \E z \in Users, n \in Names : RegisterFlush(r, z, n)
    BY <2>1 DEF Arrive, ArriveAccess, ArriveRefresh, ArriveLogin, Reads, accounts
  <2>2. ASSUME NEW r \in Requests, Check(r) PROVE UNCHANGED name
    BY <2>2 DEF Check, ReadSession, ReadByToken, ReadUser, Checks,
                Goes, Refused, Crashed, Reads, accounts
  <2>3. ASSUME NEW r \in Requests, Act(r) PROVE UNCHANGED name
    BY <2>3 DEF Act, SessionStatus, LogoutReads, LogoutFindsNone, LogoutFlush,
                DeleteReads, DeleteFlush, RefreshFlush, RowVanished, LoginOrphaned,
                LoginFlush, Tells, Goes, Refused, Crashed, Reads, accounts
  <2>4. ASSUME NEW r \in Requests, Commit(r) PROVE UNCHANGED name
    BY <2>4 DEF Commit, RegisterCommit, LoginCommit, LogoutCommit, RefreshCommit,
                DeleteCommit, SessionEnds, CommitFails, Reads, accounts
  <2>5. ASSUME NEW r \in Requests, Abort(r) \/ Answered(r) \/ SocketEnds(r)
        PROVE  UNCHANGED name
    BY <2>5 DEF Abort, Answered, SocketEnds, Refused, Reads, accounts
  <2>6. ASSUME NEW s \in Sessions, Expire(s) PROVE UNCHANGED name
    BY <2>6 DEF Expire, accounts
  <2>7. UNCHANGED avars => UNCHANGED name
    BY DEF avars, accounts
  <2> QED BY <2>1, <2>2, <2>3, <2>4, <2>5, <2>6, <2>7 DEF Next, StoreNext
<1>3. \A u \in Users : account[u] \in {"row", "gone"} => account'[u] \in {"row", "gone"}
  BY NextAuth DEF Grows, avars, accounts
<1> QED BY <1>1, <1>2, <1>3 DEF NamesStay

\* Connections and mail that a step leaves alone stay well attributed.
LEMMA NamesKeepRouting ==
    ASSUME ChatInv, NamesStay, UNCHANGED typed
    PROVE  /\ UNCHANGED link => LinkInv'
           /\ \A u \in Users : account[u] \in {"row", "gone"} =>
                StoredUsername(u)' = StoredUsername(u)
           /\ UNCHANGED mail => MailInv'
<1>1. \A u \in Users : account[u] \in {"row", "gone"} =>
        StoredUsername(u)' = StoredUsername(u)
  BY DEF NamesStay, StoredUsername, Strip
<1>2. UNCHANGED link => LinkInv'
  BY DEF ChatInv, LinkInv, NamesStay
<1>3. UNCHANGED mail => MailInv'
  BY <1>1 DEF ChatInv, MailInv, NamesStay
<1> QED BY <1>1, <1>2, <1>3

LEMMA InitChat == ChatInit => ChatInv
<1> SUFFICES ASSUME ChatInit PROVE ChatInv
  OBVIOUS
<1>1. AuthInv
  BY InitAuth DEF ChatInit
<1>2. typed \in [Users -> AllForms]
  BY ChatAssumption DEF ChatInit
<1>3. LinkInv /\ MailInv
  BY DEF ChatInit, LinkInv, MailInv
<1> QED BY <1>1, <1>2, <1>3 DEF ChatInv

LEMMA NextChat == ChatInv /\ [ChatNext]_<< avars, cvars >> => ChatInv'
<1> SUFFICES ASSUME ChatInv, [ChatNext]_<< avars, cvars >> PROVE ChatInv'
  OBVIOUS
<1>1. [Next]_avars
  BY DEF ChatNext, StoreStep, Next, Bind, Send, Unlink
<1>2. AuthInv' /\ NamesStay
  BY <1>1, NextAuth, NextKeepsNames DEF ChatInv
<1>3. UNCHANGED typed
  BY DEF ChatNext, StoreStep, Bind, Send, Unlink, cvars
<1>4. typed' \in [Users -> AllForms]
  BY <1>3 DEF ChatInv
<1>5. ASSUME UNCHANGED cvars PROVE LinkInv' /\ MailInv'
  BY <1>2, <1>3, <1>5, NamesKeepRouting DEF cvars
<1>6. ASSUME NEW r \in Requests, NEW c \in Conns, Bind(r, c)
      PROVE  LinkInv' /\ MailInv'
  <2> DEFINE v == req[r].user
  <2>1. v \in Users /\ account[v] \in {"row", "gone"}
    BY <1>6 DEF ChatInv, AuthInv, RequestsInv, Filled, Bind, SocketEnds, Flushed
  <2>2. LinkInv'
    BY <1>2, <1>6, <2>1 DEF ChatInv, LinkInv, NamesStay, Bind
  <2>3. /\ mail' \in [Identifier -> SUBSET Users]
        /\ \A to \in Identifier : mail'[to] \subseteq mail[to]
    BY <1>6 DEF ChatInv, MailInv, Bind, Drained
  <2>4. MailInv'
    BY <1>2, <1>3, <2>3, NamesKeepRouting DEF ChatInv, MailInv, NamesStay
  <2> QED BY <2>2, <2>4
<1>7. ASSUME NEW to \in Identifier, Send(to) PROVE LinkInv' /\ MailInv'
  <2>1. mail' = [mail EXCEPT ![to] = @ \cup Meant(to)] /\ UNCHANGED link
    BY <1>7 DEF Send
  <2>2. Meant(to) \subseteq Users
    BY DEF Meant
  <2>3. mail' \in [Identifier -> SUBSET Users]
    BY <2>1, <2>2 DEF ChatInv, MailInv
  <2>4. \A x \in Identifier : \A u \in mail'[x] :
          account[u] \in {"row", "gone"} /\ StoredUsername(u) = x /\ u \in Users
    BY <2>1, <2>2 DEF ChatInv, MailInv, Meant
  <2>5. MailInv'
    BY <1>2, <1>3, <2>3, <2>4, NamesKeepRouting DEF MailInv, NamesStay
  <2> QED BY <1>2, <1>3, <2>1, <2>5, NamesKeepRouting
<1>8. ASSUME NEW c \in Conns, Unlink(c) PROVE LinkInv' /\ MailInv'
  <2>1. link' = [link EXCEPT ![c] = Nil] /\ UNCHANGED mail
    BY <1>8 DEF Unlink
  <2>2. LinkInv'
    BY <1>2, <2>1 DEF ChatInv, LinkInv, NamesStay
  <2> QED BY <1>2, <1>3, <2>1, <2>2, NamesKeepRouting
<1>9. LinkInv' /\ MailInv'
  BY <1>5, <1>6, <1>7, <1>8 DEF ChatNext, StoreStep
<1> QED BY <1>2, <1>4, <1>9 DEF ChatInv

LEMMA ChatInvariant == ChatSpec => []ChatInv
<1> QED BY InitChat, NextChat, PTL DEF ChatSpec

-----------------------------------------------------------------------------
\* Accounts that share a routing name share the normalized one, which the
\* store keeps unique among the accounts that exist.
LEMMA OneNameOneAccount ==
    ASSUME ChatInv, NEW u \in Users, NEW v \in Users,
           account[u] \in {"row", "gone"}, account[v] \in {"row", "gone"},
           StoredUsername(u) = StoredUsername(v)
    PROVE  u = v \/ account[u] = "gone" \/ account[v] = "gone"
<1>1. StoredUsername(u).name = name[u] /\ StoredUsername(v).name = name[v]
  BY DEF StoredUsername, Strip
<1> QED BY <1>1 DEF ChatInv, AuthInv, TablesInv, NamesDistinct

\* Type correctness of accounts, sessions, connections and mail together.
THEOREM ChatTypeTheorem == ChatSpec => []ChatTypeOK
<1>1. ChatInv => ChatTypeOK
  BY DEF ChatInv, AuthInv, LinkInv, MailInv, ChatTypeOK
<1> QED BY <1>1, ChatInvariant, PTL

\* Connections that are routed by one name are of one account, unless an
\* account was deleted under an open connection and its name taken again
\* (bind_identity, connections_for, the unique normalized username).
THEOREM SharedNameTheorem == ChatSpec => []SharedNameNeedsDeletion
<1>1. ChatInv => SharedNameNeedsDeletion
  BY OneNameOneAccount DEF ChatInv, LinkInv, SharedNameNeedsDeletion
<1> QED BY <1>1, ChatInvariant, PTL

\* A message reaches an account it was not meant for, live or from the mail
\* handed over at authentication, only after one of the two was deleted.
THEOREM StrayTheorem == ChatSpec => []StrayNeedsDeletion
<1>1. ASSUME ChatInv, NEW c \in Conns, link[c] # Nil,
             NEW u \in Meant(StoredUsername(link[c])), u # link[c]
      PROVE  account[link[c]] = "gone"
  BY <1>1, OneNameOneAccount DEF ChatInv, LinkInv, Meant
<1>2. ASSUME ChatInv, NEW r \in Requests, Flushed(r, "socket"),
             NEW u \in Waiting(req[r].user), u # req[r].user
      PROVE  account[u] = "gone" \/ account[req[r].user] = "gone"
  <2>1. req[r].user \in Users /\ account[req[r].user] \in {"row", "gone"}
    BY <1>2 DEF ChatInv, AuthInv, RequestsInv, Filled, Flushed
  <2>2. /\ u \in Users /\ account[u] \in {"row", "gone"}
        /\ StoredUsername(u) = StoredUsername(req[r].user)
    BY <1>2 DEF ChatInv, MailInv, Waiting
  <2> QED BY <1>2, <2>1, <2>2, OneNameOneAccount
<1>3. ChatInv => StrayNeedsDeletion
  BY <1>1, <1>2 DEF StrayNeedsDeletion
<1> QED BY <1>3, ChatInvariant, PTL

=============================================================================
