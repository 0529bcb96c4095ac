----------------------------- MODULE ChatServer -----------------------------
(***************************************************************************)
(* Accounts, sessions and connections together.  A connection is bound by  *)
(* an auth.authenticate, which runs resolve_access_token of AuthSessions   *)
(* and then takes the identity it returned, in a step of its own: leaving  *)
(* the `async with factory()` awaits once more.  From then on the endpoint *)
(* never asks the store again, and routes by the username as it was typed  *)
(* at registration.  Queues and writers are abstracted; Transport has them.*)
(***************************************************************************)
EXTENDS AuthSessions

CONSTANTS
    Conns,  \* connections
    Forms   \* ways to type a name that the registrations use

\* A name can be typed in its normalized form, in another case or width
\* ("varied"), or with blanks around it ("padded").
AllForms == {"plain", "varied", "padded"}

ASSUME ChatAssumption == Forms \subseteq AllForms

VARIABLES
    typed,     \* how each account's name is typed when it registers
    link,      \* the account a connection is bound to, or Nil
    mail       \* the offline queue: by recipient, whom a waiting message is
               \* meant for, the account of that name when it was sent

cvars == << typed, link, mail >>

-----------------------------------------------------------------------------
(* Usernames.                                                              *)

\* username.strip(): what register stores, beside the normalized form.
Strip(u) == IF u.form = "padded" THEN [u EXCEPT !.form = "plain"] ELSE u

\* IDENTIFIER_PATTERN: what a message may name as its recipient or sender.
Identifier == [name: Names, form: {"plain"}]

\* User.username, and account_username of a connection bound to it.
StoredUsername(u) == Strip([name |-> name[u], form |-> typed[u]])

\* connections_for.
ConnectionsFor(to) == {c \in Conns : link[c] # Nil /\ StoredUsername(link[c]) = to}

\* The account a sender means by an identifier: the one that has this name.
Meant(to) == {u \in Users : account[u] = "row" /\ StoredUsername(u) = to}

-----------------------------------------------------------------------------
ChatInit ==
    /\ Init
    /\ typed \in [Users -> Forms]
    /\ link = [c \in Conns |-> Nil]
    /\ mail = [to \in Identifier |-> {}]

\* A step of the HTTP routes, or of an auth.authenticate before it binds.
StoreStep == StoreNext /\ UNCHANGED cvars

\* The accounts whose mail a connection of account v is handed when it binds.
\* A username that no message can name has none.
Waiting(v) ==
    IF StoredUsername(v) \in Identifier THEN mail[StoredUsername(v)] ELSE {}

\* A drain that forgets the recipient with its mail.
DrainedForGood(to) == [x \in DOMAIN mail \ {to} |-> mail[x]]

\* drain.
Drained(to) == [x \in DOMAIN mail |-> IF x = to THEN {} ELSE mail[x]]

\* bind_identity and drain, with no await in between.
Bind(r, c) ==
    LET v == req[r].user IN
    /\ SocketEnds(r)
    /\ link[c] = Nil
    /\ link' = [link EXCEPT ![c] = v]
    /\ mail' = Drained(StoredUsername(v))
    /\ UNCHANGED typed

\* message.send to a recipient without a connection; a message that finds one
\* is handed over and leaves no trace here.  The sender is an authenticated
\* connection of an account that the instance need not contain.
Send(to) ==
    /\ ConnectionsFor(to) = {}
    /\ mail' = [mail EXCEPT ![to] = @ \cup Meant(to)]
    /\ UNCHANGED << avars, typed, link >>

\* The connection ends and is unregistered.
Unlink(c) ==
    /\ link[c] # Nil
    /\ link' = [link EXCEPT ![c] = Nil]
    /\ UNCHANGED << avars, typed, mail >>

ChatNext ==
    \/ StoreStep
    \/ \E r \in Requests, c \in Conns : Bind(r, c)
    \/ \E to \in Identifier : Send(to)
    \/ \E c \in Conns : Unlink(c)

ChatSpec == ChatInit /\ [][ChatNext]_<< avars, cvars >>

-----------------------------------------------------------------------------
\* Type correctness of the connections and the mail.
ChatTypeOK ==
    /\ TypeOK
    /\ typed \in [Users -> AllForms]
    /\ link \in [Conns -> Users \cup {Nil}]
    /\ mail \in [Identifier -> SUBSET Users]

\* Two connections that share a routing name, and so get each other's
\* messages and mail, are of one account, unless an account was deleted and
\* its name registered again while its connections stayed open: the store is
\* unique in the normalized form, and routing uses the typed one.
SharedNameNeedsDeletion ==
    \A c, d \in Conns :
        link[c] # Nil /\ link[d] # Nil /\ StoredUsername(link[c]) = StoredUsername(link[d])
          => \/ link[c] = link[d]
             \/ account[link[c]] = "gone"
             \/ account[link[d]] = "gone"

\* A message can reach an account it was not meant for only when one of the
\* two has been deleted: at an open connection, which outlives its account,
\* or in the mail of a name, which is not emptied with the account (discard
\* has no caller) and goes to the next who binds under it.
StrayNeedsDeletion ==
    /\ \A c \in Conns : link[c] # Nil =>
         \A u \in Meant(StoredUsername(link[c])) \ {link[c]} : account[link[c]] = "gone"
    /\ \A r \in Requests : Flushed(r, "socket") =>
         \A u \in Waiting(req[r].user) \ {req[r].user} :
            account[u] = "gone" \/ account[req[r].user] = "gone"

\* schemas.py: an authenticated username is always a valid routing identifier.
UsernameRoutable ==
    \A c \in Conns : link[c] # Nil => StoredUsername(link[c]) \in Identifier

=============================================================================
