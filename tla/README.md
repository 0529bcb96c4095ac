# TLA+ models of Encrypt-Chat-App

The repository is a FastAPI server that authenticates accounts over HTTP and
routes messages between them over WebSockets, with a small React panel to
exercise the transport. This directory models the WebSocket transport with its
offline queue, the checks on inbound frames, the clocks of a connection, the
login throttle, accounts and sessions, the two sides together, how limits are
read from the environment, and the life of the panel's socket. TLC checks the
models on small instances; TLAPS proves every invariant and every action
property of the passing runs, and that the transport implements its abstract
specification, for every value of the constants. What stays with TLC alone is
liveness.

## 1. Inventory

| Component | State | Operations | What makes it correct |
|---|---|---|---|
| WebSocket endpoint (`websocket/endpoint.py`) | per connection: where the handler and the writer task stand | upgrade, receive loop, `auth.authenticate`, `message.send`, ping, `queue.status`, writer loop, the `finally` clause | every acknowledged message is accounted for, in order, to the addressee only; every handler ends, and unregisters |
| Connection manager (`websocket/manager.py`) | `_connections`, `_by_client`, per connection a bounded outbound queue and the identity | `register`, `bind_identity`, `unregister`, `deliver_to_client`, `enqueue_outbound`, `mark_closing` | the two dictionaries agree while identities change; limits hold |
| Offline queue (`websocket/queue.py`) | `_queues` | `enqueue`, `drain`, `count` | FIFO, bounded twice, each message handed over once |
| Message types, schemas (`websocket/protocol.py`, `schemas.py`) | none | validation of a frame | the gate comes before the schema, every valid type is dispatched |
| Limits, rate limiter (`websocket/limits.py`) | window start, count | reading the limits, `allow` | every limit is positive; bounded rate, no refusal to a client within it |
| Authentication (`auth/service.py`, `repository.py`, `models.py`, `routes.py`, `dependencies.py`) | tables `users`, `auth_sessions` | register, login, resolve, refresh, logout, delete | revocation is final, dead credentials are refused, an answer takes effect, no session without account |
| Failed-login tracker (`auth/rate_limit.py`) | failures per identifier | `is_blocked`, `record_failure`, `reset` | guesses are bounded, a block ends by itself, asking leaves no entry |
| Username rules (`auth/identifiers.py`) | none | `strip`, NFKC and casefold, the routing pattern | one routing name, one account |
| Auth configuration (`auth/config.py`) | none | reading the settings | no setting below its minimum |
| Development client (`client/src/transport`) | one socket reference, a status, a log | connect, disconnect, the socket's events | the panel can close every socket it opened |
| Tokens, passwords, auth schemas and errors | none | cryptography, parsing | abstracted where used, or not modelled |
| Application factory, HTTP limiter (`main.py`) | none of its own | wiring | not modelled |

**Interaction.** A connection's handler calls the manager and the queue
directly; handlers meet in the registry, in the offline queue and in each
other's outbound queue. The handler hands frames to its writer through the
outbound queue, and waits for it with `join()` when closing. The endpoint
calls `resolve_access_token`, which reads the tables the HTTP routes write, and
never asks again while the connection lives.

**What is hard.** Two tasks per connection on one event loop: code between two
awaits is atomic, everything else interleaves. An identity that changes while
the connection is registered. The hand-over from offline queue to live
delivery. Bounded queues that overflow in the middle of a list. Peers that
stop reading, and payloads the writer cannot encode. Requests that read rows, wait, and write them after somebody
else has; answers that precede their commit, and commits that fail. Accounts
that end while their connections stay. Events of a socket that arrive when the
panel has moved on. The list at each line is `hazards` in `PROJECT.json`.

## 2. Modules

| Module | Models |
|---|---|
| `OfflineQueue` | the queue, as operators on its one field |
| `Transport` | endpoint, manager and queue composed: the core of the project |
| `Messaging` | the abstract mailbox that `Transport` implements |
| `MCTransport` | instances of `Transport`: symmetry and the hand-over scenario |
| `TransportProofs` | theorems about `Transport`: types, registry, hand-over |
| `DeliveryProofs` | theorems about `Transport`: bounds, losses, refusals, who gets what in which order, and the refinement of `Messaging` |
| `Settings` | a limit as it is read from the environment, as operators |
| `SettingsProofs` | why the limits of the other modules are positive |
| `Inbound` | the checks and the dispatch of one frame, as operators |
| `ReceiveLoop` | the receive loop over time: timeout, size, rate limiter, `Inbound`, `Settings` |
| `ReceiveLoopProofs` | theorems about `ReceiveLoop` |
| `LoginThrottle`, `MCLoginThrottle` | the failure window and overlapping logins |
| `LoginThrottleProofs` | theorems about `LoginThrottle` |
| `AuthSessions` | accounts, sessions, and requests as overlapping transactions |
| `AuthSessionsProofs` | theorems about `AuthSessions` |
| `ChatServer` | `AuthSessions` with the connections bound by it, usernames and the mail of a name |
| `MCChatServer` | its instances |
| `ChatServerProofs` | the composition implements `AuthSessions`; theorems about `ChatServer` |
| `Panel` | the socket, reference and status of the development panel |
| `PanelProofs` | theorems about `Panel` |

Operators such as `DrainKeeps` or `RotateWholeRow`, each with a comment "A
drain that ...", are wrong variants of the definition below them. They are not
used by the specifications; they show that a property can fail.

### Transport

An action is the code from one await to the next. A handler waits in
`accept()` (`accepting`), in `receive_text()` (`open`), in
`resolve_access_token()` (`resolving`) and in the final `join()` (`closing`);
a writer waits in `get()` and in `send_json()`. A handler ends in `done`, or in
an exception: `AcceptRaises` is raised outside the `try` (`failed`), and that of
a writer inside the `finally` clause (`raised`). Neither is unregistered.

* A connection stands for its `connection_id` and for its throwaway
  `anon-<hex>` identifier. The latter is never told to a client, so `Names`,
  what a client may address, and `Conns` are disjoint.
* Frames are numbers: a receipt is the index of its message in the history
  `sent`, `auth.ready` is -1, and every other frame is `Control`. All a
  property distinguishes is kept.
* `Respond` is the loop that ends an iteration of `_receive_loop`: responses
  are queued until one does not fit, then the handler leaves.
* `SendMismatch`, `SendConnected` and `SendOffline` are the three outcomes of
  `_handle_message_send` and `_route_message`. A message to one's own account
  goes through the same outbound queue as its acknowledgement.
* `resolve_access_token` is a choice here: an account, an `AuthError`, or
  another exception, which ends the handler. `ChatServer` models the call.
* `unfinished` is the count of `asyncio.Queue`. `send_json` has two ways to
  fail. `WriterFails` is a `WebSocketDisconnect` or `RuntimeError`: the code
  calls `task_done` twice, the second call at zero raises `ValueError`, which
  is suppressed, and the writer returns (`dead`). `WriterBreaks` is an exception
  the code does not catch: one `task_done`, and the writer ends with the
  exception (`broken`).
* That exception is `UnicodeEncodeError`. `payload` is `dict[str, Any]`
  (`schemas.py:53`), JSON can spell a lone surrogate, and nothing before
  `send_json` minds it. `encodable` says of a message whether its payload has an
  encoding; all other fields of a frame, and all other frames, have one. A
  rejected message has no receipt, so that its payload does not matter.
* `Teardown` is everything after the flush: cancel and await the writer,
  unregister, close. `Release` is the part that depends on the writer:
  `suppress(CancelledError)` lets pass what a `broken` writer ended with, and
  `unregister` and `close` are skipped. A cancelled `send_json` may or may not
  have put its frame on the wire. `Stranded` is a connection left that way.
* `received`, `dropped` and `sent` are history variables.

Other exceptions of `send_json` do not occur: Starlette turns the transport's
`OSError` into `WebSocketDisconnect`, and a payload nested too deeply raises
`RecursionError`, a `RuntimeError`. Cancellation of a handler at server
shutdown is not modelled; all this state is lost then anyway.

### Messaging

Posting gives a message its verdict and its number; a queued message waits
until a link of the recipient opens and takes over all that waits, keeping the
first of it; what a link took is written or lost. Its state are sets of
numbers: the order of the posts is the only order there is, and `Precede` says
which steps respect it. A link writes no number below one it has written and
loses none while it keeps a lower one. `ImplementsMessaging` substitutes
connections for links, the receipts of an offline queue for what waits, and
those of writer and outbound queue for what a link took.

### Settings

`IntEnv` and `FloatEnv` are `_int_env` and `_float_env`. A raw setting is
unset, blank, no number, `inf`, a whole number or a fraction. `Numbers` are the
numbers somebody may write, `Infinite` a number of ticks that never passes.
`ReceiveLoop` and `LoginThrottle` start with the limits of any environment.

### Inbound, ReceiveLoop, LoginThrottle

`Inbound` reduces a frame to what the checks look at. `ReceiveLoop` has one
connection that receives all of them, and a discrete clock; a `wait_for`
expires at its timeout, and a frame at that very moment may still win. `heard`
is the history of when the peer last spoke; it differs from `waitFrom`, from
which the code counts, after time spent in the session store. `admitted` is the
history of the frames the limiter let through, as a sequence of moments: a
property counts the positions of it that lie in a stretch of time, and a proof
reasons about which positions lie how far apart.

`LoginThrottle` has attempts that await the database between `is_blocked` and
`record_failure`. `failures` is a partial function, like the dictionary: its
domain are the identifiers with an entry, and its values the deques, sequences
of moments whose expired front goes (`ExpiredFront`). `wrong` is the history of
wrong guesses that the tracker should remember the end of.

### AuthSessions

A request reads what is committed, one step for each read, and keeps it: the
identity map of the ORM makes `logout` see the fields of its first read. Then
it flushes its writes under row locks, which decides it and answers it
(`granted`); the commit follows in a step of its own. This is the order of the
code: `get_db` commits behind its `yield`, and the pinned FastAPI
(`server/requirements.txt:60`) resumes such a dependency after the response has been
sent. `CommitFails` is a failing commit and also the end of the process before
it. An `UPDATE` that matches no row raises `StaleDataError`; a `DELETE` does
not. `told` remembers what was answered with 204, less what a failing commit
took back.

What `granted` requests have flushed shows as row locks (`SessionLocked`,
`AccountLocked`, `ForeignKeyHolds`): another transaction that writes the row
waits. An `inserted` row is unique already and visible to nobody.

`NaiveTimes = FALSE` is a database that keeps the offset of a datetime and
enforces foreign keys, such as the PostgreSQL the repository's README names,
for which `server/requirements.txt` lists no driver.
`NaiveTimes = TRUE` is SQLite, the default of `db.py`, where `is_usable`
raises `TypeError` on every session that is not revoked; no request gets far
enough there for the missing foreign keys to matter.

A restart needs no action: it aborts what is before its commit, and the
tables, all the state that survives, are those of the commits.

Left out: disabled accounts (no code disables one), the expiry of access
tokens (a fixed lifetime, checked before the session), rehashing.

### ChatServer

`StoreStep` is a step of `AuthSessions`, `Bind` the end of an
`auth.authenticate`, `Send` a message to a name without a connection, `Unlink`
the end of a connection, which one that `Transport` calls stranded never
reaches. Binding is apart from the last read since leaving the
`async with` of the database session awaits: a logout or a deletion may
come between. `typed` is the form in which a name was typed; `Strip` and
`Identifier` are what registration and the message schema make of it. `mail`
keeps, for each message that waits, the account it was meant for. The queue
itself, the frames and the limits are `Transport`'s.

### Panel

`ready` is the `readyState` of every socket the panel opened. Its events come
when the browser delivers them; the two handlers do not look at which socket
they are called for. The buttons are enabled by what the panel shows.
`hurried` is the history of the one pattern that goes wrong. Whether the server
answers is not part of it: the panel sends no `auth.authenticate`, so that its
messages are refused with `AUTH_REQUIRED`.

## 3. Runs

Passing:

| Run | Instance | Shows |
|---|---|---|
| `transport` | 2 connections, 2 accounts and a name nobody owns, 2 sends, outbound 2, offline 1 x 1 | `TypeOK`, `RegistryConsistent`, `NoMailWhileConnected`, `OnlyAddressee`, `InOrder`, `Accounted`, `Bounded`, `LossNeedsCause`, `UnavailableNeedsCause` |
| `hand_over` | 3 connections, 3 sends of which the second may have no encoding, outbound 3, offline 2; one sender that stays, a recipient that comes and goes | `NoMailWhileConnected`, `InOrder`, `Accounted`, `LossNeedsCause` and the refinement `ImplementsMessaging`, with queues long enough to be split or reordered |
| `closing` | 2 connections for 1 slot, fairness | `Bounded` at the limit, `ClosingEnds` |
| `receive_loop` | window and quota of 2, timeouts of 2 and 3, 6 moments after the connection opens, 3 frames per moment, all kinds of frames, all environments over the number 0 | `SlidingBound`, `DispatchIsSound`, `SilenceIsDeserved`, `RefusalIsDeserved`, `GateHidesSchema` |
| `login_throttle` | 2 overlapping attempts at 2 identifiers, 2 failures, window of 2, 4 moments, all environments over 0 and 1 | `RefusalIsEarned`, `GuessesBounded`, `MemoryEarned` |
| `chat_server` | 2 requests, 2 accounts and names, 2 sessions, 2 refresh tokens, 2 connections | `ChatTypeOK`, `DeadCredentialRefused`, `StoreConsistent`, `AnswerTakesEffect`, `SharedNameNeedsDeletion`, `StrayNeedsDeletion`, `RevocationSticks` |
| `panel` | 3 sockets | `OrphanNeedsHurry`, `StatusNeedsHurry`, `ConnectAvailable` |

Violations, each of a sentence of the documentation (quoted under `findings`):

| Run | The code |
|---|---|
| `per_identity_limit` | checks the per-identity limit before there is an identity |
| `unregistered_when_ended` | leaves a connection registered when `accept()` raises |
| `connected_means_live` | leaves a connection registered when its writer ended in an exception, and takes its account for connected |
| `refresh_token_used_once` | lets two overlapping refreshes exchange one token |
| `username_routable` | routes by a username that no message can name, when it was typed in another width |

**Bounds.** The races of the transport are between two connections, or between
two of the recipient and one of the sender; limits of 1 and 2 make every queue
reach its limit, and `MaxSends` is one more than the offline queue takes.
`hand_over` restricts the behaviours with a constraint (one sender, at most one
connection of the recipient not yet closing, one unsent control frame at a
time, no connection that closes unauthenticated, only the second message
without an encoding, which has one before and one behind it) to afford longer
queues.
Requests race in pairs, each in every kind; two refresh tokens allow a login
and a rotation, or two logins. `chat_server` types every name plainly, and
`username_routable` in all forms: the store knows only the normalized one, and
the theorems about shared names and stray messages cover all forms.
`receive_loop` lets the two silence timeouts and the window run out in turn,
and `Numbers` holds what a setting refuses, 0, beside the defaults; 1 in
`login_throttle` is the smallest limit that is taken. Three sockets let a late
event of the first meet the second while the third is opened.

**Deadlock** is not checked where the system may stop: connections and sockets
are not reused in the models, ids and tokens run out, and bounds on time and
sends end a behaviour. `login_throttle` checks it.

**Fairness.** Only `closing` uses any: weak fairness of the end of `accept()`,
of the end of `resolve_access_token()` and of the flush. These are waits the
server bounds itself (`wait_for` with `_FLUSH_TIMEOUT_SECONDS`) or that end
with an exception. Nothing is assumed of peers: a writer may stay inside
`send_json` for ever and a client may never send. That a login block ends by
itself needs no scheduler: `RefusalIsEarned` says that it ends as soon as its
failures have left the window.

**Consequences worth knowing.** Transport:

* `LossNeedsCause` names the one loss that needs no failure of the peer:
  `drain` empties the offline queue before its messages are put in the outbound
  queue one by one, and when that is full the rest is lost with the connection,
  although WEBSOCKET_PROTOCOL.md says queued messages are delivered exactly
  once. With the default limits (50 queued, 100 pending) it takes some fifty
  unsent responses.
* `UnavailableNeedsCause` allows a cause that WEBSOCKET_PROTOCOL.md:237 does
  not list: a recipient whose only connection is being flushed is neither
  queued for nor delivered to, with both queues free.
* One message whose payload has no encoding ends the recipient's writer, and
  with it the handler before it has unregistered (`endpoint.py:487`). The entry
  stays in the registry with the slot it takes. While its account has no other
  connection, a message to it is answered `recipient_unavailable` and none is
  queued, since the account counts as connected. `UnavailableNeedsCause` and
  `ClosingEnds` name that exception (`Stranded`), `LossNeedsCause` what is
  lost: the receipt itself, and at the end of the flush the frames behind it.
  Such a message waits in the offline queue as well, for the next connection
  of its recipient.
* `NoMailWhileConnected` means that `queue.status`, which only an
  authenticated connection may send, always answers 0.
* The deadline for authentication begins again with every frame, refused ones
  included, where `endpoint.py:9-11` reads like one deadline: `SilenceIsDeserved`
  says what holds.
* `SlidingBound` is tight: twice the quota does pass within one window length.
* `_float_env` accepts `inf`: a timeout that never expires, or a quota that is
  never renewed.

Accounts:

* On SQLite, the default of `db.py:30`, `is_usable` (`models.py:105`) compares
  a datetime without offset with one that has one: no access or refresh token
  of a live session is ever accepted there. What the runs and theorems say of
  granted requests and bound connections therefore speaks of a database like
  PostgreSQL.
* `AnswerTakesEffect` has a window between the answer and the commit in which
  a revoked session is still accepted, although README.md:334-335 says "a
  revoked or expired token is rejected on every subsequent use"; a commit that
  fails in it leaves the session alive for good, and the client told otherwise.
* Connections are not closed by logout, deletion or expiry (README.md:363-366
  names that limitation). `SharedNameNeedsDeletion` and `StrayNeedsDeletion` state what
  follows: once an account is deleted, a connection it left open and the mail
  it left waiting are shared with whoever registers the name again.
* README.md:337-339 and `config.py:47` say that a restart without
  `AUTH_SIGNING_SECRET` invalidates every session. It invalidates the access
  tokens; refresh tokens are checked against the database and survive.
* `GuessesBounded` is tight: overlapping attempts exceed `max_failures` by
  their number less one. `MemoryEarned` bounds each entry of the tracker, and
  nothing bounds the number of names that have one.

Panel: after `hurried` the reference to a live socket may be lost, and neither
Disconnect nor leaving the page closes it.

## 4. Proofs

`TransportProofs`, for any finite set of connections, any accounts and limits:

* `TypeCorrect`: `Spec => []TypeOK`. Types alone are not inductive: the rest
  of an overflowing list is a suffix only because the outbound queue is within
  its bound (`OutboundBounded`), and what reaches the wire is a frame only
  because a writer in `send_json` holds one (`WriterHolds`).
* `RegistryIsConsistent`: `Spec => []RegistryConsistent`, strengthened by: a
  connection that was not accepted has no account, so that `register` and
  `unregister` find it under its throwaway identifier. A handler that ended in
  an exception counts as registered: the entry it leaves is consistent too.
* `NoMailTheorem`: `Spec => []NoMailWhileConnected`, from registry
  consistency: the only steps that connect an account are `bind_identity`,
  which drains in the same step, and the only step that queues requires that
  the recipient has no connection.

`AuthSessionsProofs`, for any number of requests, accounts and sessions, and
for both values of `NaiveTimes`: `DeadCredentialTheorem`, `StoreTheorem`,
`RevocationTheorem` and `AnswerTheorem`, from one invariant `AuthInv`:

* `TablesInv`: sessions belong to accounts, tokens and names are distinct.
* `RequestsInv`: a request holds existing ids (`Filled`), and a late one stands
  before or at the check of its session, whose row is gone or revoked
  (`Stopped`). Every step lets the tables only grow (`Grows`: ids are not
  reused, rows do not come back, revocation stays, tokens are new or were on
  their way), and what is known of a request survives growth. That gives one
  lemma for all requests a step does not touch.
* `HoldsInv`: what the row locks are for. A row not yet committed belongs to the
  one request that flushed it (`LoginsHold`, `RegistersHold`), a token on its
  way into a session is nobody else's (`FreshDistinct`), and no deletion and
  login of one account are flushed at once (`DeletesExclude`); without the last,
  a committed login would outlive its account.
* `ToldInv`: what was answered is so, or its commit is pending. A session that
  was told of stays `row` or `gone`, so that no commit of another request
  revives it; this is `AnswerTakesEffect` made inductive.

`ChatServerProofs`, for any number of connections as well:

* `ChatImplementsAuth`: `ChatSpec => Spec`. `Bind` is `SocketEnds`, the other
  new steps stutter, so that all theorems about `AuthSessions` hold of the
  composition.
* `ChatTypeTheorem`, `SharedNameTheorem`, `StrayTheorem`, from `ChatInv`:
  a bound connection is of an account that was registered (`LinkInv`), and
  whoever mail was meant for was one too and had that name (`MailInv`). Two
  accounts with one routing name have one normalized name, and `NamesDistinct`
  leaves only one of them alive; names of accounts never change.

`SettingsProofs`: `LimitsPositive` for every environment. It is what the
assumptions of the other modules on their limits rest on. `LeastNumber`, the
least-number principle, stands there for the two modules about clocks.

`DeliveryProofs`, for any finite set of connections, any accounts and limits:

* `BoundedTheorem`: `Spec => []Bounded`, inductive together with the types.
* `LossTheorem`: `Spec => LossNeedsCause`. Its invariant, `JoinCounts`, says
  what `join()` waits for: unless the writer has returned, `unfinished` is the
  length of the outbound queue and one more for the frame in `send_json`. Only a
  writer that returns calls `task_done` twice; one that breaks keeps the count.
* `AddresseeTheorem` and `OrderTheorem`, from one invariant `DeliveryInv`.
  `OnlyAddressee` is not inductive: what waits offline must be addressed to its
  recipient too (`OfflineAddressed`), and a connection that resolves a token
  must have no account yet (`ResolvingAnonymous`), or binding would change whom
  its frames are for. A stream (wire, writer, outbound queue) stays in order
  because of what it takes: a drained queue is in order itself (`QueuesOrdered`)
  and meets a stream without receipts, a live message has the highest number.
  Which frames a list loses when it overflows does not matter for order.
* `UnavailableTheorem`: `Spec => UnavailableNeedsCause`, from `DeliveryInv` and
  `BrokenCaused`. An account without entry has no connection, and every
  connection in an entry has that account. One whose handler ended in an
  exception of its writer has lost a message to the account it still has: the
  writer broke over a receipt, and `OnlyAddressee` says for whom that was.
* `AccountTheorem`: `Spec => []Accounted`, from `AccountInv`. The sum of takers
  and places being 1 is kept as a choice, one place and no taker or one taker and
  no place (`Placed`); what was taken or queued has a verdict (`TakenKnown`), so
  that a new message is nowhere before its send.
* `MessagingTheorem`: `Spec => ImplementsMessaging`. Every step that moves no
  receipt stutters (`UnseenSteps`). A writer's step and the end of a
  flush are `Progress` (`WriterRefines`, `TeardownRefines`): what is written or
  lost is first in a stream that is in order. An `auth.authenticate` that
  succeeds is `Open` (`AuthenticateRefines`), a send is a `Post`
  (`RefusalRefines`, `QueuedRefines`, `LiveRefines`). The guard of
  `PostDelivered`, that nothing older waits, is `NoMailWhileConnected`.

`ReceiveLoopProofs`, for any defaults, any environment and any number of frames
at a moment, from one invariant `LoopInv`: `SlidingTheorem`, `RefusalTheorem`,
`SilenceTheorem`, `DispatchTheorem`, `GateTheorem`. The counter of the limiter
counts the refused as well; the frames it admitted in the open window are the
last `Quota` of the history (`WindowCounted`). `QuotasApart` is the reason for
`SlidingBound`: any two admitted frames that lie two quotas apart are a window's
length apart, since a whole window lies between them. For `RefusalIsDeserved`
the quota that is exhausted is a stretch of the history inside the last window.

`LoginThrottleProofs`, for any number of attempts and identifiers, from
`ThrottleInv`: `GuessesTheorem`, `RefusalTheorem`, `MemoryTheorem`. A deque is
the end of the history whose beginning has expired (`WindowsRemember`), so that
its live part has as many entries as there were recent wrong guesses. What is
bounded by `max_failures` and the number of attempts less one is the sum of
recent wrong guesses and attempts in flight (`GuessesAndAttemptsBounded`): an
attempt is admitted below `max_failures`, and its failure was counted before.

`PanelProofs`: `OrphanTheorem`, `StatusTheorem` and `ConnectTheorem`, for any
number of sockets. The strengthening is `ClosingIsOwn`: without haste, the
panel refers to no other socket than one that is closing.

Assumptions are the named `ASSUME`s: finiteness, positive limits, and distinct
kinds of names.

**Only model-checked.** `ClosingEnds`, the one liveness property: its fairness
and `ENABLED` are out of the prover's reach, and so is the response-time
argument behind it. The violations are TLC's as well: a counterexample needs
no proof. Induction with an operator as a parameter is not available to these
provers. Where a proof needs induction, it is in the specification (an
invariant over histories) or is the least-number principle, which is stated for
sets. Recursive definitions there are none in the modules with theorems; this
is why `Messaging` speaks of sets and not of filtered sequences, about which
nothing could be proved.

## 5. Plan

1. Done: `OfflineQueue`, `Transport`, `Messaging`, `Inbound`, `ReceiveLoop`,
   `LoginThrottle`, `AuthSessions`, `ChatServer`, `Settings`, `Panel`, and the
   theorems above.
2. Done: every invariant and action property of the passing runs is a theorem,
   and so is the refinement of `Messaging`.
3. To come: that the mailbox itself keeps its promises (from `Messaging` alone:
   no number is written twice or by two links of a queued message), so that
   they follow for any transport that implements it; and the safety part of
   `ClosingEnds`, that no phase is left out of the order in which a handler
   passes them.

Not modelled, and why: password hashing and its policy, token signing
(cryptography, abstracted to right or wrong); the character set and lengths of
names (atomic here); the auth schemas and error texts (no state); whether an
Origin is allowed (a choice of `Upgrade`); CORS and the per-address HTTP limits
(library code); operations without a caller (`discard`, `clear`,
`stale_connections`, `connections_for_session`, `failure_count`); the log and
the frame parsing of the panel; logging.
