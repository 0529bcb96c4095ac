----------------------------- MODULE Transport ------------------------------
(***************************************************************************)
(* The WebSocket transport: the endpoint (endpoint.py), the connection     *)
(* registry (manager.py) and the offline queue (queue.py).                 *)
(*                                                                         *)
(* Every connection has a handler task and a writer task on one event      *)
(* loop.  Code between two awaits is atomic, so an action is the code from *)
(* one await to the next: a handler waits in accept(), in receive_text(),  *)
(* in resolve_access_token() and in the final join(); a writer waits in    *)
(* get() and in send_json().                                               *)
(***************************************************************************)
EXTENDS OfflineQueue, Integers

CONSTANTS
    Conns,                 \* connections: each stands for its connection_id
                           \* and for its throwaway anon-<hex> identifier
    Users,                 \* usernames a verified token may carry
    None,                  \* account_username before authentication
    MaxTotalConnections,   \* max_total_connections
    MaxConnectionsPerClient,  \* max_connections_per_client
    MaxPendingOutbound,    \* max_pending_outbound
    MaxSends               \* bound of the model: message.send frames handled

ASSUME TransportAssumption ==
    /\ IsFiniteSet(Conns)
    /\ Users \subseteq Names
    /\ None \notin Names
    /\ Conns \cap (Names \cup {None}) = {}
    /\ MaxTotalConnections \in Nat \ {0}
    /\ MaxConnectionsPerClient \in Nat \ {0}
    /\ MaxPendingOutbound \in Nat \ {0}
    /\ MaxSends \in Nat

VARIABLES
    phase,        \* where the handler of each connection stands
    ident,        \* account_username
    connections,  \* keys of _connections
    byClient,     \* _by_client: routing identity -> connections
    queues,       \* the offline queue
    outbound,     \* the bounded outbound queue of each connection
    unfinished,   \* unfinished-task count of that queue, what join() awaits
    writer,       \* where the writer task of each connection stands
    sending,      \* the frame inside send_json, or Idle
    received,     \* history: auth.ready and receipts put on the wire
    dropped,      \* history: receipts this connection took and lost
    sent          \* history: the message.send frames handled, in order

reg  == << connections, byClient >>
io   == << writer, sending, received >>
vars == << phase, ident, connections, byClient, queues, outbound, unfinished,
           writer, sending, received, dropped, sent >>

-----------------------------------------------------------------------------
(* Frames.  A receipt is the index in `sent` of the message it carries.    *)

Control   == 0      \* connection.ready, ack, pong, queue.status, error
AuthReady == -1     \* auth.ready
Idle      == -2     \* no frame in send_json

Frame      == -1 .. MaxSends
Receipt(f) == f \in Nat \ {0}
Receipts(q) == {q[i] : i \in {j \in 1 .. Len(q) : Receipt(q[j])}}

DeliveryStatus == {"delivered", "queued", "recipient_unavailable", "rejected"}

\* A payload is any JSON, and a string in it may have no UTF-8 encoding (a
\* lone surrogate, which the schema lets pass): its receipt can be queued but
\* not put on the wire.
Message == [by: Conns, claimed: Names, to: Names, status: DeliveryStatus,
            encodable: BOOLEAN]

Encodable(f) == Receipt(f) => sent[f].encodable

\* A handler ends in "done", or in an exception: "failed" is that of accept(),
\* "raised" that of the writer, met in the finally clause.
Phase == {"unused", "refused", "accepting", "failed", "open", "resolving",
          "closing", "done", "raised"}

\* A writer that has ended is "dead" when it returned and "broken" when it
\* ended with an exception.
Writer == {"none", "waiting", "sending", "dead", "broken"}

-----------------------------------------------------------------------------
(* ConnectionContext and ConnectionManager.                                *)

Authenticated(c) == ident[c] # None

\* The throwaway identifier until authentication, then the username.
RoutingIdentity(c) == IF Authenticated(c) THEN ident[c] ELSE c

\* bind_identity: the entry moves from the previous key to the username.
Rekey(c, u) ==
    [[byClient EXCEPT ![RoutingIdentity(c)] = @ \ {c}] EXCEPT ![u] = @ \cup {c}]

IsConnected(r) == byClient[r] # {}

\* connections_for.
ConnectionsFor(r) == byClient[r] \cap connections

\* enqueue_outbound returns True.
Accepts(c) ==
    /\ phase[c] \notin {"closing", "done", "raised"}
    /\ Len(outbound[c]) < MaxPendingOutbound

Enqueued(c, f) == IF Accepts(c) THEN Append(outbound[c], f) ELSE outbound[c]

\* Every put_nowait of a step adds one to the count join() waits on.
CountPuts ==
    unfinished' = [c \in Conns |->
                     unfinished[c] + Len(outbound'[c]) - Len(outbound[c])]

\* How many of the frames fit behind q.
Fits(q, frames) ==
    IF Len(frames) <= MaxPendingOutbound - Len(q)
      THEN Len(frames)
      ELSE MaxPendingOutbound - Len(q)

(* The loop that ends an iteration of _receive_loop: responses are queued  *)
(* until one does not fit, and then the connection is closed.  `boxes` is  *)
(* outbound as the dispatch left it.                                       *)
Respond(c, boxes, frames) ==
    LET k == Fits(boxes[c], frames) IN
    /\ outbound' = [boxes EXCEPT ![c] = @ \o SubSeq(frames, 1, k)]
    /\ CountPuts
    /\ phase' = [phase EXCEPT ![c] =
                   IF k = Len(frames) THEN "open" ELSE "closing"]
    /\ dropped' = [dropped EXCEPT ![c] =
                     @ \cup Receipts(SubSeq(frames, k + 1, Len(frames)))]

-----------------------------------------------------------------------------
(* The upgrade.                                                            *)

\* is_origin_allowed refuses the Origin header.
RejectOrigin(c) ==
    /\ phase[c] = "unused"
    /\ phase' = [phase EXCEPT ![c] = "refused"]
    /\ UNCHANGED << ident, reg, queues, outbound, unfinished, io, dropped, sent >>

\* register raises ConnectionRejected.
AtLimitOffByOne(c) == Cardinality(connections) > MaxTotalConnections

AtLimit(c) ==
    \/ Cardinality(connections) >= MaxTotalConnections
    \/ Cardinality(byClient[c]) >= MaxConnectionsPerClient

RejectLimit(c) ==
    /\ phase[c] = "unused"
    /\ AtLimit(c)
    /\ phase' = [phase EXCEPT ![c] = "refused"]
    /\ UNCHANGED << ident, reg, queues, outbound, unfinished, io, dropped, sent >>

\* register under the throwaway identifier; the handler awaits accept().
Register(c) ==
    /\ phase[c] = "unused"
    /\ ~AtLimit(c)
    /\ connections' = connections \cup {c}
    /\ byClient' = [byClient EXCEPT ![c] = @ \cup {c}]
    /\ phase' = [phase EXCEPT ![c] = "accepting"]
    /\ UNCHANGED << ident, queues, outbound, unfinished, io, dropped, sent >>

\* accept() returns: the writer starts and connection.ready is queued.
AcceptReturns(c) ==
    /\ phase[c] = "accepting"
    /\ phase' = [phase EXCEPT ![c] = "open"]
    /\ writer' = [writer EXCEPT ![c] = "waiting"]
    /\ outbound' = [outbound EXCEPT ![c] = Enqueued(c, Control)]
    /\ CountPuts
    /\ UNCHANGED << ident, reg, queues, sending, received, dropped, sent >>

\* accept() raises, before the try whose finally unregisters.
AcceptRaises(c) ==
    /\ phase[c] = "accepting"
    /\ phase' = [phase EXCEPT ![c] = "failed"]
    /\ UNCHANGED << ident, reg, queues, outbound, unfinished, io, dropped, sent >>

-----------------------------------------------------------------------------
(* The receive loop.                                                       *)

\* An oversized or rate-limited frame: the error is queued if it fits.
ReceiveOverLimit(c) ==
    /\ phase[c] = "open"
    /\ outbound' = [outbound EXCEPT ![c] = Enqueued(c, Control)]
    /\ CountPuts
    /\ UNCHANGED << phase, ident, reg, queues, io, dropped, sent >>

\* A frame answered with one frame and no other effect: any validation
\* error, heartbeat.ping, queue.status, a message.send without recipient, an
\* auth.authenticate when already authenticated or without a usable token.
ReceiveSimple(c) ==
    /\ phase[c] = "open"
    /\ Respond(c, outbound, << Control >>)
    /\ UNCHANGED << ident, reg, queues, io, sent >>

\* auth.authenticate with a token: the handler awaits resolve_access_token.
StartAuthenticateAgain(c) ==
    /\ phase[c] = "open"
    /\ phase' = [phase EXCEPT ![c] = "resolving"]
    /\ UNCHANGED << ident, reg, queues, outbound, unfinished, io, dropped, sent >>

StartAuthenticate(c) ==
    /\ phase[c] = "open"
    /\ ~Authenticated(c)
    /\ phase' = [phase EXCEPT ![c] = "resolving"]
    /\ UNCHANGED << ident, reg, queues, outbound, unfinished, io, dropped, sent >>

\* resolve_access_token raises AuthError.
AuthenticateFails(c) ==
    /\ phase[c] = "resolving"
    /\ Respond(c, outbound, << Control >>)
    /\ UNCHANGED << ident, reg, queues, io, sent >>

\* It raises anything else: only AuthError is caught.
AuthenticateRaises(c) ==
    /\ phase[c] = "resolving"
    /\ phase' = [phase EXCEPT ![c] = "closing"]
    /\ UNCHANGED << ident, reg, queues, outbound, unfinished, io, dropped, sent >>

\* The same step with auth.ready after the drained messages.
AuthReadyLast(c, u) == Append(queues[u], AuthReady)

\* The responses owed to a connection that has just authenticated as u.
AuthResponses(c, u) == << AuthReady >> \o queues[u]

\* The token names u: bind, answer and drain, with no await between them.
AuthenticateSucceeds(c, u) ==
    /\ phase[c] = "resolving"
    /\ ident' = [ident EXCEPT ![c] = u]
    /\ byClient' = Rekey(c, u)
    /\ queues' = Drain(queues, u)
    /\ Respond(c, outbound, AuthResponses(c, u))
    /\ UNCHANGED << connections, io, sent >>

\* message.send under a sender that is not the connection's identity.  Its
\* payload goes nowhere.
SendMismatch(c, claimed, to) ==
    /\ phase[c] = "open"
    /\ Authenticated(c)
    /\ Len(sent) < MaxSends
    /\ claimed # ident[c]
    /\ sent' = Append(sent, [by |-> c, claimed |-> claimed, to |-> to,
                             status |-> "rejected", encodable |-> TRUE])
    /\ Respond(c, outbound, << Control, Control >>)
    /\ UNCHANGED << ident, reg, queues, io >>

\* _route_message, the recipient having a registered connection.
SendConnected(c, claimed, to, encodable) ==
    LET id      == Len(sent) + 1
        takers  == {t \in ConnectionsFor(to) : Accepts(t)}
        boxes   == [t \in Conns |-> IF t \in takers THEN Append(outbound[t], id)
                                                    ELSE outbound[t]]
    IN
    /\ phase[c] = "open"
    /\ Authenticated(c)
    /\ Len(sent) < MaxSends
    /\ claimed = ident[c]
    /\ IsConnected(to)
    /\ sent' = Append(sent, [by |-> c, claimed |-> claimed, to |-> to,
                             status |-> IF takers # {} THEN "delivered"
                                          ELSE "recipient_unavailable",
                             encodable |-> encodable])
    /\ Respond(c, boxes, << Control >>)
    /\ UNCHANGED << ident, reg, queues, io >>

\* A version that tries the offline queue without asking the registry.
SendOfflineUnasked(c, claimed, to, encodable) ==
    /\ phase[c] = "open"
    /\ Authenticated(c)
    /\ Len(sent) < MaxSends
    /\ claimed = ident[c]
    /\ QueueAccepts(queues, to)
    /\ sent' = Append(sent, [by |-> c, claimed |-> claimed, to |-> to,
                             status |-> "queued", encodable |-> encodable])
    /\ queues' = Enqueue(queues, to, Len(sent) + 1)
    /\ Respond(c, outbound, << Control >>)
    /\ UNCHANGED << ident, reg, io >>

\* _route_message, the recipient having none: the offline queue decides.
SendOffline(c, claimed, to, encodable) ==
    /\ phase[c] = "open"
    /\ Authenticated(c)
    /\ Len(sent) < MaxSends
    /\ claimed = ident[c]
    /\ ~IsConnected(to)
    /\ \/ /\ QueueAccepts(queues, to)
          /\ sent' = Append(sent, [by |-> c, claimed |-> claimed, to |-> to,
                                   status |-> "queued", encodable |-> encodable])
          /\ queues' = Enqueue(queues, to, Len(sent) + 1)
       \/ /\ ~QueueAccepts(queues, to)
          /\ sent' = Append(sent, [by |-> c, claimed |-> claimed, to |-> to,
                                   status |-> "recipient_unavailable",
                                   encodable |-> encodable])
          /\ UNCHANGED queues
    /\ Respond(c, outbound, << Control >>)
    /\ UNCHANGED << ident, reg, io >>

\* wait_for expires: the error is queued if it fits, and the handler leaves.
ReceiveTimeout(c) ==
    /\ phase[c] = "open"
    /\ outbound' = [outbound EXCEPT ![c] = Enqueued(c, Control)]
    /\ CountPuts
    /\ phase' = [phase EXCEPT ![c] = "closing"]
    /\ UNCHANGED << ident, reg, queues, io, dropped, sent >>

\* receive_text reports a disconnect, or an exception leaves the loop.
ReceiveEnds(c) ==
    /\ phase[c] = "open"
    /\ phase' = [phase EXCEPT ![c] = "closing"]
    /\ UNCHANGED << ident, reg, queues, outbound, unfinished, io, dropped, sent >>

-----------------------------------------------------------------------------
(* The writer.                                                             *)

\* task_done without the check that makes it raise ValueError at zero.
TaskDoneUnchecked(n) == n - 1

\* task_done on a count of n; the ValueError it raises at 0 is suppressed.
TaskDone(n) == IF n > 0 THEN n - 1 ELSE 0

\* A writer that reports the frame finished when it takes it.
WriterTakesAndCounts(c) ==
    /\ writer[c] = "waiting"
    /\ outbound[c] # << >>
    /\ sending' = [sending EXCEPT ![c] = Head(outbound[c])]
    /\ outbound' = [outbound EXCEPT ![c] = Tail(@)]
    /\ writer' = [writer EXCEPT ![c] = "sending"]
    /\ unfinished' = [unfinished EXCEPT ![c] = TaskDone(@)]
    /\ UNCHANGED << phase, ident, reg, queues, received, dropped, sent >>

\* get() returns a frame and send_json is awaited.
WriterTakes(c) ==
    /\ writer[c] = "waiting"
    /\ outbound[c] # << >>
    /\ sending' = [sending EXCEPT ![c] = Head(outbound[c])]
    /\ outbound' = [outbound EXCEPT ![c] = Tail(@)]
    /\ writer' = [writer EXCEPT ![c] = "sending"]
    /\ UNCHANGED << phase, ident, reg, queues, unfinished, received, dropped, sent >>

\* What the peer has received once frame f is on the wire.
OnWire(c, f) == IF f = Control THEN received[c] ELSE Append(received[c], f)

\* send_json returns; the finally clause calls task_done.
WriterSends(c) ==
    /\ writer[c] = "sending"
    /\ Encodable(sending[c])
    /\ received' = [received EXCEPT ![c] = OnWire(c, sending[c])]
    /\ sending' = [sending EXCEPT ![c] = Idle]
    /\ writer' = [writer EXCEPT ![c] = "waiting"]
    /\ unfinished' = [unfinished EXCEPT ![c] = TaskDone(@)]
    /\ UNCHANGED << phase, ident, reg, queues, outbound, dropped, sent >>

\* send_json raises WebSocketDisconnect or RuntimeError: task_done in the
\* except clause and again in the finally clause, whose ValueError at zero is
\* suppressed.  The writer returns.
WriterFails(c) ==
    /\ writer[c] = "sending"
    /\ dropped' = [dropped EXCEPT ![c] = @ \cup Receipts(<< sending[c] >>)]
    /\ sending' = [sending EXCEPT ![c] = Idle]
    /\ writer' = [writer EXCEPT ![c] = "dead"]
    /\ unfinished' = [unfinished EXCEPT ![c] = TaskDone(TaskDone(@))]
    /\ UNCHANGED << phase, ident, reg, queues, outbound, received, sent >>

\* send_json raises UnicodeEncodeError, which is not caught: task_done in the
\* finally clause only, and the writer ends with the exception.
WriterBreaks(c) ==
    /\ writer[c] = "sending"
    /\ ~Encodable(sending[c])
    /\ dropped' = [dropped EXCEPT ![c] = @ \cup Receipts(<< sending[c] >>)]
    /\ sending' = [sending EXCEPT ![c] = Idle]
    /\ writer' = [writer EXCEPT ![c] = "broken"]
    /\ unfinished' = [unfinished EXCEPT ![c] = TaskDone(@)]
    /\ UNCHANGED << phase, ident, reg, queues, outbound, received, sent >>

-----------------------------------------------------------------------------
(* The finally clause of websocket_transport.                              *)

\* An unregister that looks only under the throwaway identifier.
UnregisterByConnection(c) ==
    /\ connections' = connections \ {c}
    /\ byClient' = [byClient EXCEPT ![c] = @ \ {c}]

Unregister(c) ==
    /\ connections' = connections \ {c}
    /\ byClient' = [byClient EXCEPT ![RoutingIdentity(c)] = @ \ {c}]

\* After the flush the writer is cancelled and awaited, which raises again
\* what a broken writer ended with: only CancelledError is suppressed, and
\* unregister and close are not reached.
Release(c) ==
    \/ /\ writer[c] # "broken"
       /\ Unregister(c)
       /\ phase' = [phase EXCEPT ![c] = "done"]
       /\ writer' = [writer EXCEPT ![c] = "none"]
    \/ /\ writer[c] = "broken"
       /\ phase' = [phase EXCEPT ![c] = "raised"]
       /\ UNCHANGED << reg, writer >>

\* What the outbound queue still held is lost: nobody reads it any more, nor
\* adds to it.  A frame inside send_json has left or has not.
Teardown(c) ==
    /\ Release(c)
    /\ sending' = [sending EXCEPT ![c] = Idle]
    /\ outbound' = [outbound EXCEPT ![c] = << >>]
    /\ unfinished' = [unfinished EXCEPT ![c] = 0]
    /\ \/ /\ writer[c] = "sending"
          /\ Encodable(sending[c])
          /\ received' = [received EXCEPT ![c] = OnWire(c, sending[c])]
          /\ dropped' = [dropped EXCEPT ![c] = @ \cup Receipts(outbound[c])]
       \/ /\ dropped' = [dropped EXCEPT ![c] =
                           @ \cup Receipts(<< sending[c] >> \o outbound[c])]
          /\ UNCHANGED received
    /\ UNCHANGED << ident, queues, sent >>

\* join() returns: everything queued is reported finished.
FlushDone(c) ==
    /\ phase[c] = "closing"
    /\ unfinished[c] = 0
    /\ Teardown(c)

\* A finally clause that waits for join() without a limit.
FlushNeverExpires(c) == FALSE /\ UNCHANGED vars

\* The flush timeout of two seconds expires first.
FlushExpires(c) ==
    /\ phase[c] = "closing"
    /\ unfinished[c] # 0
    /\ Teardown(c)

-----------------------------------------------------------------------------
Init ==
    /\ phase = [c \in Conns |-> "unused"]
    /\ ident = [c \in Conns |-> None]
    /\ connections = {}
    /\ byClient = [r \in Names \cup Conns |-> {}]
    /\ queues = [r \in Names |-> << >>]
    /\ outbound = [c \in Conns |-> << >>]
    /\ unfinished = [c \in Conns |-> 0]
    /\ writer = [c \in Conns |-> "none"]
    /\ sending = [c \in Conns |-> Idle]
    /\ received = [c \in Conns |-> << >>]
    /\ dropped = [c \in Conns |-> {}]
    /\ sent = << >>

Upgrade(c) ==
    \/ RejectOrigin(c) \/ RejectLimit(c) \/ Register(c)
    \/ AcceptReturns(c) \/ AcceptRaises(c)

Resolve(c) ==
    \/ AuthenticateFails(c) \/ AuthenticateRaises(c)
    \/ \E u \in Users : AuthenticateSucceeds(c, u)

Send(c) ==
    \E claimed, to \in Names :
        \/ SendMismatch(c, claimed, to)
        \/ \E encodable \in BOOLEAN :
              \/ SendConnected(c, claimed, to, encodable)
              \/ SendOffline(c, claimed, to, encodable)

Receive(c) ==
    \/ ReceiveOverLimit(c) \/ ReceiveSimple(c)
    \/ ReceiveTimeout(c) \/ ReceiveEnds(c) \/ StartAuthenticate(c)

Write(c) == WriterTakes(c) \/ WriterSends(c) \/ WriterFails(c) \/ WriterBreaks(c)

Flush(c) == FlushDone(c) \/ FlushExpires(c)

Next ==
    \E c \in Conns :
        \/ Upgrade(c) \/ Receive(c) \/ Resolve(c)
        \/ Send(c) \/ Write(c) \/ Flush(c)

Spec == Init /\ [][Next]_vars

(* accept() and the database call end, with a result or an exception, and  *)
(* wait_for bounds the flush: these handler steps cannot be put off for    *)
(* ever.  A peer need not read or write, so nothing is assumed of the      *)
(* writer or of the receive loop.                                          *)
Fairness ==
    \A c \in Conns :
        /\ WF_vars(AcceptReturns(c) \/ AcceptRaises(c))
        /\ WF_vars(Resolve(c))
        /\ WF_vars(Flush(c))

FairSpec == Spec /\ Fairness

-----------------------------------------------------------------------------
(* Properties.                                                             *)

\* The registered part of a connection's life.  A handler that ends in an
\* exception never leaves it.
Registered(c) ==
    phase[c] \in {"accepting", "failed", "open", "resolving", "closing", "raised"}

\* The handler of c has ended without unregistering, because c was handed a
\* message to its account whose payload has no encoding.
Stranded(c) ==
    /\ phase[c] = "raised"
    /\ \E id \in dropped[c] : sent[id].to = ident[c] /\ ~sent[id].encodable

\* What connection c has put on the wire, is writing and still holds.
Stream(c) == received[c] \o << sending[c] >> \o outbound[c]

\* Type correctness of the transport's state.
TypeOK ==
    /\ phase \in [Conns -> Phase]
    /\ ident \in [Conns -> Users \cup {None}]
    /\ connections \in SUBSET Conns
    /\ byClient \in [Names \cup Conns -> SUBSET Conns]
    /\ queues \in [Names -> Seq(1 .. MaxSends)]
    /\ outbound \in [Conns -> Seq(Frame)]
    /\ unfinished \in [Conns -> Nat]
    /\ writer \in [Conns -> Writer]
    /\ sending \in [Conns -> Frame \cup {Idle}]
    /\ received \in [Conns -> Seq(Frame)]
    /\ dropped \in [Conns -> SUBSET (1 .. MaxSends)]
    /\ sent \in Seq(Message)

\* The two dictionaries of ConnectionManager agree whatever the handlers do:
\* a connection is indexed exactly under its routing identity, and exactly
\* from register to unregister, which a handler that ends in an exception of
\* accept() or of its writer does not reach (bind_identity and unregister
\* re-key by the identity of the moment).
RegistryConsistent ==
    /\ connections = {c \in Conns : Registered(c)}
    /\ \A r \in Names \cup Conns :
           byClient[r] = {c \in connections : RoutingIdentity(c) = r}

\* An account with a registered connection has nothing in the offline queue:
\* _route_message consults the registry first, and authentication re-keys
\* and drains in one step.  So no message waits in the queue of an account
\* that is online, and queue.status always answers 0.
NoMailWhileConnected ==
    \A r \in Names : IsConnected(r) => queues[r] = << >>

\* A receipt reaches only connections of the account it is addressed to, and
\* the sender it names is the account of the connection that sent it
\* (deliver_to_client, drain and the sender check of _handle_message_send).
OnlyAddressee ==
    \A c \in Conns : \A id \in Receipts(Stream(c)) :
        /\ id <= Len(sent)
        /\ ident[c] = sent[id].to
        /\ ident[sent[id].by] = sent[id].claimed

\* Every connection sees receipts in the order the server handled the sends,
\* without repeats, and after its auth.ready, also across the hand-over from
\* the offline queue to live delivery.
InOrder ==
    \A c \in Conns :
        LET s == Stream(c) IN
        \A i, j \in 1 .. Len(s) : i < j =>
            /\ Receipt(s[j]) => s[i] < s[j]
            /\ s[j] = AuthReady => ~Receipt(s[i])

\* Where message id is: held or lost by connection c.
TookIt(c, id) == id \in Receipts(Stream(c)) \/ id \in dropped[c]

\* Every acknowledged message is accounted for.  A queued one is in its
\* recipient's queue once, or was handed to exactly one connection; a
\* delivered one was taken by at least one; the others are nowhere.
Accounted ==
    \A id \in 1 .. Len(sent) :
        LET takers  == {c \in Conns : TookIt(c, id)}
            waiting == {p \in Names \X (1 .. MaxQueuedPerRecipient) :
                          /\ p[2] <= Len(queues[p[1]])
                          /\ queues[p[1]][p[2]] = id}
        IN  CASE sent[id].status = "queued" ->
                   Cardinality(takers) + Cardinality(waiting) = 1
              [] sent[id].status = "delivered" -> takers # {} /\ waiting = {}
              [] OTHER -> takers = {} /\ waiting = {}

\* The documented bounds hold in every interleaving: total connections,
\* outbound queue per connection, offline queue in both dimensions.
Bounded ==
    /\ Cardinality(connections) <= MaxTotalConnections
    /\ \A c \in Conns : Len(outbound[c]) <= MaxPendingOutbound
    /\ \A r \in Names : Len(queues[r]) <= MaxQueuedPerRecipient
    /\ RecipientCount(queues) <= MaxQueuedRecipients

\* A step loses a receipt only when send_json failed, or could not encode this
\* very receipt, when the flush expired (or had no writer left), or when the
\* drained queue overflowed the outbound queue of the connection that was
\* authenticating.  In particular a join() that returns has flushed everything,
\* unless a failing send_json had called task_done twice: then the writer has
\* returned, and the count says nothing of what is left.
LossNeedsCause ==
    [][\A c \in Conns : dropped'[c] # dropped[c] =>
         \/ writer[c] = "sending" /\ writer'[c] = "dead"
         \/ writer'[c] = "broken" /\ dropped'[c] \ dropped[c] = {sending[c]}
              /\ ~Encodable(sending[c])
         \/ phase[c] = "closing" /\ (unfinished[c] # 0 \/ writer[c] = "dead")
         \/ phase[c] = "resolving" /\ phase'[c] = "closing"]_vars

\* A message is refused as recipient_unavailable only when the offline queue
\* is at one of its bounds, or when the recipient has a connection and each of
\* them is full, on its way out, or stranded.  No identity that a connection
\* has left stands in the way, and no connection that has ended but one: that
\* of a handler which ended in the exception of its writer, after a message to
\* this very account that cannot be encoded (endpoint.py:487).
UnavailableNeedsCause ==
    [][Len(sent') > Len(sent) =>
         LET m == sent'[Len(sent')] IN
         m.status = "recipient_unavailable" =>
            \/ ~IsConnected(m.to) /\ ~QueueAccepts(queues, m.to)
            \/ /\ ConnectionsFor(m.to) # {}
               /\ \A c \in ConnectionsFor(m.to) :
                     \/ phase[c] = "closing"
                     \/ Len(outbound[c]) = MaxPendingOutbound
                     \/ Stranded(c)]_vars

\* A handler that leaves its loop ends, even when the peer reads nothing and
\* the writer never finishes, and it has unregistered its connection then
\* unless a message that cannot be encoded stranded it.
ClosingEnds ==
    \A c \in Conns : phase[c] = "closing" ~> (c \notin connections \/ Stranded(c))

(* The transport implements Messaging: a link is a connection, what it has *)
(* taken is the receipts its writer and its outbound queue hold.           *)
Abstract ==
    INSTANCE Messaging WITH
        Links   <- Conns,
        Nobody  <- None,
        posted  <- sent,
        owner   <- ident,
        waiting <- [r \in Names |-> Receipts(queues[r])],
        taken   <- [c \in Conns |-> Receipts(<< sending[c] >> \o outbound[c])],
        wire    <- [c \in Conns |-> Receipts(received[c])],
        lost    <- dropped

\* Every step of the handlers and writers is a step of Messaging or changes
\* nothing it sees: verdicts are final, hand-over and order are as promised.
ImplementsMessaging == Abstract!MSpec

-----------------------------------------------------------------------------
(* What the documentation says and the code does not do.                   *)

\* WEBSOCKET_PROTOCOL.md, limits table: at most max_connections_per_client
\* connections per identity.
PerIdentityLimit ==
    \A u \in Users : Cardinality(byClient[u]) <= MaxConnectionsPerClient

\* WEBSOCKET_PROTOCOL.md, lifecycle step 9: the connection is unregistered
\* unconditionally once its handler has ended.
UnregisteredWhenEnded ==
    \A c \in Conns : phase[c] \in {"failed", "done", "raised"} => c \notin connections

\* manager.py, is_connected: an account is connected when it has at least one
\* live connection, one whose handler has not ended.
ConnectedMeansLive ==
    \A u \in Users :
        IsConnected(u) =>
            \E c \in ConnectionsFor(u) : phase[c] \in {"open", "resolving", "closing"}

=============================================================================
