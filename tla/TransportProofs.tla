-------------------------- MODULE TransportProofs ---------------------------
(* Theorems about Transport, for every value of its constants.             *)
EXTENDS Transport, SequenceTheorems, TLAPS

\* The writer holds a frame exactly while it is inside send_json, and does
\* not exist before accept() returns.
WriterHolds ==
    \A c \in Conns :
        /\ writer[c] = "sending" <=> sending[c] # Idle
        /\ phase[c] \in {"unused", "accepting"} => writer[c] = "none"

OutboundBounded ==
    \A c \in Conns : Len(outbound[c]) <= MaxPendingOutbound

\* What the response loop changes is well typed.
OutputTyped ==
    /\ outbound \in [Conns -> Seq(Frame)]
    /\ OutboundBounded
    /\ unfinished \in [Conns -> Nat]
    /\ phase \in [Conns -> Phase]
    /\ dropped \in [Conns -> SUBSET (1 .. MaxSends)]

\* Types are preserved only together with the bound on the outbound queues
\* (what does not fit is a suffix) and with WriterHolds (what is put on the
\* wire is a frame).
TypeInv == TypeOK /\ WriterHolds /\ OutboundBounded

-----------------------------------------------------------------------------
(* Operators.                                                              *)

\* The receipts of a sequence of frames are message numbers.
LEMMA ReceiptsType ==
    ASSUME NEW q \in Seq(Frame \cup {Idle})
    PROVE  Receipts(q) \subseteq 1 .. MaxSends
BY TransportAssumption DEF Receipts, Receipt, Frame, Idle

\* A count that grows by what a queue grew by is still a count (the put_nowait
\* bookkeeping of the outbound queue).
LEMMA GrowthIsNatural ==
    \A n, p, q \in Nat : p >= q => n + p - q \in Nat
OBVIOUS

\* Fits is a possible number of frames, and they do fit.
LEMMA FitsRange ==
    ASSUME NEW q \in Seq(Frame), NEW frames \in Seq(Frame),
           Len(q) <= MaxPendingOutbound
    PROVE  /\ Fits(q, frames) \in 0 .. Len(frames)
           /\ Len(q) + Fits(q, frames) <= MaxPendingOutbound
BY TransportAssumption DEF Fits

\* A step that only adds to the outbound queues leaves natural counts.
LEMMA CountPutsType ==
    ASSUME TypeInv, CountPuts, outbound' \in [Conns -> Seq(Frame)],
           \A x \in Conns : Len(outbound'[x]) >= Len(outbound[x])
    PROVE  unfinished' \in [Conns -> Nat]
<1>1. \A x \in Conns : unfinished[x] + Len(outbound'[x]) - Len(outbound[x]) \in Nat
  <2> TAKE x \in Conns
  <2>1. outbound[x] \in Seq(Frame) /\ outbound'[x] \in Seq(Frame)
    BY DEF TypeInv, TypeOK
  <2>2. Len(outbound[x]) \in Nat /\ Len(outbound'[x]) \in Nat
    BY <2>1
  <2>3. unfinished[x] \in Nat
    BY DEF TypeInv, TypeOK
  <2>4. Len(outbound'[x]) >= Len(outbound[x])
    OBVIOUS
  <2> QED BY <2>2, <2>3, <2>4, GrowthIsNatural, Zenon
<1> QED BY <1>1 DEF CountPuts

\* So does a single enqueue_outbound, whether it fits or not.
LEMMA EnqueuedType ==
    ASSUME TypeInv, NEW c \in Conns, NEW f \in Frame, CountPuts,
           outbound' = [outbound EXCEPT ![c] = Enqueued(c, f)]
    PROVE  /\ outbound' \in [Conns -> Seq(Frame)]
           /\ OutboundBounded'
           /\ unfinished' \in [Conns -> Nat]
<1>1. outbound[c] \in Seq(Frame) /\ Len(outbound[c]) <= MaxPendingOutbound
  BY DEF TypeInv, TypeOK, OutboundBounded
<1>2. /\ Enqueued(c, f) \in Seq(Frame)
      /\ Len(Enqueued(c, f)) <= MaxPendingOutbound
      /\ Len(Enqueued(c, f)) >= Len(outbound[c])
  BY <1>1, TransportAssumption DEF Enqueued, Accepts
<1>3. outbound' \in [Conns -> Seq(Frame)]
  BY <1>2 DEF TypeInv, TypeOK
<1>4. \A x \in Conns : /\ Len(outbound'[x]) <= MaxPendingOutbound
                       /\ Len(outbound'[x]) >= Len(outbound[x])
  BY <1>2 DEF TypeInv, TypeOK, OutboundBounded
<1> QED BY <1>3, <1>4, CountPutsType DEF OutboundBounded

\* The response loop keeps the types and the bound of the outbound queues.
LEMMA RespondType ==
    ASSUME TypeInv, NEW c \in Conns, NEW frames \in Seq(Frame),
           NEW boxes \in [Conns -> Seq(Frame)],
           \A x \in Conns : /\ Len(boxes[x]) <= MaxPendingOutbound
                            /\ Len(boxes[x]) >= Len(outbound[x]),
           Respond(c, boxes, frames)
    PROVE  OutputTyped'
<1> DEFINE k == Fits(boxes[c], frames)
           put == SubSeq(frames, 1, k)
           rest == SubSeq(frames, k + 1, Len(frames))
<1>1. k \in 0 .. Len(frames) /\ Len(boxes[c]) + k <= MaxPendingOutbound
  BY FitsRange
<1> HIDE DEF k
<1>2. put \in Seq(Frame) /\ Len(put) = k
  BY <1>1
<1>3. rest \in Seq(Frame)
  BY <1>1
<1> HIDE DEF put, rest
<1>4. /\ outbound' = [boxes EXCEPT ![c] = @ \o put]
      /\ CountPuts
      /\ phase' = [phase EXCEPT ![c] =
                     IF k = Len(frames) THEN "open" ELSE "closing"]
      /\ dropped' = [dropped EXCEPT ![c] = @ \cup Receipts(rest)]
  BY DEF Respond, k, put, rest
<1>5. /\ boxes[c] \o put \in Seq(Frame)
      /\ Len(boxes[c] \o put) = Len(boxes[c]) + k
  <2>1. boxes[c] \in Seq(Frame)
    OBVIOUS
  <2> QED BY <2>1, <1>2, ConcatProperties, Zenon
<1>6. outbound' \in [Conns -> Seq(Frame)]
  BY <1>4, <1>5
<1>7. \A x \in Conns : /\ Len(outbound'[x]) <= MaxPendingOutbound
                       /\ Len(outbound'[x]) >= Len(outbound[x])
  <2> TAKE x \in Conns
  <2>1. CASE x = c
    BY <2>1, <1>1, <1>4, <1>5 DEF TypeInv, TypeOK
  <2>2. CASE x # c
    BY <2>2, <1>4
  <2> QED BY <2>1, <2>2
<1>8. unfinished' \in [Conns -> Nat]
  BY <1>4, <1>6, <1>7, CountPutsType
<1>9. phase' \in [Conns -> Phase]
  BY <1>4 DEF TypeInv, TypeOK, Phase
<1>10. Receipts(rest) \subseteq 1 .. MaxSends
  <2>1. rest \in Seq(Frame \cup {Idle})
    BY <1>3
  <2> QED BY <2>1, ReceiptsType, Zenon
<1>11. dropped' \in [Conns -> SUBSET (1 .. MaxSends)]
  <2>1. dropped \in [Conns -> SUBSET (1 .. MaxSends)]
    BY DEF TypeInv, TypeOK
  <2>2. dropped[c] \cup Receipts(rest) \in SUBSET (1 .. MaxSends)
    BY <1>10, <2>1
  <2>3. dropped' = [dropped EXCEPT ![c] = dropped[c] \cup Receipts(rest)]
    BY <1>4
  <2> QED BY <2>1, <2>2, <2>3
<1> QED BY <1>6, <1>7, <1>8, <1>9, <1>11 DEF OutputTyped, OutboundBounded

\* The case in which the dispatch itself queued nothing.
LEMMA RespondOnlyType ==
    ASSUME TypeInv, NEW c \in Conns, NEW frames \in Seq(Frame),
           Respond(c, outbound, frames)
    PROVE  OutputTyped'
<1>1. outbound \in [Conns -> Seq(Frame)]
  BY DEF TypeInv, TypeOK
<1>2. \A x \in Conns : /\ Len(outbound[x]) <= MaxPendingOutbound
                       /\ Len(outbound[x]) >= Len(outbound[x])
  BY <1>1 DEF TypeInv, OutboundBounded
<1> QED BY <1>1, <1>2, RespondType

-----------------------------------------------------------------------------
(* Type correctness, action by action.                                     *)

\* The two marks are frames and "nothing being written" is not.
LEMMA FrameConstants == Control \in Frame /\ AuthReady \in Frame /\ Idle \notin Frame
BY TransportAssumption DEF Control, AuthReady, Idle, Frame

\* A server that has just started: no connection, no writer, empty queues.
LEMMA InitType == Init => TypeInv
BY TransportAssumption
   DEF Init, TypeInv, TypeOK, WriterHolds, OutboundBounded, Phase, Writer, Frame, Idle

\* The steps of the upgrade.
LEMMA UpgradeType ==
    ASSUME TypeInv, NEW c \in Conns, Upgrade(c)
    PROVE  TypeInv'
<1> USE DEF TypeInv, TypeOK, OutputTyped, WriterHolds, OutboundBounded, Phase, Writer, reg, io
<1>1. CASE RejectOrigin(c) BY <1>1 DEF RejectOrigin
<1>2. CASE RejectLimit(c)  BY <1>2 DEF RejectLimit
<1>3. CASE Register(c)     BY <1>3 DEF Register
<1>4. CASE AcceptReturns(c)
  <2>1. outbound' \in [Conns -> Seq(Frame)] /\ OutboundBounded'
        /\ unfinished' \in [Conns -> Nat]
    BY <1>4, EnqueuedType, FrameConstants DEF AcceptReturns
  <2>2. WriterHolds'
    BY <1>4 DEF AcceptReturns
  <2> QED BY <1>4, <2>1, <2>2 DEF AcceptReturns
<1>5. CASE AcceptRaises(c) BY <1>5 DEF AcceptRaises
<1> QED BY <1>1, <1>2, <1>3, <1>4, <1>5 DEF Upgrade

\* The steps of the receive loop that route nothing.
LEMMA ReceiveType ==
    ASSUME TypeInv, NEW c \in Conns, Receive(c)
    PROVE  TypeInv'
<1> USE DEF TypeInv, TypeOK, OutputTyped, WriterHolds, OutboundBounded, Phase, Writer, reg, io
<1>1. CASE ReceiveOverLimit(c)
  <2>1. outbound' \in [Conns -> Seq(Frame)] /\ OutboundBounded'
        /\ unfinished' \in [Conns -> Nat]
    BY <1>1, EnqueuedType, FrameConstants DEF ReceiveOverLimit
  <2> QED BY <1>1, <2>1 DEF ReceiveOverLimit
<1>2. CASE ReceiveSimple(c)
  <2>1. << Control >> \in Seq(Frame)
    BY FrameConstants
  <2>2. OutputTyped'
    BY <1>2, <2>1, RespondOnlyType DEF ReceiveSimple
  <2>3. WriterHolds'
    BY <1>2 DEF ReceiveSimple, Respond
  <2> QED BY <1>2, <2>2, <2>3 DEF ReceiveSimple
<1>3. CASE ReceiveTimeout(c)
  <2>1. outbound' \in [Conns -> Seq(Frame)] /\ OutboundBounded'
        /\ unfinished' \in [Conns -> Nat]
    BY <1>3, EnqueuedType, FrameConstants DEF ReceiveTimeout
  <2> QED BY <1>3, <2>1 DEF ReceiveTimeout
<1>4. CASE ReceiveEnds(c) BY <1>4 DEF ReceiveEnds
<1>5. CASE StartAuthenticate(c) BY <1>5 DEF StartAuthenticate
<1> QED BY <1>1, <1>2, <1>3, <1>4, <1>5 DEF Receive

\* The end of resolve_access_token.
LEMMA ResolveType ==
    ASSUME TypeInv, NEW c \in Conns, Resolve(c)
    PROVE  TypeInv'
<1> USE DEF TypeInv, TypeOK, OutputTyped, WriterHolds, OutboundBounded, Phase, Writer, reg, io
<1>1. CASE AuthenticateFails(c)
  <2>1. << Control >> \in Seq(Frame)
    BY FrameConstants
  <2>2. OutputTyped'
    BY <1>1, <2>1, RespondOnlyType DEF AuthenticateFails
  <2>3. WriterHolds'
    BY <1>1 DEF AuthenticateFails, Respond
  <2> QED BY <1>1, <2>2, <2>3 DEF AuthenticateFails
<1>2. CASE AuthenticateRaises(c) BY <1>2 DEF AuthenticateRaises
<1>3. ASSUME NEW u \in Users, AuthenticateSucceeds(c, u)
      PROVE  TypeInv'
  <2>1. u \in Names
    BY TransportAssumption
  <2>2. queues[u] \in Seq(Frame)
    BY <2>1, TransportAssumption DEF Frame
  <2>3. AuthResponses(c, u) \in Seq(Frame)
    BY <2>2, FrameConstants DEF AuthResponses
  <2>4. OutputTyped'
    BY <1>3, <2>3, RespondOnlyType DEF AuthenticateSucceeds
  <2>5. queues' \in [Names -> Seq(1 .. MaxSends)]
    BY <1>3, <2>1 DEF AuthenticateSucceeds, Drain
  <2>6. byClient' \in [Names \cup Conns -> SUBSET Conns]
    BY <1>3, <2>1 DEF AuthenticateSucceeds, Rekey
  <2>7. WriterHolds'
    BY <1>3 DEF AuthenticateSucceeds, Respond
  <2>8. ident' \in [Conns -> Users \cup {None}]
    BY <1>3 DEF AuthenticateSucceeds
  <2> QED BY <1>3, <2>4, <2>5, <2>6, <2>7, <2>8 DEF AuthenticateSucceeds
<1> QED BY <1>1, <1>2, <1>3 DEF Resolve

\* A routed or refused message.send.
LEMMA SendType ==
    ASSUME TypeInv, NEW c \in Conns, Send(c)
    PROVE  TypeInv'
<1> USE DEF TypeInv, TypeOK, OutputTyped, WriterHolds, OutboundBounded, Phase, Writer, reg, io
<1> PICK claimed \in Names, to \in Names, encodable \in BOOLEAN :
        SendMismatch(c, claimed, to) \/ SendConnected(c, claimed, to, encodable)
          \/ SendOffline(c, claimed, to, encodable)
  BY DEF Send
<1>1. << Control >> \in Seq(Frame) /\ << Control, Control >> \in Seq(Frame)
  BY FrameConstants
<1>2. \A st \in DeliveryStatus, e \in BOOLEAN :
         Append(sent, [by |-> c, claimed |-> claimed, to |-> to, status |-> st,
                       encodable |-> e])
            \in Seq(Message)
  BY DEF Message
<1>3. CASE SendMismatch(c, claimed, to)
  <2>1. OutputTyped'
    BY <1>1, <1>3, RespondOnlyType DEF SendMismatch
  <2>2. WriterHolds'
    BY <1>3 DEF SendMismatch, Respond
  <2>3. sent' \in Seq(Message)
    BY <1>2, <1>3 DEF SendMismatch, DeliveryStatus
  <2> QED BY <1>3, <2>1, <2>2, <2>3 DEF SendMismatch
<1>4. CASE SendConnected(c, claimed, to, encodable)
  <2> DEFINE id == Len(sent) + 1
             takers == {t \in ConnectionsFor(to) : Accepts(t)}
             boxes == [t \in Conns |-> IF t \in takers THEN Append(outbound[t], id)
                                                       ELSE outbound[t]]
  <2>1. id \in Frame
    BY <1>4, TransportAssumption DEF SendConnected, Frame
  <2>2. \A t \in Conns : outbound[t] \in Seq(Frame)
    OBVIOUS
  <2>3. boxes \in [Conns -> Seq(Frame)]
    BY <2>1, <2>2
  <2>4. \A x \in Conns : /\ Len(boxes[x]) <= MaxPendingOutbound
                         /\ Len(boxes[x]) >= Len(outbound[x])
    <3> TAKE x \in Conns
    <3>1. CASE x \in takers
      BY <2>1, <2>2, <3>1, TransportAssumption DEF Accepts
    <3>2. CASE x \notin takers
      BY <2>2, <3>2
    <3> QED BY <3>1, <3>2
  <2>5. Respond(c, boxes, << Control >>)
    BY <1>4 DEF SendConnected
  <2>6. OutputTyped'
    BY <1>1, <2>3, <2>4, <2>5, RespondType
  <2>7. WriterHolds'
    BY <1>4, <2>5 DEF SendConnected, Respond
  <2>8. sent' \in Seq(Message)
    BY <1>2, <1>4 DEF SendConnected, DeliveryStatus
  <2> QED BY <1>4, <2>6, <2>7, <2>8 DEF SendConnected
<1>5. CASE SendOffline(c, claimed, to, encodable)
  <2>1. OutputTyped'
    BY <1>1, <1>5, RespondOnlyType DEF SendOffline
  <2>2. WriterHolds'
    BY <1>5 DEF SendOffline, Respond
  <2>3. sent' \in Seq(Message)
    BY <1>2, <1>5 DEF SendOffline, DeliveryStatus
  <2>4. queues' \in [Names -> Seq(1 .. MaxSends)]
    <3>1. Len(sent) + 1 \in 1 .. MaxSends
      BY <1>5, TransportAssumption DEF SendOffline
    <3>2. Enqueue(queues, to, Len(sent) + 1) \in [Names -> Seq(1 .. MaxSends)]
      BY <3>1 DEF Enqueue
    <3> QED BY <1>5, <3>2 DEF SendOffline
  <2> QED BY <1>5, <2>1, <2>2, <2>3, <2>4 DEF SendOffline
<1> QED BY <1>3, <1>4, <1>5

\* What goes on the wire is a frame.
LEMMA OnWireType ==
    ASSUME TypeInv, NEW c \in Conns, writer[c] = "sending"
    PROVE  OnWire(c, sending[c]) \in Seq(Frame)
<1>1. sending[c] \in Frame
  BY DEF TypeInv, TypeOK, WriterHolds
<1>2. received[c] \in Seq(Frame)
  BY DEF TypeInv, TypeOK
<1> QED BY <1>1, <1>2 DEF OnWire

\* The steps of the writer.
LEMMA WriteType ==
    ASSUME TypeInv, NEW c \in Conns, Write(c)
    PROVE  TypeInv'
<1> USE DEF TypeInv, TypeOK, WriterHolds, OutboundBounded, Phase, Writer, reg, io
<1>0. outbound[c] \in Seq(Frame) /\ sending[c] \in Frame \cup {Idle}
  OBVIOUS
<1>1. CASE WriterTakes(c)
  <2>1. Head(outbound[c]) \in Frame /\ Tail(outbound[c]) \in Seq(Frame)
        /\ Len(Tail(outbound[c])) <= Len(outbound[c])
    BY <1>0, <1>1 DEF WriterTakes
  <2>2. OutboundBounded'
    BY <1>0, <1>1, <2>1, TransportAssumption DEF WriterTakes
  <2>3. WriterHolds'
    BY <1>1, <2>1, FrameConstants DEF WriterTakes
  <2> QED BY <1>1, <2>1, <2>2, <2>3 DEF WriterTakes
<1>2. CASE WriterSends(c)
  <2>1. OnWire(c, sending[c]) \in Seq(Frame)
    BY <1>2, OnWireType DEF WriterSends
  <2>2. TaskDone(unfinished[c]) \in Nat
    BY DEF TaskDone
  <2> QED BY <1>2, <2>1, <2>2 DEF WriterSends
<1>3. CASE WriterFails(c)
  <2>1. << sending[c] >> \in Seq(Frame \cup {Idle})
    BY <1>0
  <2>2. Receipts(<< sending[c] >>) \subseteq 1 .. MaxSends
    BY <2>1, ReceiptsType
  <2>3. TaskDone(TaskDone(unfinished[c])) \in Nat
    BY DEF TaskDone
  <2> QED BY <1>3, <2>2, <2>3 DEF WriterFails
<1>4. CASE WriterBreaks(c)
  <2>1. << sending[c] >> \in Seq(Frame \cup {Idle})
    BY <1>0
  <2>2. Receipts(<< sending[c] >>) \subseteq 1 .. MaxSends
    BY <2>1, ReceiptsType
  <2>3. TaskDone(unfinished[c]) \in Nat
    BY DEF TaskDone
  <2> QED BY <1>4, <2>2, <2>3 DEF WriterBreaks
<1> QED BY <1>1, <1>2, <1>3, <1>4 DEF Write

\* The finally clause.
LEMMA FlushType ==
    ASSUME TypeInv, NEW c \in Conns, Flush(c)
    PROVE  TypeInv'
<1> USE DEF TypeInv, TypeOK, WriterHolds, OutboundBounded, Phase, Writer, reg, io
<1>1. Teardown(c)
  BY DEF Flush, FlushDone, FlushExpires
<1>2. outbound[c] \in Seq(Frame \cup {Idle}) /\ << sending[c] >> \in Seq(Frame \cup {Idle})
  OBVIOUS
<1>3. << sending[c] >> \o outbound[c] \in Seq(Frame \cup {Idle})
  BY <1>2, ConcatProperties, Zenon
<1>4. /\ Receipts(outbound[c]) \subseteq 1 .. MaxSends
      /\ Receipts(<< sending[c] >> \o outbound[c]) \subseteq 1 .. MaxSends
  BY <1>2, <1>3, ReceiptsType
<1>5. dropped' \in [Conns -> SUBSET (1 .. MaxSends)]
  <2>1. PICK more \in SUBSET (1 .. MaxSends) :
           dropped' = [dropped EXCEPT ![c] = @ \cup more]
    BY <1>1, <1>4, Zenon DEF Teardown
  <2> QED BY <2>1
<1>6. received' \in [Conns -> Seq(Frame)]
  <2>1. CASE UNCHANGED received
    BY <2>1
  <2>2. CASE writer[c] = "sending"
               /\ received' = [received EXCEPT ![c] = OnWire(c, sending[c])]
    <3>1. OnWire(c, sending[c]) \in Seq(Frame)
      BY <2>2, OnWireType
    <3> QED BY <2>2, <3>1
  <2> QED BY <1>1, <2>1, <2>2 DEF Teardown
<1>7. byClient' \in [Names \cup Conns -> SUBSET Conns] /\ connections' \subseteq Conns
  <2>1. CASE UNCHANGED << connections, byClient >>
    BY <2>1
  <2>2. CASE Unregister(c)
    BY <2>2 DEF Unregister
  <2> QED BY <1>1, <2>1, <2>2 DEF Teardown, Release
<1>8. outbound' \in [Conns -> Seq(Frame)] /\ OutboundBounded'
  BY <1>1, TransportAssumption DEF Teardown
<1>9. WriterHolds'
  BY <1>1 DEF Teardown, Release
<1>10. phase' \in [Conns -> Phase] /\ writer' \in [Conns -> Writer]
  <2>1. CASE /\ phase' = [phase EXCEPT ![c] = "done"]
             /\ writer' = [writer EXCEPT ![c] = "none"]
    BY <2>1
  <2>2. CASE /\ phase' = [phase EXCEPT ![c] = "raised"]
             /\ UNCHANGED writer
    BY <2>2
  <2> QED BY <1>1, <2>1, <2>2 DEF Teardown, Release
<1> QED BY <1>1, <1>5, <1>6, <1>7, <1>8, <1>9, <1>10 DEF Teardown

\* No step of a handler or a writer leaves the types.
LEMMA NextType == TypeInv /\ [Next]_vars => TypeInv'
<1> SUFFICES ASSUME TypeInv, [Next]_vars PROVE TypeInv'
  OBVIOUS
<1>1. CASE Next
  <2> PICK c \in Conns : Upgrade(c) \/ Receive(c) \/ Resolve(c)
                           \/ Send(c) \/ Write(c) \/ Flush(c)
    BY <1>1 DEF Next
  <2> QED BY UpgradeType, ReceiveType, ResolveType, SendType, WriteType, FlushType
<1>2. CASE UNCHANGED vars
  BY <1>2 DEF vars, TypeInv, TypeOK, WriterHolds, OutboundBounded
<1> QED BY <1>1, <1>2

\* Every reachable state of the transport is well typed, whatever the
\* numbers of connections and names and the limits configured.
THEOREM TypeCorrect == Spec => []TypeOK
<1>1. TypeInv => TypeOK
  BY DEF TypeInv
<1> QED BY InitType, NextType, <1>1, PTL DEF Spec

\* So they hold in every reachable state.
LEMMA TypeInvariant == Spec => []TypeInv
BY InitType, NextType, PTL DEF Spec

-----------------------------------------------------------------------------
(* The registry.                                                           *)

\* An identity is bound only after the upgrade.
UnusedIsAnonymous ==
    \A c \in Conns : phase[c] = "unused" => ident[c] = None

RegistryInv == TypeInv /\ RegistryConsistent /\ UnusedIsAnonymous

\* A step that moves handlers between phases in which they are registered
\* alike, and touches neither dictionary nor identity, keeps the registry.
LEMMA PhaseStepKeepsRegistry ==
    ASSUME RegistryInv, TypeInv', UNCHANGED << ident, connections, byClient >>,
           \A x \in Conns : Registered(x)' <=> Registered(x),
           \A x \in Conns : phase'[x] = "unused" => phase[x] = "unused"
    PROVE  RegistryInv'
BY DEF RegistryInv, RegistryConsistent, UnusedIsAnonymous, RoutingIdentity, Authenticated

\* The response loop is such a step for a handler that is in its loop.
LEMMA RespondKeepsPhases ==
    ASSUME TypeInv, NEW c \in Conns, NEW frames, NEW boxes,
           phase[c] \in {"open", "resolving"}, Respond(c, boxes, frames)
    PROVE  /\ \A x \in Conns : Registered(x)' <=> Registered(x)
           /\ \A x \in Conns : phase'[x] = "unused" => phase[x] = "unused"
BY DEF Respond, Registered, TypeInv, TypeOK

\* The registry starts empty.
LEMMA InitRegistry == Init => RegistryInv
<1> SUFFICES ASSUME Init PROVE RegistryInv
  OBVIOUS
<1>1. TypeInv
  BY InitType
<1>2. RegistryConsistent
  BY DEF Init, RegistryConsistent, Registered
<1>3. UnusedIsAnonymous
  BY DEF Init, UnusedIsAnonymous
<1> QED BY <1>1, <1>2, <1>3 DEF RegistryInv

\* ConnectionManager.register indexes the connection under its throwaway
\* identifier.
LEMMA RegisterKeepsRegistry ==
    ASSUME RegistryInv, TypeInv', NEW c \in Conns, Register(c)
    PROVE  RegistryInv'
<1> USE DEF RegistryInv, Register
<1>1. \A x \in Conns : Registered(x)' <=> (Registered(x) \/ x = c)
  BY DEF Registered, TypeInv, TypeOK
<1>2. \A x \in Conns : RoutingIdentity(x)' = RoutingIdentity(x)
  BY DEF RoutingIdentity, Authenticated
<1>3. RoutingIdentity(c) = c
  BY DEF UnusedIsAnonymous, RoutingIdentity, Authenticated
<1>4. connections' = {x \in Conns : Registered(x)'}
  BY <1>1 DEF RegistryConsistent
<1>5. ASSUME NEW r \in Names \cup Conns
      PROVE  byClient'[r] = {x \in connections' : RoutingIdentity(x)' = r}
  <2>1. byClient[r] = {x \in connections : RoutingIdentity(x) = r}
    BY DEF RegistryConsistent
  <2>2. byClient'[r] = IF r = c THEN byClient[r] \cup {c} ELSE byClient[r]
    BY DEF TypeInv, TypeOK
  <2>3. connections \subseteq Conns
    BY DEF TypeInv, TypeOK
  <2> QED BY <1>2, <1>3, <2>1, <2>2, <2>3
<1>6. UnusedIsAnonymous'
  BY DEF UnusedIsAnonymous, TypeInv, TypeOK
<1>7. RegistryConsistent'
  BY <1>4, <1>5 DEF RegistryConsistent
<1> QED BY <1>6, <1>7

\* bind_identity moves the index entry together with the identity.
LEMMA AuthenticateKeepsRegistry ==
    ASSUME RegistryInv, TypeInv', NEW c \in Conns, NEW u \in Users,
           AuthenticateSucceeds(c, u)
    PROVE  RegistryInv'
<1> USE DEF RegistryInv, AuthenticateSucceeds
<1> DEFINE old == RoutingIdentity(c)
<1>0. u \in Names /\ u # None /\ old \in Names \cup Conns
  BY TransportAssumption DEF TypeInv, TypeOK, RoutingIdentity, Authenticated
<1>1. /\ \A x \in Conns : Registered(x)' <=> Registered(x)
      /\ \A x \in Conns : phase'[x] = "unused" => phase[x] = "unused"
  BY RespondKeepsPhases
<1>2. c \in connections
  BY DEF RegistryConsistent, Registered
<1>3. \A x \in Conns : RoutingIdentity(x)' = IF x = c THEN u ELSE RoutingIdentity(x)
  BY <1>0 DEF RoutingIdentity, Authenticated, TypeInv, TypeOK
<1>4. connections' = {x \in Conns : Registered(x)'}
  BY <1>1 DEF RegistryConsistent
<1>5. ASSUME NEW r \in Names \cup Conns
      PROVE  byClient'[r] = {x \in connections' : RoutingIdentity(x)' = r}
  <2>1. byClient[r] = {x \in connections : RoutingIdentity(x) = r}
    BY DEF RegistryConsistent
  <2>2. byClient'[r] = IF r = u THEN byClient[r] \cup {c} ELSE byClient[r] \ {c}
    <3>1. c \in byClient[r] => r = old
      BY <2>1
    <3> HIDE DEF old
    <3>2. byClient' = [[byClient EXCEPT ![old] = @ \ {c}] EXCEPT ![u] = @ \cup {c}]
      BY DEF Rekey, old
    <3> DEFINE mid == [byClient EXCEPT ![old] = @ \ {c}]
    <3>3. byClient \in [Names \cup Conns -> SUBSET Conns]
      BY DEF TypeInv, TypeOK
    <3>4. mid[r] = byClient[r] \ {c}
      BY <3>1, <3>3
    <3>5. mid \in [Names \cup Conns -> SUBSET Conns]
      BY <1>0, <3>3
    <3> HIDE DEF mid
    <3>6. byClient'[r] = IF r = u THEN mid[r] \cup {c} ELSE mid[r]
      BY <3>2, <3>5 DEF mid
    <3> QED BY <3>4, <3>6
  <2>3. connections \subseteq Conns
    BY DEF TypeInv, TypeOK
  <2> QED BY <1>2, <1>3, <2>1, <2>2, <2>3
<1>6. UnusedIsAnonymous'
  BY <1>1 DEF UnusedIsAnonymous, TypeInv, TypeOK
<1>7. RegistryConsistent'
  BY <1>4, <1>5 DEF RegistryConsistent
<1> QED BY <1>6, <1>7

\* unregister finds the connection under its identity of the moment.
LEMMA UnregisterKeepsRegistry ==
    ASSUME RegistryInv, TypeInv', NEW c \in Conns, Unregister(c),
           phase' = [phase EXCEPT ![c] = "done"], UNCHANGED ident
    PROVE  RegistryInv'
<1> USE DEF RegistryInv, Unregister
<1>1. \A x \in Conns : Registered(x)' <=> (Registered(x) /\ x # c)
  BY DEF Registered, TypeInv, TypeOK
<1>2. \A x \in Conns : RoutingIdentity(x)' = RoutingIdentity(x)
  BY DEF RoutingIdentity, Authenticated
<1>3. connections' = {x \in Conns : Registered(x)'}
  BY <1>1 DEF RegistryConsistent
<1>4. ASSUME NEW r \in Names \cup Conns
      PROVE  byClient'[r] = {x \in connections' : RoutingIdentity(x)' = r}
  <2>1. byClient[r] = {x \in connections : RoutingIdentity(x) = r}
    BY DEF RegistryConsistent
  <2>2. byClient'[r] = byClient[r] \ {c}
    BY <2>1 DEF TypeInv, TypeOK
  <2>3. connections \subseteq Conns
    BY DEF TypeInv, TypeOK
  <2> QED BY <1>2, <2>1, <2>2, <2>3
<1>5. UnusedIsAnonymous'
  BY DEF UnusedIsAnonymous, TypeInv, TypeOK
<1>6. RegistryConsistent'
  BY <1>3, <1>4 DEF RegistryConsistent
<1> QED BY <1>5, <1>6

\* A finally clause that the writer's exception leaves early keeps its
\* connection registered as it was.
LEMMA TeardownKeepsRegistry ==
    ASSUME RegistryInv, TypeInv', NEW c \in Conns, phase[c] = "closing", Teardown(c)
    PROVE  RegistryInv'
<1>1. CASE writer[c] # "broken"
  BY <1>1, UnregisterKeepsRegistry DEF Teardown, Release
<1>2. CASE writer[c] = "broken"
  <2>1. UNCHANGED << ident, connections, byClient >>
    BY <1>2 DEF Teardown, Release, reg
  <2>2. phase' = [phase EXCEPT ![c] = "raised"]
    BY <1>2 DEF Teardown, Release
  <2>3. \A x \in Conns : Registered(x)' <=> Registered(x)
    BY <2>2 DEF Registered, RegistryInv, TypeInv, TypeOK
  <2>4. \A x \in Conns : phase'[x] = "unused" => phase[x] = "unused"
    BY <2>2 DEF RegistryInv, TypeInv, TypeOK
  <2> QED BY <2>1, <2>3, <2>4, PhaseStepKeepsRegistry
<1> QED BY <1>1, <1>2

\* The other steps touch neither the registry nor what it depends on.
LEMMA NextRegistry == RegistryInv /\ [Next]_vars => RegistryInv'
<1> SUFFICES ASSUME RegistryInv, [Next]_vars PROVE RegistryInv'
  OBVIOUS
<1>1. TypeInv /\ TypeInv'
  BY NextType DEF RegistryInv
<1>2. CASE UNCHANGED vars
  BY <1>1, <1>2 DEF vars, RegistryInv, RegistryConsistent, UnusedIsAnonymous,
                    Registered, RoutingIdentity, Authenticated
<1>3. CASE Next
  <2> PICK c \in Conns : Upgrade(c) \/ Receive(c) \/ Resolve(c)
                           \/ Send(c) \/ Write(c) \/ Flush(c)
    BY <1>3 DEF Next
  <2> DEFINE Kept == /\ UNCHANGED << ident, connections, byClient >>
                     /\ \A x \in Conns : Registered(x)' <=> Registered(x)
                     /\ \A x \in Conns : phase'[x] = "unused" => phase[x] = "unused"
  <2>0. Kept => RegistryInv'
    BY <1>1, PhaseStepKeepsRegistry
  <2>1. CASE Upgrade(c)
    <3>1. CASE Register(c)
      BY <1>1, <3>1, RegisterKeepsRegistry
    <3>2. CASE RejectOrigin(c) \/ RejectLimit(c) \/ AcceptReturns(c) \/ AcceptRaises(c)
      <4>1. Kept
        BY <1>1, <3>2 DEF RejectOrigin, RejectLimit, AcceptReturns, AcceptRaises,
                          Registered, TypeInv, TypeOK, reg
      <4> QED BY <4>1, <2>0
    <3> QED BY <2>1, <3>1, <3>2 DEF Upgrade
  <2>2. CASE Receive(c)
    <3>1. CASE ReceiveSimple(c)
      <4>1. Kept
        BY <1>1, <3>1, RespondKeepsPhases DEF ReceiveSimple, reg
      <4> QED BY <4>1, <2>0
    <3>2. CASE ReceiveOverLimit(c) \/ ReceiveTimeout(c) \/ ReceiveEnds(c)
                 \/ StartAuthenticate(c)
      <4>1. Kept
        BY <1>1, <3>2 DEF ReceiveOverLimit, ReceiveTimeout, ReceiveEnds,
                          StartAuthenticate, Registered, TypeInv, TypeOK, reg
      <4> QED BY <4>1, <2>0
    <3> QED BY <2>2, <3>1, <3>2 DEF Receive
  <2>3. CASE Resolve(c)
    <3>1. CASE AuthenticateFails(c)
      <4>1. Kept
        BY <1>1, <3>1, RespondKeepsPhases DEF AuthenticateFails, reg
      <4> QED BY <4>1, <2>0
    <3>2. CASE AuthenticateRaises(c)
      <4>1. Kept
        BY <1>1, <3>2 DEF AuthenticateRaises, Registered, TypeInv, TypeOK, reg
      <4> QED BY <4>1, <2>0
    <3>3. ASSUME NEW u \in Users, AuthenticateSucceeds(c, u) PROVE RegistryInv'
      BY <1>1, <3>3, AuthenticateKeepsRegistry
    <3> QED BY <2>3, <3>1, <3>2, <3>3 DEF Resolve
  <2>4. CASE Send(c)
    <3>1. Kept
      <4> PICK claimed \in Names, to \in Names, encodable \in BOOLEAN :
              SendMismatch(c, claimed, to) \/ SendConnected(c, claimed, to, encodable)
                \/ SendOffline(c, claimed, to, encodable)
        BY <2>4 DEF Send
      <4>1. PICK boxes, frames : Respond(c, boxes, frames)
        BY DEF SendMismatch, SendConnected, SendOffline
      <4>2. /\ phase[c] = "open"
            /\ UNCHANGED << ident, connections, byClient >>
        BY DEF SendMismatch, SendConnected, SendOffline, reg
      <4> QED BY <1>1, <4>1, <4>2, RespondKeepsPhases
    <3> QED BY <3>1, <2>0
  <2>5. CASE Write(c)
    <3>1. Kept
      BY <1>1, <2>5 DEF Write, WriterTakes, WriterSends, WriterFails, WriterBreaks, Registered, reg
    <3> QED BY <3>1, <2>0
  <2>6. CASE Flush(c)
    <3>1. Teardown(c) /\ phase[c] = "closing"
      BY <2>6 DEF Flush, FlushDone, FlushExpires
    <3> QED BY <1>1, <3>1, TeardownKeepsRegistry
  <2> QED BY <2>1, <2>2, <2>3, <2>4, <2>5, <2>6
<1> QED BY <1>2, <1>3

\* In every reachable state the registry's two dictionaries agree: a
\* connection is indexed under its routing identity, and under no other key,
\* exactly from register to unregister, for good when an exception of
\* accept() or of the writer keeps its handler from getting there.
THEOREM RegistryIsConsistent == Spec => []RegistryConsistent
<1>1. RegistryInv => RegistryConsistent
  BY DEF RegistryInv
<1> QED BY InitRegistry, NextRegistry, <1>1, PTL DEF Spec

-----------------------------------------------------------------------------
(* The offline queue of an account that is connected.                      *)

\* Only a message to an account without connection is queued, and the step
\* that connects an account drains its queue.
LEMMA NextNoMail ==
    TypeInv /\ NoMailWhileConnected /\ [Next]_vars => NoMailWhileConnected'
<1> SUFFICES ASSUME TypeInv, NoMailWhileConnected, [Next]_vars,
                    NEW r \in Names, IsConnected(r)'
             PROVE  queues'[r] = << >>
  BY DEF NoMailWhileConnected
<1> USE DEF NoMailWhileConnected, IsConnected
<1>0. r \notin Conns /\ byClient \in [Names \cup Conns -> SUBSET Conns]
      /\ queues \in [Names -> Seq(1 .. MaxSends)]
  BY TransportAssumption DEF TypeInv, TypeOK
<1>1. CASE UNCHANGED << byClient, queues >>
  BY <1>1
<1>2. ASSUME NEW c \in Conns, Register(c) PROVE queues'[r] = << >>
  BY <1>0, <1>2 DEF Register
<1>3. ASSUME NEW c \in Conns, NEW u \in Users, AuthenticateSucceeds(c, u)
      PROVE  queues'[r] = << >>
  <2>1. queues' = [queues EXCEPT ![u] = << >>]
    BY <1>3 DEF AuthenticateSucceeds, Drain
  <2>2. CASE r = u
    BY <1>0, <2>1, <2>2
  <2>3. CASE r # u
    <3>1. byClient'[r] \subseteq byClient[r]
      BY <1>0, <1>3, <2>3 DEF AuthenticateSucceeds, Rekey
    <3> QED BY <3>1, <2>1, <2>3
  <2> QED BY <2>2, <2>3
<1>4. ASSUME NEW c \in Conns, NEW claimed \in Names, NEW to \in Names,
             NEW encodable \in BOOLEAN, SendOffline(c, claimed, to, encodable)
      PROVE  queues'[r] = << >>
  <2>1. byClient' = byClient /\ byClient[to] = {}
    BY <1>4 DEF SendOffline, reg
  <2>2. r # to
    BY <2>1
  <2>3. queues'[r] = queues[r]
    BY <1>0, <1>4, <2>2 DEF SendOffline, Enqueue
  <2> QED BY <2>1, <2>3
<1>5. ASSUME NEW c \in Conns, Teardown(c) PROVE queues'[r] = << >>
  <2>1. byClient'[r] \subseteq byClient[r] /\ queues' = queues
    BY <1>0, <1>5 DEF Teardown, Release, Unregister, reg
  <2> QED BY <2>1
<1>6. CASE UNCHANGED vars
  BY <1>1, <1>6 DEF vars
<1>7. CASE Next
  <2> PICK c \in Conns : Upgrade(c) \/ Receive(c) \/ Resolve(c)
                           \/ Send(c) \/ Write(c) \/ Flush(c)
    BY <1>7 DEF Next
  <2>1. CASE Upgrade(c)
    BY <2>1, <1>1, <1>2 DEF Upgrade, RejectOrigin, RejectLimit, AcceptReturns, AcceptRaises, reg
  <2>2. CASE Receive(c)
    BY <2>2, <1>1 DEF Receive, ReceiveOverLimit, ReceiveSimple, ReceiveTimeout,
                      ReceiveEnds, StartAuthenticate, reg
  <2>3. CASE Resolve(c)
    BY <2>3, <1>1, <1>3 DEF Resolve, AuthenticateFails, AuthenticateRaises, reg
  <2>4. CASE Send(c)
    BY <2>4, <1>1, <1>4 DEF Send, SendMismatch, SendConnected, reg
  <2>5. CASE Write(c)
    BY <2>5, <1>1 DEF Write, WriterTakes, WriterSends, WriterFails, WriterBreaks, reg
  <2>6. CASE Flush(c)
    BY <2>6, <1>5 DEF Flush, FlushDone, FlushExpires
  <2> QED BY <2>1, <2>2, <2>3, <2>4, <2>5, <2>6
<1> QED BY <1>6, <1>7

\* No message ever waits in the offline queue of an account that has a
\* registered connection: routing and the hand-over at authentication leave
\* no window between asking the registry and using the queue.
THEOREM NoMailTheorem == Spec => []NoMailWhileConnected
<1>1. Init => NoMailWhileConnected
  BY DEF Init, NoMailWhileConnected, IsConnected
<1>2. TypeInv /\ NoMailWhileConnected /\ [Next]_vars
        => (TypeInv /\ NoMailWhileConnected)'
  BY NextType, NextNoMail
<1> QED BY InitType, <1>1, <1>2, PTL DEF Spec

=============================================================================
