--------------------------- MODULE DeliveryProofs ---------------------------
(* Theorems about Transport: the bounds, why a receipt is lost or refused, *)
(* and where receipts go, for every value of the constants.                *)
EXTENDS TransportProofs, FiniteSetTheorems

-----------------------------------------------------------------------------
(* The bounds.                                                             *)

BoundedInv == TypeInv /\ Bounded

\* Connections and recipients are counted among finitely many.
LEMMA CountedAreFinite ==
    /\ \A S : S \subseteq Conns => IsFiniteSet(S) /\ Cardinality(S) \in Nat
    /\ \A q : IsFiniteSet(Recipients(q)) /\ RecipientCount(q) \in Nat
<1>1. IsFiniteSet(Conns) /\ IsFiniteSet(Names)
  BY TransportAssumption, QueueAssumption
<1>2. ASSUME NEW S, S \subseteq Conns PROVE IsFiniteSet(S) /\ Cardinality(S) \in Nat
  BY <1>1, <1>2, FS_Subset, FS_CardinalityType
<1>3. ASSUME NEW q PROVE IsFiniteSet(Recipients(q)) /\ RecipientCount(q) \in Nat
  <2>1. Recipients(q) \subseteq Names
    BY DEF Recipients
  <2> QED BY <1>1, <2>1, FS_Subset, FS_CardinalityType DEF RecipientCount
<1> QED BY <1>2, <1>3

\* A set that a step enlarges by one element at most, and only below a bound,
\* stays within it (the registry at register, the recipients at enqueue).
LEMMA OneMoreFits ==
    ASSUME NEW S, IsFiniteSet(S), NEW x, NEW T, T \subseteq S \cup {x},
           NEW bound \in Nat, Cardinality(S) < bound
    PROVE  Cardinality(T) <= bound
<1>1. /\ IsFiniteSet(S \cup {x})
      /\ Cardinality(S \cup {x}) =
           IF x \in S THEN Cardinality(S) ELSE Cardinality(S) + 1
  BY FS_AddElement, Zenon
<1>2. Cardinality(S) \in Nat
  BY FS_CardinalityType
<1>3. Cardinality(S \cup {x}) <= bound
  BY <1>1, <1>2
<1>4. Cardinality(T) <= Cardinality(S \cup {x}) /\ Cardinality(T) \in Nat
  BY <1>1, FS_Subset, FS_CardinalityType
<1>5. Cardinality(S \cup {x}) \in Nat
  BY <1>1, FS_CardinalityType
<1> QED BY <1>3, <1>4, <1>5

\* A step that adds no connection and no entry to the offline queue.
LEMMA NothingAddedKeepsBounds ==
    ASSUME BoundedInv, TypeInv', connections' \subseteq connections,
           \A r \in Names : queues'[r] \in {queues[r], << >>}
    PROVE  BoundedInv'
<1>1. Cardinality(connections') <= MaxTotalConnections
  <2>1. IsFiniteSet(connections) /\ Cardinality(connections) \in Nat
    BY CountedAreFinite DEF BoundedInv, TypeInv, TypeOK
  <2>2. Cardinality(connections') <= Cardinality(connections) /\ Cardinality(connections') \in Nat
    BY <2>1, FS_Subset, FS_CardinalityType
  <2> QED BY <2>1, <2>2, TransportAssumption DEF BoundedInv, Bounded
<1>2. \A r \in Names : Len(queues'[r]) <= MaxQueuedPerRecipient
  BY QueueAssumption DEF BoundedInv, Bounded
<1>3. RecipientCount(queues') <= MaxQueuedRecipients
  <2>1. Recipients(queues') \subseteq Recipients(queues)
    BY DEF Recipients
  <2>2. RecipientCount(queues') <= RecipientCount(queues)
    BY <2>1, CountedAreFinite, FS_Subset DEF RecipientCount
  <2>3. RecipientCount(queues') \in Nat /\ RecipientCount(queues) \in Nat
    BY CountedAreFinite
  <2> QED BY <2>2, <2>3, QueueAssumption DEF BoundedInv, Bounded
<1> QED BY <1>1, <1>2, <1>3 DEF BoundedInv, Bounded, TypeInv, OutboundBounded

\* register asks for room first.
LEMMA RegisterKeepsBounds ==
    ASSUME BoundedInv, TypeInv', NEW c \in Conns, Register(c)
    PROVE  BoundedInv'
<1>1. connections' = connections \cup {c} /\ queues' = queues
      /\ ~(Cardinality(connections) >= MaxTotalConnections)
  BY DEF Register, AtLimit
<1>2. Cardinality(connections') <= MaxTotalConnections
  <2>1. IsFiniteSet(connections) /\ Cardinality(connections) \in Nat
    BY CountedAreFinite DEF BoundedInv, TypeInv, TypeOK
  <2>2. MaxTotalConnections \in Nat /\ Cardinality(connections) < MaxTotalConnections
    BY <1>1, <2>1, TransportAssumption
  <2> QED BY <1>1, <2>1, <2>2, OneMoreFits
<1> QED BY <1>1, <1>2 DEF BoundedInv, Bounded, TypeInv, OutboundBounded

\* enqueue asks for room in both dimensions first.
LEMMA EnqueueKeepsBounds ==
    ASSUME BoundedInv, TypeInv', NEW r \in Names, NEW id \in 1 .. MaxSends,
           QueueAccepts(queues, r), queues' = Enqueue(queues, r, id), UNCHANGED connections
    PROVE  BoundedInv'
<1>1. /\ queues \in [Names -> Seq(1 .. MaxSends)]
      /\ queues' = [queues EXCEPT ![r] = Append(queues[r], id)]
  BY DEF BoundedInv, TypeInv, TypeOK, Enqueue
<1>2. \A x \in Names : Len(queues'[x]) <= MaxQueuedPerRecipient
  <2> TAKE x \in Names
  <2>1. CASE x = r
    <3>1. queues[r] \in Seq(1 .. MaxSends) /\ Len(queues[r]) < MaxQueuedPerRecipient
      BY <1>1 DEF QueueAccepts
    <3>2. queues'[x] = Append(queues[r], id)
      BY <1>1, <2>1
    <3> QED BY <3>1, <3>2, QueueAssumption
  <2>2. CASE x # r
    BY <1>1, <2>2 DEF BoundedInv, Bounded
  <2> QED BY <2>1, <2>2
<1>3. RecipientCount(queues') <= MaxQueuedRecipients
  <2>1. Recipients(queues') \subseteq Recipients(queues) \cup {r}
    BY <1>1 DEF Recipients
  <2>2. /\ IsFiniteSet(Recipients(queues)) /\ Cardinality(Recipients(queues)) \in Nat
        /\ RecipientCount(queues') = Cardinality(Recipients(queues'))
        /\ RecipientCount(queues) = Cardinality(Recipients(queues))
    BY CountedAreFinite DEF RecipientCount
  <2>3. CASE queues[r] = << >>
    <3>1. MaxQueuedRecipients \in Nat /\ Cardinality(Recipients(queues)) < MaxQueuedRecipients
      BY <2>2, <2>3, QueueAssumption DEF QueueAccepts
    <3> QED BY <2>1, <2>2, <3>1, OneMoreFits
  <2>4. CASE queues[r] # << >>
    <3>1. Recipients(queues') \subseteq Recipients(queues)
      BY <2>1, <2>4 DEF Recipients
    <3>2. Cardinality(Recipients(queues')) <= Cardinality(Recipients(queues))
      BY <2>2, <3>1, FS_Subset
    <3>3. Cardinality(Recipients(queues')) \in Nat
      BY <2>2, CountedAreFinite
    <3> QED BY <2>2, <3>2, <3>3, QueueAssumption DEF BoundedInv, Bounded
  <2> QED BY <2>3, <2>4
<1> QED BY <1>2, <1>3 DEF BoundedInv, Bounded, TypeInv, OutboundBounded

\* No step passes a bound.
LEMMA NextBounded == BoundedInv /\ [Next]_vars => BoundedInv'
<1> SUFFICES ASSUME BoundedInv, [Next]_vars PROVE BoundedInv'
  OBVIOUS
<1>1. TypeInv /\ TypeInv'
  BY NextType DEF BoundedInv
<1> DEFINE Kept == /\ connections' \subseteq connections
                   /\ \A r \in Names : queues'[r] \in {queues[r], << >>}
<1>2. Kept => BoundedInv'
  BY <1>1, NothingAddedKeepsBounds
<1>3. CASE UNCHANGED vars
  <2>1. Kept
    BY <1>3 DEF vars
  <2> QED BY <2>1, <1>2
<1>4. CASE Next
  <2> PICK c \in Conns : Upgrade(c) \/ Receive(c) \/ Resolve(c)
                           \/ Send(c) \/ Write(c) \/ Flush(c)
    BY <1>4 DEF Next
  <2>1. CASE Upgrade(c)
    <3>1. CASE Register(c)
      BY <1>1, <3>1, RegisterKeepsBounds
    <3>2. CASE ~Register(c)
      <4>1. Kept
        BY <2>1, <3>2 DEF Upgrade, RejectOrigin, RejectLimit, AcceptReturns, AcceptRaises, reg
      <4> QED BY <4>1, <1>2
    <3> QED BY <3>1, <3>2
  <2>2. CASE Receive(c)
    <3>1. Kept
      BY <2>2 DEF Receive, ReceiveOverLimit, ReceiveSimple, ReceiveTimeout,
                  ReceiveEnds, StartAuthenticate, reg
    <3> QED BY <3>1, <1>2
  <2>3. CASE Resolve(c)
    <3>1. CASE AuthenticateFails(c) \/ AuthenticateRaises(c)
      <4>1. Kept
        BY <3>1 DEF AuthenticateFails, AuthenticateRaises, reg
      <4> QED BY <4>1, <1>2
    <3>2. ASSUME NEW u \in Users, AuthenticateSucceeds(c, u) PROVE BoundedInv'
      <4>1. Kept
        BY <1>1, <3>2, TransportAssumption DEF AuthenticateSucceeds, Drain, TypeInv, TypeOK
      <4> QED BY <4>1, <1>2
    <3> QED BY <2>3, <3>1, <3>2 DEF Resolve
  <2>4. CASE Send(c)
    <3> PICK claimed \in Names, to \in Names, encodable \in BOOLEAN :
            SendMismatch(c, claimed, to) \/ SendConnected(c, claimed, to, encodable)
              \/ SendOffline(c, claimed, to, encodable)
      BY <2>4 DEF Send
    <3>1. CASE Kept
      BY <3>1, <1>2
    <3>2. CASE ~Kept
      <4>1. SendOffline(c, claimed, to, encodable) /\ queues' # queues
        BY <3>2 DEF SendMismatch, SendConnected, SendOffline, reg
      <4>2. /\ QueueAccepts(queues, to) /\ queues' = Enqueue(queues, to, Len(sent) + 1)
            /\ UNCHANGED connections /\ Len(sent) < MaxSends
        BY <4>1 DEF SendOffline, reg
      <4>3. Len(sent) + 1 \in 1 .. MaxSends
        BY <1>1, <4>2, TransportAssumption DEF TypeInv, TypeOK
      <4> QED BY <1>1, <4>2, <4>3, EnqueueKeepsBounds
    <3> QED BY <3>1, <3>2
  <2>5. CASE Write(c)
    <3>1. Kept
      BY <2>5 DEF Write, WriterTakes, WriterSends, WriterFails, WriterBreaks, reg
    <3> QED BY <3>1, <1>2
  <2>6. CASE Flush(c)
    <3>1. Kept
      BY <2>6 DEF Flush, FlushDone, FlushExpires, Teardown, Release, Unregister, reg
    <3> QED BY <3>1, <1>2
  <2> QED BY <2>1, <2>2, <2>3, <2>4, <2>5, <2>6
<1> QED BY <1>3, <1>4

LEMMA InitBounded == Init => BoundedInv
<1> SUFFICES ASSUME Init PROVE BoundedInv
  OBVIOUS
<1>1. TypeInv
  BY InitType
<1>2. Cardinality(connections) = 0
  BY FS_EmptySet DEF Init
<1>3. RecipientCount(queues) = 0
  <2>1. Recipients(queues) = {}
    BY DEF Init, Recipients
  <2> QED BY <2>1, FS_EmptySet DEF RecipientCount
<1>4. \A r \in Names : Len(queues[r]) = 0
  BY DEF Init
<1> QED BY <1>1, <1>2, <1>3, <1>4, TransportAssumption, QueueAssumption
        DEF BoundedInv, Bounded, TypeInv, OutboundBounded

\* However many clients connect and send, no bound of the configuration is
\* passed: connections, outbound queues, offline queues, offline recipients.
THEOREM BoundedTheorem == Spec => []Bounded
<1>1. BoundedInv => Bounded
  BY DEF BoundedInv
<1> QED BY <1>1, InitBounded, NextBounded, PTL DEF Spec

-----------------------------------------------------------------------------
(* What join() counts, and why a receipt is lost.                          *)

\* Unless the writer has returned, the unfinished tasks of an outbound queue
\* are the frames it holds and the one inside send_json: only a writer that
\* returns reports a frame twice, and one that breaks reports it once.
JoinCounts ==
    \A c \in Conns :
        /\ writer[c] = "sending" => unfinished[c] = Len(outbound[c]) + 1
        /\ writer[c] \in {"none", "waiting", "broken"} => unfinished[c] = Len(outbound[c])

\* A step that only puts frames is counted frame by frame.
LEMMA PutsAreCounted ==
    ASSUME TypeInv, TypeInv', JoinCounts, CountPuts,
           \A x \in Conns : /\ writer'[x] = "sending" <=> writer[x] = "sending"
                            /\ writer'[x] = "dead" <=> writer[x] = "dead"
    PROVE  JoinCounts'
<1> SUFFICES ASSUME NEW c \in Conns
             PROVE  /\ writer'[c] = "sending" => unfinished'[c] = Len(outbound'[c]) + 1
                    /\ writer'[c] \in {"none", "waiting", "broken"}
                         => unfinished'[c] = Len(outbound'[c])
  BY DEF JoinCounts
<1>1. unfinished'[c] = unfinished[c] + Len(outbound'[c]) - Len(outbound[c])
  BY DEF CountPuts
<1>2. Len(outbound[c]) \in Nat /\ Len(outbound'[c]) \in Nat
  BY DEF TypeInv, TypeOK
<1>3. CASE writer'[c] = "sending"
  <2>1. unfinished[c] = Len(outbound[c]) + 1
    BY <1>3 DEF JoinCounts
  <2>2. unfinished'[c] = Len(outbound'[c]) + 1
    <3>1. \A n, p, q \in Nat : n = q + 1 => n + p - q = p + 1
      OBVIOUS
    <3>2. unfinished[c] \in Nat
      BY DEF TypeInv, TypeOK
    <3> QED BY <1>1, <1>2, <2>1, <3>1, <3>2, Zenon
  <2> QED BY <1>3, <2>2
<1>4. CASE writer'[c] \in {"none", "waiting", "broken"}
  <2>1. writer[c] \in {"none", "waiting", "broken"}
    BY <1>4 DEF TypeInv, TypeOK, Writer
  <2>2. unfinished[c] = Len(outbound[c])
    BY <2>1 DEF JoinCounts
  <2> QED BY <1>1, <1>2, <1>4, <2>2
<1> QED BY <1>3, <1>4

\* A step that touches neither the queues nor the writers.
LEMMA CountLeftAlone ==
    ASSUME JoinCounts, UNCHANGED << unfinished, outbound, writer >>
    PROVE  JoinCounts'
BY DEF JoinCounts

\* The steps of the writer: what it takes it has still to report.
LEMMA WriteKeepsCount ==
    ASSUME TypeInv, JoinCounts, NEW c \in Conns, Write(c)
    PROVE  JoinCounts'
<1>0. /\ outbound \in [Conns -> Seq(Frame)] /\ unfinished \in [Conns -> Nat]
      /\ writer \in [Conns -> Writer]
  BY DEF TypeInv, TypeOK
<1> SUFFICES ASSUME NEW x \in Conns
             PROVE  /\ writer'[x] = "sending" => unfinished'[x] = Len(outbound'[x]) + 1
                    /\ writer'[x] \in {"none", "waiting", "broken"}
                         => unfinished'[x] = Len(outbound'[x])
  BY DEF JoinCounts
<1>1. CASE WriterTakes(c)
  <2>1. CASE x = c
    <3>1. /\ writer[c] = "waiting" /\ outbound[c] # << >> /\ outbound[c] \in Seq(Frame)
          /\ outbound'[c] = Tail(outbound[c]) /\ writer'[c] = "sending"
          /\ unfinished'[c] = unfinished[c]
      BY <1>0, <1>1 DEF WriterTakes
    <3>2. Len(Tail(outbound[c])) = Len(outbound[c]) - 1 /\ Len(outbound[c]) \in Nat
      BY <3>1
    <3>3. unfinished[c] = Len(outbound[c])
      BY <3>1, <3>2 DEF JoinCounts
    <3> QED BY <2>1, <3>1, <3>2, <3>3
  <2>2. CASE x # c
    BY <1>0, <1>1, <2>2 DEF WriterTakes, JoinCounts
  <2> QED BY <2>1, <2>2
<1>2. CASE WriterSends(c)
  <2>1. CASE x = c
    <3>1. /\ writer[c] = "sending" /\ outbound'[c] = outbound[c] /\ writer'[c] = "waiting"
          /\ unfinished'[c] = TaskDone(unfinished[c])
      BY <1>0, <1>2 DEF WriterSends
    <3>2. unfinished[c] = Len(outbound[c]) + 1 /\ Len(outbound[c]) \in Nat
      BY <1>0, <3>1 DEF JoinCounts
    <3> QED BY <2>1, <3>1, <3>2 DEF TaskDone
  <2>2. CASE x # c
    BY <1>0, <1>2, <2>2 DEF WriterSends, JoinCounts
  <2> QED BY <2>1, <2>2
<1>3. CASE WriterFails(c)
  <2>1. CASE x = c
    BY <1>0, <1>3, <2>1 DEF WriterFails
  <2>2. CASE x # c
    BY <1>0, <1>3, <2>2 DEF WriterFails, JoinCounts
  <2> QED BY <2>1, <2>2
<1>4. CASE WriterBreaks(c)
  <2>1. CASE x = c
    <3>1. /\ writer[c] = "sending" /\ outbound'[c] = outbound[c] /\ writer'[c] = "broken"
          /\ unfinished'[c] = TaskDone(unfinished[c])
      BY <1>0, <1>4 DEF WriterBreaks
    <3>2. unfinished[c] = Len(outbound[c]) + 1 /\ Len(outbound[c]) \in Nat
      BY <1>0, <3>1 DEF JoinCounts
    <3> QED BY <2>1, <3>1, <3>2 DEF TaskDone
  <2>2. CASE x # c
    BY <1>0, <1>4, <2>2 DEF WriterBreaks, JoinCounts
  <2> QED BY <2>1, <2>2
<1> QED BY <1>1, <1>2, <1>3, <1>4 DEF Write

\* After the flush no writer is inside send_json and nothing is left to count.
LEMMA FlushedWriter ==
    ASSUME TypeInv, NEW c \in Conns, Teardown(c)
    PROVE  /\ writer'[c] \in {"none", "broken"}
           /\ unfinished'[c] = 0 /\ outbound'[c] = << >> /\ Len(outbound'[c]) = 0
<1>1. unfinished'[c] = 0 /\ outbound'[c] = << >>
  BY DEF Teardown, TypeInv, TypeOK
<1>2. writer'[c] \in {"none", "broken"}
  BY DEF Teardown, Release, TypeInv, TypeOK
<1> QED BY <1>1, <1>2

JoinInv == TypeInv /\ JoinCounts

LEMMA NextJoin == JoinInv /\ [Next]_vars => JoinInv'
<1> SUFFICES ASSUME JoinInv, [Next]_vars PROVE JoinInv'
  OBVIOUS
<1>1. TypeInv /\ TypeInv' /\ JoinCounts
  BY NextType DEF JoinInv
<1>2. CountPuts /\ UNCHANGED writer => JoinCounts'
  BY <1>1, PutsAreCounted
<1>3. UNCHANGED << unfinished, outbound, writer >> => JoinCounts'
  BY <1>1, CountLeftAlone
<1>4. CASE UNCHANGED vars
  BY <1>1, <1>3, <1>4 DEF vars, JoinInv
<1>5. CASE Next
  <2> PICK c \in Conns : Upgrade(c) \/ Receive(c) \/ Resolve(c)
                           \/ Send(c) \/ Write(c) \/ Flush(c)
    BY <1>5 DEF Next
  <2>1. CASE Upgrade(c)
    <3>1. CASE AcceptReturns(c)
      <4>1. writer[c] = "none" /\ writer' = [writer EXCEPT ![c] = "waiting"] /\ CountPuts
        BY <1>1, <3>1 DEF AcceptReturns, TypeInv, WriterHolds
      <4>2. \A x \in Conns : /\ writer'[x] = "sending" <=> writer[x] = "sending"
                             /\ writer'[x] = "dead" <=> writer[x] = "dead"
        BY <1>1, <4>1 DEF TypeInv, TypeOK
      <4>3. JoinCounts'
        BY <1>1, <4>1, <4>2, PutsAreCounted
      <4> QED BY <1>1, <4>3 DEF JoinInv
    <3>2. CASE ~AcceptReturns(c)
      <4>1. UNCHANGED << unfinished, outbound, writer >>
        BY <2>1, <3>2 DEF Upgrade, RejectOrigin, RejectLimit, Register, AcceptRaises, io
      <4> QED BY <1>1, <1>3, <4>1 DEF JoinInv
    <3> QED BY <3>1, <3>2
  <2>2. CASE Receive(c)
    <3>1. \/ CountPuts /\ UNCHANGED writer
          \/ UNCHANGED << unfinished, outbound, writer >>
      BY <2>2 DEF Receive, ReceiveOverLimit, ReceiveSimple, ReceiveTimeout, ReceiveEnds,
                  StartAuthenticate, Respond, io
    <3> QED BY <1>1, <1>2, <1>3, <3>1 DEF JoinInv
  <2>3. CASE Resolve(c)
    <3>1. \/ CountPuts /\ UNCHANGED writer
          \/ UNCHANGED << unfinished, outbound, writer >>
      BY <2>3 DEF Resolve, AuthenticateFails, AuthenticateRaises, AuthenticateSucceeds,
                  Respond, io
    <3> QED BY <1>1, <1>2, <1>3, <3>1 DEF JoinInv
  <2>4. CASE Send(c)
    <3>1. CountPuts /\ UNCHANGED writer
      BY <2>4 DEF Send, SendMismatch, SendConnected, SendOffline, Respond, io
    <3> QED BY <1>1, <1>2, <3>1 DEF JoinInv
  <2>5. CASE Write(c)
    BY <1>1, <2>5, WriteKeepsCount DEF JoinInv
  <2>6. CASE Flush(c)
    <3>1. Teardown(c)
      BY <2>6 DEF Flush, FlushDone, FlushExpires
    <3>2. JoinCounts'
      <4> SUFFICES ASSUME NEW x \in Conns
                   PROVE  /\ writer'[x] = "sending" => unfinished'[x] = Len(outbound'[x]) + 1
                          /\ writer'[x] \in {"none", "waiting", "broken"}
                               => unfinished'[x] = Len(outbound'[x])
        BY DEF JoinCounts
      <4>1. CASE x = c
        BY <1>1, <3>1, <4>1, FlushedWriter
      <4>2. CASE x # c
        BY <1>1, <3>1, <4>2 DEF Teardown, Release, JoinCounts, TypeInv, TypeOK
      <4> QED BY <4>1, <4>2
    <3> QED BY <1>1, <3>2 DEF JoinInv
  <2> QED BY <2>1, <2>2, <2>3, <2>4, <2>5, <2>6
<1> QED BY <1>4, <1>5

\* Among frames without a receipt there is none to lose.
LEMMA NoReceiptAmongControls ==
    /\ Receipts(<< Control >>) = {}
    /\ Receipts(<< Control, Control >>) = {}
    /\ Receipts(<< >>) = {}
    /\ Receipts(<< Idle >>) = {}
BY DEF Receipts, Receipt, Control, Idle

\* The receipts of a part are among the receipts of the whole.
LEMMA ReceiptsOfPart ==
    ASSUME NEW S, NEW q \in Seq(S), NEW m \in Nat \ {0}, NEW n \in 0 .. Len(q)
    PROVE  Receipts(SubSeq(q, m, n)) \subseteq Receipts(q)
<1>1. \A k \in m .. n : q[k] \in S
  OBVIOUS
<1>2. /\ Len(SubSeq(q, m, n)) = IF m <= n THEN n - m + 1 ELSE 0
      /\ \A k \in 1 .. n - m + 1 : SubSeq(q, m, n)[k] = q[m + k - 1]
  BY <1>1, SubSeqProperties
<1>3. ASSUME NEW k \in 1 .. Len(SubSeq(q, m, n))
      PROVE  m + k - 1 \in 1 .. Len(q) /\ SubSeq(q, m, n)[k] = q[m + k - 1]
  BY <1>2
<1> QED BY <1>3 DEF Receipts

\* The response loop loses no receipt unless it was given one, and then only
\* with the connection.
LEMMA RespondLoses ==
    ASSUME TypeInv, NEW c \in Conns, NEW frames \in Seq(Frame),
           NEW boxes \in [Conns -> Seq(Frame)], Len(boxes[c]) <= MaxPendingOutbound,
           Respond(c, boxes, frames),
           NEW x \in Conns, dropped'[x] # dropped[x]
    PROVE  x = c /\ phase'[c] = "closing" /\ Receipts(frames) # {}
<1> DEFINE k == Fits(boxes[c], frames)
           rest == SubSeq(frames, k + 1, Len(frames))
<1>1. k \in 0 .. Len(frames)
  BY FitsRange
<1> HIDE DEF k
<1>2. /\ dropped' = [dropped EXCEPT ![c] = @ \cup Receipts(rest)]
      /\ phase' = [phase EXCEPT ![c] = IF k = Len(frames) THEN "open" ELSE "closing"]
  BY DEF Respond, k
<1>3. Receipts(rest) \subseteq Receipts(frames)
  BY <1>1, ReceiptsOfPart
<1>4. x = c /\ Receipts(rest) # {}
  BY <1>2 DEF TypeInv, TypeOK
<1>5. k # Len(frames)
  <2>1. ASSUME k = Len(frames) PROVE FALSE
    <3>1. rest = << >>
      BY <1>1, <2>1, SubSeqEmpty
    <3> QED BY <1>4, <3>1, NoReceiptAmongControls
  <2> QED BY <2>1
<1> HIDE DEF rest
<1> QED BY <1>2, <1>3, <1>4, <1>5 DEF TypeInv, TypeOK

\* A step in which a receipt is lost, and its cause.
LossCaused ==
    \A c \in Conns : dropped'[c] # dropped[c] =>
         \/ writer[c] = "sending" /\ writer'[c] = "dead"
         \/ writer'[c] = "broken" /\ dropped'[c] \ dropped[c] = {sending[c]}
              /\ ~Encodable(sending[c])
         \/ phase[c] = "closing" /\ (unfinished[c] # 0 \/ writer[c] = "dead")
         \/ phase[c] = "resolving" /\ phase'[c] = "closing"

\* The finally clause: a join() that returns has flushed everything, unless
\* the writer had returned before.
LEMMA FlushLoses ==
    ASSUME JoinInv, NEW c \in Conns, Flush(c)
    PROVE  LossCaused
<1> SUFFICES ASSUME NEW x \in Conns, dropped'[x] # dropped[x]
             PROVE  phase[x] = "closing" /\ (unfinished[x] # 0 \/ writer[x] = "dead")
  BY DEF LossCaused
<1>1. Teardown(c) /\ phase[c] = "closing"
  BY DEF Flush, FlushDone, FlushExpires
<1>2. x = c
  <2>1. dropped \in [Conns -> SUBSET (1 .. MaxSends)]
    BY DEF JoinInv, TypeInv, TypeOK
  <2>2. PICK more : dropped' = [dropped EXCEPT ![c] = @ \cup more]
    BY <1>1 DEF Teardown
  <2> QED BY <2>1, <2>2
<1>3. ASSUME unfinished[c] = 0, writer[c] # "dead" PROVE FALSE
  <2>1. Len(outbound[c]) \in Nat /\ outbound[c] \in Seq(Frame) /\ writer[c] \in Writer
    BY DEF JoinInv, TypeInv, TypeOK
  <2>2. writer[c] # "sending" /\ Len(outbound[c]) = 0
    BY <1>3, <2>1 DEF JoinInv, JoinCounts, Writer
  <2>3. sending[c] = Idle /\ outbound[c] = << >>
    BY <2>1, <2>2 DEF JoinInv, TypeInv, WriterHolds
  <2>4. << sending[c] >> \o outbound[c] = << Idle >>
    BY <2>3
  <2>5. dropped' = [dropped EXCEPT ![c] = @ \cup Receipts(<< Idle >>)]
    BY <1>1, <2>2, <2>4 DEF Teardown
  <2>6. dropped'[c] = dropped[c]
    BY <2>5, NoReceiptAmongControls DEF JoinInv, TypeInv, TypeOK
  <2> QED BY <1>2, <2>6
<1> QED BY <1>1, <1>2, <1>3

\* Every other step.
LEMMA NextLoses == JoinInv /\ [Next]_vars => [LossCaused]_vars
<1> SUFFICES ASSUME JoinInv, Next PROVE LossCaused
  OBVIOUS
<1>1. TypeInv
  BY DEF JoinInv
<1>2. UNCHANGED dropped => LossCaused
  BY DEF LossCaused
<1> PICK c \in Conns : Upgrade(c) \/ Receive(c) \/ Resolve(c)
                         \/ Send(c) \/ Write(c) \/ Flush(c)
  BY DEF Next
<1>3. << Control >> \in Seq(Frame) /\ << Control, Control >> \in Seq(Frame)
  BY FrameConstants
<1>4. outbound \in [Conns -> Seq(Frame)] /\ \A x \in Conns : Len(outbound[x]) <= MaxPendingOutbound
  BY <1>1 DEF TypeInv, TypeOK, OutboundBounded
<1>5. ASSUME NEW frames \in {<< Control >>, << Control, Control >>}, Respond(c, outbound, frames)
      PROVE  LossCaused
  <2>1. Receipts(frames) = {} /\ frames \in Seq(Frame)
    BY <1>3, NoReceiptAmongControls
  <2> QED BY <1>1, <1>4, <1>5, <2>1, RespondLoses DEF LossCaused
<1>6. CASE Upgrade(c)
  BY <1>2, <1>6 DEF Upgrade, RejectOrigin, RejectLimit, Register, AcceptReturns, AcceptRaises
<1>7. CASE Receive(c)
  BY <1>2, <1>5, <1>7 DEF Receive, ReceiveOverLimit, ReceiveSimple, ReceiveTimeout,
                          ReceiveEnds, StartAuthenticate
<1>8. CASE Resolve(c)
  <2>1. ASSUME NEW u \in Users, AuthenticateSucceeds(c, u) PROVE LossCaused
    <3>1. u \in Names
      BY TransportAssumption
    <3>2. AuthResponses(c, u) \in Seq(Frame)
      <4>1. queues[u] \in Seq(Frame)
        BY <1>1, <3>1, TransportAssumption DEF TypeInv, TypeOK, Frame
      <4> QED BY <4>1, FrameConstants DEF AuthResponses
    <3>3. Respond(c, outbound, AuthResponses(c, u)) /\ phase[c] = "resolving"
      BY <2>1 DEF AuthenticateSucceeds
    <3> QED BY <1>1, <1>4, <3>2, <3>3, RespondLoses DEF LossCaused
  <2> QED BY <1>2, <1>5, <1>8, <2>1 DEF Resolve, AuthenticateFails, AuthenticateRaises
<1>9. CASE Send(c)
  <2> PICK claimed \in Names, to \in Names, encodable \in BOOLEAN :
          SendMismatch(c, claimed, to) \/ SendConnected(c, claimed, to, encodable)
            \/ SendOffline(c, claimed, to, encodable)
    BY <1>9 DEF Send
  <2>1. CASE SendConnected(c, claimed, to, encodable)
    <3> DEFINE id == Len(sent) + 1
               takers == {t \in ConnectionsFor(to) : Accepts(t)}
               boxes == [t \in Conns |-> IF t \in takers THEN Append(outbound[t], id)
                                                         ELSE outbound[t]]
    <3>1. id \in Frame
      BY <1>1, <2>1, TransportAssumption DEF SendConnected, Frame, TypeInv, TypeOK
    <3>2. boxes \in [Conns -> Seq(Frame)]
      BY <1>4, <3>1
    <3>3. Len(boxes[c]) <= MaxPendingOutbound
      <4>1. CASE c \in takers
        BY <1>4, <3>1, <4>1, TransportAssumption DEF Accepts
      <4>2. CASE c \notin takers
        BY <1>4, <4>2
      <4> QED BY <4>1, <4>2
    <3>4. Respond(c, boxes, << Control >>)
      BY <2>1 DEF SendConnected
    <3> HIDE DEF boxes
    <3> QED BY <1>1, <1>3, <3>2, <3>3, <3>4, NoReceiptAmongControls, RespondLoses DEF LossCaused
  <2> QED BY <1>5, <2>1 DEF SendMismatch, SendOffline
<1>10. CASE Write(c)
  <2>1. ASSUME WriterFails(c) PROVE LossCaused
    BY <1>1, <2>1 DEF WriterFails, LossCaused, TypeInv, TypeOK
  <2>2. ASSUME WriterBreaks(c), NEW x \in Conns, dropped'[x] # dropped[x]
        PROVE  /\ writer'[x] = "broken" /\ dropped'[x] \ dropped[x] = {sending[x]}
               /\ ~Encodable(sending[x])
    <3>1. /\ writer' = [writer EXCEPT ![c] = "broken"]
          /\ dropped' = [dropped EXCEPT ![c] = @ \cup Receipts(<< sending[c] >>)]
          /\ ~Encodable(sending[c])
      BY <2>2 DEF WriterBreaks
    <3>2. Receipts(<< sending[c] >>) = {sending[c]}
      BY <3>1 DEF Receipts, Encodable
    <3>3. dropped \in [Conns -> SUBSET (1 .. MaxSends)] /\ writer \in [Conns -> Writer]
      BY <1>1 DEF TypeInv, TypeOK
    <3>4. x = c
      BY <2>2, <3>1, <3>3
    <3>5. dropped'[c] = dropped[c] \cup {sending[c]} /\ writer'[c] = "broken"
      BY <3>1, <3>2, <3>3
    <3>6. dropped'[c] \ dropped[c] = {sending[c]}
      BY <2>2, <3>4, <3>5
    <3> QED BY <3>1, <3>4, <3>5, <3>6
  <2>3. ASSUME WriterBreaks(c) PROVE LossCaused
    BY <2>2, <2>3 DEF LossCaused
  <2> QED BY <1>2, <1>10, <2>1, <2>3 DEF Write, WriterTakes, WriterSends
<1>11. CASE Flush(c)
  BY <1>11, FlushLoses
<1> QED BY <1>6, <1>7, <1>8, <1>9, <1>10, <1>11

\* A receipt is lost only with a socket that failed, by having no encoding,
\* when a flush expired or its writer had returned, or when a drained queue
\* overflowed the connection it was drained for.
THEOREM LossTheorem == Spec => LossNeedsCause
<1>1. Init => JoinInv
  <2>1. Init => JoinCounts
    BY DEF Init, JoinCounts
  <2> QED BY <2>1, InitType DEF JoinInv
<1>2. LossNeedsCause <=> [][LossCaused]_vars
  BY DEF LossNeedsCause, LossCaused
<1> QED BY <1>1, <1>2, NextJoin, NextLoses, PTL DEF Spec

-----------------------------------------------------------------------------
(* What a connection carries, as a sequence of frames.                     *)

\* What a stream may hold, the empty place of an idle writer included.
Carried == Frame \cup {Idle}

\* Frame x may come before frame y.
Before(x, y) ==
    /\ Receipt(y) => x < y
    /\ y = AuthReady => ~Receipt(x)

Ordered(s) == \A i, j \in 1 .. Len(s) : i < j => Before(s[i], s[j])

\* Nothing speaks against a place without a frame, or against control frames.
LEMMA BeforeMarks ==
    ASSUME NEW x \in Carried
    PROVE  /\ Before(x, Idle) /\ Before(Idle, x)
           /\ Before(x, Control) /\ Before(Control, x)
BY TransportAssumption
   DEF Carried, Frame, Idle, Control, AuthReady, Receipt, Before

\* The receipts of a sequence are those of its frames that are receipts.
LEMMA ReceiptsInRange ==
    ASSUME NEW S, NEW s \in Seq(S)
    PROVE  Receipts(s) = {x \in Range(s) : Receipt(x)}
<1>1. Range(s) = {s[i] : i \in 1 .. Len(s)}
  BY RangeEquality
<1> QED BY <1>1 DEF Receipts

LEMMA RangeOfSingle ==
    ASSUME NEW x
    PROVE  Range(<< x >>) = {x} /\ Ordered(<< x >>)
<1>1. << x >> \in Seq({x}) /\ Len(<< x >>) = 1 /\ << x >>[1] = x
  OBVIOUS
<1>2. Range(<< x >>) = {<< x >>[i] : i \in 1 .. Len(<< x >>)}
  BY <1>1, RangeEquality
<1> QED BY <1>1, <1>2 DEF Ordered

LEMMA RangeOfEmpty == Range(<< >>) = {} /\ Ordered(<< >>)
<1>1. << >> \in Seq({}) /\ Len(<< >>) = 0
  OBVIOUS
<1>2. Range(<< >>) = {<< >>[i] : i \in 1 .. Len(<< >>)}
  BY <1>1, RangeEquality
<1> QED BY <1>1, <1>2 DEF Ordered

LEMMA ReceiptsOfConcat ==
    ASSUME NEW s \in Seq(Carried), NEW t \in Seq(Carried)
    PROVE  Receipts(s \o t) = Receipts(s) \cup Receipts(t)
<1>1. s \o t \in Seq(Carried)
  BY ConcatProperties
<1>2. Range(s \o t) = Range(s) \cup Range(t)
  BY RangeConcatenation
<1>3. /\ Receipts(s \o t) = {x \in Range(s \o t) : Receipt(x)}
      /\ Receipts(s) = {x \in Range(s) : Receipt(x)}
      /\ Receipts(t) = {x \in Range(t) : Receipt(x)}
  BY <1>1, ReceiptsInRange
<1> QED BY <1>2, <1>3

LEMMA ConcatAssociates ==
    ASSUME NEW s \in Seq(Carried), NEW t \in Seq(Carried), NEW u \in Seq(Carried)
    PROVE  (s \o t) \o u = s \o (t \o u)
BY ConcatAssociative

\* Order is order within the parts and from the one to the other.
LEMMA OrderedConcat ==
    ASSUME NEW s \in Seq(Carried), NEW t \in Seq(Carried)
    PROVE  Ordered(s \o t) <=>
             /\ Ordered(s) /\ Ordered(t)
             /\ \A x \in Range(s), y \in Range(t) : Before(x, y)
<1> DEFINE m == Len(s)
           n == Len(t)
           st == s \o t
<1>1. m \in Nat /\ n \in Nat
  OBVIOUS
<1>2. /\ Len(st) = m + n
      /\ \A i \in 1 .. m : st[i] = s[i]
      /\ \A j \in 1 .. n : st[m + j] = t[j]
  <2>1. \A i \in 1 .. m + n : st[i] = IF i <= m THEN s[i] ELSE t[i - m]
    BY ConcatProperties
  <2>2. Len(st) = m + n
    BY ConcatProperties
  <2>3. \A i \in 1 .. m : st[i] = s[i]
    BY <1>1, <2>1
  <2>4. ASSUME NEW j \in 1 .. n PROVE st[m + j] = t[j]
    <3>1. m + j \in 1 .. m + n /\ ~(m + j <= m) /\ (m + j) - m = j
      BY <1>1
    <3> QED BY <2>1, <3>1
  <2> QED BY <2>2, <2>3, <2>4
<1>3. Range(s) = {s[i] : i \in 1 .. m} /\ Range(t) = {t[j] : j \in 1 .. n}
  BY RangeEquality
<1> HIDE DEF m, n, st
<1>4. ASSUME Ordered(st)
      PROVE  /\ Ordered(s) /\ Ordered(t)
             /\ \A x \in Range(s), y \in Range(t) : Before(x, y)
  <2>1. Ordered(s)
    <3>1. \A i \in 1 .. m : i \in 1 .. Len(st)
      BY <1>1, <1>2
    <3> QED BY <1>2, <1>4, <3>1 DEF Ordered, m
  <2>2. ASSUME NEW i \in 1 .. n, NEW j \in 1 .. n, i < j PROVE Before(t[i], t[j])
    <3>1. m + i \in 1 .. Len(st) /\ m + j \in 1 .. Len(st) /\ m + i < m + j
      BY <1>1, <1>2, <2>2
    <3>2. Before(st[m + i], st[m + j])
      BY <1>4, <3>1 DEF Ordered
    <3> QED BY <1>2, <3>2
  <2>3. ASSUME NEW i \in 1 .. m, NEW j \in 1 .. n PROVE Before(s[i], t[j])
    <3>1. i \in 1 .. Len(st) /\ m + j \in 1 .. Len(st) /\ i < m + j
      BY <1>1, <1>2
    <3>2. Before(st[i], st[m + j])
      BY <1>4, <3>1 DEF Ordered
    <3> QED BY <1>2, <3>2
  <2> QED BY <1>3, <2>1, <2>2, <2>3 DEF Ordered, n
<1>5. ASSUME Ordered(s), Ordered(t), \A x \in Range(s), y \in Range(t) : Before(x, y),
             NEW i \in 1 .. Len(st), NEW j \in 1 .. Len(st), i < j
      PROVE  Before(st[i], st[j])
  <2>1. CASE j <= m
    <3>1. i \in 1 .. m /\ j \in 1 .. m
      BY <1>1, <1>2, <1>5, <2>1
    <3> QED BY <1>2, <1>5, <3>1 DEF Ordered, m
  <2>2. CASE i > m
    <3>1. i - m \in 1 .. n /\ j - m \in 1 .. n /\ i - m < j - m
          /\ m + (i - m) = i /\ m + (j - m) = j
      BY <1>1, <1>2, <1>5, <2>2
    <3>2. Before(t[i - m], t[j - m])
      BY <1>5, <3>1 DEF Ordered, n
    <3>3. st[m + (i - m)] = t[i - m] /\ st[m + (j - m)] = t[j - m]
      BY <1>2, <3>1
    <3> QED BY <3>1, <3>2, <3>3
  <2>3. CASE i <= m /\ j > m
    <3>1. i \in 1 .. m /\ j - m \in 1 .. n /\ m + (j - m) = j
      BY <1>1, <1>2, <2>3
    <3>2. st[i] = s[i] /\ st[m + (j - m)] = t[j - m]
      BY <1>2, <3>1
    <3>3. s[i] \in Range(s) /\ t[j - m] \in Range(t)
      BY <1>3, <3>1
    <3> QED BY <1>5, <3>1, <3>2, <3>3
  <2> QED BY <1>1, <1>2, <2>1, <2>2, <2>3
<1> QED BY <1>4, <1>5 DEF Ordered, st

\* The three parts of a stream: what is out, what is being written, what waits.
LEMMA StreamParts ==
    ASSUME NEW R \in Seq(Carried), NEW x \in Carried, NEW O \in Seq(Carried)
    PROVE  /\ R \o << x >> \o O \in Seq(Carried)
           /\ Receipts(R \o << x >> \o O)
                = Receipts(R) \cup Receipts(<< x >>) \cup Receipts(O)
           /\ Range(R \o << x >> \o O) = Range(R) \cup {x} \cup Range(O)
           /\ Ordered(R \o << x >> \o O) <=>
                /\ Ordered(R) /\ Ordered(O)
                /\ \A p \in Range(R) : Before(p, x)
                /\ \A q \in Range(O) : Before(x, q)
                /\ \A p \in Range(R), q \in Range(O) : Before(p, q)
<1> DEFINE X == << x >>
           RX == R \o X
<1>1. X \in Seq(Carried) /\ Range(X) = {x} /\ Ordered(X)
  BY RangeOfSingle
<1> HIDE DEF X
<1>2. RX \in Seq(Carried) /\ Range(RX) = Range(R) \cup {x}
      /\ Receipts(RX) = Receipts(R) \cup Receipts(X)
  BY <1>1, ConcatProperties, RangeConcatenation, ReceiptsOfConcat
<1>3. Ordered(RX) <=> Ordered(R) /\ \A p \in Range(R) : Before(p, x)
  BY <1>1, OrderedConcat
<1> HIDE DEF RX
<1>4. /\ RX \o O \in Seq(Carried)
      /\ Receipts(RX \o O) = Receipts(RX) \cup Receipts(O)
      /\ Range(RX \o O) = Range(RX) \cup Range(O)
      /\ Ordered(RX \o O) <=>
           /\ Ordered(RX) /\ Ordered(O)
           /\ \A p \in Range(RX), q \in Range(O) : Before(p, q)
  <2>1. RX \o O \in Seq(Carried)
    BY <1>2, ConcatProperties
  <2>2. Receipts(RX \o O) = Receipts(RX) \cup Receipts(O)
    BY <1>2, ReceiptsOfConcat
  <2>3. Range(RX \o O) = Range(RX) \cup Range(O)
    BY <1>2, RangeConcatenation
  <2>4. Ordered(RX \o O) <=>
          /\ Ordered(RX) /\ Ordered(O)
          /\ \A p \in Range(RX), q \in Range(O) : Before(p, q)
    BY <1>2, OrderedConcat
  <2> QED BY <2>1, <2>2, <2>3, <2>4
<1>5. Ordered(RX \o O) <=>
        /\ Ordered(R) /\ Ordered(O)
        /\ \A p \in Range(R) : Before(p, x)
        /\ \A q \in Range(O) : Before(x, q)
        /\ \A p \in Range(R), q \in Range(O) : Before(p, q)
  BY <1>2, <1>3, <1>4
<1> QED BY <1>2, <1>4, <1>5 DEF RX, X

\* Every receipt a connection has taken, lost ones included.
Taken(c) == Receipts(Stream(c)) \cup dropped[c]

\* In this step the connection takes the frames offered, in their order, and
\* loses none without a trace.
Takes(c, offered) ==
    /\ Receipts(Stream(c))' \subseteq Receipts(Stream(c)) \cup Receipts(offered)
    /\ Taken(c)' = Taken(c) \cup Receipts(offered)
    /\ Ordered(Stream(c) \o offered) => Ordered(Stream(c))'

\* In this step it takes nothing that matters.
Quiet(c) ==
    /\ Receipts(Stream(c))' \subseteq Receipts(Stream(c))
    /\ Taken(c)' = Taken(c)
    /\ Ordered(Stream(c)) => Ordered(Stream(c))'

LEMMA StreamTypes ==
    ASSUME TypeInv, NEW c \in Conns
    PROVE  /\ received[c] \in Seq(Carried) /\ sending[c] \in Carried
           /\ outbound[c] \in Seq(Carried)
           /\ Stream(c) \in Seq(Carried)
           /\ \A q \in Seq(Frame) : q \in Seq(Carried)
           /\ \A r \in Names : queues[r] \in Seq(Frame)
<1>1. /\ received[c] \in Seq(Frame) /\ outbound[c] \in Seq(Frame) /\ sending[c] \in Carried
      /\ \A r \in Names : queues[r] \in Seq(1 .. MaxSends)
  BY DEF TypeInv, TypeOK, Carried
<1>2. \A q \in Seq(Frame) : q \in Seq(Carried)
  BY SeqMonotonic DEF Carried
<1>3. \A q \in Seq(1 .. MaxSends) : q \in Seq(Frame)
  <2>1. 1 .. MaxSends \subseteq Frame
    BY TransportAssumption DEF Frame
  <2> QED BY <2>1, SeqMonotonic
<1>4. Stream(c) \in Seq(Carried)
  BY <1>1, <1>2, StreamParts DEF Stream
<1> QED BY <1>1, <1>2, <1>3, <1>4

\* A connection whose queues and history stay as they are.
LEMMA UntouchedIsQuiet ==
    ASSUME NEW c \in Conns,
           UNCHANGED << received[c], sending[c], outbound[c], dropped[c] >>
    PROVE  Quiet(c)
<1>1. Stream(c)' = Stream(c)
  BY DEF Stream
<1> QED BY <1>1 DEF Quiet, Taken

\* Control frames carry no receipt and may stand anywhere.
LEMMA ControlsAreQuiet ==
    ASSUME TypeInv, NEW c \in Conns, NEW frames \in Seq({Control}), Takes(c, frames)
    PROVE  Quiet(c)
<1>1. frames \in Seq(Frame)
  <2>1. {Control} \subseteq Frame
    BY FrameConstants
  <2> QED BY <2>1, SeqMonotonic
<1>2. frames \in Seq(Carried) /\ Stream(c) \in Seq(Carried)
  BY <1>1, StreamTypes
<1>3. Receipts(frames) = {}
  BY DEF Receipts, Receipt, Control
<1>4. Ordered(frames)
  BY BeforeMarks, FrameConstants DEF Ordered, Carried
<1>5. Range(frames) \subseteq {Control}
  BY RangeOfSeq
<1>6. Range(Stream(c)) \subseteq Carried
  BY <1>2, RangeOfSeq
<1>7. Ordered(Stream(c)) => Ordered(Stream(c) \o frames)
  BY <1>2, <1>4, <1>5, <1>6, OrderedConcat, BeforeMarks
<1> QED BY <1>3, <1>7 DEF Takes, Quiet

\* The response loop: of the frames offered it queues the first, as many as
\* fit, and drops the others with the connection.
LEMMA RespondParts ==
    ASSUME TypeInv, NEW c \in Conns, NEW frames \in Seq(Frame),
           NEW boxes \in [Conns -> Seq(Frame)], Len(boxes[c]) <= MaxPendingOutbound,
           Respond(c, boxes, frames)
    PROVE  \E kept, gone \in Seq(Frame) :
              /\ frames = kept \o gone
              /\ outbound'[c] = boxes[c] \o kept
              /\ dropped'[c] = dropped[c] \cup Receipts(gone)
              /\ \A x \in Conns : x # c => outbound'[x] = boxes[x] /\ dropped'[x] = dropped[x]
<1> DEFINE k == Fits(boxes[c], frames)
           put == SubSeq(frames, 1, k)
           rest == SubSeq(frames, k + 1, Len(frames))
<1>1. k \in 0 .. Len(frames)
  BY FitsRange
<1> HIDE DEF k
<1>2. put \in Seq(Frame) /\ rest \in Seq(Frame)
  BY <1>1
<1>3. frames = put \o rest
  <2>1. Len(put) = k /\ Len(rest) = Len(frames) - k
    BY <1>1
  <2>2. \A i \in 1 .. k : put[i] = frames[i]
    BY <1>1
  <2>3. \A i \in 1 .. Len(frames) - k : rest[i] = frames[k + i]
    BY <1>1
  <2>4. /\ put \o rest \in Seq(Frame) /\ Len(put \o rest) = Len(frames)
        /\ \A i \in 1 .. Len(frames) :
             (put \o rest)[i] = IF i <= k THEN put[i] ELSE rest[i - k]
    <3> HIDE DEF put, rest
    <3>1. /\ put \o rest \in Seq(Frame) /\ Len(put \o rest) = Len(put) + Len(rest)
          /\ \A i \in 1 .. Len(put) + Len(rest) :
               (put \o rest)[i] = IF i <= Len(put) THEN put[i] ELSE rest[i - Len(put)]
      BY <1>2, ConcatProperties
    <3>2. Len(put) + Len(rest) = Len(frames)
      BY <1>1, <2>1
    <3> QED BY <2>1, <3>1, <3>2
  <2>5. \A i \in 1 .. Len(frames) : (put \o rest)[i] = frames[i]
    <3> HIDE DEF put, rest
    <3> TAKE i \in 1 .. Len(frames)
    <3>1. CASE i <= k
      BY <1>1, <2>2, <2>4, <3>1
    <3>2. CASE ~(i <= k)
      <4>1. i - k \in 1 .. Len(frames) - k /\ k + (i - k) = i
        BY <1>1, <3>2
      <4> QED BY <2>3, <2>4, <3>2, <4>1
    <3> QED BY <3>1, <3>2
  <2> HIDE DEF put, rest
  <2> QED BY <2>4, <2>5, SeqEqual
<1>4. /\ outbound' = [boxes EXCEPT ![c] = @ \o put]
      /\ dropped' = [dropped EXCEPT ![c] = @ \cup Receipts(rest)]
  BY DEF Respond, k
<1> HIDE DEF put, rest
<1>5. dropped \in [Conns -> SUBSET (1 .. MaxSends)]
  BY DEF TypeInv, TypeOK
<1>6. /\ outbound'[c] = boxes[c] \o put
      /\ dropped'[c] = dropped[c] \cup Receipts(rest)
      /\ \A x \in Conns : x # c => outbound'[x] = boxes[x] /\ dropped'[x] = dropped[x]
  BY <1>4, <1>5
<1> QED BY <1>2, <1>3, <1>6

\* The response loop: what fits is queued behind what the dispatch queued, and
\* the rest is dropped with the connection.
LEMMA RespondTakes ==
    ASSUME TypeInv, NEW c \in Conns, NEW frames \in Seq(Frame),
           NEW boxes \in [Conns -> Seq(Frame)], Len(boxes[c]) <= MaxPendingOutbound,
           Respond(c, boxes, frames), UNCHANGED << received, sending >>,
           NEW x \in Conns, NEW more \in Seq(Frame), boxes[x] = outbound[x] \o more
    PROVE  /\ x # c => Takes(x, more)
           /\ x = c => Takes(x, more \o frames)
<1> DEFINE R == received[x]
           X == << sending[x] >>
           O == outbound[x]
<1>1. PICK put \in Seq(Frame), rest \in Seq(Frame) :
         /\ frames = put \o rest
         /\ outbound'[c] = boxes[c] \o put
         /\ dropped'[c] = dropped[c] \cup Receipts(rest)
         /\ \A t \in Conns : t # c => outbound'[t] = boxes[t] /\ dropped'[t] = dropped[t]
  BY RespondParts
<1>2. /\ R \in Seq(Carried) /\ X \in Seq(Carried) /\ O \in Seq(Carried)
      /\ more \in Seq(Carried) /\ put \in Seq(Carried) /\ rest \in Seq(Carried)
      /\ frames \in Seq(Carried) /\ Stream(x) \in Seq(Carried)
      /\ Stream(x) = (R \o X) \o O
  BY StreamTypes DEF Stream
<1>3. dropped \in [Conns -> SUBSET (1 .. MaxSends)]
  BY DEF TypeInv, TypeOK
<1> HIDE DEF R, X, O
<1>4. CASE x # c
  <2>1. outbound'[x] = O \o more /\ dropped'[x] = dropped[x]
    BY <1>1, <1>3, <1>4 DEF O
  <2>2. Stream(x)' = (R \o X) \o (O \o more)
    BY <2>1 DEF Stream, R, X
  <2>3. Stream(x)' = Stream(x) \o more
    <3> DEFINE RX == R \o X
    <3>1. RX \in Seq(Carried) /\ O \in Seq(Carried) /\ more \in Seq(Carried)
      BY <1>2, ConcatProperties
    <3>2. Stream(x) = RX \o O /\ Stream(x)' = RX \o (O \o more)
      BY <1>2, <2>2
    <3> HIDE DEF RX
    <3>3. (RX \o O) \o more = RX \o (O \o more)
      BY <3>1, ConcatAssociates
    <3> QED BY <3>2, <3>3
  <2>4. Receipts(Stream(x) \o more) = Receipts(Stream(x)) \cup Receipts(more)
    BY <1>2, ReceiptsOfConcat
  <2>5. Takes(x, more)
    BY <2>1, <2>3, <2>4 DEF Takes, Taken
  <2> QED BY <1>4, <2>5
<1>5. CASE x = c
  <2>1. outbound'[x] = (O \o more) \o put /\ dropped'[x] = dropped[x] \cup Receipts(rest)
    BY <1>1, <1>3, <1>5 DEF O
  <2>2. Stream(x)' = (R \o X) \o ((O \o more) \o put)
    BY <2>1 DEF Stream, R, X
  <2> DEFINE new == more \o put
  <2>3. new \in Seq(Carried) /\ R \o X \in Seq(Carried)
        /\ O \o new \in Seq(Carried)
    BY <1>2, ConcatProperties
  <2>4. Stream(x)' = Stream(x) \o new
    <3> DEFINE RX == R \o X
    <3>1. O \in Seq(Carried) /\ more \in Seq(Carried) /\ put \in Seq(Carried)
          /\ RX \in Seq(Carried) /\ new \in Seq(Carried)
      BY <1>2, <2>3
    <3>2. Stream(x) = RX \o O /\ Stream(x)' = RX \o ((O \o more) \o put)
      BY <1>2, <2>2
    <3> HIDE DEF RX
    <3>3. (O \o more) \o put = O \o new
      BY <3>1, ConcatAssociates
    <3> HIDE DEF new
    <3>4. (RX \o O) \o new = RX \o (O \o new)
      BY <3>1, ConcatAssociates
    <3> QED BY <3>2, <3>3, <3>4
  <2>5. more \o frames = new \o rest
    <3>1. more \in Seq(Carried) /\ put \in Seq(Carried) /\ rest \in Seq(Carried)
      BY <1>2
    <3>2. (more \o put) \o rest = more \o (put \o rest)
      BY <3>1, ConcatAssociates
    <3> QED BY <1>1, <3>2
  <2> HIDE DEF new
  <2>6. Receipts(new \o rest) = Receipts(new) \cup Receipts(rest)
    BY <1>2, <2>3, ReceiptsOfConcat
  <2>7. Receipts(Stream(x) \o new) = Receipts(Stream(x)) \cup Receipts(new)
    BY <1>2, <2>3, ReceiptsOfConcat
  <2>8. Ordered(Stream(x) \o (new \o rest)) => Ordered(Stream(x) \o new)
    <3>1. Stream(x) \o new \in Seq(Carried)
      BY <1>2, <2>3, ConcatProperties
    <3>2. (Stream(x) \o new) \o rest = Stream(x) \o (new \o rest)
      BY <1>2, <2>3, ConcatAssociates
    <3> QED BY <1>2, <3>1, <3>2, OrderedConcat
  <2>9. Takes(x, more \o frames)
    BY <2>1, <2>4, <2>5, <2>6, <2>7, <2>8 DEF Takes, Taken
  <2> QED BY <1>5, <2>9
<1> QED BY <1>4, <1>5

-----------------------------------------------------------------------------
(* Where receipts go.                                                      *)

\* Only a connection without account resolves a token.
ResolvingAnonymous == \A c \in Conns : phase[c] = "resolving" => ident[c] = None

\* The message is on record, for r, and its sender is who it claims to be.
Addressed(id, r) ==
    /\ id <= Len(sent)
    /\ r = sent[id].to
    /\ ident[sent[id].by] = sent[id].claimed

\* What waits offline will reach only the account it is addressed to.
OfflineAddressed == \A r \in Names : \A id \in Range(queues[r]) : Addressed(id, r)

StreamsOrdered == \A c \in Conns : Ordered(Stream(c))

QueuesOrdered == \A r \in Names : Ordered(queues[r])

\* A stream stays in order because what it takes from the offline queue is in
\* order there and is taken by a connection that holds no receipt, and what it
\* takes live has a number above every number in use.
DeliveryInv ==
    /\ RegistryInv
    /\ ResolvingAnonymous
    /\ OnlyAddressee
    /\ OfflineAddressed
    /\ StreamsOrdered
    /\ QueuesOrdered

\* The response loop after a dispatch that queued nothing itself.
LEMMA RespondOnlyTakes ==
    ASSUME TypeInv, NEW c \in Conns, NEW frames \in Seq(Frame),
           Respond(c, outbound, frames), UNCHANGED << received, sending >>
    PROVE  /\ Takes(c, frames)
           /\ \A x \in Conns : x # c => Takes(x, << >>)
<1>1. /\ outbound \in [Conns -> Seq(Frame)] /\ Len(outbound[c]) <= MaxPendingOutbound
      /\ << >> \in Seq(Frame)
  BY DEF TypeInv, TypeOK, OutboundBounded
<1>2. \A x \in Conns : outbound[x] = outbound[x] \o << >>
  BY <1>1
<1>3. << >> \o frames = frames
  OBVIOUS
<1>4. Takes(c, << >> \o frames)
  BY <1>1, <1>2, RespondTakes
<1>5. ASSUME NEW x \in Conns, x # c PROVE Takes(x, << >>)
  BY <1>1, <1>2, <1>5, RespondTakes
<1> QED BY <1>3, <1>4, <1>5

LEMMA RespondControlsIsQuiet ==
    ASSUME TypeInv, NEW c \in Conns, NEW frames \in Seq({Control}),
           Respond(c, outbound, frames), UNCHANGED << received, sending >>
    PROVE  \A x \in Conns : Quiet(x)
<1>1. frames \in Seq(Frame) /\ << >> \in Seq({Control})
  <2>1. {Control} \subseteq Frame
    BY FrameConstants
  <2> QED BY <2>1, SeqMonotonic
<1>2. Takes(c, frames) /\ \A x \in Conns : x # c => Takes(x, << >>)
  BY <1>1, RespondOnlyTakes
<1>3. Quiet(c)
  BY <1>2, ControlsAreQuiet
<1>4. ASSUME NEW x \in Conns, x # c PROVE Quiet(x)
  BY <1>1, <1>2, <1>4, ControlsAreQuiet
<1> QED BY <1>3, <1>4

\* A control frame that is queued where it fits.
LEMMA EnqueuedControlIsQuiet ==
    ASSUME TypeInv, NEW c \in Conns,
           outbound' = [outbound EXCEPT ![c] = Enqueued(c, Control)],
           UNCHANGED << received, sending, dropped >>
    PROVE  \A x \in Conns : Quiet(x)
<1> TAKE x \in Conns
<1>1. outbound \in [Conns -> Seq(Frame)]
  BY DEF TypeInv, TypeOK
<1>2. CASE outbound'[x] = outbound[x]
  BY <1>2, UntouchedIsQuiet
<1>3. CASE outbound'[x] # outbound[x]
  <2>1. outbound'[x] = Append(outbound[x], Control)
    BY <1>1, <1>3 DEF Enqueued
  <2> DEFINE R == received[x]
             y == sending[x]
             O == outbound[x]
             C == << Control >>
  <2>2. C \in Seq({Control}) /\ C \in Seq(Carried) /\ Range(C) = {Control} /\ Ordered(C)
    BY FrameConstants, RangeOfSingle DEF Carried
  <2>3. /\ R \in Seq(Carried) /\ y \in Carried /\ O \in Seq(Carried)
        /\ Stream(x) \in Seq(Carried)
        /\ Stream(x) = (R \o << y >>) \o O
    BY StreamTypes DEF Stream
  <2>4. Stream(x)' = (R \o << y >>) \o (O \o C)
    <3>1. outbound'[x] = O \o C
      BY <1>1, <2>1, FrameConstants, AppendIsConcat
    <3> QED BY <3>1 DEF Stream
  <2> HIDE DEF R, y, O, C
  <2>5. Stream(x)' = Stream(x) \o C
    <3> DEFINE RY == R \o << y >>
    <3>1. RY \in Seq(Carried) /\ O \in Seq(Carried) /\ C \in Seq(Carried)
      BY <2>2, <2>3, ConcatProperties
    <3>2. Stream(x) = RY \o O /\ Stream(x)' = RY \o (O \o C)
      BY <2>3, <2>4
    <3> HIDE DEF RY
    <3>3. (RY \o O) \o C = RY \o (O \o C)
      BY <3>1, ConcatAssociates
    <3> QED BY <3>2, <3>3
  <2>6. Receipts(Stream(x) \o C) = Receipts(Stream(x)) \cup Receipts(C)
    BY <2>2, <2>3, ReceiptsOfConcat
  <2>7. Takes(x, C)
    BY <2>5, <2>6 DEF Takes, Taken
  <2> QED BY <2>2, <2>7, ControlsAreQuiet
<1> QED BY <1>2, <1>3

\* The writer moves the head of the queue into send_json, and from there onto
\* the wire or, when the socket fails, among the losses.
LEMMA HeadAndRest ==
    ASSUME NEW O \in Seq(Carried), O # << >>
    PROVE  /\ Head(O) \in Carried /\ Tail(O) \in Seq(Carried)
           /\ Receipts(O) = Receipts(<< Head(O) >>) \cup Receipts(Tail(O))
           /\ Range(O) = {Head(O)} \cup Range(Tail(O))
           /\ Ordered(O) <=> /\ Ordered(Tail(O))
                             /\ \A q \in Range(Tail(O)) : Before(Head(O), q)
<1> DEFINE h == Head(O)
           H == << h >>
           T == Tail(O)
<1>1. h \in Carried /\ T \in Seq(Carried) /\ O = H \o T
  <2>1. h \in Carried /\ T \in Seq(Carried)
    OBVIOUS
  <2>2. O = H \o T
    OBVIOUS
  <2> QED BY <2>1, <2>2
<1>2. H \in Seq(Carried) /\ Range(H) = {h} /\ Ordered(H)
  BY <1>1, RangeOfSingle
<1> HIDE DEF H, T, h
<1>3. Receipts(O) = Receipts(H) \cup Receipts(T)
  BY <1>1, <1>2, ReceiptsOfConcat
<1>4. Range(O) = Range(H) \cup Range(T)
  BY <1>1, <1>2, RangeConcatenation
<1>5. Ordered(O) <=> /\ Ordered(H) /\ Ordered(T)
                     /\ \A x \in Range(H), y \in Range(T) : Before(x, y)
  BY <1>1, <1>2, OrderedConcat
<1> QED BY <1>1, <1>2, <1>3, <1>4, <1>5 DEF H, T, h

\* A stream as its three parts, now and after a step.
LEMMA StreamNow ==
    ASSUME TypeInv, NEW c \in Conns
    PROVE  /\ Receipts(Stream(c)) = Receipts(received[c])
                 \cup Receipts(<< sending[c] >>) \cup Receipts(outbound[c])
           /\ Range(Stream(c)) = Range(received[c]) \cup {sending[c]} \cup Range(outbound[c])
           /\ Ordered(Stream(c)) <=>
                /\ Ordered(received[c]) /\ Ordered(outbound[c])
                /\ \A p \in Range(received[c]) : Before(p, sending[c])
                /\ \A q \in Range(outbound[c]) : Before(sending[c], q)
                /\ \A p \in Range(received[c]), q \in Range(outbound[c]) : Before(p, q)
BY StreamTypes, StreamParts DEF Stream

LEMMA StreamNext ==
    ASSUME TypeInv', NEW c \in Conns
    PROVE  /\ Receipts(Stream(c))' = Receipts(received'[c])
                 \cup Receipts(<< sending'[c] >>) \cup Receipts(outbound'[c])
           /\ Ordered(Stream(c))' <=>
                /\ Ordered(received'[c]) /\ Ordered(outbound'[c])
                /\ \A p \in Range(received'[c]) : Before(p, sending'[c])
                /\ \A q \in Range(outbound'[c]) : Before(sending'[c], q)
                /\ \A p \in Range(received'[c]), q \in Range(outbound'[c]) : Before(p, q)
<1>1. received'[c] \in Seq(Frame) /\ outbound'[c] \in Seq(Frame) /\ sending'[c] \in Carried
  BY DEF TypeInv, TypeOK, Carried
<1>2. \A q \in Seq(Frame) : q \in Seq(Carried)
  BY SeqMonotonic DEF Carried
<1> QED BY <1>1, <1>2, StreamParts DEF Stream

\* Neither the idle mark nor a control frame is a receipt.
LEMMA MarksCarryNothing ==
    /\ Receipts(<< Idle >>) = {} /\ Receipts(<< Control >>) = {}
    /\ Receipts(<< >>) = {}
BY DEF Receipts, Receipt, Idle, Control

\* A frame that leaves send_json for the wire.
LEMMA OnWireParts ==
    ASSUME TypeInv, NEW c \in Conns
    PROVE  LET W == OnWire(c, sending[c]) IN
           /\ Receipts(W) = Receipts(received[c]) \cup Receipts(<< sending[c] >>)
           /\ Range(W) \subseteq Range(received[c]) \cup {sending[c]}
           /\ Ordered(received[c]) /\ (\A p \in Range(received[c]) : Before(p, sending[c]))
                => Ordered(W)
<1> DEFINE R == received[c]
           y == sending[c]
           Y == << y >>
<1>1. R \in Seq(Carried) /\ y \in Carried
  BY StreamTypes
<1>2. CASE y = Control
  <2>1. OnWire(c, y) = R
    BY <1>2 DEF OnWire
  <2> QED BY <1>2, <2>1, MarksCarryNothing
<1>3. CASE y # Control
  <2>1. OnWire(c, y) = R \o Y
    BY <1>1, <1>3, AppendIsConcat DEF OnWire
  <2>2. Y \in Seq(Carried) /\ Range(Y) = {y} /\ Ordered(Y)
    BY <1>1, RangeOfSingle
  <2> HIDE DEF R, y, Y
  <2>3. Receipts(R \o Y) = Receipts(R) \cup Receipts(Y)
    BY <1>1, <2>2, ReceiptsOfConcat
  <2>4. Range(R \o Y) = Range(R) \cup Range(Y)
    BY <1>1, <2>2, RangeConcatenation
  <2>5. Ordered(R \o Y) <=> /\ Ordered(R) /\ Ordered(Y)
                            /\ \A p \in Range(R), q \in Range(Y) : Before(p, q)
    BY <1>1, <2>2, OrderedConcat
  <2> QED BY <2>1, <2>2, <2>3, <2>4, <2>5 DEF R, y, Y
<1> QED BY <1>2, <1>3

\* The steps of the writer lose no receipt without a trace and change no order.
LEMMA WriteIsQuiet ==
    ASSUME TypeInv, TypeInv', NEW c \in Conns, Write(c)
    PROVE  \A x \in Conns : Quiet(x)
<1> TAKE x \in Conns
<1>1. /\ outbound \in [Conns -> Seq(Frame)] /\ received \in [Conns -> Seq(Frame)]
      /\ dropped \in [Conns -> SUBSET (1 .. MaxSends)]
      /\ sending \in [Conns -> Frame \cup {Idle}]
      /\ \A t \in Conns : writer[t] = "sending" <=> sending[t] # Idle
  BY DEF TypeInv, TypeOK, WriterHolds
<1>2. CASE x # c
  <2>1. UNCHANGED << received[x], sending[x], outbound[x], dropped[x] >>
    BY <1>1, <1>2 DEF Write, WriterTakes, WriterSends, WriterFails, WriterBreaks
  <2> QED BY <2>1, UntouchedIsQuiet
<1> DEFINE R == received[c]
           y == sending[c]
           O == outbound[c]
<1>3. R \in Seq(Carried) /\ y \in Carried /\ O \in Seq(Carried)
  BY StreamTypes
<1>4. CASE x = c /\ WriterTakes(c)
  <2>1. /\ y = Idle /\ O # << >> /\ received'[c] = R /\ dropped'[c] = dropped[c]
        /\ sending'[c] = Head(O) /\ outbound'[c] = Tail(O)
    BY <1>1, <1>4 DEF WriterTakes
  <2> HIDE DEF R, y, O
  <2>2. /\ Receipts(O) = Receipts(<< Head(O) >>) \cup Receipts(Tail(O))
        /\ Range(O) = {Head(O)} \cup Range(Tail(O))
        /\ Ordered(O) => /\ Ordered(Tail(O))
                         /\ \A q \in Range(Tail(O)) : Before(Head(O), q)
    BY <1>3, <2>1, HeadAndRest
  <2>3. /\ Receipts(Stream(c))' = Receipts(R) \cup Receipts(<< Head(O) >>) \cup Receipts(Tail(O))
        /\ Ordered(Stream(c))' <=>
             /\ Ordered(R) /\ Ordered(Tail(O))
             /\ \A p \in Range(R) : Before(p, Head(O))
             /\ \A q \in Range(Tail(O)) : Before(Head(O), q)
             /\ \A p \in Range(R), q \in Range(Tail(O)) : Before(p, q)
    BY <2>1, StreamNext
  <2>4. /\ Receipts(Stream(c)) = Receipts(R) \cup Receipts(<< y >>) \cup Receipts(O)
        /\ Ordered(Stream(c)) => /\ Ordered(R) /\ Ordered(O)
                                 /\ \A p \in Range(R), q \in Range(O) : Before(p, q)
    BY StreamNow DEF R, y, O
  <2>5. Receipts(Stream(c))' = Receipts(Stream(c))
    BY <2>1, <2>2, <2>3, <2>4, MarksCarryNothing
  <2>6. Ordered(Stream(c)) => Ordered(Stream(c))'
    BY <2>2, <2>3, <2>4
  <2> QED BY <1>4, <2>1, <2>5, <2>6 DEF Quiet, Taken
<1>5. CASE x = c /\ WriterSends(c)
  <2> DEFINE W == OnWire(c, y)
  <2>1. /\ received'[c] = W /\ dropped'[c] = dropped[c]
        /\ sending'[c] = Idle /\ outbound'[c] = O
    BY <1>1, <1>5 DEF WriterSends
  <2>2. /\ Receipts(W) = Receipts(R) \cup Receipts(<< y >>)
        /\ Range(W) \subseteq Range(R) \cup {y}
        /\ Ordered(R) /\ (\A p \in Range(R) : Before(p, y)) => Ordered(W)
    BY OnWireParts
  <2>3. Range(O) \subseteq Carried /\ Range(W) \subseteq Carried
    BY <1>3, <2>2, RangeOfSeq
  <2> HIDE DEF R, y, O, W
  <2>4. /\ Receipts(Stream(c))' = Receipts(W) \cup Receipts(<< Idle >>) \cup Receipts(O)
        /\ Ordered(Stream(c))' <=>
             /\ Ordered(W) /\ Ordered(O)
             /\ \A p \in Range(W) : Before(p, Idle)
             /\ \A q \in Range(O) : Before(Idle, q)
             /\ \A p \in Range(W), q \in Range(O) : Before(p, q)
    BY <2>1, StreamNext
  <2>5. /\ Receipts(Stream(c)) = Receipts(R) \cup Receipts(<< y >>) \cup Receipts(O)
        /\ Ordered(Stream(c)) => /\ Ordered(R) /\ Ordered(O)
                                 /\ \A p \in Range(R) : Before(p, y)
                                 /\ \A q \in Range(O) : Before(y, q)
                                 /\ \A p \in Range(R), q \in Range(O) : Before(p, q)
    BY StreamNow DEF R, y, O
  <2>6. Receipts(Stream(c))' = Receipts(Stream(c))
    BY <2>2, <2>4, <2>5, MarksCarryNothing
  <2>7. Ordered(Stream(c)) => Ordered(Stream(c))'
    BY <2>2, <2>3, <2>4, <2>5, BeforeMarks
  <2> QED BY <1>5, <2>1, <2>6, <2>7 DEF Quiet, Taken
<1>6. CASE x = c /\ (WriterFails(c) \/ WriterBreaks(c))
  <2>1. /\ received'[c] = R /\ dropped'[c] = dropped[c] \cup Receipts(<< y >>)
        /\ sending'[c] = Idle /\ outbound'[c] = O
    BY <1>1, <1>6 DEF WriterFails, WriterBreaks
  <2>3. Range(O) \subseteq Carried /\ Range(R) \subseteq Carried
    BY <1>3, RangeOfSeq
  <2> HIDE DEF R, y, O
  <2>4. /\ Receipts(Stream(c))' = Receipts(R) \cup Receipts(<< Idle >>) \cup Receipts(O)
        /\ Ordered(Stream(c))' <=>
             /\ Ordered(R) /\ Ordered(O)
             /\ \A p \in Range(R) : Before(p, Idle)
             /\ \A q \in Range(O) : Before(Idle, q)
             /\ \A p \in Range(R), q \in Range(O) : Before(p, q)
    BY <2>1, StreamNext
  <2>5. /\ Receipts(Stream(c)) = Receipts(R) \cup Receipts(<< y >>) \cup Receipts(O)
        /\ Ordered(Stream(c)) => /\ Ordered(R) /\ Ordered(O)
                                 /\ \A p \in Range(R), q \in Range(O) : Before(p, q)
    BY StreamNow DEF R, y, O
  <2>6. /\ Receipts(Stream(c))' \subseteq Receipts(Stream(c))
        /\ Receipts(Stream(c))' \cup Receipts(<< y >>) = Receipts(Stream(c)) 
    BY <2>4, <2>5, MarksCarryNothing
  <2>7. Ordered(Stream(c)) => Ordered(Stream(c))'
    BY <2>3, <2>4, <2>5, BeforeMarks
  <2>8. Taken(c)' = Taken(c)
    BY <2>1, <2>6 DEF Taken
  <2> QED BY <1>6, <2>6, <2>7, <2>8 DEF Quiet
<1> QED BY <1>2, <1>4, <1>5, <1>6 DEF Write

\* The finally clause: what the connection held is counted as lost, but for
\* the frame inside send_json, which may have left.
LEMMA TeardownIsQuiet ==
    ASSUME TypeInv, TypeInv', NEW c \in Conns, Teardown(c)
    PROVE  \A x \in Conns : Quiet(x)
<1> TAKE x \in Conns
<1>1. /\ outbound \in [Conns -> Seq(Frame)] /\ received \in [Conns -> Seq(Frame)]
      /\ dropped \in [Conns -> SUBSET (1 .. MaxSends)]
      /\ sending \in [Conns -> Frame \cup {Idle}]
  BY DEF TypeInv, TypeOK
<1>2. CASE x # c
  <2>1. UNCHANGED << received[x], sending[x], outbound[x], dropped[x] >>
    BY <1>1, <1>2 DEF Teardown
  <2> QED BY <2>1, UntouchedIsQuiet
<1>3. CASE x = c
  <2> DEFINE R == received[c]
             y == sending[c]
             O == outbound[c]
             W == received'[c]
  <2>1. R \in Seq(Carried) /\ << y >> \in Seq(Carried) /\ O \in Seq(Carried)
    BY StreamTypes
  <2>2. sending'[c] = Idle /\ outbound'[c] = << >>
    BY <1>1 DEF Teardown
  <2>3. /\ Receipts(OnWire(c, y)) = Receipts(R) \cup Receipts(<< y >>)
        /\ Range(OnWire(c, y)) \subseteq Range(R) \cup {y}
        /\ Ordered(R) /\ (\A p \in Range(R) : Before(p, y)) => Ordered(OnWire(c, y))
    BY OnWireParts
  <2>4. \/ /\ W = OnWire(c, y)
           /\ dropped'[c] = dropped[c] \cup Receipts(O)
        \/ /\ W = R
           /\ dropped'[c] = dropped[c] \cup Receipts(<< y >>) \cup Receipts(O)
    <3>1. Receipts(<< y >> \o O) = Receipts(<< y >>) \cup Receipts(O)
      BY <2>1, ReceiptsOfConcat
    <3> QED BY <1>1, <3>1 DEF Teardown
  <2>5. W \in Seq(Carried)
    BY SeqMonotonic DEF TypeInv, TypeOK, Carried
  <2>6. Range(W) \subseteq Carried
    BY <2>5, RangeOfSeq
  <2> HIDE DEF R, y, O, W
  <2>7. /\ Receipts(Stream(c))' = Receipts(W) \cup Receipts(<< Idle >>) \cup Receipts(<< >>)
        /\ Ordered(Stream(c))' <=>
             /\ Ordered(W) /\ Ordered(<< >>)
             /\ \A p \in Range(W) : Before(p, Idle)
             /\ \A q \in Range(<< >>) : Before(Idle, q)
             /\ \A p \in Range(W), q \in Range(<< >>) : Before(p, q)
    BY <2>2, StreamNext DEF W
  <2>8. /\ Receipts(Stream(c)) = Receipts(R) \cup Receipts(<< y >>) \cup Receipts(O)
        /\ Ordered(Stream(c)) => Ordered(R) /\ \A p \in Range(R) : Before(p, y)
    BY StreamNow DEF R, y, O
  <2>9. Receipts(Stream(c))' \subseteq Receipts(Stream(c)) /\ Taken(c)' = Taken(c)
    <3>1. Receipts(Stream(c))' = Receipts(W)
      BY <2>7, MarksCarryNothing
    <3> QED BY <2>3, <2>4, <2>8, <3>1 DEF Taken
  <2>10. Ordered(Stream(c)) => Ordered(Stream(c))'
    <3>1. Ordered(Stream(c)) => Ordered(W)
      BY <2>3, <2>4, <2>8
    <3> QED BY <2>6, <2>7, <3>1, BeforeMarks, RangeOfEmpty
  <2> QED BY <1>3, <2>9, <2>10 DEF Quiet
<1> QED BY <1>2, <1>3

\* A handler resolves a token only where no account is bound, and no step
\* binds one while it stays there.
LEMMA NextAnonymous == TypeInv /\ ResolvingAnonymous /\ [Next]_vars => ResolvingAnonymous'
<1> SUFFICES ASSUME TypeInv, ResolvingAnonymous, [Next]_vars,
                    NEW x \in Conns, phase'[x] = "resolving"
             PROVE  ident'[x] = None
  BY DEF ResolvingAnonymous
<1>1. phase \in [Conns -> Phase] /\ ident \in [Conns -> Users \cup {None}]
  BY DEF TypeInv, TypeOK
<1>2. CASE UNCHANGED vars
  BY <1>2 DEF vars, ResolvingAnonymous
<1>3. CASE Next
  <2> PICK c \in Conns : Upgrade(c) \/ Receive(c) \/ Resolve(c)
                           \/ Send(c) \/ Write(c) \/ Flush(c)
    BY <1>3 DEF Next
  <2>1. CASE Upgrade(c)
    BY <1>1, <2>1 DEF Upgrade, RejectOrigin, RejectLimit, Register, AcceptReturns,
                      AcceptRaises, ResolvingAnonymous
  <2>2. CASE Receive(c)
    BY <1>1, <2>2 DEF Receive, ReceiveOverLimit, ReceiveSimple, ReceiveTimeout, ReceiveEnds,
                      StartAuthenticate, Respond, Authenticated, ResolvingAnonymous
  <2>3. CASE Resolve(c)
    BY <1>1, <2>3 DEF Resolve, AuthenticateFails, AuthenticateRaises, AuthenticateSucceeds,
                      Respond, ResolvingAnonymous
  <2>4. CASE Send(c)
    BY <1>1, <2>4 DEF Send, SendMismatch, SendConnected, SendOffline, Respond,
                      ResolvingAnonymous
  <2>5. CASE Write(c)
    BY <1>1, <2>5 DEF Write, WriterTakes, WriterSends, WriterFails,
                      WriterBreaks, ResolvingAnonymous
  <2>6. CASE Flush(c)
    BY <1>1, <2>6 DEF Flush, FlushDone, FlushExpires, Teardown, Release, ResolvingAnonymous
  <2> QED BY <2>1, <2>2, <2>3, <2>4, <2>5, <2>6
<1> QED BY <1>2, <1>3

\* The steps that concern no receipt.
LEMMA QuietSteps ==
    ASSUME TypeInv, TypeInv', NEW c \in Conns,
           \/ Upgrade(c) \/ Receive(c) \/ AuthenticateFails(c)
           \/ AuthenticateRaises(c) \/ Write(c) \/ Flush(c)
    PROVE  (\A x \in Conns : Quiet(x)) /\ UNCHANGED << ident, queues, sent >>
<1>1. CASE UNCHANGED << outbound, sending, received, dropped >>
  <2>1. \A x \in Conns : Quiet(x)
    BY <1>1, UntouchedIsQuiet
  <2>2. UNCHANGED << ident, queues, sent >>
    BY DEF Upgrade, RejectOrigin, RejectLimit, Register, AcceptReturns, AcceptRaises,
           Receive, ReceiveOverLimit, ReceiveSimple, ReceiveTimeout, ReceiveEnds,
           StartAuthenticate, AuthenticateFails, AuthenticateRaises, Write, WriterTakes,
           WriterSends, WriterFails, WriterBreaks, Flush, FlushDone, FlushExpires, Teardown
  <2> QED BY <2>1, <2>2
<1>2. CASE AcceptReturns(c) \/ ReceiveOverLimit(c) \/ ReceiveTimeout(c)
  <2>1. /\ outbound' = [outbound EXCEPT ![c] = Enqueued(c, Control)]
        /\ UNCHANGED << received, sending, dropped, ident, queues, sent >>
    BY <1>2 DEF AcceptReturns, ReceiveOverLimit, ReceiveTimeout, io
  <2> QED BY <2>1, EnqueuedControlIsQuiet
<1>3. CASE ReceiveSimple(c) \/ AuthenticateFails(c)
  <2>1. /\ Respond(c, outbound, << Control >>)
        /\ UNCHANGED << received, sending, ident, queues, sent >>
    BY <1>3 DEF ReceiveSimple, AuthenticateFails, io
  <2>2. << Control >> \in Seq({Control})
    OBVIOUS
  <2> QED BY <2>1, <2>2, RespondControlsIsQuiet
<1>4. CASE Write(c)
  BY <1>4, WriteIsQuiet DEF Write, WriterTakes, WriterSends, WriterFails, WriterBreaks
<1>5. CASE Flush(c)
  <2>1. Teardown(c)
    BY <1>5 DEF Flush, FlushDone, FlushExpires
  <2> QED BY <2>1, TeardownIsQuiet DEF Teardown
<1> QED BY <1>1, <1>2, <1>3, <1>4, <1>5
        DEF Upgrade, RejectOrigin, RejectLimit, Register, AcceptRaises, Receive,
            ReceiveEnds, StartAuthenticate, AuthenticateRaises, io

\* A verdict is given once: what is on record stays as it is.
Recorded ==
    Len(sent') >= Len(sent) /\ \A i \in 1 .. Len(sent) : sent'[i] = sent[i]

LEMMA MessageParts ==
    ASSUME TypeInv, NEW id \in 1 .. Len(sent)
    PROVE  /\ sent[id].by \in Conns /\ sent[id].claimed \in Names
           /\ sent[id].to \in Names /\ sent[id].status \in DeliveryStatus
<1>1. sent[id] \in Message
  BY DEF TypeInv, TypeOK
<1> QED BY <1>1 DEF Message

LEMMA StaysAddressed ==
    ASSUME TypeInv, TypeInv', Recorded, UNCHANGED ident,
           NEW id \in Nat \ {0}, NEW r, Addressed(id, r)
    PROVE  Addressed(id, r)'
<1>1. Len(sent) \in Nat /\ Len(sent') \in Nat
  BY DEF TypeInv, TypeOK
<1>2. id \in 1 .. Len(sent)
  BY <1>1 DEF Addressed
<1> QED BY <1>1, <1>2 DEF Addressed, Recorded

\* The clauses of OnlyAddressee in this form.
LEMMA AddresseeByParts ==
    /\ OnlyAddressee <=>
         \A c \in Conns : \A id \in Receipts(Stream(c)) : Addressed(id, ident[c])
    /\ OnlyAddressee' <=>
         \A c \in Conns : \A id \in Receipts(Stream(c))' : Addressed(id, ident[c])'
    /\ \A q : Receipts(q) \subseteq Nat \ {0}
    /\ \A c : Receipts(Stream(c))' \subseteq Nat \ {0}
BY DEF OnlyAddressee, Addressed, Receipts, Receipt

\* What is offline is a receipt.
LEMMA OfflineIds ==
    ASSUME TypeInv, NEW r \in Names
    PROVE  /\ queues[r] \in Seq(Carried) /\ Range(queues[r]) \subseteq Nat \ {0}
           /\ Receipts(queues[r]) = Range(queues[r])
<1>1. queues[r] \in Seq(1 .. MaxSends) /\ queues[r] \in Seq(Carried)
  <2>1. queues[r] \in Seq(1 .. MaxSends)
    BY DEF TypeInv, TypeOK
  <2>2. 1 .. MaxSends \subseteq Carried
    BY TransportAssumption DEF Carried, Frame
  <2> QED BY <2>1, <2>2, SeqMonotonic
<1>2. Range(queues[r]) \subseteq Nat \ {0}
  <2>1. Range(queues[r]) \subseteq 1 .. MaxSends
    BY <1>1, RangeOfSeq
  <2> QED BY <2>1, TransportAssumption
<1>3. Receipts(queues[r]) = {x \in Range(queues[r]) : Receipt(x)}
  BY <1>1, ReceiptsInRange
<1> QED BY <1>1, <1>2, <1>3 DEF Receipt

\* A step that concerns no receipt keeps them where they belong.
LEMMA QuietKeepsDelivery ==
    ASSUME DeliveryInv, RegistryInv', ResolvingAnonymous', Recorded,
           \A x \in Conns : Quiet(x), UNCHANGED << ident, queues >>
    PROVE  DeliveryInv'
<1>1. TypeInv /\ TypeInv'
  BY DEF DeliveryInv, RegistryInv
<1>2. OnlyAddressee'
  BY <1>1, AddresseeByParts, StaysAddressed DEF DeliveryInv, Quiet
<1>3. OfflineAddressed'
  BY <1>1, OfflineIds, StaysAddressed DEF DeliveryInv, OfflineAddressed
<1>4. StreamsOrdered'
  BY DEF DeliveryInv, StreamsOrdered, Quiet
<1>5. QueuesOrdered'
  BY DEF DeliveryInv, QueuesOrdered
<1> QED BY <1>2, <1>3, <1>4, <1>5 DEF DeliveryInv

\* What is offered to a connection that authenticates: auth.ready, and behind
\* it the mail of the account.
LEMMA DrainIsTaken ==
    ASSUME TypeInv, QueuesOrdered, NEW c \in Conns, NEW u \in Users,
           AuthenticateSucceeds(c, u)
    PROVE  /\ Takes(c, << AuthReady >> \o queues[u])
           /\ \A x \in Conns : x # c => Takes(x, << >>)
           /\ Receipts(<< AuthReady >> \o queues[u]) = Range(queues[u])
           /\ Ordered(<< AuthReady >> \o queues[u])
           /\ << AuthReady >> \o queues[u] \in Seq(Carried)
           /\ Range(<< AuthReady >> \o queues[u]) = {AuthReady} \cup Range(queues[u])
<1>1. u \in Names
  BY TransportAssumption
<1>2. /\ Takes(c, << AuthReady >> \o queues[u])
      /\ \A x \in Conns : x # c => Takes(x, << >>)
  <2>1. << AuthReady >> \o queues[u] \in Seq(Frame)
    BY <1>1, FrameConstants, StreamTypes, ConcatProperties
  <2> QED BY <2>1, RespondOnlyTakes DEF AuthenticateSucceeds, AuthResponses, io
<1>3. /\ Receipts(<< AuthReady >> \o queues[u]) = Range(queues[u])
      /\ Ordered(<< AuthReady >> \o queues[u])
      /\ << AuthReady >> \o queues[u] \in Seq(Carried)
      /\ Range(<< AuthReady >> \o queues[u]) = {AuthReady} \cup Range(queues[u])
  <2> DEFINE A == << AuthReady >>
             Q == queues[u]
  <2>1. A \in Seq(Carried) /\ Range(A) = {AuthReady} /\ Ordered(A) /\ Receipts(A) = {}
    BY FrameConstants, RangeOfSingle DEF Carried, Receipts, Receipt, AuthReady
  <2>2. /\ Q \in Seq(Carried) /\ Range(Q) \subseteq Nat \ {0}
        /\ Receipts(Q) = Range(Q) /\ Ordered(Q)
    BY <1>1, OfflineIds DEF QueuesOrdered
  <2> HIDE DEF A, Q
  <2>3. Receipts(A \o Q) = Receipts(A) \cup Receipts(Q)
    BY <2>1, <2>2, ReceiptsOfConcat
  <2>4. Ordered(A \o Q) <=> /\ Ordered(A) /\ Ordered(Q)
                            /\ \A x \in Range(A), y \in Range(Q) : Before(x, y)
    BY <2>1, <2>2, OrderedConcat
  <2>5. \A y \in Range(Q) : Before(AuthReady, y)
    BY <2>2 DEF Before, AuthReady, Receipt
  <2>6. A \o Q \in Seq(Carried)
    BY <2>1, <2>2, ConcatProperties
  <2>7. Range(A \o Q) = Range(A) \cup Range(Q)
    BY <2>1, <2>2, RangeConcatenation
  <2> QED BY <2>1, <2>2, <2>3, <2>4, <2>5, <2>6, <2>7 DEF A, Q
<1> QED BY <1>2, <1>3

\* A connection that authenticates binds the account and takes its mail in one
\* step: it held no receipt, and what it takes is in order and its own.
LEMMA AuthenticateKeepsDelivery ==
    ASSUME DeliveryInv, RegistryInv', ResolvingAnonymous',
           NEW c \in Conns, NEW u \in Users, AuthenticateSucceeds(c, u)
    PROVE  DeliveryInv'
<1>1. TypeInv /\ TypeInv' /\ u \in Names
  BY TransportAssumption DEF DeliveryInv, RegistryInv
<1>2. /\ ident \in [Conns -> Users \cup {None}] /\ queues \in [Names -> Seq(1 .. MaxSends)]
      /\ sent \in Seq(Message)
  BY <1>1 DEF TypeInv, TypeOK
<1>3. /\ ident[c] = None /\ ident' = [ident EXCEPT ![c] = u] /\ sent' = sent
      /\ queues' = [queues EXCEPT ![u] = << >>]
  BY DEF AuthenticateSucceeds, Drain, DeliveryInv, ResolvingAnonymous
<1>4. /\ Takes(c, << AuthReady >> \o queues[u])
      /\ \A x \in Conns : x # c => Takes(x, << >>)
      /\ Receipts(<< AuthReady >> \o queues[u]) = Range(queues[u])
      /\ Ordered(<< AuthReady >> \o queues[u])
      /\ << AuthReady >> \o queues[u] \in Seq(Carried)
      /\ Range(<< AuthReady >> \o queues[u]) = {AuthReady} \cup Range(queues[u])
  BY <1>1, DrainIsTaken DEF DeliveryInv
<1>6. Receipts(Stream(c)) = {}
  <2>1. ASSUME NEW id \in Receipts(Stream(c)) PROVE FALSE
    <3>1. Addressed(id, None) /\ id \in Nat \ {0}
      BY <1>3, <2>1, AddresseeByParts DEF DeliveryInv
    <3>2. id \in 1 .. Len(sent) /\ None = sent[id].to
      BY <1>2, <3>1 DEF Addressed
    <3>3. sent[id].to \in Names
      BY <1>1, <3>2, MessageParts
    <3> QED BY <3>2, <3>3, TransportAssumption
  <2> QED BY <2>1
<1>7. ASSUME NEW id \in Nat \ {0}, NEW r, Addressed(id, r)
      PROVE  id <= Len(sent') /\ r = sent'[id].to /\ ident'[sent'[id].by] = sent'[id].claimed
  <2>1. id \in 1 .. Len(sent) /\ ident[sent[id].by] = sent[id].claimed
    BY <1>2, <1>7 DEF Addressed
  <2>2. sent[id].by \in Conns /\ sent[id].claimed \in Names
    BY <1>1, <2>1, MessageParts
  <2>3. sent[id].by # c
    BY <1>3, <2>1, <2>2, TransportAssumption
  <2> QED BY <1>2, <1>3, <1>7, <2>2, <2>3 DEF Addressed
<1>8. OnlyAddressee'
  <2> SUFFICES ASSUME NEW x \in Conns, NEW id \in Receipts(Stream(x))'
               PROVE  Addressed(id, ident[x])'
    BY AddresseeByParts
  <2>1. id \in Nat \ {0}
    BY AddresseeByParts
  <2>2. CASE x = c
    <3>1. id \in Range(queues[u])
      BY <1>4, <1>6, <2>2 DEF Takes
    <3>2. Addressed(id, u)
      BY <1>1, <3>1 DEF DeliveryInv, OfflineAddressed
    <3>3. ident'[x] = u
      BY <1>2, <1>3, <2>2
    <3> QED BY <1>7, <2>1, <3>2, <3>3 DEF Addressed
  <2>3. CASE x # c
    <3>1. id \in Receipts(Stream(x))
      BY <1>4, <2>3, MarksCarryNothing DEF Takes
    <3>2. Addressed(id, ident[x])
      BY <3>1, AddresseeByParts DEF DeliveryInv
    <3>3. ident'[x] = ident[x]
      BY <1>2, <1>3, <2>3
    <3> QED BY <1>7, <2>1, <3>2, <3>3 DEF Addressed
  <2> QED BY <2>2, <2>3
<1>9. OfflineAddressed'
  <2> SUFFICES ASSUME NEW r \in Names, NEW id \in Range(queues'[r])
               PROVE  Addressed(id, r)'
    BY DEF OfflineAddressed
  <2>1. r # u
    <3>1. r = u => queues'[r] = << >>
      BY <1>2, <1>3
    <3> QED BY <3>1, RangeOfEmpty
  <2>2. id \in Range(queues[r])
    BY <1>2, <1>3, <2>1
  <2>3. Addressed(id, r) /\ id \in Nat \ {0}
    BY <1>1, <2>2, OfflineIds DEF DeliveryInv, OfflineAddressed
  <2> QED BY <1>7, <2>3 DEF Addressed
<1>10. StreamsOrdered'
  <2> SUFFICES ASSUME NEW x \in Conns PROVE Ordered(Stream(x))'
    BY DEF StreamsOrdered
  <2>1. Stream(x) \in Seq(Carried) /\ Ordered(Stream(x)) /\ Range(Stream(x)) \subseteq Carried
    BY <1>1, StreamTypes, RangeOfSeq DEF DeliveryInv, StreamsOrdered
  <2>2. CASE x # c
    <3>1. Stream(x) \o << >> = Stream(x)
      BY <2>1, ConcatEmptySeq
    <3> QED BY <1>4, <2>1, <2>2, <3>1 DEF Takes
  <2>3. CASE x = c
    <3> DEFINE offered == << AuthReady >> \o queues[u]
    <3>1. \A p \in Range(Stream(c)) : ~Receipt(p)
      BY <1>6, <2>1, <2>3, ReceiptsInRange
    <3>2. \A p \in Range(Stream(c)), q \in Range(offered) : Before(p, q)
      <4>1. Range(queues[u]) \subseteq Nat \ {0}
        BY <1>1, OfflineIds
      <4>2. ASSUME NEW p \in Range(Stream(c)), NEW q \in Range(queues[u])
            PROVE  Before(p, q)
        <5>1. p \in Int /\ p <= 0
          BY <2>1, <2>3, <3>1, TransportAssumption DEF Carried, Frame, Idle, Receipt
        <5> QED BY <4>1, <5>1 DEF Before, AuthReady
      <4>3. ASSUME NEW p \in Range(Stream(c)) PROVE Before(p, AuthReady)
        BY <3>1 DEF Before, AuthReady, Receipt
      <4> QED BY <1>4, <4>2, <4>3
    <3>3. offered \in Seq(Carried) /\ Ordered(offered)
      BY <1>4
    <3> HIDE DEF offered
    <3>4. Ordered(Stream(c) \o offered)
      BY <2>1, <2>3, <3>2, <3>3, OrderedConcat
    <3> QED BY <1>4, <2>3, <3>4 DEF Takes, offered
  <2> QED BY <2>2, <2>3
<1>11. QueuesOrdered'
  BY <1>2, <1>3, RangeOfEmpty DEF DeliveryInv, QueuesOrdered
<1> QED BY <1>8, <1>9, <1>10, <1>11 DEF DeliveryInv

\* In this step the connection takes message id, behind all it carries.
Gets(x, id) ==
    /\ Receipts(Stream(x))' \subseteq Receipts(Stream(x)) \cup {id}
    /\ Taken(x)' = Taken(x) \cup {id}
    /\ Ordered(Stream(x)) /\ (\A p \in Range(Stream(x)) : Before(p, id))
         => Ordered(Stream(x))'

LEMMA OneTaken ==
    ASSUME TypeInv, NEW x \in Conns, NEW id \in Frame, Receipt(id),
           NEW controls \in Seq({Control}), Takes(x, << id >> \o controls)
    PROVE  Gets(x, id)
<1> DEFINE I == << id >>
           C == controls
<1>1. I \in Seq(Carried) /\ Range(I) = {id} /\ Ordered(I) /\ Receipts(I) = {id}
  BY RangeOfSingle DEF Carried, Receipts
<1>2. /\ C \in Seq(Carried) /\ Range(C) \subseteq {Control}
      /\ Ordered(C) /\ Receipts(C) = {}
  <2>1. {Control} \subseteq Carried
    BY FrameConstants DEF Carried
  <2>2. C \in Seq(Carried)
    BY <2>1, SeqMonotonic
  <2>3. Range(C) \subseteq {Control}
    BY RangeOfSeq
  <2>4. Ordered(C) /\ Receipts(C) = {}
    BY DEF Ordered, Before, Receipts, Receipt, Control, AuthReady
  <2> QED BY <2>2, <2>3, <2>4
<1>3. Stream(x) \in Seq(Carried) /\ Range(Stream(x)) \subseteq Carried
  BY StreamTypes, RangeOfSeq
<1> DEFINE S == Stream(x)
           IC == I \o C
<1>4. IC \in Seq(Carried) /\ Receipts(IC) = {id} /\ Range(IC) \subseteq {id, Control}
  <2> HIDE DEF I, C
  <2>1. IC \in Seq(Carried)
    BY <1>1, <1>2, ConcatProperties
  <2>2. Receipts(IC) = Receipts(I) \cup Receipts(C)
    BY <1>1, <1>2, ReceiptsOfConcat
  <2>3. Range(IC) = Range(I) \cup Range(C)
    BY <1>1, <1>2, RangeConcatenation
  <2> QED BY <1>1, <1>2, <2>1, <2>2, <2>3
<1>5. Ordered(IC)
  <2> HIDE DEF I, C
  <2>1. Ordered(IC) <=> /\ Ordered(I) /\ Ordered(C)
                        /\ \A p \in Range(I), q \in Range(C) : Before(p, q)
    BY <1>1, <1>2, OrderedConcat
  <2>2. id \in Carried
    BY DEF Carried
  <2> QED BY <1>1, <1>2, <2>1, <2>2, BeforeMarks
<1>6. Takes(x, IC)
  OBVIOUS
<1> HIDE DEF IC, I, C, S
<1>7. ASSUME Ordered(S), \A p \in Range(S) : Before(p, id)
      PROVE  Ordered(S \o IC)
  <2>1. Ordered(S \o IC) <=> /\ Ordered(S) /\ Ordered(IC)
                             /\ \A p \in Range(S), q \in Range(IC) : Before(p, q)
    BY <1>3, <1>4, OrderedConcat DEF S
  <2> QED BY <1>3, <1>4, <1>5, <1>7, <2>1, BeforeMarks DEF S
<1> QED BY <1>4, <1>6, <1>7 DEF Takes, Gets, S

\* deliver_to_client: each connection that accepts takes the message, behind
\* all it carries; the others take nothing.
LEMMA SendDelivers ==
    ASSUME TypeInv, NEW c \in Conns, NEW claimed \in Names, NEW to \in Names,
           NEW encodable \in BOOLEAN,
           SendConnected(c, claimed, to, encodable), NEW x \in Conns
    PROVE  /\ x \in ConnectionsFor(to) /\ Accepts(x) => Gets(x, Len(sent) + 1)
           /\ ~(x \in ConnectionsFor(to) /\ Accepts(x)) => Quiet(x)
<1> DEFINE id == Len(sent) + 1
           takers == {t \in ConnectionsFor(to) : Accepts(t)}
           boxes == [t \in Conns |-> IF t \in takers THEN Append(outbound[t], id)
                                                     ELSE outbound[t]]
           C == << Control >>
<1>1. id \in 1 .. MaxSends
  BY TransportAssumption DEF SendConnected, TypeInv, TypeOK
<1>2. id \in Frame /\ Receipt(id)
  BY <1>1, TransportAssumption DEF Frame, Receipt
<1>3. /\ outbound \in [Conns -> Seq(Frame)]
      /\ \A t \in Conns : Len(outbound[t]) <= MaxPendingOutbound
  BY DEF TypeInv, TypeOK, OutboundBounded
<1>4. Respond(c, boxes, C) /\ UNCHANGED << received, sending >>
  BY DEF SendConnected, io
<1>5. C \in Seq(Frame) /\ C \in Seq({Control}) /\ << >> \in Seq({Control})
  BY FrameConstants
<1> HIDE DEF id, C
<1>6. boxes \in [Conns -> Seq(Frame)]
  BY <1>2, <1>3
<1>7. Len(boxes[c]) <= MaxPendingOutbound
  <2>1. CASE c \in takers
    <3>1. Len(outbound[c]) < MaxPendingOutbound
      BY <2>1 DEF Accepts
    <3>2. boxes[c] = Append(outbound[c], id)
      BY <2>1
    <3>3. Len(boxes[c]) = Len(outbound[c]) + 1 /\ Len(outbound[c]) \in Nat
      <4> HIDE DEF boxes
      <4> QED BY <1>2, <1>3, <3>2
    <3> QED BY <3>1, <3>3, TransportAssumption
  <2>2. CASE c \notin takers
    BY <1>3, <2>2
  <2> QED BY <2>1, <2>2
<1>8. \A q \in Seq(Frame) : q = q \o << >> /\ << >> \o q = q
  BY ConcatEmptySeq
<1>9. CASE x \in takers
  <2>1. boxes[x] = outbound[x] \o << id >> /\ << id >> \in Seq(Frame)
    <3>1. boxes[x] = Append(outbound[x], id)
      BY <1>9
    <3>2. Append(outbound[x], id) = outbound[x] \o << id >>
      BY <1>2, <1>3, AppendIsConcat
    <3> QED BY <1>2, <3>1, <3>2
  <2> HIDE DEF boxes, takers
  <2>2. x # c => Takes(x, << id >> \o << >>)
    <3>1. x # c => Takes(x, << id >>)
      BY <1>4, <1>5, <1>6, <1>7, <2>1, RespondTakes
    <3>2. << id >> \o << >> = << id >>
      BY <1>8, <2>1
    <3> QED BY <3>1, <3>2
  <2>3. x = c => Takes(x, << id >> \o C)
    BY <1>4, <1>5, <1>6, <1>7, <2>1, RespondTakes
  <2>4. Gets(x, id)
    <3>1. CASE x # c
      BY <1>2, <1>5, <2>2, <3>1, OneTaken
    <3>2. CASE x = c
      BY <1>2, <1>5, <2>3, <3>2, OneTaken
    <3> QED BY <3>1, <3>2
  <2> QED BY <1>9, <2>4 DEF id, takers
<1>10. CASE x \notin takers
  <2>1. boxes[x] = outbound[x] \o << >> /\ << >> \in Seq(Frame)
    BY <1>3, <1>8, <1>10
  <2> HIDE DEF boxes, takers
  <2>2. x # c => Takes(x, << >>)
    BY <1>4, <1>5, <1>6, <1>7, <2>1, RespondTakes
  <2>3. x = c => Takes(x, << >> \o C)
    BY <1>4, <1>5, <1>6, <1>7, <2>1, RespondTakes
  <2>4. Quiet(x)
    BY <1>5, <1>8, <2>2, <2>3, ControlsAreQuiet
  <2> QED BY <1>10, <2>4 DEF takers
<1> QED BY <1>9, <1>10

\* A verdict is added to the record.
LEMMA VerdictIsAdded ==
    ASSUME TypeInv, NEW m, sent' = Append(sent, m)
    PROVE  /\ Recorded /\ Len(sent) \in Nat
           /\ Len(sent') = Len(sent) + 1 /\ sent'[Len(sent) + 1] = m
<1>1. sent \in Seq(Message)
  BY DEF TypeInv, TypeOK
<1> QED BY <1>1 DEF Recorded

\* A number above every number in use may stand behind all of a stream.
LEMMA NewestIsLast ==
    ASSUME TypeInv, NEW s \in Seq(Carried),
           \A id \in Receipts(s) : id <= Len(sent)
    PROVE  \A p \in Range(s) : Before(p, Len(sent) + 1)
<1> TAKE p \in Range(s)
<1>1. p \in Carried /\ (Receipt(p) => p <= Len(sent))
  BY RangeOfSeq, ReceiptsInRange
<1>2. Len(sent) \in Nat
  BY DEF TypeInv, TypeOK
<1>3. p \in Int /\ p < Len(sent) + 1
  BY <1>1, <1>2, TransportAssumption DEF Carried, Frame, Idle, Receipt
<1> QED BY <1>2, <1>3 DEF Before, AuthReady

\* The offline queue takes the message behind all it holds for the recipient.
LEMMA EnqueueKeepsDelivery ==
    ASSUME DeliveryInv, RegistryInv', ResolvingAnonymous',
           NEW c \in Conns, NEW claimed \in Names, NEW to \in Names,
           NEW encodable \in BOOLEAN,
           SendOffline(c, claimed, to, encodable),
           queues' = Enqueue(queues, to, Len(sent) + 1),
           sent' = Append(sent, [by |-> c, claimed |-> claimed, to |-> to,
                                 status |-> "queued", encodable |-> encodable]),
           \A x \in Conns : Quiet(x)
    PROVE  DeliveryInv'
<1>1. TypeInv /\ TypeInv'
  BY DEF DeliveryInv, RegistryInv
<1> PICK id \in Nat : id = Len(sent) + 1
  BY <1>1, VerdictIsAdded
<1>2. /\ Recorded /\ Len(sent) \in Nat /\ Len(sent') = id
      /\ sent'[id].by = c /\ sent'[id].claimed = claimed /\ sent'[id].to = to
  BY <1>1, VerdictIsAdded
<1>3. UNCHANGED ident /\ ident[c] = claimed
  BY DEF SendOffline
<1>4. OnlyAddressee'
  BY <1>1, <1>2, <1>3, AddresseeByParts, StaysAddressed DEF DeliveryInv, Quiet
<1>5. Addressed(id, to)'
  BY <1>2, <1>3 DEF Addressed
<1>6. /\ queues \in [Names -> Seq(1 .. MaxSends)]
      /\ queues' = [queues EXCEPT ![to] = Append(queues[to], id)]
      /\ id \in 1 .. MaxSends
  BY <1>1, <1>2, TransportAssumption DEF TypeInv, TypeOK, Enqueue, SendOffline
<1> DEFINE Q == queues[to]
           I == << id >>
<1>7. /\ Q \in Seq(Carried) /\ I \in Seq(Carried) /\ queues'[to] = Q \o I
      /\ Range(I) = {id} /\ Ordered(I)
  <2>1. id \in Carried
    BY <1>6, TransportAssumption DEF Carried, Frame
  <2>2. queues'[to] = Append(Q, id)
    BY <1>6
  <2>3. Q \in Seq(Carried)
    BY <1>1, OfflineIds
  <2>4. Append(Q, id) = Q \o I
    BY <2>1, <2>3, AppendIsConcat
  <2>5. I \in Seq(Carried)
    BY <2>1
  <2> QED BY <2>2, <2>3, <2>4, <2>5, RangeOfSingle
<1>8. Range(queues'[to]) = Range(Q) \cup {id}
  <2> HIDE DEF Q, I
  <2>1. Q \in Seq(Carried) /\ I \in Seq(Carried)
    BY <1>7
  <2>2. Range(Q \o I) = Range(Q) \cup Range(I)
    BY <2>1, RangeConcatenation
  <2> QED BY <1>7, <2>2
<1>9. OfflineAddressed'
  <2> SUFFICES ASSUME NEW r \in Names, NEW k \in Range(queues'[r])
               PROVE  Addressed(k, r)'
    BY DEF OfflineAddressed
  <2>1. CASE r = to /\ k = id
    BY <1>5, <2>1
  <2>2. CASE ~(r = to /\ k = id)
    <3>1. k \in Range(queues[r])
      BY <1>6, <1>8, <2>2
    <3>2. Addressed(k, r) /\ k \in Nat \ {0}
      BY <1>1, <3>1, OfflineIds DEF DeliveryInv, OfflineAddressed
    <3> QED BY <1>1, <1>2, <1>3, <3>2, StaysAddressed
  <2> QED BY <2>1, <2>2
<1>10. StreamsOrdered'
  BY DEF DeliveryInv, StreamsOrdered, Quiet
<1>11. QueuesOrdered'
  <2>1. \A p \in Range(Q) : Before(p, id)
    <3>1. \A k \in Receipts(Q) : k <= Len(sent)
      BY <1>1, OfflineIds DEF DeliveryInv, OfflineAddressed, Addressed
    <3> QED BY <1>1, <1>7, <3>1, NewestIsLast
  <2>2. Ordered(Q)
    BY DEF DeliveryInv, QueuesOrdered
  <2> HIDE DEF Q, I
  <2>3. Ordered(Q \o I)
    BY <1>7, <2>1, <2>2, OrderedConcat
  <2>4. \A r \in Names : r # to => queues'[r] = queues[r]
    BY <1>6
  <2> QED BY <1>7, <2>3, <2>4 DEF DeliveryInv, QueuesOrdered
<1> QED BY <1>4, <1>9, <1>10, <1>11 DEF DeliveryInv

\* A connection that takes a message live is bound to the account it is for.
LEMMA TakerIsAddressee ==
    ASSUME RegistryInv, NEW to \in Names, NEW x \in ConnectionsFor(to)
    PROVE  x \in Conns /\ ident[x] = to
<1>1. x \in Conns /\ RoutingIdentity(x) = to
  BY DEF RegistryInv, RegistryConsistent, ConnectionsFor, Registered
<1> QED BY <1>1, TransportAssumption DEF RoutingIdentity, Authenticated

LEMMA LiveKeepsDelivery ==
    ASSUME DeliveryInv, RegistryInv', ResolvingAnonymous',
           NEW c \in Conns, NEW claimed \in Names, NEW to \in Names,
           NEW encodable \in BOOLEAN,
           SendConnected(c, claimed, to, encodable)
    PROVE  DeliveryInv'
<1>1. TypeInv /\ TypeInv' /\ RegistryInv
  BY DEF DeliveryInv, RegistryInv
<1> PICK id \in Nat : id = Len(sent) + 1
  BY <1>1, VerdictIsAdded DEF SendConnected
<1>2. /\ Recorded /\ Len(sent) \in Nat /\ Len(sent') = id
      /\ sent'[id].by = c /\ sent'[id].claimed = claimed /\ sent'[id].to = to
  BY <1>1, VerdictIsAdded DEF SendConnected
<1>3. UNCHANGED << ident, queues >> /\ ident[c] = claimed
  BY DEF SendConnected
<1>4. Addressed(id, to)'
  BY <1>2, <1>3 DEF Addressed
<1>5. ASSUME NEW x \in Conns
      PROVE  \/ Gets(x, id) /\ ident[x] = to
             \/ Quiet(x)
  BY <1>1, SendDelivers, TakerIsAddressee
<1>6. OnlyAddressee'
  <2> SUFFICES ASSUME NEW x \in Conns, NEW k \in Receipts(Stream(x))'
               PROVE  Addressed(k, ident[x])'
    BY AddresseeByParts
  <2>1. CASE k \in Receipts(Stream(x))
    <3>1. Addressed(k, ident[x]) /\ k \in Nat \ {0}
      BY <2>1, AddresseeByParts DEF DeliveryInv
    <3> QED BY <1>1, <1>2, <1>3, <3>1, StaysAddressed
  <2>2. CASE k \notin Receipts(Stream(x))
    <3>1. k = id /\ ident[x] = to
      BY <1>5, <2>2 DEF Gets, Quiet
    <3> QED BY <1>3, <1>4, <3>1 DEF Addressed
  <2> QED BY <2>1, <2>2
<1>7. OfflineAddressed'
  BY <1>1, <1>2, <1>3, OfflineIds, StaysAddressed DEF DeliveryInv, OfflineAddressed
<1>8. StreamsOrdered'
  <2> SUFFICES ASSUME NEW x \in Conns PROVE Ordered(Stream(x))'
    BY DEF StreamsOrdered
  <2>1. Stream(x) \in Seq(Carried) /\ Ordered(Stream(x))
    BY <1>1, StreamTypes DEF DeliveryInv, StreamsOrdered
  <2>2. \A k \in Receipts(Stream(x)) : k <= Len(sent)
    BY DEF DeliveryInv, OnlyAddressee
  <2>3. \A p \in Range(Stream(x)) : Before(p, id)
    BY <1>1, <2>1, <2>2, NewestIsLast
  <2> QED BY <1>5, <2>1, <2>3 DEF Gets, Quiet
<1>9. QueuesOrdered'
  BY <1>3 DEF DeliveryInv, QueuesOrdered
<1> QED BY <1>6, <1>7, <1>8, <1>9 DEF DeliveryInv

\* The other verdicts concern no receipt.
LEMMA SendIsQuiet ==
    ASSUME TypeInv, NEW c \in Conns, NEW claimed \in Names, NEW to \in Names,
           NEW encodable \in BOOLEAN,
           SendMismatch(c, claimed, to) \/ SendOffline(c, claimed, to, encodable)
    PROVE  /\ \A x \in Conns : Quiet(x)
           /\ Recorded /\ UNCHANGED ident
<1>1. \A x \in Conns : Quiet(x)
  <2>1. << Control >> \in Seq({Control}) /\ << Control, Control >> \in Seq({Control})
    OBVIOUS
  <2> QED BY <2>1, RespondControlsIsQuiet DEF SendMismatch, SendOffline, io
<1> QED BY <1>1, VerdictIsAdded DEF SendMismatch, SendOffline

LEMMA NextDelivery == DeliveryInv /\ [Next]_vars => DeliveryInv'
<1> SUFFICES ASSUME DeliveryInv, [Next]_vars PROVE DeliveryInv'
  OBVIOUS
<1>1. RegistryInv /\ RegistryInv' /\ ResolvingAnonymous' /\ TypeInv /\ TypeInv'
  BY NextRegistry, NextAnonymous DEF DeliveryInv, RegistryInv
<1>2. sent' = sent => Recorded
  BY <1>1 DEF Recorded, TypeInv, TypeOK
<1>3. CASE UNCHANGED vars
  <2>1. /\ \A x \in Conns : Quiet(x)
        /\ UNCHANGED << ident, queues, sent >>
    BY <1>3, UntouchedIsQuiet DEF vars
  <2> QED BY <1>1, <1>2, <2>1, QuietKeepsDelivery
<1>4. CASE Next
  <2> PICK c \in Conns : Upgrade(c) \/ Receive(c) \/ Resolve(c)
                           \/ Send(c) \/ Write(c) \/ Flush(c)
    BY <1>4 DEF Next
  <2>1. CASE \/ Upgrade(c) \/ Receive(c) \/ AuthenticateFails(c)
             \/ AuthenticateRaises(c) \/ Write(c) \/ Flush(c)
    BY <1>1, <1>2, <2>1, QuietSteps, QuietKeepsDelivery
  <2>2. ASSUME NEW u \in Users, AuthenticateSucceeds(c, u) PROVE DeliveryInv'
    BY <1>1, <2>2, AuthenticateKeepsDelivery
  <2>3. CASE Send(c)
    <3> PICK claimed \in Names, to \in Names, encodable \in BOOLEAN :
            SendMismatch(c, claimed, to) \/ SendConnected(c, claimed, to, encodable)
              \/ SendOffline(c, claimed, to, encodable)
      BY <2>3 DEF Send
    <3>1. CASE SendConnected(c, claimed, to, encodable)
      BY <1>1, <3>1, LiveKeepsDelivery
    <3>2. CASE SendMismatch(c, claimed, to) \/ SendOffline(c, claimed, to, encodable)
      <4>1. (\A x \in Conns : Quiet(x)) /\ Recorded /\ UNCHANGED ident
        BY <1>1, <3>2, SendIsQuiet
      <4>2. CASE queues' = queues
        BY <1>1, <4>1, <4>2, QuietKeepsDelivery
      <4>3. CASE queues' # queues
        <5>1. /\ SendOffline(c, claimed, to, encodable)
              /\ queues' = Enqueue(queues, to, Len(sent) + 1)
              /\ sent' = Append(sent, [by |-> c, claimed |-> claimed, to |-> to,
                                       status |-> "queued", encodable |-> encodable])
          BY <3>2, <4>3 DEF SendMismatch, SendOffline
        <5> QED BY <1>1, <4>1, <5>1, EnqueueKeepsDelivery
      <4> QED BY <4>2, <4>3
    <3> QED BY <3>1, <3>2
  <2> QED BY <2>1, <2>2, <2>3 DEF Resolve
<1> QED BY <1>3, <1>4

\* Nothing is carried before the first step.
LEMMA InitStreams ==
    ASSUME Init
    PROVE  /\ \A c \in Conns : Receipts(Stream(c)) = {} /\ Ordered(Stream(c))
           /\ \A r \in Names : Range(queues[r]) = {} /\ Ordered(queues[r])
<1>1. TypeInv
  BY InitType
<1>2. ASSUME NEW c \in Conns PROVE Receipts(Stream(c)) = {} /\ Ordered(Stream(c))
  <2>1. received[c] = << >> /\ sending[c] = Idle /\ outbound[c] = << >>
    BY DEF Init
  <2> QED BY <1>1, <2>1, StreamNow, MarksCarryNothing, RangeOfEmpty
<1>3. \A r \in Names : queues[r] = << >>
  BY DEF Init
<1> QED BY <1>2, <1>3, RangeOfEmpty

LEMMA InitDelivery == Init => DeliveryInv
<1> SUFFICES ASSUME Init PROVE DeliveryInv
  OBVIOUS
<1>1. RegistryInv
  BY InitRegistry
<1>2. ResolvingAnonymous
  BY DEF Init, ResolvingAnonymous
<1>3. OnlyAddressee /\ OfflineAddressed /\ StreamsOrdered /\ QueuesOrdered
  BY InitStreams DEF OnlyAddressee, OfflineAddressed, StreamsOrdered, QueuesOrdered
<1> QED BY <1>1, <1>2, <1>3 DEF DeliveryInv

\* A receipt reaches only connections of the account it is addressed to, under
\* the name of the account that sent it.
THEOREM AddresseeTheorem == Spec => []OnlyAddressee
<1>1. DeliveryInv => OnlyAddressee
  BY DEF DeliveryInv
<1> QED BY <1>1, InitDelivery, NextDelivery, PTL DEF Spec

\* Every connection sees receipts in the order of the sends, once each, and
\* after its auth.ready.
THEOREM OrderTheorem == Spec => []InOrder
<1>1. DeliveryInv => InOrder
  BY DEF DeliveryInv, StreamsOrdered, Ordered, Before, InOrder
<1> QED BY <1>1, InitDelivery, NextDelivery, PTL DEF Spec

-----------------------------------------------------------------------------
(* Why a recipient is unavailable.                                         *)

UnavailableCaused ==
    Len(sent') > Len(sent) =>
         LET m == sent'[Len(sent')] IN
         m.status = "recipient_unavailable" =>
            \/ ~IsConnected(m.to) /\ ~QueueAccepts(queues, m.to)
            \/ /\ ConnectionsFor(m.to) # {}
               /\ \A c \in ConnectionsFor(m.to) :
                     \/ phase[c] = "closing"
                     \/ Len(outbound[c]) = MaxPendingOutbound
                     \/ Stranded(c)

\* Only a message.send gets a verdict.
LEMMA OnlySendAnswers ==
    ASSUME NEW c \in Conns,
           Upgrade(c) \/ Receive(c) \/ Resolve(c) \/ Write(c) \/ Flush(c)
    PROVE  UNCHANGED sent
BY DEF Upgrade, RejectOrigin, RejectLimit, Register, AcceptReturns, AcceptRaises,
       Receive, ReceiveOverLimit, ReceiveSimple, ReceiveTimeout, ReceiveEnds,
       StartAuthenticate, Resolve, AuthenticateFails, AuthenticateRaises,
       AuthenticateSucceeds, Write, WriterTakes, WriterSends, WriterFails, WriterBreaks,
       Flush, FlushDone, FlushExpires, Teardown

\* A writer ends in an exception only over a message to the account of its
\* connection, which keeps that account; and a handler only with its writer.
BrokenCaused ==
    \A c \in Conns :
        /\ phase[c] = "raised" => writer[c] = "broken"
        /\ writer[c] = "broken" =>
             \E id \in dropped[c] :
                 /\ id \in 1 .. Len(sent)
                 /\ sent[id].to = ident[c] /\ ~sent[id].encodable

\* What is on record stays, and so does what is lost.
LEMMA NothingIsForgotten ==
    ASSUME TypeInv, Next
    PROVE  Recorded /\ \A x \in Conns : dropped[x] \subseteq dropped'[x]
<1>0. dropped \in [Conns -> SUBSET (1 .. MaxSends)]
  BY DEF TypeInv, TypeOK
<1> PICK c \in Conns : Upgrade(c) \/ Receive(c) \/ Resolve(c)
                         \/ Send(c) \/ Write(c) \/ Flush(c)
  BY DEF Next
<1>1. sent' = sent => Recorded
  BY DEF Recorded, TypeInv, TypeOK
<1>2. Recorded
  <2>1. CASE Send(c)
    BY <2>1, VerdictIsAdded DEF Send, SendMismatch, SendConnected, SendOffline
  <2> QED BY <1>1, <2>1, OnlySendAnswers
<1>3. \/ UNCHANGED dropped
      \/ \E more : dropped' = [dropped EXCEPT ![c] = @ \cup more]
  BY DEF Upgrade, RejectOrigin, RejectLimit, Register, AcceptReturns, AcceptRaises,
         Receive, ReceiveOverLimit, ReceiveSimple, ReceiveTimeout, ReceiveEnds,
         StartAuthenticate, Resolve, AuthenticateFails, AuthenticateRaises,
         AuthenticateSucceeds, Send, SendMismatch, SendConnected, SendOffline, Respond,
         Write, WriterTakes, WriterSends, WriterFails, WriterBreaks,
         Flush, FlushDone, FlushExpires, Teardown
<1> QED BY <1>0, <1>2, <1>3

\* Where a step changes an identity, breaks a writer or ends a handler with it.
LEMMA NextBreaks ==
    ASSUME TypeInv, BrokenCaused, Next, NEW x \in Conns
    PROVE  /\ ident'[x] = ident[x] \/ phase[x] = "resolving"
           /\ writer'[x] = "broken" => writer[x] = "broken" \/ WriterBreaks(x)
           /\ phase'[x] = "raised" => writer'[x] = "broken"
<1>0. /\ phase \in [Conns -> Phase] /\ ident \in [Conns -> Users \cup {None}]
      /\ writer \in [Conns -> Writer]
      /\ phase[x] = "raised" => writer[x] = "broken"
  BY DEF TypeInv, TypeOK, BrokenCaused
<1> PICK c \in Conns : Upgrade(c) \/ Receive(c) \/ Resolve(c)
                         \/ Send(c) \/ Write(c) \/ Flush(c)
  BY DEF Next
<1>1. CASE Upgrade(c)
  BY <1>0, <1>1 DEF Upgrade, RejectOrigin, RejectLimit, Register, AcceptReturns,
                    AcceptRaises, io
<1>2. CASE Receive(c)
  BY <1>0, <1>2 DEF Receive, ReceiveOverLimit, ReceiveSimple, ReceiveTimeout, ReceiveEnds,
                    StartAuthenticate, Respond, io
<1>3. CASE Resolve(c)
  BY <1>0, <1>3 DEF Resolve, AuthenticateFails, AuthenticateRaises, AuthenticateSucceeds,
                    Respond, io
<1>4. CASE Send(c)
  BY <1>0, <1>4 DEF Send, SendMismatch, SendConnected, SendOffline, Respond, io
<1>5. CASE Write(c)
  <2>1. CASE x = c
    BY <1>0, <1>5, <2>1 DEF Write, WriterTakes, WriterSends, WriterFails, WriterBreaks
  <2>2. CASE x # c
    BY <1>0, <1>5, <2>2 DEF Write, WriterTakes, WriterSends, WriterFails, WriterBreaks
  <2> QED BY <2>1, <2>2
<1>6. CASE Flush(c)
  <2>1. Teardown(c)
    BY <1>6 DEF Flush, FlushDone, FlushExpires
  <2>2. UNCHANGED ident
    BY <2>1 DEF Teardown
  <2>3. \/ /\ writer' = [writer EXCEPT ![c] = "none"]
           /\ phase' = [phase EXCEPT ![c] = "done"]
        \/ /\ writer' = writer /\ writer[c] = "broken"
           /\ phase' = [phase EXCEPT ![c] = "raised"]
    BY <2>1 DEF Teardown, Release
  <2> QED BY <1>0, <2>2, <2>3
<1> QED BY <1>1, <1>2, <1>3, <1>4, <1>5, <1>6

\* What broke a writer was first in its connection's stream.
LEMMA NextBroken ==
    ASSUME DeliveryInv, BrokenCaused, Next
    PROVE  BrokenCaused'
<1>1. TypeInv /\ ResolvingAnonymous
  BY DEF DeliveryInv, RegistryInv
<1> SUFFICES ASSUME NEW x \in Conns, writer'[x] = "broken"
             PROVE  \E id \in dropped'[x] :
                       /\ id \in 1 .. Len(sent')
                       /\ sent'[id].to = ident'[x] /\ ~sent'[id].encodable
  BY <1>1, NextBreaks DEF BrokenCaused
<1>2. /\ ident'[x] = ident[x] \/ phase[x] = "resolving"
      /\ writer[x] = "broken" \/ WriterBreaks(x)
  BY <1>1, NextBreaks
<1>3. Recorded /\ dropped[x] \subseteq dropped'[x] /\ Len(sent) \in Nat /\ Len(sent') \in Nat
  <2>1. TypeInv'
    BY <1>1, NextType
  <2>2. Len(sent) \in Nat /\ Len(sent') \in Nat
    BY <1>1, <2>1 DEF TypeInv, TypeOK
  <2>3. Recorded /\ dropped[x] \subseteq dropped'[x]
    BY <1>1, NothingIsForgotten
  <2> QED BY <2>2, <2>3
<1>4. CASE writer[x] = "broken"
  <2>1. PICK id \in dropped[x] : /\ id \in 1 .. Len(sent)
                                 /\ sent[id].to = ident[x] /\ ~sent[id].encodable
    BY <1>4 DEF BrokenCaused
  <2>2. ident[x] # None
    BY <1>1, <2>1, MessageParts, TransportAssumption
  <2>3. ident'[x] = ident[x]
    BY <1>1, <1>2, <2>2 DEF ResolvingAnonymous
  <2> QED BY <1>3, <2>1, <2>3 DEF Recorded
<1>5. CASE WriterBreaks(x)
  <2> DEFINE f == sending[x]
  <2>1. /\ Receipt(f) /\ ~sent[f].encodable
        /\ dropped'[x] = dropped[x] \cup Receipts(<< f >>)
        /\ UNCHANGED << ident, sent >>
    BY <1>1, <1>5 DEF WriterBreaks, Encodable, TypeInv, TypeOK
  <2>2. f \in Receipts(<< f >>)
    BY <2>1 DEF Receipts
  <2>3. f \in Receipts(Stream(x))
    BY <1>1, <2>2, StreamNow
  <2>4. f <= Len(sent) /\ ident[x] = sent[f].to
    BY <2>3 DEF DeliveryInv, OnlyAddressee
  <2>5. f \in 1 .. Len(sent)
    BY <1>3, <2>1, <2>4 DEF Receipt
  <2> HIDE DEF f
  <2> QED BY <2>1, <2>2, <2>4, <2>5
<1> QED BY <1>2, <1>4, <1>5

UnavailableInv == DeliveryInv /\ BrokenCaused

LEMMA NextUnavailable == UnavailableInv /\ [Next]_vars => UnavailableInv'
<1> SUFFICES ASSUME UnavailableInv, [Next]_vars PROVE UnavailableInv'
  OBVIOUS
<1>1. DeliveryInv'
  BY NextDelivery DEF UnavailableInv
<1>2. CASE Next
  BY <1>1, <1>2, NextBroken DEF UnavailableInv
<1>3. CASE UNCHANGED vars
  BY <1>1, <1>3 DEF vars, UnavailableInv, BrokenCaused
<1> QED BY <1>2, <1>3

LEMMA NextRefuses == UnavailableInv /\ [Next]_vars => [UnavailableCaused]_vars
<1> SUFFICES ASSUME UnavailableInv, Next, Len(sent') > Len(sent),
                    sent'[Len(sent')].status = "recipient_unavailable"
             PROVE  LET m == sent'[Len(sent')] IN
                    \/ ~IsConnected(m.to) /\ ~QueueAccepts(queues, m.to)
                    \/ /\ ConnectionsFor(m.to) # {}
                       /\ \A c \in ConnectionsFor(m.to) :
                             \/ phase[c] = "closing"
                             \/ Len(outbound[c]) = MaxPendingOutbound
                             \/ Stranded(c)
  BY DEF UnavailableCaused
<1>1. TypeInv /\ RegistryInv /\ sent \in Seq(Message)
  BY DEF UnavailableInv, DeliveryInv, RegistryInv, TypeInv, TypeOK
<1>2. PICK c \in Conns : Send(c)
  <2>1. sent' # sent
    BY <1>1
  <2> QED BY <2>1, OnlySendAnswers DEF Next
<1>3. PICK claimed \in Names, to \in Names, encodable \in BOOLEAN :
        SendMismatch(c, claimed, to) \/ SendConnected(c, claimed, to, encodable)
          \/ SendOffline(c, claimed, to, encodable)
  BY <1>2 DEF Send
<1>4. ASSUME NEW st, NEW e,
             sent' = Append(sent, [by |-> c, claimed |-> claimed, to |-> to,
                                   status |-> st, encodable |-> e])
      PROVE  sent'[Len(sent')].to = to /\ sent'[Len(sent')].status = st
  <2> DEFINE m == [by |-> c, claimed |-> claimed, to |-> to,
                    status |-> st, encodable |-> e]
  <2>1. Len(sent') = Len(sent) + 1 /\ sent'[Len(sent) + 1] = m
    <3> HIDE DEF m
    <3> QED BY <1>1, <1>4 DEF m
  <2> QED BY <2>1
<1>5. CASE SendMismatch(c, claimed, to)
  BY <1>4, <1>5 DEF SendMismatch
<1>6. CASE SendOffline(c, claimed, to, encodable)
  <2>1. sent'[Len(sent')].to = to /\ ~IsConnected(to) /\ ~QueueAccepts(queues, to)
    <3>1. ~IsConnected(to)
      BY <1>6 DEF SendOffline
    <3>2. sent' # Append(sent, [by |-> c, claimed |-> claimed, to |-> to,
                                status |-> "queued", encodable |-> encodable])
      BY <1>4
    <3> QED BY <1>4, <1>6, <3>1, <3>2 DEF SendOffline
  <2> QED BY <2>1
<1>7. CASE SendConnected(c, claimed, to, encodable)
  <2> DEFINE takers == {t \in ConnectionsFor(to) : Accepts(t)}
  <2>1. takers = {} /\ sent'[Len(sent')].to = to /\ IsConnected(to)
    BY <1>4, <1>7 DEF SendConnected
  <2>2. ConnectionsFor(to) # {}
    <3>1. byClient[to] = {x \in connections : RoutingIdentity(x) = to}
      BY <1>1 DEF RegistryInv, RegistryConsistent
    <3> QED BY <2>1, <3>1 DEF IsConnected, ConnectionsFor
  <2>3. ASSUME NEW t \in ConnectionsFor(to)
        PROVE  phase[t] = "closing" \/ Len(outbound[t]) = MaxPendingOutbound \/ Stranded(t)
    <3>1. ~Accepts(t)
      BY <2>1
    <3>2. t \in Conns /\ phase[t] # "done"
      BY <1>1 DEF ConnectionsFor, RegistryInv, RegistryConsistent, Registered
    <3>3. Len(outbound[t]) \in Nat /\ Len(outbound[t]) <= MaxPendingOutbound
      BY <1>1, <3>2 DEF TypeInv, TypeOK, OutboundBounded
    <3>4. phase[t] = "raised" => Stranded(t)
      BY <3>2 DEF UnavailableInv, BrokenCaused, Stranded
    <3> QED BY <3>1, <3>2, <3>3, <3>4, TransportAssumption DEF Accepts
  <2> QED BY <2>1, <2>2, <2>3
<1> QED BY <1>3, <1>5, <1>6, <1>7

\* A message is refused as unavailable only because the offline queue is at a
\* bound, or because each connection of the recipient is full, closing or left
\* behind by a handler that ended over a message to this recipient that has no
\* encoding.
THEOREM UnavailableTheorem == Spec => UnavailableNeedsCause
<1>1. UnavailableNeedsCause <=> [][UnavailableCaused]_vars
  BY DEF UnavailableNeedsCause, UnavailableCaused
<1>2. Init => UnavailableInv
  <2>1. Init => BrokenCaused
    BY DEF Init, BrokenCaused
  <2> QED BY <2>1, InitDelivery DEF UnavailableInv
<1> QED BY <1>1, <1>2, NextUnavailable, NextRefuses, PTL DEF Spec

-----------------------------------------------------------------------------
(* Every acknowledged message is accounted for.                            *)

\* Where message id is: the connections that took it, and its places in the
\* offline queue.
Takers(id) == {c \in Conns : TookIt(c, id)}

Places(id) ==
    {p \in Names \X (1 .. MaxQueuedPerRecipient) :
       p[2] <= Len(queues[p[1]]) /\ queues[p[1]][p[2]] = id}

\* A queued message is in one place, or one connection took it.
Placed(id) ==
    /\ sent[id].status = "queued" =>
         \/ Places(id) = {} /\ \E c \in Conns : Takers(id) = {c}
         \/ Takers(id) = {} /\ \E p : Places(id) = {p}
    /\ sent[id].status = "delivered" => Takers(id) # {} /\ Places(id) = {}
    /\ sent[id].status \notin {"queued", "delivered"} => Takers(id) = {} /\ Places(id) = {}

\* What a connection took has a verdict.
TakenKnown == \A c \in Conns : \A id \in Taken(c) : id \in Nat \ {0} /\ id <= Len(sent)

AccountInv ==
    /\ BoundedInv
    /\ DeliveryInv
    /\ TakenKnown
    /\ \A id \in 1 .. Len(sent) : Placed(id)

LEMMA TakersByTaken ==
    ASSUME NEW id
    PROVE  /\ Takers(id) = {c \in Conns : id \in Taken(c)}
           /\ Takers(id)' = {c \in Conns : id \in Taken(c)'}
BY DEF Takers, TookIt, Taken

\* The places of a message are where the queues hold it.
LEMMA PlacesInQueues ==
    ASSUME TypeInv, Bounded, NEW id
    PROVE  \A r \in Names : id \in Range(queues[r]) <=> \E p \in Places(id) : p[1] = r
<1> TAKE r \in Names
<1>1. queues[r] \in Seq(1 .. MaxSends) /\ Len(queues[r]) <= MaxQueuedPerRecipient
  BY DEF TypeInv, TypeOK, Bounded
<1>2. Range(queues[r]) = {queues[r][k] : k \in 1 .. Len(queues[r])}
  BY <1>1, RangeEquality
<1>3. ASSUME id \in Range(queues[r]) PROVE \E p \in Places(id) : p[1] = r
  <2>1. PICK k \in 1 .. Len(queues[r]) : queues[r][k] = id
    BY <1>2, <1>3
  <2>2. k \in 1 .. MaxQueuedPerRecipient /\ k <= Len(queues[r])
    BY <1>1, QueueAssumption
  <2>3. << r, k >> \in Places(id)
    BY <2>1, <2>2 DEF Places
  <2> QED BY <2>3
<1>4. ASSUME NEW p \in Places(id), p[1] = r PROVE id \in Range(queues[r])
  <2>1. /\ p[2] \in 1 .. MaxQueuedPerRecipient /\ p[2] <= Len(queues[r])
        /\ queues[r][p[2]] = id
    BY <1>4 DEF Places
  <2>2. p[2] \in 1 .. Len(queues[r])
    BY <1>1, <2>1, QueueAssumption
  <2> QED BY <1>2, <2>1, <2>2
<1> QED BY <1>3, <1>4

\* A number not yet given is nowhere.
LEMMA NewestIsNowhere ==
    ASSUME AccountInv, NEW id \in Nat, id = Len(sent) + 1
    PROVE  Takers(id) = {} /\ Places(id) = {}
<1>1. TypeInv /\ Bounded /\ Len(sent) \in Nat
  BY DEF AccountInv, BoundedInv, TypeInv, TypeOK
<1>2. Takers(id) = {}
  BY <1>1, TakersByTaken DEF AccountInv, TakenKnown
<1>3. \A r \in Names : id \notin Range(queues[r])
  BY <1>1 DEF AccountInv, DeliveryInv, OfflineAddressed, Addressed
<1>4. \A p \in Places(id) : p[1] \in Names
  BY DEF Places
<1> QED BY <1>1, <1>2, <1>3, <1>4, PlacesInQueues

\* A message that no step moves keeps its place.
LEMMA UnmovedIsPlaced ==
    ASSUME TypeInv, Recorded, NEW id \in 1 .. Len(sent), Placed(id),
           Takers(id)' = Takers(id), Places(id)' = Places(id)
    PROVE  Placed(id)'
BY DEF Placed, Recorded

\* A step that changes no queue leaves the places, and one in which no
\* connection takes the message leaves its takers.
LEMMA UntouchedPlaces ==
    ASSUME NEW id
    PROVE  /\ UNCHANGED queues => Places(id)' = Places(id)
           /\ (\A x \in Conns : id \in Taken(x)' <=> id \in Taken(x))
                => Takers(id)' = Takers(id)
<1>1. UNCHANGED queues => Places(id)' = Places(id)
  BY DEF Places
<1>2. (\A x \in Conns : id \in Taken(x)' <=> id \in Taken(x)) => Takers(id)' = Takers(id)
  BY TakersByTaken
<1> QED BY <1>1, <1>2

\* A verdict about a message that goes nowhere.
LEMMA RefusedKeepsAccount ==
    ASSUME AccountInv, BoundedInv', DeliveryInv', Recorded,
           \A x \in Conns : Quiet(x), UNCHANGED queues,
           \/ sent' = sent
           \/ /\ Len(sent') = Len(sent) + 1
              /\ sent'[Len(sent) + 1].status \notin {"queued", "delivered"}
    PROVE  AccountInv'
<1>1. TypeInv /\ Len(sent) \in Nat
  BY DEF AccountInv, BoundedInv, TypeInv, TypeOK
<1>2. TakenKnown'
  BY <1>1 DEF AccountInv, TakenKnown, Quiet, Recorded
<1>3. ASSUME NEW id \in 1 .. Len(sent') PROVE Placed(id)'
  <2>1. Takers(id)' = Takers(id) /\ Places(id)' = Places(id)
    BY UntouchedPlaces DEF Quiet
  <2>2. CASE id \in 1 .. Len(sent)
    BY <1>1, <2>1, <2>2, UnmovedIsPlaced DEF AccountInv
  <2>3. CASE id \notin 1 .. Len(sent)
    <3>1. id \in Nat /\ id = Len(sent) + 1
      BY <1>1, <2>3
    <3> QED BY <2>1, <2>3, <3>1, NewestIsNowhere DEF Placed
  <2> QED BY <2>2, <2>3
<1> QED BY <1>2, <1>3 DEF AccountInv

\* A message handed to the live connections of its recipient.
LEMMA LiveKeepsAccount ==
    ASSUME AccountInv, BoundedInv', DeliveryInv',
           NEW c \in Conns, NEW claimed \in Names, NEW to \in Names,
           NEW encodable \in BOOLEAN,
           SendConnected(c, claimed, to, encodable)
    PROVE  AccountInv'
<1>1. TypeInv /\ RegistryInv
  BY DEF AccountInv, BoundedInv, DeliveryInv
<1> DEFINE takers == {t \in ConnectionsFor(to) : Accepts(t)}
<1> PICK new \in Nat : new = Len(sent) + 1
  BY <1>1, VerdictIsAdded DEF SendConnected
<1>2. /\ Recorded /\ Len(sent) \in Nat /\ Len(sent') = new /\ queues' = queues
      /\ sent'[new].status = IF takers # {} THEN "delivered" ELSE "recipient_unavailable"
  BY <1>1, VerdictIsAdded DEF SendConnected
<1>3. takers \subseteq Conns
  BY <1>1, TakerIsAddressee
<1>4. ASSUME NEW x \in Conns
      PROVE  /\ x \in takers => Gets(x, new)
             /\ x \notin takers => Quiet(x)
  BY <1>1, SendDelivers
<1> HIDE DEF takers
<1>5. TakenKnown'
  <2> SUFFICES ASSUME NEW x \in Conns, NEW id \in Taken(x)'
               PROVE  id \in Nat \ {0} /\ id <= Len(sent')
    BY DEF TakenKnown
  <2>1. id \in Taken(x) \/ id = new
    BY <1>4 DEF Gets, Quiet
  <2> QED BY <1>2, <2>1 DEF AccountInv, TakenKnown
<1>6. ASSUME NEW id \in 1 .. Len(sent') PROVE Placed(id)'
  <2>1. CASE id # new
    <3>1. \A x \in Conns : id \in Taken(x)' <=> id \in Taken(x)
      BY <1>4, <2>1 DEF Gets, Quiet
    <3>2. id \in 1 .. Len(sent)
      BY <1>2, <2>1
    <3>3. Takers(id)' = Takers(id) /\ Places(id)' = Places(id)
      BY <1>2, <3>1, UntouchedPlaces
    <3> QED BY <1>1, <1>2, <3>2, <3>3, UnmovedIsPlaced DEF AccountInv
  <2>2. CASE id = new
    <3>1. Takers(new) = {} /\ Places(new) = {}
      BY NewestIsNowhere
    <3>2. Takers(new)' = takers
      <4>1. \A x \in Conns : new \notin Taken(x)
        BY <3>1, TakersByTaken
      <4>2. \A x \in Conns : new \in Taken(x)' <=> x \in takers
        BY <1>4, <4>1 DEF Gets, Quiet
      <4>3. Takers(new)' = {x \in Conns : new \in Taken(x)'}
        BY TakersByTaken
      <4> QED BY <1>3, <4>2, <4>3
    <3>3. Places(new)' = {}
      BY <1>2, <3>1, UntouchedPlaces
    <3> QED BY <1>2, <2>2, <3>2, <3>3 DEF Placed
  <2> QED BY <2>1, <2>2
<1> QED BY <1>5, <1>6 DEF AccountInv

\* A message that the offline queue accepts has one place there.
LEMMA EnqueueKeepsAccount ==
    ASSUME AccountInv, BoundedInv', DeliveryInv',
           NEW c \in Conns, NEW claimed \in Names, NEW to \in Names,
           NEW encodable \in BOOLEAN,
           SendOffline(c, claimed, to, encodable),
           queues' = Enqueue(queues, to, Len(sent) + 1),
           sent' = Append(sent, [by |-> c, claimed |-> claimed, to |-> to,
                                 status |-> "queued", encodable |-> encodable]),
           \A x \in Conns : Quiet(x)
    PROVE  AccountInv'
<1>1. TypeInv /\ Bounded
  BY DEF AccountInv, BoundedInv
<1> PICK new \in Nat : new = Len(sent) + 1
  BY <1>1, VerdictIsAdded
<1>2. /\ Recorded /\ Len(sent) \in Nat /\ Len(sent') = new
      /\ sent'[new].status = "queued"
  BY <1>1, VerdictIsAdded
<1>3. TakenKnown'
  BY <1>2 DEF AccountInv, TakenKnown, Quiet
<1>4. \A id : Takers(id)' = Takers(id)
  BY UntouchedPlaces DEF Quiet
<1>5. Takers(new) = {} /\ Places(new) = {}
  BY NewestIsNowhere
<1> PICK n \in Nat : n = Len(queues[to])
  BY <1>1 DEF TypeInv, TypeOK
<1>6. /\ \A r \in Names : Len(queues[r]) \in Nat
      /\ \A r \in Names : r # to => queues'[r] = queues[r]
      /\ Len(queues'[to]) = n + 1 /\ queues'[to][n + 1] = new
      /\ \A k \in 1 .. n : queues'[to][k] = queues[to][k]
  <2>1. queues \in [Names -> Seq(1 .. MaxSends)]
    BY <1>1 DEF TypeInv, TypeOK
  <2>2. queues' = [queues EXCEPT ![to] = Append(queues[to], new)]
    BY DEF Enqueue
  <2>3. queues'[to] = Append(queues[to], new) /\ queues[to] \in Seq(1 .. MaxSends)
    BY <2>1, <2>2
  <2>4. Len(queues'[to]) = n + 1 /\ queues'[to][n + 1] = new
    BY <2>3
  <2>5. \A k \in 1 .. n : queues'[to][k] = queues[to][k]
    <3>1. new \in 1 .. MaxSends
      BY <1>1, TransportAssumption DEF SendOffline, TypeInv, TypeOK
    <3> DEFINE Q == queues[to]
    <3>2. Q \in Seq(1 .. MaxSends) /\ n = Len(Q) /\ queues'[to] = Append(Q, new)
      BY <2>3
    <3> HIDE DEF Q
    <3>3. \A k \in 1 .. Len(Q) : Append(Q, new)[k] = Q[k]
      BY <3>1, <3>2, AppendProperties
    <3> QED BY <3>2, <3>3 DEF Q
  <2> QED BY <2>1, <2>2, <2>4, <2>5
<1>7. n + 1 \in 1 .. MaxQueuedPerRecipient
  <2>1. n < MaxQueuedPerRecipient
    <3>1. QueueAccepts(queues, to)
      <4>1. queues' # queues
        BY <1>6
      <4> QED BY <4>1 DEF SendOffline
    <3> QED BY <3>1 DEF QueueAccepts
  <2> QED BY <2>1, QueueAssumption
<1> DEFINE Spots == Names \X (1 .. MaxQueuedPerRecipient)
<1>8. ASSUME NEW id, NEW p \in Spots
      PROVE  p \in Places(id)' <=> p \in Places(id) \/ (p = << to, n + 1 >> /\ id = new)
  <2>1. PICK r \in Names, k \in 1 .. MaxQueuedPerRecipient : p = << r, k >>
    OBVIOUS
  <2>2. p \in Places(id) <=> k <= Len(queues[r]) /\ queues[r][k] = id
    BY <2>1 DEF Places
  <2>3. p \in Places(id)' <=> k <= Len(queues'[r]) /\ queues'[r][k] = id
    BY <2>1 DEF Places
  <2>4. k \in Nat \ {0}
    BY QueueAssumption
  <2>5. CASE r # to
    BY <1>6, <2>1, <2>2, <2>3, <2>5
  <2>6. CASE r = to /\ k <= n
    <3>1. queues'[to][k] = queues[to][k] /\ k <= n + 1 /\ k # n + 1
      BY <1>6, <2>4, <2>6
    <3> QED BY <1>6, <2>1, <2>2, <2>3, <2>6, <3>1
  <2>7. CASE r = to /\ k = n + 1
    BY <1>6, <2>1, <2>2, <2>3, <2>7
  <2>8. CASE r = to /\ k > n + 1
    BY <1>6, <2>1, <2>2, <2>3, <2>4, <2>8
  <2> QED BY <2>4, <2>5, <2>6, <2>7, <2>8
<1>9. /\ \A id : Places(id) \subseteq Spots /\ Places(id)' \subseteq Spots
      /\ << to, n + 1 >> \in Spots
  BY <1>7 DEF Places
<1> HIDE DEF Spots
<1>10. ASSUME NEW id \in 1 .. Len(sent') PROVE Placed(id)'
  <2>1. CASE id # new
    <3>1. Places(id)' = Places(id)
      BY <1>8, <1>9, <2>1
    <3>2. id \in 1 .. Len(sent)
      BY <1>2, <2>1
    <3> QED BY <1>1, <1>2, <1>4, <3>1, <3>2, UnmovedIsPlaced DEF AccountInv
  <2>2. CASE id = new
    <3>1. Places(id)' = {<< to, n + 1 >>}
      BY <1>5, <1>8, <1>9, <2>2
    <3> QED BY <1>2, <1>4, <1>5, <2>2, <3>1 DEF Placed
  <2> QED BY <2>1, <2>2
<1> QED BY <1>3, <1>10 DEF AccountInv

\* A connection that authenticates takes what waits for the account, and no
\* other connection took any of it.
LEMMA AuthenticateKeepsAccount ==
    ASSUME AccountInv, BoundedInv', DeliveryInv',
           NEW c \in Conns, NEW u \in Users, AuthenticateSucceeds(c, u)
    PROVE  AccountInv'
<1>1. TypeInv /\ Bounded /\ QueuesOrdered /\ u \in Names
  BY TransportAssumption DEF AccountInv, BoundedInv, DeliveryInv
<1>2. /\ queues \in [Names -> Seq(1 .. MaxSends)] /\ sent' = sent /\ Recorded
      /\ queues' = [queues EXCEPT ![u] = << >>]
  BY <1>1 DEF AuthenticateSucceeds, Drain, Recorded, TypeInv, TypeOK
<1>3. Taken(c)' = Taken(c) \cup Range(queues[u])
  BY <1>1, DrainIsTaken DEF Takes
<1>4. ASSUME NEW x \in Conns, x # c PROVE Taken(x)' = Taken(x)
  <2>1. Takes(x, << >>)
    BY <1>1, <1>4, DrainIsTaken
  <2> QED BY <2>1, MarksCarryNothing DEF Takes
<1>5. TakenKnown'
  <2>1. \A id \in Range(queues[u]) : id \in Nat \ {0} /\ id <= Len(sent)
    BY <1>1, OfflineIds DEF AccountInv, DeliveryInv, OfflineAddressed, Addressed
  <2> QED BY <1>2, <1>3, <1>4, <2>1 DEF AccountInv, TakenKnown
<1>6. ASSUME NEW id
      PROVE  Places(id)' = {p \in Places(id) : p[1] # u}
  <2> DEFINE Spots == Names \X (1 .. MaxQueuedPerRecipient)
  <2>1. Places(id) \subseteq Spots /\ Places(id)' \subseteq Spots
    BY DEF Places
  <2>2. ASSUME NEW p \in Spots
        PROVE  p \in Places(id)' <=> p \in Places(id) /\ p[1] # u
    <3>1. p[1] \in Names /\ p[2] \in 1 .. MaxQueuedPerRecipient
      OBVIOUS
    <3>2. p \in Places(id) <=> p[2] <= Len(queues[p[1]]) /\ queues[p[1]][p[2]] = id
      BY DEF Places
    <3>3. p \in Places(id)' <=> p[2] <= Len(queues'[p[1]]) /\ queues'[p[1]][p[2]] = id
      BY DEF Places
    <3>4. CASE p[1] = u
      <4>1. queues'[p[1]] = << >>
        BY <1>2, <3>1, <3>4
      <4>2. ~(p[2] <= Len(queues'[p[1]]))
        BY <3>1, <4>1, QueueAssumption
      <4> QED BY <3>3, <3>4, <4>2
    <3>5. CASE p[1] # u
      <4>1. queues'[p[1]] = queues[p[1]]
        BY <1>2, <3>1, <3>5
      <4> QED BY <3>2, <3>3, <3>5, <4>1
    <3> QED BY <3>4, <3>5
  <2> HIDE DEF Spots
  <2> QED BY <2>1, <2>2
<1>7. ASSUME NEW id \in 1 .. Len(sent) PROVE Placed(id)'
  <2>1. Placed(id)
    BY DEF AccountInv
  <2>2. CASE id \notin Range(queues[u])
    <3>1. Takers(id)' = Takers(id)
      <4>1. \A x \in Conns : id \in Taken(x)' <=> id \in Taken(x)
        BY <1>3, <1>4, <2>2
      <4>2. Takers(id)' = {x \in Conns : id \in Taken(x)'}
        BY TakersByTaken
      <4>3. Takers(id) = {x \in Conns : id \in Taken(x)}
        BY TakersByTaken
      <4> QED BY <4>1, <4>2, <4>3
    <3>2. \A p \in Places(id) : p[1] # u
      BY <1>1, <2>2, PlacesInQueues
    <3>3. Places(id)' = Places(id)
      BY <1>6, <3>2
    <3> QED BY <1>1, <1>2, <2>1, <3>1, <3>3, UnmovedIsPlaced
  <2>3. CASE id \in Range(queues[u])
    <3>1. PICK p \in Places(id) : p[1] = u
      BY <1>1, <2>3, PlacesInQueues
    <3>2. sent[id].status = "queued" /\ Takers(id) = {} /\ Places(id) = {p}
      BY <2>1, <3>1 DEF Placed
    <3>3. Places(id)' = {}
      BY <1>6, <3>1, <3>2
    <3>4. Takers(id)' = {c}
      <4>1. \A x \in Conns : id \notin Taken(x)
        BY <3>2, TakersByTaken
      <4>2. \A x \in Conns : id \in Taken(x)' <=> x = c
        BY <1>3, <1>4, <2>3, <4>1
      <4> QED BY <4>2, TakersByTaken
    <3> QED BY <1>2, <3>2, <3>3, <3>4 DEF Placed
  <2> QED BY <2>2, <2>3
<1> QED BY <1>2, <1>5, <1>7 DEF AccountInv

LEMMA NextAccount == AccountInv /\ [Next]_vars => AccountInv'
<1> SUFFICES ASSUME AccountInv, [Next]_vars PROVE AccountInv'
  OBVIOUS
<1>1. BoundedInv' /\ DeliveryInv' /\ TypeInv /\ TypeInv'
  BY NextBounded, NextDelivery DEF AccountInv, BoundedInv
<1>2. sent' = sent => Recorded
  BY <1>1 DEF Recorded, TypeInv, TypeOK
<1>3. CASE UNCHANGED vars
  <2>1. /\ \A x \in Conns : Quiet(x)
        /\ UNCHANGED << queues, sent >>
    BY <1>3, UntouchedIsQuiet DEF vars
  <2> QED BY <1>1, <1>2, <2>1, RefusedKeepsAccount
<1>4. CASE Next
  <2> PICK c \in Conns : Upgrade(c) \/ Receive(c) \/ Resolve(c)
                           \/ Send(c) \/ Write(c) \/ Flush(c)
    BY <1>4 DEF Next
  <2>1. CASE \/ Upgrade(c) \/ Receive(c) \/ AuthenticateFails(c)
             \/ AuthenticateRaises(c) \/ Write(c) \/ Flush(c)
    BY <1>1, <1>2, <2>1, QuietSteps, RefusedKeepsAccount
  <2>2. ASSUME NEW u \in Users, AuthenticateSucceeds(c, u) PROVE AccountInv'
    BY <1>1, <2>2, AuthenticateKeepsAccount
  <2>3. CASE Send(c)
    <3> PICK claimed \in Names, to \in Names, encodable \in BOOLEAN :
            SendMismatch(c, claimed, to) \/ SendConnected(c, claimed, to, encodable)
              \/ SendOffline(c, claimed, to, encodable)
      BY <2>3 DEF Send
    <3>1. CASE SendConnected(c, claimed, to, encodable)
      BY <1>1, <3>1, LiveKeepsAccount
    <3>2. CASE SendMismatch(c, claimed, to) \/ SendOffline(c, claimed, to, encodable)
      <4>1. (\A x \in Conns : Quiet(x)) /\ Recorded
        BY <1>1, <3>2, SendIsQuiet
      <4> DEFINE m(st, e) == [by |-> c, claimed |-> claimed, to |-> to, status |-> st,
                           encodable |-> e]
      <4>2. \/ queues' = Enqueue(queues, to, Len(sent) + 1)
                 /\ sent' = Append(sent, m("queued", encodable))
                 /\ SendOffline(c, claimed, to, encodable)
            \/ queues' = queues /\ sent' = Append(sent, m("rejected", TRUE))
            \/ queues' = queues /\ sent' = Append(sent, m("recipient_unavailable", encodable))
        BY <3>2 DEF SendMismatch, SendOffline
      <4>3. CASE sent' = Append(sent, m("queued", encodable))
                   /\ queues' = Enqueue(queues, to, Len(sent) + 1)
                   /\ SendOffline(c, claimed, to, encodable)
        BY <1>1, <4>1, <4>3, EnqueueKeepsAccount
      <4>4. ASSUME NEW st \in {"rejected", "recipient_unavailable"}, NEW e,
                   sent' = Append(sent, m(st, e)), queues' = queues
            PROVE  AccountInv'
        <5>1. m(st, e).status = st
          OBVIOUS
        <5>2. /\ Len(sent') = Len(sent) + 1
              /\ sent'[Len(sent) + 1].status \notin {"queued", "delivered"}
          BY <1>1, <4>4, <5>1, VerdictIsAdded
        <5> QED BY <1>1, <4>1, <4>4, <5>2, RefusedKeepsAccount
      <4> HIDE DEF m
      <4> QED BY <4>2, <4>3, <4>4
    <3> QED BY <3>1, <3>2
  <2> QED BY <2>1, <2>2, <2>3 DEF Resolve
<1> QED BY <1>3, <1>4

\* A message acknowledged as queued is in its recipient's queue once or went to
\* exactly one connection, one acknowledged as delivered was taken by at least
\* one, and one refused is nowhere.
THEOREM AccountTheorem == Spec => []Accounted
<1>1. Init => AccountInv
  <2> SUFFICES ASSUME Init PROVE AccountInv
    OBVIOUS
  <2>1. BoundedInv
    BY InitBounded
  <2>2. TakenKnown
    BY InitStreams DEF Init, TakenKnown, Taken
  <2>3. Len(sent) = 0
    BY DEF Init
  <2> QED BY <2>1, <2>2, <2>3, InitDelivery DEF AccountInv
<1>2. AccountInv => Accounted
  <2> SUFFICES ASSUME AccountInv, NEW id \in 1 .. Len(sent)
               PROVE  CASE sent[id].status = "queued" ->
                             Cardinality(Takers(id)) + Cardinality(Places(id)) = 1
                        [] sent[id].status = "delivered" ->
                             Takers(id) # {} /\ Places(id) = {}
                        [] OTHER -> Takers(id) = {} /\ Places(id) = {}
    BY DEF Accounted, Takers, Places
  <2>1. Placed(id)
    BY DEF AccountInv
  <2>2. sent[id].status = "queued" => Cardinality(Takers(id)) + Cardinality(Places(id)) = 1
    <3>1. \A x : Cardinality({x}) = 1
      BY FS_Singleton
    <3>2. Cardinality({}) = 0
      BY FS_EmptySet
    <3>3. ASSUME sent[id].status = "queued", Places(id) = {}, NEW c, Takers(id) = {c}
          PROVE  Cardinality(Takers(id)) = 1 /\ Cardinality(Places(id)) = 0
      BY <3>1, <3>2, <3>3, Zenon
    <3>4. ASSUME sent[id].status = "queued", Takers(id) = {}, NEW p, Places(id) = {p}
          PROVE  Cardinality(Takers(id)) = 0 /\ Cardinality(Places(id)) = 1
      BY <3>1, <3>2, <3>4, Zenon
    <3>5. sent[id].status = "queued" =>
            \/ Cardinality(Takers(id)) = 1 /\ Cardinality(Places(id)) = 0
            \/ Cardinality(Takers(id)) = 0 /\ Cardinality(Places(id)) = 1
      BY <2>1, <3>3, <3>4, Zenon DEF Placed
    <3> QED BY <3>5
  <2> QED BY <2>1, <2>2 DEF Placed
<1> QED BY <1>1, <1>2, NextAccount, PTL DEF Spec

-----------------------------------------------------------------------------
(* The transport implements Messaging.                                     *)

\* What Messaging sees of a connection, apart from what it lost: the receipts
\* it holds and the receipts it has put on the wire.
Held(c)  == Receipts(<< sending[c] >> \o outbound[c])
Wired(c) == Receipts(received[c])

LEMMA HeldParts ==
    ASSUME TypeInv, NEW c \in Conns
    PROVE  Held(c) = Receipts(<< sending[c] >>) \cup Receipts(outbound[c])
<1>1. << sending[c] >> \in Seq(Carried) /\ outbound[c] \in Seq(Carried)
  BY StreamTypes
<1> QED BY <1>1, ReceiptsOfConcat DEF Held

LEMMA HeldNext ==
    ASSUME TypeInv', NEW c \in Conns
    PROVE  Held(c)' = Receipts(<< sending'[c] >>) \cup Receipts(outbound'[c])
<1>1. outbound'[c] \in Seq(Frame) /\ sending'[c] \in Carried
  BY DEF TypeInv, TypeOK, Carried
<1>2. << sending'[c] >> \in Seq(Carried) /\ outbound'[c] \in Seq(Carried)
  BY <1>1, SeqMonotonic DEF Carried
<1> QED BY <1>2, ReceiptsOfConcat DEF Held

\* Messaging sees nothing of what the step does to connection x.
Unseen(x) ==
    Held(x)' = Held(x) /\ Wired(x)' = Wired(x) /\ dropped'[x] = dropped[x]

LEMMA UnseenStutters ==
    ASSUME TypeInv, TypeInv', \A x \in Conns : Unseen(x), UNCHANGED << ident, queues, sent >>
    PROVE  UNCHANGED Abstract!mvars
<1>1. dropped' = dropped
  BY DEF TypeInv, TypeOK, Unseen
<1> QED BY <1>1 DEF Abstract!mvars, Unseen, Held, Wired

\* Frames without receipts behind an outbound queue are not seen.
LEMMA NoReceiptsBehind ==
    ASSUME TypeInv, NEW x \in Conns, NEW frames \in Seq(Frame), Receipts(frames) = {}
    PROVE  Receipts(outbound[x] \o frames) = Receipts(outbound[x])
<1>1. outbound[x] \in Seq(Carried) /\ frames \in Seq(Carried)
  BY StreamTypes
<1>2. Receipts(outbound[x] \o frames) = Receipts(outbound[x]) \cup Receipts(frames)
  BY <1>1, ReceiptsOfConcat
<1> QED BY <1>2

LEMMA ReceiptsOfControls ==
    ASSUME NEW frames \in Seq({Control})
    PROVE  frames \in Seq(Frame) /\ Receipts(frames) = {}
<1>1. {Control} \subseteq Frame
  BY FrameConstants
<1> QED BY <1>1, SeqMonotonic DEF Receipts, Receipt, Control

\* The receipts of a sequence of frames, by the parts it is made of.
LEMMA ReceiptsByParts ==
    ASSUME NEW put \in Seq(Frame), NEW rest \in Seq(Frame)
    PROVE  Receipts(put \o rest) = Receipts(put) \cup Receipts(rest)
<1>1. put \in Seq(Carried) /\ rest \in Seq(Carried)
  BY SeqMonotonic DEF Carried
<1> QED BY <1>1, ReceiptsOfConcat

\* The response loop, offered control frames only.
LEMMA RespondUnseen ==
    ASSUME TypeInv, TypeInv', NEW c \in Conns, NEW frames \in Seq({Control}),
           NEW boxes \in [Conns -> Seq(Frame)], Len(boxes[c]) <= MaxPendingOutbound,
           Respond(c, boxes, frames), UNCHANGED << received, sending >>
    PROVE  \A x \in Conns :
              /\ Held(x)' = Receipts(<< sending[x] >>) \cup Receipts(boxes[x])
              /\ Wired(x)' = Wired(x) /\ dropped'[x] = dropped[x]
<1>1. frames \in Seq(Frame) /\ Receipts(frames) = {}
  BY ReceiptsOfControls
<1>2. PICK put \in Seq(Frame), rest \in Seq(Frame) :
         /\ frames = put \o rest
         /\ outbound'[c] = boxes[c] \o put
         /\ dropped'[c] = dropped[c] \cup Receipts(rest)
         /\ \A t \in Conns : t # c => outbound'[t] = boxes[t] /\ dropped'[t] = dropped[t]
  BY <1>1, RespondParts
<1>3. Receipts(put) = {} /\ Receipts(rest) = {}
  BY <1>1, <1>2, ReceiptsByParts
<1>4. Receipts(boxes[c] \o put) = Receipts(boxes[c])
  <2>1. Receipts(boxes[c] \o put) = Receipts(boxes[c]) \cup Receipts(put)
    BY ReceiptsByParts
  <2> QED BY <1>3, <2>1
<1> TAKE x \in Conns
<1>5. Receipts(outbound'[x]) = Receipts(boxes[x]) /\ dropped'[x] = dropped[x]
  <2>1. CASE x = c
    BY <1>2, <1>3, <1>4, <2>1
  <2>2. CASE x # c
    BY <1>2, <2>2
  <2> QED BY <2>1, <2>2
<1>6. Held(x)' = Receipts(<< sending'[x] >>) \cup Receipts(outbound'[x])
  BY HeldNext
<1> QED BY <1>5, <1>6 DEF Wired

LEMMA RespondOnlyUnseen ==
    ASSUME TypeInv, TypeInv', NEW c \in Conns, NEW frames \in Seq({Control}),
           Respond(c, outbound, frames), UNCHANGED << received, sending >>
    PROVE  \A x \in Conns : Unseen(x)
<1>1. outbound \in [Conns -> Seq(Frame)] /\ Len(outbound[c]) <= MaxPendingOutbound
  BY DEF TypeInv, TypeOK, OutboundBounded
<1>2. ASSUME NEW x \in Conns PROVE Unseen(x)
  <2>1. /\ Held(x)' = Receipts(<< sending[x] >>) \cup Receipts(outbound[x])
        /\ Wired(x)' = Wired(x) /\ dropped'[x] = dropped[x]
    BY <1>1, RespondUnseen
  <2> QED BY <2>1, HeldParts DEF Unseen
<1> QED BY <1>2

\* The steps Messaging sees nothing of.
LEMMA UnseenSteps ==
    ASSUME TypeInv, TypeInv', NEW c \in Conns,
           \/ Upgrade(c) \/ Receive(c) \/ AuthenticateFails(c)
           \/ AuthenticateRaises(c) \/ WriterTakes(c)
    PROVE  UNCHANGED Abstract!mvars
<1>1. UNCHANGED << ident, queues, sent >>
  BY DEF Upgrade, RejectOrigin, RejectLimit, Register, AcceptReturns, AcceptRaises,
         Receive, ReceiveOverLimit, ReceiveSimple, ReceiveTimeout, ReceiveEnds,
         StartAuthenticate, AuthenticateFails, AuthenticateRaises, WriterTakes
<1> SUFFICES ASSUME NEW x \in Conns PROVE Unseen(x)
  BY <1>1, UnseenStutters
<1>2. outbound \in [Conns -> Seq(Frame)] /\ sending \in [Conns -> Frame \cup {Idle}]
  BY DEF TypeInv, TypeOK
<1>3. /\ Held(x)' = Receipts(<< sending'[x] >>) \cup Receipts(outbound'[x])
      /\ Held(x) = Receipts(<< sending[x] >>) \cup Receipts(outbound[x])
  BY HeldNext, HeldParts
<1>4. CASE UNCHANGED << outbound, sending, received, dropped >>
  BY <1>3, <1>4 DEF Unseen, Wired
<1>5. CASE AcceptReturns(c) \/ ReceiveOverLimit(c) \/ ReceiveTimeout(c)
  <2>1. /\ outbound' = [outbound EXCEPT ![c] = Enqueued(c, Control)]
        /\ UNCHANGED << received, sending, dropped >>
    BY <1>5 DEF AcceptReturns, ReceiveOverLimit, ReceiveTimeout, io
  <2>2. Receipts(outbound'[x]) = Receipts(outbound[x])
    <3>1. CASE outbound'[x] = outbound[x]
      BY <3>1
    <3>2. CASE outbound'[x] # outbound[x]
      <4>1. outbound'[x] = Append(outbound[x], Control)
        BY <1>2, <2>1, <3>2 DEF Enqueued
      <4>2. outbound'[x] = outbound[x] \o << Control >>
        BY <1>2, <4>1, FrameConstants, AppendIsConcat
      <4>3. << Control >> \in Seq(Frame)
        BY FrameConstants
      <4> QED BY <4>2, <4>3, MarksCarryNothing, NoReceiptsBehind
    <3> QED BY <3>1, <3>2
  <2> QED BY <1>3, <2>1, <2>2 DEF Unseen, Wired
<1>6. CASE ReceiveSimple(c) \/ AuthenticateFails(c)
  <2>1. /\ Respond(c, outbound, << Control >>) /\ UNCHANGED << received, sending >>
        /\ << Control >> \in Seq({Control})
    BY <1>6 DEF ReceiveSimple, AuthenticateFails, io
  <2> QED BY <2>1, RespondOnlyUnseen
<1>7. CASE WriterTakes(c)
  <2>1. /\ outbound[c] # << >> /\ sending[c] = Idle
        /\ sending' = [sending EXCEPT ![c] = Head(outbound[c])]
        /\ outbound' = [outbound EXCEPT ![c] = Tail(outbound[c])]
        /\ UNCHANGED << received, dropped >>
    BY <1>7 DEF WriterTakes, TypeInv, WriterHolds
  <2>2. CASE x # c
    BY <1>2, <1>3, <2>1, <2>2 DEF Unseen, Wired
  <2>3. CASE x = c
    <3>1. Receipts(outbound[c])
            = Receipts(<< Head(outbound[c]) >>) \cup Receipts(Tail(outbound[c]))
      BY <2>1, StreamTypes, HeadAndRest
    <3>2. sending'[c] = Head(outbound[c]) /\ outbound'[c] = Tail(outbound[c])
      BY <1>2, <2>1
    <3> QED BY <1>3, <2>1, <2>3, <3>1, <3>2, MarksCarryNothing DEF Unseen, Wired
  <2> QED BY <2>2, <2>3
<1> QED BY <1>4, <1>5, <1>6, <1>7
        DEF Upgrade, RejectOrigin, RejectLimit, Register, AcceptRaises, Receive,
            ReceiveEnds, StartAuthenticate, AuthenticateRaises, io

\* A step of one connection that writes the first of what it holds and loses
\* the next is Progress.
LEMMA ProgressRefines ==
    ASSUME TypeInv, TypeInv', NEW c \in Conns,
           NEW written \in SUBSET Held(c), NEW gone \in SUBSET Held(c),
           \A i \in Wired(c), j \in written : i < j,
           \A i \in written, j \in gone \cup Held(c)' : i < j,
           \A i \in gone, j \in Held(c)' : i < j,
           Held(c)' = Held(c) \ (written \cup gone),
           Wired(c)' = Wired(c) \cup written,
           dropped'[c] = dropped[c] \cup gone,
           \A x \in Conns : x # c => Unseen(x),
           UNCHANGED << ident, queues, sent >>
    PROVE  Abstract!MNext
<1>1. dropped \in [Conns -> SUBSET (1 .. MaxSends)] /\ dropped' \in [Conns -> SUBSET (1 .. MaxSends)]
  BY DEF TypeInv, TypeOK
<1>2. dropped' = [dropped EXCEPT ![c] = @ \cup gone]
  BY <1>1 DEF Unseen
<1>3. [x \in Conns |-> Held(x)'] =
        [[x \in Conns |-> Held(x)] EXCEPT ![c] = Held(c) \ (written \cup gone)]
  BY DEF Unseen
<1>4. [x \in Conns |-> Wired(x)'] =
        [[x \in Conns |-> Wired(x)] EXCEPT ![c] = Wired(c) \cup written]
  BY DEF Unseen
<1>5. Abstract!Progress(c, written, gone)
  BY <1>2, <1>3, <1>4 DEF Abstract!Progress, Abstract!Precede, Held, Wired
<1> QED BY <1>5 DEF Abstract!MNext, Held

\* The order of a stream, read off its receipts.
LEMMA StreamOrder ==
    ASSUME DeliveryInv, NEW c \in Conns
    PROVE  /\ \A i \in Wired(c), j \in Held(c) : i < j
           /\ \A i \in Receipts(<< sending[c] >>), j \in Receipts(outbound[c]) : i < j
           /\ Wired(c) \subseteq Nat /\ Held(c) \subseteq Nat
<1>1. TypeInv /\ Ordered(Stream(c))
  BY DEF DeliveryInv, RegistryInv, StreamsOrdered
<1>2. /\ \A p \in Range(received[c]) : Before(p, sending[c])
      /\ \A q \in Range(outbound[c]) : Before(sending[c], q)
      /\ \A p \in Range(received[c]), q \in Range(outbound[c]) : Before(p, q)
  BY <1>1, StreamNow
<1>3. /\ Wired(c) = {p \in Range(received[c]) : Receipt(p)}
      /\ Receipts(outbound[c]) = {p \in Range(outbound[c]) : Receipt(p)}
  BY <1>1, StreamTypes, ReceiptsInRange DEF Wired
<1>4. /\ Receipts(<< sending[c] >>) = {p \in {sending[c]} : Receipt(p)}
      /\ Held(c) = Receipts(<< sending[c] >>) \cup Receipts(outbound[c])
  BY <1>1, HeldParts DEF Receipts
<1> QED BY <1>2, <1>3, <1>4 DEF Before, Receipt

\* A frame that is sent, or lost with its socket.
LEMMA WriterRefines ==
    ASSUME DeliveryInv, TypeInv', NEW c \in Conns,
           WriterSends(c) \/ WriterFails(c) \/ WriterBreaks(c)
    PROVE  Abstract!MNext
<1>1. TypeInv
  BY DEF DeliveryInv, RegistryInv
<1>2. /\ outbound \in [Conns -> Seq(Frame)] /\ received \in [Conns -> Seq(Frame)]
      /\ dropped \in [Conns -> SUBSET (1 .. MaxSends)]
      /\ sending \in [Conns -> Frame \cup {Idle}]
  BY <1>1 DEF TypeInv, TypeOK
<1> DEFINE Y == Receipts(<< sending[c] >>)
           O == Receipts(outbound[c])
<1>3. Held(c) = Y \cup O /\ Held(c)' = O
  <2>1. sending'[c] = Idle /\ outbound'[c] = outbound[c]
    BY <1>2 DEF WriterSends, WriterFails, WriterBreaks
  <2> QED BY <1>1, <2>1, HeldParts, HeldNext, MarksCarryNothing
<1>4. /\ \A i \in Wired(c), j \in Held(c) : i < j
      /\ \A i \in Y, j \in O : i < j
      /\ Held(c) \subseteq Nat
  BY StreamOrder
<1>5. \A x \in Conns : x # c => Unseen(x)
  BY <1>2 DEF WriterSends, WriterFails, WriterBreaks, Unseen, Held, Wired
<1>6. UNCHANGED << ident, queues, sent >>
  BY DEF WriterSends, WriterFails, WriterBreaks
<1> HIDE DEF Y, O
<1> DEFINE E == {}
<1>7. /\ Y \in SUBSET Held(c) /\ E \in SUBSET Held(c)
      /\ Held(c)' = Held(c) \ (Y \cup E) /\ Held(c)' = Held(c) \ (E \cup Y)
      /\ \A i \in Wired(c), j \in Y : i < j
      /\ \A i \in Y, j \in E \cup Held(c)' : i < j
      /\ \A i \in Y, j \in Held(c)' : i < j
      /\ \A x : x \notin E
      /\ Wired(c) \cup E = Wired(c) /\ dropped[c] \cup E = dropped[c]
  BY <1>3, <1>4
<1> HIDE DEF E
<1>8. ASSUME Wired(c)' = Wired(c) \cup Y, dropped'[c] = dropped[c]
      PROVE  Abstract!MNext
  <2>1. dropped'[c] = dropped[c] \cup E /\ \A i \in E, j \in Held(c)' : i < j
    BY <1>7, <1>8
  <2> QED BY <1>1, <1>5, <1>6, <1>7, <1>8, <2>1, ProgressRefines
<1>9. ASSUME Wired(c)' = Wired(c), dropped'[c] = dropped[c] \cup Y
      PROVE  Abstract!MNext
  <2>1. /\ Wired(c)' = Wired(c) \cup E
        /\ \A i \in Wired(c), j \in E : i < j
        /\ \A i \in E, j \in Y \cup Held(c)' : i < j
    BY <1>7, <1>9
  <2> QED BY <1>1, <1>5, <1>6, <1>7, <1>9, <2>1, ProgressRefines
<1>10. CASE WriterSends(c)
  BY <1>1, <1>2, <1>8, <1>10, OnWireParts DEF WriterSends, Wired, Y
<1>11. CASE WriterFails(c) \/ WriterBreaks(c)
  BY <1>2, <1>9, <1>11 DEF WriterFails, WriterBreaks, Wired, Y
<1> QED BY <1>10, <1>11

\* The finally clause: what the connection held is lost, but for the frame
\* inside send_json, which may have left.
LEMMA TeardownRefines ==
    ASSUME DeliveryInv, TypeInv', NEW c \in Conns, Teardown(c)
    PROVE  Abstract!MNext
<1>1. TypeInv
  BY DEF DeliveryInv, RegistryInv
<1>2. /\ outbound \in [Conns -> Seq(Frame)] /\ received \in [Conns -> Seq(Frame)]
      /\ dropped \in [Conns -> SUBSET (1 .. MaxSends)]
      /\ sending \in [Conns -> Frame \cup {Idle}]
  BY <1>1 DEF TypeInv, TypeOK
<1> DEFINE Y == Receipts(<< sending[c] >>)
           O == Receipts(outbound[c])
<1>3. Held(c) = Y \cup O /\ Held(c)' = {}
  <2>1. sending'[c] = Idle /\ outbound'[c] = << >>
    BY <1>2 DEF Teardown
  <2> QED BY <1>1, <2>1, HeldParts, HeldNext, MarksCarryNothing
<1>4. /\ \A i \in Wired(c), j \in Held(c) : i < j
      /\ \A i \in Y, j \in O : i < j
  BY StreamOrder
<1>5. \A x \in Conns : x # c => Unseen(x)
  BY <1>2 DEF Teardown, Unseen, Held, Wired
<1>6. UNCHANGED << ident, queues, sent >>
  BY DEF Teardown
<1>7. \/ Wired(c)' = Wired(c) \cup Y /\ dropped'[c] = dropped[c] \cup O
      \/ Wired(c)' = Wired(c) /\ dropped'[c] = dropped[c] \cup (Y \cup O)
  <2>1. Receipts(<< sending[c] >> \o outbound[c]) = Y \cup O
    BY <1>1, HeldParts DEF Held
  <2>2. Receipts(OnWire(c, sending[c])) = Wired(c) \cup Y
    BY <1>1, OnWireParts DEF Wired
  <2> QED BY <1>2, <2>1, <2>2 DEF Teardown, Wired
<1> HIDE DEF Y, O
<1> QED BY <1>1, <1>3, <1>4, <1>5, <1>6, <1>7, ProgressRefines

\* A connection that authenticates opens its link: of what waited for the
\* account it keeps what fits, and loses the rest.
LEMMA AuthenticateRefines ==
    ASSUME DeliveryInv, TypeInv', NEW c \in Conns, NEW u \in Users,
           AuthenticateSucceeds(c, u)
    PROVE  Abstract!MNext
<1>1. TypeInv /\ QueuesOrdered /\ u \in Names
  BY TransportAssumption DEF DeliveryInv, RegistryInv
<1>2. /\ ident \in [Conns -> Users \cup {None}] /\ queues \in [Names -> Seq(1 .. MaxSends)]
      /\ outbound \in [Conns -> Seq(Frame)]
      /\ dropped \in [Conns -> SUBSET (1 .. MaxSends)]
      /\ dropped' \in [Conns -> SUBSET (1 .. MaxSends)]
  BY <1>1 DEF TypeInv, TypeOK
<1>3. /\ ident[c] = None /\ ident' = [ident EXCEPT ![c] = u] /\ sent' = sent
      /\ queues' = [queues EXCEPT ![u] = << >>] /\ UNCHANGED << received, sending >>
  BY DEF AuthenticateSucceeds, Drain, DeliveryInv, ResolvingAnonymous, io
<1> DEFINE frames == << AuthReady >> \o queues[u]
<1>4. frames \in Seq(Frame) /\ Receipts(frames) = Receipts(queues[u]) /\ Ordered(frames)
  <2>1. frames \in Seq(Frame)
    BY <1>1, FrameConstants, StreamTypes, ConcatProperties
  <2> QED BY <1>1, <2>1, DrainIsTaken, OfflineIds
<1>5. Respond(c, outbound, frames) /\ Len(outbound[c]) <= MaxPendingOutbound
  BY <1>1 DEF AuthenticateSucceeds, AuthResponses, TypeInv, OutboundBounded
<1> HIDE DEF frames
<1>6. PICK put \in Seq(Frame), rest \in Seq(Frame) :
         /\ frames = put \o rest
         /\ outbound'[c] = outbound[c] \o put
         /\ dropped'[c] = dropped[c] \cup Receipts(rest)
         /\ \A t \in Conns : t # c => outbound'[t] = outbound[t] /\ dropped'[t] = dropped[t]
  BY <1>1, <1>2, <1>4, <1>5, RespondParts
<1> DEFINE kept == Receipts(put)
           gone == Receipts(rest)
           offline == Receipts(queues[u])
<1>7. offline = kept \cup gone
  BY <1>4, <1>6, ReceiptsByParts
<1>8. \A i \in kept, j \in gone : i < j
  <2>1. put \in Seq(Carried) /\ rest \in Seq(Carried)
    BY SeqMonotonic DEF Carried
  <2>2. \A x \in Range(put), y \in Range(rest) : Before(x, y)
    BY <1>4, <1>6, <2>1, OrderedConcat
  <2>3. kept \subseteq Range(put) /\ gone = {y \in Range(rest) : Receipt(y)}
    BY <2>1, ReceiptsInRange
  <2> QED BY <2>2, <2>3 DEF Before
<1>9. gone = offline \ kept
  <2>1. kept \subseteq Nat
    BY DEF Receipts, Receipt
  <2> HIDE DEF kept, gone, offline
  <2>2. ASSUME NEW i \in kept, i \in gone PROVE FALSE
    <3>1. i < i /\ i \in Nat
      BY <1>8, <2>1, <2>2
    <3> QED BY <3>1
  <2> QED BY <1>7, <2>2
<1>10. Held(c)' = Held(c) \cup kept
  <2>1. Receipts(outbound[c] \o put) = Receipts(outbound[c]) \cup Receipts(put)
    BY <1>2, ReceiptsByParts
  <2>2. Held(c)' = Receipts(<< sending[c] >>) \cup Receipts(outbound[c] \o put)
    BY <1>3, <1>6, HeldNext
  <2>3. Held(c) = Receipts(<< sending[c] >>) \cup Receipts(outbound[c])
    BY <1>1, HeldParts
  <2> QED BY <2>1, <2>2, <2>3
<1>11. \A x \in Conns : x # c => Unseen(x)
  BY <1>3, <1>6 DEF Unseen, Held, Wired
<1>12. /\ dropped' = [dropped EXCEPT ![c] = @ \cup gone]
       /\ [x \in Conns |-> Held(x)']
            = [[x \in Conns |-> Held(x)] EXCEPT ![c] = Held(c) \cup kept]
       /\ [x \in Conns |-> Wired(x)'] = [x \in Conns |-> Wired(x)]
  <2> HIDE DEF kept, gone
  <2>1. dropped' = [dropped EXCEPT ![c] = @ \cup gone]
    <3>1. dropped'[c] = dropped[c] \cup gone
      BY <1>6 DEF gone
    <3> QED BY <1>2, <1>11, <3>1 DEF Unseen
  <2>2. [x \in Conns |-> Held(x)']
          = [[x \in Conns |-> Held(x)] EXCEPT ![c] = Held(c) \cup kept]
    BY <1>10, <1>11 DEF Unseen
  <2>3. [x \in Conns |-> Wired(x)'] = [x \in Conns |-> Wired(x)]
    BY <1>3 DEF Wired
  <2> QED BY <2>1, <2>2, <2>3
<1>13. [r \in Names |-> Receipts(queues'[r])]
         = [[r \in Names |-> Receipts(queues[r])] EXCEPT ![u] = {}]
  <2>1. Receipts(queues'[u]) = {}
    BY <1>1, <1>2, <1>3, MarksCarryNothing
  <2>2. \A r \in Names : r # u => queues'[r] = queues[r]
    BY <1>2, <1>3
  <2> QED BY <1>1, <2>1, <2>2
<1>14. Abstract!Open(c, u, kept)
  <2> HIDE DEF kept, gone
  <2>1. [r \in Names |-> Receipts(queues[r])][u] = offline
    BY <1>1
  <2> HIDE DEF offline
  <2> QED BY <1>3, <1>8, <1>9, <1>12, <1>13, <2>1
          DEF Abstract!Open, Abstract!Precede, Held, Wired
<1>15. kept \in SUBSET [r \in Names |-> Receipts(queues[r])][u]
  BY <1>1, <1>7
<1> QED BY <1>1, <1>14, <1>15 DEF Abstract!MNext

\* A verdict is a Post; what it leaves behind decides which one.
LEMMA PostRefines ==
    ASSUME TypeInv, NEW m, sent' = Append(sent, m),
           NEW links, \A x \in Conns : x \in links <=> Held(x)' # Held(x), links \subseteq Conns,
           \/ Abstract!PostDelivered(m, links)
           \/ Abstract!PostQueued(m)
           \/ Abstract!PostRefused(m)
    PROVE  Abstract!MNext
<1>1. /\ Len(sent') = Len(sent) + 1 /\ sent'[Len(sent')] = m
      /\ \A i \in 1 .. Len(sent) : sent'[i] = sent[i]
  BY VerdictIsAdded DEF Recorded
<1>2. {x \in Conns : [y \in Conns |-> Held(y)'][x] # [y \in Conns |-> Held(y)][x]} = links
  OBVIOUS
<1>3. Abstract!Post
  BY <1>1, <1>2 DEF Abstract!Post, Held
<1> QED BY <1>3 DEF Abstract!MNext

LEMMA RefusalRefines ==
    ASSUME TypeInv, TypeInv', NEW m, sent' = Append(sent, m),
           m.status \in {"recipient_unavailable", "rejected"},
           \A x \in Conns : Unseen(x), UNCHANGED << ident, queues >>
    PROVE  Abstract!MNext
<1>1. dropped' = dropped
  BY DEF TypeInv, TypeOK, Unseen
<1>2. Abstract!PostRefused(m)
  BY <1>1 DEF Abstract!PostRefused, Unseen, Held, Wired
<1>3. PICK links : links = {}
  OBVIOUS
<1>4. links \subseteq Conns /\ \A x \in Conns : x \in links <=> Held(x)' # Held(x)
  BY <1>3 DEF Unseen
<1> QED BY <1>2, <1>4, PostRefines

LEMMA QueuedRefines ==
    ASSUME TypeInv, TypeInv', NEW m, sent' = Append(sent, m),
           m.status = "queued", m.to \in Names,
           queues' = Enqueue(queues, m.to, Len(sent) + 1), Len(sent) < MaxSends,
           \A x \in Conns : Unseen(x), UNCHANGED ident
    PROVE  Abstract!MNext
<1>1. dropped' = dropped
  BY DEF TypeInv, TypeOK, Unseen
<1> PICK id \in Nat : id = Len(sent) + 1
  BY VerdictIsAdded
<1>2. Len(sent') = id /\ id \in Frame /\ Receipt(id)
  BY VerdictIsAdded, TransportAssumption DEF Frame, Receipt
<1>3. /\ queues \in [Names -> Seq(1 .. MaxSends)]
      /\ queues' = [queues EXCEPT ![m.to] = Append(queues[m.to], id)]
  BY DEF TypeInv, TypeOK, Enqueue
<1>4. Receipts(queues'[m.to]) = Receipts(queues[m.to]) \cup {id}
  <2>1. queues[m.to] \in Seq(Frame) /\ << id >> \in Seq(Frame)
    <3>1. 1 .. MaxSends \subseteq Frame
      BY TransportAssumption DEF Frame
    <3>2. queues[m.to] \in Seq(1 .. MaxSends)
      BY <1>3
    <3>3. queues[m.to] \in Seq(Frame)
      BY <3>1, <3>2, SeqMonotonic
    <3>4. << id >> \in Seq(Frame)
      BY <1>2
    <3> QED BY <3>3, <3>4
  <2>2. queues'[m.to] = queues[m.to] \o << id >>
    <3>1. queues'[m.to] = Append(queues[m.to], id)
      BY <1>3
    <3> QED BY <1>2, <2>1, <3>1, AppendIsConcat
  <2>3. Receipts(<< id >>) = {id}
    BY <1>2 DEF Receipts
  <2> QED BY <2>1, <2>2, <2>3, ReceiptsByParts
<1>5. [r \in Names |-> Receipts(queues'[r])]
        = [[r \in Names |-> Receipts(queues[r])]
             EXCEPT ![m.to] = Receipts(queues[m.to]) \cup {Len(sent')}]
  <2>1. \A r \in Names : r # m.to => queues'[r] = queues[r]
    BY <1>3
  <2> QED BY <1>2, <1>4, <2>1
<1>6. Abstract!PostQueued(m)
  BY <1>1, <1>5 DEF Abstract!PostQueued, Unseen, Held, Wired
<1>7. PICK links : links = {}
  OBVIOUS
<1>8. links \subseteq Conns /\ \A x \in Conns : x \in links <=> Held(x)' # Held(x)
  BY <1>7 DEF Unseen
<1> QED BY <1>6, <1>8, PostRefines

\* A message handed to live connections: each that accepts holds it, and
\* nothing older waits for their account.
LEMMA LiveRefines ==
    ASSUME DeliveryInv, NoMailWhileConnected, TypeInv',
           NEW c \in Conns, NEW claimed \in Names, NEW to \in Names,
           NEW encodable \in BOOLEAN,
           SendConnected(c, claimed, to, encodable)
    PROVE  Abstract!MNext
<1>1. TypeInv /\ RegistryInv
  BY DEF DeliveryInv, RegistryInv
<1> DEFINE takers == {t \in ConnectionsFor(to) : Accepts(t)}
           boxes == [t \in Conns |-> IF t \in takers THEN Append(outbound[t], Len(sent) + 1)
                                                     ELSE outbound[t]]
           status == IF takers # {} THEN "delivered" ELSE "recipient_unavailable"
           m == [by |-> c, claimed |-> claimed, to |-> to, status |-> status,
                 encodable |-> encodable]
<1> PICK id \in Nat : id = Len(sent) + 1
  BY <1>1, VerdictIsAdded DEF SendConnected
<1>2. /\ sent' = Append(sent, m) /\ UNCHANGED << ident, queues, received, sending >>
      /\ Respond(c, boxes, << Control >>) /\ IsConnected(to) /\ Len(sent) < MaxSends
  BY DEF SendConnected, io
<1>3. m.to = to /\ m.status = status
  OBVIOUS
<1> HIDE DEF m
<1>4. Len(sent') = id /\ id \in Frame /\ Receipt(id)
  BY <1>1, <1>2, VerdictIsAdded, TransportAssumption DEF Frame, Receipt
<1>5. takers \subseteq Conns /\ \A t \in takers : ident[t] = to
  BY <1>1, TakerIsAddressee
<1>6. /\ outbound \in [Conns -> Seq(Frame)] /\ dropped \in [Conns -> SUBSET (1 .. MaxSends)]
      /\ dropped' \in [Conns -> SUBSET (1 .. MaxSends)]
  BY <1>1 DEF TypeInv, TypeOK
<1>7. \A x \in Conns : Receipts(boxes[x]) = IF x \in takers THEN Receipts(outbound[x]) \cup {id}
                                                            ELSE Receipts(outbound[x])
  <2> TAKE x \in Conns
  <2>1. CASE x \in takers
    <3>1. outbound[x] \in Seq(Frame) /\ << id >> \in Seq(Frame)
      BY <1>4, <1>6
    <3>2. boxes[x] = Append(outbound[x], id)
      BY <2>1
    <3>3. boxes[x] = outbound[x] \o << id >>
      BY <1>4, <3>1, <3>2, AppendIsConcat
    <3>4. Receipts(<< id >>) = {id}
      BY <1>4 DEF Receipts
    <3> HIDE DEF boxes, takers
    <3> QED BY <2>1, <3>1, <3>3, <3>4, ReceiptsByParts
  <2>2. CASE x \notin takers
    BY <2>2
  <2> QED BY <2>1, <2>2
<1>8. /\ boxes \in [Conns -> Seq(Frame)] /\ Len(boxes[c]) <= MaxPendingOutbound
      /\ << Control >> \in Seq({Control})
  <2>1. boxes \in [Conns -> Seq(Frame)]
    BY <1>4, <1>6
  <2>2. Len(boxes[c]) <= MaxPendingOutbound
    <3>1. CASE c \in takers
      <4>1. Len(outbound[c]) < MaxPendingOutbound
        BY <3>1 DEF Accepts
      <4>2. boxes[c] = Append(outbound[c], id)
        BY <3>1
      <4>3. Len(boxes[c]) = Len(outbound[c]) + 1 /\ Len(outbound[c]) \in Nat
        <5> HIDE DEF boxes
        <5> QED BY <1>4, <1>6, <4>2
      <4> QED BY <4>1, <4>3, TransportAssumption
    <3>2. CASE c \notin takers
      BY <1>1, <3>2 DEF TypeInv, OutboundBounded
    <3> QED BY <3>1, <3>2
  <2> QED BY <2>1, <2>2
<1> HIDE DEF boxes, takers
<1>9. ASSUME NEW x \in Conns
      PROVE  /\ Held(x)' = IF x \in takers THEN Held(x) \cup {id} ELSE Held(x)
             /\ Wired(x)' = Wired(x) /\ dropped'[x] = dropped[x]
  <2>1. /\ Held(x)' = Receipts(<< sending[x] >>) \cup Receipts(boxes[x])
        /\ Wired(x)' = Wired(x) /\ dropped'[x] = dropped[x]
    BY <1>1, <1>2, <1>8, RespondUnseen
  <2>2. Held(x) = Receipts(<< sending[x] >>) \cup Receipts(outbound[x])
    BY <1>1, HeldParts
  <2> QED BY <1>7, <2>1, <2>2
<1>10. ASSUME NEW x \in Conns PROVE id \notin Held(x)
  <2>1. Held(x) \subseteq Receipts(Stream(x))
    BY <1>1, StreamNow, HeldParts
  <2>2. \A k \in Receipts(Stream(x)) : k <= Len(sent)
    BY DEF DeliveryInv, OnlyAddressee
  <2>3. Len(sent) \in Nat /\ ~(id <= Len(sent))
    BY <1>1, VerdictIsAdded, <1>2
  <2> QED BY <2>1, <2>2, <2>3
<1>11. CASE takers = {}
  <2>1. \A x \in Conns : Unseen(x)
    BY <1>9, <1>11 DEF Unseen
  <2> QED BY <1>1, <1>2, <1>3, <1>11, <2>1, RefusalRefines
<1>12. CASE takers # {}
  <2>1. \A x \in Conns : x \in takers <=> Held(x)' # Held(x)
    BY <1>5, <1>9, <1>10
  <2>2. dropped' = dropped
    BY <1>6, <1>9
  <2>3. [x \in Conns |-> Held(x)']
          = [x \in Conns |-> IF x \in takers THEN [y \in Conns |-> Held(y)][x] \cup {Len(sent')}
                                             ELSE [y \in Conns |-> Held(y)][x]]
    BY <1>4, <1>9
  <2>4. [r \in Names |-> Receipts(queues[r])][m.to] = {}
    BY <1>2, <1>3, MarksCarryNothing DEF NoMailWhileConnected
  <2>5. m.status = "delivered" /\ \A t \in takers : ident[t] = m.to
    BY <1>3, <1>5, <1>12
  <2>6. Abstract!PostDelivered(m, takers)
    BY <1>2, <1>9, <1>12, <2>2, <2>3, <2>4, <2>5
       DEF Abstract!PostDelivered, Held, Wired
  <2> QED BY <1>1, <1>2, <1>5, <2>1, <2>6, PostRefines
<1> QED BY <1>11, <1>12

\* Every step of the transport is a step of Messaging, or changes nothing that
\* Messaging sees.
LEMMA NextRefines ==
    DeliveryInv /\ NoMailWhileConnected /\ [Next]_vars => [Abstract!MNext]_(Abstract!mvars)
<1> SUFFICES ASSUME DeliveryInv, NoMailWhileConnected, [Next]_vars
             PROVE  Abstract!MNext \/ UNCHANGED Abstract!mvars
  OBVIOUS
<1>1. TypeInv /\ TypeInv'
  BY NextType DEF DeliveryInv, RegistryInv
<1>2. CASE UNCHANGED vars
  BY <1>2 DEF vars, Abstract!mvars
<1>3. CASE Next
  <2> PICK c \in Conns : Upgrade(c) \/ Receive(c) \/ Resolve(c)
                           \/ Send(c) \/ Write(c) \/ Flush(c)
    BY <1>3 DEF Next
  <2>1. CASE \/ Upgrade(c) \/ Receive(c) \/ AuthenticateFails(c)
             \/ AuthenticateRaises(c) \/ WriterTakes(c)
    BY <1>1, <2>1, UnseenSteps
  <2>2. ASSUME NEW u \in Users, AuthenticateSucceeds(c, u) PROVE Abstract!MNext
    BY <1>1, <2>2, AuthenticateRefines
  <2>3. CASE WriterSends(c) \/ WriterFails(c) \/ WriterBreaks(c)
    BY <1>1, <2>3, WriterRefines
  <2>4. CASE Flush(c)
    BY <1>1, <2>4, TeardownRefines DEF Flush, FlushDone, FlushExpires
  <2>5. CASE Send(c)
    <3> PICK claimed \in Names, to \in Names, encodable \in BOOLEAN :
            SendMismatch(c, claimed, to) \/ SendConnected(c, claimed, to, encodable)
              \/ SendOffline(c, claimed, to, encodable)
      BY <2>5 DEF Send
    <3>1. CASE SendConnected(c, claimed, to, encodable)
      BY <1>1, <3>1, LiveRefines
    <3>2. CASE SendMismatch(c, claimed, to) \/ SendOffline(c, claimed, to, encodable)
      <4>1. \A x \in Conns : Unseen(x)
        <5>1. << Control >> \in Seq({Control}) /\ << Control, Control >> \in Seq({Control})
          OBVIOUS
        <5> QED BY <1>1, <3>2, <5>1, RespondOnlyUnseen DEF SendMismatch, SendOffline, io
      <4>2. UNCHANGED ident /\ Len(sent) < MaxSends
        BY <3>2 DEF SendMismatch, SendOffline
      <4> DEFINE m(st, e) == [by |-> c, claimed |-> claimed, to |-> to, status |-> st,
                           encodable |-> e]
      <4>3. \A st, e : m(st, e).status = st /\ m(st, e).to = to
        OBVIOUS
      <4>4. \/ queues' = Enqueue(queues, to, Len(sent) + 1)
                 /\ sent' = Append(sent, m("queued", encodable))
            \/ queues' = queues /\ sent' = Append(sent, m("rejected", TRUE))
            \/ queues' = queues /\ sent' = Append(sent, m("recipient_unavailable", encodable))
        BY <3>2 DEF SendMismatch, SendOffline
      <4> HIDE DEF m
      <4>5. CASE /\ queues' = Enqueue(queues, to, Len(sent) + 1)
                 /\ sent' = Append(sent, m("queued", encodable))
        BY <1>1, <4>1, <4>2, <4>3, <4>5, QueuedRefines
      <4>6. ASSUME NEW st \in {"rejected", "recipient_unavailable"}, NEW e,
                   queues' = queues, sent' = Append(sent, m(st, e))
            PROVE  Abstract!MNext
        BY <1>1, <4>1, <4>2, <4>3, <4>6, RefusalRefines
      <4> QED BY <4>4, <4>5, <4>6
    <3> QED BY <3>1, <3>2
  <2> QED BY <2>1, <2>2, <2>3, <2>4, <2>5 DEF Resolve, Write
<1> QED BY <1>2, <1>3

\* The transport, with all its tasks, registry and bounds, is the mailbox that
\* Messaging describes.
THEOREM MessagingTheorem == Spec => ImplementsMessaging
<1>1. Init => Abstract!MInit
  <2> SUFFICES ASSUME Init PROVE Abstract!MInit
    OBVIOUS
  <2>1. TypeInv
    BY InitType
  <2>2. \A c \in Conns : Held(c) = {} /\ Wired(c) = {}
    BY <2>1, HeldParts, MarksCarryNothing DEF Init, Wired
  <2>3. \A r \in Names : Receipts(queues[r]) = {}
    BY MarksCarryNothing DEF Init
  <2>4. ident = [c \in Conns |-> None] /\ dropped = [c \in Conns |-> {}] /\ sent = << >>
    BY DEF Init
  <2> QED BY <2>2, <2>3, <2>4 DEF Abstract!MInit, Held, Wired
<1>2. Spec => []NoMailWhileConnected
  BY NoMailTheorem
<1> QED BY <1>1, <1>2, InitDelivery, NextDelivery, NextRefines, PTL
        DEF Spec, ImplementsMessaging, Abstract!MSpec

=============================================================================
