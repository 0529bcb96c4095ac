------------------------------- MODULE Panel --------------------------------
(***************************************************************************)
(* The development panel, TransportTester.tsx: the buttons it enables by   *)
(* what it shows, the one socket it refers to, and the events of every     *)
(* socket it ever opened, which the browser delivers in its own time.      *)
(* close() only begins to close a socket; its onclose comes later.         *)
(***************************************************************************)
CONSTANTS
    Sockets,  \* the WebSocket objects, in no order
    Nil       \* socketRef.current is null

ASSUME PanelAssumption == Nil \notin Sockets

VARIABLES
    state,      \* what the panel shows
    socketRef,  \* socketRef.current
    ready,      \* readyState of each socket
    mounted,    \* the component is in the page
    hurried     \* history: connect() ran while an earlier socket was closing

pvars == << state, socketRef, ready, mounted, hurried >>

Init ==
    /\ state = "disconnected"
    /\ socketRef = Nil
    /\ ready = [s \in Sockets |-> "unused"]
    /\ mounted = TRUE
    /\ hurried = FALSE

\* A close() that drops the socket without closing it.
CloseForgotten(s) == ready

\* socketRef.current?.close(): a socket that is connecting or open is closing.
Close(s) ==
    [x \in Sockets |-> IF x = s /\ ready[x] \in {"connecting", "open"}
                         THEN "closing" ELSE ready[x]]

-----------------------------------------------------------------------------
(* The buttons.  send() changes nothing here: it uses an open socket or none. *)

\* connect() returns early when there is a socket.
ConnectAllowed == mounted /\ state = "disconnected" /\ socketRef = Nil

Connect(s) ==
    /\ ConnectAllowed
    /\ ready[s] = "unused"
    /\ state' = "connecting"
    /\ socketRef' = s
    /\ ready' = [ready EXCEPT ![s] = "connecting"]
    /\ hurried' = (hurried \/ \E x \in Sockets : ready[x] = "closing")
    /\ UNCHANGED mounted

\* The address is none, or the browser refuses it: the constructor throws
\* after the panel was set to connecting.
ConnectThrows ==
    /\ ConnectAllowed
    /\ state' = "connecting"
    /\ UNCHANGED << socketRef, ready, mounted, hurried >>

\* A disconnect() that leaves what is shown to the onclose still to come.
DisconnectUnshown ==
    /\ mounted
    /\ state # "disconnected"
    /\ ready' = Close(socketRef)
    /\ socketRef' = Nil
    /\ UNCHANGED << state, mounted, hurried >>

Disconnect ==
    /\ mounted
    /\ state # "disconnected"
    /\ ready' = Close(socketRef)
    /\ socketRef' = Nil
    /\ state' = "disconnected"
    /\ UNCHANGED << mounted, hurried >>

\* The component leaves the page, and its effect cleans up.
Unmount ==
    /\ mounted
    /\ mounted' = FALSE
    /\ ready' = Close(socketRef)
    /\ UNCHANGED << state, socketRef, hurried >>

-----------------------------------------------------------------------------
(* The events.                                                             *)

Opens(s) ==
    /\ ready[s] = "connecting"
    /\ ready' = [ready EXCEPT ![s] = "open"]
    /\ state' = "connected"
    /\ UNCHANGED << socketRef, mounted, hurried >>

\* The peer has begun to close an open connection.
PeerCloses(s) ==
    /\ ready[s] = "open"
    /\ ready' = [ready EXCEPT ![s] = "closing"]
    /\ UNCHANGED << state, socketRef, mounted, hurried >>

\* An onclose that keeps the reference to the closed socket.
ReferenceKept(s) == socketRef

\* onclose clears the reference whatever it refers to.
ReferenceAfterClose(s) == Nil

\* onclose, after an onerror when the connection failed.
Closed(s) ==
    /\ ready[s] \in {"connecting", "open", "closing"}
    /\ ready' = [ready EXCEPT ![s] = "closed"]
    /\ socketRef' = ReferenceAfterClose(s)
    /\ state' = "disconnected"
    /\ UNCHANGED << mounted, hurried >>

Next ==
    \/ ConnectThrows \/ Disconnect \/ Unmount
    \/ \E s \in Sockets : Connect(s) \/ Opens(s) \/ PeerCloses(s) \/ Closed(s)

Spec == Init /\ [][Next]_pvars

-----------------------------------------------------------------------------
\* Type correctness of the panel.
TypeOK ==
    /\ state \in {"disconnected", "connecting", "connected"}
    /\ socketRef \in Sockets \cup {Nil}
    /\ ready \in [Sockets -> {"unused", "connecting", "open", "closing", "closed"}]
    /\ mounted \in BOOLEAN
    /\ hurried \in BOOLEAN

Live(s) == ready[s] \in {"connecting", "open"}

\* A socket can be left alive without anybody to close it, neither the
\* Disconnect button nor the clean-up, only when connect() ran while an
\* earlier socket was still closing: the onclose of that one clears the
\* reference to the new one (TransportTester.tsx:76-77).
OrphanNeedsHurry ==
    \A s \in Sockets : Live(s) /\ ~hurried => socketRef = s /\ mounted

\* What the panel shows is what there is, with the same exception: "connected"
\* means a socket to send on, or one that the peer is closing, and
\* "disconnected" that none is alive.
StatusNeedsHurry ==
    ~hurried =>
        /\ state = "connected" => socketRef # Nil /\ ready[socketRef] \in {"open", "closing"}
        /\ state = "disconnected" => \A s \in Sockets : ~Live(s)

\* The panel never locks itself up: when it shows "disconnected", which is
\* when the Connect button is enabled, connect() does not return early on the
\* reference to a dead socket, whatever came late.
ConnectAvailable == state = "disconnected" => socketRef = Nil

=============================================================================
