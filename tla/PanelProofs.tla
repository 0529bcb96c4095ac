---------------------------- MODULE PanelProofs -----------------------------
(* Theorems about Panel, for any number of sockets.                        *)
EXTENDS Panel, TLAPS

\* Without haste the panel has let go of every socket that is closing, or
\* still refers to it: its onclose clears no reference to another one.
ClosingIsOwn ==
    ~hurried => \A s \in Sockets : ready[s] = "closing" => socketRef \in {s, Nil}

PanelInv ==
    TypeOK /\ OrphanNeedsHurry /\ StatusNeedsHurry /\ ConnectAvailable /\ ClosingIsOwn

\* Nothing is connected at first.
LEMMA InitPanel == Init => PanelInv
BY DEF Init, PanelInv, TypeOK, OrphanNeedsHurry, StatusNeedsHurry,
       ConnectAvailable, ClosingIsOwn, Live

\* Every button and every event keeps the invariant.
LEMMA NextPanel == PanelInv /\ [Next]_pvars => PanelInv'
<1> SUFFICES ASSUME PanelInv, [Next]_pvars PROVE PanelInv'
  OBVIOUS
<1> USE PanelAssumption DEF PanelInv, TypeOK, OrphanNeedsHurry, StatusNeedsHurry,
        ConnectAvailable, ClosingIsOwn, Live
<1>1. CASE UNCHANGED pvars
  BY <1>1 DEF pvars
<1>2. ASSUME NEW s \in Sockets, Connect(s) PROVE PanelInv'
  BY <1>2 DEF Connect, ConnectAllowed
<1>3. CASE ConnectThrows
  BY <1>3 DEF ConnectThrows, ConnectAllowed
<1>4. CASE Disconnect
  BY <1>4 DEF Disconnect, Close
<1>5. CASE Unmount
  BY <1>5 DEF Unmount, Close
<1>6. ASSUME NEW s \in Sockets, Opens(s) PROVE PanelInv'
  BY <1>6 DEF Opens
<1>7. ASSUME NEW s \in Sockets, PeerCloses(s) PROVE PanelInv'
  BY <1>7 DEF PeerCloses
<1>8. ASSUME NEW s \in Sockets, Closed(s) PROVE PanelInv'
  BY <1>8 DEF Closed, ReferenceAfterClose
<1> QED BY <1>1, <1>2, <1>3, <1>4, <1>5, <1>6, <1>7, <1>8 DEF Next

LEMMA PanelInvariant == Spec => []PanelInv
BY InitPanel, NextPanel, PTL DEF Spec

\* However many sockets the panel opens and whenever their events come, a live
\* one out of reach takes a connect() while an earlier socket was closing.
THEOREM OrphanTheorem == Spec => []OrphanNeedsHurry
<1>1. PanelInv => OrphanNeedsHurry
  BY DEF PanelInv
<1> QED BY <1>1, PanelInvariant, PTL

\* And only then does the panel show something that is not there.
THEOREM StatusTheorem == Spec => []StatusNeedsHurry
<1>1. PanelInv => StatusNeedsHurry
  BY DEF PanelInv
<1> QED BY <1>1, PanelInvariant, PTL

\* A panel that shows "disconnected" can connect: whatever onclose came late,
\* it refers to no dead socket.
THEOREM ConnectTheorem == Spec => []ConnectAvailable
<1>1. PanelInv => ConnectAvailable
  BY DEF PanelInv
<1> QED BY <1>1, PanelInvariant, PTL

=============================================================================
