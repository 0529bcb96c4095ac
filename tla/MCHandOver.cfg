CONSTANTS
    Sender = alice
    SenderConn = c1
    Conns = {c1, c2, c3}
    Names = {alice, bob}
    Users = {alice, bob}
    None = None
    MaxTotalConnections = 3
    MaxConnectionsPerClient = 1
    MaxPendingOutbound = 3
    MaxQueuedPerRecipient = 2
    MaxQueuedRecipients = 1
    MaxSends = 3
SYMMETRY HandOverSymmetry
CONSTRAINT HandOver
SPECIFICATION Spec
CHECK_DEADLOCK FALSE
INVARIANTS
    NoMailWhileConnected
    InOrder
    Accounted
PROPERTIES
    LossNeedsCause
    ImplementsMessaging
