CONSTANTS
    Sender = alice
    SenderConn = c1
    Conns = {c1, c2}
    Names = {alice, bob, ghost}
    Users = {alice, bob}
    None = None
    MaxTotalConnections = 2
    MaxConnectionsPerClient = 1
    MaxPendingOutbound = 2
    MaxQueuedPerRecipient = 1
    MaxQueuedRecipients = 1
    MaxSends = 2
SPECIFICATION Spec
CHECK_DEADLOCK FALSE
INVARIANT
    UnregisteredWhenEnded
