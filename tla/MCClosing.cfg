CONSTANTS
    Sender = alice
    SenderConn = c1
    Conns = {c1, c2}
    Names = {alice, ghost}
    Users = {alice}
    None = None
    MaxTotalConnections = 1
    MaxConnectionsPerClient = 1
    MaxPendingOutbound = 2
    MaxQueuedPerRecipient = 1
    MaxQueuedRecipients = 1
    MaxSends = 2
SPECIFICATION FairSpec
CHECK_DEADLOCK FALSE
INVARIANT
    Bounded
PROPERTY
    ClosingEnds
