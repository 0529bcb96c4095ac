CONSTANTS
    Sockets = {s1, s2, s3}
    Nil = Nil
SPECIFICATION Spec
CHECK_DEADLOCK FALSE
INVARIANTS
    OrphanNeedsHurry
    StatusNeedsHurry
    ConnectAvailable
