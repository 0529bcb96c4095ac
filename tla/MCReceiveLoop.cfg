CONSTANTS
    Numbers = {0}
    Infinite = 100
    UnauthenticatedTimeout = 2
    IdleTimeout = 3
    MaxMessages = 2
    WindowLength = 2
    Horizon = 8
    MaxBurst = 3
SPECIFICATION Spec
CHECK_DEADLOCK FALSE
INVARIANTS
    SlidingBound
    DispatchIsSound
    SilenceIsDeserved
PROPERTIES
    RefusalIsDeserved
    GateHidesSchema
