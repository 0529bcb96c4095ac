CONSTANTS
    Numbers = {0, 1}
    Infinite = 100
    Identifiers = {alice, bob}
    Attempts = {a1, a2}
    MaxFailures = 2
    WindowLength = 2
    Horizon = 4
SYMMETRY Symmetry
SPECIFICATION Spec
INVARIANTS
    RefusalIsEarned
    GuessesBounded
    MemoryEarned
