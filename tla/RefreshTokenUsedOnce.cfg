CONSTANTS
    Users = {u1}
    Names = {alice}
    Sessions = {s1}
    Requests = {r1, r2}
    Nil = Nil
    NaiveTimes = FALSE
    MaxTokens = 3
SPECIFICATION Spec
CHECK_DEADLOCK FALSE
PROPERTIES
    RefreshTokenUsedOnce
