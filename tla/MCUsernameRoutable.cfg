CONSTANTS
    Users = {u1}
    Names = {alice}
    Sessions = {s1}
    Requests = {r1}
    Nil = Nil
    NaiveTimes = FALSE
    MaxTokens = 1
    Conns = {c1}
    Forms = {"plain", "varied", "padded"}
SPECIFICATION ChatSpec
CHECK_DEADLOCK FALSE
INVARIANTS
    UsernameRoutable
