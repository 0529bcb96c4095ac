CONSTANTS
    Users = {u1, u2}
    Names = {alice, bob}
    Sessions = {s1, s2}
    Requests = {r1, r2}
    Nil = Nil
    NaiveTimes = FALSE
    MaxTokens = 2
    Conns = {c1, c2}
    Forms = {"plain"}
SPECIFICATION ChatSpec
CHECK_DEADLOCK FALSE
SYMMETRY Symmetry
INVARIANTS
    ChatTypeOK
    DeadCredentialRefused
    StoreConsistent
    AnswerTakesEffect
    SharedNameNeedsDeletion
    StrayNeedsDeletion
PROPERTIES
    RevocationSticks
