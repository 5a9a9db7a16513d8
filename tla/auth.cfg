SPECIFICATION Spec
CONSTANTS
    c1 = c1
    c2 = c2
    Callers = {c1, c2}
    Ops = {"refresh", "request", "logout"}
    NoToken = NoToken
    TokenLife = 4
    Margin = 2
    MaxLatency = 1
    FromAnswer = FALSE
    MaxTokens = 2
    MaxClock = 5
SYMMETRY CallerSymmetry
INVARIANTS
    TypeOK
    SentTokensAreUnexpired
    RevokedTokensLeaveTheCache
    MissingTokenMeansLogout
