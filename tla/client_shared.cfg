SPECIFICATION Spec
CONSTANTS
    c1 = c1
    c2 = c2
    k1 = k1
    Callers = {c1, c2}
    EntryPoints = {"rediscovery"}
    CallerKeys = {k1}
    NoKey = NoKey
    Intent <- MCIntentRediscovery
    Prices = {1, 2}
    RetryLimits = {1}
    MaxWait = 1
    PollInterval = 0
    MaxLatency = 1
    MaxInvokes = 2
SYMMETRY CallerSymmetry
INVARIANTS
    RepeatsAgree
