SPECIFICATION Spec
CONSTANTS
    c1 = c1
    k1 = k1
    Callers = {c1}
    EntryPoints = {"rediscovery"}
    CallerKeys = {k1}
    NoKey = NoKey
    Intent <- MCIntentRediscovery
    Prices = {1, 2}
    RetryLimits = {2}
    MaxWait = 3
    PollInterval = 0
    MaxLatency = 1
    MaxInvokes = 2
INVARIANT RetriesAreUsed
