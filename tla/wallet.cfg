SPECIFICATION WalletSpec
CONSTANTS
    c1 = c1
    c2 = c2
    Callers = {c1, c2}
    EntryPoints = {"fixed", "llm", "rediscovery"}
    CallerKeys = {}
    NoKey = NoKey
    Intent <- MCIntent
    Prices = {1, 2}
    RetryLimits = {1}
    MaxWait = 0
    PollInterval = 1
    MaxLatency = 0
    MaxInvokes = 2
    Budget = 3
SYMMETRY CallerSymmetry
INVARIANTS
    WalletTypeOK
    SpentWithinBudget
    SpentIsWhatReturnedCallsCost
    SpentNeverOverstated
