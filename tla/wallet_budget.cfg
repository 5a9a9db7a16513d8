SPECIFICATION WalletSpec
CONSTANTS
    c1 = c1
    Callers = {c1}
    EntryPoints = {"fixed", "llm", "rediscovery"}
    CallerKeys = {}
    NoKey = NoKey
    Intent <- MCIntent
    Prices = {1, 2}
    RetryLimits = {1}
    MaxWait = 0
    PollInterval = 1
    MaxLatency = 0
    MaxInvokes = 4
    Budget = 3
INVARIANT BudgetCapsCharges
