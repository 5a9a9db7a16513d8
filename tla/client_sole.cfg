SPECIFICATION FairSpec
CONSTANTS
    c1 = c1
    k1 = k1
    Callers = {c1}
    EntryPoints = {"fixed", "llm", "rediscovery"}
    CallerKeys = {k1}
    NoKey = NoKey
    Intent <- MCIntentRediscovery
    Prices = {1, 2}
    RetryLimits = {0, 1}
    MaxWait = 3
    PollInterval = 2
    MaxLatency = 2
    MaxInvokes = 3
INVARIANTS
    TypeOK
    WaitBounded
    ResultIsFinal
    OneInvocationPerCall
    ChargeWithinAssertedPrice
    RefusalMeansUncharged
PROPERTIES
    ImplementsPaidCalls
    CallsEnd
