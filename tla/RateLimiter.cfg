SPECIFICATION FairSpec
CONSTANTS
    Checks = {c1, c2}
    Hosts = {h1, h2}
    Keys = {k1}
    Callers = {alice}
    NoCaller = nobody
    KeyLimit = 1
    CallerLimit = 1
    MaxRetries = 3
    FailMode = "open"
    EtagOptional = TRUE
    MaxWindow = 1
    MaxFaults = 2
INVARIANTS TypeOK NoLostIncrement QuotaBinds CallerBudgetNeedsKey
PROPERTIES CounterIsAtomic EveryCheckEnds
