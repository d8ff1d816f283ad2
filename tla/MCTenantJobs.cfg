SPECIFICATION FairSpec
CONSTANTS
    r1 = r1
    r2 = r2
    t1 = t1
    a1 = a1
    a2 = a2
    NoJob = NoJob
    Replica = {r1, r2}
    Tenant = {t1}
    Job = {a1, a2}
    TenantOf <- OneSpace
    Misrouted = {}
    Pausable = {t1}
    Concurrency = 1
    MaxRounds = 2
    LastAttempt = 1
    MaxFaults = 1
INVARIANTS
    OneRunPerJob
    NewsIsTrue
PROPERTIES
    ImplementsPromise
    EveryJobSettles
