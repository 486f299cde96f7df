SPECIFICATION BackendSpec
CONSTANTS
    None = None
    Chain <- MCChain
    Handlers = {1, 2}
    Workers = {w1, w2}
    Limit = 2
    QueueSize = 1
    MaxRetries = 1
    MaxLedger = 2
    MaxFaults = 1
    i1 = i1
    i2 = i2
    r1 = r1
    r2 = r2
    r3 = r3
    Inst = {i1, i2}
    Reqs = {r1, r2, r3}
    InstOf <- MCInstOf
    Workloads <- MCWorkloads
CHECK_DEADLOCK FALSE
INVARIANTS
    EventsAreAccountedFor
    CacheIsSound
PROPERTIES
    EventsSettle
    CacheRequestsEnd
