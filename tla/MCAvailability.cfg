SPECIFICATION AvailabilitySpec
CONSTANTS
    Components = {"emergency", "search", "index", "streams", "replicas"}
    a1 = a1
    a2 = a2
    f = f
    g = g
    None = None
    Addr = {a1, a2}
    AssetIds = {1}
    Scopes <- MCScopes
    UnpauseLedgers = {0, 3}
    Prices = {0, 2, 5}
    SignerLists <- MCSignerLists
    Thresholds = {0, 1, 2, 3}
    Cooldown = 2
    PriceWindow = 1
    Timelock = 2
    CloseSecs = {1}
    MaxLedger = 4
    MaxWithdrawals = 2
    MaxHistory = 3
    HubConns = {"c"}
    HubTopics = {"t"}
    HubSendCap = 1
    HubBroadcastCap = 2
    HubMaxSeq = 3
    RepReplicas <- MCReplicas
    RepLagThreshold = 1
    RepMaxTime = 2
    RepMaxWrites = 1
    RepMaxReads = 2
CHECK_DEADLOCK FALSE
INVARIANTS
    TimerBelongsToPause
    
    SlowAreDisconnected
    ReadsAreFresh
PROPERTIES
    PausesHoldAsDeclared
