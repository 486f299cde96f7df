SPECIFICATION WorkflowsSpec
CONSTANTS
    Components = {"governance"}
    a1 = a1
    a2 = a2
    a3 = a3
    Addr = {a1, a2}
    None = None
    AssetIds = {0}
    Quorums = {2}
    Deposits = {1}
    Durations = {1}
    Limits = {}
    Supply <- OneTokenEach
    TransferAmounts = {1}
    TemplateParams = {}
    MaxI128 = 9
    MaxU64 = 9
    MaxTime = 1
    MaxProposals = 1
    MaxSnapshots = 0
    AppUsers = {"u1", "u2", "u3"}
    AppRoleOf <- MCRoleOf
    AppAmounts = {1, 2}
    AppInputs <- MCWorkflowInputs
    AppMaxWorkflows = 2
    AppMaxRequests = 1
    AppMaxActions = 3
    AppMaxTime = 1
    AppReqs = {1, 2, 3, 4}
    AppOwnerLists <- MCOwnerLists
    AppThresholds = {2, 3}
    AppMaxProposals = 1
    AppDisputeReqs = {1, 2, 3, 4, 5}
    AppTransactions = {"t"}
    AppResolutions = {"buyer", "seller"}
    AppMaxDisputes = 2
    BatWorkers = {1, 2}
    BatReqs = {1}
    BatQueueSize = 2
    BatMaxRetries = 1
    BatInitialBackoff = 1
    BatMaxBackoff = 1
    BatMaxBatches = 1
    BatMaxTime = 1
    BatMaxCrashes = 1
    BatOpReqs = {1, 2, 3}
    BatOpLists <- MCOpLists
    BatMaxBatchSize = 3
    BatOpMaxBatches = 2
    RepReqs = {1, 2, 3}
    RepInputs <- MCReports
    RepDefaultRetention = 1
    RepMaxRetention = 2
    RepMaxSchedules = 1
    RepMaxRuns = 1
    RepMaxTime = 1
    RepMaxCrashes = 1
    RepTables <- MCTables
    RepLifetime = 0
    RepMaxJobs = 2
    RepMaxVersion = 1
    RepExportMaxTime = 1
    HookSubs = {"s"}
    HookWorkers = {1, 2}
    HookMaxRetries = 2
    HookBackoff <- MCBackoff
    HookRetention = 0
    HookMaxLogs = 1
    HookMaxPosts = 3
    HookMaxTime = 1
    MailProviders <- MCProviders
    MailMaxRetries = 2
    MailFailureThreshold = 2
    MailQueueBuffer = 2
    MailMaxMails = 3
    MailMaxProbes = 2
    MailReqs = {1, 2}
    MailMessages = {"m"}
    MailRecipients = {"a"}
    MailMaxRows = 2
    MailVars = {"x", "y"}
    MailLanguages = {"en", "fr"}
    MailContents <- MCContents
    MailMaxTemplates = 2
    MailMaxVersion = 2
    MailMaxVariants = 1
INVARIANTS
    VotesWithinSupply
