SPECIFICATION AccountsSpec
CONSTANTS
    Components = {"referrals"}
    Addr = {a1, a2, a3}
    None = None
    MaxOwners = 3
    MaxProposals = 2
    MaxTime = 2
    MaxU64 = 3
    Expiries = {0, 1, 3}
    KycUsers = {"u"}
    KycMatchLists = {{}, {"potential_match"}, {"false_positive"}}
    KycWorths = {1, 2}
    KycAccreditedThreshold = 2
    KycMaxLog = 4
    KycMaxScreenings = 2
    KycMaxDocuments = 1
    KycPercents = {0, 2, 3}
    KycWhole = 4
    KycMaxOwners = 3
    AuthPasswords = {"p", "q"}
    AuthCodes = {recoveryCode}
    AuthMaxFailedAttempts = 1
    AuthLockoutDuration = 1
    AuthResetTTL = 1
    AuthEmailTTL = 1
    AuthEmailLimit = 2
    AuthEmailWindow = 1
    AuthMaxTokens = 2
    AuthMaxTime = 1
    AuthSocialReqs <- MCSocialReqs
    AuthIdentities = {"i", "j"}
    AuthEmailOf <- MCEmailOf
    AuthEmails = {"a"}
    AuthMaxUsers = 3
    LimRate = 1
    LimBurst = 2
    LimIdle = 2
    LimCleanupEvery = 1
    LimGetBurst = 2
    LimMutateBurst = 1
    LimTTL = 2
    LimMaxTime = 3
    LimMaxRequests = 4
    LimDeviceTokens = {"t"}
    LimLifetime = 3
    LimSessionCacheTTL = 2
    LimDeviceMaxTime = 6
    PayKeys = {"k"}
    PayParams = {1, 2}
    PayStatuses = {"completed", "processing"}
    PayKeyTTL = 1
    PayMaxPayments = 3
    PayMaxTime = 3
    PayMaxWebhooks = 2
    RefUsers = {"u", "v", "w"}
    RefIPs = {"ip"}
    RefMaxUses = 1
    RefTiers <- MCTiers
    RefBonus = 1
    RefStakers = {"u"}
    RefAmounts = {1, 2}
    RefAprs = {10}
    RefBpsUnit = 10
    RefYear = 1
    RefMaxTime = 2
    RefMaxPositions = 2
    RefMaxStake = 3
    AstUris = {"a", "b"}
    AstCacheTTL = 1
    AstMaxVersions = 2
    AstMaxTime = 2
SYMMETRY AddrSymmetry
CHECK_DEADLOCK FALSE
INVARIANT QualifyIsIdempotent
