SPECIFICATION MarketsSpec
CONSTANTS
    Components = {"auction", "book", "escrow", "offers", "market_maker", "pool", "fees", "fee_distribution", "prices"}
    None = None
    Self = Self
    Addr = {a1, a2}
    Clients = {c1, c2, c3}
    Terms <- MCTerms
    Amounts = {1, 3}
    MaxDue = 4
    MaxTime = 3
    MaxAuctions = 1
    BookAssetIds = {1}
    BookPrices = {0, 5, 6}
    BookQuantities = {0, 2, 3}
    BookFeeBps = {1, 2}
    BookMaxFeeBps = 1
    BookBpsUnit = 10
    BookMaxOrders = 3
    EscSupply = 2
    EscAmounts <- MCEscAmounts
    EscDeadlines = {0, 1}
    EscMaxEscrows = 2
    EscMaxTime = 2
    OrdOffers <- MCOffers
    OrdMaxOrders = 3
    OrdMaxFaults = 1
    OrdStatuses = {"active"}
    OrdAmounts = {1, 2}
    OrdChanges <- MCChanges
    OrdPrices = {7, 100}
    OrdSpreadsBps = {1, 3}
    OrdVolatilities <- MCVolatilities
    OrdBpsUnit = 10
    OrdMakerMaxOrders = 2
    PoolProviders = {"p", "q"}
    PoolDeposits <- MCPoolDeposits
    PoolTokens = {1, 2}
    PoolInputs = {2, 3}
    PoolMinOutputs = {0, 2}
    PoolFees = {1, 3}
    PoolFeeUnit = 10
    PoolMaxReserve = 6
    FeeConfigInputs <- MCFeeConfigs
    FeeAmounts = {5}
    FeeVolumes = {0, 2}
    FeeBpsUnit = 10
    FeeMaxConfigs = 2
    FeeMaxTime = 2
    FeeProviders = {"p", "q"}
    FeeHolders = {"h", "i"}
    FeeShares <- MCFeeShares
    FeeDenominator = 4
    FeeCollected = {5}
    FeeMaxShare = 1
    FeeDistMaxTime = 1
    FeeMaxRuns = 2
    FeeMaxFees = 5
    PxPrimary = "band"
    PxPrices = {0, 5}
    PxMaxAge = 1
    PxMaxTime = 2
SYMMETRY MarketsSymmetry
CHECK_DEADLOCK FALSE
INVARIANTS
    
    
    TradesAreSettled
    
    FillsAreExplained
    
    
    PricesAreFresh

    
