------------------------------ MODULE MCMarkets -----------------------------
(***************************************************************************)
(* Small instances, for TLC, of the auction house, the order book and the  *)
(* escrow of the contracts, and of the backend's market handlers. They     *)
(* share no state, and each is explored while the others are in their      *)
(* initial states.                                                         *)
(***************************************************************************)
EXTENDS Auction, TLC

CONSTANTS
    BookAssetIds, BookPrices, BookQuantities, BookFeeBps, BookMaxFeeBps, BookBpsUnit,
    BookMaxOrders, EscSupply, EscAmounts, EscDeadlines, EscMaxEscrows, EscMaxTime, OrdOffers,
    OrdMaxOrders, OrdMaxFaults, OrdStatuses, OrdAmounts, OrdChanges, OrdPrices, OrdSpreadsBps,
    OrdVolatilities, OrdBpsUnit, OrdMakerMaxOrders, PoolProviders, PoolDeposits, PoolTokens,
    PoolInputs, PoolMinOutputs, PoolFees, PoolFeeUnit, PoolMaxReserve, FeeConfigInputs,
    FeeAmounts, FeeVolumes, FeeBpsUnit, FeeMaxConfigs, FeeMaxTime, FeeProviders, FeeHolders,
    FeeShares, FeeDenominator, FeeCollected, FeeMaxShare, FeeDistMaxTime, FeeMaxRuns,
    FeeMaxFees, PxPrimary, PxPrices, PxMaxAge, PxMaxTime,
    Components,        \* the components explored
    Self,              \* the escrow contract
    Clients            \* the concurrent requests

VARIABLES
    focus,             \* the component that moves
    bookAdmin, bookFees, bookOrders, bookTrades,
    escAdmin, escNextId, escEscrows, escReplaced, escBalance, escNow,
    ordOrders, ordTrades, ordReq, ordLost, ordFaults,
    ordBot, ordMakerOrders, ordMakerTrades, ordInventory, ordMakerReq, ordFills, ordMoved,
    ordRaced,
    poolPool, poolPosition, poolReq, poolCharged, poolLost,
    feeConfigs, feeLog, feeReq, feeRaced, feeQuote, feeNow,
    feeRules, feeFees, feeLpTokens, feeBalances, feeRuns, feeDistReq, feeDistNow,
    pxReqs, pxGauge, pxNow, pxOutcome, pxRefused

\* An auction of each type, an English one whose increment is negative, and
\* one that creation refuses.
Base == [auction_type |-> "English", start_price |-> 1, reserve_price |-> 2,
         min_bid_increment |-> 1, price_decrement |-> 0, decrement_interval |-> 1,
         extension_window |-> 1, duration |-> 2]

MCTerms == {Base,
            [Base EXCEPT !.reserve_price = 0, !.min_bid_increment = -1, !.extension_window = 2],
            [Base EXCEPT !.auction_type = "Dutch", !.start_price = 3, !.price_decrement = 2],
            [Base EXCEPT !.auction_type = "SealedBid", !.extension_window = 0,
                         !.min_bid_increment = 0],
            [Base EXCEPT !.reserve_price = -1]}

\* The token refuses a negative amount.
MCEscAmounts == {-1, 1}

MCOffers == {<<5, 1>>, <<5, 2>>, <<6, 1>>}
MCChanges == {2, -1}
MCVolatilities == {-50, 0, 60}

MCPoolDeposits == {<<1, 4>>, <<2, 2>>}

\* A fee that starts later, with a discount and both bounds; one that ends,
\* with a surcharge above the whole amount.
MCFeeConfigs ==
    {[base |-> 3, min |-> 2, max |-> 4, tiers |-> {[volume |-> 1, discount |-> 2]}, active |-> TRUE,
      from |-> 1, until |-> None],
     [base |-> 4, min |-> 0, max |-> 4, tiers |-> {[volume |-> 0, discount |-> -8]}, active |-> TRUE,
      from |-> 0, until |-> 2]}

MCFeeShares == {[platform |-> 1, lp |-> 2, holders |-> 1]}

Book == INSTANCE P2PMarket WITH
    AssetIds <- BookAssetIds, Prices <- BookPrices, Quantities <- BookQuantities,
    FeeBps <- BookFeeBps, MaxFeeBps <- BookMaxFeeBps, BpsUnit <- BookBpsUnit,
    MaxOrders <- BookMaxOrders,
    admin <- bookAdmin, fees <- bookFees, orders <- bookOrders, trades <- bookTrades

Esc == INSTANCE Escrow WITH
    Supply <- EscSupply, Amounts <- EscAmounts, Deadlines <- EscDeadlines,
    MaxEscrows <- EscMaxEscrows, MaxTime <- EscMaxTime,
    admin <- escAdmin, nextId <- escNextId, escrows <- escEscrows, replaced <- escReplaced,
    balance <- escBalance, now <- escNow

Ord == INSTANCE P2PHandler WITH
    Reqs <- Clients, Offers <- OrdOffers, MaxOrders <- OrdMaxOrders, MaxFaults <- OrdMaxFaults,
    Statuses <- OrdStatuses, Amounts <- OrdAmounts, Changes <- OrdChanges, Prices <- OrdPrices,
    SpreadsBps <- OrdSpreadsBps, Volatilities <- OrdVolatilities, BpsUnit <- OrdBpsUnit,
    MakerMaxOrders <- OrdMakerMaxOrders,
    orders <- ordOrders, trades <- ordTrades, req <- ordReq, lost <- ordLost,
    faults <- ordFaults, bot <- ordBot, makerOrders <- ordMakerOrders,
    makerTrades <- ordMakerTrades, inventory <- ordInventory, makerReq <- ordMakerReq,
    fills <- ordFills, moved <- ordMoved, raced <- ordRaced

Pool == INSTANCE LiquidityHandler WITH
    Providers <- PoolProviders, Reqs <- Clients, Deposits <- PoolDeposits,
    Tokens <- PoolTokens, Inputs <- PoolInputs, MinOutputs <- PoolMinOutputs, Fees <- PoolFees,
    FeeUnit <- PoolFeeUnit, MaxReserve <- PoolMaxReserve,
    pool <- poolPool, position <- poolPosition, req <- poolReq, charged <- poolCharged,
    lost <- poolLost

Fee == INSTANCE FeeService WITH
    Reqs <- Clients, Configs <- FeeConfigInputs, Amounts <- FeeAmounts, Volumes <- FeeVolumes,
    BpsUnit <- FeeBpsUnit, MaxConfigs <- FeeMaxConfigs, MaxTime <- FeeMaxTime,
    DistReqs <- Addr, Providers <- FeeProviders, Holders <- FeeHolders, Shares <- FeeShares,
    feeDistributionBpsDenominator <- FeeDenominator, Collected <- FeeCollected,
    MaxShare <- FeeMaxShare, DistMaxTime <- FeeDistMaxTime, MaxRuns <- FeeMaxRuns,
    MaxFees <- FeeMaxFees,
    configs <- feeConfigs, log <- feeLog, req <- feeReq, raced <- feeRaced, quote <- feeQuote,
    now <- feeNow, rules <- feeRules, fees <- feeFees, lpTokens <- feeLpTokens,
    balances <- feeBalances, runs <- feeRuns, distReq <- feeDistReq, distNow <- feeDistNow

Px == INSTANCE PriceOracle WITH
    Reqs <- Clients, Primary <- PxPrimary, Prices <- PxPrices, maxAge <- PxMaxAge,
    MaxTime <- PxMaxTime,
    reqs <- pxReqs, gauge <- pxGauge, now <- pxNow, outcome <- pxOutcome, refused <- pxRefused

bookVars == <<bookAdmin, bookFees, bookOrders, bookTrades>>
escVars == <<escAdmin, escNextId, escEscrows, escReplaced, escBalance, escNow>>
ordVars == <<ordOrders, ordTrades, ordReq, ordLost, ordFaults>>
ordMakerVars == <<ordBot, ordMakerOrders, ordMakerTrades, ordInventory, ordMakerReq, ordFills,
    ordMoved, ordRaced>>
poolVars == <<poolPool, poolPosition, poolReq, poolCharged, poolLost>>
feeVars == <<feeConfigs, feeLog, feeReq, feeRaced, feeQuote, feeNow>>
feeDistVars == <<feeRules, feeFees, feeLpTokens, feeBalances, feeRuns, feeDistReq, feeDistNow>>
pxVars == <<pxReqs, pxGauge, pxNow, pxOutcome, pxRefused>>

all == <<focus, vars, bookVars, escVars, ordVars, ordMakerVars, poolVars, feeVars, feeDistVars,
    pxVars>>

MarketsInit ==
    /\ focus \in Components
    /\ Init
    /\ Book!Init
    /\ Esc!Init
    /\ Ord!Init
    /\ Ord!MakerInit
    /\ Pool!Init
    /\ Fee!Init
    /\ Fee!DistInit
    /\ Px!Init

\* The component k moves, the others stay in their initial states.
Alone(k) ==
    /\ focus = k /\ UNCHANGED focus
    /\ IF k = "auction" THEN TRUE ELSE UNCHANGED vars
    /\ IF k = "book" THEN TRUE ELSE UNCHANGED bookVars
    /\ IF k = "escrow" THEN TRUE ELSE UNCHANGED escVars
    /\ IF k = "offers" THEN TRUE ELSE UNCHANGED ordVars
    /\ IF k = "market_maker" THEN TRUE ELSE UNCHANGED ordMakerVars
    /\ IF k = "pool" THEN TRUE ELSE UNCHANGED poolVars
    /\ IF k = "fees" THEN TRUE ELSE UNCHANGED feeVars
    /\ IF k = "fee_distribution" THEN TRUE ELSE UNCHANGED feeDistVars
    /\ IF k = "prices" THEN TRUE ELSE UNCHANGED pxVars

MarketsNext ==
    \/ Alone("auction") /\ Next
    \/ Alone("book") /\ Book!Next
    \/ Alone("escrow") /\ Esc!Next
    \/ Alone("offers") /\ Ord!Next
    \/ Alone("market_maker") /\ Ord!MakerNext
    \/ Alone("pool") /\ Pool!Next
    \/ Alone("fees") /\ Fee!Next
    \/ Alone("fee_distribution") /\ Fee!DistNext
    \/ Alone("prices") /\ Px!Next

MarketsSpec == MarketsInit /\ [][MarketsNext]_all

\* Prices, quantities and fees are whole numbers, positive or not.
ASSUME BookAssumption ==
    /\ BookPrices \subseteq Int /\ BookQuantities \subseteq Int
    /\ BookFeeBps \subseteq Int /\ BookBpsUnit \in Nat \ {0}

\* An escrow is not between the contract and itself, amounts are whole
\* numbers, and no row of a table is absent.
ASSUME EscrowAssumption ==
    /\ None \notin Addr /\ Self \notin Addr
    /\ EscAmounts \subseteq Int /\ EscSupply \in Int
    /\ EscMaxEscrows \in Nat

\* The quantity of an offer is positive, and so are the units of a fill or none.
ASSUME OrderAssumption ==
    /\ OrdOffers \subseteq Int \X (Nat \ {0})
    /\ OrdAmounts \subseteq Nat /\ OrdChanges \subseteq Int
    /\ OrdPrices \subseteq Int /\ OrdSpreadsBps \subseteq Int /\ OrdVolatilities \subseteq Int
    /\ OrdBpsUnit \in Nat \ {0}

ASSUME PoolAssumption ==
    /\ IsFiniteSet(PoolProviders)
    /\ PoolDeposits \subseteq Nat \X Nat /\ PoolTokens \subseteq Nat /\ PoolInputs \subseteq Nat
    /\ PoolFeeUnit \in Nat \ {0} /\ PoolFees \subseteq 0..PoolFeeUnit
    /\ PoolMaxReserve \in Nat
    /\ None \notin Pool!PositionRow /\ None \notin Pool!PoolRow

\* Rules are written with a finite list of tiers.  Amounts are positive, the
\* shares of a rule are not negative and there are finitely many holders.
ASSUME FeeAssumption ==
    /\ FeeConfigInputs \subseteq Fee!ConfigRow
    /\ \A c \in FeeConfigInputs : IsFiniteSet(c.tiers)
    /\ FeeAmounts \subseteq Nat /\ FeeVolumes \subseteq Int /\ FeeBpsUnit \in Nat \ {0}
    /\ FeeMaxTime \in Nat

ASSUME DistributionAssumption ==
    /\ FeeShares \subseteq [platform : Nat, lp : Nat, holders : Nat]
    /\ FeeDenominator \in Nat \ {0}
    /\ FeeCollected \subseteq Nat
    /\ IsFiniteSet(FeeProviders) /\ IsFiniteSet(FeeHolders)
    /\ FeeDistMaxTime \in Nat /\ FeeMaxShare \in Nat

\* A price is a number, also where it is not positive.
ASSUME PriceAssumption ==
    /\ PxPrices \subseteq Int /\ None \notin PxPrices \cup Nat
    /\ PxMaxAge \in Nat /\ PxMaxTime \in Nat

\* No component names an address or a request.
MarketsSymmetry == Permutations(Addr) \cup Permutations(Clients)

-----------------------------------------------------------------------------
\* Every component keeps to its types.
MarketsTypeOK ==
    /\ TypeOK /\ Ord!TypeOK /\ Pool!TypeOK /\ Ord!MakerTypeOK
    /\ Fee!TypeOK /\ Fee!DistTypeOK /\ Px!TypeOK

\* A settled auction went to its highest bidder, what is filled in the
\* contract's book is what was traded and the book is not crossed.
TradesAreSettled == SettledToHighest /\ Book!FillsAreTraded /\ Book!BookIsNotCrossed

\* The escrow contract holds exactly the funds of its open escrows.
EscrowCustodyIsExact == Esc!CustodyIsExact

\* Fills of offers and of a market maker's orders are accounted for.
FillsAreExplained == Ord!FillsAreExplained /\ Ord!FillsStayWithinOrder

\* Shares are backed by reserves.
PoolIsBacked == Pool!PoolIsBacked

\* No trade, deposit or withdrawal takes from the value of a share.
ShareValueNeverFalls == Pool!ShareValueNeverFalls

\* Fees are within their bounds and on record, and are paid out in full.
FeesAreConserved == Fee!FeesAreAuditable /\ Fee!RunsConserveFees

\* Quoted prices are fresh, and found in order.
PricesAreFresh == Px!PricesAreFresh
=============================================================================
