----------------------------- MODULE P2PMarket -----------------------------
(***************************************************************************)
(* The peer-to-peer order book, contracts/src/p2p_market.rs: an order is   *)
(* matched against the resting orders of its asset when it is placed.      *)
(*                                                                         *)
(* The book moves no token.  Order ids are positions of the sequence       *)
(* orders and trade ids positions of trades, as the two nonces make them;  *)
(* AssetOrders and TradeHistory are the ids of one asset, in order.        *)
(* Timestamps and events are left out.                                     *)
(***************************************************************************)
EXTENDS Integers, Sequences, FiniteSets, SequencesExt

CONSTANTS
    Addr,           \* account addresses
    None,           \* no address, no fee configuration
    AssetIds,       \* assets
    Prices,         \* prices tried; place_order refuses those that are not positive
    Quantities,     \* quantities tried, likewise
    FeeBps,         \* fees an admin may try to set
    MaxFeeBps,      \* the largest fee set_fee_config takes (1000)
    BpsUnit,        \* basis points in one (10000)
    MaxOrders       \* bound: orders ever placed

VARIABLES
    admin,          \* P2PDataKey::Admin
    fees,           \* P2PDataKey::FeeConfig
    orders,         \* P2PDataKey::Order(id)
    trades          \* P2PDataKey::Trade(id)

vars == <<admin, fees, orders, trades>>

OrderIds == 1..Len(orders)

-----------------------------------------------------------------------------
\* initialize asks for no authorization.
Initialize(caller) ==
    /\ admin = None
    /\ admin' = caller
    /\ UNCHANGED <<fees, orders, trades>>

SetFeeConfig(caller, maker, taker) ==
    /\ admin # None /\ caller = admin
    /\ maker <= MaxFeeBps /\ taker <= MaxFeeBps
    /\ fees' = {[maker |-> maker, taker |-> taker]}
    /\ UNCHANGED <<admin, orders, trades>>

ComputeFee(notional, bps) == (notional \div BpsUnit) * bps

Remaining(o) == o.quantity - o.filled

IsLive(o) == o.status \in {"Open", "Partial"}

\* Whether a resting order is one the taker trades with.
Matches(taker, o) ==
    /\ o.asset_id = taker.asset_id
    /\ IsLive(o)
    /\ o.side # taker.side
    /\ IF taker.side = "Buy" THEN taker.price >= o.price ELSE taker.price <= o.price

FillStatus(o) == IF o.filled >= o.quantity THEN "Filled"
                 ELSE IF o.filled > 0 THEN "Partial" ELSE o.status

Fill(o, qty) == LET f == [o EXCEPT !.filled = @ + qty] IN [f EXCEPT !.status = FillStatus(f)]

FillQuantity_Taker(taker, counter) == Remaining(taker)

FillQuantity(taker, counter) ==
    IF Remaining(taker) < Remaining(counter) THEN Remaining(taker) ELSE Remaining(counter)

\* The trade of an order with the resting order it matched, at the resting
\* order's price.
TradeOf(taker, takerId, counter, counterId) ==
    LET qty == FillQuantity(taker, counter)
        value == counter.price * qty
        buying == taker.side = "Buy"
        feeOf(kind) == IF fees = {} THEN 0 ELSE ComputeFee(value, (CHOOSE f \in fees : TRUE)[kind])
    IN [buy_order_id |-> IF buying THEN takerId ELSE counterId,
        sell_order_id |-> IF buying THEN counterId ELSE takerId,
        price |-> counter.price, quantity |-> qty, total_value |-> value,
        maker_fee |-> feeOf("maker"), taker_fee |-> feeOf("taker")]

\* One resting order, when the taker trades with it and has something left.
Visit(book, takerId, counterId) ==
    LET counter == book.orders[counterId]
        trade == TradeOf(book.taker, takerId, counter, counterId)
    IN IF Remaining(book.taker) > 0 /\ Matches(book.taker, counter)
         THEN [orders |-> [book.orders EXCEPT ![counterId] = Fill(counter, trade.quantity)],
               taker  |-> Fill(book.taker, trade.quantity),
               trades |-> Append(book.trades, trade)]
         ELSE book

\* match_order: one pass over the resting orders, oldest first, while the
\* taker has something left.
MatchOrder(taker, takerId) ==
    LET pass[n \in 0..Len(orders)] ==
          IF n = 0 THEN [orders |-> orders, taker |-> taker, trades |-> trades]
                   ELSE Visit(pass[n - 1], takerId, n)
    IN pass[Len(orders)]

PlaceOrder(owner, asset, side, price, quantity) ==
    LET taker == [asset_id |-> asset, owner |-> owner, side |-> side, price |-> price,
                  quantity |-> quantity, filled |-> 0, status |-> "Open"]
        book == MatchOrder(taker, Len(orders) + 1)
    IN /\ price > 0 /\ quantity > 0
       /\ Len(orders) < MaxOrders
       /\ orders' = Append(book.orders, book.taker)
       /\ trades' = book.trades
       /\ UNCHANGED <<admin, fees>>

Cancellable(o) == o.status \notin {"Filled", "Cancelled"}

CancelOrder(owner, id) ==
    /\ orders[id].owner = owner
    /\ Cancellable(orders[id])
    /\ orders' = [orders EXCEPT ![id].status = "Cancelled"]
    /\ UNCHANGED <<admin, fees, trades>>

-----------------------------------------------------------------------------
Init ==
    /\ admin = None
    /\ fees = {}
    /\ orders = <<>>
    /\ trades = <<>>

Next ==
    \E c \in Addr :
       \/ Initialize(c)
       \/ \E maker, taker \in FeeBps : SetFeeConfig(c, maker, taker)
       \/ \E asset \in AssetIds, side \in {"Buy", "Sell"}, p \in Prices, q \in Quantities :
             PlaceOrder(c, asset, side, p, q)
       \/ \E id \in OrderIds : CancelOrder(c, id)

Spec == Init /\ [][Next]_vars

-----------------------------------------------------------------------------
Traded(t, id) == IF id \in {t.buy_order_id, t.sell_order_id} THEN t.quantity ELSE 0

TradedOf(id) == SumFunctionOnSet([k \in DOMAIN trades |-> Traded(trades[k], id)], DOMAIN trades)

\* What an order has filled is what its trades traded, never more than it
\* asked for, and an order that was not cancelled has the status its fills
\* give it.
FillsAreTraded ==
    \A id \in OrderIds : LET o == orders[id] IN
        /\ o.filled = TradedOf(id)
        /\ o.filled \in 0..o.quantity
        /\ o.status = "Filled" <=> o.filled = o.quantity
        /\ o.status = "Partial" => o.filled > 0
        /\ o.status = "Open" => o.filled = 0

\* The single pass over the resting orders leaves no match behind: no live buy
\* order stands at or above a live sell order of the same asset.
BookIsNotCrossed ==
    \A b, s \in OrderIds :
        LET buy == orders[b] sell == orders[s] IN
        /\ buy.side = "Buy" /\ sell.side = "Sell" /\ buy.asset_id = sell.asset_id
        /\ IsLive(buy) /\ IsLive(sell)
        => buy.price < sell.price

\* A filled or cancelled order never trades or changes again, and no trade is
\* rewritten.
ClosedOrdersAreFrozen ==
    [][/\ \A id \in OrderIds : ~IsLive(orders[id]) => orders'[id] = orders[id]
       /\ IsPrefix(trades, trades')]_vars

\* match_order is headed "price-time priority matching": no resting order
\* trades while one with a better price for the taker is left standing.
BestPriceFirst ==
    [][\A worse, better \in OrderIds :
          /\ orders[worse].filled # orders'[worse].filled
          /\ orders[better].side = orders[worse].side
          /\ orders[better].asset_id = orders[worse].asset_id
          /\ IF orders[worse].side = "Sell" THEN orders[better].price < orders[worse].price
             ELSE orders[better].price > orders[worse].price
          => ~IsLive(orders'[better])]_vars
=============================================================================
