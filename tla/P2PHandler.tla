----------------------------- MODULE P2PHandler -----------------------------
(***************************************************************************)
(* The off-chain order book (backend/handlers/p2p.go) for one asset.       *)
(* CreateOrder inserts the order, reads the opposite side once and then    *)
(* runs one transaction per fill on the rows it read.                      *)
(***************************************************************************)
EXTENDS Rows, Functions

CONSTANTS
    Reqs,
    Offers,            \* the pairs of a price and a quantity
    MaxOrders, MaxFaults

VARIABLES
    orders,            \* rows [side, price, quantity, filled, status]
    trades,            \* rows [buy, sell, quantity, price]
    req,               \* what each request has read, and what is left to fill of its order
    lost,              \* history: orders whose row does not tell their trades
    faults

vars == <<orders, trades, req, lost, faults>>

Ids == DOMAIN orders

IsLive(o) == o.status \in {"open", "partial"}

TypeOK ==
    /\ \A i \in Ids : orders[i].status \in {"open", "partial", "filled", "cancelled"}
    /\ lost \subseteq Ids

Init ==
    /\ orders = <<>>
    /\ trades = <<>>
    /\ req = [r \in Reqs |-> New]
    /\ lost = {}
    /\ faults = 0

CreateOrder(r, side, price, quantity) ==
    LET o == [side |-> side, price |-> price, quantity |-> quantity, filled |-> 0, status |-> "open"]
    IN  /\ req[r] = New
        /\ Len(orders) < MaxOrders
        /\ orders' = Append(orders, o)
        /\ req' = [req EXCEPT ![r] = [pc |-> "find", id |-> Len(orders) + 1, row |-> o, left |-> quantity, rest |-> <<>>]]
        /\ UNCHANGED <<trades, lost, faults>>

PriceFits(taker, o) == IF taker.side = "buy" THEN o.price <= taker.price ELSE o.price >= taker.price

\* Best price first, then the older order.
Before(taker, i, j) ==
    \/ IF taker.side = "buy" THEN orders[i].price < orders[j].price ELSE orders[i].price > orders[j].price
    \/ orders[i].price = orders[j].price /\ i < j

\* The query for the opposite side: ids with the rows as read.  There is one
\* list in this order.
CounterOrders(taker) ==
    LET ids == {i \in Ids : orders[i].side # taker.side /\ IsLive(orders[i]) /\ PriceFits(taker, orders[i])}
        n == Cardinality(ids)
        sorted == {s \in [1..n -> ids] : \A k \in 1..(n - 1) : Before(taker, s[k], s[k + 1])}
    IN  {[k \in 1..n |-> [id |-> s[k], row |-> orders[s[k]]]] : s \in sorted}

FindCounters(r) ==
    /\ req[r].pc = "find"
    /\ \E found \in CounterOrders(req[r].row) :
        req' = [req EXCEPT ![r] = [req[r] EXCEPT !.pc = "fill", !.rest = found]]
    /\ UNCHANGED <<orders, trades, lost, faults>>

Filled(o, n) ==
    [o EXCEPT !.filled = @ + n, !.status = IF o.filled + n >= o.quantity THEN "filled" ELSE "partial"]

FillQuantity_Taker(left, counter) == left

FillQuantity(left, counter) ==
    LET there == counter.quantity - counter.filled
    IN  IF there < left THEN there ELSE left

Filling(r) == req[r].pc = "fill" /\ req[r].rest # <<>> /\ req[r].left > 0

\* The request goes on with the rest, whether or not this one was filled.
Onward(r, row, n) ==
    req' = [req EXCEPT ![r] = [req[r] EXCEPT !.row = row, !.left = req[r].left - n, !.rest = Tail(req[r].rest)]]

Fill(r) ==
    LET o == req[r].row
        c == Head(req[r].rest)
        n == FillQuantity(req[r].left, c.row)
        pair == IF o.side = "buy" THEN <<req[r].id, c.id>> ELSE <<c.id, req[r].id>>
        read == [i \in {c.id, req[r].id} |-> IF i = c.id THEN c.row ELSE o]
    IN  /\ Filling(r)
        /\ trades' = Append(trades, [buy |-> pair[1], sell |-> pair[2], quantity |-> n, price |-> c.row.price])
        /\ orders' = Saved(orders, [i \in {c.id, req[r].id} |-> Filled(read[i], n)])
        /\ lost' = lost \cup Stale(orders, read)
        /\ Onward(r, Filled(o, n), n)
        /\ UNCHANGED faults

\* The transaction of a fill fails and its error is ignored: the rows are
\* rolled back, the order in memory is not, if it was changed by then.
FillFails(r) ==
    LET n == FillQuantity(req[r].left, Head(req[r].rest).row) IN
    /\ Filling(r)
    /\ faults < MaxFaults
    /\ faults' = faults + 1
    /\ lost' = lost \cup {req[r].id}
    /\ \E row \in {req[r].row, Filled(req[r].row, n)} : Onward(r, row, n)
    /\ UNCHANGED <<orders, trades>>

MatchDone(r) ==
    /\ req[r].pc = "fill" /\ ~Filling(r)
    /\ req' = [req EXCEPT ![r] = Done]
    /\ UNCHANGED <<orders, trades, lost, faults>>

CanCancel(o) == o.status \notin {"filled", "cancelled"}

CancelRead(r, id) ==
    /\ req[r] = New
    /\ CanCancel(orders[id])
    /\ req' = [req EXCEPT ![r] = [pc |-> "cancel", id |-> id, row |-> orders[id], left |-> 0, rest |-> <<>>]]
    /\ UNCHANGED <<orders, trades, lost, faults>>

CancelSave(r) ==
    /\ req[r].pc = "cancel"
    /\ orders' = Saved(orders, [i \in {req[r].id} |-> [req[r].row EXCEPT !.status = "cancelled"]])
    /\ lost' = lost \cup Stale(orders, [i \in {req[r].id} |-> req[r].row])
    /\ req' = [req EXCEPT ![r] = Done]
    /\ UNCHANGED <<trades, faults>>

Next ==
    \/ \E r \in Reqs, side \in {"buy", "sell"}, o \in Offers : CreateOrder(r, side, o[1], o[2])
    \/ \E r \in Reqs : FindCounters(r) \/ Fill(r) \/ FillFails(r) \/ MatchDone(r) \/ CancelSave(r)
    \/ \E r \in Reqs, id \in Ids : CancelRead(r, id)

Spec == Init /\ [][Next]_vars

-----------------------------------------------------------------------------
TradedOf(id) == SumFunction([k \in DOMAIN trades |-> IF id \in {trades[k].buy, trades[k].sell} THEN trades[k].quantity ELSE 0])

\* A stored order is never filled beyond its quantity, is "filled" exactly when
\* nothing is left, trades only within both limits, and counts its trades
\* unless a save has replaced another request's or a fill was rolled back.
FillsAreExplained ==
    /\ \A i \in Ids : LET o == orders[i] IN
        /\ o.filled \in 0..o.quantity
        /\ o.status = "filled" <=> o.filled = o.quantity
        /\ i \notin lost => o.filled = TradedOf(i)
    /\ \A k \in DOMAIN trades : LET t == trades[k] IN
        t.quantity > 0 /\ orders[t.sell].price <= t.price /\ t.price <= orders[t.buy].price

-----------------------------------------------------------------------------
(***************************************************************************)
(* Market-maker bots (backend/services/market_maker_service.go, backend/   *)
(* handlers/market_maker.go): one bot with its orders, trades and          *)
(* inventory.  Fills and inventory changes read a row and then update it.  *)
(***************************************************************************)
CONSTANTS
    Statuses,          \* any text is accepted as a bot's status
    Amounts, Changes,
    Prices, SpreadsBps, Volatilities, BpsUnit,
    MakerMaxOrders

VARIABLES
    bot,               \* its status; "none" before CreateBot
    makerOrders,       \* rows [amount, filled, status]
    makerTrades,       \* units recorded by RecordTrade, per order
    inventory,         \* rows of market_maker_inventory: held units
    makerReq,
    fills,             \* history: fills[i], the units the fills of order i were given
    moved,             \* history: the inventory changes, summed
    raced              \* history: orders, and 0 for the inventory, with overlapping updates
                       \* or a change cut off at zero

makerVars == <<bot, makerOrders, makerTrades, inventory, makerReq, fills, moved, raced>>

MakerIds == DOMAIN makerOrders

MakerTypeOK ==
    /\ \A i \in MakerIds : makerOrders[i].status \in {"active", "filled", "cancelled"}
    /\ Len(makerTrades) = Len(makerOrders)
    /\ raced \subseteq MakerIds \cup {0}

MakerInit ==
    /\ bot = "none"
    /\ makerOrders = <<>>
    /\ makerTrades = <<>>
    /\ inventory = <<>>
    /\ makerReq = [r \in Reqs |-> New]
    /\ fills = <<>>
    /\ moved = 0
    /\ raced = {}

CreateBot ==
    /\ bot = "none"
    /\ bot' = "inactive"
    /\ UNCHANGED <<makerOrders, makerTrades, inventory, makerReq, fills, moved, raced>>

UpdateBotStatus(s) ==
    /\ bot # "none"
    /\ bot' = s
    /\ UNCHANGED <<makerOrders, makerTrades, inventory, makerReq, fills, moved, raced>>

\* Neither the bot's status nor its position is looked at.
CreateMakerOrder(a) ==
    /\ bot # "none"
    /\ a > 0
    /\ Len(makerOrders) < MakerMaxOrders
    /\ makerOrders' = Append(makerOrders, [amount |-> a, filled |-> 0, status |-> "active"])
    /\ makerTrades' = Append(makerTrades, 0)
    /\ fills' = Append(fills, 0)
    /\ UNCHANGED <<bot, inventory, makerReq, moved, raced>>

\* An update by id, whatever the status.
CancelOrder(i) ==
    /\ makerOrders' = [makerOrders EXCEPT ![i].status = "cancelled"]
    /\ UNCHANGED <<bot, makerTrades, inventory, makerReq, fills, moved, raced>>

Fits(o, units) == o.filled + units <= o.amount

FillRead(r, i, units) ==
    /\ makerReq[r] = New
    /\ Fits(makerOrders[i], units)
    /\ makerReq' = [makerReq EXCEPT ![r] = [pc |-> "fill", id |-> i, units |-> units, read |-> makerOrders[i].filled]]
    /\ UNCHANGED <<bot, makerOrders, makerTrades, inventory, fills, moved, raced>>

\* The status follows from the units, also for an order cancelled meanwhile.
FillOrder(r) ==
    LET q      == makerReq[r]
        filled == q.read + q.units
    IN  /\ q.pc = "fill"
        /\ makerOrders' = [makerOrders EXCEPT ![q.id] =
             [makerOrders[q.id] EXCEPT !.filled = filled,
                                       !.status = IF filled = makerOrders[q.id].amount THEN "filled" ELSE "active"]]
        /\ fills' = [fills EXCEPT ![q.id] = @ + q.units]
        /\ raced' = IF makerOrders[q.id].filled # q.read THEN raced \cup {q.id} ELSE raced
        /\ makerReq' = [makerReq EXCEPT ![r] = Done]
        /\ UNCHANGED <<bot, makerTrades, inventory, moved>>

\* A trade is recorded by itself: no order and no inventory changes.
RecordTrade(r, i, units) ==
    /\ makerReq[r] = New
    /\ makerTrades' = [makerTrades EXCEPT ![i] = @ + units]
    /\ makerReq' = [makerReq EXCEPT ![r] = Done]
    /\ UNCHANGED <<bot, makerOrders, inventory, fills, moved, raced>>

InventoryRead(r, change) ==
    /\ makerReq[r] = New
    /\ bot # "none"
    /\ makerReq' = [makerReq EXCEPT ![r] = [pc |-> "inventory", change |-> change, read |-> inventory]]
    /\ UNCHANGED <<bot, makerOrders, makerTrades, inventory, fills, moved, raced>>

\* The first row found, or a new row; nothing makes the row unique.
UpdateInventory(r) ==
    LET q    == makerReq[r]
        held == q.read[1] + q.change
    IN  /\ q.pc = "inventory"
        /\ inventory' = IF q.read = <<>> THEN Append(inventory, q.change)
                        ELSE [inventory EXCEPT ![1] = IF held < 0 THEN 0 ELSE held]
        /\ moved' = moved + q.change
        /\ raced' = IF inventory # q.read \/ (q.read # <<>> /\ held < 0) THEN raced \cup {0} ELSE raced
        /\ makerReq' = [makerReq EXCEPT ![r] = Done]
        /\ UNCHANGED <<bot, makerOrders, makerTrades, fills>>

Position == SumFunction(inventory)

\* Volatility in percent; it widens the spread and never narrows it.
AdjustedSpread(price, volatility, bps) ==
    LET least == (price * bps) \div BpsUnit
        wider == (least * (100 + volatility)) \div 100
    IN  IF wider < least THEN least ELSE wider

CalculatePricingSpread(price, volatility, bps) ==
    LET half == AdjustedSpread(price, volatility, bps) \div 2 IN <<price - half, price + half>>

MakerNext ==
    \/ CreateBot
    \/ \E s \in Statuses : UpdateBotStatus(s)
    \/ \E a \in Amounts : CreateMakerOrder(a)
    \/ \E i \in MakerIds : CancelOrder(i)
    \/ \E r \in Reqs, i \in MakerIds, a \in Amounts : FillRead(r, i, a) \/ RecordTrade(r, i, a)
    \/ \E r \in Reqs, c \in Changes : InventoryRead(r, c)
    \/ \E r \in Reqs : FillOrder(r) \/ UpdateInventory(r)

MakerSpec == MakerInit /\ [][MakerNext]_makerVars

-----------------------------------------------------------------------------
\* No order is filled beyond its amount, however fills overlap; the units it
\* counts are the fills it was given unless two overlapped; it is open only
\* while units remain; and the position is the sum of the changes made to the
\* inventory, unless changes overlapped or one was cut off at zero.  A quote
\* from a price and a spread that are not negative (neither is looked at) is
\* around the price, and no narrower than the spread but for rounding.
FillsStayWithinOrder ==
    /\ \A i \in MakerIds :
        /\ makerOrders[i].filled \in 0..makerOrders[i].amount
        /\ i \notin raced => makerOrders[i].filled = fills[i]
        /\ makerOrders[i].status = "active" => makerOrders[i].filled < makerOrders[i].amount
        /\ makerOrders[i].status = "filled" => makerOrders[i].filled = makerOrders[i].amount
    /\ 0 \notin raced => Position = moved /\ Len(inventory) <= 1
    /\ \A p \in Prices, v \in Volatilities, s \in SpreadsBps :
        LET quote == CalculatePricingSpread(p, v, s) IN
        p >= 0 /\ s >= 0 =>
          /\ quote[1] <= p /\ p <= quote[2] /\ p - quote[1] = quote[2] - p
          /\ quote[2] - quote[1] >= (p * s) \div BpsUnit - 1
=============================================================================
