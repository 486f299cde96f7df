------------------------------ MODULE Auction ------------------------------
(***************************************************************************)
(* The auction house, contracts/src/auction.rs: English auctions with a    *)
(* deadline that late bids extend, Dutch auctions with a falling price,    *)
(* sealed-bid auctions, and the refunds that bidders who do not win are    *)
(* owed.                                                                   *)
(*                                                                         *)
(* The contract moves no token; a refund is an entry of PendingRefund.     *)
(* Asset and amount of units are never read and are left out, as are bid   *)
(* timestamps and events.  min_bid_increment is not validated; a negative  *)
(* one lets a lower bid replace a higher one, down to the positive amounts *)
(* that are modelled.                                                      *)
(***************************************************************************)
EXTENDS Integers, Sequences, FiniteSets, SequencesExt

CONSTANTS
    Addr,           \* account addresses
    None,           \* no address
    Terms,          \* auctions sellers may create: records of the fields of NoAuction
                    \* that creation sets, and of the duration
    Amounts,        \* bid amounts
    MaxDue,         \* bound: total of one bidder's bids in an auction
    MaxTime,        \* bound: ledger timestamps
    MaxAuctions     \* bound: auctions ever created

TermFields == {"auction_type", "start_price", "reserve_price", "min_bid_increment",
               "price_decrement", "decrement_interval", "extension_window", "duration"}

ASSUME AuctionAssumption ==
    /\ None \notin Addr
    /\ Amounts \subseteq Nat \ {0} /\ MaxDue \in Nat
    /\ \A t \in Terms :
          /\ DOMAIN t = TermFields
          /\ t.auction_type \in {"English", "Dutch", "SealedBid"}
          /\ t.start_price \in Int /\ t.reserve_price \in Int /\ t.min_bid_increment \in Int
          /\ t.price_decrement \in Int /\ t.decrement_interval \in Nat
          /\ t.extension_window \in Nat /\ t.duration \in Nat
    /\ MaxTime \in Nat /\ MaxAuctions \in Nat

AuctionIds == 1..MaxAuctions

VARIABLES
    admin,          \* AuctionDataKey::Admin
    nonce,          \* AuctionDataKey::AuctionNonce
    auctions,       \* AuctionDataKey::Auction(id); status "Absent" before it is created
    bids,           \* the amount of AuctionDataKey::Bid(id, bidder), 0 when absent
    bidders,        \* AuctionDataKey::Bidders(id)
    refunds,        \* AuctionDataKey::PendingRefund(id, bidder), 0 when absent
    due,            \* history: what a bidder's bids entitle it to, in all
    reset,          \* history: initialize ran after an auction had been created
    now             \* env.ledger().timestamp()

bidVars == <<bids, bidders, due>>
vars == <<admin, nonce, auctions, bidVars, refunds, reset, now>>

NoAuction == [auction_type |-> "English", seller |-> None, reserve_price |-> 0,
              start_time |-> 0, end_time |-> 0, status |-> "Absent", start_price |-> 0,
              highest_bid |-> 0, highest_bidder |-> None, min_bid_increment |-> 0,
              price_decrement |-> 0, decrement_interval |-> 1, extension_window |-> 0]

-----------------------------------------------------------------------------
\* The create calls do not ask for an admin, so there may be auctions already;
\* the counter starts again and their ids are given out a second time.
Initialize(caller) ==
    /\ admin = None
    /\ admin' = caller
    /\ nonce' = 0
    /\ reset' = (nonce # 0)
    /\ UNCHANGED <<auctions, bidVars, refunds, now>>

ValidateCreate_AnyReserve(t) ==
    /\ t.start_price > 0
    /\ t.duration # 0

ValidateCreate(t) ==
    /\ t.start_price > 0
    /\ t.reserve_price >= 0
    /\ t.duration # 0

NextId == nonce + 1

\* create_english_auction, create_dutch_auction and create_sealed_bid_auction.
CreateAuction(seller, t) ==
    /\ ValidateCreate(t)
    /\ t.auction_type = "Dutch" => t.price_decrement > 0 /\ t.decrement_interval # 0
    /\ NextId \in AuctionIds
    /\ nonce' = NextId
    /\ auctions' = [auctions EXCEPT ![NextId] =
          [auction_type |-> t.auction_type, seller |-> seller,
           reserve_price |-> t.reserve_price, start_time |-> now,
           end_time |-> now + t.duration, status |-> "Active",
           start_price |-> t.start_price, highest_bid |-> 0, highest_bidder |-> None,
           min_bid_increment |-> t.min_bid_increment,
           price_decrement |-> t.price_decrement,
           decrement_interval |-> t.decrement_interval,
           extension_window |-> t.extension_window]]
    /\ UNCHANGED <<admin, bidVars, refunds, reset, now>>

-----------------------------------------------------------------------------
IsOpen(id) == auctions[id].status = "Active" /\ now < auctions[id].end_time

MinRequired(a) ==
    IF a.highest_bid = 0 THEN a.start_price ELSE a.highest_bid + a.min_bid_increment

\* The deadline after a bid: never less than extension_window away.
ExtendedEnd(a) ==
    IF a.extension_window > 0 /\ now + a.extension_window >= a.end_time
      THEN now + a.extension_window ELSE a.end_time

\* add_pending_refund for every bidder, amounts[b] being 0 for those without one.
AddPendingRefunds(id, amounts) ==
    refunds' = [refunds EXCEPT ![id] = [b \in Addr |-> @[b] + amounts[b]]]

TopBidRefund(a, b) == IF b = a.highest_bidder THEN a.highest_bid ELSE 0

PlaceBidEnglish(bidder, id, amount) ==
    LET a == auctions[id]
    IN /\ IsOpen(id)
       /\ a.auction_type = "English"
       /\ amount >= MinRequired(a)
       /\ due[id][bidder] + amount <= MaxDue
       /\ AddPendingRefunds(id, [b \in Addr |-> TopBidRefund(a, b)])
       /\ auctions' = [auctions EXCEPT ![id].highest_bid = amount,
                                      ![id].highest_bidder = bidder,
                                      ![id].end_time = ExtendedEnd(a)]
       /\ bids' = [bids EXCEPT ![id][bidder] = amount]
       /\ due' = [due EXCEPT ![id][bidder] = @ + amount]
       /\ UNCHANGED <<admin, nonce, bidders, reset, now>>

\* A first bid enters the bidder in the list; a raise credits the difference.
PlaceBidSealed(bidder, id, amount) ==
    LET a == auctions[id]
        prev == bids[id][bidder]
        raise == IF prev = 0 THEN 0 ELSE amount - prev
    IN /\ IsOpen(id)
       /\ a.auction_type = "SealedBid"
       /\ amount > prev
       /\ due[id][bidder] + amount <= MaxDue
       /\ AddPendingRefunds(id, [b \in Addr |-> IF b = bidder THEN raise ELSE 0])
       /\ bidders' = IF prev = 0 THEN [bidders EXCEPT ![id] = Append(@, bidder)] ELSE bidders
       /\ auctions' = IF amount > a.highest_bid
                        THEN [auctions EXCEPT ![id].highest_bid = amount,
                                              ![id].highest_bidder = bidder]
                        ELSE auctions
       /\ bids' = [bids EXCEPT ![id][bidder] = amount]
       /\ due' = [due EXCEPT ![id][bidder] = @ + (amount - prev) + raise]
       /\ UNCHANGED <<admin, nonce, reset, now>>

DutchPriceAt(a, t) ==
    LET drop == a.price_decrement * ((t - a.start_time) \div a.decrement_interval)
    IN IF a.start_price - drop >= a.reserve_price THEN a.start_price - drop ELSE a.reserve_price

BuyDutch(buyer, id) ==
    LET a == auctions[id]
        price == DutchPriceAt(a, now)
    IN /\ IsOpen(id)
       /\ a.auction_type = "Dutch"
       /\ auctions' = [auctions EXCEPT ![id].highest_bid = price,
                                      ![id].highest_bidder = buyer,
                                      ![id].status = "Settled"]
       /\ due' = [due EXCEPT ![id][buyer] = @ + price]
       /\ UNCHANGED <<admin, nonce, bids, bidders, refunds, reset, now>>

-----------------------------------------------------------------------------
\* The scan of settle_auction over the bidders, in the order of their first
\* bids: the first of the highest bids.
BestBidder(id) ==
    LET list == bidders[id]
        amount(i) == bids[id][list[i]]
        best == {i \in DOMAIN list : \A j \in DOMAIN list :
                    amount(j) <= amount(i) /\ (j < i => amount(j) < amount(i))}
    IN IF best = {} THEN None ELSE list[CHOOSE i \in best : TRUE]

SealedRefund(id, b) == IF b \in Range(bidders[id]) THEN bids[id][b] ELSE 0

Finish(id, winner, bid) ==
    /\ auctions' = [auctions EXCEPT ![id].status = IF winner = None THEN "Ended" ELSE "Settled",
                                   ![id].highest_bidder = winner,
                                   ![id].highest_bid = bid]
    /\ UNCHANGED <<admin, nonce, bidVars, reset, now>>

IsOver(id) == auctions[id].status = "Active" /\ now >= auctions[id].end_time

SettleEnglish(id) ==
    LET a == auctions[id]
        met == a.highest_bid >= a.reserve_price /\ a.highest_bidder # None
    IN /\ IsOver(id)
       /\ a.auction_type = "English"
       /\ IF met
            THEN /\ Finish(id, a.highest_bidder, a.highest_bid)
                 /\ UNCHANGED refunds
            ELSE /\ Finish(id, None, 0)
                 /\ AddPendingRefunds(id, [b \in Addr |-> TopBidRefund(a, b)])

SealedLoserRefund_All(id, winner, b) == SealedRefund(id, b)

SealedLoserRefund(id, winner, b) == IF b = winner THEN 0 ELSE SealedRefund(id, b)

SettleSealed(id) ==
    LET a == auctions[id]
        best == BestBidder(id)
        met == best # None /\ bids[id][best] >= a.reserve_price
        winner == IF met THEN best ELSE None
    IN /\ IsOver(id)
       /\ a.auction_type = "SealedBid"
       /\ Finish(id, winner, IF met THEN bids[id][best] ELSE 0)
       /\ AddPendingRefunds(id, [b \in Addr |-> SealedLoserRefund(id, winner, b)])

RefundAllBids(id) ==
    LET a == auctions[id]
    IN AddPendingRefunds(id, [b \in Addr |->
                                 IF a.auction_type = "SealedBid" THEN SealedRefund(id, b)
                                 ELSE TopBidRefund(a, b)])

StillActive(id) == auctions[id].status = "Active"

Cancel(id) ==
    /\ StillActive(id)
    /\ RefundAllBids(id)
    /\ auctions' = [auctions EXCEPT ![id].status = "Cancelled"]
    /\ UNCHANGED <<admin, nonce, bidVars, reset, now>>

CancelAuction(actor, id) ==
    /\ admin # None
    /\ actor \in {auctions[id].seller, admin}
    /\ Cancel(id)

EmergencyCancel(caller, id) ==
    /\ admin # None /\ caller = admin
    /\ Cancel(id)

Tick ==
    /\ now < MaxTime
    /\ now' = now + 1
    /\ UNCHANGED <<admin, nonce, auctions, bidVars, refunds, reset>>

-----------------------------------------------------------------------------
Init ==
    /\ admin = None
    /\ nonce = 0
    /\ auctions = [id \in AuctionIds |-> NoAuction]
    /\ bids = [id \in AuctionIds |-> [b \in Addr |-> 0]]
    /\ bidders = [id \in AuctionIds |-> <<>>]
    /\ refunds = [id \in AuctionIds |-> [b \in Addr |-> 0]]
    /\ due = [id \in AuctionIds |-> [b \in Addr |-> 0]]
    /\ reset = FALSE
    /\ now = 0

Next ==
    \/ \E c \in Addr : Initialize(c)
    \/ \E s \in Addr, t \in Terms : CreateAuction(s, t)
    \/ \E c \in Addr, id \in AuctionIds :
          \/ \E amount \in Amounts : PlaceBidEnglish(c, id, amount) \/ PlaceBidSealed(c, id, amount)
          \/ BuyDutch(c, id)
          \/ CancelAuction(c, id)
          \/ EmergencyCancel(c, id)
    \/ \E id \in AuctionIds : SettleEnglish(id) \/ SettleSealed(id)
    \/ Tick

Spec == Init /\ [][Next]_vars

-----------------------------------------------------------------------------
Status == {"Absent", "Active", "Ended", "Settled", "Cancelled"}

\* Storage holds values of its types.
TypeOK ==
    /\ admin \in Addr \cup {None}
    /\ nonce \in 0..MaxAuctions
    /\ auctions \in [AuctionIds ->
          [auction_type : {"English", "Dutch", "SealedBid"}, seller : Addr \cup {None},
           reserve_price : Nat, start_time : Nat, end_time : Nat, status : Status,
           start_price : Nat, highest_bid : Int, highest_bidder : Addr \cup {None},
           min_bid_increment : Int, price_decrement : Int, decrement_interval : Nat,
           extension_window : Nat]]
    /\ bids \in [AuctionIds -> [Addr -> Int]]
    /\ bidders \in [AuctionIds -> Seq(Addr)]
    /\ refunds \in [AuctionIds -> [Addr -> Int]]
    /\ due \in [AuctionIds -> [Addr -> Int]]
    /\ reset \in BOOLEAN
    /\ now \in Nat

\* What the house still holds of a bidder's bids: the standing bid of an
\* auction that is not over, and the price of one that was won.
Held(id, b) ==
    LET a == auctions[id]
    IN IF a.status = "Active" /\ a.auction_type = "SealedBid" THEN bids[id][b]
       ELSE IF a.status \in {"Active", "Settled"} THEN TopBidRefund(a, b)
       ELSE 0

\* However outbidding, raising, settling without a winner, settling with one
\* and the two cancellations follow each other, a bidder's refund is exactly
\* what its bids entitle it to less what the house holds: no bid is refunded
\* twice and none is forgotten (unless initialize reset the id counter).
RefundsAreExact ==
    ~reset => \A id \in AuctionIds, b \in Addr : refunds[id][b] + Held(id, b) = due[id][b]

\* A settled auction went to a bidder who met the reserve, and no standing bid
\* of a sealed-bid auction, or of an English one with a sane increment, was
\* higher than the winning one.
SettledToHighest ==
    ~reset => \A id \in AuctionIds : LET a == auctions[id] IN
        a.status = "Settled" =>
            /\ a.highest_bidder \in Addr
            /\ a.highest_bid >= a.reserve_price
            /\ a.min_bid_increment >= 0 => \A b \in Addr : bids[id][b] <= a.highest_bid

\* A deadline never moves closer, and whoever is outbid in an English auction
\* has at least extension_window left to answer.
LateBidsExtend ==
    [][\A id \in AuctionIds :
          auctions[id].status = "Active" /\ auctions'[id].status = "Active" /\ ~reset =>
             /\ auctions'[id].end_time >= auctions[id].end_time
             /\ due'[id] # due[id] =>
                   auctions'[id].end_time >= now + auctions[id].extension_window]_vars

\* An auction that is settled, ended or cancelled is over: neither its record
\* nor the refunds of its bidders ever change again (unless initialize reset
\* the id counter).
ClosedIsFinal ==
    [][\A id \in AuctionIds :
          auctions[id].status \in {"Ended", "Settled", "Cancelled"} /\ ~reset =>
             auctions'[id] = auctions[id] /\ refunds'[id] = refunds[id]]_vars
=============================================================================
