--------------------------- MODULE Markets_proofs ---------------------------
(***************************************************************************)
(* Proofs about the auction house and the components that MCMarkets puts   *)
(* together with it, for every value of their constants: refunds are exact *)
(* and a closed auction is final, escrows are covered, fills are explained,*)
(* the pool is backed and its shares keep their value, fees add up and     *)
(* prices are fresh.                                                       *)
(***************************************************************************)
EXTENDS MCMarkets, Sums, SequenceTheorems

-----------------------------------------------------------------------------
(* The auction house                                                       *)

AuctionRec ==
    [auction_type : {"English", "Dutch", "SealedBid"}, seller : Addr \cup {None},
     reserve_price : Nat, start_time : Nat, end_time : Nat, status : Status,
     start_price : Nat, highest_bid : Int, highest_bidder : Addr \cup {None},
     min_bid_increment : Int, price_decrement : Int, decrement_interval : Nat,
     extension_window : Nat]

\* Held, of one auction's entries.
HeldOf(a, bid, b) ==
    IF a.status = "Active" /\ a.auction_type = "SealedBid" THEN bid[b]
    ELSE IF a.status \in {"Active", "Settled"} THEN TopBidRefund(a, b)
    ELSE 0

Balanced(a, bid, refund, owed) == \A b \in Addr : refund[b] + HeldOf(a, bid, b) = owed[b]

\* The bidders listed are those with a bid, so that a refund of every listed
\* bidder is a refund of every bid.
Listed(a, bid, list) ==
    /\ a.status = "Absent" => list = <<>> /\ \A b \in Addr : bid[b] = 0
    /\ a.auction_type = "SealedBid" => \A b \in Addr : bid[b] # 0 <=> b \in Range(list)

DutchOK(a) == a.auction_type = "Dutch" =>
                 a.decrement_interval # 0 /\ (a.status = "Active" => a.highest_bidder = None)

\* The inductive invariant.
IInv ==
    /\ TypeOK
    /\ admin = None => ~reset
    /\ \A id \in AuctionIds : DutchOK(auctions[id])
    /\ ~reset => \A id \in AuctionIds :
                    /\ Balanced(auctions[id], bids[id], refunds[id], due[id])
                    /\ Listed(auctions[id], bids[id], bidders[id])
                    /\ id > nonce => auctions[id].status = "Absent"

\* A step that changes the entries of one auction only keeps the invariant if
\* the new entries do.
LEMMA OneAuction ==
    ASSUME IInv, NEW id \in AuctionIds,
           NEW a \in AuctionRec, NEW bid \in [Addr -> Int], NEW list \in Seq(Addr),
           NEW refund \in [Addr -> Int], NEW owed \in [Addr -> Int],
           auctions' = [auctions EXCEPT ![id] = a],
           bids' = [bids EXCEPT ![id] = bid],
           bidders' = [bidders EXCEPT ![id] = list],
           refunds' = [refunds EXCEPT ![id] = refund],
           due' = [due EXCEPT ![id] = owed],
           UNCHANGED <<admin, reset, now>>,
           nonce' \in 0..MaxAuctions, nonce' >= nonce,
           DutchOK(a),
           ~reset => Balanced(a, bid, refund, owed) /\ Listed(a, bid, list),
           a.status # "Absent", ~reset /\ id > nonce => nonce' >= id
    PROVE  IInv'
  <1> USE AuctionAssumption DEF AuctionIds
  <1>1. TypeOK'
    BY DEF IInv, TypeOK, AuctionRec
  <1>2. ASSUME NEW j \in AuctionIds, j # id
        PROVE  /\ auctions'[j] = auctions[j] /\ bids'[j] = bids[j] /\ bidders'[j] = bidders[j]
               /\ refunds'[j] = refunds[j] /\ due'[j] = due[j]
    BY <1>2 DEF IInv, TypeOK
  <1>3. /\ auctions'[id] = a /\ bids'[id] = bid /\ bidders'[id] = list
        /\ refunds'[id] = refund /\ due'[id] = owed
    BY DEF IInv, TypeOK
  <1>4. ASSUME NEW j \in AuctionIds
        PROVE  DutchOK(auctions'[j])
    <2>1. CASE j = id
      <3>1. auctions'[j] = a
        BY ONLY <2>1, <1>3
      <3> QED BY ONLY <3>1, DutchOK(a)
    <2>2. CASE j # id
      <3>1. auctions'[j] = auctions[j]
        BY <2>2, <1>2
      <3>2. DutchOK(auctions[j])
        BY ONLY IInv, j \in AuctionIds DEF IInv
      <3> QED BY ONLY <3>1, <3>2
    <2> QED BY ONLY <2>1, <2>2
  <1>5. ASSUME ~reset', NEW j \in AuctionIds
        PROVE  /\ Balanced(auctions'[j], bids'[j], refunds'[j], due'[j])
               /\ Listed(auctions'[j], bids'[j], bidders'[j])
               /\ j > nonce' => auctions'[j].status = "Absent"
    <2>0. ~reset /\ nonce \in Int /\ nonce' \in Int /\ j \in Int
      BY <1>5 DEF IInv, TypeOK
    <2>1. CASE j = id
      BY <2>0, <2>1, <1>3
    <2>2. CASE j # id
      BY <2>0, <2>2, <1>2 DEF IInv
    <2> QED BY <2>1, <2>2
  <1>6. admin' = None => ~reset'
    BY DEF IInv
  <1> QED BY <1>1, <1>4, <1>5, <1>6
          DEF IInv, DutchOK, Balanced, Listed, HeldOf, TopBidRefund

\* An auction's entries are typed.
LEMMA EntryTypes ==
    ASSUME TypeOK, NEW id \in AuctionIds
    PROVE  /\ auctions[id] \in AuctionRec
           /\ bids[id] \in [Addr -> Int] /\ bidders[id] \in Seq(Addr)
           /\ refunds[id] \in [Addr -> Int] /\ due[id] \in [Addr -> Int]
           /\ [auctions EXCEPT ![id] = auctions[id]] = auctions
           /\ [bids EXCEPT ![id] = bids[id]] = bids
           /\ [bidders EXCEPT ![id] = bidders[id]] = bidders
           /\ [refunds EXCEPT ![id] = refunds[id]] = refunds
           /\ [due EXCEPT ![id] = due[id]] = due
  BY DEF TypeOK, AuctionRec

\* The counters are numbers.
LEMMA Counters == ASSUME IInv
                  PROVE  TypeOK /\ nonce \in 0..MaxAuctions /\ nonce \in Nat /\ now \in Nat
  <1>1. TypeOK
    BY DEF IInv
  <1>2. nonce \in 0..MaxAuctions /\ now \in Nat
    BY <1>1 DEF TypeOK
  <1> QED BY <1>1, <1>2, AuctionAssumption

\* The amount refunded to a top bidder.
LEMMA TopBidType ==
    ASSUME NEW a \in AuctionRec, NEW b \in Addr
    PROVE  TopBidRefund(a, b) \in Int
  BY DEF TopBidRefund, AuctionRec

\* Appending to a sequence adds to its range.
LEMMA RangeAppend ==
    ASSUME NEW list \in Seq(Addr), NEW x \in Addr
    PROVE  Append(list, x) \in Seq(Addr) /\ Range(Append(list, x)) = Range(list) \cup {x}
  <1> DEFINE long == Append(list, x)
  <1>1. /\ long \in Seq(Addr) /\ DOMAIN long = 1..(Len(list) + 1) /\ DOMAIN list = 1..Len(list)
        /\ Len(list) \in Nat
        /\ \A i \in 1..Len(list) : long[i] = list[i]
        /\ long[Len(list) + 1] = x
    OBVIOUS
  <1> HIDE DEF long
  <1>2. \A i \in DOMAIN long : i \in DOMAIN list \/ i = Len(list) + 1
    BY <1>1
  <1>3. \A i \in DOMAIN list : i \in DOMAIN long
    BY <1>1
  <1>4. Len(list) + 1 \in DOMAIN long
    BY <1>1
  <1>5. Range(long) \subseteq Range(list) \cup {x}
    BY <1>1, <1>2 DEF Range
  <1>6. Range(list) \cup {x} \subseteq Range(long)
    BY <1>1, <1>3, <1>4 DEF Range
  <1> QED BY <1>1, <1>5, <1>6 DEF long

\* Creating an auction: its id is beyond the counter and so unused, unless the
\* counter was reset.
LEMMA CreateInv ==
    ASSUME IInv, NEW s \in Addr, NEW t \in Terms, CreateAuction(s, t)
    PROVE  IInv'
  <1> USE AuctionAssumption
  <1> DEFINE id == nonce + 1
             a == [auction_type |-> t.auction_type, seller |-> s,
                   reserve_price |-> t.reserve_price, start_time |-> now,
                   end_time |-> now + t.duration, status |-> "Active",
                   start_price |-> t.start_price, highest_bid |-> 0, highest_bidder |-> None,
                   min_bid_increment |-> t.min_bid_increment,
                   price_decrement |-> t.price_decrement,
                   decrement_interval |-> t.decrement_interval,
                   extension_window |-> t.extension_window]
  <1>0. TypeOK /\ id \in AuctionIds /\ nonce \in Nat
    BY Counters DEF CreateAuction, NextId
  <1>1. /\ auctions' = [auctions EXCEPT ![id] = a] /\ nonce' = id
        /\ UNCHANGED <<admin, bids, bidders, due, refunds, reset, now>>
    BY DEF CreateAuction, NextId, bidVars
  <1>2. a \in AuctionRec
    <2>1. now \in Nat /\ now + t.duration \in Nat
      BY Counters
    <2>2. t.reserve_price \in Nat /\ t.start_price \in Nat
      BY DEF CreateAuction, ValidateCreate
    <2> QED BY <2>1, <2>2 DEF AuctionRec, Status
  <1>3. /\ a.status = "Active" /\ a.highest_bidder = None
        /\ a.auction_type = "Dutch" => a.decrement_interval # 0
    BY DEF CreateAuction
  <1>4. ASSUME ~reset
        PROVE  Balanced(a, bids[id], refunds[id], due[id]) /\ Listed(a, bids[id], bidders[id])
    <2>1. /\ auctions[id].status = "Absent"
          /\ Balanced(auctions[id], bids[id], refunds[id], due[id])
          /\ Listed(auctions[id], bids[id], bidders[id])
      BY <1>0, <1>4 DEF IInv
    <2>2. bidders[id] = <<>> /\ \A b \in Addr : bids[id][b] = 0
      BY <2>1 DEF Listed
    <2>3. Listed(a, bids[id], bidders[id])
      BY <2>2, <1>3 DEF Listed, Range
    <2>4. \A b \in Addr : HeldOf(a, bids[id], b) = 0 /\ HeldOf(auctions[id], bids[id], b) = 0
      BY <2>1, <2>2, <1>3 DEF HeldOf, TopBidRefund
    <2> QED BY <2>1, <2>3, <2>4 DEF Balanced
  <1> HIDE DEF a
  <1>5. nonce' \in 0..MaxAuctions /\ nonce' >= nonce /\ nonce' >= id
    BY <1>0, <1>1 DEF AuctionIds
  <1> DEFINE bid == bids[id]
             list == bidders[id]
             refund == refunds[id]
             owed == due[id]
  <1>6. /\ bid \in [Addr -> Int] /\ list \in Seq(Addr)
        /\ refund \in [Addr -> Int] /\ owed \in [Addr -> Int]
        /\ bids' = [bids EXCEPT ![id] = bid] /\ bidders' = [bidders EXCEPT ![id] = list]
        /\ refunds' = [refunds EXCEPT ![id] = refund] /\ due' = [due EXCEPT ![id] = owed]
    BY <1>0, <1>1, EntryTypes
  <1>7. DutchOK(a) /\ a.status # "Absent"
    BY <1>3 DEF DutchOK
  <1>8. ~reset => Balanced(a, bid, refund, owed) /\ Listed(a, bid, list)
    BY <1>4
  <1>9. UNCHANGED <<admin, reset, now>>
    BY <1>1
  <1> HIDE DEF id, bid, list, refund, owed
  <1> QED BY <1>0, <1>1, <1>2, <1>5, <1>6, <1>7, <1>8, <1>9, OneAuction, ZenonT(60)

\* A bid in an English auction: the bid it replaces is refunded.
LEMMA EnglishBidInv ==
    ASSUME IInv, NEW c \in Addr, NEW id \in AuctionIds, NEW amount \in Amounts,
           PlaceBidEnglish(c, id, amount)
    PROVE  IInv'
  <1> USE AuctionAssumption
  <1> DEFINE a0 == auctions[id]
             a == [a0 EXCEPT !.highest_bid = amount, !.highest_bidder = c,
                             !.end_time = ExtendedEnd(a0)]
             bid == [bids[id] EXCEPT ![c] = amount]
             refund == [b \in Addr |-> refunds[id][b] + TopBidRefund(a0, b)]
             owed == [due[id] EXCEPT ![c] = @ + amount]
  <1>0. TypeOK /\ a0 \in AuctionRec /\ a0.status = "Active" /\ a0.auction_type = "English"
        /\ amount \in Int /\ now \in Nat /\ nonce \in 0..MaxAuctions
    BY Counters, EntryTypes DEF PlaceBidEnglish, IsOpen
  <1>1. /\ auctions' = [auctions EXCEPT ![id] = a] /\ bids' = [bids EXCEPT ![id] = bid]
        /\ refunds' = [refunds EXCEPT ![id] = refund] /\ due' = [due EXCEPT ![id] = owed]
        /\ UNCHANGED <<admin, nonce, bidders, reset, now>>
    BY <1>0, ZenonT(60) DEF PlaceBidEnglish, AddPendingRefunds, TypeOK
  <1>2. ExtendedEnd(a0) \in Nat
    BY <1>0 DEF ExtendedEnd, AuctionRec
  <1>3. /\ a \in AuctionRec /\ a.status = "Active" /\ a.auction_type = "English"
        /\ a.highest_bidder = c /\ a.highest_bid = amount
    <2> HIDE DEF a0
    <2> QED BY <1>0, <1>2 DEF AuctionRec
  <1>4. \A b \in Addr : TopBidRefund(a0, b) \in Int
    BY <1>0, TopBidType
  <1>5. refund \in [Addr -> Int] /\ bid \in [Addr -> Int] /\ owed \in [Addr -> Int]
    <2>1. /\ bids[id] \in [Addr -> Int] /\ refunds[id] \in [Addr -> Int]
          /\ due[id] \in [Addr -> Int]
      BY <1>0, EntryTypes
    <2>2. bid \in [Addr -> Int]
      BY <1>0, <2>1
    <2>3. refund \in [Addr -> Int]
      <3> HIDE DEF a0
      <3> QED BY <1>4, <2>1
    <2>4. owed \in [Addr -> Int]
      BY <1>0, <2>1
    <2> QED BY <2>2, <2>3, <2>4
  <1>6. ASSUME ~reset PROVE Balanced(a, bid, refund, owed) /\ Listed(a, bid, bidders[id])
    <2>1. Balanced(a0, bids[id], refunds[id], due[id])
      BY <1>6 DEF IInv
    <2>2. \A b \in Addr : /\ HeldOf(a0, bids[id], b) = TopBidRefund(a0, b)
                          /\ HeldOf(a, bid, b) = IF b = c THEN amount ELSE 0
      <3> HIDE DEF a, a0
      <3> QED BY <1>0, <1>3 DEF HeldOf, TopBidRefund
    <2>3. \A b \in Addr : owed[b] = due[id][b] + IF b = c THEN amount ELSE 0
      BY <1>0, EntryTypes
    <2>4. \A b \in Addr : due[id][b] \in Int /\ refunds[id][b] \in Int
      BY <1>0, EntryTypes
    <2>5. Balanced(a, bid, refund, owed)
      <3> HIDE DEF a, a0, bid, owed
      <3> QED BY <2>1, <2>2, <2>3, <2>4, <1>0, <1>4 DEF Balanced
    <2>6. Listed(a, bid, bidders[id])
      <3> HIDE DEF a
      <3> QED BY <1>3 DEF Listed
    <2> QED BY <2>5, <2>6
  <1> HIDE DEF a, bid, refund, owed
  <1>7. DutchOK(a) /\ a.status # "Absent"
    BY <1>3 DEF DutchOK
  <1>8. nonce' \in 0..MaxAuctions /\ nonce' >= nonce /\ (id > nonce /\ ~reset => FALSE)
    BY <1>0, <1>1 DEF IInv
  <1>9. bidders[id] \in Seq(Addr) /\ bidders' = [bidders EXCEPT ![id] = bidders[id]]
    BY <1>0, <1>1, EntryTypes
  <1> QED BY <1>1, <1>3, <1>5, <1>6, <1>7, <1>8, <1>9, OneAuction

\* A sealed bid: a raise is owed twice, once as the standing bid and once as
\* the difference credited.
LEMMA SealedBidInv ==
    ASSUME IInv, NEW c \in Addr, NEW id \in AuctionIds, NEW amount \in Amounts,
           PlaceBidSealed(c, id, amount)
    PROVE  IInv'
  <1> USE AuctionAssumption
  <1> DEFINE a0 == auctions[id]
             prev == bids[id][c]
             raise == IF prev = 0 THEN 0 ELSE amount - prev
             a == IF amount > a0.highest_bid
                    THEN [a0 EXCEPT !.highest_bid = amount, !.highest_bidder = c] ELSE a0
             bid == [bids[id] EXCEPT ![c] = amount]
             list == IF prev = 0 THEN Append(bidders[id], c) ELSE bidders[id]
             refund == [b \in Addr |-> refunds[id][b] + IF b = c THEN raise ELSE 0]
             owed == [due[id] EXCEPT ![c] = @ + (amount - prev) + raise]
  <1>0. /\ TypeOK /\ a0 \in AuctionRec /\ a0.status = "Active" /\ a0.auction_type = "SealedBid"
        /\ amount \in Int /\ amount # 0 /\ nonce \in 0..MaxAuctions
    <2>1. IsOpen(id) /\ a0.auction_type = "SealedBid"
      BY DEF PlaceBidSealed
    <2> QED BY <2>1, Counters, EntryTypes DEF IsOpen
  <1>1. /\ bids[id] \in [Addr -> Int] /\ bidders[id] \in Seq(Addr) /\ prev \in Int /\ raise \in Int
        /\ refunds[id] \in [Addr -> Int] /\ due[id] \in [Addr -> Int]
    BY <1>0, EntryTypes
  <1>2. /\ bids' = [bids EXCEPT ![id] = bid]
        /\ refunds' = [refunds EXCEPT ![id] = refund] /\ due' = [due EXCEPT ![id] = owed]
        /\ UNCHANGED <<admin, nonce, reset, now>>
    BY <1>0 DEF PlaceBidSealed, AddPendingRefunds, TypeOK
  <1>3. auctions' = [auctions EXCEPT ![id] = a]
    <2>1. CASE amount > a0.highest_bid
      BY <2>1, <1>0 DEF PlaceBidSealed, TypeOK
    <2>2. CASE ~(amount > a0.highest_bid)
      <3>1. auctions' = auctions /\ a = a0
        BY <2>2 DEF PlaceBidSealed
      <3> QED BY <3>1, <1>0, EntryTypes
    <2> QED BY <2>1, <2>2
  <1>4. bidders' = [bidders EXCEPT ![id] = list]
    BY <1>0, EntryTypes DEF PlaceBidSealed, TypeOK
  <1>5. a \in AuctionRec /\ a.status = "Active" /\ a.auction_type = "SealedBid"
    <2> HIDE DEF a0
    <2> QED BY <1>0 DEF AuctionRec
  <1>6. refund \in [Addr -> Int] /\ bid \in [Addr -> Int] /\ owed \in [Addr -> Int]
    <2> HIDE DEF prev, raise
    <2> QED BY <1>0, <1>1, SMTT(30)
  <1>7. list \in Seq(Addr) /\ (prev = 0 => Range(list) = Range(bidders[id]) \cup {c})
    <2> HIDE DEF prev
    <2> QED BY <1>1, RangeAppend
  <1>8. ASSUME ~reset PROVE Balanced(a, bid, refund, owed) /\ Listed(a, bid, list)
    <2>1. /\ Balanced(a0, bids[id], refunds[id], due[id])
          /\ Listed(a0, bids[id], bidders[id])
      BY <1>8 DEF IInv
    <2>2. \A b \in Addr : HeldOf(a0, bids[id], b) = bids[id][b] /\ HeldOf(a, bid, b) = bid[b]
      <3> HIDE DEF a, a0, bid
      <3> QED BY <1>0, <1>5 DEF HeldOf
    <2>3. \A b \in Addr : /\ bid[b] = IF b = c THEN amount ELSE bids[id][b]
                          /\ owed[b] = due[id][b] + IF b = c THEN amount - prev + raise ELSE 0
      <3> HIDE DEF prev, raise
      <3> QED BY <1>0, <1>1
    <2>4. \A b \in Addr : due[id][b] \in Int /\ refunds[id][b] \in Int /\ bids[id][b] \in Int
      BY <1>1
    <2>5. Balanced(a, bid, refund, owed)
      <3> SUFFICES ASSUME NEW b \in Addr PROVE refund[b] + bid[b] = owed[b]
        BY <2>2 DEF Balanced
      <3>1. refunds[id][b] + bids[id][b] = due[id][b]
        BY <2>1, <2>2 DEF Balanced
      <3>2. refund[b] = refunds[id][b] + IF b = c THEN raise ELSE 0
        OBVIOUS
      <3>3. b = c => bids[id][b] = prev
        OBVIOUS
      <3> HIDE DEF refund, bid, owed, raise, prev
      <3> QED BY <3>1, <3>2, <3>3, <2>3, <2>4, <1>0, <1>1
    <2>6. Listed(a, bid, list)
      <3>1. \A b \in Addr : bids[id][b] # 0 <=> b \in Range(bidders[id])
        BY <2>1, <1>0 DEF Listed
      <3>2. prev # 0 => list = bidders[id] /\ c \in Range(bidders[id])
        BY <3>1
      <3> HIDE DEF a, bid, list, prev
      <3> QED BY <3>1, <3>2, <2>3, <1>0, <1>5, <1>7 DEF Listed
    <2> QED BY <2>5, <2>6
  <1> HIDE DEF a, bid, list, refund, owed
  <1>9. DutchOK(a) /\ a.status # "Absent"
    BY <1>5 DEF DutchOK
  <1>10. nonce' \in 0..MaxAuctions /\ nonce' >= nonce /\ (~reset /\ id > nonce => FALSE)
    BY <1>0, <1>2 DEF IInv
  <1>11. UNCHANGED <<admin, reset, now>>
    BY <1>2
  <1> QED BY <1>2, <1>3, <1>4, <1>5, <1>6, <1>7, <1>8, <1>9, <1>10, <1>11, OneAuction

\* A Dutch purchase: the price is owed and held.
LEMMA BuyDutchInv ==
    ASSUME IInv, NEW c \in Addr, NEW id \in AuctionIds, BuyDutch(c, id)
    PROVE  IInv'
  <1> USE AuctionAssumption
  <1> DEFINE a0 == auctions[id]
             price == DutchPriceAt(a0, now)
             a == [a0 EXCEPT !.highest_bid = price, !.highest_bidder = c, !.status = "Settled"]
             owed == [due[id] EXCEPT ![c] = @ + price]
             bid == bids[id]
             list == bidders[id]
             refund == refunds[id]
  <1>0. /\ TypeOK /\ a0 \in AuctionRec /\ a0.status = "Active" /\ a0.auction_type = "Dutch"
        /\ now \in Nat /\ nonce \in 0..MaxAuctions
    BY Counters, EntryTypes DEF BuyDutch, IsOpen
  <1>1. price \in Int
    <2>1. a0.decrement_interval \in Nat \ {0}
      BY <1>0 DEF IInv, DutchOK, AuctionRec
    <2>2. (now - a0.start_time) \div a0.decrement_interval \in Int
      BY <1>0, <2>1 DEF AuctionRec
    <2>3. a0.price_decrement * ((now - a0.start_time) \div a0.decrement_interval) \in Int
      BY <1>0, <2>2 DEF AuctionRec
    <2> HIDE DEF a0
    <2> QED BY <1>0, <2>3 DEF DutchPriceAt, AuctionRec
  <1> HIDE DEF price
  <1>2. /\ auctions' = [auctions EXCEPT ![id] = a] /\ due' = [due EXCEPT ![id] = owed]
        /\ UNCHANGED <<admin, nonce, bids, bidders, refunds, reset, now>>
    BY <1>0 DEF BuyDutch, TypeOK, price
  <1>3. /\ a \in AuctionRec /\ a.status = "Settled" /\ a.auction_type = "Dutch"
        /\ a.highest_bidder = c /\ a.highest_bid = price
        /\ a.decrement_interval = a0.decrement_interval
    <2> HIDE DEF a0
    <2> QED BY <1>0, <1>1 DEF AuctionRec, Status
  <1>4. /\ bid \in [Addr -> Int] /\ list \in Seq(Addr)
        /\ refund \in [Addr -> Int] /\ due[id] \in [Addr -> Int]
        /\ bids' = [bids EXCEPT ![id] = bid] /\ bidders' = [bidders EXCEPT ![id] = list]
        /\ refunds' = [refunds EXCEPT ![id] = refund]
    BY <1>0, <1>2, EntryTypes
  <1>5. owed \in [Addr -> Int]
    BY <1>1, <1>4
  <1>6. ASSUME ~reset PROVE Balanced(a, bid, refund, owed) /\ Listed(a, bid, list)
    <2>1. Balanced(a0, bid, refund, due[id])
      BY <1>6 DEF IInv
    <2>2. \A b \in Addr : /\ HeldOf(a, bid, b) = IF b = c THEN price ELSE 0
                          /\ owed[b] = due[id][b] + IF b = c THEN price ELSE 0
      <3> HIDE DEF a
      <3> QED BY <1>1, <1>3, <1>4 DEF HeldOf, TopBidRefund
    <2>3. \A b \in Addr : HeldOf(a0, bid, b) = 0
      <3>1. a0.highest_bidder = None
        BY <1>0 DEF IInv, DutchOK
      <3> HIDE DEF a0
      <3> QED BY <3>1, <1>0 DEF HeldOf, TopBidRefund
    <2>4. Balanced(a, bid, refund, owed)
      BY <2>1, <2>2, <2>3, <1>1, <1>4 DEF Balanced
    <2>5. Listed(a, bid, list)
      <3> HIDE DEF a
      <3> QED BY <1>3 DEF Listed
    <2> QED BY <2>4, <2>5
  <1> HIDE DEF a, bid, list, refund, owed
  <1>7. DutchOK(a) /\ a.status # "Absent"
    BY <1>0, <1>3 DEF IInv, DutchOK
  <1>8. nonce' \in 0..MaxAuctions /\ nonce' >= nonce /\ (~reset /\ id > nonce => FALSE)
    BY <1>0, <1>2 DEF IInv
  <1>9. UNCHANGED <<admin, reset, now>>
    BY <1>2
  <1>10. ~reset => Balanced(a, bid, refund, owed) /\ Listed(a, bid, list)
    BY <1>6
  <1>11. auctions' = [auctions EXCEPT ![id] = a] /\ due' = [due EXCEPT ![id] = owed]
    BY <1>2
  <1>12. a \in AuctionRec
    BY <1>3
  <1> QED BY <1>4, <1>5, <1>7, <1>8, <1>9, <1>10, <1>11, <1>12, OneAuction

\* An auction that is closed without new bids: what was held is refunded,
\* except the price of a winner.
LEMMA CloseInv ==
    ASSUME IInv, NEW id \in AuctionIds, auctions[id].status = "Active",
           NEW a \in AuctionRec, NEW refund \in [Addr -> Int],
           auctions' = [auctions EXCEPT ![id] = a],
           refunds' = [refunds EXCEPT ![id] = refund],
           UNCHANGED <<admin, nonce, bidVars, reset, now>>,
           a.status \in {"Ended", "Settled", "Cancelled"},
           a.auction_type = auctions[id].auction_type,
           a.decrement_interval = auctions[id].decrement_interval,
           ~reset => \A b \in Addr : refund[b] + HeldOf(a, bids[id], b)
                        = refunds[id][b] + HeldOf(auctions[id], bids[id], b)
    PROVE  IInv'
  <1> DEFINE bid == bids[id]
             list == bidders[id]
             owed == due[id]
  <1>1. TypeOK /\ nonce \in 0..MaxAuctions
    BY Counters
  <1>2. UNCHANGED <<bids, bidders, due, admin, nonce, reset, now>>
    BY DEF bidVars
  <1>3. /\ bid \in [Addr -> Int] /\ list \in Seq(Addr) /\ owed \in [Addr -> Int]
        /\ bids' = [bids EXCEPT ![id] = bid] /\ bidders' = [bidders EXCEPT ![id] = list]
        /\ due' = [due EXCEPT ![id] = owed]
    BY <1>1, <1>2, EntryTypes
  <1>4. ~reset => Balanced(a, bid, refund, owed) /\ Listed(a, bid, list)
    BY DEF IInv, Balanced, Listed
  <1>5. DutchOK(a) /\ a.status # "Absent"
    BY DEF IInv, DutchOK
  <1>6. nonce' \in 0..MaxAuctions /\ nonce' >= nonce /\ (~reset /\ id > nonce => FALSE)
    BY <1>1, <1>2, AuctionAssumption DEF IInv
  <1>7. UNCHANGED <<admin, reset, now>>
    BY <1>2
  <1> HIDE DEF bid, list, owed
  <1> QED BY <1>3, <1>4, <1>5, <1>6, <1>7, OneAuction

\* What is refunded is a number.
LEMMA RefundType ==
    ASSUME TypeOK, NEW id \in AuctionIds, NEW b \in Addr
    PROVE  SealedRefund(id, b) \in Int /\ refunds[id][b] \in Int
  BY EntryTypes DEF SealedRefund

\* The bidders of a sealed-bid auction are refunded what is held of them.
LEMMA SealedRefundIsHeld ==
    ASSUME IInv, ~reset, NEW id \in AuctionIds, auctions[id].auction_type = "SealedBid",
           auctions[id].status = "Active", NEW b \in Addr
    PROVE  SealedRefund(id, b) = HeldOf(auctions[id], bids[id], b)
  BY DEF IInv, Listed, SealedRefund, HeldOf

\* The record of an auction that settles or ends.
FinishedRec(id, winner, bid) ==
    [auctions[id] EXCEPT !.status = IF winner = None THEN "Ended" ELSE "Settled",
                         !.highest_bidder = winner, !.highest_bid = bid]

\* What Finish writes.
LEMMA FinishWrites ==
    ASSUME TypeOK, NEW id \in AuctionIds, NEW winner \in Addr \cup {None}, NEW bid \in Int,
           Finish(id, winner, bid)
    PROVE  LET a == FinishedRec(id, winner, bid) IN
           /\ auctions' = [auctions EXCEPT ![id] = a]
           /\ UNCHANGED <<admin, nonce, bidVars, reset, now>>
           /\ a \in AuctionRec
           /\ a.status = IF winner = None THEN "Ended" ELSE "Settled"
           /\ a.highest_bidder = winner /\ a.highest_bid = bid
           /\ a.auction_type = auctions[id].auction_type
           /\ a.decrement_interval = auctions[id].decrement_interval
  <1> DEFINE status == IF winner = None THEN "Ended" ELSE "Settled"
             a0 == auctions[id]
             a == [a0 EXCEPT !.status = status, !.highest_bidder = winner, !.highest_bid = bid]
  <1>1. status \in Status
    BY DEF Status
  <1>2. a0 \in AuctionRec
    BY EntryTypes
  <1>3. auctions' = [auctions EXCEPT ![id] = a]
        /\ UNCHANGED <<admin, nonce, bidVars, reset, now>>
    BY DEF Finish, TypeOK
  <1>4. /\ a \in AuctionRec
        /\ a.status = status
        /\ a.highest_bidder = winner /\ a.highest_bid = bid
        /\ a.auction_type = a0.auction_type
        /\ a.decrement_interval = a0.decrement_interval
    <2> HIDE DEF a0, status
    <2> QED BY <1>1, <1>2 DEF AuctionRec
  <1>5. a = FinishedRec(id, winner, bid)
    BY DEF FinishedRec
  <1> HIDE DEF a
  <1> QED BY <1>3, <1>4, <1>5

\* Settling an English auction.
LEMMA SettleEnglishInv ==
    ASSUME IInv, NEW id \in AuctionIds, SettleEnglish(id)
    PROVE  IInv'
  <1> USE AuctionAssumption
  <1> DEFINE a0 == auctions[id]
             met == a0.highest_bid >= a0.reserve_price /\ a0.highest_bidder # None
  <1>0. TypeOK /\ a0 \in AuctionRec /\ a0.status = "Active" /\ a0.auction_type = "English"
    BY Counters, EntryTypes DEF SettleEnglish, IsOver
  <1>1. CASE met
    <2> DEFINE a == FinishedRec(id, a0.highest_bidder, a0.highest_bid)
               refund == refunds[id]
    <2>1. /\ Finish(id, a0.highest_bidder, a0.highest_bid) /\ refunds' = refunds
          /\ a0.highest_bidder # None
      BY <1>1 DEF SettleEnglish
    <2>2. a0.highest_bidder \in Addr \cup {None} /\ a0.highest_bid \in Int
      BY <1>0 DEF AuctionRec
    <2>3. /\ auctions' = [auctions EXCEPT ![id] = a]
          /\ UNCHANGED <<admin, nonce, bidVars, reset, now>>
          /\ a \in AuctionRec /\ a.status = "Settled" /\ a.auction_type = a0.auction_type
          /\ a.decrement_interval = a0.decrement_interval
          /\ a.highest_bidder = a0.highest_bidder /\ a.highest_bid = a0.highest_bid
      BY <1>0, <2>1, <2>2, FinishWrites
    <2>4. refund \in [Addr -> Int] /\ refunds' = [refunds EXCEPT ![id] = refund]
      BY <1>0, <2>1, EntryTypes
    <2>5. \A b \in Addr : HeldOf(a, bids[id], b) = HeldOf(a0, bids[id], b)
      <3> HIDE DEF a0, a
      <3> QED BY <1>0, <2>3 DEF HeldOf, TopBidRefund
    <2>6. \A b \in Addr : refund[b] + HeldOf(a, bids[id], b)
                        = refunds[id][b] + HeldOf(auctions[id], bids[id], b)
      BY <2>5
    <2> HIDE DEF a, refund
    <2> QED BY <1>0, <2>3, <2>4, <2>6, CloseInv
  <1>2. CASE ~met
    <2> DEFINE a == FinishedRec(id, None, 0)
               refund == [b \in Addr |-> refunds[id][b] + TopBidRefund(a0, b)]
    <2>1. Finish(id, None, 0) /\ AddPendingRefunds(id, [b \in Addr |-> TopBidRefund(a0, b)])
      BY <1>2 DEF SettleEnglish
    <2>2. refunds' = [refunds EXCEPT ![id] = refund]
      BY <2>1, <1>0, ZenonT(60) DEF AddPendingRefunds, TypeOK
    <2>3. /\ auctions' = [auctions EXCEPT ![id] = a]
          /\ UNCHANGED <<admin, nonce, bidVars, reset, now>>
          /\ a \in AuctionRec /\ a.status = "Ended" /\ a.auction_type = a0.auction_type
          /\ a.decrement_interval = a0.decrement_interval
      BY <1>0, <2>1, FinishWrites
    <2>4. \A b \in Addr : TopBidRefund(a0, b) \in Int /\ refunds[id][b] \in Int
      BY <1>0, TopBidType, RefundType
    <2>5. refund \in [Addr -> Int]
      BY <2>4
    <2>6. \A b \in Addr : /\ HeldOf(a, bids[id], b) = 0
                          /\ HeldOf(a0, bids[id], b) = TopBidRefund(a0, b)
      <3> HIDE DEF a0, a
      <3> QED BY <1>0, <2>3 DEF HeldOf
    <2>7. \A b \in Addr : refund[b] + HeldOf(a, bids[id], b)
                        = refunds[id][b] + HeldOf(auctions[id], bids[id], b)
      BY <2>4, <2>6
    <2> HIDE DEF a, refund
    <2> QED BY <1>0, <2>2, <2>3, <2>5, <2>7, CloseInv
  <1> QED BY <1>1, <1>2

\* The scan finds a listed bidder, or none.
LEMMA BestBidderType ==
    ASSUME TypeOK, NEW id \in AuctionIds
    PROVE  BestBidder(id) \in Addr \cup {None}
  <1> DEFINE list == bidders[id]
             amount(i) == bids[id][list[i]]
             best == {i \in DOMAIN list : \A j \in DOMAIN list :
                         amount(j) <= amount(i) /\ (j < i => amount(j) < amount(i))}
  <1>1. list \in Seq(Addr)
    BY EntryTypes
  <1>2. best # {} => (CHOOSE i \in best : TRUE) \in DOMAIN list
    BY Zenon
  <1>3. \A i \in DOMAIN list : list[i] \in Addr
    BY <1>1
  <1>4. BestBidder(id) = IF best = {} THEN None ELSE list[CHOOSE i \in best : TRUE]
    BY DEF BestBidder
  <1> HIDE DEF best, list
  <1> QED BY <1>2, <1>3, <1>4

\* Settling a sealed-bid auction.
LEMMA SettleSealedInv ==
    ASSUME IInv, NEW id \in AuctionIds, SettleSealed(id)
    PROVE  IInv'
  <1> USE AuctionAssumption
  <1> DEFINE a0 == auctions[id]
             best == BestBidder(id)
             met == best # None /\ bids[id][best] >= a0.reserve_price
             winner == IF met THEN best ELSE None
             price == IF met THEN bids[id][best] ELSE 0
             a == FinishedRec(id, winner, price)
             refund == [b \in Addr |-> refunds[id][b] + SealedLoserRefund(id, winner, b)]
  <1>0. TypeOK /\ a0 \in AuctionRec /\ a0.status = "Active" /\ a0.auction_type = "SealedBid"
    <2>1. IsOver(id) /\ a0.auction_type = "SealedBid"
      BY DEF SettleSealed
    <2> QED BY <2>1, Counters, EntryTypes DEF IsOver
  <1>1. /\ Finish(id, winner, price)
        /\ AddPendingRefunds(id, [b \in Addr |-> SealedLoserRefund(id, winner, b)])
    BY DEF SettleSealed
  <1>2. best \in Addr \cup {None} /\ (best # None => bids[id][best] \in Int)
    BY <1>0, BestBidderType, EntryTypes
  <1>3. /\ winner \in Addr \cup {None} /\ price \in Int
        /\ winner # None => price = bids[id][winner]
    <2> HIDE DEF best
    <2> QED BY <1>2
  <1> HIDE DEF winner, price
  <1>4. /\ auctions' = [auctions EXCEPT ![id] = a]
        /\ UNCHANGED <<admin, nonce, bidVars, reset, now>>
        /\ a \in AuctionRec /\ a.auction_type = a0.auction_type
        /\ a.status = IF winner = None THEN "Ended" ELSE "Settled"
        /\ a.decrement_interval = a0.decrement_interval
        /\ a.highest_bidder = winner /\ a.highest_bid = price
    BY <1>0, <1>1, <1>3, FinishWrites
  <1>5. refunds' = [refunds EXCEPT ![id] = refund]
    BY <1>1, <1>0 DEF AddPendingRefunds, TypeOK
  <1>6. \A b \in Addr : /\ SealedLoserRefund(id, winner, b) \in Int /\ refunds[id][b] \in Int
                        /\ SealedRefund(id, b) \in Int
    BY <1>0, RefundType DEF SealedLoserRefund
  <1>7. refund \in [Addr -> Int]
    BY <1>6
  <1>8. ASSUME ~reset, NEW b \in Addr
        PROVE  refund[b] + HeldOf(a, bids[id], b)
                 = refunds[id][b] + HeldOf(auctions[id], bids[id], b)
    <2>1. SealedRefund(id, b) = HeldOf(auctions[id], bids[id], b)
          /\ HeldOf(auctions[id], bids[id], b) = bids[id][b]
      BY <1>0, <1>8, SealedRefundIsHeld DEF HeldOf
    <2>2. refund[b] = refunds[id][b] + SealedLoserRefund(id, winner, b)
      OBVIOUS
    <2> HIDE DEF a, refund
    <2>3. CASE b = winner
      <3>1. HeldOf(a, bids[id], b) = bids[id][b] /\ SealedLoserRefund(id, winner, b) = 0
        BY <2>3, <1>0, <1>3, <1>4 DEF HeldOf, TopBidRefund, SealedLoserRefund
      <3> QED BY <3>1, <2>1, <2>2, <1>6
    <2>4. CASE b # winner
      <3>1. HeldOf(a, bids[id], b) = 0 /\ SealedLoserRefund(id, winner, b) = SealedRefund(id, b)
        BY <2>4, <1>0, <1>4 DEF HeldOf, TopBidRefund, SealedLoserRefund
      <3> QED BY <3>1, <2>1, <2>2, <1>6
    <2> QED BY <2>3, <2>4
  <1>9. a.status \in {"Ended", "Settled", "Cancelled"}
    BY <1>4
  <1>10. ~reset => \A b \in Addr : refund[b] + HeldOf(a, bids[id], b)
                      = refunds[id][b] + HeldOf(auctions[id], bids[id], b)
    BY <1>8
  <1> HIDE DEF a, refund
  <1> QED BY <1>0, <1>4, <1>5, <1>7, <1>9, <1>10, CloseInv

\* Cancelling, by the seller or the admin or in an emergency.
LEMMA CancelInv ==
    ASSUME IInv, NEW id \in AuctionIds, Cancel(id)
    PROVE  IInv'
  <1> USE AuctionAssumption
  <1> DEFINE a0 == auctions[id]
             a == [a0 EXCEPT !.status = "Cancelled"]
             back(b) == IF a0.auction_type = "SealedBid" THEN SealedRefund(id, b)
                        ELSE TopBidRefund(a0, b)
             refund == [b \in Addr |-> refunds[id][b] + back(b)]
  <1>0. TypeOK /\ a0 \in AuctionRec /\ a0.status = "Active"
    BY Counters, EntryTypes DEF Cancel, StillActive
  <1>1. /\ auctions' = [auctions EXCEPT ![id] = a]
        /\ UNCHANGED <<admin, nonce, bidVars, reset, now>>
    BY <1>0 DEF Cancel, TypeOK
  <1>2. refunds' = [refunds EXCEPT ![id] = refund]
    BY <1>0 DEF Cancel, RefundAllBids, AddPendingRefunds, TypeOK
  <1>3. /\ a \in AuctionRec /\ a.status = "Cancelled" /\ a.auction_type = a0.auction_type
        /\ a.decrement_interval = a0.decrement_interval
    <2> HIDE DEF a0
    <2> QED BY <1>0 DEF AuctionRec, Status
  <1>4. \A b \in Addr : back(b) \in Int /\ refunds[id][b] \in Int
    BY <1>0, RefundType, TopBidType
  <1>5. refund \in [Addr -> Int]
    <2> HIDE DEF back
    <2> QED BY <1>4
  <1>6. ASSUME ~reset, NEW b \in Addr
        PROVE  refund[b] + HeldOf(a, bids[id], b)
                 = refunds[id][b] + HeldOf(auctions[id], bids[id], b)
    <2>1. HeldOf(auctions[id], bids[id], b) = back(b)
      BY <1>0, <1>6, SealedRefundIsHeld DEF HeldOf
    <2>2. HeldOf(a, bids[id], b) = 0
      <3> HIDE DEF a
      <3> QED BY <1>3 DEF HeldOf
    <2>3. refund[b] = refunds[id][b] + back(b)
      OBVIOUS
    <2> HIDE DEF refund, back, a
    <2> QED BY <2>1, <2>2, <2>3, <1>4
  <1>7. ~reset => \A b \in Addr : refund[b] + HeldOf(a, bids[id], b)
                      = refunds[id][b] + HeldOf(auctions[id], bids[id], b)
    BY <1>6
  <1> HIDE DEF a, refund
  <1> QED BY <1>0, <1>1, <1>2, <1>3, <1>5, <1>7, CloseInv

\* The inductive invariant holds: entries are typed, refunds balance, and the
\* bidders listed are those with a bid.
THEOREM AuctionInvariant == Spec => []IInv
  <1> USE AuctionAssumption
  <1>1. Init => IInv
    <2> SUFFICES ASSUME Init PROVE IInv
      OBVIOUS
    <2>1. TypeOK
      <3>1. NoAuction \in AuctionRec
        BY DEF NoAuction, AuctionRec, Status
      <3>2. auctions \in [AuctionIds -> AuctionRec]
        <4> HIDE DEF AuctionRec, NoAuction
        <4> QED BY <3>1 DEF Init
      <3>3. bidders \in [AuctionIds -> Seq(Addr)]
        <4>1. <<>> \in Seq(Addr)
          OBVIOUS
        <4> QED BY <4>1 DEF Init
      <3>4. /\ bids \in [AuctionIds -> [Addr -> Int]]
            /\ refunds \in [AuctionIds -> [Addr -> Int]]
            /\ due \in [AuctionIds -> [Addr -> Int]]
        BY DEF Init
      <3>5. nonce \in 0..MaxAuctions /\ now \in Nat
        BY DEF Init, AuctionAssumption
      <3>6. admin \in Addr \cup {None} /\ reset \in BOOLEAN
        BY Zenon DEF Init
      <3> QED BY <3>2, <3>3, <3>4, <3>5, <3>6, Zenon DEF TypeOK, AuctionRec
    <2>2. \A id \in AuctionIds :
             /\ auctions[id].status = "Absent" /\ auctions[id].auction_type = "English"
             /\ bidders[id] = <<>>
             /\ \A b \in Addr : bids[id][b] = 0 /\ refunds[id][b] = 0 /\ due[id][b] = 0
      BY DEF Init, NoAuction
    <2>3. ~reset
      BY DEF Init
    <2> QED BY <2>1, <2>2, <2>3 DEF IInv, Balanced, Listed, DutchOK, HeldOf
  <1>2. IInv /\ [Next]_vars => IInv'
    <2> SUFFICES ASSUME IInv, [Next]_vars PROVE IInv'
      OBVIOUS
    <2>1. ASSUME NEW c \in Addr, Initialize(c) PROVE IInv'
      <3>1. TypeOK'
        BY <2>1 DEF Initialize, IInv, TypeOK, bidVars
      <3>2. admin' # None
        BY <2>1 DEF Initialize
      <3>3. ~reset' => ~reset /\ nonce' = nonce
        BY <2>1 DEF Initialize, IInv, TypeOK
      <3>4. UNCHANGED <<auctions, bids, bidders, due, refunds>>
        BY <2>1 DEF Initialize, bidVars
      <3> QED BY <3>1, <3>2, <3>3, <3>4
              DEF IInv, Balanced, Listed, DutchOK, HeldOf, TopBidRefund
    <2>2. ASSUME Tick PROVE IInv'
      <3>1. TypeOK'
        BY <2>2 DEF Tick, IInv, TypeOK, bidVars
      <3>2. UNCHANGED <<admin, nonce, reset, auctions, bids, bidders, due, refunds>>
        BY <2>2 DEF Tick, bidVars
      <3> QED BY <3>1, <3>2 DEF IInv, Balanced, Listed, DutchOK, HeldOf, TopBidRefund
    <2>3. ASSUME UNCHANGED vars PROVE IInv'
      BY <2>3 DEF vars, bidVars, IInv, TypeOK, Balanced, Listed, DutchOK, HeldOf, TopBidRefund
    <2> QED BY <2>1, <2>2, <2>3, CreateInv, EnglishBidInv, SealedBidInv, BuyDutchInv,
               SettleEnglishInv, SettleSealedInv, CancelInv
            DEF Next, CancelAuction, EmergencyCancel
  <1> QED BY <1>1, <1>2, PTL DEF Spec

\* Storage stays typed whatever terms, bids and orders of calls there are.
THEOREM AuctionTypeOK == Spec => []TypeOK
  <1>1. IInv => TypeOK
    BY DEF IInv
  <1> QED BY <1>1, AuctionInvariant, PTL

\* No bid is refunded twice and none is forgotten, for any number of auctions
\* and bidders.
THEOREM AuctionRefunds == Spec => []RefundsAreExact
  <1>1. IInv => RefundsAreExact
    BY DEF IInv, RefundsAreExact, Balanced, HeldOf, Held
  <1> QED BY <1>1, AuctionInvariant, PTL

\* A settled, ended or cancelled auction and its refunds never change.
THEOREM AuctionClosedIsFinal == Spec => ClosedIsFinal
  <1> DEFINE Frozen == \A id \in AuctionIds :
               auctions[id].status \in {"Ended", "Settled", "Cancelled"} /\ ~reset =>
                  auctions'[id] = auctions[id] /\ refunds'[id] = refunds[id]
  <1>1. IInv /\ [Next]_vars => [Frozen]_vars
    <2> SUFFICES ASSUME IInv, Next PROVE Frozen
      OBVIOUS
    <2>0. TypeOK /\ nonce \in Nat
      BY Counters
    <2>1. ASSUME NEW s \in Addr, NEW t \in Terms, CreateAuction(s, t) PROVE Frozen
      <3>1. ~reset => auctions[NextId].status = "Absent"
        BY <2>0, <2>1 DEF IInv, CreateAuction, NextId
      <3> QED BY <2>0, <2>1, <3>1 DEF CreateAuction, TypeOK
    <2>2. ASSUME NEW c \in Addr, NEW id \in AuctionIds, NEW amount \in Amounts,
                 PlaceBidEnglish(c, id, amount)
          PROVE  Frozen
      BY <2>0, <2>2 DEF PlaceBidEnglish, IsOpen, AddPendingRefunds, TypeOK
    <2>3. ASSUME NEW c \in Addr, NEW id \in AuctionIds, NEW amount \in Amounts,
                 PlaceBidSealed(c, id, amount)
          PROVE  Frozen
      <3>1. /\ IsOpen(id)
            /\ \A j \in AuctionIds : j # id => auctions'[j] = auctions[j] /\ refunds'[j] = refunds[j]
        BY <2>0, <2>3 DEF PlaceBidSealed, AddPendingRefunds, TypeOK
      <3> QED BY <3>1 DEF IsOpen
    <2>4. ASSUME NEW c \in Addr, NEW id \in AuctionIds, BuyDutch(c, id) PROVE Frozen
      BY <2>0, <2>4 DEF BuyDutch, IsOpen, TypeOK
    <2>5. ASSUME NEW id \in AuctionIds, SettleEnglish(id) PROVE Frozen
      <3>1. /\ IsOver(id)
            /\ \A j \in AuctionIds : j # id => auctions'[j] = auctions[j] /\ refunds'[j] = refunds[j]
        BY <2>0, <2>5 DEF SettleEnglish, Finish, AddPendingRefunds, TypeOK
      <3> QED BY <3>1 DEF IsOver
    <2>6. ASSUME NEW id \in AuctionIds, SettleSealed(id) PROVE Frozen
      <3>1. /\ IsOver(id)
            /\ \A j \in AuctionIds : j # id => auctions'[j] = auctions[j] /\ refunds'[j] = refunds[j]
        BY <2>0, <2>6 DEF SettleSealed, Finish, AddPendingRefunds, TypeOK
      <3> QED BY <3>1 DEF IsOver
    <2>7. ASSUME NEW id \in AuctionIds, Cancel(id) PROVE Frozen
      <3>1. /\ StillActive(id)
            /\ \A j \in AuctionIds : j # id => auctions'[j] = auctions[j] /\ refunds'[j] = refunds[j]
        BY <2>0, <2>7 DEF Cancel, RefundAllBids, AddPendingRefunds, TypeOK
      <3> QED BY <3>1 DEF StillActive
    <2>8. ASSUME NEW c \in Addr, Initialize(c) PROVE Frozen
      BY <2>8 DEF Initialize
    <2>9. ASSUME Tick PROVE Frozen
      BY <2>9 DEF Tick
    <2> HIDE DEF Frozen
    <2> QED BY <2>1, <2>2, <2>3, <2>4, <2>5, <2>6, <2>7, <2>8, <2>9
            DEF Next, CancelAuction, EmergencyCancel
  <1> QED BY <1>1, AuctionInvariant, PTL DEF Spec, ClosedIsFinal

\* The highest bid of an auction: no bid is negative, none stands above it in
\* an English auction with a sane increment, nobody bids in a Dutch one, and
\* a settled auction has a winner who met the reserve.
TopOK(a, bid) ==
    /\ \A b \in Addr : bid[b] >= 0
    /\ a.auction_type = "Dutch" => \A b \in Addr : bid[b] = 0
    /\ a.auction_type = "English" /\ a.status = "Active" /\ a.min_bid_increment >= 0 =>
            \A b \in Addr : bid[b] <= a.highest_bid
    /\ a.status = "Settled" =>
        /\ a.highest_bidder \in Addr /\ a.highest_bid >= a.reserve_price
        /\ a.min_bid_increment >= 0 => \A b \in Addr : bid[b] <= a.highest_bid

TopInv == ~reset => \A id \in AuctionIds : TopOK(auctions[id], bids[id])

\* A step that writes one auction.
LEMMA TopOne ==
    ASSUME IInv, TopInv, NEW id \in AuctionIds, NEW a, NEW bid,
           auctions' = [auctions EXCEPT ![id] = a], bids' = [bids EXCEPT ![id] = bid],
           reset' = reset, ~reset => TopOK(a, bid)
    PROVE  TopInv'
  <1>1. DOMAIN auctions = AuctionIds /\ DOMAIN bids = AuctionIds
    BY DEF IInv, TypeOK
  <1>2. \A j \in AuctionIds : /\ auctions'[j] = IF j = id THEN a ELSE auctions[j]
                              /\ bids'[j] = IF j = id THEN bid ELSE bids[j]
    BY <1>1
  <1> SUFFICES ASSUME ~reset, NEW j \in AuctionIds PROVE TopOK(auctions'[j], bids'[j])
    BY DEF TopInv
  <1>3. CASE j = id
    BY <1>2, <1>3
  <1>4. CASE j # id
    <2>1. TopOK(auctions[j], bids[j])
      BY DEF TopInv
    <2> QED BY <1>2, <1>4, <2>1
  <1> QED BY <1>3, <1>4

LEMMA TopCreate ==
    ASSUME IInv, TopInv, NEW s \in Addr, NEW t \in Terms, CreateAuction(s, t)
    PROVE  TopInv'
  <1> DEFINE id == nonce + 1
             bid == bids[id]
             a == [auction_type |-> t.auction_type, seller |-> s,
                   reserve_price |-> t.reserve_price, start_time |-> now,
                   end_time |-> now + t.duration, status |-> "Active",
                   start_price |-> t.start_price, highest_bid |-> 0, highest_bidder |-> None,
                   min_bid_increment |-> t.min_bid_increment,
                   price_decrement |-> t.price_decrement,
                   decrement_interval |-> t.decrement_interval,
                   extension_window |-> t.extension_window]
  <1>1. TypeOK /\ id \in AuctionIds /\ nonce \in Nat
    BY Counters DEF CreateAuction, NextId
  <1>2. auctions' = [auctions EXCEPT ![id] = a] /\ bids' = bids /\ reset' = reset
    BY DEF CreateAuction, NextId, bidVars
  <1>3. a.status = "Active" /\ a.highest_bid = 0
    OBVIOUS
  <1>4. ~reset => \A b \in Addr : bid[b] = 0
    <2>1. ~reset => auctions[id].status = "Absent" /\ Listed(auctions[id], bid, bidders[id])
      BY <1>1 DEF IInv
    <2> QED BY <2>1 DEF Listed
  <1>5. bids' = [bids EXCEPT ![id] = bid]
    BY <1>1, <1>2, EntryTypes
  <1> HIDE DEF a, bid, id
  <1>6. ~reset => TopOK(a, bid)
    BY <1>3, <1>4 DEF TopOK
  <1> QED BY <1>1, <1>2, <1>5, <1>6, TopOne

LEMMA TopEnglishBid ==
    ASSUME IInv, TopInv, NEW c \in Addr, NEW id \in AuctionIds, NEW amount \in Amounts,
           PlaceBidEnglish(c, id, amount)
    PROVE  TopInv'
  <1> DEFINE a0 == auctions[id]
             a == [a0 EXCEPT !.highest_bid = amount, !.highest_bidder = c,
                             !.end_time = ExtendedEnd(a0)]
             bid == [bids[id] EXCEPT ![c] = amount]
  <1>1. /\ TypeOK /\ a0 \in AuctionRec /\ a0.status = "Active" /\ a0.auction_type = "English"
        /\ amount \in Nat \ {0} /\ amount >= MinRequired(a0) /\ bids[id] \in [Addr -> Int]
    BY Counters, EntryTypes, AuctionAssumption DEF PlaceBidEnglish, IsOpen
  <1>2. auctions' = [auctions EXCEPT ![id] = a] /\ bids' = [bids EXCEPT ![id] = bid] /\ reset' = reset
    BY <1>1 DEF PlaceBidEnglish, TypeOK
  <1>3. /\ a.status = "Active" /\ a.auction_type = "English" /\ a.highest_bid = amount
        /\ a.min_bid_increment = a0.min_bid_increment
        /\ a0.highest_bid \in Int /\ a0.min_bid_increment \in Int
    <2> HIDE DEF a0
    <2> QED BY <1>1 DEF AuctionRec
  <1>4. \A b \in Addr : bid[b] = (IF b = c THEN amount ELSE bids[id][b]) /\ bids[id][b] \in Int
    BY <1>1
  <1> HIDE DEF a, bid, a0
  <1>5. a0.min_bid_increment >= 0 => amount >= a0.highest_bid
    BY <1>1, <1>3 DEF MinRequired
  <1>6. ASSUME ~reset PROVE TopOK(a, bid)
    <2>1. TopOK(a0, bids[id])
      BY <1>6 DEF TopInv, a0
    <2>2. \A b \in Addr : bid[b] >= 0
      BY <1>1, <1>4, <2>1 DEF TopOK
    <2>3. a.min_bid_increment >= 0 => \A b \in Addr : bid[b] <= a.highest_bid
      BY <1>1, <1>3, <1>4, <1>5, <2>1 DEF TopOK
    <2> QED BY <1>3, <2>2, <2>3 DEF TopOK
  <1> QED BY <1>2, <1>6, TopOne

LEMMA TopSealedBid ==
    ASSUME IInv, TopInv, NEW c \in Addr, NEW id \in AuctionIds, NEW amount \in Amounts,
           PlaceBidSealed(c, id, amount)
    PROVE  TopInv'
  <1> DEFINE a0 == auctions[id]
             a == IF amount > a0.highest_bid
                    THEN [a0 EXCEPT !.highest_bid = amount, !.highest_bidder = c] ELSE a0
             bid == [bids[id] EXCEPT ![c] = amount]
  <1>1. /\ TypeOK /\ a0 \in AuctionRec /\ a0.status = "Active" /\ a0.auction_type = "SealedBid"
        /\ amount \in Nat /\ bids[id] \in [Addr -> Int]
    <2>1. IsOpen(id) /\ a0.auction_type = "SealedBid"
      BY DEF PlaceBidSealed
    <2> QED BY <2>1, Counters, EntryTypes, AuctionAssumption DEF IsOpen
  <1>2. bids' = [bids EXCEPT ![id] = bid] /\ reset' = reset
    BY <1>1 DEF PlaceBidSealed, TypeOK
  <1>3. auctions' = [auctions EXCEPT ![id] = a]
    <2>1. CASE amount > a0.highest_bid
      BY <2>1, <1>1 DEF PlaceBidSealed, TypeOK
    <2>2. CASE ~(amount > a0.highest_bid)
      <3>1. auctions' = auctions /\ a = a0
        BY <2>2 DEF PlaceBidSealed
      <3> QED BY <3>1, <1>1, EntryTypes
    <2> QED BY <2>1, <2>2
  <1>4. a.status = "Active" /\ a.auction_type = "SealedBid"
    <2> HIDE DEF a0
    <2> QED BY <1>1 DEF AuctionRec
  <1>5. \A b \in Addr : bid[b] = (IF b = c THEN amount ELSE bids[id][b])
    BY <1>1
  <1> HIDE DEF a, bid
  <1>6. ASSUME ~reset PROVE TopOK(a, bid)
    <2>1. \A b \in Addr : bids[id][b] >= 0
      BY <1>6 DEF TopInv, TopOK
    <2> QED BY <1>1, <1>4, <1>5, <2>1 DEF TopOK
  <1> QED BY <1>2, <1>3, <1>6, TopOne

LEMMA TopDutch ==
    ASSUME IInv, TopInv, NEW c \in Addr, NEW id \in AuctionIds, BuyDutch(c, id)
    PROVE  TopInv'
  <1> DEFINE a0 == auctions[id]
             price == DutchPriceAt(a0, now)
             a == [a0 EXCEPT !.highest_bid = price, !.highest_bidder = c, !.status = "Settled"]
             bid == bids[id]
  <1>1. TypeOK /\ a0 \in AuctionRec /\ a0.status = "Active" /\ a0.auction_type = "Dutch" /\ now \in Nat
    BY Counters, EntryTypes DEF BuyDutch, IsOpen
  <1>2. price \in Int /\ price >= a0.reserve_price /\ a0.reserve_price \in Nat
    <2>1. a0.decrement_interval \in Nat \ {0}
      BY <1>1 DEF IInv, DutchOK, AuctionRec
    <2>2. (now - a0.start_time) \div a0.decrement_interval \in Int
      BY <1>1, <2>1 DEF AuctionRec
    <2>3. a0.price_decrement * ((now - a0.start_time) \div a0.decrement_interval) \in Int
      BY <1>1, <2>2 DEF AuctionRec
    <2> HIDE DEF a0
    <2> QED BY <1>1, <2>3 DEF DutchPriceAt, AuctionRec
  <1> HIDE DEF price
  <1>3. auctions' = [auctions EXCEPT ![id] = a] /\ bids' = bids /\ reset' = reset
    BY <1>1 DEF BuyDutch, TypeOK, price
  <1>4. /\ a.status = "Settled" /\ a.auction_type = "Dutch" /\ a.highest_bidder = c /\ a.highest_bid = price
        /\ a.reserve_price = a0.reserve_price
    <2> HIDE DEF a0
    <2> QED BY <1>1 DEF AuctionRec
  <1>5. bids' = [bids EXCEPT ![id] = bid]
    BY <1>1, <1>3, EntryTypes
  <1>6. ~reset => \A b \in Addr : bid[b] = 0
    BY <1>1 DEF TopInv, TopOK
  <1> HIDE DEF a, bid, a0
  <1>7. ~reset => TopOK(a, bid)
    BY <1>2, <1>4, <1>6 DEF TopOK
  <1> QED BY <1>3, <1>5, <1>7, TopOne

\* An auction that closes: what is left to show is that its winner met the
\* reserve and no bid is higher.
LEMMA TopClose ==
    ASSUME IInv, TopInv, NEW id \in AuctionIds, NEW winner \in Addr \cup {None}, NEW price \in Int,
           Finish(id, winner, price),
           ~reset /\ winner # None =>
              /\ price >= auctions[id].reserve_price
              /\ auctions[id].min_bid_increment >= 0 => \A b \in Addr : bids[id][b] <= price
    PROVE  TopInv'
  <1> DEFINE a0 == auctions[id]
             a == FinishedRec(id, winner, price)
             bid == bids[id]
  <1>1. TypeOK /\ a0 \in AuctionRec
    BY Counters, EntryTypes
  <1>2. /\ auctions' = [auctions EXCEPT ![id] = a] /\ UNCHANGED <<bidVars, reset>>
        /\ a.status = (IF winner = None THEN "Ended" ELSE "Settled")
        /\ a.highest_bidder = winner /\ a.highest_bid = price /\ a.auction_type = a0.auction_type
    BY <1>1, FinishWrites
  <1>3. a.min_bid_increment = a0.min_bid_increment /\ a.reserve_price = a0.reserve_price
    <2> HIDE DEF a0
    <2> QED BY <1>1 DEF AuctionRec, FinishedRec, a0
  <1>4. bids' = [bids EXCEPT ![id] = bid]
    BY <1>1, <1>2, EntryTypes DEF bidVars
  <1>5. winner # None => winner \in Addr
    OBVIOUS
  <1>6. ~reset => TopOK(a0, bid)
    BY DEF TopInv
  <1> HIDE DEF a
  <1>7. ~reset => TopOK(a, bid)
    BY <1>2, <1>3, <1>5, <1>6 DEF TopOK
  <1> QED BY <1>2, <1>4, <1>7, TopOne

LEMMA TopSettleEnglish == ASSUME IInv, TopInv, NEW id \in AuctionIds, SettleEnglish(id) PROVE TopInv'
  <1> DEFINE a0 == auctions[id]
             met == a0.highest_bid >= a0.reserve_price /\ a0.highest_bidder # None
             winner == IF met THEN a0.highest_bidder ELSE None
             price == IF met THEN a0.highest_bid ELSE 0
  <1>1. TypeOK /\ a0 \in AuctionRec /\ a0.status = "Active" /\ a0.auction_type = "English"
    BY Counters, EntryTypes DEF SettleEnglish, IsOver
  <1>2. Finish(id, winner, price)
    BY DEF SettleEnglish
  <1>3. winner \in Addr \cup {None} /\ price \in Int
    BY <1>1 DEF AuctionRec
  <1>4. ~reset /\ winner # None =>
              /\ price >= a0.reserve_price
              /\ a0.min_bid_increment >= 0 => \A b \in Addr : bids[id][b] <= price
    BY <1>1 DEF TopInv, TopOK
  <1> HIDE DEF winner, price
  <1> QED BY <1>2, <1>3, <1>4, TopClose

LEMMA TopSettleSealed == ASSUME IInv, TopInv, NEW id \in AuctionIds, SettleSealed(id) PROVE TopInv'
  <1> DEFINE a0 == auctions[id]
             list == bidders[id]
             amount(i) == bids[id][list[i]]
             tops == {i \in DOMAIN list : \A j \in DOMAIN list :
                         amount(j) <= amount(i) /\ (j < i => amount(j) < amount(i))}
             best == BestBidder(id)
             met == best # None /\ bids[id][best] >= a0.reserve_price
             winner == IF met THEN best ELSE None
             price == IF met THEN bids[id][best] ELSE 0
  <1>1. TypeOK /\ a0 \in AuctionRec /\ a0.status = "Active" /\ a0.auction_type = "SealedBid"
    <2>1. IsOver(id) /\ a0.auction_type = "SealedBid"
      BY DEF SettleSealed
    <2> QED BY <2>1, Counters, EntryTypes DEF IsOver
  <1>2. Finish(id, winner, price)
    BY DEF SettleSealed
  <1>3. bids[id] \in [Addr -> Int] /\ best \in Addr \cup {None} /\ (best # None => bids[id][best] \in Int)
    BY <1>1, BestBidderType, EntryTypes
  <1>4. ASSUME ~reset, best # None, NEW b \in Addr PROVE bids[id][b] <= bids[id][best]
    <2>1. best = IF tops = {} THEN None ELSE list[CHOOSE i \in tops : TRUE]
      BY DEF BestBidder
    <2>2. tops # {} => (CHOOSE i \in tops : TRUE) \in tops
      BY Zenon
    <2>3. PICK i \in tops : best = list[i]
      BY <1>4, <2>1, <2>2
    <2>4. \A j \in DOMAIN list : bids[id][list[j]] <= bids[id][best]
      BY <2>3
    <2>5. bids[id][best] >= 0 /\ (bids[id][b] # 0 => b \in Range(list))
      BY <1>1, <1>3, <1>4 DEF IInv, Listed, TopInv, TopOK
    <2> HIDE DEF tops, best, list
    <2> QED BY <1>3, <2>4, <2>5 DEF Range
  <1>5. winner \in Addr \cup {None} /\ price \in Int
    <2> HIDE DEF best
    <2> QED BY <1>3
  <1>6. ~reset /\ winner # None => /\ price >= a0.reserve_price
                                   /\ \A b \in Addr : bids[id][b] <= price
    <2> HIDE DEF best
    <2> QED BY <1>4
  <1> HIDE DEF winner, price
  <1> QED BY <1>2, <1>5, <1>6, TopClose

LEMMA TopCancel == ASSUME IInv, TopInv, NEW id \in AuctionIds, Cancel(id) PROVE TopInv'
  <1> DEFINE a0 == auctions[id]
             a == [a0 EXCEPT !.status = "Cancelled"]
             bid == bids[id]
  <1>1. TypeOK /\ a0 \in AuctionRec
    BY Counters, EntryTypes
  <1>2. auctions' = [auctions EXCEPT ![id] = a] /\ bids' = bids /\ reset' = reset
    BY <1>1 DEF Cancel, TypeOK, bidVars
  <1>3. bids' = [bids EXCEPT ![id] = bid]
    BY <1>1, <1>2, EntryTypes
  <1>4. a.status = "Cancelled" /\ a.auction_type = a0.auction_type
    <2> HIDE DEF a0
    <2> QED BY <1>1 DEF AuctionRec
  <1>5. ~reset => TopOK(a0, bid)
    BY DEF TopInv
  <1> HIDE DEF a
  <1>6. ~reset => TopOK(a, bid)
    BY <1>4, <1>5 DEF TopOK
  <1> QED BY <1>2, <1>3, <1>6, TopOne

LEMMA TopInvNext == IInv /\ TopInv /\ [Next]_vars => TopInv'
  <1> SUFFICES ASSUME IInv, TopInv, [Next]_vars PROVE TopInv'
    OBVIOUS
  <1>1. ASSUME NEW c \in Addr, Initialize(c) PROVE TopInv'
    <2>1. UNCHANGED <<auctions, bids>> /\ (~reset' => ~reset)
      BY <1>1 DEF Initialize, bidVars, IInv
    <2> QED BY <2>1 DEF TopInv
  <1>2. CASE Tick \/ UNCHANGED vars
    <2>1. UNCHANGED <<auctions, bids, reset>>
      BY <1>2 DEF Tick, vars, bidVars
    <2> QED BY <2>1 DEF TopInv
  <1> QED BY <1>1, <1>2, TopCreate, TopEnglishBid, TopSealedBid, TopDutch, TopSettleEnglish, TopSettleSealed,
             TopCancel DEF Next, CancelAuction, EmergencyCancel

\* A settled auction went to a bidder who met the reserve, and no bid stood
\* above the winning one (auction.rs, settle_auction and buy_dutch).
THEOREM AuctionSettled == Spec => []SettledToHighest
  <1>1. Init => TopInv
    BY DEF Init, NoAuction, TopInv, TopOK
  <1>2. TopInv => SettledToHighest
    BY DEF TopInv, TopOK, SettledToHighest
  <1> QED BY <1>1, <1>2, TopInvNext, AuctionInvariant, PTL DEF Spec

-----------------------------------------------------------------------------
(* Escrow                                                                  *)

EscrowRecord ==
    [buyer : Addr, seller : Addr, amount : Int, release_deadline : EscDeadlines,
     status : {"Active", "Disputed", "Released", "Resolved"}]

EscrowTypeOK ==
    /\ escAdmin \in Addr \cup {None}
    /\ escNextId \in Nat \ {0}
    /\ escEscrows \in [Esc!EscrowIds -> EscrowRecord \cup {Esc!NoEscrow}]
    /\ escReplaced \in Int
    /\ escBalance \in [Esc!Accounts -> Int]

EscrowInv == EscrowTypeOK /\ Esc!CustodyIsExact

\* The sums of the escrow module are those of Sums.
LEMMA EscrowSum == ASSUME NEW f PROVE Esc!SumFunction(f) = SumFunctionOnSet(f, DOMAIN f)
  BY DEF Esc!SumFunction, Esc!SumFunctionOnSet, Esc!FoldFunctionOnSet, Esc!MapThenFoldSet,
         SumFunctionOnSet, FoldFunctionOnSet, MapThenFoldSet

\* What an escrow locks.
LockedBy(e) == IF Esc!IsLocked(e) THEN e.amount ELSE 0

\* A call that writes one escrow keeps custody exact if the contract's balance
\* moves by what the escrow locks more, and by what is stranded.
LEMMA EscrowWrite ==
    ASSUME EscrowInv, NEW id \in Esc!EscrowIds, NEW e \in EscrowRecord,
           escEscrows' = [escEscrows EXCEPT ![id] = e],
           escAdmin' \in Addr \cup {None}, escNextId' \in Nat \ {0},
           escReplaced' \in Int, escBalance' \in [Esc!Accounts -> Int],
           escBalance'[Self] - escBalance[Self]
              = (escReplaced' - escReplaced) + (LockedBy(e) - LockedBy(escEscrows[id]))
    PROVE  EscrowInv'
  <1> DEFINE f == Esc!LockedIn
             g == Esc!LockedIn'
  <1>1. escEscrows \in [Esc!EscrowIds -> EscrowRecord \cup {Esc!NoEscrow}]
    BY DEF EscrowInv, EscrowTypeOK
  <1>2. /\ EscrowTypeOK'
        /\ escEscrows'[id] = e
        /\ \A i \in Esc!EscrowIds : i # id => escEscrows'[i] = escEscrows[i]
    BY <1>1 DEF EscrowTypeOK
  <1>3. \A x \in EscrowRecord \cup {Esc!NoEscrow} : LockedBy(x) \in Int
    BY DEF EscrowRecord, Esc!NoEscrow, LockedBy, Esc!IsLocked
  <1>4. \A i \in Esc!EscrowIds : f[i] = LockedBy(escEscrows[i]) /\ g[i] = LockedBy(escEscrows'[i])
    BY DEF Esc!LockedIn, LockedBy
  <1>5. \A i \in Esc!EscrowIds : f[i] \in Int /\ g[i] \in Int /\ (i # id => g[i] = f[i])
    <2> HIDE DEF f, g
    <2> QED BY <1>1, <1>2, <1>3, <1>4
  <1>6. IsFiniteSet(Esc!EscrowIds)
    BY EscrowAssumption, FS_Interval DEF Esc!EscrowIds
  <1>6a. DOMAIN f = Esc!EscrowIds /\ DOMAIN g = Esc!EscrowIds
    BY DEF Esc!LockedIn
  <1> HIDE DEF f, g
  <1>7. /\ SumFunctionOnSet(g, Esc!EscrowIds) = SumFunctionOnSet(f, Esc!EscrowIds) + (g[id] - f[id])
        /\ SumFunctionOnSet(f, Esc!EscrowIds) \in Int
    <2>1. DifferAt(f, g, id, Esc!EscrowIds)
      BY <1>5, <1>6 DEF DifferAt
    <2> QED BY <1>5, <1>6, <2>1, SumUpdate, SumInt
  <1>8. escBalance[Self] = escReplaced + SumFunctionOnSet(f, Esc!EscrowIds)
    BY <1>6a, EscrowSum DEF EscrowInv, Esc!CustodyIsExact, f
  <1>9. Self \in Esc!Accounts
    BY DEF Esc!Accounts
  <1>10. /\ escBalance[Self] \in Int /\ escBalance'[Self] \in Int
         /\ escReplaced \in Int /\ escReplaced' \in Int
    BY <1>2, <1>9 DEF EscrowInv, EscrowTypeOK
  <1>11. escBalance'[Self] = escReplaced' + SumFunctionOnSet(g, Esc!EscrowIds)
    <2> DEFINE F == SumFunctionOnSet(f, Esc!EscrowIds)
               G == SumFunctionOnSet(g, Esc!EscrowIds)
    <2>1. /\ G = F + (LockedBy(e) - LockedBy(escEscrows[id])) /\ F \in Int
          /\ LockedBy(e) \in Int /\ LockedBy(escEscrows[id]) \in Int
      BY <1>1, <1>2, <1>3, <1>4, <1>7
    <2>2. escBalance[Self] = escReplaced + F
      BY <1>8
    <2> DEFINE new == LockedBy(e)
               old == LockedBy(escEscrows[id])
    <2>3. escBalance'[Self] - escBalance[Self] = (escReplaced' - escReplaced) + (new - old)
      OBVIOUS
    <2>4. G = F + (new - old) /\ F \in Int /\ new \in Int /\ old \in Int
      BY <2>1
    <2> HIDE DEF F, G, new, old
    <2>5. escBalance'[Self] = escReplaced' + G
      BY <1>10, <2>2, <2>3, <2>4
    <2> QED BY <2>5 DEF G
  <1>12. Esc!SumFunction(Esc!LockedIn)' = SumFunctionOnSet(g, Esc!EscrowIds)
    BY <1>6a, EscrowSum DEF g
  <1>13. Esc!CustodyIsExact'
    BY <1>11, <1>12 DEF Esc!CustodyIsExact
  <1> QED BY <1>2, <1>13 DEF EscrowInv

\* What a payment out of the contract, or into it, does to the balances.
LEMMA TransferMoves ==
    ASSUME EscrowTypeOK, NEW from \in Esc!Accounts, NEW to \in Esc!Accounts, from # to,
           NEW amount \in Int, Esc!Transfer(from, to, amount)
    PROVE  /\ escBalance' \in [Esc!Accounts -> Int]
           /\ escBalance'[from] = escBalance[from] - amount
           /\ escBalance'[to] = escBalance[to] + amount
  BY DEF Esc!Transfer, EscrowTypeOK

\* Paying a locked escrow out to an account closes it.
LEMMA PayKeepsCustody ==
    ASSUME EscrowInv, NEW id \in Esc!EscrowIds, Esc!IsLocked(escEscrows[id]), NEW to \in Addr,
           NEW status \in {"Released", "Resolved"}, Esc!Pay(id, to, status)
    PROVE  EscrowInv'
  <1> DEFINE e == [escEscrows[id] EXCEPT !.status = status]
  <1>1. EscrowTypeOK /\ escEscrows[id] \in EscrowRecord
    BY DEF EscrowInv, EscrowTypeOK, Esc!IsLocked, Esc!NoEscrow
  <1>2. /\ e \in EscrowRecord /\ LockedBy(e) = 0
        /\ escEscrows[id].amount \in Int
        /\ LockedBy(escEscrows[id]) = escEscrows[id].amount
    BY <1>1 DEF EscrowRecord, LockedBy, Esc!IsLocked
  <1>3. /\ escEscrows' = [escEscrows EXCEPT ![id] = e]
        /\ Esc!Transfer(Self, to, escEscrows[id].amount)
        /\ UNCHANGED <<escAdmin, escNextId, escReplaced>>
    BY <1>1 DEF Esc!Pay, EscrowTypeOK
  <1>4. Self \in Esc!Accounts /\ to \in Esc!Accounts /\ Self # to
    BY EscrowAssumption DEF Esc!Accounts
  <1>5. /\ escBalance' \in [Esc!Accounts -> Int]
        /\ escBalance'[Self] = escBalance[Self] - escEscrows[id].amount
    BY <1>1, <1>2, <1>3, <1>4, TransferMoves
  <1>6. /\ escAdmin' \in Addr \cup {None} /\ escNextId' \in Nat \ {0} /\ escReplaced' \in Int
        /\ escReplaced' = escReplaced /\ escReplaced \in Int /\ escBalance[Self] \in Int
    BY <1>1, <1>3, <1>4 DEF EscrowTypeOK
  <1>7. escBalance'[Self] - escBalance[Self]
          = (escReplaced' - escReplaced) + (LockedBy(e) - LockedBy(escEscrows[id]))
    BY <1>2, <1>5, <1>6
  <1> HIDE DEF e
  <1> QED BY <1>2, <1>3, <1>5, <1>6, <1>7, EscrowWrite

\* Creating an escrow locks the buyer's funds, and strands those of an escrow
\* whose id it takes.
LEMMA CreateKeepsCustody ==
    ASSUME EscrowInv, NEW c \in Addr, NEW s \in Addr, NEW amount \in EscAmounts,
           NEW d \in EscDeadlines, Esc!CreateEscrow(c, s, amount, d)
    PROVE  EscrowInv'
  <1> DEFINE e == [buyer |-> c, seller |-> s, amount |-> amount, release_deadline |-> d,
                   status |-> "Active"]
             stranded == LockedBy(escEscrows[escNextId])
  <1>1. /\ escNextId \in Esc!EscrowIds
        /\ Esc!Transfer(c, Self, amount)
        /\ escEscrows' = [escEscrows EXCEPT ![escNextId] = e]
        /\ escReplaced' = escReplaced + stranded
        /\ escNextId' = escNextId + 1
        /\ escAdmin' = escAdmin
    BY DEF Esc!CreateEscrow, Esc!Lock, LockedBy
  <1>2. amount \in Int /\ c \in Esc!Accounts /\ Self \in Esc!Accounts /\ c # Self
    BY EscrowAssumption DEF Esc!Accounts
  <1>3. e \in EscrowRecord /\ LockedBy(e) = amount
    BY <1>2 DEF EscrowRecord, LockedBy, Esc!IsLocked
  <1>4. EscrowTypeOK
    BY DEF EscrowInv
  <1>5. /\ escBalance' \in [Esc!Accounts -> Int]
        /\ escBalance'[Self] = escBalance[Self] + amount
    BY <1>1, <1>2, <1>4, TransferMoves
  <1>6. stranded \in Int
    <2>1. escEscrows[escNextId] \in EscrowRecord \cup {Esc!NoEscrow}
      BY <1>1, <1>4 DEF EscrowTypeOK
    <2> QED BY <2>1 DEF EscrowRecord, Esc!NoEscrow, LockedBy, Esc!IsLocked
  <1>7. /\ escAdmin' \in Addr \cup {None} /\ escNextId' \in Nat \ {0}
        /\ escReplaced \in Int /\ escBalance[Self] \in Int
    BY <1>1, <1>2, <1>4 DEF EscrowTypeOK
  <1> HIDE DEF e, stranded
  <1>8. /\ escReplaced' \in Int
        /\ escBalance'[Self] - escBalance[Self] = (escReplaced' - escReplaced) + (LockedBy(e) - stranded)
    BY <1>1, <1>2, <1>3, <1>5, <1>6, <1>7
  <1> QED BY <1>1, <1>3, <1>5, <1>7, <1>8, EscrowWrite DEF stranded

LEMMA EscrowInvInit == Esc!Init => EscrowInv
  <1> SUFFICES ASSUME Esc!Init PROVE EscrowInv
    OBVIOUS
  <1>1. EscrowTypeOK
    BY EscrowAssumption DEF Esc!Init, EscrowTypeOK, Esc!Accounts
  <1>2. IsFiniteSet(Esc!EscrowIds)
    BY EscrowAssumption, FS_Interval DEF Esc!EscrowIds
  <1>3. \A i \in Esc!EscrowIds : Esc!LockedIn[i] = 0
    BY DEF Esc!Init, Esc!LockedIn, Esc!IsLocked, Esc!NoEscrow
  <1>4. SumFunctionOnSet(Esc!LockedIn, Esc!EscrowIds) = 0
    BY <1>2, <1>3, SumZero
  <1>5. escBalance[Self] = 0 /\ escReplaced = 0
    BY DEF Esc!Init, Esc!Accounts
  <1>6. DOMAIN Esc!LockedIn = Esc!EscrowIds
    BY DEF Esc!LockedIn
  <1> QED BY <1>1, <1>4, <1>5, <1>6, EscrowSum DEF EscrowInv, Esc!CustodyIsExact

LEMMA EscrowInvNext == EscrowInv /\ [Esc!Next]_(Esc!vars) => EscrowInv'
  <1> SUFFICES ASSUME EscrowInv, [Esc!Next]_(Esc!vars) PROVE EscrowInv'
    OBVIOUS
  <1>1. ASSUME UNCHANGED <<escEscrows, escReplaced, escBalance>>,
               escAdmin' \in Addr \cup {None}, escNextId' \in Nat \ {0}
        PROVE  EscrowInv'
    <2>1. Esc!LockedIn' = Esc!LockedIn
      BY <1>1 DEF Esc!LockedIn
    <2>2. Esc!SumFunction(Esc!LockedIn)' = Esc!SumFunction(Esc!LockedIn)
      BY <2>1 DEF Esc!SumFunction, Esc!SumFunctionOnSet, Esc!FoldFunctionOnSet, Esc!MapThenFoldSet
    <2> QED BY <1>1, <2>2 DEF EscrowInv, EscrowTypeOK, Esc!CustodyIsExact
  <1>2. escAdmin \in Addr \cup {None} /\ escNextId \in Nat \ {0}
    BY DEF EscrowInv, EscrowTypeOK
  <1>3. ASSUME NEW c \in Addr, Esc!Initialize(c) PROVE EscrowInv'
    BY <1>1, <1>3 DEF Esc!Initialize
  <1>4. ASSUME NEW id \in Esc!EscrowIds, Esc!IsLocked(escEscrows[id])
        PROVE  escEscrows[id] \in EscrowRecord
    BY <1>4 DEF EscrowInv, EscrowTypeOK, Esc!IsLocked, Esc!NoEscrow
  <1>5. ASSUME NEW id \in Esc!EscrowIds, Esc!IsLocked(escEscrows[id])
        PROVE  escEscrows[id].buyer \in Addr /\ escEscrows[id].seller \in Addr
    BY <1>4, <1>5 DEF EscrowRecord
  <1>6. ASSUME NEW c \in Addr, NEW id \in Esc!EscrowIds, Esc!Release(c, id) PROVE EscrowInv'
    BY <1>5, <1>6, PayKeepsCustody DEF Esc!Release, Esc!IsActive, Esc!IsLocked
  <1>7. ASSUME NEW c \in Addr, NEW id \in Esc!EscrowIds, Esc!ClaimExpired(c, id) PROVE EscrowInv'
    BY <1>5, <1>7, PayKeepsCustody DEF Esc!ClaimExpired, Esc!IsActive, Esc!IsLocked
  <1>8. ASSUME NEW c \in Addr, NEW id \in Esc!EscrowIds, NEW toSeller \in BOOLEAN,
               Esc!ResolveDispute(c, id, toSeller)
        PROVE  EscrowInv'
    <2>1. Esc!IsLocked(escEscrows[id])
      BY <1>8 DEF Esc!ResolveDispute, Esc!IsLocked
    <2> QED BY <1>5, <1>8, <2>1, PayKeepsCustody DEF Esc!ResolveDispute
  <1>9. ASSUME NEW c \in Addr, NEW id \in Esc!EscrowIds, Esc!RaiseDispute(c, id) PROVE EscrowInv'
    <2> DEFINE e == [escEscrows[id] EXCEPT !.status = "Disputed"]
    <2>1. escEscrows[id].status = "Active"
      BY <1>9 DEF Esc!RaiseDispute, Esc!IsActive
    <2>2. escEscrows[id] \in EscrowRecord
      BY <1>4, <2>1 DEF Esc!IsLocked
    <2>3. e \in EscrowRecord /\ LockedBy(e) = LockedBy(escEscrows[id]) /\ LockedBy(e) \in Int
      BY <2>1, <2>2 DEF EscrowRecord, LockedBy, Esc!IsLocked
    <2>4. /\ escEscrows' = [escEscrows EXCEPT ![id] = e]
          /\ UNCHANGED <<escAdmin, escNextId, escReplaced, escBalance>>
      BY <1>9 DEF Esc!RaiseDispute, EscrowInv, EscrowTypeOK
    <2>5. /\ escReplaced' \in Int /\ escBalance' \in [Esc!Accounts -> Int]
          /\ escReplaced \in Int /\ escBalance[Self] \in Int
      BY <2>4 DEF EscrowInv, EscrowTypeOK, Esc!Accounts
    <2> HIDE DEF e
    <2>6. escBalance'[Self] - escBalance[Self]
            = (escReplaced' - escReplaced) + (LockedBy(e) - LockedBy(escEscrows[id]))
      BY <2>3, <2>4, <2>5
    <2> QED BY <1>2, <2>3, <2>4, <2>5, <2>6, EscrowWrite
  <1>10. ASSUME Esc!Tick PROVE EscrowInv'
    BY <1>1, <1>2, <1>10 DEF Esc!Tick
  <1>11. ASSUME UNCHANGED Esc!vars PROVE EscrowInv'
    BY <1>1, <1>2, <1>11 DEF Esc!vars
  <1> QED
    BY <1>3, <1>6, <1>7, <1>8, <1>9, <1>10, <1>11, CreateKeepsCustody DEF Esc!Next

(***************************************************************************)
(* However many escrows there are and however often initialize starts the  *)
(* ids again, the contract's balance is what its open escrows lock, plus   *)
(* what was stranded.                                                      *)
(***************************************************************************)
THEOREM EscrowCustody == Esc!Spec => []EscrowCustodyIsExact
  <1>1. EscrowInv => EscrowCustodyIsExact
    BY DEF EscrowInv, EscrowCustodyIsExact
  <1> QED BY <1>1, EscrowInvInit, EscrowInvNext, PTL DEF Esc!Spec

-----------------------------------------------------------------------------
(* The liquidity pool                                                      *)

\* The sums of the pool's module are those of Sums.
LEMMA PoolSum ==
    ASSUME NEW f
    PROVE  /\ Pool!SumFunction(f) = SumFunctionOnSet(f, DOMAIN f)
           /\ \A S : Pool!SumFunctionOnSet(f, S) = SumFunctionOnSet(f, S)
  BY DEF Pool!SumFunction, Pool!SumFunctionOnSet, Pool!FoldFunctionOnSet, Pool!MapThenFoldSet,
         SumFunctionOnSet, FoldFunctionOnSet, MapThenFoldSet

\* Products keep the order of natural factors.
LEMMA ProductOrder ==
    ASSUME NEW x \in Int, NEW y \in Nat, NEW u \in Int, NEW v \in Nat, x >= y, u >= v
    PROVE  x * u >= y * v
  <1>1. x * u >= y * u
    OBVIOUS
  <1>2. y * u >= y * v
    OBVIOUS
  <1>3. x * u \in Int /\ y * u \in Int /\ y * v \in Int
    OBVIOUS
  <1> QED BY <1>1, <1>2, <1>3

\* The product of the reserves per squared token does not fall from x to y.
KeepsShareValue(x, y) ==
    x.lp > 0 /\ y.lp > 0 => y.a * y.b * x.lp * x.lp >= x.a * x.b * y.lp * y.lp

\* It is enough that neither reserve per token falls.
LEMMA ReservesPerToken ==
    ASSUME NEW a \in Nat, NEW b \in Nat, NEW lp \in Nat, NEW c \in Nat, NEW d \in Nat, NEW lq \in Nat,
           c * lp >= a * lq, d * lp >= b * lq
    PROVE  c * d * lp * lp >= a * b * lq * lq
  <1>1. a * lq \in Nat /\ b * lq \in Nat /\ c * lp \in Nat /\ d * lp \in Nat
    OBVIOUS
  <1>2. (c * lp) * (d * lp) >= (a * lq) * (b * lq)
    BY <1>1, ProductOrder
  <1>3. (c * lp) * (d * lp) = c * d * lp * lp /\ (a * lq) * (b * lq) = a * b * lq * lq
    OBVIOUS
  <1> QED BY <1>2, <1>3

LEMMA DepositPerToken ==
    ASSUME NEW a \in Nat, a > 0, NEW lp \in Nat, NEW d \in Nat, NEW n \in Nat, n <= (d * lp) \div a
    PROVE  (a + d) * lp >= a * (lp + n)
  <1>1. d * lp \in Nat
    OBVIOUS
  <1> DEFINE m == d * lp
             k == m \div a
  <1>2. k \in Nat /\ m - a * k >= 0
    <2> HIDE DEF m
    <2> QED BY <1>1, QuotientBounds DEF m
  <1>3. n <= k
    OBVIOUS
  <1> HIDE DEF k
  <1>4. a * n <= a * k
    BY <1>2, <1>3
  <1>5. a * n \in Nat /\ a * k \in Nat /\ m \in Nat /\ a * lp \in Nat
    BY <1>1, <1>2
  <1>6. a * n <= m
    <2> HIDE DEF m
    <2> QED BY <1>2, <1>4, <1>5
  <1>7. (a + d) * lp = a * lp + m /\ a * (lp + n) = a * lp + a * n
    OBVIOUS
  <1> HIDE DEF m
  <1> QED BY <1>5, <1>6, <1>7

LEMMA WithdrawalPerToken ==
    ASSUME NEW a \in Nat, NEW lp \in Nat, NEW t \in Nat, t < lp, NEW c \in Nat,
           c >= a - (t * a) \div lp
    PROVE  c * lp >= a * (lp - t)
  <1> DEFINE m == t * a
             k == m \div lp
  <1>1. m \in Nat /\ lp \in Nat \ {0}
    OBVIOUS
  <1>2. k \in Nat /\ m - lp * k >= 0
    <2> HIDE DEF m
    <2> QED BY <1>1, QuotientBounds
  <1>3. c >= a - k
    OBVIOUS
  <1> HIDE DEF k
  <1>4. c * lp >= (a - k) * lp
    BY <1>1, <1>2, <1>3
  <1>5. (a - k) * lp = a * lp - lp * k /\ a * (lp - t) = a * lp - m
    BY <1>2
  <1>6. c * lp \in Nat /\ a * lp \in Nat /\ lp * k \in Nat
    BY <1>1, <1>2
  <1> HIDE DEF m
  <1> QED BY <1>1, <1>2, <1>4, <1>5, <1>6

LEMMA SwapProduct ==
    ASSUME NEW in \in Nat, NEW out \in Nat, NEW x \in Nat, NEW y \in Nat, NEW af \in Nat,
           in > 0, af <= x, y = (af * out) \div (in + af)
    PROVE  y <= out /\ (in + x) * (out - y) >= in * out
  <1> DEFINE m == af * out
             s == in + af
  <1>1. m \in Nat /\ s \in Nat \ {0}
    OBVIOUS
  <1>2. m - s * y >= 0
    <2> HIDE DEF m, s
    <2>1. y = m \div s
      BY DEF m, s
    <2> QED BY <1>1, <2>1, QuotientBounds
  <1>3. s * y = in * y + af * y /\ s * out = in * out + m
    OBVIOUS
  <1>4. in * y \in Nat /\ af * y \in Nat /\ in * out \in Nat /\ s * out \in Nat /\ s * y \in Nat
    OBVIOUS
  <1>5. s * y <= s * out
    <2> HIDE DEF m, s
    <2> QED BY <1>1, <1>2, <1>3, <1>4
  <1>6. s * (out - y) = s * out - s * y
    <2> HIDE DEF m, s
    <2> QED BY <1>1
  <1>7. s * (out - y) >= 0
    <2> HIDE DEF m, s
    <2> QED BY <1>4, <1>5, <1>6
  <1>8. out - y >= 0
    <2> HIDE DEF m, s
    <2> QED BY <1>1, <1>7, NonNegativeFactor
  <1>9. (in + x) * (out - y) >= s * (out - y)
    <2>1. in + x \in Int /\ in + x >= s /\ out - y \in Nat
      BY <1>8
    <2> HIDE DEF m, s
    <2> QED BY <1>1, <2>1, ProductOrder
  <1>10. s * (out - y) >= in * out
    <2> HIDE DEF m, s
    <2> QED BY <1>1, <1>2, <1>3, <1>4, <1>6
  <1>11. (in + x) * (out - y) \in Int /\ s * (out - y) \in Int
    OBVIOUS
  <1> HIDE DEF m, s
  <1> QED BY <1>4, <1>8, <1>9, <1>10, <1>11

\* Every number has a whole square root.
LEMMA SqrtType == ASSUME NEW n \in Nat PROVE Pool!Sqrt(n) \in Nat
  <1> DEFINE Above == {k \in 0..n : (k + 1) * (k + 1) > n}
  <1>1. n \in Above
    <2>1. (n + 1) * (n + 1) = n * n + n + n + 1 /\ n * n \in Nat
      OBVIOUS
    <2> QED BY <2>1
  <1>2. PICK s \in Above : \A k \in Above : s <= k
    <2>1. Above \in SUBSET (0..n) /\ Above # {}
      BY <1>1
    <2> HIDE DEF Above
    <2> QED BY <2>1, LeastNumber
  <1>3. s * s <= n
    <2>1. CASE s = 0
      BY <2>1
    <2>2. CASE s # 0
      <3> DEFINE j == s - 1
      <3>1. s \in 0..n /\ j \in 0..n /\ s = j + 1
        BY <2>2
      <3>2. j \notin Above
        BY <1>2, <3>1
      <3> HIDE DEF j
      <3>3. (j + 1) * (j + 1) <= n
        BY <3>1, <3>2
      <3>4. j + 1 = s
        BY <3>1
      <3> HIDE DEF Above
      <3> QED BY <3>3, <3>4
    <2> QED BY <2>1, <2>2
  <1>4. s <= n
    <2>1. s <= s * s
      OBVIOUS
    <2>2. s * s \in Nat
      OBVIOUS
    <2> QED BY <1>3, <2>1, <2>2
  <1>5. \E k \in 0..n : k * k <= n /\ (k + 1) * (k + 1) > n
    BY <1>3, <1>4
  <1>6. Pool!Sqrt(n) \in 0..n
    <2> DEFINE IsRoot(k) == k * k <= n /\ (k + 1) * (k + 1) > n
               S == 0..n
    <2>1. \E k \in S : IsRoot(k)
      BY <1>5
    <2>2. Pool!Sqrt(n) = CHOOSE k \in S : IsRoot(k)
      BY DEF Pool!Sqrt
    <2> HIDE DEF IsRoot, S
    <2>3. Pool!Sqrt(n) \in S
      BY <2>1, <2>2
    <2> QED BY <2>3 DEF S
  <1> QED BY <1>6

LEMMA MinOfTwo ==
    ASSUME NEW x \in Int, NEW y \in Int
    PROVE  Pool!Min({x, y}) \in {x, y} /\ Pool!Min({x, y}) <= x /\ Pool!Min({x, y}) <= y
  <1>1. \E m \in {x, y} : \A z \in {x, y} : m <= z
    OBVIOUS
  <1> QED BY <1>1 DEF Pool!Min

LEMMA MaxOfTwo ==
    ASSUME NEW x \in Int, NEW y \in Int
    PROVE  Pool!Max({x, y}) \in {x, y} /\ Pool!Max({x, y}) >= x /\ Pool!Max({x, y}) >= y
  <1>1. \E m \in {x, y} : \A z \in {x, y} : m >= z
    OBVIOUS
  <1> QED BY <1>1 DEF Pool!Max

\* A pool row with fields replaced.
WideRow == [a : Nat, b : Nat, lp : Int, fee : 0..PoolFeeUnit]

\* A request that has computed what it will save.
PoolRequest ==
    [pc : {"commit"}, op : {"add", "remove", "swap"}, by : PoolProviders, read : Pool!PoolRow,
     save : Pool!PoolRow, n : Nat, own : Pool!PositionRow \cup {None}]

\* What it computed fits the rows it read.
Fits(q) ==
    /\ q.op = "add" => q.save.lp = q.read.lp + q.n
    /\ q.op = "remove" => /\ q.save.lp = q.read.lp - q.n
                          /\ q.own # None /\ q.n <= q.own.lp
    /\ q.op = "swap" => q.save.lp = q.read.lp
    /\ KeepsShareValue(q.read, q.save)

TokenSum == SumFunctionOnSet(Pool!TokensOf, PoolProviders)
FeeSum == SumFunctionOnSet(Pool!FeesOf, PoolProviders)

PoolInv ==
    /\ Pool!TypeOK
    /\ poolReq \in [Clients -> {Pool!New, Pool!Done} \cup {q \in PoolRequest : Fits(q)}]
    /\ ~poolLost => /\ TokenSum = IF poolPool = None THEN 0 ELSE poolPool.lp
                    /\ FeeSum <= poolCharged

\* A request that begins keeps the invariant if what it computed fits.
LEMMA BeginInv ==
    ASSUME PoolInv, poolPool # None, NEW r \in Clients, NEW op \in {"add", "remove", "swap"},
           NEW p \in PoolProviders, NEW n \in Nat,
           NEW save \in WideRow,
           op = "add" => save.lp = poolPool.lp + n,
           op = "remove" => /\ save.lp = poolPool.lp - n
                            /\ poolPosition[p] # None /\ n <= poolPosition[p].lp,
           op = "swap" => save.lp = poolPool.lp,
           KeepsShareValue(poolPool, save),
           Pool!Begin(r, op, p, save, n)
    PROVE  PoolInv'
  <1> DEFINE q == [pc |-> "commit", op |-> op, by |-> p, read |-> poolPool, save |-> save, n |-> n,
                   own |-> poolPosition[p]]
  <1>1. /\ poolReq' = [poolReq EXCEPT ![r] = q]
        /\ UNCHANGED <<poolPool, poolPosition, poolCharged, poolLost>>
        /\ save.a <= PoolMaxReserve /\ save.b <= PoolMaxReserve
    BY DEF Pool!Begin
  <1>2. poolPool \in Pool!PoolRow /\ poolPosition[p] \in Pool!PositionRow \cup {None}
    BY DEF PoolInv, Pool!TypeOK
  <1>3. save \in Pool!PoolRow
    BY <1>1, PoolAssumption DEF Pool!PoolRow, WideRow
  <1>4. q \in PoolRequest
    BY <1>2, <1>3 DEF PoolRequest
  <1>5. Fits(q)
    BY DEF Fits
  <1> HIDE DEF q
  <1>6. poolReq' \in [Clients -> {Pool!New, Pool!Done} \cup {z \in PoolRequest : Fits(z)}]
    BY <1>1, <1>4, <1>5 DEF PoolInv
  <1>7. Pool!TokensOf' = Pool!TokensOf /\ Pool!FeesOf' = Pool!FeesOf
    BY <1>1 DEF Pool!TokensOf, Pool!FeesOf
  <1>8. TokenSum' = TokenSum /\ FeeSum' = FeeSum
    BY <1>7 DEF TokenSum, FeeSum
  <1> QED BY <1>1, <1>6, <1>8 DEF PoolInv, Pool!TypeOK

\* The tokens of a deposit are a number, and no more than either reserve gives.
LEMMA TokensIssued ==
    ASSUME poolPool \in Pool!PoolRow, NEW d \in PoolDeposits,
           poolPool.lp = 0 \/ (poolPool.a > 0 /\ poolPool.b > 0), Pool!LPTokensFor(d) > 0
    PROVE  /\ Pool!LPTokensFor(d) \in Nat
           /\ poolPool.lp # 0 =>
                 /\ poolPool.lp > 0 /\ poolPool.a > 0 /\ poolPool.b > 0
                 /\ Pool!LPTokensFor(d) <= (d[1] * poolPool.lp) \div poolPool.a
                 /\ Pool!LPTokensFor(d) <= (d[2] * poolPool.lp) \div poolPool.b
  <1>1. /\ d[1] \in Nat /\ d[2] \in Nat
        /\ poolPool.a \in Nat /\ poolPool.b \in Nat /\ poolPool.lp \in Int
    BY PoolAssumption DEF Pool!PoolRow
  <1>2. CASE poolPool.lp = 0
    <2>1. d[1] * d[2] \in Nat
      <3> DEFINE x == d[1]
                 y == d[2]
      <3>1. x \in Nat /\ y \in Nat
        BY <1>1
      <3> HIDE DEF x, y
      <3>2. x * y \in Nat
        BY <3>1
      <3> QED BY <3>2 DEF x, y
    <2>2. Pool!LPTokensFor(d) = Pool!Sqrt(d[1] * d[2])
      BY <1>2 DEF Pool!LPTokensFor
    <2> QED BY <1>2, <2>1, <2>2, SqrtType
  <1>3. CASE poolPool.lp # 0
    <2> DEFINE x == (d[1] * poolPool.lp) \div poolPool.a
               y == (d[2] * poolPool.lp) \div poolPool.b
    <2>0. /\ d[1] \in Nat /\ d[2] \in Nat /\ poolPool.lp \in Int
          /\ poolPool.a \in Nat \ {0} /\ poolPool.b \in Nat \ {0}
      BY <1>1, <1>3
    <2>1. x \in Int /\ (poolPool.lp < 0 => x <= 0)
      BY <2>0, QuotientSign
    <2>2. y \in Int
      BY <2>0, QuotientSign
    <2>3. Pool!LPTokensFor(d) = Pool!Min({x, y})
      BY <1>3 DEF Pool!LPTokensFor
    <2>4. Pool!Min({x, y}) \in {x, y} /\ Pool!Min({x, y}) <= x /\ Pool!Min({x, y}) <= y
      <3> HIDE DEF x, y
      <3> QED BY <2>1, <2>2, MinOfTwo
    <2> DEFINE n == Pool!LPTokensFor(d)
    <2>5. n \in Int /\ n <= x /\ n <= y /\ n > 0
      <3> HIDE DEF x, y
      <3> QED BY <2>1, <2>2, <2>3, <2>4
    <2>6. ~(poolPool.lp < 0)
      <3> HIDE DEF x, y, n
      <3> QED BY <2>1, <2>5
    <2> QED BY <1>1, <1>3, <2>5, <2>6
  <1> QED BY <1>2, <1>3

LEMMA AddInv ==
    ASSUME PoolInv, NEW r \in Clients, NEW p \in PoolProviders, NEW d \in PoolDeposits,
           Pool!AddLiquidity(r, p, d)
    PROVE  PoolInv'
  <1> DEFINE n == Pool!LPTokensFor(d)
             save == [poolPool EXCEPT !.a = @ + d[1], !.b = @ + d[2], !.lp = @ + n]
  <1>1. /\ poolPool # None /\ (poolPool.lp = 0 \/ (poolPool.a > 0 /\ poolPool.b > 0))
        /\ n > 0 /\ Pool!Begin(r, "add", p, save, n)
    BY DEF Pool!AddLiquidity
  <1>2. poolPool # None /\ poolPool \in Pool!PoolRow
    BY DEF PoolInv, Pool!TypeOK, Pool!AddLiquidity
  <1>3. /\ n \in Nat
        /\ poolPool.lp # 0 =>
              /\ poolPool.lp > 0 /\ poolPool.a > 0 /\ poolPool.b > 0
              /\ n <= (d[1] * poolPool.lp) \div poolPool.a
              /\ n <= (d[2] * poolPool.lp) \div poolPool.b
    BY <1>1, <1>2, TokensIssued
  <1> HIDE DEF n
  <1>4. /\ d[1] \in Nat /\ d[2] \in Nat
        /\ poolPool.a \in Nat /\ poolPool.b \in Nat /\ poolPool.lp \in Int
    BY <1>2, PoolAssumption DEF Pool!PoolRow
  <1>5. /\ save \in WideRow
        /\ save.a = poolPool.a + d[1] /\ save.b = poolPool.b + d[2] /\ save.lp = poolPool.lp + n
    <2> DEFINE a == poolPool.a + d[1]
               b == poolPool.b + d[2]
               lp == poolPool.lp + n
    <2>1. a \in Nat /\ b \in Nat /\ lp \in Int
      BY <1>3, <1>4
    <2>2. save = [poolPool EXCEPT !.a = a, !.b = b, !.lp = lp]
      OBVIOUS
    <2> HIDE DEF a, b, lp, save
    <2>3. save \in WideRow /\ save.a = a /\ save.b = b /\ save.lp = lp
      BY <1>2, <2>1, <2>2, PoolAssumption DEF Pool!PoolRow, WideRow
    <2> QED BY <2>3 DEF a, b, lp
  <1> HIDE DEF save
  <1>6. KeepsShareValue(poolPool, save)
    <2> SUFFICES ASSUME poolPool.lp > 0
                 PROVE  save.a * save.b * poolPool.lp * poolPool.lp
                           >= poolPool.a * poolPool.b * save.lp * save.lp
      BY DEF KeepsShareValue
    <2>1. /\ save.a * poolPool.lp >= poolPool.a * save.lp
          /\ save.b * poolPool.lp >= poolPool.b * save.lp
      BY <1>3, <1>4, <1>5, DepositPerToken
    <2>2. /\ save.a \in Nat /\ save.b \in Nat /\ save.lp \in Nat
          /\ poolPool.a \in Nat /\ poolPool.b \in Nat /\ poolPool.lp \in Nat
      <3>1. save.a \in Nat /\ save.b \in Nat
        BY <1>5 DEF WideRow
      <3> QED BY <1>3, <1>4, <1>5, <3>1
    <2> QED BY <2>1, <2>2, ReservesPerToken
  <1> QED BY <1>1, <1>2, <1>3, <1>5, <1>6, BeginInv

LEMMA RemoveInv ==
    ASSUME PoolInv, NEW r \in Clients, NEW p \in PoolProviders, NEW t \in PoolTokens,
           Pool!RemoveLiquidity(r, p, t)
    PROVE  PoolInv'
  <1> DEFINE a == Pool!LeftOf(poolPool.a, t)
             b == Pool!LeftOf(poolPool.b, t)
             save == [poolPool EXCEPT !.a = Pool!LeftOf(@, t), !.b = Pool!LeftOf(@, t), !.lp = @ - t]
  <1>1. /\ poolPool # None /\ poolPosition[p] # None
        /\ t <= poolPosition[p].lp
        /\ poolPool.lp # 0
        /\ Pool!Begin(r, "remove", p, save, t)
    BY DEF Pool!RemoveLiquidity
  <1>2. poolPool \in Pool!PoolRow
    BY <1>1 DEF PoolInv, Pool!TypeOK
  <1>3. t \in Nat /\ poolPool.a \in Nat /\ poolPool.b \in Nat /\ poolPool.lp \in Int
    BY <1>2, PoolAssumption DEF Pool!PoolRow
  <1>4. ASSUME NEW x \in Nat
        PROVE  /\ Pool!LeftOf(x, t) \in Nat
               /\ poolPool.lp > 0 => Pool!LeftOf(x, t) >= x - (t * x) \div poolPool.lp
    <2> DEFINE y == x - Pool!Quotient(t * x, poolPool.lp)
    <2>1. y \in Int /\ (poolPool.lp > 0 => y = x - (t * x) \div poolPool.lp)
      <3> DEFINE m == t * x
                 lp == poolPool.lp
      <3>1. m \in Nat /\ lp \in Int /\ lp # 0
        BY <1>1, <1>3
      <3> HIDE DEF m, lp
      <3>2. Pool!Quotient(m, lp) \in Int /\ (lp > 0 => Pool!Quotient(m, lp) = m \div lp)
        BY <3>1 DEF Pool!Quotient
      <3>3. x - Pool!Quotient(m, lp) \in Int
        BY <3>2
      <3> QED BY <3>2, <3>3 DEF m, lp
    <2>2. Pool!LeftOf(x, t) = Pool!Max({0, y})
      BY DEF Pool!LeftOf
    <2> HIDE DEF y
    <2>3. Pool!Max({0, y}) \in {0, y} /\ Pool!Max({0, y}) >= 0 /\ Pool!Max({0, y}) >= y
      <3>1. 0 \in Int /\ y \in Int
        BY <2>1
      <3> QED BY <3>1, MaxOfTwo, Zenon
    <2>4. Pool!LeftOf(x, t) \in Nat /\ Pool!LeftOf(x, t) >= y
      BY <2>1, <2>2, <2>3
    <2> QED BY <2>1, <2>4
  <1>5. a \in Nat /\ b \in Nat
    BY <1>3, <1>4
  <1>6. /\ save \in WideRow
        /\ save.a = a /\ save.b = b /\ save.lp = poolPool.lp - t
    <2> HIDE DEF a, b
    <2> DEFINE lp == poolPool.lp - t
    <2>1. save = [poolPool EXCEPT !.a = a, !.b = b, !.lp = lp]
      BY DEF a, b
    <2>2. lp \in Int
      BY <1>3
    <2> HIDE DEF save, lp
    <2>3. save \in WideRow /\ save.a = a /\ save.b = b /\ save.lp = lp
      BY <1>2, <1>5, <2>1, <2>2, PoolAssumption DEF Pool!PoolRow, WideRow
    <2> QED BY <2>3 DEF lp
  <1>7. KeepsShareValue(poolPool, save)
    <2> SUFFICES ASSUME poolPool.lp > 0, save.lp > 0
                 PROVE  save.a * save.b * poolPool.lp * poolPool.lp
                           >= poolPool.a * poolPool.b * save.lp * save.lp
      BY DEF KeepsShareValue
    <2>1. /\ a >= poolPool.a - (t * poolPool.a) \div poolPool.lp
          /\ b >= poolPool.b - (t * poolPool.b) \div poolPool.lp
      BY <1>3, <1>4
    <2>2. t < poolPool.lp /\ poolPool.lp \in Nat /\ save.lp \in Nat
      BY <1>3, <1>6
    <2> HIDE DEF a, b, save
    <2>3. /\ a * poolPool.lp >= poolPool.a * (poolPool.lp - t)
          /\ b * poolPool.lp >= poolPool.b * (poolPool.lp - t)
      BY <1>3, <1>5, <2>1, <2>2, WithdrawalPerToken
    <2> QED BY <1>3, <1>5, <1>6, <2>2, <2>3, ReservesPerToken
  <1> HIDE DEF save
  <1> QED BY <1>1, <1>3, <1>6, <1>7, BeginInv

LEMMA SwapInv ==
    ASSUME PoolInv, NEW r \in Clients, NEW p \in PoolProviders, NEW x \in PoolInputs,
           NEW least \in PoolMinOutputs, NEW aToB \in BOOLEAN, Pool!Swap(r, p, x, least, aToB)
    PROVE  PoolInv'
  <1> DEFINE in == IF aToB THEN poolPool.a ELSE poolPool.b
             out == IF aToB THEN poolPool.b ELSE poolPool.a
             af == Pool!AfterFee(x)
             y == Pool!OutputFor(x, in, out)
             save == IF aToB THEN [poolPool EXCEPT !.a = @ + x, !.b = @ - y]
                     ELSE [poolPool EXCEPT !.b = @ + x, !.a = @ - y]
  <1>1. /\ poolPool # None /\ in # 0 /\ out # 0
        /\ Pool!Begin(r, "swap", p, save, x - af)
    BY DEF Pool!Swap
  <1>2. poolPool \in Pool!PoolRow
    BY <1>1 DEF PoolInv, Pool!TypeOK
  <1>3. /\ x \in Nat /\ poolPool.a \in Nat /\ poolPool.b \in Nat /\ poolPool.lp \in Int
        /\ poolPool.fee \in 0..PoolFeeUnit
    BY <1>2, PoolAssumption DEF Pool!PoolRow
  <1>4. af \in Nat /\ af <= x
    <2> DEFINE k == PoolFeeUnit - poolPool.fee
               m == x * k
    <2>1. k \in Nat /\ k <= PoolFeeUnit /\ PoolFeeUnit \in Nat \ {0}
      BY <1>3, PoolAssumption
    <2>2. m \in Nat /\ m <= PoolFeeUnit * x
      <3> HIDE DEF k
      <3> QED BY <1>3, <2>1
    <2>3. af = m \div PoolFeeUnit
      BY DEF Pool!AfterFee
    <2> HIDE DEF m, af
    <2>4. af \in Nat /\ m - PoolFeeUnit * af >= 0
      <3>1. m \div PoolFeeUnit \in Nat /\ m - PoolFeeUnit * (m \div PoolFeeUnit) \in 0..(PoolFeeUnit - 1)
        BY ONLY <2>1, <2>2, QuotientBounds
      <3>2. af \in Nat /\ m - PoolFeeUnit * af \in 0..(PoolFeeUnit - 1)
        BY ONLY <2>3, <3>1
      <3> QED BY ONLY <2>1, <3>2
    <2>5. PoolFeeUnit * (x - af) >= 0
      <3>1. PoolFeeUnit * (x - af) = PoolFeeUnit * x - PoolFeeUnit * af
        BY <1>3, <2>1, <2>4
      <3>2. PoolFeeUnit * x \in Nat /\ PoolFeeUnit * af \in Nat
        BY <1>3, <2>1, <2>4
      <3> QED BY <2>2, <2>4, <3>1, <3>2
    <2>6. x - af \in Int
      BY <1>3, <2>4
    <2>7. x - af >= 0
      BY <2>1, <2>5, <2>6, NonNegativeFactor
    <2> QED BY <1>3, <2>4, <2>7
  <1>5. in \in Nat /\ out \in Nat /\ in > 0
    BY <1>1, <1>3
  <1>6. y = (af * out) \div (in + af)
    BY DEF Pool!OutputFor
  <1>7. y \in Nat
    <2> DEFINE m == af * out
               s == in + af
    <2> HIDE DEF in, out, af, y
    <2>1. m \in Nat /\ s \in Nat \ {0} /\ y = m \div s
      BY <1>4, <1>5, <1>6
    <2> HIDE DEF m, s
    <2> QED BY <2>1, QuotientBounds
  <1>8. y <= out /\ (in + x) * (out - y) >= in * out
    <2> HIDE DEF in, out, af, y
    <2> QED BY <1>3, <1>4, <1>5, <1>6, <1>7, SwapProduct
  <1>9. /\ save \in WideRow
        /\ save.lp = poolPool.lp
        /\ IF aToB THEN save.a = in + x /\ save.b = out - y
           ELSE save.b = in + x /\ save.a = out - y
    <2> HIDE DEF y
    <2> DEFINE more == in + x
               less == out - y
               lp == poolPool.lp
    <2>1. more \in Nat /\ less \in Nat /\ lp \in Int
      BY <1>3, <1>5, <1>7, <1>8
    <2>2. /\ aToB => save = [poolPool EXCEPT !.a = more, !.b = less]
          /\ ~aToB => save = [poolPool EXCEPT !.b = more, !.a = less]
      OBVIOUS
    <2> HIDE DEF save, more, less
    <2>3. CASE aToB
      <3>1. save = [poolPool EXCEPT !.a = more, !.b = less] \/ save = [poolPool EXCEPT !.b = less, !.a = more]
        BY <2>2, <2>3
      <3>2. save \in WideRow /\ save.a = more /\ save.b = less /\ save.lp = poolPool.lp
        BY <1>2, <2>1, <3>1, PoolAssumption DEF Pool!PoolRow, WideRow
      <3> QED BY <2>3, <3>2 DEF more, less
    <2>4. CASE ~aToB
      <3>1. save = [poolPool EXCEPT !.a = less, !.b = more] \/ save = [poolPool EXCEPT !.b = more, !.a = less]
        BY <2>2, <2>4
      <3>2. save \in WideRow /\ save.a = less /\ save.b = more /\ save.lp = poolPool.lp
        BY <1>2, <2>1, <3>1, PoolAssumption DEF Pool!PoolRow, WideRow
      <3> QED BY <2>4, <3>2 DEF more, less
    <2> QED BY <2>3, <2>4
  <1>10. KeepsShareValue(poolPool, save)
    <2> SUFFICES ASSUME poolPool.lp > 0
                 PROVE  save.a * save.b * poolPool.lp * poolPool.lp
                           >= poolPool.a * poolPool.b * save.lp * save.lp
      BY DEF KeepsShareValue
    <2> DEFINE P == save.a * save.b
               Q == poolPool.a * poolPool.b
               lp == poolPool.lp
    <2>1. P >= Q /\ P \in Nat /\ Q \in Nat
      <3> HIDE DEF y
      <3>1. save.a \in Nat /\ save.b \in Nat
        BY <1>9 DEF WideRow
      <3>2. (in + x) * (out - y) = P
        <4>1. in + x \in Int /\ out - y \in Int
          BY <1>3, <1>5, <1>7
        <4> HIDE DEF in, out, save
        <4> QED BY <1>9, <3>1, <4>1
      <3>3. in * out = Q
        BY <1>3
      <3>4. P \in Nat /\ Q \in Nat
        <4> HIDE DEF save
        <4> QED BY <1>3, <3>1
      <3> QED BY <1>8, <3>2, <3>3, <3>4
    <2>2. lp \in Nat
      BY <1>3
    <2> HIDE DEF P, Q, lp
    <2>3. P * lp >= Q * lp
      BY <2>1, <2>2
    <2>4. P * lp \in Nat /\ Q * lp \in Nat
      BY <2>1, <2>2
    <2>5. P * lp * lp >= Q * lp * lp
      BY <2>2, <2>3, <2>4, ProductOrder
    <2> QED BY <1>9, <2>5 DEF P, Q, lp
  <1>11. x - af \in Nat
    BY <1>3, <1>4
  <1> HIDE DEF save, af
  <1> QED BY <1>1, <1>9, <1>10, <1>11, BeginInv

-----------------------------------------------------------------------------
\* The number of tokens and the fees of a position.
LEMMA PositionOf ==
    ASSUME poolPosition \in [PoolProviders -> Pool!PositionRow \cup {None}], NEW p \in PoolProviders
    PROVE  /\ Pool!TokensOf[p] \in Nat /\ Pool!FeesOf[p] \in Nat
           /\ poolPosition[p] # None => /\ poolPosition[p] \in Pool!PositionRow
                                        /\ poolPosition[p] = [lp |-> Pool!TokensOf[p], fees |-> Pool!FeesOf[p]]
  BY DEF Pool!TokensOf, Pool!FeesOf, Pool!PositionRow

\* A swap credits its fee to the holders in proportion, each share rounded
\* down: in all no more than the fee.
LEMMA CreditedShares ==
    ASSUME poolPosition \in [PoolProviders -> Pool!PositionRow \cup {None}], NEW n \in Nat,
           poolPosition' = Pool!Credited(n)
    PROVE  /\ poolPosition' \in [PoolProviders -> Pool!PositionRow \cup {None}]
           /\ \A p \in PoolProviders : Pool!TokensOf'[p] = Pool!TokensOf[p]
           /\ FeeSum \in Nat /\ FeeSum' \in Nat /\ FeeSum' <= FeeSum + n
  <1> DEFINE f == Pool!TokensOf
             holders == {p \in PoolProviders : f[p] > 0}
             total == SumFunctionOnSet(f, holders)
             share == [p \in PoolProviders |-> IF p \in holders THEN Pool!Share(p, n, total) ELSE 0]
  <1>1. IsFiniteSet(PoolProviders) /\ IsFiniteSet(holders)
    BY PoolAssumption, FS_Subset
  <1>2. \A p \in holders : f[p] \in Nat /\ f[p] > 0
    BY PositionOf
  <1>3. \A p \in holders : poolPosition[p] # None /\ poolPosition[p] \in Pool!PositionRow
                           /\ poolPosition[p].lp = f[p]
    <2> SUFFICES ASSUME NEW p \in holders
                 PROVE  poolPosition[p] # None /\ poolPosition[p] \in Pool!PositionRow
                        /\ poolPosition[p].lp = f[p]
      OBVIOUS
    <2> QED BY <1>2 DEF Pool!TokensOf
  <1>4. ASSUME holders # {} PROVE total > 0
    <2>1. PICK p \in holders : TRUE
      BY <1>4
    <2> HIDE DEF f, holders
    <2>2. f[p] > 0 /\ f[p] \in Nat
      BY <1>2
    <2>3. total \in Nat
      BY <1>1, <1>2, SumNat
    <2>4. total >= f[p]
      BY <1>1, <1>2, SumAtLeast
    <2> QED BY <2>2, <2>3, <2>4
  <1>5. \A p \in holders : share[p] = (n * f[p]) \div total
    <2> SUFFICES ASSUME NEW p \in holders PROVE Pool!Share(p, n, total) = (n * f[p]) \div total
      OBVIOUS
    <2>1. Pool!Share(p, n, total) = (f[p] * n) \div total
      BY <1>3 DEF Pool!Share
    <2>2. f[p] * n = n * f[p]
      BY <1>2
    <2> HIDE DEF f, total
    <2> QED BY <2>1, <2>2
  <1>6. /\ \A p \in holders : share[p] \in Nat
        /\ SumFunctionOnSet(share, holders) \in 0..n
    <2>1. CASE holders = {}
      BY <2>1, SumEmpty
    <2>2. CASE holders # {}
      <3>1. total > 0
        BY <1>4, <2>2
      <3> HIDE DEF f, holders, share
      <3> QED BY <1>1, <1>2, <1>5, <3>1, SharesOfSum
    <2> QED BY <2>1, <2>2
  <1>7. \A p \in PoolProviders : share[p] \in Nat /\ (p \notin holders => share[p] = 0)
    BY <1>6
  <1>8. SumFunctionOnSet(share, PoolProviders) \in 0..n
    <2>1. holders \in SUBSET PoolProviders
      OBVIOUS
    <2> HIDE DEF holders, share
    <2>2. /\ \A p \in PoolProviders : share[p] \in Int
          /\ \A p \in PoolProviders \ holders : share[p] = 0
      BY <1>7
    <2>3. SumFunctionOnSet(share, PoolProviders) = SumFunctionOnSet(share, holders)
      BY <1>1, <2>1, <2>2, SumSupport
    <2> QED BY <1>6, <2>3
  <1>9. poolPosition' = [p \in PoolProviders |-> IF p \in holders
                         THEN [poolPosition[p] EXCEPT !.fees = @ + share[p]] ELSE poolPosition[p]]
    BY PoolSum DEF Pool!Credited
  <1> HIDE DEF share
  <1>10. \A p \in PoolProviders :
            /\ poolPosition'[p] \in Pool!PositionRow \cup {None}
            /\ Pool!TokensOf'[p] = Pool!TokensOf[p]
            /\ Pool!FeesOf'[p] = Pool!FeesOf[p] + share[p]
    <2> SUFFICES ASSUME NEW p \in PoolProviders
                 PROVE  /\ poolPosition'[p] \in Pool!PositionRow \cup {None}
                        /\ Pool!TokensOf'[p] = Pool!TokensOf[p]
                        /\ Pool!FeesOf'[p] = Pool!FeesOf[p] + share[p]
      OBVIOUS
    <2>1. CASE p \in holders
      <3>1. /\ poolPosition[p] # None /\ poolPosition[p] \in Pool!PositionRow /\ share[p] \in Nat
        BY <1>3, <1>7, <2>1
      <3>2. poolPosition'[p] = [poolPosition[p] EXCEPT !.fees = @ + share[p]]
        BY <1>9, <2>1
      <3> HIDE DEF holders
      <3>3. /\ poolPosition'[p] \in Pool!PositionRow
            /\ poolPosition'[p].lp = poolPosition[p].lp
            /\ poolPosition'[p].fees = poolPosition[p].fees + share[p]
        BY <3>1, <3>2 DEF Pool!PositionRow
      <3>4. poolPosition'[p] # None
        BY <3>3, PoolAssumption
      <3> QED BY <3>1, <3>3, <3>4 DEF Pool!TokensOf, Pool!FeesOf
    <2>2. CASE p \notin holders
      <3>1. poolPosition'[p] = poolPosition[p] /\ share[p] = 0
        BY <1>7, <1>9, <2>2
      <3> QED BY <3>1, PositionOf DEF Pool!TokensOf, Pool!FeesOf
    <2> QED BY <2>1, <2>2
  <1>11. FeeSum' = FeeSum + SumFunctionOnSet(share, PoolProviders) /\ FeeSum \in Nat
    <2> DEFINE g == Pool!FeesOf
               h == Pool!FeesOf'
    <2>1. \A p \in PoolProviders : g[p] \in Nat /\ share[p] \in Int /\ h[p] = g[p] + share[p]
      BY <1>7, <1>10, PositionOf
    <2>2. FeeSum = SumFunctionOnSet(g, PoolProviders) /\ FeeSum' = SumFunctionOnSet(h, PoolProviders)
      BY DEF FeeSum
    <2> HIDE DEF g, h
    <2>3. SumFunctionOnSet(h, PoolProviders)
             = SumFunctionOnSet(g, PoolProviders) + SumFunctionOnSet(share, PoolProviders)
      <3> HIDE DEF share
      <3>1. \A p \in PoolProviders : g[p] \in Int /\ share[p] \in Int /\ h[p] = g[p] + share[p]
        BY ONLY <2>1
      <3>2. IsFiniteSet(PoolProviders)
        BY PoolAssumption
      <3> QED BY ONLY <3>1, <3>2, SumPlus
    <2>4. SumFunctionOnSet(g, PoolProviders) \in Nat
      BY <1>1, <2>1, SumNat
    <2> QED BY <2>2, <2>3, <2>4
  <1>12. poolPosition' \in [PoolProviders -> Pool!PositionRow \cup {None}]
    BY <1>9, <1>10
  <1> QED BY <1>8, <1>10, <1>11, <1>12

\* A commit that changes the tokens of one position.
LEMMA OnePosition ==
    ASSUME poolPosition \in [PoolProviders -> Pool!PositionRow \cup {None}], NEW p \in PoolProviders,
           NEW row \in Pool!PositionRow, poolPosition' = [poolPosition EXCEPT ![p] = row],
           row.fees = Pool!FeesOf[p]
    PROVE  /\ poolPosition' \in [PoolProviders -> Pool!PositionRow \cup {None}]
           /\ TokenSum' = TokenSum + (row.lp - Pool!TokensOf[p]) /\ TokenSum \in Nat
           /\ FeeSum' = FeeSum
  <1> DEFINE f == Pool!TokensOf
             g == Pool!TokensOf'
  <1>1. IsFiniteSet(PoolProviders)
    BY PoolAssumption
  <1>2. row.lp \in Nat /\ row.fees \in Nat /\ row # None
    BY PoolAssumption DEF Pool!PositionRow
  <1>3. /\ \A s \in PoolProviders : f[s] \in Nat
        /\ \A s \in PoolProviders : s # p => g[s] = f[s]
        /\ g[p] = row.lp
    BY <1>2, PositionOf DEF Pool!TokensOf
  <1>4. \A s \in PoolProviders : g[s] \in Nat
    BY <1>2, <1>3
  <1>5. TokenSum' = TokenSum + (row.lp - f[p]) /\ TokenSum \in Nat
    <2>1. TokenSum = SumFunctionOnSet(f, PoolProviders) /\ TokenSum' = SumFunctionOnSet(g, PoolProviders)
      BY DEF TokenSum
    <2> HIDE DEF f, g
    <2>2. DifferAt(f, g, p, PoolProviders)
      BY <1>1, <1>3, <1>4 DEF DifferAt
    <2>3. SumFunctionOnSet(g, PoolProviders) = SumFunctionOnSet(f, PoolProviders) + (g[p] - f[p])
      BY <2>2, SumUpdate
    <2>4. SumFunctionOnSet(f, PoolProviders) \in Nat
      BY <1>1, <1>3, SumNat
    <2> QED BY <1>3, <2>1, <2>3, <2>4
  <1>6. FeeSum' = FeeSum
    <2> DEFINE u == Pool!FeesOf
               v == Pool!FeesOf'
    <2>1. \A s \in PoolProviders : u[s] = v[s]
      BY <1>2 DEF Pool!FeesOf
    <2>2. FeeSum = SumFunctionOnSet(u, PoolProviders) /\ FeeSum' = SumFunctionOnSet(v, PoolProviders)
      BY DEF FeeSum
    <2> HIDE DEF u, v
    <2> QED BY <1>1, <2>1, <2>2, SumSame
  <1>7. poolPosition' \in [PoolProviders -> Pool!PositionRow \cup {None}]
    OBVIOUS
  <1> QED BY <1>5, <1>6, <1>7

LEMMA CommitInv ==
    ASSUME PoolInv, NEW r \in Clients, Pool!Commit(r)
    PROVE  PoolInv'
  <1> DEFINE q == poolReq[r]
             Rows == [PoolProviders -> Pool!PositionRow \cup {None}]
             Fine == /\ TokenSum = IF poolPool = None THEN 0 ELSE poolPool.lp
                     /\ FeeSum <= poolCharged
  <1>1. /\ poolPool \in Pool!PoolRow \cup {None} /\ poolPosition \in Rows
        /\ poolCharged \in Nat /\ poolLost \in BOOLEAN
        /\ ~poolLost => Fine
    BY DEF PoolInv, Pool!TypeOK
  <1>2. q \in PoolRequest /\ Fits(q)
    <2>1. q.pc = "commit"
      BY DEF Pool!Commit
    <2>2. q \in {Pool!New, Pool!Done} \cup {z \in PoolRequest : Fits(z)}
      BY DEF PoolInv
    <2>3. q # Pool!New /\ q # Pool!Done
      BY <2>1 DEF Pool!New, Pool!Done
    <2> QED BY <2>2, <2>3
  <1> HIDE DEF q
  <1>3. /\ q.op \in {"add", "remove", "swap"} /\ q.by \in PoolProviders /\ q.n \in Nat
        /\ q.read \in Pool!PoolRow /\ q.save \in Pool!PoolRow
        /\ q.own \in Pool!PositionRow \cup {None}
    BY <1>2 DEF PoolRequest
  <1>4. /\ poolPool' = q.save
        /\ q.op = "add" => poolPosition' = [poolPosition EXCEPT ![q.by] = Pool!Increased(@, q.n)]
        /\ q.op = "remove" => poolPosition' = [poolPosition EXCEPT ![q.by] = [q.own EXCEPT !.lp = @ - q.n]]
        /\ q.op = "swap" => poolPosition' = Pool!Credited(q.n)
        /\ poolCharged' = IF q.op = "swap" THEN poolCharged + q.n ELSE poolCharged
        /\ poolLost' = (poolLost \/ poolPool # q.read \/ (q.op = "remove" /\ poolPosition[q.by] # q.own))
        /\ poolReq' = [poolReq EXCEPT ![r] = Pool!Done]
    BY <1>3 DEF Pool!Commit, q
  <1>5. /\ poolReq' \in [Clients -> {Pool!New, Pool!Done} \cup {z \in PoolRequest : Fits(z)}]
        /\ poolPool' \in Pool!PoolRow /\ poolPool' # None
        /\ poolLost' \in BOOLEAN /\ poolCharged' \in Nat
    BY <1>1, <1>3, <1>4, PoolAssumption DEF PoolInv
  <1>6. ~poolLost' => /\ ~poolLost /\ poolPool = q.read /\ poolPool # None /\ poolPool.lp \in Int
                      /\ (q.op = "remove" => poolPosition[q.by] = q.own)
                      /\ TokenSum = poolPool.lp /\ FeeSum <= poolCharged
    BY <1>1, <1>3, <1>4, PoolAssumption DEF Pool!PoolRow
  <1>7. ASSUME poolPosition' \in Rows,
               ~poolLost' => TokenSum' = q.save.lp /\ FeeSum' <= poolCharged'
        PROVE  PoolInv'
    BY <1>4, <1>5, <1>7 DEF PoolInv, Pool!TypeOK
  <1>8. CASE q.op = "add"
    <2> DEFINE t == Pool!TokensOf[q.by]
               row == [lp |-> t + q.n, fees |-> Pool!FeesOf[q.by]]
    <2>1. t \in Nat /\ row \in Pool!PositionRow /\ row.lp = t + q.n /\ row.fees = Pool!FeesOf[q.by]
      BY <1>1, <1>3, PositionOf DEF Pool!PositionRow
    <2>1a. Pool!Increased(poolPosition[q.by], q.n) = row
      <3>1. CASE poolPosition[q.by] = None
        <4>1. t = 0 /\ Pool!FeesOf[q.by] = 0
          BY <1>3, <3>1 DEF Pool!TokensOf, Pool!FeesOf
        <4> QED BY <1>3, <3>1, <4>1 DEF Pool!Increased
      <3>2. CASE poolPosition[q.by] # None
        <4>1. poolPosition[q.by] = [lp |-> t, fees |-> Pool!FeesOf[q.by]]
          BY <1>1, <1>3, <3>2, PositionOf
        <4> QED BY <3>2, <4>1 DEF Pool!Increased
      <3> QED BY <3>1, <3>2
    <2>2. poolPosition' = [poolPosition EXCEPT ![q.by] = row]
      <3> HIDE DEF row
      <3>1. poolPosition' = [poolPosition EXCEPT ![q.by] = Pool!Increased(poolPosition[q.by], q.n)]
        BY <1>4, <1>8
      <3> QED BY <2>1a, <3>1
    <2> HIDE DEF row
    <2>3. /\ poolPosition' \in Rows
          /\ TokenSum' = TokenSum + (row.lp - t) /\ TokenSum \in Nat
          /\ FeeSum' = FeeSum
      BY <1>1, <1>3, <2>1, <2>2, OnePosition
    <2> HIDE DEF t
    <2>4. ~poolLost' => TokenSum' = q.save.lp /\ FeeSum' <= poolCharged'
      BY <1>2, <1>3, <1>4, <1>6, <1>8, <2>1, <2>3 DEF Fits
    <2> QED BY <1>7, <2>3, <2>4
  <1>9. CASE q.op = "remove"
    <2> DEFINE row == [q.own EXCEPT !.lp = @ - q.n]
    <2>1. /\ q.own \in Pool!PositionRow /\ q.n <= q.own.lp /\ q.save.lp = q.read.lp - q.n
      BY <1>2, <1>3, <1>9 DEF Fits
    <2>2. row \in Pool!PositionRow /\ row.lp = q.own.lp - q.n /\ row.fees = q.own.fees
      BY <1>3, <2>1 DEF Pool!PositionRow
    <2>3. poolPosition' = [poolPosition EXCEPT ![q.by] = row]
      BY <1>4, <1>9
    <2> HIDE DEF row
    <2>4. poolPosition' \in Rows
      BY <1>1, <1>3, <2>2, <2>3
    <2>5. ASSUME ~poolLost' PROVE TokenSum' = q.save.lp /\ FeeSum' <= poolCharged'
      <3>1. poolPosition[q.by] = q.own /\ q.own # None
        BY <1>6, <1>9, <2>1, <2>5, PoolAssumption
      <3>2. q.own.lp = Pool!TokensOf[q.by] /\ row.fees = Pool!FeesOf[q.by]
        BY <1>3, <2>2, <3>1 DEF Pool!TokensOf, Pool!FeesOf
      <3>3. /\ TokenSum' = TokenSum + (row.lp - Pool!TokensOf[q.by]) /\ TokenSum \in Nat
            /\ FeeSum' = FeeSum
        BY <1>1, <1>3, <2>2, <2>3, <3>2, OnePosition
      <3>4. Pool!TokensOf[q.by] \in Nat
        BY <1>1, <1>3, PositionOf
      <3>5. /\ row.lp - Pool!TokensOf[q.by] = -q.n
        BY <1>3, <2>2, <3>2, <3>4
      <3> QED BY <1>3, <1>4, <1>6, <1>9, <2>1, <2>5, <3>3, <3>5
    <2> QED BY <1>7, <2>4, <2>5
  <1>10. CASE q.op = "swap"
    <2>1. /\ poolPosition' \in Rows
          /\ \A p \in PoolProviders : Pool!TokensOf'[p] = Pool!TokensOf[p]
          /\ FeeSum \in Nat /\ FeeSum' \in Nat /\ FeeSum' <= FeeSum + q.n
      BY <1>1, <1>3, <1>4, <1>10, CreditedShares
    <2>2. TokenSum' = TokenSum
      <3> DEFINE f == Pool!TokensOf
                 g == Pool!TokensOf'
      <3>1. \A p \in PoolProviders : f[p] = g[p]
        BY <2>1
      <3>2. TokenSum = SumFunctionOnSet(f, PoolProviders) /\ TokenSum' = SumFunctionOnSet(g, PoolProviders)
        BY DEF TokenSum
      <3> HIDE DEF f, g
      <3> QED BY <3>1, <3>2, PoolAssumption, SumSame
    <2>3. ~poolLost' => TokenSum' = q.save.lp /\ FeeSum' <= poolCharged'
      BY <1>1, <1>2, <1>3, <1>4, <1>6, <1>10, <2>1, <2>2 DEF Fits
    <2> QED BY <1>7, <2>1, <2>3
  <1> QED BY <1>3, <1>8, <1>9, <1>10

LEMMA PoolInvInit == Pool!Init => PoolInv
  <1> SUFFICES ASSUME Pool!Init PROVE PoolInv
    OBVIOUS
  <1>1. /\ poolPool = None /\ poolCharged = 0 /\ poolLost = FALSE
        /\ poolPosition = [p \in PoolProviders |-> None]
        /\ poolReq = [r \in Clients |-> Pool!New]
    BY DEF Pool!Init
  <1>2. \A p \in PoolProviders : Pool!TokensOf[p] = 0 /\ Pool!FeesOf[p] = 0
    BY <1>1 DEF Pool!TokensOf, Pool!FeesOf
  <1>3. TokenSum = 0 /\ FeeSum = 0
    BY <1>2, PoolAssumption, SumZero DEF TokenSum, FeeSum
  <1>4. Pool!TypeOK
    BY <1>1 DEF Pool!TypeOK
  <1>5. poolReq \in [Clients -> {Pool!New, Pool!Done} \cup {q \in PoolRequest : Fits(q)}]
    BY <1>1
  <1> QED BY <1>1, <1>3, <1>4, <1>5 DEF PoolInv

LEMMA PoolInvNext == PoolInv /\ [Pool!Next]_(Pool!vars) => PoolInv'
  <1> SUFFICES ASSUME PoolInv, [Pool!Next]_(Pool!vars) PROVE PoolInv'
    OBVIOUS
  <1>1. ASSUME UNCHANGED <<poolPosition, poolCharged, poolLost>>
        PROVE  TokenSum' = TokenSum /\ FeeSum' = FeeSum
    <2>1. Pool!TokensOf' = Pool!TokensOf /\ Pool!FeesOf' = Pool!FeesOf
      BY <1>1 DEF Pool!TokensOf, Pool!FeesOf
    <2> QED BY <2>1 DEF TokenSum, FeeSum
  <1>2. ASSUME NEW fee \in PoolFees, Pool!CreatePool(fee) PROVE PoolInv'
    <2>1. /\ poolPool = None /\ poolPool' = [a |-> 0, b |-> 0, lp |-> 0, fee |-> fee]
          /\ UNCHANGED <<poolPosition, poolReq, poolCharged, poolLost>>
      BY <1>2 DEF Pool!CreatePool
    <2>2. poolPool' \in Pool!PoolRow /\ poolPool'.lp = 0
      BY <2>1, PoolAssumption DEF Pool!PoolRow
    <2>3. TokenSum' = TokenSum /\ FeeSum' = FeeSum
      BY <1>1, <2>1
    <2> QED BY <2>1, <2>2, <2>3 DEF PoolInv, Pool!TypeOK
  <1>3. ASSUME NEW r \in Clients, Pool!Abort(r) PROVE PoolInv'
    <2>1. /\ poolReq' = [poolReq EXCEPT ![r] = Pool!Done]
          /\ UNCHANGED <<poolPool, poolPosition, poolCharged, poolLost>>
      BY <1>3 DEF Pool!Abort
    <2>2. TokenSum' = TokenSum /\ FeeSum' = FeeSum
      BY <1>1, <2>1
    <2> QED BY <2>1, <2>2 DEF PoolInv, Pool!TypeOK
  <1>4. ASSUME UNCHANGED Pool!vars PROVE PoolInv'
    <2>1. UNCHANGED <<poolPool, poolPosition, poolReq, poolCharged, poolLost>>
      BY <1>4 DEF Pool!vars
    <2>2. TokenSum' = TokenSum /\ FeeSum' = FeeSum
      BY <1>1, <2>1
    <2> QED BY <2>1, <2>2 DEF PoolInv, Pool!TypeOK
  <1> QED BY <1>2, <1>3, <1>4, AddInv, RemoveInv, SwapInv, CommitInv DEF Pool!Next

(***************************************************************************)
(* While no save has replaced another's, the pool's tokens are those of    *)
(* the positions, the fees credited do not exceed those charged, and the   *)
(* reserves are never negative, however requests overlap.                  *)
(***************************************************************************)
THEOREM PoolBacking == Pool!Spec => []PoolIsBacked
  <1>1. PoolInv => PoolIsBacked
    <2> SUFFICES ASSUME PoolInv, poolPool # None
                 PROVE  /\ ~poolLost => poolPool.lp = Pool!SumFunction(Pool!TokensOf)
                        /\ ~poolLost => Pool!SumFunction(Pool!FeesOf) <= poolCharged
                        /\ poolPool.a >= 0 /\ poolPool.b >= 0
      BY DEF PoolIsBacked, Pool!PoolIsBacked
    <2>1. DOMAIN Pool!TokensOf = PoolProviders /\ DOMAIN Pool!FeesOf = PoolProviders
      BY DEF Pool!TokensOf, Pool!FeesOf
    <2>2. Pool!SumFunction(Pool!TokensOf) = TokenSum /\ Pool!SumFunction(Pool!FeesOf) = FeeSum
      BY <2>1, PoolSum DEF TokenSum, FeeSum
    <2>3. poolPool.a >= 0 /\ poolPool.b >= 0
      BY DEF PoolInv, Pool!TypeOK, Pool!PoolRow
    <2> QED BY <2>2, <2>3 DEF PoolInv
  <1> QED BY <1>1, PoolInvInit, PoolInvNext, PTL DEF Pool!Spec

(***************************************************************************)
(* A step that replaces no other request's save leaves the reserves'       *)
(* product per squared token at least what it was.                         *)
(***************************************************************************)
THEOREM PoolShareValue == Pool!Spec => ShareValueNeverFalls
  <1>1. PoolInv /\ [Pool!Next]_(Pool!vars) => [Pool!ShareValueStep]_(Pool!vars)
    <2> SUFFICES ASSUME PoolInv, Pool!Next, poolPool # None, ~poolLost', poolPool.lp > 0, poolPool'.lp > 0
                 PROVE  poolPool'.a * poolPool'.b * poolPool.lp * poolPool.lp
                           >= poolPool.a * poolPool.b * poolPool'.lp * poolPool'.lp
      BY DEF Pool!ShareValueStep
    <2>1. ASSUME NEW r \in Clients, Pool!Commit(r) PROVE KeepsShareValue(poolPool, poolPool')
      <3> DEFINE q == poolReq[r]
      <3>1. q.pc = "commit" /\ poolPool' = q.save /\ poolPool = q.read
        BY <2>1 DEF Pool!Commit
      <3>2. q \in {Pool!New, Pool!Done} \cup {z \in PoolRequest : Fits(z)}
        BY DEF PoolInv
      <3>3. Fits(q)
        BY <3>1, <3>2 DEF Pool!New, Pool!Done
      <3> QED BY <3>1, <3>3 DEF Fits
    <2>2. CASE poolPool' = poolPool
      <3> DEFINE v == poolPool.a * poolPool.b * poolPool.lp * poolPool.lp
      <3>1. v \in Int
        BY DEF PoolInv, Pool!TypeOK, Pool!PoolRow
      <3> QED BY <2>2, <3>1
    <2>3. ASSUME NEW r \in Clients, NEW p \in PoolProviders,
                 \/ \E d \in PoolDeposits : Pool!AddLiquidity(r, p, d)
                 \/ \E t \in PoolTokens : Pool!RemoveLiquidity(r, p, t)
                 \/ \E x \in PoolInputs, m \in PoolMinOutputs, dir \in BOOLEAN : Pool!Swap(r, p, x, m, dir)
          PROVE  poolPool' = poolPool
      BY <2>3, ZenonT(60) DEF Pool!AddLiquidity, Pool!RemoveLiquidity, Pool!Swap, Pool!Begin
    <2>4. (\E r \in Clients : Pool!Commit(r)) \/ poolPool' = poolPool
      BY <2>3 DEF Pool!Next, Pool!CreatePool, Pool!Abort
    <2> QED BY <2>1, <2>2, <2>4 DEF KeepsShareValue
  <1> QED BY <1>1, PoolInvInit, PoolInvNext, PTL
          DEF Pool!Spec, ShareValueNeverFalls, Pool!ShareValueNeverFalls

-----------------------------------------------------------------------------
(* Prices                                                                  *)

PriceNames == Px!Known \cup {PxPrimary}

Asked(k) == {Px!fallbackOrder[j] : j \in 1..k}

PriceRequest ==
    {Px!New} \cup [pc : {"fetch"}, tried : 0..Len(Px!fallbackOrder)]
             \cup [pc : {"done"}, price : {None}, at : Nat]
             \cup [pc : {"done"}, price : PxPrices, at : Nat, stamp : Int, from : PriceNames]

\* What a request has asked so far, and what its answer rests on.
PriceAsked(q, refused) ==
    /\ q.pc = "new" => refused = Asked(0)
    /\ q.pc = "fetch" => refused = Asked(q.tried)
    /\ q.pc = "done" =>
        IF q.price = None THEN refused = Asked(Len(Px!fallbackOrder))
        ELSE /\ q.price > 0
             /\ q.stamp \in (q.at - PxMaxAge)..q.at
             /\ \E k \in 1..Len(Px!fallbackOrder) :
                    q.from = Px!fallbackOrder[k] /\ refused = Asked(k - 1)

PriceInv ==
    /\ pxReqs \in [Clients -> PriceRequest]
    /\ pxNow \in Nat
    /\ pxRefused \in [Clients -> SUBSET PriceNames]
    /\ \A r \in Clients : PriceAsked(pxReqs[r], pxRefused[r])
    /\ (\A r \in Clients : pxReqs[r].pc # "fetch") => pxGauge = pxOutcome

LEMMA PriceOrder == Px!fallbackOrder \in Seq(PriceNames)
  <1>1. CASE PxPrimary = "chainlink"
    BY <1>1 DEF Px!fallbackOrder, PriceNames, Px!Known
  <1>2. CASE PxPrimary = "band"
    BY <1>2 DEF Px!fallbackOrder, PriceNames, Px!Known
  <1>3. CASE PxPrimary = "custom"
    BY <1>3 DEF Px!fallbackOrder, PriceNames, Px!Known
  <1>4. CASE PxPrimary \notin {"chainlink", "band", "custom"}
    <2>1. Px!fallbackOrder = <<PxPrimary, "chainlink", "band", "custom">>
      BY <1>4 DEF Px!fallbackOrder
    <2>2. PxPrimary \in PriceNames /\ "chainlink" \in PriceNames /\ "band" \in PriceNames /\ "custom" \in PriceNames
      BY DEF PriceNames, Px!Known
    <2> QED BY <2>1, <2>2
  <1> QED BY <1>1, <1>2, <1>3, <1>4

\* A step of one request: what it has asked is right after the step, and the
\* gauge agrees with the outcome if it has ended.
LEMMA PriceStep ==
    ASSUME PriceInv, NEW r \in Clients, NEW q \in PriceRequest, NEW asked \in SUBSET PriceNames,
           pxReqs' = [pxReqs EXCEPT ![r] = q], pxRefused' = [pxRefused EXCEPT ![r] = asked],
           pxNow' \in Nat, PriceAsked(q, asked),
           q.pc = "fetch" \/ pxGauge' = pxOutcome'
    PROVE  PriceInv'
  <1>1. /\ pxReqs' \in [Clients -> PriceRequest] /\ pxRefused' \in [Clients -> SUBSET PriceNames]
        /\ pxReqs'[r] = q /\ pxRefused'[r] = asked
        /\ \A s \in Clients : s # r => pxReqs'[s] = pxReqs[s] /\ pxRefused'[s] = pxRefused[s]
    BY DEF PriceInv
  <1>2. \A s \in Clients : PriceAsked(pxReqs'[s], pxRefused'[s])
    BY <1>1 DEF PriceInv
  <1>3. (\A s \in Clients : pxReqs'[s].pc # "fetch") => pxGauge' = pxOutcome'
    BY <1>1
  <1>4. PriceNames' = PriceNames /\ PriceRequest' = PriceRequest
    BY DEF PriceNames, PriceRequest, Px!Known, Px!fallbackOrder, Px!New
  <1>5. \A s \in Clients : PriceAsked(pxReqs[s], pxRefused[s])'
    BY <1>2 DEF PriceAsked, Asked, Px!fallbackOrder
  <1> QED BY <1>1, <1>3, <1>5 DEF PriceInv

LEMMA PriceInvInit == Px!Init => PriceInv
  <1> SUFFICES ASSUME Px!Init PROVE PriceInv
    OBVIOUS
  <1>1. /\ pxReqs = [r \in Clients |-> Px!New] /\ pxGauge = 0 /\ pxNow = 0 /\ pxOutcome = 0
        /\ pxRefused = [r \in Clients |-> {}]
    BY DEF Px!Init
  <1>2. Asked(0) = {}
    BY DEF Asked
  <1>3. PriceAsked(Px!New, {})
    BY <1>2 DEF PriceAsked, Px!New
  <1>4. pxReqs \in [Clients -> PriceRequest]
    BY <1>1 DEF PriceRequest
  <1> QED BY <1>1, <1>3, <1>4 DEF PriceInv

LEMMA PriceInvNext == PriceInv /\ [Px!Next]_(Px!vars) => PriceInv'
  <1> SUFFICES ASSUME PriceInv, [Px!Next]_(Px!vars) PROVE PriceInv'
    OBVIOUS
  <1>1. ASSUME NEW r \in Clients
        PROVE  /\ pxReqs[r] \in PriceRequest /\ pxRefused[r] \in SUBSET PriceNames
               /\ PriceAsked(pxReqs[r], pxRefused[r])
    BY DEF PriceInv
  <1>2. ASSUME NEW r \in Clients, pxReqs[r].pc = "fetch"
        PROVE  /\ pxReqs[r] \in [pc : {"fetch"}, tried : 0..Len(Px!fallbackOrder)]
               /\ pxReqs[r].tried \in 0..Len(Px!fallbackOrder)
               /\ pxRefused[r] = Asked(pxReqs[r].tried)
    <2>1. pxReqs[r] \in [pc : {"fetch"}, tried : 0..Len(Px!fallbackOrder)]
      BY <1>1, <1>2 DEF PriceRequest, Px!New
    <2> QED BY <1>1, <1>2, <2>1 DEF PriceAsked
  <1>3. Len(Px!fallbackOrder) \in Nat
    BY PriceOrder
  <1>4. ASSUME NEW r \in Clients, pxReqs[r].pc = "fetch", pxReqs[r].tried < Len(Px!fallbackOrder)
        PROVE  /\ Px!Provider(r) \in PriceNames
               /\ pxRefused[r] \cup {Px!Provider(r)} = Asked(pxReqs[r].tried + 1)
    <2>1. pxReqs[r].tried \in 0..Len(Px!fallbackOrder) /\ pxRefused[r] = Asked(pxReqs[r].tried)
      BY <1>2, <1>4
    <2>2. Px!Provider(r) = Px!fallbackOrder[pxReqs[r].tried + 1]
      BY DEF Px!Provider
    <2> DEFINE k == pxReqs[r].tried
    <2>3. k \in Nat /\ k + 1 \in 1..Len(Px!fallbackOrder)
      BY <1>3, <1>4, <2>1
    <2> HIDE DEF k
    <2>4. 1..(k + 1) = (1..k) \cup {k + 1}
      BY <2>3
    <2>5. Asked(k + 1) = Asked(k) \cup {Px!fallbackOrder[k + 1]}
      BY <2>4 DEF Asked
    <2>6. Px!fallbackOrder[k + 1] \in PriceNames
      BY <2>3, PriceOrder
    <2> QED BY <2>1, <2>2, <2>5, <2>6 DEF k
  <1>5. ASSUME NEW r \in Clients, Px!FetchPrice(r) PROVE PriceInv'
    <2> DEFINE q == [pc |-> "fetch", tried |-> 0]
    <2>1. /\ pxReqs[r] = Px!New /\ pxReqs' = [pxReqs EXCEPT ![r] = q]
          /\ UNCHANGED <<pxGauge, pxNow, pxOutcome, pxRefused>>
      BY <1>5 DEF Px!FetchPrice
    <2>2. q \in PriceRequest
      BY <1>3 DEF PriceRequest
    <2>3. PriceAsked(q, pxRefused[r])
      BY <1>1, <2>1 DEF PriceAsked, Px!New
    <2>4. pxRefused' = [pxRefused EXCEPT ![r] = pxRefused[r]] /\ pxNow' \in Nat
      BY <2>1 DEF PriceInv
    <2>5. q.pc = "fetch"
      OBVIOUS
    <2> HIDE DEF q
    <2> QED BY <1>1, <2>1, <2>2, <2>3, <2>4, <2>5, PriceStep
  <1>6. ASSUME NEW r \in Clients, Px!Fail(r) \/ (\E p \in PxPrices, t \in (0..(PxMaxTime + 1)) \cup {None} : Px!Refuse(r, p, t))
        PROVE  PriceInv'
    <2> DEFINE q == [pc |-> "fetch", tried |-> pxReqs[r].tried + 1]
               asked == pxRefused[r] \cup {Px!Provider(r)}
    <2>1. /\ pxReqs[r].pc = "fetch" /\ pxReqs[r].tried < Len(Px!fallbackOrder)
          /\ pxReqs' = [pxReqs EXCEPT ![r].tried = @ + 1]
          /\ pxRefused' = [pxRefused EXCEPT ![r] = @ \cup {Px!Provider(r)}]
          /\ UNCHANGED <<pxNow, pxOutcome>>
      BY <1>6 DEF Px!Fail, Px!Refuse
    <2>2. q \in PriceRequest /\ asked \in SUBSET PriceNames /\ PriceAsked(q, asked)
      <3>1. pxReqs[r].tried + 1 \in 0..Len(Px!fallbackOrder)
        BY <1>2, <1>3, <2>1
      <3> QED BY <1>1, <1>4, <2>1, <3>1 DEF PriceRequest, PriceAsked
    <2>3. pxReqs' = [pxReqs EXCEPT ![r] = q]
      <3>1. [pxReqs[r] EXCEPT !.tried = @ + 1] = q
        BY <1>2, <2>1
      <3>2. pxReqs' = [pxReqs EXCEPT ![r] = [pxReqs[r] EXCEPT !.tried = @ + 1]]
        BY <2>1
      <3> QED BY <3>1, <3>2
    <2>4. pxRefused' = [pxRefused EXCEPT ![r] = asked] /\ pxNow' \in Nat /\ q.pc = "fetch"
      BY <2>1 DEF PriceInv
    <2> HIDE DEF q, asked
    <2> QED BY <2>2, <2>3, <2>4, PriceStep
  <1>7. ASSUME NEW r \in Clients, NEW p \in PxPrices, NEW t \in (0..(PxMaxTime + 1)) \cup {None}, Px!Answer(r, p, t)
        PROVE  PriceInv'
    <2> DEFINE s == Px!Stamp(Px!Provider(r), t)
               q == [pc |-> "done", price |-> p, at |-> pxNow, stamp |-> s, from |-> Px!Provider(r)]
    <2>1. /\ pxReqs[r].pc = "fetch" /\ pxReqs[r].tried < Len(Px!fallbackOrder)
          /\ p > 0 /\ ~Px!IsStale(s)
          /\ pxReqs' = [pxReqs EXCEPT ![r] = q]
          /\ pxGauge' = 0 /\ pxOutcome' = 0
          /\ UNCHANGED <<pxNow, pxRefused>>
      BY <1>7 DEF Px!Answer, Px!Accepted
    <2>2. pxNow \in Nat /\ s \in Int
      BY PriceAssumption DEF PriceInv, Px!Stamp
    <2>3. p \in Int /\ p # None
      BY PriceAssumption
    <2>4. s \in (pxNow - PxMaxAge)..pxNow
      <3> HIDE DEF s
      <3> QED BY <2>1, <2>2, PriceAssumption DEF Px!IsStale
    <2> HIDE DEF s
    <2>5. q \in PriceRequest
      <3>1. Px!Provider(r) \in PriceNames
        BY <1>4, <2>1
      <3> QED BY <2>2, <3>1 DEF PriceRequest
    <2>6. PriceAsked(q, pxRefused[r])
      <3> DEFINE k == pxReqs[r].tried + 1
      <3>1. /\ k \in 1..Len(Px!fallbackOrder) /\ Px!Provider(r) = Px!fallbackOrder[k]
            /\ pxRefused[r] = Asked(k - 1)
        BY <1>2, <1>3, <2>1 DEF Px!Provider
      <3> HIDE DEF k
      <3> QED BY <2>1, <2>3, <2>4, <3>1 DEF PriceAsked
    <2>7. pxRefused' = [pxRefused EXCEPT ![r] = pxRefused[r]] /\ pxNow' \in Nat /\ pxGauge' = pxOutcome'
      BY <2>1 DEF PriceInv
    <2> HIDE DEF q
    <2> QED BY <1>1, <2>1, <2>5, <2>6, <2>7, PriceStep
  <1>8. ASSUME NEW r \in Clients, Px!GiveUp(r) PROVE PriceInv'
    <2> DEFINE q == [pc |-> "done", price |-> None, at |-> pxNow]
    <2>1. /\ pxReqs[r].pc = "fetch" /\ pxReqs[r].tried = Len(Px!fallbackOrder)
          /\ pxReqs' = [pxReqs EXCEPT ![r] = q]
          /\ pxGauge' = 1 /\ pxOutcome' = 1
          /\ UNCHANGED <<pxNow, pxRefused>>
      BY <1>8 DEF Px!GiveUp, Px!NoneLeft
    <2>2. q \in PriceRequest
      BY DEF PriceInv, PriceRequest
    <2>3. PriceAsked(q, pxRefused[r])
      BY <1>2, <2>1 DEF PriceAsked
    <2>4. pxRefused' = [pxRefused EXCEPT ![r] = pxRefused[r]] /\ pxNow' \in Nat /\ pxGauge' = pxOutcome'
      BY <2>1 DEF PriceInv
    <2> HIDE DEF q
    <2> QED BY <1>1, <2>1, <2>2, <2>3, <2>4, PriceStep
  <1>9. ASSUME UNCHANGED <<pxReqs, pxGauge, pxOutcome, pxRefused>>, pxNow' \in Nat PROVE PriceInv'
    BY <1>9 DEF PriceInv, PriceAsked, Asked, PriceRequest, PriceNames, Px!fallbackOrder, Px!Known, Px!New
  <1>10. Px!Tick \/ UNCHANGED Px!vars => PriceInv'
    BY <1>9 DEF Px!Tick, Px!vars, PriceInv
  <1> QED BY <1>5, <1>6, <1>7, <1>8, <1>10 DEF Px!Next

(***************************************************************************)
(* Whichever provider is configured: a quoted price is positive, fresh and *)
(* the first that was to be had, a request fails only when all providers   *)
(* were asked, and between requests the gauge tells how the last one ended.*)
(***************************************************************************)
THEOREM PriceFreshness == Px!Spec => []PricesAreFresh
  <1>1. PriceInv => PricesAreFresh
    BY DEF PriceInv, PriceAsked, Asked, PricesAreFresh, Px!PricesAreFresh
  <1> QED BY <1>1, PriceInvInit, PriceInvNext, PTL DEF Px!Spec

-----------------------------------------------------------------------------
(* The distribution of fees                                                *)

\* A rule's shares add up, as CreateRule requires.
RuleShares ==
    {s \in [platform : Nat, lp : Nat, holders : Nat] : s.platform + s.lp + s.holders = FeeDenominator}

DistRequest ==
    [pc : {"allocate"}, shares : RuleShares, from : 0..FeeDistMaxTime, to : 0..FeeDistMaxTime, total : Nat]

RunRow ==
    [from : 0..FeeDistMaxTime, to : 0..FeeDistMaxTime, total : Nat, parts : Seq(Nat),
     toLP : [FeeProviders -> Nat], toHolders : [FeeHolders -> Nat], lp : Nat, holders : Nat]

RunFits(run) ==
    /\ run.parts[1] + run.parts[2] + run.parts[3] = run.total
    /\ Fee!SumFunction(run.toLP) <= run.parts[2]
    /\ run.lp > 0 => run.parts[2] - Fee!SumFunction(run.toLP) < Cardinality(FeeProviders)
    /\ Fee!SumFunction(run.toHolders) <= run.parts[3]
    /\ run.holders > 0 => run.parts[3] - Fee!SumFunction(run.toHolders) < Cardinality(FeeHolders)

DistInv ==
    /\ feeRules \in Seq([shares : RuleShares, active : BOOLEAN])
    /\ feeFees \in [0..FeeDistMaxTime -> Nat] /\ feeDistNow \in 0..FeeDistMaxTime
    /\ feeLpTokens \in [FeeProviders -> Nat] /\ feeBalances \in [FeeHolders -> Nat]
    /\ feeRuns \in Seq({run \in RunRow : RunFits(run)})
    /\ feeDistReq \in [Addr -> {Fee!New, Fee!Done} \cup DistRequest]

\* The sums of the fees' module are those of Sums.
LEMMA FeeSums ==
    /\ \A f : Fee!SumFunction(f) = SumFunctionOnSet(f, DOMAIN f)
    /\ \A f, S : Fee!SumFunctionOnSet(f, S) = SumFunctionOnSet(f, S)
  BY DEF Fee!SumFunction, Fee!SumFunctionOnSet, Fee!FoldFunctionOnSet, Fee!MapThenFoldSet,
         SumFunctionOnSet, FoldFunctionOnSet, MapThenFoldSet

\* The allocations of a part: no more than the part, and if anybody holds
\* anything, less than it by less than a unit for each member.
LEMMA ProRata ==
    ASSUME NEW S, IsFiniteSet(S), NEW x \in [S -> Nat], NEW n \in Nat
    PROVE  LET q == Fee!buildProRataAllocations(n, x) IN
           /\ q \in [S -> Nat]
           /\ Fee!SumFunction(q) \in 0..n /\ Fee!SumFunction(x) \in Nat
           /\ Fee!SumFunction(x) > 0 => n - Fee!SumFunction(q) < Cardinality(S)
  <1> DEFINE t == SumFunctionOnSet(x, S)
             q == Fee!buildProRataAllocations(n, x)
  <1>1. Fee!SumFunction(x) = t
    BY FeeSums
  <1>2. t \in Nat
    BY SumNat
  <1>3. DOMAIN q = S /\ \A s \in S : q[s] = IF t = 0 THEN 0 ELSE (n * x[s]) \div t
    BY <1>1 DEF Fee!buildProRataAllocations
  <1>4. q = [s \in S |-> q[s]]
    BY <1>3 DEF Fee!buildProRataAllocations
  <1>5. Fee!SumFunction(q) = SumFunctionOnSet(q, S)
    BY <1>3, FeeSums
  <1> HIDE DEF t, q
  <1>6. CASE t = 0
    <2>1. \A s \in S : q[s] = 0
      BY <1>3, <1>6
    <2>2. SumFunctionOnSet(q, S) = 0
      BY <2>1, SumZero
    <2> QED BY <1>1, <1>4, <1>5, <1>6, <2>1, <2>2 DEF q
  <1>7. CASE t # 0
    <2>1. \A s \in S : q[s] = (n * x[s]) \div t
      BY <1>3, <1>7
    <2>2. t > 0 /\ \A s \in S : x[s] \in Nat
      BY <1>2, <1>7
    <2>3. /\ \A s \in S : q[s] \in Nat
          /\ SumFunctionOnSet(q, S) \in 0..n
          /\ n - SumFunctionOnSet(q, S) < Cardinality(S)
      BY <2>1, <2>2, SharesOfSum DEF t
    <2> QED BY <1>1, <1>2, <1>4, <1>5, <2>3 DEF q
  <1> QED BY <1>6, <1>7

\* The three parts of a total are not negative: the holders' is what is left.
LEMMA PartsOfTotal ==
    ASSUME NEW q \in DistRequest
    PROVE  /\ Fee!PlatformAmount(q) \in Nat /\ Fee!LPAmount(q) \in Nat /\ Fee!HolderAmount(q) \in Nat
           /\ Fee!PlatformAmount(q) + Fee!LPAmount(q) + Fee!HolderAmount(q) = q.total
  <1> DEFINE d == FeeDenominator
             n == q.total
             s == q.shares.platform
             u == q.shares.lp
             x == n * s
             y == n * u
             p == x \div d
             l == y \div d
  <1>1. d \in Nat \ {0} /\ n \in Nat /\ s \in Nat /\ u \in Nat /\ s + u <= d
    BY DistributionAssumption DEF DistRequest, RuleShares
  <1>2. Fee!PlatformAmount(q) = p /\ Fee!LPAmount(q) = l /\ Fee!HolderAmount(q) = n - p - l
    BY DEF Fee!PlatformAmount, Fee!LPAmount, Fee!HolderAmount
  <1> HIDE DEF d, n, s, u
  <1>3. x \in Nat /\ y \in Nat /\ x + y <= n * d
    <2>1. x \in Nat /\ y \in Nat
      BY <1>1
    <2>2. x + y = n * (s + u)
      BY <1>1
    <2>3. n * (s + u) <= n * d
      BY <1>1
    <2> QED BY <2>1, <2>2, <2>3
  <1> HIDE DEF x, y
  <1>4. p \in Nat /\ l \in Nat /\ x - d * p >= 0 /\ y - d * l >= 0
    BY <1>1, <1>3, QuotientBounds
  <1> HIDE DEF p, l
  <1>5. d * (n - p - l) >= 0
    <2>1. d * (n - p - l) = n * d - d * p - d * l
      BY <1>1, <1>4
    <2>2. n * d \in Nat /\ d * p \in Nat /\ d * l \in Nat
      BY <1>1, <1>4
    <2> QED BY <1>3, <1>4, <2>1, <2>2
  <1>6. n - p - l \in Nat
    <2>1. n - p - l \in Int
      BY <1>1, <1>4
    <2>2. n - p - l >= 0
      BY <1>1, <1>5, <2>1, NonNegativeFactor
    <2> QED BY <2>1, <2>2
  <1>7. p + l + (n - p - l) = n
    BY <1>1, <1>4
  <1> QED BY <1>2, <1>4, <1>6, <1>7 DEF n

LEMMA AllocateInv ==
    ASSUME DistInv, NEW r \in Addr, Fee!Allocate(r)
    PROVE  DistInv'
  <1> DEFINE q == feeDistReq[r]
             run == [from |-> q.from, to |-> q.to, total |-> q.total,
                     parts |-> <<Fee!PlatformAmount(q), Fee!LPAmount(q), Fee!HolderAmount(q)>>,
                     toLP |-> Fee!buildProRataAllocations(Fee!LPAmount(q), feeLpTokens),
                     toHolders |-> Fee!buildProRataAllocations(Fee!HolderAmount(q), feeBalances),
                     lp |-> Fee!SumFunction(feeLpTokens), holders |-> Fee!SumFunction(feeBalances)]
  <1>1. /\ q.pc = "allocate" /\ feeRuns' = Append(feeRuns, run)
        /\ feeDistReq' = [feeDistReq EXCEPT ![r] = Fee!Done]
        /\ UNCHANGED <<feeRules, feeFees, feeLpTokens, feeBalances, feeDistNow>>
    BY DEF Fee!Allocate
  <1>2. q \in DistRequest
    <2>1. q \in {Fee!New, Fee!Done} \cup DistRequest
      BY DEF DistInv
    <2> QED BY <1>1, <2>1 DEF Fee!New, Fee!Done
  <1> DEFINE P == Fee!PlatformAmount(q)
             L == Fee!LPAmount(q)
             H == Fee!HolderAmount(q)
  <1>3. P \in Nat /\ L \in Nat /\ H \in Nat /\ P + L + H = q.total
    BY <1>2, PartsOfTotal
  <1>4. /\ Fee!buildProRataAllocations(L, feeLpTokens) \in [FeeProviders -> Nat]
        /\ Fee!SumFunction(Fee!buildProRataAllocations(L, feeLpTokens)) \in 0..L
        /\ Fee!SumFunction(feeLpTokens) \in Nat
        /\ Fee!SumFunction(feeLpTokens) > 0 =>
              L - Fee!SumFunction(Fee!buildProRataAllocations(L, feeLpTokens)) < Cardinality(FeeProviders)
    <2> HIDE DEF L
    <2>1. feeLpTokens \in [FeeProviders -> Nat] /\ IsFiniteSet(FeeProviders)
      BY DistributionAssumption DEF DistInv
    <2> QED BY <1>3, <2>1, ProRata
  <1>5. /\ Fee!buildProRataAllocations(H, feeBalances) \in [FeeHolders -> Nat]
        /\ Fee!SumFunction(Fee!buildProRataAllocations(H, feeBalances)) \in 0..H
        /\ Fee!SumFunction(feeBalances) \in Nat
        /\ Fee!SumFunction(feeBalances) > 0 =>
              H - Fee!SumFunction(Fee!buildProRataAllocations(H, feeBalances)) < Cardinality(FeeHolders)
    <2> HIDE DEF H
    <2>1. feeBalances \in [FeeHolders -> Nat] /\ IsFiniteSet(FeeHolders)
      BY DistributionAssumption DEF DistInv
    <2> QED BY <1>3, <2>1, ProRata
  <1>6. q.from \in 0..FeeDistMaxTime /\ q.to \in 0..FeeDistMaxTime /\ q.total \in Nat
    BY <1>2 DEF DistRequest
  <1> HIDE DEF P, L, H, q
  <1>7. /\ run.parts = <<P, L, H>> /\ run.total = q.total
        /\ run.toLP = Fee!buildProRataAllocations(L, feeLpTokens)
        /\ run.toHolders = Fee!buildProRataAllocations(H, feeBalances)
        /\ run.lp = Fee!SumFunction(feeLpTokens) /\ run.holders = Fee!SumFunction(feeBalances)
    BY DEF P, L, H
  <1>8. run \in RunRow
    <2>1. <<P, L, H>> \in Seq(Nat)
      BY <1>3
    <2> QED BY <1>4, <1>5, <1>6, <2>1 DEF RunRow, P, L, H
  <1> HIDE DEF run
  <1>9. RunFits(run)
    BY <1>3, <1>4, <1>5, <1>7 DEF RunFits
  <1>10. feeRuns' \in Seq({x \in RunRow : RunFits(x)})
    BY <1>1, <1>8, <1>9 DEF DistInv
  <1>11. feeDistReq' \in [Addr -> {Fee!New, Fee!Done} \cup DistRequest]
    BY <1>1 DEF DistInv
  <1> QED BY <1>1, <1>10, <1>11 DEF DistInv, Fee!New, Fee!Done, Fee!SumFunction, Fee!SumFunctionOnSet,
             Fee!FoldFunctionOnSet, Fee!MapThenFoldSet, RunFits

LEMMA DistInvInit == Fee!DistInit => DistInv
  <1> SUFFICES ASSUME Fee!DistInit PROVE DistInv
    OBVIOUS
  <1>1. feeDistReq \in [Addr -> {Fee!New, Fee!Done} \cup DistRequest]
    BY DEF Fee!DistInit
  <1>2. feeRules = <<>> /\ feeRuns = <<>> /\ feeDistNow = 0
    BY DEF Fee!DistInit
  <1> QED BY <1>1, <1>2, DistributionAssumption DEF Fee!DistInit, DistInv

LEMMA DistInvNext == DistInv /\ [Fee!DistNext]_(Fee!distVars) => DistInv'
  <1> SUFFICES ASSUME DistInv, [Fee!DistNext]_(Fee!distVars) PROVE DistInv'
    OBVIOUS
  <1>1. /\ feeRules \in Seq([shares : RuleShares, active : BOOLEAN])
        /\ feeFees \in [0..FeeDistMaxTime -> Nat] /\ feeDistNow \in 0..FeeDistMaxTime
        /\ feeLpTokens \in [FeeProviders -> Nat] /\ feeBalances \in [FeeHolders -> Nat]
        /\ feeDistReq \in [Addr -> {Fee!New, Fee!Done} \cup DistRequest]
    BY DEF DistInv
  <1>1a. \A j \in DOMAIN feeRules : feeRules[j] \in [shares : RuleShares, active : BOOLEAN]
    <2> DEFINE Row == [shares : RuleShares, active : BOOLEAN]
    <2>1. feeRules \in Seq(Row)
      BY <1>1
    <2> HIDE DEF Row
    <2>2. \A j \in DOMAIN feeRules : feeRules[j] \in Row
      BY <2>1
    <2> QED BY <2>2 DEF Row
  <1>2. ASSUME UNCHANGED feeRuns,
               feeRules' \in Seq([shares : RuleShares, active : BOOLEAN]),
               feeFees' \in [0..FeeDistMaxTime -> Nat], feeDistNow' \in 0..FeeDistMaxTime,
               feeLpTokens' \in [FeeProviders -> Nat], feeBalances' \in [FeeHolders -> Nat],
               feeDistReq' \in [Addr -> {Fee!New, Fee!Done} \cup DistRequest]
        PROVE  DistInv'
    BY <1>2 DEF DistInv, Fee!New, Fee!Done, RunFits, Fee!SumFunction, Fee!SumFunctionOnSet,
             Fee!FoldFunctionOnSet, Fee!MapThenFoldSet
  <1>3. ASSUME NEW s \in FeeShares, Fee!CreateRule(s) PROVE DistInv'
    <2>1. s \in RuleShares
      BY <1>3, DistributionAssumption DEF Fee!CreateRule, RuleShares
    <2>2. feeRules' \in Seq([shares : RuleShares, active : BOOLEAN])
      BY <1>1, <1>3, <2>1 DEF Fee!CreateRule
    <2> QED BY <1>1, <1>2, <1>3, <2>2 DEF Fee!CreateRule
  <1>4. ASSUME NEW i \in DOMAIN feeRules, Fee!ActivateRule(i) PROVE DistInv'
    <2>1. feeRules' = [j \in DOMAIN feeRules |-> [feeRules[j] EXCEPT !.active = (j = i)]]
      BY <1>4 DEF Fee!ActivateRule
    <2>2. DOMAIN feeRules = 1..Len(feeRules) /\ Len(feeRules) \in Nat
      BY <1>1
    <2>3. ASSUME NEW j \in DOMAIN feeRules
          PROVE  [feeRules[j] EXCEPT !.active = (j = i)] \in [shares : RuleShares, active : BOOLEAN]
      BY <1>1a
    <2>4. feeRules' \in Seq([shares : RuleShares, active : BOOLEAN])
      BY <2>1, <2>2, <2>3
    <2> QED BY <1>1, <1>2, <1>4, <2>4 DEF Fee!ActivateRule
  <1>5. ASSUME NEW a \in FeeCollected, Fee!CollectFee(a) PROVE DistInv'
    <2>1. feeFees' \in [0..FeeDistMaxTime -> Nat]
      BY <1>1, <1>5, DistributionAssumption DEF Fee!CollectFee
    <2> QED BY <1>1, <1>2, <1>5, <2>1 DEF Fee!CollectFee
  <1>6. ASSUME NEW p \in FeeProviders, NEW h \in FeeHolders, NEW a \in 0..FeeMaxShare, NEW b \in 0..FeeMaxShare,
               Fee!MoveShares(p, h, a, b)
        PROVE  DistInv'
    <2>1. feeLpTokens' \in [FeeProviders -> Nat] /\ feeBalances' \in [FeeHolders -> Nat]
      BY <1>1, <1>6, DistributionAssumption DEF Fee!MoveShares
    <2> QED BY <1>1, <1>2, <1>6, <2>1 DEF Fee!MoveShares
  <1>7. ASSUME NEW r \in Addr, NEW a \in 0..FeeDistMaxTime, NEW b \in 0..FeeDistMaxTime,
               Fee!RunDistribution(r, a, b)
        PROVE  DistInv'
    <2>1. Fee!TotalOf(a, b) \in Nat
      <3> DEFINE T == {t \in 0..FeeDistMaxTime : a <= t /\ t < b}
      <3>1. IsFiniteSet(T)
        <4>1. IsFiniteSet(0..FeeDistMaxTime)
          BY DistributionAssumption, FS_Interval
        <4>2. T \in SUBSET (0..FeeDistMaxTime)
          OBVIOUS
        <4> HIDE DEF T
        <4> QED BY <4>1, <4>2, FS_Subset
      <3>2. \A t \in T : feeFees[t] \in Nat
        BY <1>1
      <3>3. Fee!TotalOf(a, b) = SumFunctionOnSet(feeFees, T)
        BY FeeSums DEF Fee!TotalOf
      <3> HIDE DEF T
      <3> QED BY <3>1, <3>2, <3>3, SumNat
    <2>2. PICK i \in Fee!Active :
             feeDistReq' = [feeDistReq EXCEPT ![r] = [pc |-> "allocate", shares |-> feeRules[i].shares,
                                                      from |-> a, to |-> b, total |-> Fee!TotalOf(a, b)]]
      BY <1>7 DEF Fee!RunDistribution
    <2>3. feeRules[i].shares \in RuleShares
      BY <1>1a DEF Fee!Active
    <2>4. feeDistReq' \in [Addr -> {Fee!New, Fee!Done} \cup DistRequest]
      BY <1>1, <2>1, <2>2, <2>3 DEF DistRequest
    <2> QED BY <1>1, <1>2, <1>7, <2>4 DEF Fee!RunDistribution
  <1>8. ASSUME NEW r \in Addr, Fee!AllocateFails(r) PROVE DistInv'
    <2>1. feeDistReq' \in [Addr -> {Fee!New, Fee!Done} \cup DistRequest]
      BY <1>1, <1>8 DEF Fee!AllocateFails
    <2> QED BY <1>1, <1>2, <1>8, <2>1 DEF Fee!AllocateFails
  <1>9. ASSUME Fee!DistTick PROVE DistInv'
    <2>1. feeDistNow' \in 0..FeeDistMaxTime
      BY <1>1, <1>9, DistributionAssumption DEF Fee!DistTick
    <2> QED BY <1>1, <1>2, <1>9, <2>1 DEF Fee!DistTick
  <1>10. ASSUME UNCHANGED Fee!distVars PROVE DistInv'
    BY <1>1, <1>2, <1>10 DEF Fee!distVars
  <1> QED BY <1>3, <1>4, <1>5, <1>6, <1>7, <1>8, <1>9, <1>10, AllocateInv DEF Fee!DistNext

-----------------------------------------------------------------------------
(* Fee rules, their audit log and quotes                                   *)

FeeRow == {c \in Fee!ConfigRow : IsFiniteSet(c.tiers) /\ Fee!validateConfig(c)}

FeeEntry == [config : Nat, action : {"created", "updated", "deactivated"}, prev : FeeRow \cup {None}, new : FeeRow]

\* A change of a rule of ids that has read its row.
FeeChange(ids) ==
    {q \in [pc : {"updated", "deactivated"}, id : ids, prev : FeeRow, new : FeeRow] :
        q.pc = "deactivated" => q.new = [q.prev EXCEPT !.active = FALSE]}

EntriesIn(lg, i) == {k \in DOMAIN lg : lg[k].config = i}

\* The entries of a rule in the log lead to its row.
LeadTo(lg, i, row) ==
    /\ \E k \in EntriesIn(lg, i) : (\A j \in EntriesIn(lg, i) : j <= k) /\ lg[k].new = row
    /\ \A j, k \in EntriesIn(lg, i) :
          (j < k /\ \A m \in EntriesIn(lg, i) : m <= j \/ k <= m) => lg[k].prev = lg[j].new

QuoteIsFair(q) ==
    /\ q.bps >= q.config.min /\ q.fee >= 0
    /\ (\A t \in q.config.tiers : t.discount >= 0) => q.bps <= q.config.base
    /\ q.bps <= FeeBpsUnit => q.net >= 0

FeeInv ==
    /\ feeConfigs \in Seq(FeeRow) /\ feeLog \in Seq(FeeEntry)
    /\ \A k \in DOMAIN feeLog : feeLog[k].config \in DOMAIN feeConfigs
    /\ feeReq \in [Clients -> {Fee!New, Fee!Done} \cup FeeChange(DOMAIN feeConfigs)]
    /\ \A i \in DOMAIN feeConfigs \ feeRaced : LeadTo(feeLog, i, feeConfigs[i])
    /\ feeQuote # None => QuoteIsFair(feeQuote)

\* The log after one more entry.
LEMMA LogGrows ==
    ASSUME NEW lg \in Seq(FeeEntry), NEW e \in FeeEntry
    PROVE  /\ Append(lg, e) \in Seq(FeeEntry) /\ Len(lg) + 1 \in Nat
           /\ DOMAIN lg = 1..Len(lg) /\ DOMAIN Append(lg, e) = 1..(Len(lg) + 1)
           /\ Append(lg, e)[Len(lg) + 1] = e
           /\ \A k \in 1..Len(lg) : Append(lg, e)[k] = lg[k]
           /\ \A i : EntriesIn(Append(lg, e), i)
                        = IF e.config = i THEN EntriesIn(lg, i) \cup {Len(lg) + 1} ELSE EntriesIn(lg, i)
  <1>1. /\ Append(lg, e) \in Seq(FeeEntry) /\ Len(lg) \in Nat
        /\ DOMAIN lg = 1..Len(lg) /\ DOMAIN Append(lg, e) = 1..(Len(lg) + 1)
        /\ Append(lg, e)[Len(lg) + 1] = e
        /\ \A k \in 1..Len(lg) : Append(lg, e)[k] = lg[k]
    <2> DEFINE S == FeeEntry
    <2>1. lg \in Seq(S) /\ e \in S
      OBVIOUS
    <2> HIDE DEF S
    <2> QED BY <2>1 DEF S
  <1>2. ASSUME NEW i
        PROVE  EntriesIn(Append(lg, e), i)
                  = IF e.config = i THEN EntriesIn(lg, i) \cup {Len(lg) + 1} ELSE EntriesIn(lg, i)
    <2> DEFINE n == Len(lg) + 1
               new == Append(lg, e)
    <2>1. /\ DOMAIN lg = 1..Len(lg) /\ DOMAIN new = (1..Len(lg)) \cup {n}
          /\ new[n] = e /\ \A k \in 1..Len(lg) : new[k] = lg[k]
      BY <1>1
    <2> HIDE DEF n, new
    <2> QED BY <2>1 DEF EntriesIn, n, new
  <1> QED BY <1>1, <1>2

\* An entry about another rule.
LEMMA OtherRule ==
    ASSUME NEW lg \in Seq(FeeEntry), NEW e \in FeeEntry, NEW i, NEW row, e.config # i, LeadTo(lg, i, row)
    PROVE  LeadTo(Append(lg, e), i, row)
  <1> DEFINE new == Append(lg, e)
  <1>1. /\ EntriesIn(new, i) = EntriesIn(lg, i)
        /\ \A k \in EntriesIn(lg, i) : new[k] = lg[k]
    BY LogGrows DEF EntriesIn
  <1> HIDE DEF new
  <1> QED BY <1>1 DEF LeadTo, new

\* An entry that takes up where the rule's entries ended, or its first one.
LEMMA SameRule ==
    ASSUME NEW lg \in Seq(FeeEntry), NEW e \in FeeEntry, NEW i, NEW row, e.config = i,
           EntriesIn(lg, i) = {} \/ (LeadTo(lg, i, row) /\ e.prev = row)
    PROVE  LeadTo(Append(lg, e), i, e.new)
  <1> DEFINE new == Append(lg, e)
             n == Len(lg) + 1
             E == EntriesIn(lg, i)
  <1>1. /\ EntriesIn(new, i) = E \cup {n} /\ n \in Nat
        /\ new[n] = e /\ \A k \in E : new[k] = lg[k] /\ k \in Nat /\ k < n
    <2>1. \A k \in E : k \in 1..Len(lg)
      BY LogGrows DEF EntriesIn
    <2>2. Len(lg) \in Nat
      OBVIOUS
    <2>3. \A k \in E : k \in Nat /\ k < n
      <3> HIDE DEF E
      <3> QED BY <2>1, <2>2
    <2> HIDE DEF E
    <2>4. EntriesIn(new, i) = E \cup {n}
      BY LogGrows DEF E
    <2>5. n \in Nat /\ new[n] = e /\ \A k \in E : new[k] = lg[k]
      BY <2>1, LogGrows
    <2> QED BY <2>3, <2>4, <2>5
  <1>2. LeadTo(lg, i, row) =>
            /\ \E k \in E : (\A j \in E : j <= k) /\ lg[k].new = row
            /\ \A j, k \in E : (j < k /\ \A m \in E : m <= j \/ k <= m) => lg[k].prev = lg[j].new
    BY DEF LeadTo
  <1>2a. E # {} => LeadTo(lg, i, row) /\ e.prev = row
    OBVIOUS
  <1> HIDE DEF new, n, E
  <1>3. ASSUME NEW j \in E \cup {n}, NEW k \in E \cup {n}, j < k, \A m \in E \cup {n} : m <= j \/ k <= m
        PROVE  new[k].prev = new[j].new
    <2>1. j \in E
      BY <1>1, <1>3
    <2>2. LeadTo(lg, i, row) /\ e.prev = row
      BY <1>2a, <2>1
    <2>3. CASE k \in E
      <3>1. lg[k].prev = lg[j].new
        BY <1>2, <1>3, <2>1, <2>2, <2>3
      <3> QED BY <1>1, <2>1, <2>3, <3>1
    <2>4. CASE k = n
      <3>1. PICK last \in E : (\A x \in E : x <= last) /\ lg[last].new = row
        BY <1>2, <2>2
      <3>2. last <= j /\ j <= last
        <4>1. last \in Nat /\ last < n /\ n \in Nat
          BY <1>1
        <4>2. last <= j \/ n <= last
          BY <1>3, <2>4
        <4> QED BY <2>1, <3>1, <4>1, <4>2
      <3>3. j = last
        BY <1>1, <2>1, <3>2
      <3> QED BY <1>1, <2>1, <2>2, <2>4, <3>1, <3>3
    <2> QED BY <2>3, <2>4
  <1>4. \A j \in E \cup {n} : j <= n
    BY <1>1
  <1> QED BY <1>1, <1>3, <1>4 DEF LeadTo, new

\* Of finitely many tiers one has the highest threshold.
LEMMA HighestTier ==
    ASSUME NEW R, IsFiniteSet(R), R # {}, \A t \in R : t.volume \in Int
    PROVE  \E t \in R : \A u \in R : u.volume <= t.volume
  <1> DEFINE Above(t) == {u \in R : u.volume > t.volume}
             T == {Above(t) : t \in R}
  <1>1. T \in SUBSET (SUBSET R) /\ T # {}
    OBVIOUS
  <1>2. PICK x \in T : \A y \in T : y \subseteq x => y = x
    <2> HIDE DEF T
    <2> QED BY <1>1, MinimalSubset
  <1>3. PICK t \in R : x = Above(t)
    BY <1>2
  <1>4. ASSUME NEW u \in R, ~(u.volume <= t.volume) PROVE FALSE
    <2>1. u \in Above(t) /\ u \notin Above(u)
      BY <1>4
    <2>2. Above(u) \subseteq Above(t)
      BY <1>4
    <2>3. Above(u) = Above(t)
      BY <1>2, <1>3, <2>2
    <2> QED BY <2>1, <2>3
  <1> QED BY <1>4

\* The discount of the highest tier, down to the floor.
LEMMA DiscountedRate ==
    ASSUME NEW c \in FeeRow, NEW v \in Int
    PROVE  LET bps == Fee!applyTierDiscount(c, v) IN
           /\ bps \in Int /\ bps >= c.min
           /\ (\A t \in c.tiers : t.discount >= 0) => bps <= c.base
  <1>1. /\ c.base \in Int /\ c.min \in Int /\ c.min <= c.base
        /\ c.tiers \in SUBSET Fee!Tier /\ IsFiniteSet(c.tiers)
    BY DEF FeeRow, Fee!ConfigRow, Fee!validateConfig
  <1> DEFINE R == Fee!Reached(c, v)
             IsTop(t) == \A u \in R : u.volume <= t.volume
  <1>2. CASE R = {}
    BY <1>1, <1>2 DEF Fee!applyTierDiscount
  <1>3. CASE R # {}
    <2>1. R \in SUBSET c.tiers /\ \A t \in R : t.volume \in Int /\ t.discount \in Int
      BY <1>1 DEF Fee!Reached, Fee!Tier
    <2>2. \E t \in R : IsTop(t)
      <3>1. IsFiniteSet(R)
        BY <1>1, <2>1, FS_Subset
      <3> HIDE DEF R
      <3> QED BY <1>3, <2>1, <3>1, HighestTier
    <2> DEFINE top == CHOOSE t \in R : IsTop(t)
               y == c.base - top.discount
    <2>3. top \in R
      <3> HIDE DEF R, IsTop
      <3> QED BY <2>2
    <2>4. Fee!applyTierDiscount(c, v) = Fee!Max({y, c.min})
      BY <1>3 DEF Fee!applyTierDiscount
    <2>5. top.discount \in Int /\ top \in c.tiers
      BY <2>1, <2>3
    <2> HIDE DEF top, R
    <2>6. y \in Int
      BY <1>1, <2>5
    <2>7. (\A t \in c.tiers : t.discount >= 0) => y <= c.base
      BY <1>1, <2>5
    <2>8. \A a, b \in Int : Fee!Max({a, b}) \in {a, b} /\ Fee!Max({a, b}) >= b
      <3> SUFFICES ASSUME NEW a \in Int, NEW b \in Int
                   PROVE  Fee!Max({a, b}) \in {a, b} /\ Fee!Max({a, b}) >= b
        OBVIOUS
      <3>1. \E m \in {a, b} : \A z \in {a, b} : m >= z
        OBVIOUS
      <3> QED BY <3>1 DEF Fee!Max
    <2> HIDE DEF y
    <2> DEFINE w == Fee!Max({y, c.min})
    <2>9. w \in {y, c.min} /\ w >= c.min
      BY <1>1, <2>6, <2>8
    <2> HIDE DEF w
    <2> QED BY <1>1, <2>4, <2>6, <2>7, <2>9 DEF w
  <1> QED BY <1>2, <1>3

LEMMA FeeInvInit == Fee!Init => FeeInv
  <1> SUFFICES ASSUME Fee!Init PROVE FeeInv
    OBVIOUS
  <1>1. /\ feeConfigs = <<>> /\ feeLog = <<>> /\ feeQuote = None
        /\ feeReq = [r \in Clients |-> Fee!New]
    BY DEF Fee!Init
  <1> QED BY <1>1 DEF FeeInv

\* A request that ends, or one that begins, after the rules have grown or not.
LEMMA FeeRequests ==
    ASSUME NEW ids, NEW more, ids \subseteq more, NEW r \in Clients,
           NEW q \in {Fee!New, Fee!Done} \cup FeeChange(more),
           NEW reqs \in [Clients -> {Fee!New, Fee!Done} \cup FeeChange(ids)]
    PROVE  [reqs EXCEPT ![r] = q] \in [Clients -> {Fee!New, Fee!Done} \cup FeeChange(more)]
  <1>1. FeeChange(ids) \subseteq FeeChange(more)
    BY DEF FeeChange
  <1> QED BY <1>1

LEMMA FeeCreateInv ==
    ASSUME FeeInv, NEW r \in Clients, NEW c \in FeeConfigInputs, Fee!CreateFeeConfig(r, c)
    PROVE  FeeInv'
  <1> DEFINE i == Len(feeConfigs) + 1
             e == Fee!Entry(i, "created", None, c)
  <1>1. /\ feeConfigs' = Append(feeConfigs, c) /\ feeLog' = Append(feeLog, e)
        /\ feeReq' = [feeReq EXCEPT ![r] = Fee!Done]
        /\ UNCHANGED <<feeRaced, feeQuote, feeNow>>
    BY DEF Fee!CreateFeeConfig
  <1>2. c \in FeeRow
    BY FeeAssumption DEF Fee!CreateFeeConfig, FeeRow
  <1>3. /\ feeConfigs' \in Seq(FeeRow) /\ i \in Nat \ {0}
        /\ DOMAIN feeConfigs = 1..(i - 1) /\ DOMAIN feeConfigs' = 1..i
        /\ feeConfigs'[i] = c /\ \A j \in 1..(i - 1) : feeConfigs'[j] = feeConfigs[j]
    <2> DEFINE S == FeeRow
    <2>1. feeConfigs \in Seq(S) /\ c \in S
      BY <1>2 DEF FeeInv
    <2> HIDE DEF S
    <2> QED BY <1>1, <2>1 DEF S
  <1> HIDE DEF i
  <1>4. e \in FeeEntry /\ e.config = i /\ e.new = c
    BY <1>2, <1>3 DEF FeeEntry, Fee!Entry
  <1> HIDE DEF e
  <1>5. feeLog \in Seq(FeeEntry) /\ \A k \in DOMAIN feeLog : feeLog[k].config \in 1..(i - 1)
    BY <1>3 DEF FeeInv
  <1>6. feeLog' \in Seq(FeeEntry) /\ \A k \in DOMAIN feeLog' : feeLog'[k].config \in DOMAIN feeConfigs'
    <2>1. /\ Append(feeLog, e) \in Seq(FeeEntry) /\ Len(feeLog) + 1 \in Nat
          /\ DOMAIN feeLog = 1..Len(feeLog) /\ DOMAIN Append(feeLog, e) = 1..(Len(feeLog) + 1)
          /\ Append(feeLog, e)[Len(feeLog) + 1] = e
          /\ \A k \in 1..Len(feeLog) : Append(feeLog, e)[k] = feeLog[k]
      BY <1>4, <1>5, LogGrows
    <2> QED BY <1>1, <1>3, <1>4, <1>5, <2>1
  <1>7. ASSUME NEW j \in DOMAIN feeConfigs' \ feeRaced' PROVE LeadTo(feeLog', j, feeConfigs'[j])
    <2>1. CASE j = i
      <3>1. EntriesIn(feeLog, i) = {}
        BY <1>3, <1>5 DEF EntriesIn
      <3>2. LeadTo(Append(feeLog, e), i, e.new)
        BY <1>4, <1>5, <3>1, SameRule
      <3> QED BY <1>1, <1>3, <1>4, <2>1, <3>2
    <2>2. CASE j # i
      <3>1. j \in 1..(i - 1) /\ j \notin feeRaced
        BY <1>1, <1>3, <1>7, <2>2
      <3>2. LeadTo(feeLog, j, feeConfigs[j])
        BY <1>3, <3>1 DEF FeeInv
      <3>3. LeadTo(Append(feeLog, e), j, feeConfigs[j])
        BY <1>4, <1>5, <2>2, <3>2, OtherRule
      <3> QED BY <1>1, <1>3, <3>1, <3>3
    <2> QED BY <2>1, <2>2
  <1>8. feeReq' \in [Clients -> {Fee!New, Fee!Done} \cup FeeChange(DOMAIN feeConfigs')]
    <2>1. DOMAIN feeConfigs \subseteq DOMAIN feeConfigs'
      BY <1>3
    <2>2. feeReq \in [Clients -> {Fee!New, Fee!Done} \cup FeeChange(DOMAIN feeConfigs)]
      BY DEF FeeInv
    <2> QED BY <1>1, <2>1, <2>2, FeeRequests
  <1>9. feeQuote' # None => QuoteIsFair(feeQuote')
    BY <1>1 DEF FeeInv
  <1> QED BY <1>3, <1>6, <1>7, <1>8, <1>9 DEF FeeInv, Fee!New, Fee!Done, LeadTo, EntriesIn, QuoteIsFair

LEMMA FeeCommitInv ==
    ASSUME FeeInv, NEW r \in Clients, Fee!Commit(r)
    PROVE  FeeInv'
  <1> DEFINE q == feeReq[r]
             row == Fee!SavedRow(q)
             e == Fee!Logged(q)
             ids == DOMAIN feeConfigs
  <1>1. /\ q.pc \in {"updated", "deactivated"}
        /\ feeConfigs' = [feeConfigs EXCEPT ![q.id] = row] /\ feeLog' = Append(feeLog, e)
        /\ feeRaced' = IF feeConfigs[q.id] # q.prev THEN feeRaced \cup {q.id} ELSE feeRaced
        /\ feeReq' = [feeReq EXCEPT ![r] = Fee!Done]
        /\ UNCHANGED <<feeQuote, feeNow>>
    BY DEF Fee!Commit
  <1>2. q \in FeeChange(ids)
    <2>1. q \in {Fee!New, Fee!Done} \cup FeeChange(ids)
      BY DEF FeeInv
    <2> QED BY <1>1, <2>1 DEF Fee!New, Fee!Done
  <1> HIDE DEF q
  <1>3. /\ feeConfigs \in Seq(FeeRow) /\ feeLog \in Seq(FeeEntry)
        /\ \A k \in DOMAIN feeLog : feeLog[k].config \in ids
        /\ ids = 1..Len(feeConfigs) /\ Len(feeConfigs) \in Nat
        /\ \A i \in ids : feeConfigs[i] \in FeeRow
    <2> DEFINE S == FeeRow
    <2>1. feeConfigs \in Seq(S)
      BY DEF FeeInv
    <2> HIDE DEF S
    <2>2. ids = 1..Len(feeConfigs) /\ Len(feeConfigs) \in Nat /\ \A i \in ids : feeConfigs[i] \in S
      BY <2>1
    <2> QED BY <2>1, <2>2 DEF S, FeeInv
  <1>4. /\ q.id \in ids /\ q.id \in Nat /\ q.prev \in FeeRow /\ q.new \in FeeRow
        /\ q.pc = "deactivated" => q.new = [q.prev EXCEPT !.active = FALSE]
    BY <1>2, <1>3 DEF FeeChange
  <1>5. row \in FeeRow /\ (feeConfigs[q.id] = q.prev => row = q.new)
    <2>1. ASSUME NEW c \in FeeRow PROVE [c EXCEPT !.active = FALSE] \in FeeRow
      <3> DEFINE d == [c EXCEPT !.active = FALSE]
      <3>1. d \in Fee!ConfigRow /\ d.tiers = c.tiers /\ d.min = c.min /\ d.base = c.base /\ d.max = c.max
        BY DEF FeeRow, Fee!ConfigRow
      <3>2. IsFiniteSet(c.tiers) /\ Fee!validateConfig(c)
        BY DEF FeeRow
      <3> HIDE DEF d
      <3>3. d \in FeeRow
        BY <3>1, <3>2 DEF FeeRow, Fee!validateConfig
      <3> QED BY <3>3 DEF d
    <2> QED BY <1>1, <1>3, <1>4, <2>1 DEF Fee!SavedRow
  <1>6. /\ e \in FeeEntry /\ e.config = q.id /\ e.prev = q.prev /\ e.new = q.new
    BY <1>1, <1>4 DEF FeeEntry, Fee!Logged, Fee!Entry
  <1> HIDE DEF row, e
  <1>7. /\ feeConfigs' \in Seq(FeeRow) /\ DOMAIN feeConfigs' = ids
        /\ feeConfigs'[q.id] = row /\ \A i \in ids : i # q.id => feeConfigs'[i] = feeConfigs[i]
    <2> DEFINE S == FeeRow
    <2>1. feeConfigs \in Seq(S) /\ row \in S
      BY <1>3, <1>5
    <2> HIDE DEF S
    <2>2. feeConfigs' \in Seq(S)
      BY <1>1, <1>3, <1>4, <2>1, ExceptSeq
    <2> QED BY <1>1, <1>4, <2>2 DEF S
  <1>8. feeLog' \in Seq(FeeEntry) /\ \A k \in DOMAIN feeLog' : feeLog'[k].config \in ids
    <2>1. /\ Append(feeLog, e) \in Seq(FeeEntry) /\ Len(feeLog) + 1 \in Nat
          /\ DOMAIN feeLog = 1..Len(feeLog) /\ DOMAIN Append(feeLog, e) = 1..(Len(feeLog) + 1)
          /\ Append(feeLog, e)[Len(feeLog) + 1] = e
          /\ \A k \in 1..Len(feeLog) : Append(feeLog, e)[k] = feeLog[k]
      BY <1>3, <1>6, LogGrows
    <2> QED BY <1>1, <1>3, <1>4, <1>6, <2>1
  <1>9. ASSUME NEW i \in ids \ feeRaced' PROVE LeadTo(feeLog', i, feeConfigs'[i])
    <2>1. i \notin feeRaced /\ (i = q.id => feeConfigs[q.id] = q.prev)
      BY <1>1, <1>9
    <2>2. LeadTo(feeLog, i, feeConfigs[i])
      BY <1>9, <2>1 DEF FeeInv
    <2>3. CASE i = q.id
      <3>1. e.config = i /\ e.prev = feeConfigs[i] /\ e.new = feeConfigs'[i]
        BY <1>5, <1>6, <1>7, <2>1, <2>3
      <3>2. LeadTo(Append(feeLog, e), i, e.new)
        BY <1>3, <1>6, <2>2, <3>1, SameRule
      <3> QED BY <1>1, <3>1, <3>2
    <2>4. CASE i # q.id
      <3>1. LeadTo(Append(feeLog, e), i, feeConfigs[i])
        BY <1>3, <1>6, <2>2, <2>4, OtherRule
      <3> QED BY <1>1, <1>7, <2>4, <3>1
    <2> QED BY <2>3, <2>4
  <1>10. feeReq' \in [Clients -> {Fee!New, Fee!Done} \cup FeeChange(DOMAIN feeConfigs')]
    <2>1. feeReq \in [Clients -> {Fee!New, Fee!Done} \cup FeeChange(ids)]
      BY DEF FeeInv
    <2> QED BY <1>1, <1>7, <2>1, FeeRequests
  <1>11. feeQuote' # None => QuoteIsFair(feeQuote')
    BY <1>1 DEF FeeInv
  <1> QED BY <1>7, <1>8, <1>9, <1>10, <1>11 DEF FeeInv, Fee!New, Fee!Done, LeadTo, EntriesIn, QuoteIsFair

\* A quote of a rule in force.
LEMMA QuoteOfRule ==
    ASSUME NEW c \in FeeRow, NEW a \in Nat, NEW v \in Int, NEW q,
           q = [config |-> c, amount |-> a, bps |-> Fee!applyTierDiscount(c, v),
                fee |-> (a * Fee!applyTierDiscount(c, v)) \div FeeBpsUnit,
                net |-> a - (a * Fee!applyTierDiscount(c, v)) \div FeeBpsUnit]
    PROVE  QuoteIsFair(q)
  <1> DEFINE bps == Fee!applyTierDiscount(c, v)
             u == FeeBpsUnit
             m == a * bps
             fee == m \div u
  <1>1. /\ bps \in Int /\ bps >= c.min /\ c.min \in Nat
        /\ (\A t \in c.tiers : t.discount >= 0) => bps <= c.base
        /\ u \in Nat \ {0}
    BY DiscountedRate, FeeAssumption DEF FeeRow, Fee!ConfigRow, Fee!validateConfig
  <1>2. q.config = c /\ q.bps = bps /\ q.fee = fee /\ q.net = a - fee
    OBVIOUS
  <1> HIDE DEF bps, u
  <1>3. bps \in Nat
    BY <1>1
  <1>4. m \in Nat
    BY <1>3
  <1>5. fee \in Nat /\ m - u * fee >= 0
    <2>1. u \in Nat \ {0}
      BY <1>1
    <2> HIDE DEF m
    <2>2. m \div u \in Nat /\ m - u * (m \div u) \in 0..(u - 1)
      BY <1>4, <2>1, QuotientBounds
    <2>3. u * fee \in Nat
      BY <2>1, <2>2
    <2> QED BY <2>2
  <1>6. bps <= u => a - fee >= 0
    <2> SUFFICES ASSUME bps <= u PROVE a - fee >= 0
      OBVIOUS
    <2> HIDE DEF fee
    <2>1. m <= a * u
      BY <1>1, <1>3
    <2>2. u * (a - fee) = a * u - u * fee /\ a * u \in Nat /\ u * fee \in Nat /\ a - fee \in Int
      BY <1>1, <1>5
    <2>3. u * (a - fee) >= 0
      <3> HIDE DEF m
      <3> QED BY <1>4, <1>5, <2>1, <2>2
    <2> QED BY <1>1, <2>2, <2>3, NonNegativeFactor
  <1> HIDE DEF fee
  <1> QED BY <1>1, <1>2, <1>5, <1>6 DEF QuoteIsFair, u

LEMMA FeeInvNext == FeeInv /\ [Fee!Next]_(Fee!vars) => FeeInv'
  <1> SUFFICES ASSUME FeeInv, [Fee!Next]_(Fee!vars) PROVE FeeInv'
    OBVIOUS
  <1>1. /\ feeReq \in [Clients -> {Fee!New, Fee!Done} \cup FeeChange(DOMAIN feeConfigs)]
        /\ \A i \in DOMAIN feeConfigs : feeConfigs[i] \in FeeRow
    <2> DEFINE S == FeeRow
    <2>1. feeConfigs \in Seq(S)
      BY DEF FeeInv
    <2> HIDE DEF S
    <2>2. \A i \in DOMAIN feeConfigs : feeConfigs[i] \in S
      BY <2>1
    <2> QED BY <2>2 DEF S, FeeInv
  <1>2. ASSUME UNCHANGED <<feeConfigs, feeLog, feeRaced>>,
               feeReq' \in [Clients -> {Fee!New, Fee!Done} \cup FeeChange(DOMAIN feeConfigs)],
               feeQuote' # None => QuoteIsFair(feeQuote')
        PROVE  FeeInv'
    BY <1>2 DEF FeeInv, Fee!New, Fee!Done
  <1>3. feeQuote # None => QuoteIsFair(feeQuote)
    BY DEF FeeInv
  <1>4. ASSUME NEW r \in Clients, NEW i \in DOMAIN feeConfigs, NEW c \in FeeConfigInputs, Fee!UpdateRead(r, i, c)
        PROVE  FeeInv'
    <2> DEFINE q == [pc |-> "updated", id |-> i, prev |-> feeConfigs[i], new |-> c]
    <2>1. feeReq' = [feeReq EXCEPT ![r] = q] /\ UNCHANGED <<feeConfigs, feeLog, feeRaced, feeQuote>>
      BY <1>4 DEF Fee!UpdateRead
    <2>2. c \in FeeRow
      BY <1>4, FeeAssumption DEF Fee!UpdateRead, FeeRow
    <2>3. q \in FeeChange(DOMAIN feeConfigs)
      BY <1>1, <2>2 DEF FeeChange
    <2> HIDE DEF q
    <2>4. feeReq' \in [Clients -> {Fee!New, Fee!Done} \cup FeeChange(DOMAIN feeConfigs)]
      BY <1>1, <2>1, <2>3
    <2> QED BY <1>2, <1>3, <2>1, <2>4
  <1>5. ASSUME NEW r \in Clients, NEW i \in DOMAIN feeConfigs, Fee!DeactivateRead(r, i) PROVE FeeInv'
    <2> DEFINE d == [feeConfigs[i] EXCEPT !.active = FALSE]
               q == [pc |-> "deactivated", id |-> i, prev |-> feeConfigs[i], new |-> d]
    <2>1. feeReq' = [feeReq EXCEPT ![r] = q] /\ UNCHANGED <<feeConfigs, feeLog, feeRaced, feeQuote>>
      BY <1>5 DEF Fee!DeactivateRead
    <2>2. d \in FeeRow
      <3>1. /\ d \in Fee!ConfigRow /\ d.tiers = feeConfigs[i].tiers /\ d.min = feeConfigs[i].min
            /\ d.base = feeConfigs[i].base /\ d.max = feeConfigs[i].max
        BY <1>1 DEF FeeRow, Fee!ConfigRow
      <3> HIDE DEF d
      <3> QED BY <1>1, <3>1 DEF FeeRow, Fee!validateConfig
    <2>3. q \in FeeChange(DOMAIN feeConfigs)
      BY <1>1, <2>2 DEF FeeChange
    <2> HIDE DEF q
    <2>4. feeReq' \in [Clients -> {Fee!New, Fee!Done} \cup FeeChange(DOMAIN feeConfigs)]
      BY <1>1, <2>1, <2>3
    <2> QED BY <1>2, <1>3, <2>1, <2>4
  <1>6. ASSUME NEW a \in FeeAmounts, NEW v \in FeeVolumes, Fee!CalculateFee(a, v) PROVE FeeInv'
    <2>1. PICK i \in Fee!GetActiveFeeConfig :
             feeQuote' = [config |-> feeConfigs[i], amount |-> a, bps |-> Fee!applyTierDiscount(feeConfigs[i], v),
                          fee |-> (a * Fee!applyTierDiscount(feeConfigs[i], v)) \div FeeBpsUnit,
                          net |-> a - (a * Fee!applyTierDiscount(feeConfigs[i], v)) \div FeeBpsUnit]
      BY <1>6 DEF Fee!CalculateFee
    <2>2. i \in DOMAIN feeConfigs
      BY <2>1 DEF Fee!GetActiveFeeConfig, Fee!Ids
    <2>3. feeConfigs[i] \in FeeRow /\ a \in Nat /\ v \in Int
      BY <1>1, <2>2, FeeAssumption
    <2>4. QuoteIsFair(feeQuote')
      BY <2>1, <2>3, QuoteOfRule
    <2>5. UNCHANGED <<feeConfigs, feeLog, feeRaced, feeReq>>
      BY <1>6 DEF Fee!CalculateFee
    <2> QED BY <1>1, <1>2, <2>4, <2>5
  <1>7. ASSUME Fee!Tick \/ UNCHANGED Fee!vars PROVE FeeInv'
    BY <1>1, <1>2, <1>3, <1>7 DEF Fee!Tick, Fee!vars
  <1>8. ASSUME NEW r \in Clients, NEW i \in Fee!Ids, NEW c \in FeeConfigInputs, Fee!UpdateRead(r, i, c) PROVE FeeInv'
    BY <1>4, <1>8 DEF Fee!Ids
  <1>9. ASSUME NEW r \in Clients, NEW i \in Fee!Ids, Fee!DeactivateRead(r, i) PROVE FeeInv'
    BY <1>5, <1>9 DEF Fee!Ids
  <1> QED BY <1>6, <1>7, <1>8, <1>9, FeeCreateInv, FeeCommitInv DEF Fee!Next

\* The cardinality of the fees' module is that of FiniteSets.
LEMMA FeeCardinality == \A S : Fee!Cardinality(S) = Cardinality(S)
  BY DEF Fee!Cardinality, Cardinality

(***************************************************************************)
(* The audit log of a rule leads to its row whatever requests change it,   *)
(* unless two changed it at once; a quote is fair; and a distribution pays *)
(* out its total: in parts that add up, with no class above its part and   *)
(* less than a unit for each member left over.                             *)
(***************************************************************************)
THEOREM FeeConservation == Fee!Spec /\ Fee!DistSpec => []FeesAreConserved
  <1>1. FeeInv => Fee!FeesAreAuditable
    BY DEF FeeInv, LeadTo, EntriesIn, QuoteIsFair, Fee!FeesAreAuditable, Fee!Ids, Fee!EntriesOf, Fee!FollowsUpon
  <1>2. DistInv => Fee!RunsConserveFees
    <2>1. ASSUME DistInv, NEW i \in DOMAIN feeRuns PROVE RunFits(feeRuns[i])
      <3> DEFINE S == {run \in RunRow : RunFits(run)}
      <3>1. feeRuns \in Seq(S)
        BY <2>1 DEF DistInv
      <3> HIDE DEF S
      <3>2. feeRuns[i] \in S
        BY <2>1, <3>1
      <3> QED BY <3>2 DEF S
    <2>2. (\A i \in DOMAIN feeRuns : RunFits(feeRuns[i])) => Fee!RunsConserveFees
      BY FeeCardinality DEF Fee!RunsConserveFees, RunFits
    <2> QED BY <2>1, <2>2
  <1>3. FeeInv /\ DistInv => FeesAreConserved
    BY <1>1, <1>2 DEF FeesAreConserved
  <1> QED BY <1>3, FeeInvInit, FeeInvNext, DistInvInit, DistInvNext, PTL DEF Fee!Spec, Fee!DistSpec

-----------------------------------------------------------------------------
(* The off-chain order book                                                *)

OrdRow ==
    [side : {"buy", "sell"}, price : Int, quantity : Nat \ {0}, filled : Nat,
     status : {"open", "partial", "filled", "cancelled"}]

OrdTrade == [buy : Nat, sell : Nat, quantity : Nat \ {0}, price : Int]

OrdRowOK(o) ==
    /\ o.filled <= o.quantity
    /\ o.status = "filled" <=> o.filled = o.quantity

\* What a save never changes.
OrdSame(o, p) == o.side = p.side /\ o.price = p.price /\ o.quantity = p.quantity

\* A copy of a row, of whatever age.
OrdCopy(o, i, rows) == o \in OrdRow /\ OrdRowOK(o) /\ i \in DOMAIN rows /\ OrdSame(o, rows[i])

OrdFound == [id : Nat, row : OrdRow]

OrdLists == Seq(OrdFound)

OrdRequest == [pc : {"find", "fill", "cancel"}, id : Nat, row : OrdRow, left : Nat, rest : OrdLists]

\* What the query has found was open, and is on the other side at a fitting price.
OrdCounter(o, c, rows) ==
    /\ OrdCopy(c.row, c.id, rows) /\ c.row.filled < c.row.quantity
    /\ c.row.side # o.side
    /\ IF o.side = "buy" THEN c.row.price <= o.price ELSE c.row.price >= o.price

\* A request knows its order, and has no more left to fill than its copy has.
OrdAsks(q, rows) ==
    \/ q \in {Ord!New, Ord!Done}
    \/ /\ q \in OrdRequest /\ OrdCopy(q.row, q.id, rows)
       /\ q.row.filled + q.left <= q.row.quantity
       /\ q.pc = "cancel" => q.row.filled < q.row.quantity
       /\ \A k \in DOMAIN q.rest : OrdCounter(q.row, q.rest[k], rows)

OrdTables(rows, trades) ==
    /\ rows \in Seq(OrdRow) /\ \A i \in DOMAIN rows : OrdRowOK(rows[i])
    /\ trades \in Seq(OrdTrade)
    /\ \A k \in DOMAIN trades :
        /\ trades[k].buy \in DOMAIN rows /\ trades[k].sell \in DOMAIN rows
        /\ rows[trades[k].sell].price <= trades[k].price /\ trades[k].price <= rows[trades[k].buy].price

OrdPart(t, i) == IF i \in {t.buy, t.sell} THEN t.quantity ELSE 0

OrdParts(trades, i) == [k \in DOMAIN trades |-> OrdPart(trades[k], i)]

OrdTraded(trades, i) == SumFunctionOnSet(OrdParts(trades, i), DOMAIN trades)

\* A row counts its trades, but for those that the history has as lost.
OrdCounted(rows, trades, gone) ==
    \A i \in DOMAIN rows : i \notin gone => rows[i].filled = OrdTraded(trades, i)

OrdAsked(reqs, rows) ==
    reqs = [r \in Clients |-> reqs[r]] /\ \A r \in Clients : OrdAsks(reqs[r], rows)

OrdInv ==
    /\ OrdTables(ordOrders, ordTrades)
    /\ OrdCounted(ordOrders, ordTrades, ordLost)
    /\ OrdAsked(ordReq, ordOrders)

\* The tables, row by row.
LEMMA OrdRows ==
    ASSUME NEW rows, NEW trades, OrdTables(rows, trades)
    PROVE  /\ Len(rows) \in Nat /\ DOMAIN rows = 1..Len(rows) /\ \A i \in DOMAIN rows : rows[i] \in OrdRow
           /\ Len(trades) \in Nat /\ DOMAIN trades = 1..Len(trades) /\ \A k \in DOMAIN trades : trades[k] \in OrdTrade
  <1> DEFINE R == OrdRow
             T == OrdTrade
  <1>1. rows \in Seq(R) /\ trades \in Seq(T)
    BY DEF OrdTables
  <1> HIDE DEF R, T
  <1>2. Len(rows) \in Nat /\ DOMAIN rows = 1..Len(rows) /\ \A i \in DOMAIN rows : rows[i] \in R
    BY <1>1
  <1>3. Len(trades) \in Nat /\ DOMAIN trades = 1..Len(trades) /\ \A k \in DOMAIN trades : trades[k] \in T
    BY <1>1
  <1> QED BY <1>2, <1>3 DEF R, T

\* One more trade adds its quantity to the two orders it is of.
LEMMA OrdTradedMore ==
    ASSUME NEW trades \in Seq(OrdTrade), NEW t \in OrdTrade
    PROVE  /\ Append(trades, t) \in Seq(OrdTrade)
           /\ DOMAIN Append(trades, t) = DOMAIN trades \cup {Len(trades) + 1}
           /\ Append(trades, t)[Len(trades) + 1] = t
           /\ \A k \in DOMAIN trades : Append(trades, t)[k] = trades[k]
           /\ \A i : OrdTraded(Append(trades, t), i) = OrdTraded(trades, i) + OrdPart(t, i)
  <1> DEFINE n == Len(trades)
             more == Append(trades, t)
  <1>1. /\ more \in Seq(OrdTrade) /\ n \in Nat
        /\ DOMAIN trades = 1..n /\ DOMAIN more = 1..(n + 1)
        /\ more[n + 1] = t /\ \A k \in DOMAIN trades : more[k] = trades[k] /\ trades[k] \in OrdTrade
    <2> DEFINE S == OrdTrade
    <2>1. trades \in Seq(S) /\ t \in S
      OBVIOUS
    <2> HIDE DEF S
    <2> QED BY <2>1 DEF S
  <1> HIDE DEF more, n
  <1>2. DOMAIN more = DOMAIN trades \cup {n + 1} /\ n + 1 \notin DOMAIN trades
    BY <1>1
  <1>3. ASSUME NEW i PROVE OrdTraded(more, i) = OrdTraded(trades, i) + OrdPart(t, i)
    <2> DEFINE S == DOMAIN trades
               f == OrdParts(trades, i)
               g == OrdParts(more, i)
    <2>1. IsFiniteSet(S)
      <3>1. IsFiniteSet(1..n)
        BY <1>1, FS_Interval
      <3> QED BY <1>1, <3>1
    <2>2. ASSUME NEW k \in S PROVE g[k] = f[k] /\ f[k] \in Int
      <3>1. more[k] = trades[k] /\ trades[k] \in OrdTrade /\ k \in DOMAIN more
        BY <1>1, <1>2
      <3>2. OrdPart(trades[k], i) \in Int
        BY <3>1 DEF OrdPart, OrdTrade
      <3> QED BY <3>1, <3>2 DEF OrdParts
    <2>3. g[n + 1] = OrdPart(t, i) /\ OrdPart(t, i) \in Int
      BY <1>1, <1>2 DEF OrdParts, OrdPart, OrdTrade
    <2>4. OrdTraded(more, i) = SumFunctionOnSet(g, S \cup {n + 1}) /\ OrdTraded(trades, i) = SumFunctionOnSet(f, S)
      BY <1>2 DEF OrdTraded
    <2> HIDE DEF S, f, g
    <2>5. SumFunctionOnSet(g, S) = SumFunctionOnSet(f, S)
      BY <2>1, <2>2, SumSame
    <2>6. SumFunctionOnSet(g, S \cup {n + 1}) = SumFunctionOnSet(g, S) + g[n + 1]
      <3>1. n + 1 \notin S /\ \A k \in S \cup {n + 1} : g[k] \in Int
        BY <1>2, <2>2, <2>3 DEF S
      <3> QED BY <2>1, <3>1, SumAdd
    <2> QED BY <2>3, <2>4, <2>5, <2>6
  <1> QED BY <1>1, <1>2, <1>3 DEF more, n

\* Saving copies of rows.
LEMMA OrdSavedRows ==
    ASSUME NEW rows, NEW trades, OrdTables(rows, trades), NEW save,
           \A i \in DOMAIN save : OrdCopy(save[i], i, rows)
    PROVE  LET after == Ord!Saved(rows, save) IN
           /\ DOMAIN after = DOMAIN rows
           /\ \A i \in DOMAIN rows : after[i] = IF i \in DOMAIN save THEN save[i] ELSE rows[i]
           /\ \A i \in DOMAIN rows : OrdSame(after[i], rows[i])
           /\ OrdTables(after, trades)
  <1> DEFINE n == Len(rows)
             after == Ord!Saved(rows, save)
  <1>1. n \in Nat /\ DOMAIN rows = 1..n /\ \A i \in DOMAIN rows : rows[i] \in OrdRow /\ OrdRowOK(rows[i])
    BY OrdRows DEF OrdTables
  <1>2. /\ after = [i \in 1..n |-> after[i]]
        /\ \A i \in 1..n : after[i] = IF i \in DOMAIN save THEN save[i] ELSE rows[i]
    BY <1>1 DEF Ord!Saved
  <1> HIDE DEF n, after
  <1>3. ASSUME NEW i \in 1..n PROVE after[i] \in OrdRow /\ OrdRowOK(after[i]) /\ OrdSame(after[i], rows[i])
    <2>1. CASE i \in DOMAIN save
      BY <1>2, <2>1 DEF OrdCopy
    <2>2. CASE i \notin DOMAIN save
      BY <1>1, <1>2, <2>2 DEF OrdSame
    <2> QED BY <2>1, <2>2
  <1>4. after \in Seq(OrdRow) /\ DOMAIN after = 1..n
    <2> DEFINE S == OrdRow
    <2>1. \A i \in 1..n : after[i] \in S
      BY <1>3
    <2> HIDE DEF S
    <2> QED BY <1>1, <1>2, <2>1 DEF S
  <1>5. OrdTables(after, trades)
    BY <1>1, <1>3, <1>4 DEF OrdTables, OrdSame
  <1> QED BY <1>1, <1>2, <1>3, <1>4, <1>5 DEF after

\* What a request has read stays a copy when rows keep what never changes.
LEMMA OrdAsksStay ==
    ASSUME NEW q, NEW rows, OrdAsks(q, rows), NEW after, DOMAIN rows \subseteq DOMAIN after,
           \A i \in DOMAIN rows : OrdSame(after[i], rows[i])
    PROVE  OrdAsks(q, after)
  <1>1. ASSUME NEW o, NEW i, OrdCopy(o, i, rows) PROVE OrdCopy(o, i, after)
    BY <1>1 DEF OrdCopy, OrdSame
  <1>2. CASE q \in {Ord!New, Ord!Done}
    BY <1>2 DEF OrdAsks
  <1>3. CASE q \notin {Ord!New, Ord!Done}
    <2>1. /\ q \in OrdRequest /\ OrdCopy(q.row, q.id, rows)
          /\ q.row.filled + q.left <= q.row.quantity
          /\ q.pc = "cancel" => q.row.filled < q.row.quantity
          /\ \A k \in DOMAIN q.rest : OrdCounter(q.row, q.rest[k], rows)
      BY <1>3 DEF OrdAsks
    <2>2. \A k \in DOMAIN q.rest : OrdCounter(q.row, q.rest[k], after)
      BY <1>1, <2>1 DEF OrdCounter
    <2> QED BY <1>1, <2>1, <2>2 DEF OrdAsks
  <1> QED BY <1>2, <1>3

\* One request goes on, while rows keep what never changes.
LEMMA OrdAskedMore ==
    ASSUME NEW reqs, NEW rows, OrdAsked(reqs, rows), NEW r \in Clients, NEW q, NEW after,
           DOMAIN rows \subseteq DOMAIN after, \A i \in DOMAIN rows : OrdSame(after[i], rows[i]),
           OrdAsks(q, after)
    PROVE  OrdAsked([reqs EXCEPT ![r] = q], after)
  <1> DEFINE then == [reqs EXCEPT ![r] = q]
  <1>1. then = [k \in Clients |-> then[k]] /\ then[r] = q /\ \A k \in Clients : k # r => then[k] = reqs[k]
    BY DEF OrdAsked
  <1> HIDE DEF then
  <1>2. \A k \in Clients : OrdAsks(reqs[k], after)
    BY OrdAsksStay DEF OrdAsked
  <1>3. \A k \in Clients : OrdAsks(then[k], after)
    BY <1>1, <1>2
  <1> QED BY <1>1, <1>3 DEF OrdAsked, then

LEMMA OrdInvInit == Ord!Init => OrdInv
  <1> SUFFICES ASSUME Ord!Init PROVE OrdInv
    OBVIOUS
  <1>1. ordOrders = <<>> /\ ordTrades = <<>> /\ ordReq = [r \in Clients |-> Ord!New]
    BY DEF Ord!Init
  <1>2. OrdTables(ordOrders, ordTrades) /\ OrdCounted(ordOrders, ordTrades, ordLost)
    BY <1>1 DEF OrdTables, OrdCounted
  <1>3. OrdAsked(ordReq, ordOrders)
    BY <1>1 DEF OrdAsked, OrdAsks
  <1> QED BY <1>2, <1>3 DEF OrdInv

LEMMA OrdCreateInv ==
    ASSUME OrdInv, NEW r \in Clients, NEW side \in {"buy", "sell"}, NEW o \in OrdOffers, Ord!CreateOrder(r, side, o[1], o[2])
    PROVE  OrdInv'
  <1> DEFINE n == Len(ordOrders)
             row == [side |-> side, price |-> o[1], quantity |-> o[2], filled |-> 0, status |-> "open"]
             q == [pc |-> "find", id |-> n + 1, row |-> row, left |-> o[2], rest |-> <<>>]
  <1>1. /\ ordOrders' = Append(ordOrders, row) /\ ordReq' = [ordReq EXCEPT ![r] = q]
        /\ UNCHANGED <<ordTrades, ordLost>>
    BY DEF Ord!CreateOrder
  <1>2. OrdTables(ordOrders, ordTrades)
    BY DEF OrdInv
  <1>3. row \in OrdRow /\ OrdRowOK(row) /\ row.quantity = o[2] /\ row.filled = 0 /\ o[2] \in Nat
    BY OrderAssumption DEF OrdRow, OrdRowOK
  <1>4. q \in OrdRequest /\ q.row = row /\ q.id = n + 1 /\ q.pc = "find" /\ q.left = o[2] /\ q.rest = <<>>
    <2>1. <<>> \in OrdLists /\ n \in Nat
      BY <1>2, OrdRows DEF OrdLists
    <2> HIDE DEF row, n
    <2> QED BY <1>3, <2>1 DEF OrdRequest
  <1> HIDE DEF row, q
  <1>5. /\ ordOrders' \in Seq(OrdRow) /\ n \in Nat /\ DOMAIN ordOrders = 1..n /\ DOMAIN ordOrders' = 1..(n + 1)
        /\ ordOrders'[n + 1] = row /\ \A i \in DOMAIN ordOrders : ordOrders'[i] = ordOrders[i]
    <2> DEFINE S == OrdRow
    <2>1. ordOrders \in Seq(S) /\ row \in S
      BY <1>2, <1>3 DEF OrdTables
    <2> HIDE DEF S
    <2> QED BY <1>1, <2>1 DEF S
  <1> HIDE DEF n
  <1>6. OrdTables(ordOrders', ordTrades)
    <2>1. \A i \in DOMAIN ordOrders' : OrdRowOK(ordOrders'[i])
      BY <1>2, <1>3, <1>5 DEF OrdTables
    <2>2. \A k \in DOMAIN ordTrades :
            /\ ordTrades[k].buy \in DOMAIN ordOrders' /\ ordTrades[k].sell \in DOMAIN ordOrders'
            /\ ordOrders'[ordTrades[k].sell].price <= ordTrades[k].price
            /\ ordTrades[k].price <= ordOrders'[ordTrades[k].buy].price
      <3> SUFFICES ASSUME NEW k \in DOMAIN ordTrades
                   PROVE  /\ ordTrades[k].buy \in DOMAIN ordOrders' /\ ordTrades[k].sell \in DOMAIN ordOrders'
                          /\ ordOrders'[ordTrades[k].sell].price <= ordTrades[k].price
                          /\ ordTrades[k].price <= ordOrders'[ordTrades[k].buy].price
        OBVIOUS
      <3> DEFINE b == ordTrades[k].buy
                 c == ordTrades[k].sell
      <3>1. /\ b \in DOMAIN ordOrders /\ c \in DOMAIN ordOrders
            /\ ordOrders[c].price <= ordTrades[k].price /\ ordTrades[k].price <= ordOrders[b].price
        BY <1>2 DEF OrdTables
      <3> HIDE DEF b, c
      <3>2. /\ b \in DOMAIN ordOrders' /\ c \in DOMAIN ordOrders'
            /\ ordOrders'[b] = ordOrders[b] /\ ordOrders'[c] = ordOrders[c]
        BY <1>5, <3>1
      <3>3. /\ b \in DOMAIN ordOrders' /\ c \in DOMAIN ordOrders'
            /\ ordOrders'[c].price <= ordTrades[k].price /\ ordTrades[k].price <= ordOrders'[b].price
        BY <3>1, <3>2
      <3> QED BY <3>3 DEF b, c
    <2> QED BY <1>2, <1>5, <2>1, <2>2 DEF OrdTables
  <1>7. OrdTraded(ordTrades, n + 1) = 0
    <2> DEFINE S == DOMAIN ordTrades
               f == OrdParts(ordTrades, n + 1)
    <2>1. IsFiniteSet(S)
      <3> DEFINE m == Len(ordTrades)
      <3>1. m \in Nat /\ S = 1..m
        BY <1>2, OrdRows
      <3> HIDE DEF m
      <3> QED BY <3>1, FS_Interval
    <2>2. \A k \in S : f[k] = 0
      <3> SUFFICES ASSUME NEW k \in S PROVE f[k] = 0
        OBVIOUS
      <3>1. n + 1 # ordTrades[k].buy /\ n + 1 # ordTrades[k].sell
        BY <1>2, <1>5 DEF OrdTables
      <3> QED BY <3>1 DEF OrdParts, OrdPart
    <2>3. OrdTraded(ordTrades, n + 1) = SumFunctionOnSet(f, S)
      BY DEF OrdTraded
    <2> HIDE DEF S, f
    <2> QED BY <2>1, <2>2, <2>3, SumZero
  <1>8. OrdCounted(ordOrders', ordTrades, ordLost)
    BY <1>3, <1>5, <1>7 DEF OrdInv, OrdCounted
  <1>9. OrdAsks(q, ordOrders')
    <2>1. OrdCopy(row, n + 1, ordOrders')
      BY <1>3, <1>5 DEF OrdCopy, OrdSame
    <2>2. q.row.filled + q.left <= q.row.quantity
      BY <1>3, <1>4
    <2>3. \A k \in DOMAIN q.rest : OrdCounter(q.row, q.rest[k], ordOrders')
      BY <1>4
    <2> QED BY <1>4, <2>1, <2>2, <2>3 DEF OrdAsks
  <1>10. OrdAsked(ordReq', ordOrders')
    <2>1. DOMAIN ordOrders \subseteq DOMAIN ordOrders' /\ \A i \in DOMAIN ordOrders : OrdSame(ordOrders'[i], ordOrders[i])
      BY <1>5 DEF OrdSame
    <2> QED BY <1>1, <1>9, <2>1, OrdAskedMore DEF OrdInv
  <1> QED BY <1>1, <1>6, <1>8, <1>10 DEF OrdInv

\* A request that is at work, and what it knows.
LEMMA OrdAtWork ==
    ASSUME OrdInv, NEW r \in Clients, ordReq[r].pc \in {"find", "fill", "cancel"}
    PROVE  /\ ordReq[r] \in OrdRequest /\ OrdCopy(ordReq[r].row, ordReq[r].id, ordOrders)
           /\ ordReq[r].row.filled + ordReq[r].left <= ordReq[r].row.quantity
           /\ ordReq[r].pc = "cancel" => ordReq[r].row.filled < ordReq[r].row.quantity
           /\ \A k \in DOMAIN ordReq[r].rest : OrdCounter(ordReq[r].row, ordReq[r].rest[k], ordOrders)
  <1>1. OrdAsks(ordReq[r], ordOrders)
    BY DEF OrdInv, OrdAsked
  <1>2. ordReq[r] \notin {Ord!New, Ord!Done}
    BY DEF Ord!New, Ord!Done
  <1> QED BY <1>1, <1>2 DEF OrdAsks

\* What the query finds.
LEMMA OrdFindInv == ASSUME OrdInv, NEW r \in Clients, Ord!FindCounters(r) PROVE OrdInv'
  <1> DEFINE q == ordReq[r]
             o == q.row
             ids == {i \in DOMAIN ordOrders : ordOrders[i].side # o.side /\ Ord!IsLive(ordOrders[i]) /\ Ord!PriceFits(o, ordOrders[i])}
             n == Ord!Cardinality(ids)
  <1>1. q.pc = "find" /\ UNCHANGED <<ordOrders, ordTrades, ordLost>>
    BY DEF Ord!FindCounters
  <1>2. PICK found \in Ord!CounterOrders(o) : ordReq' = [ordReq EXCEPT ![r] = [q EXCEPT !.pc = "fill", !.rest = found]]
    BY Zenon DEF Ord!FindCounters
  <1>3. PICK s \in [1..n -> ids] : found = [k \in 1..n |-> [id |-> s[k], row |-> ordOrders[s[k]]]]
    BY <1>2 DEF Ord!CounterOrders, Ord!Ids
  <1>4. OrdTables(ordOrders, ordTrades)
    BY DEF OrdInv
  <1>5. n \in Nat
    <2> DEFINE m == Len(ordOrders)
    <2>1. m \in Nat /\ DOMAIN ordOrders = 1..m
      BY <1>4, OrdRows
    <2>2. ids \subseteq DOMAIN ordOrders
      OBVIOUS
    <2> HIDE DEF m, ids
    <2>3. IsFiniteSet(ids)
      BY <2>1, <2>2, FS_Interval, FS_Subset
    <2>4. n = Cardinality(ids)
      BY DEF Ord!Cardinality, Cardinality
    <2> QED BY <2>3, <2>4, FS_CardinalityType
  <1>6. ASSUME NEW i \in ids
        PROVE  LET c == [id |-> i, row |-> ordOrders[i]] IN c \in OrdFound /\ OrdCounter(o, c, ordOrders)
    <2>1. ordOrders[i] \in OrdRow /\ OrdRowOK(ordOrders[i]) /\ i \in Nat /\ i \in DOMAIN ordOrders
      BY <1>4, OrdRows DEF OrdTables
    <2>2. ordOrders[i].filled < ordOrders[i].quantity
      BY <2>1 DEF OrdRow, OrdRowOK, Ord!IsLive
    <2>3. ordOrders[i].side # o.side /\ IF o.side = "buy" THEN ordOrders[i].price <= o.price ELSE ordOrders[i].price >= o.price
      BY DEF Ord!PriceFits
    <2>4. OrdCopy(ordOrders[i], i, ordOrders)
      BY <2>1 DEF OrdCopy, OrdSame
    <2> HIDE DEF ids, o
    <2> QED BY <2>1, <2>2, <2>3, <2>4 DEF OrdFound, OrdCounter
  <1> HIDE DEF ids, n
  <1>7. found \in OrdLists /\ \A k \in DOMAIN found : OrdCounter(o, found[k], ordOrders)
    <2>1. \A k \in 1..n : found[k] \in OrdFound /\ OrdCounter(o, found[k], ordOrders)
      BY <1>3, <1>6
    <2> DEFINE S == OrdFound
    <2>2. \A k \in 1..n : found[k] \in S
      BY <2>1
    <2> HIDE DEF S
    <2>3. found \in Seq(S) /\ DOMAIN found = 1..n
      BY <1>3, <1>5, <2>2
    <2> QED BY <2>1, <2>3 DEF S, OrdLists
  <1>8. /\ q \in OrdRequest /\ OrdCopy(o, q.id, ordOrders) /\ o.filled + q.left <= o.quantity
    BY <1>1, OrdAtWork
  <1> DEFINE then == [q EXCEPT !.pc = "fill", !.rest = found]
  <1>9. then \in OrdRequest /\ then.pc = "fill" /\ then.id = q.id /\ then.row = o /\ then.left = q.left /\ then.rest = found
    BY <1>7, <1>8 DEF OrdRequest
  <1> HIDE DEF then
  <1>10. OrdAsks(then, ordOrders)
    BY <1>7, <1>8, <1>9 DEF OrdAsks
  <1>11. OrdAsked(ordReq', ordOrders)
    <2>1. ordReq' = [ordReq EXCEPT ![r] = then]
      BY <1>2 DEF then
    <2>2. \A i \in DOMAIN ordOrders : OrdSame(ordOrders[i], ordOrders[i])
      BY DEF OrdSame
    <2> QED BY <1>10, <2>1, <2>2, OrdAskedMore DEF OrdInv
  <1> QED BY <1>1, <1>11 DEF OrdInv

\* A row with n more units filled.
LEMMA OrdFilledRow ==
    ASSUME NEW o \in OrdRow, OrdRowOK(o), NEW n \in Nat, o.filled + n <= o.quantity
    PROVE  /\ Ord!Filled(o, n) \in OrdRow /\ OrdRowOK(Ord!Filled(o, n)) /\ OrdSame(Ord!Filled(o, n), o)
           /\ Ord!Filled(o, n).filled = o.filled + n
  <1> DEFINE status == IF o.filled + n >= o.quantity THEN "filled" ELSE "partial"
             row == [o EXCEPT !.filled = o.filled + n]
             after == [row EXCEPT !.status = status]
  <1>1. Ord!Filled(o, n) = after
    BY DEF Ord!Filled
  <1>2. status \in {"filled", "partial"} /\ (status = "filled" <=> o.filled + n = o.quantity)
    BY DEF OrdRow
  <1>3. row \in OrdRow /\ row.filled = o.filled + n /\ row.quantity = o.quantity /\ row.side = o.side /\ row.price = o.price
    BY DEF OrdRow
  <1> HIDE DEF status, row
  <1>4. /\ after \in OrdRow /\ after.filled = o.filled + n /\ after.quantity = o.quantity /\ after.side = o.side
        /\ after.price = o.price /\ after.status = status
    BY <1>2, <1>3 DEF OrdRow
  <1> HIDE DEF after
  <1> QED BY <1>1, <1>2, <1>4 DEF OrdRowOK, OrdSame

\* The next of what a request has found, and how much of it is filled.
LEMMA OrdNext ==
    ASSUME OrdInv, NEW r \in Clients, Ord!Filling(r)
    PROVE  LET q == ordReq[r]
               c == Head(q.rest)
               n == Ord!FillQuantity(q.left, c.row)
           IN  /\ q.pc = "fill" /\ q.rest # <<>>
               /\ OrdCounter(q.row, c, ordOrders) /\ c.id # q.id
               /\ n \in Nat \ {0} /\ n <= q.left
               /\ c.row.filled + n <= c.row.quantity /\ q.row.filled + n <= q.row.quantity
  <1> DEFINE q == ordReq[r]
             c == Head(q.rest)
             n == Ord!FillQuantity(q.left, c.row)
  <1>1. q.pc = "fill" /\ q.rest # <<>> /\ q.left > 0
    BY DEF Ord!Filling
  <1>2. /\ q \in OrdRequest /\ OrdCopy(q.row, q.id, ordOrders) /\ q.row.filled + q.left <= q.row.quantity
        /\ \A k \in DOMAIN q.rest : OrdCounter(q.row, q.rest[k], ordOrders)
    BY <1>1, OrdAtWork
  <1>3. OrdCounter(q.row, c, ordOrders)
    <2> DEFINE S == OrdFound
    <2>1. q.rest \in Seq(S)
      BY <1>2 DEF OrdRequest, OrdLists
    <2> HIDE DEF S
    <2>2. c = q.rest[1] /\ 1 \in DOMAIN q.rest
      BY <1>1, <2>1
    <2> QED BY <1>2, <2>2
  <1> HIDE DEF c
  <1>4. c.id # q.id
    BY <1>2, <1>3 DEF OrdCounter, OrdCopy, OrdSame
  <1>5. /\ q.left \in Nat /\ q.row.filled \in Nat /\ q.row.quantity \in Nat
        /\ c.row.filled \in Nat /\ c.row.quantity \in Nat /\ c.row.filled < c.row.quantity
    BY <1>2, <1>3 DEF OrdRequest, OrdCounter, OrdCopy, OrdRow
  <1>6. n \in Nat \ {0} /\ n <= q.left /\ c.row.filled + n <= c.row.quantity
    <2>1. n = IF c.row.quantity - c.row.filled < q.left THEN c.row.quantity - c.row.filled ELSE q.left
      BY DEF Ord!FillQuantity
    <2> DEFINE left == q.left
               filled == c.row.filled
               quantity == c.row.quantity
    <2>2. /\ left \in Nat \ {0} /\ filled \in Nat /\ quantity \in Nat /\ filled < quantity
          /\ n = IF quantity - filled < left THEN quantity - filled ELSE left
      BY <1>1, <1>5, <2>1
    <2> HIDE DEF n, left, filled, quantity
    <2>3. n \in Nat \ {0} /\ n <= left /\ filled + n <= quantity
      BY <2>2
    <2> QED BY <2>3 DEF left, filled, quantity
  <1> HIDE DEF n
  <1>7. q.row.filled + n <= q.row.quantity
    BY <1>2, <1>5, <1>6
  <1> QED BY <1>1, <1>3, <1>4, <1>6, <1>7 DEF n, c

\* The units left are within the quantity after the next fill as before.
LEMMA OrdLeft ==
    ASSUME NEW filled \in Nat, NEW left \in Nat, NEW quantity \in Nat, NEW n \in Nat,
           filled + left <= quantity, n <= left
    PROVE  filled + (left - n) <= quantity /\ (filled + n) + (left - n) <= quantity
  OBVIOUS

\* The request after that, with its own row filled or not.
OrdThen(q, row, n) == [q EXCEPT !.row = row, !.left = q.left - n, !.rest = Tail(q.rest)]

LEMMA OrdOnward ==
    ASSUME NEW q \in OrdRequest, NEW rows, OrdCopy(q.row, q.id, rows), q.rest # <<>>, q.pc = "fill",
           \A k \in DOMAIN q.rest : OrdCounter(q.row, q.rest[k], rows),
           NEW n \in Nat, n <= q.left,
           NEW row \in OrdRow, OrdRowOK(row), OrdSame(row, q.row), row.filled + (q.left - n) <= row.quantity
    PROVE  OrdAsks(OrdThen(q, row, n), rows)
  <1> DEFINE left == q.left - n
             rest == Tail(q.rest)
             one == [q EXCEPT !.row = row]
             two == [one EXCEPT !.left = left]
             then == [two EXCEPT !.rest = rest]
  <1>1. left \in Nat /\ q.left \in Nat
    BY DEF OrdRequest
  <1>2. rest \in OrdLists /\ \A k \in DOMAIN rest : k + 1 \in DOMAIN q.rest /\ rest[k] = q.rest[k + 1]
    <2> DEFINE S == OrdFound
    <2>1. q.rest \in Seq(S)
      BY DEF OrdRequest, OrdLists
    <2> HIDE DEF S
    <2>2. rest \in Seq(S) /\ \A k \in DOMAIN rest : k + 1 \in DOMAIN q.rest /\ rest[k] = q.rest[k + 1]
      BY <2>1
    <2> QED BY <2>2 DEF S, OrdLists
  <1>3. row.filled + left <= row.quantity
    OBVIOUS
  <1> HIDE DEF left, rest
  <1>4. one \in OrdRequest /\ one.row = row /\ one.id = q.id /\ one.pc = "fill"
    BY DEF OrdRequest
  <1> HIDE DEF one
  <1>5. two \in OrdRequest /\ two.row = row /\ two.id = q.id /\ two.pc = "fill" /\ two.left = left
    BY <1>1, <1>4 DEF OrdRequest
  <1> HIDE DEF two
  <1>6. then \in OrdRequest /\ then.row = row /\ then.id = q.id /\ then.pc = "fill" /\ then.left = left /\ then.rest = rest
    BY <1>2, <1>5 DEF OrdRequest
  <1> HIDE DEF then
  <1>7. \A k \in DOMAIN rest : OrdCounter(row, rest[k], rows)
    <2> SUFFICES ASSUME NEW k \in DOMAIN rest PROVE OrdCounter(row, rest[k], rows)
      OBVIOUS
    <2>1. OrdCounter(q.row, rest[k], rows)
      BY <1>2
    <2> QED BY <2>1 DEF OrdCounter, OrdSame
  <1>8. OrdCopy(row, q.id, rows)
    BY DEF OrdCopy, OrdSame
  <1>9. OrdAsks(then, rows)
    BY <1>3, <1>6, <1>7, <1>8 DEF OrdAsks
  <1> QED BY <1>9 DEF OrdThen, then, two, one, left, rest

LEMMA OrdFailsInv == ASSUME OrdInv, NEW r \in Clients, Ord!FillFails(r) PROVE OrdInv'
  <1> DEFINE q == ordReq[r]
             n == Ord!FillQuantity(q.left, Head(q.rest).row)
             then(row) == OrdThen(q, row, n)
  <1>1. Ord!Filling(r) /\ ordLost \subseteq ordLost' /\ UNCHANGED <<ordOrders, ordTrades>>
    BY DEF Ord!FillFails
  <1>2. PICK row \in {q.row, Ord!Filled(q.row, n)} : ordReq' = [ordReq EXCEPT ![r] = then(row)]
    BY Zenon DEF Ord!FillFails, Ord!Onward, OrdThen
  <1>3. q.pc = "fill" /\ q.rest # <<>> /\ n \in Nat \ {0} /\ n <= q.left /\ q.row.filled + n <= q.row.quantity
    BY <1>1, OrdNext
  <1>4. /\ q \in OrdRequest /\ OrdCopy(q.row, q.id, ordOrders) /\ q.row.filled + q.left <= q.row.quantity
        /\ \A k \in DOMAIN q.rest : OrdCounter(q.row, q.rest[k], ordOrders)
    BY <1>3, OrdAtWork
  <1> HIDE DEF n
  <1>5. row \in OrdRow /\ OrdRowOK(row) /\ OrdSame(row, q.row) /\ row.filled + (q.left - n) <= row.quantity
    <2>1. q.row \in OrdRow /\ OrdRowOK(q.row) /\ q.left \in Nat /\ q.row.filled \in Nat /\ q.row.quantity \in Nat
      BY <1>4 DEF OrdCopy, OrdRequest, OrdRow
    <2>2. CASE row = q.row
      <3>1. row \in OrdRow /\ OrdRowOK(row) /\ OrdSame(row, q.row)
        BY <2>1, <2>2 DEF OrdSame
      <3>2. q.row.filled + (q.left - n) <= q.row.quantity
        BY <1>3, <1>4, <2>1, OrdLeft
      <3> QED BY <2>2, <3>1, <3>2
    <2>3. CASE row = Ord!Filled(q.row, n)
      <3>1. row \in OrdRow /\ OrdRowOK(row) /\ OrdSame(row, q.row) /\ row.filled = q.row.filled + n
        BY <1>3, <2>1, <2>3, OrdFilledRow
      <3>2. row.quantity = q.row.quantity
        BY <3>1 DEF OrdSame
      <3>3. (q.row.filled + n) + (q.left - n) <= q.row.quantity
        BY <1>3, <1>4, <2>1, OrdLeft
      <3> QED BY <3>1, <3>2, <3>3
    <2> QED BY <1>2, <2>2, <2>3
  <1>6. OrdAsks(then(row), ordOrders)
    <2> HIDE DEF q
    <2>1. n \in Nat
      BY <1>3
    <2> QED BY <1>3, <1>4, <1>5, <2>1, OrdOnward
  <1> HIDE DEF then
  <1>7. OrdAsked(ordReq', ordOrders)
    <2>1. \A i \in DOMAIN ordOrders : OrdSame(ordOrders[i], ordOrders[i])
      BY DEF OrdSame
    <2> QED BY <1>2, <1>6, <2>1, OrdAskedMore DEF OrdInv
  <1>8. OrdCounted(ordOrders, ordTrades, ordLost')
    BY <1>1 DEF OrdInv, OrdCounted
  <1> QED BY <1>1, <1>7, <1>8 DEF OrdInv

LEMMA OrdFillInv == ASSUME OrdInv, NEW r \in Clients, Ord!Fill(r) PROVE OrdInv'
  <1> DEFINE q == ordReq[r]
             o == q.row
             c == Head(q.rest)
             n == Ord!FillQuantity(q.left, c.row)
             pair == IF o.side = "buy" THEN <<q.id, c.id>> ELSE <<c.id, q.id>>
             t == [buy |-> pair[1], sell |-> pair[2], quantity |-> n, price |-> c.row.price]
             read == [i \in {c.id, q.id} |-> IF i = c.id THEN c.row ELSE o]
             save == [i \in {c.id, q.id} |-> Ord!Filled(read[i], n)]
             then == OrdThen(q, Ord!Filled(o, n), n)
  <1>1. /\ Ord!Filling(r) /\ ordTrades' = Append(ordTrades, t) /\ ordOrders' = Ord!Saved(ordOrders, save)
        /\ ordLost' = ordLost \cup Ord!Stale(ordOrders, read) /\ ordReq' = [ordReq EXCEPT ![r] = then]
    BY DEF Ord!Fill, Ord!Onward, OrdThen
  <1>2. /\ q.pc = "fill" /\ q.rest # <<>> /\ OrdCounter(o, c, ordOrders) /\ c.id # q.id
        /\ n \in Nat \ {0} /\ n <= q.left
        /\ c.row.filled + n <= c.row.quantity /\ o.filled + n <= o.quantity
    <2>1. Ord!Filling(r)
      BY <1>1
    <2> QED BY <2>1, OrdNext
  <1>3. /\ q \in OrdRequest /\ OrdCopy(o, q.id, ordOrders) /\ o.filled + q.left <= o.quantity
        /\ \A k \in DOMAIN q.rest : OrdCounter(o, q.rest[k], ordOrders)
    BY <1>2, OrdAtWork
  <1>4. OrdTables(ordOrders, ordTrades)
    BY DEF OrdInv
  <1>5. /\ o \in OrdRow /\ OrdRowOK(o) /\ q.id \in DOMAIN ordOrders /\ OrdSame(o, ordOrders[q.id])
        /\ c.row \in OrdRow /\ OrdRowOK(c.row) /\ c.id \in DOMAIN ordOrders /\ OrdSame(c.row, ordOrders[c.id])
    <2>1. o \in OrdRow /\ OrdRowOK(o) /\ q.id \in DOMAIN ordOrders /\ OrdSame(o, ordOrders[q.id])
      BY <1>3 DEF OrdCopy
    <2>2. OrdCopy(c.row, c.id, ordOrders)
      BY <1>2 DEF OrdCounter
    <2> HIDE DEF c, o, q
    <2>3. c.row \in OrdRow /\ OrdRowOK(c.row) /\ c.id \in DOMAIN ordOrders /\ OrdSame(c.row, ordOrders[c.id])
      BY <2>2 DEF OrdCopy
    <2> QED BY <2>1, <2>3
  <1>6. /\ Ord!Filled(o, n) \in OrdRow /\ OrdRowOK(Ord!Filled(o, n)) /\ OrdSame(Ord!Filled(o, n), o)
        /\ Ord!Filled(o, n).filled = o.filled + n
    BY <1>2, <1>5, OrdFilledRow
  <1>7. /\ Ord!Filled(c.row, n) \in OrdRow /\ OrdRowOK(Ord!Filled(c.row, n)) /\ OrdSame(Ord!Filled(c.row, n), c.row)
        /\ Ord!Filled(c.row, n).filled = c.row.filled + n
    BY <1>2, <1>5, OrdFilledRow
  <1>8. /\ t \in OrdTrade /\ OrdPart(t, q.id) = n /\ OrdPart(t, c.id) = n
        /\ \A i : i \notin {c.id, q.id} => OrdPart(t, i) = 0
        /\ {t.buy, t.sell} = {c.id, q.id}
        /\ ordOrders[t.sell].price <= t.price /\ t.price <= ordOrders[t.buy].price
    <2> DEFINE a == c.id
               b == q.id
               price == c.row.price
    <2>1. /\ a \in Nat /\ b \in Nat /\ price \in Int /\ ordOrders[a].price = price /\ ordOrders[b].price = o.price /\ o.price \in Int
          /\ IF o.side = "buy" THEN price <= o.price ELSE price >= o.price
      <3>1. OrdCounter(o, c, ordOrders)
        BY <1>2
      <3>2. a \in Nat /\ b \in Nat
        BY <1>4, <1>5, OrdRows
      <3> HIDE DEF a, b, c, q
      <3>3. price \in Int /\ o.price \in Int
        BY <1>5 DEF OrdRow
      <3>4. ordOrders[a].price = price /\ ordOrders[b].price = o.price
        BY <1>5 DEF OrdSame, a, b
      <3>5. IF o.side = "buy" THEN price <= o.price ELSE price >= o.price
        BY <3>1 DEF OrdCounter
      <3> QED BY <3>2, <3>3, <3>4, <3>5
    <2>2. t = IF o.side = "buy" THEN [buy |-> b, sell |-> a, quantity |-> n, price |-> price]
                               ELSE [buy |-> a, sell |-> b, quantity |-> n, price |-> price]
      OBVIOUS
    <2> HIDE DEF a, b, price, t, n, c, q
    <2> QED BY <1>2, <2>1, <2>2 DEF OrdTrade, OrdPart, a, b
  <1>9. /\ DOMAIN save = {c.id, q.id} /\ save[c.id] = Ord!Filled(c.row, n) /\ save[q.id] = Ord!Filled(o, n)
        /\ DOMAIN read = {c.id, q.id} /\ read[c.id] = c.row /\ read[q.id] = o
    BY <1>2
  <1> HIDE DEF c, n, t, read, save, then, pair
  <1>10. \A i \in DOMAIN save : OrdCopy(save[i], i, ordOrders)
    BY <1>5, <1>6, <1>7, <1>9 DEF OrdCopy, OrdSame
  <1>11. /\ DOMAIN ordOrders' = DOMAIN ordOrders
         /\ \A i \in DOMAIN ordOrders : ordOrders'[i] = IF i \in DOMAIN save THEN save[i] ELSE ordOrders[i]
         /\ \A i \in DOMAIN ordOrders : OrdSame(ordOrders'[i], ordOrders[i])
         /\ OrdTables(ordOrders', ordTrades)
    BY <1>1, <1>4, <1>10, OrdSavedRows
  <1>12. /\ ordTrades' \in Seq(OrdTrade)
         /\ DOMAIN ordTrades' = DOMAIN ordTrades \cup {Len(ordTrades) + 1}
         /\ ordTrades'[Len(ordTrades) + 1] = t
         /\ \A k \in DOMAIN ordTrades : ordTrades'[k] = ordTrades[k]
         /\ \A i : OrdTraded(ordTrades', i) = OrdTraded(ordTrades, i) + OrdPart(t, i)
    BY <1>1, <1>4, <1>8, OrdTradedMore DEF OrdTables
  <1>13. OrdTables(ordOrders', ordTrades')
    <2>1. /\ t.buy \in DOMAIN ordOrders' /\ t.sell \in DOMAIN ordOrders'
          /\ ordOrders'[t.sell].price <= t.price /\ t.price <= ordOrders'[t.buy].price
      BY <1>5, <1>8, <1>11 DEF OrdSame
    <2>2. \A k \in DOMAIN ordTrades' :
            /\ ordTrades'[k].buy \in DOMAIN ordOrders' /\ ordTrades'[k].sell \in DOMAIN ordOrders'
            /\ ordOrders'[ordTrades'[k].sell].price <= ordTrades'[k].price
            /\ ordTrades'[k].price <= ordOrders'[ordTrades'[k].buy].price
      BY <1>11, <1>12, <2>1 DEF OrdTables
    <2> QED BY <1>11, <1>12, <2>2 DEF OrdTables
  <1>14. OrdCounted(ordOrders', ordTrades', ordLost')
    <2> SUFFICES ASSUME NEW i \in DOMAIN ordOrders, i \notin ordLost' PROVE ordOrders'[i].filled = OrdTraded(ordTrades', i)
      BY <1>11 DEF OrdCounted
    <2>1. ordOrders[i].filled = OrdTraded(ordTrades, i) /\ ordOrders[i].filled \in Nat
      BY <1>1, <1>4, OrdRows DEF OrdInv, OrdCounted, OrdRow
    <2>2. CASE i \notin {c.id, q.id}
      BY <1>8, <1>9, <1>11, <1>12, <2>1, <2>2
    <2>3. CASE i \in {c.id, q.id}
      <3>1. ordOrders[i] = read[i]
        BY <1>1, <1>9, <2>3 DEF Ord!Stale
      <3>2. ordOrders'[i] = save[i] /\ save[i].filled = read[i].filled + n
        BY <1>6, <1>7, <1>9, <1>11, <2>3
      <3>3. OrdTraded(ordTrades', i) = OrdTraded(ordTrades, i) + n
        BY <1>8, <1>12, <2>3
      <3> QED BY <2>1, <3>1, <3>2, <3>3
    <2> QED BY <2>2, <2>3
  <1>15. OrdAsks(then, ordOrders)
    <2> DEFINE row == Ord!Filled(o, n)
    <2>1. row.quantity = o.quantity /\ row.filled = o.filled + n
      BY <1>6 DEF OrdSame
    <2>2. q.left \in Nat /\ o.filled \in Nat /\ o.quantity \in Nat
      BY <1>3, <1>5 DEF OrdRequest, OrdRow
    <2>3. (o.filled + n) + (q.left - n) <= o.quantity
      BY <1>2, <1>3, <2>2, OrdLeft
    <2>4. row \in OrdRow /\ OrdRowOK(row) /\ OrdSame(row, q.row) /\ row.filled + (q.left - n) <= row.quantity
      BY <1>6, <2>1, <2>3
    <2>5. n \in Nat
      BY <1>2
    <2>6. then = OrdThen(q, row, n)
      BY DEF then
    <2> HIDE DEF row
    <2>7. OrdAsks(OrdThen(q, row, n), ordOrders)
      BY <1>2, <1>3, <2>4, <2>5, OrdOnward
    <2> QED BY <2>6, <2>7
  <1>16. OrdAsked(ordReq', ordOrders')
    <2>1. OrdAsks(then, ordOrders')
      BY <1>11, <1>15, OrdAsksStay
    <2> QED BY <1>1, <1>11, <2>1, OrdAskedMore DEF OrdInv
  <1> QED BY <1>13, <1>14, <1>16 DEF OrdInv

LEMMA OrdDoneInv == ASSUME OrdInv, NEW r \in Clients, Ord!MatchDone(r) PROVE OrdInv'
  <1>1. ordReq' = [ordReq EXCEPT ![r] = Ord!Done] /\ UNCHANGED <<ordOrders, ordTrades, ordLost>>
    BY DEF Ord!MatchDone
  <1>2. OrdAsks(Ord!Done, ordOrders)
    BY DEF OrdAsks
  <1>3. \A i \in DOMAIN ordOrders : OrdSame(ordOrders[i], ordOrders[i])
    BY DEF OrdSame
  <1>4. OrdAsked(ordReq', ordOrders)
    BY <1>1, <1>2, <1>3, OrdAskedMore DEF OrdInv
  <1> QED BY <1>1, <1>4 DEF OrdInv

LEMMA OrdCancelReadInv ==
    ASSUME OrdInv, NEW r \in Clients, NEW id \in DOMAIN ordOrders, Ord!CancelRead(r, id)
    PROVE  OrdInv'
  <1> DEFINE row == ordOrders[id]
             q == [pc |-> "cancel", id |-> id, row |-> row, left |-> 0, rest |-> <<>>]
  <1>1. /\ Ord!CanCancel(row) /\ ordReq' = [ordReq EXCEPT ![r] = q]
        /\ UNCHANGED <<ordOrders, ordTrades, ordLost>>
    BY DEF Ord!CancelRead
  <1>2. OrdTables(ordOrders, ordTrades)
    BY DEF OrdInv
  <1>3. row \in OrdRow /\ OrdRowOK(row) /\ id \in Nat
    BY <1>2, OrdRows DEF OrdTables
  <1> HIDE DEF row
  <1>4. q \in OrdRequest /\ q.row = row /\ q.id = id /\ q.pc = "cancel" /\ q.left = 0 /\ q.rest = <<>>
    <2>1. <<>> \in OrdLists
      BY DEF OrdLists
    <2> QED BY <1>3, <2>1 DEF OrdRequest
  <1> HIDE DEF q
  <1>5. OrdCopy(row, id, ordOrders)
    BY <1>3 DEF OrdCopy, OrdSame, row
  <1>6. row.filled < row.quantity /\ row.filled + 0 <= row.quantity
    BY <1>1, <1>3 DEF Ord!CanCancel, OrdRowOK, OrdRow
  <1>7. OrdAsks(q, ordOrders)
    BY <1>4, <1>5, <1>6 DEF OrdAsks
  <1>8. \A i \in DOMAIN ordOrders : OrdSame(ordOrders[i], ordOrders[i])
    BY DEF OrdSame
  <1>9. OrdAsked(ordReq', ordOrders)
    BY <1>1, <1>7, <1>8, OrdAskedMore DEF OrdInv
  <1> QED BY <1>1, <1>9 DEF OrdInv

LEMMA OrdCancelSaveInv == ASSUME OrdInv, NEW r \in Clients, Ord!CancelSave(r) PROVE OrdInv'
  <1> DEFINE q == ordReq[r]
             o == q.row
             read == [i \in {q.id} |-> o]
             row == [o EXCEPT !.status = "cancelled"]
             save == [i \in {q.id} |-> row]
  <1>1. /\ q.pc = "cancel" /\ ordOrders' = Ord!Saved(ordOrders, save)
        /\ ordLost' = ordLost \cup Ord!Stale(ordOrders, read) /\ ordReq' = [ordReq EXCEPT ![r] = Ord!Done]
        /\ UNCHANGED ordTrades
    BY DEF Ord!CancelSave
  <1>2. OrdCopy(o, q.id, ordOrders) /\ o.filled < o.quantity
    BY <1>1, OrdAtWork
  <1>3. OrdTables(ordOrders, ordTrades)
    BY DEF OrdInv
  <1> HIDE DEF o
  <1>4. row \in OrdRow /\ OrdRowOK(row) /\ OrdSame(row, o) /\ row.filled = o.filled
    BY <1>2 DEF OrdCopy, OrdRow, OrdRowOK, OrdSame
  <1> HIDE DEF row
  <1>5. OrdCopy(row, q.id, ordOrders)
    BY <1>2, <1>4 DEF OrdCopy, OrdSame
  <1>6. DOMAIN save = {q.id} /\ save[q.id] = row /\ DOMAIN read = {q.id} /\ read[q.id] = o
    OBVIOUS
  <1> HIDE DEF save, read
  <1>7. \A i \in DOMAIN save : OrdCopy(save[i], i, ordOrders)
    BY <1>5, <1>6
  <1>8. /\ DOMAIN ordOrders' = DOMAIN ordOrders
        /\ \A i \in DOMAIN ordOrders : ordOrders'[i] = IF i \in DOMAIN save THEN save[i] ELSE ordOrders[i]
        /\ \A i \in DOMAIN ordOrders : OrdSame(ordOrders'[i], ordOrders[i])
        /\ OrdTables(ordOrders', ordTrades)
    BY <1>1, <1>3, <1>7, OrdSavedRows
  <1>9. OrdCounted(ordOrders', ordTrades, ordLost')
    <2> SUFFICES ASSUME NEW i \in DOMAIN ordOrders, i \notin ordLost' PROVE ordOrders'[i].filled = OrdTraded(ordTrades, i)
      BY <1>8 DEF OrdCounted
    <2>1. ordOrders[i].filled = OrdTraded(ordTrades, i)
      BY <1>1 DEF OrdInv, OrdCounted
    <2>2. CASE i # q.id
      BY <1>6, <1>8, <2>1, <2>2
    <2>3. CASE i = q.id
      <3>1. ordOrders[i] = o
        BY <1>1, <1>6, <2>3 DEF Ord!Stale
      <3>2. ordOrders'[i] = row
        BY <1>6, <1>8, <2>3
      <3> QED BY <1>4, <2>1, <3>1, <3>2
    <2> QED BY <2>2, <2>3
  <1>10. OrdAsked(ordReq', ordOrders')
    <2>1. OrdAsks(Ord!Done, ordOrders')
      BY DEF OrdAsks
    <2> QED BY <1>1, <1>8, <2>1, OrdAskedMore DEF OrdInv
  <1> QED BY <1>1, <1>8, <1>9, <1>10 DEF OrdInv

LEMMA OrdNextInv == OrdInv /\ [Ord!Next]_(Ord!vars) => OrdInv'
  <1> SUFFICES ASSUME OrdInv, [Ord!Next]_(Ord!vars) PROVE OrdInv'
    OBVIOUS
  <1>1. CASE UNCHANGED Ord!vars
    BY <1>1 DEF Ord!vars, OrdInv
  <1>2. ASSUME NEW r \in Clients, NEW side \in {"buy", "sell"}, NEW o \in OrdOffers, Ord!CreateOrder(r, side, o[1], o[2])
        PROVE OrdInv'
    BY <1>2, OrdCreateInv
  <1>3. ASSUME NEW r \in Clients, Ord!FindCounters(r) PROVE OrdInv'
    BY <1>3, OrdFindInv
  <1>4. ASSUME NEW r \in Clients, Ord!Fill(r) PROVE OrdInv'
    BY <1>4, OrdFillInv
  <1>5. ASSUME NEW r \in Clients, Ord!FillFails(r) PROVE OrdInv'
    BY <1>5, OrdFailsInv
  <1>6. ASSUME NEW r \in Clients, Ord!MatchDone(r) PROVE OrdInv'
    BY <1>6, OrdDoneInv
  <1>7. ASSUME NEW r \in Clients, Ord!CancelSave(r) PROVE OrdInv'
    BY <1>7, OrdCancelSaveInv
  <1>8. ASSUME NEW r \in Clients, NEW id \in DOMAIN ordOrders, Ord!CancelRead(r, id) PROVE OrdInv'
    BY <1>8, OrdCancelReadInv
  <1> QED BY <1>1, <1>2, <1>3, <1>4, <1>5, <1>6, <1>7, <1>8 DEF Ord!Next, Ord!Ids

\* The invariant says of the book what is checked of it.
LEMMA OrdInvMeans == OrdInv => Ord!FillsAreExplained
  <1> SUFFICES ASSUME OrdInv PROVE Ord!FillsAreExplained
    OBVIOUS
  <1>1. OrdTables(ordOrders, ordTrades)
    BY DEF OrdInv
  <1>2. ASSUME NEW i PROVE Ord!TradedOf(i) = OrdTraded(ordTrades, i)
    <2> DEFINE f == OrdParts(ordTrades, i)
    <2>1. Ord!SumFunction(f) = SumFunctionOnSet(f, DOMAIN f)
      BY DEF Ord!SumFunction, Ord!SumFunctionOnSet, Ord!FoldFunctionOnSet, Ord!MapThenFoldSet,
             SumFunctionOnSet, FoldFunctionOnSet, MapThenFoldSet
    <2>2. DOMAIN f = DOMAIN ordTrades
      BY DEF OrdParts
    <2>3. Ord!TradedOf(i) = Ord!SumFunction(f)
      BY DEF Ord!TradedOf, OrdParts, OrdPart
    <2> HIDE DEF f
    <2>4. OrdTraded(ordTrades, i) = SumFunctionOnSet(f, DOMAIN ordTrades)
      BY DEF OrdTraded, f
    <2> QED BY <2>1, <2>2, <2>3, <2>4
  <1>3. ASSUME NEW i \in DOMAIN ordOrders
        PROVE  /\ ordOrders[i].filled \in 0..ordOrders[i].quantity
               /\ ordOrders[i].status = "filled" <=> ordOrders[i].filled = ordOrders[i].quantity
               /\ i \notin ordLost => ordOrders[i].filled = Ord!TradedOf(i)
    <2>1. ordOrders[i] \in OrdRow /\ OrdRowOK(ordOrders[i])
      BY <1>1, OrdRows DEF OrdTables
    <2>2. /\ ordOrders[i].filled \in 0..ordOrders[i].quantity
          /\ ordOrders[i].status = "filled" <=> ordOrders[i].filled = ordOrders[i].quantity
      BY <2>1 DEF OrdRow, OrdRowOK
    <2>3. i \notin ordLost => ordOrders[i].filled = Ord!TradedOf(i)
      BY <1>2 DEF OrdInv, OrdCounted
    <2> QED BY <2>2, <2>3
  <1>4. ASSUME NEW k \in DOMAIN ordTrades
        PROVE  /\ ordTrades[k].quantity > 0
               /\ ordOrders[ordTrades[k].sell].price <= ordTrades[k].price
               /\ ordTrades[k].price <= ordOrders[ordTrades[k].buy].price
    <2>1. ordTrades[k] \in OrdTrade
      BY <1>1, OrdRows
    <2>2. ordTrades[k].quantity > 0
      BY <2>1 DEF OrdTrade
    <2> QED BY <1>1, <2>2 DEF OrdTables
  <1> QED BY <1>3, <1>4 DEF Ord!FillsAreExplained, Ord!Ids

-----------------------------------------------------------------------------
(* The market maker                                                        *)

MakerRow == [amount : Nat \ {0}, filled : Nat, status : {"active", "filled", "cancelled"}]

MakerRowOK(o) ==
    /\ o.filled <= o.amount
    /\ o.status = "active" => o.filled < o.amount
    /\ o.status = "filled" => o.filled = o.amount

\* A fill was found to fit an order whose amount never changes.
MakerAsks(q, rows) ==
    \/ q \in {Ord!New, Ord!Done}
    \/ /\ q.pc = "fill" /\ q.id \in DOMAIN rows /\ q.units \in Nat /\ q.read \in Nat
       /\ q.read + q.units <= rows[q.id].amount
    \/ q.pc = "inventory" /\ q.read \in Seq(Int) /\ q.change \in Int

MakerAsked(reqs, rows) ==
    reqs = [r \in Clients |-> reqs[r]] /\ \A r \in Clients : MakerAsks(reqs[r], rows)

MakerTable(rows) == rows \in Seq(MakerRow) /\ \A i \in DOMAIN rows : MakerRowOK(rows[i])

\* An order counts the fills it was given, but for those with overlapping fills.
MakerCounted(rows, given, over) ==
    /\ given \in Seq(Int) /\ DOMAIN given = DOMAIN rows
    /\ \A i \in DOMAIN rows : i \notin over => rows[i].filled = given[i]

\* At most one row holds the changes, but after overlapping changes or a cut.
MakerHeld(held, change, over) ==
    /\ held \in Seq(Int) /\ change \in Int
    /\ 0 \notin over => IF held = <<>> THEN change = 0 ELSE Len(held) = 1 /\ held[1] = change

MakerInv ==
    /\ MakerTable(ordMakerOrders)
    /\ MakerCounted(ordMakerOrders, ordFills, ordRaced)
    /\ MakerHeld(ordInventory, ordMoved, ordRaced)
    /\ MakerAsked(ordMakerReq, ordMakerOrders)

LEMMA MakerRows ==
    ASSUME NEW rows, MakerTable(rows)
    PROVE  Len(rows) \in Nat /\ DOMAIN rows = 1..Len(rows) /\ \A i \in DOMAIN rows : rows[i] \in MakerRow
  <1> DEFINE R == MakerRow
  <1>1. rows \in Seq(R)
    BY DEF MakerTable
  <1> HIDE DEF R
  <1>2. Len(rows) \in Nat /\ DOMAIN rows = 1..Len(rows) /\ \A i \in DOMAIN rows : rows[i] \in R
    BY <1>1
  <1> QED BY <1>2 DEF R

\* One request goes on, while orders keep their amounts.
LEMMA MakerAskedMore ==
    ASSUME NEW reqs, NEW rows, MakerAsked(reqs, rows), NEW r \in Clients, NEW q, NEW after,
           DOMAIN rows \subseteq DOMAIN after, \A i \in DOMAIN rows : after[i].amount = rows[i].amount,
           MakerAsks(q, after)
    PROVE  MakerAsked([reqs EXCEPT ![r] = q], after)
  <1> DEFINE then == [reqs EXCEPT ![r] = q]
  <1>1. then = [k \in Clients |-> then[k]] /\ then[r] = q /\ \A k \in Clients : k # r => then[k] = reqs[k]
    BY DEF MakerAsked
  <1> HIDE DEF then
  <1>2. ASSUME NEW k \in Clients PROVE MakerAsks(reqs[k], after)
    <2> DEFINE p == reqs[k]
    <2>1. MakerAsks(p, rows)
      BY DEF MakerAsked
    <2> HIDE DEF p
    <2>2. MakerAsks(p, after)
      BY <2>1 DEF MakerAsks
    <2> QED BY <2>2 DEF p
  <1>3. \A k \in Clients : MakerAsks(then[k], after)
    BY <1>1, <1>2
  <1> QED BY <1>1, <1>3 DEF MakerAsked, then

LEMMA MakerAskedStay ==
    ASSUME NEW reqs, NEW rows, MakerAsked(reqs, rows), NEW after,
           DOMAIN rows \subseteq DOMAIN after, \A i \in DOMAIN rows : after[i].amount = rows[i].amount
    PROVE  MakerAsked(reqs, after)
  <1>1. ASSUME NEW k \in Clients PROVE MakerAsks(reqs[k], after)
    <2> DEFINE p == reqs[k]
    <2>1. MakerAsks(p, rows)
      BY DEF MakerAsked
    <2> HIDE DEF p
    <2>2. MakerAsks(p, after)
      BY <2>1 DEF MakerAsks
    <2> QED BY <2>2 DEF p
  <1> QED BY <1>1 DEF MakerAsked

LEMMA MakerInvInit == Ord!MakerInit => MakerInv
  <1> SUFFICES ASSUME Ord!MakerInit PROVE MakerInv
    OBVIOUS
  <1>1. /\ ordMakerOrders = <<>> /\ ordFills = <<>> /\ ordInventory = <<>> /\ ordMoved = 0
        /\ ordMakerReq = [r \in Clients |-> Ord!New]
    BY DEF Ord!MakerInit
  <1>2. MakerTable(ordMakerOrders) /\ MakerCounted(ordMakerOrders, ordFills, ordRaced)
    BY <1>1 DEF MakerTable, MakerCounted
  <1>3. MakerHeld(ordInventory, ordMoved, ordRaced)
    BY <1>1 DEF MakerHeld
  <1>4. MakerAsked(ordMakerReq, ordMakerOrders)
    BY <1>1 DEF MakerAsked, MakerAsks
  <1> QED BY <1>2, <1>3, <1>4 DEF MakerInv

\* One order is replaced.
LEMMA MakerReplaced ==
    ASSUME NEW rows, MakerTable(rows), NEW i \in DOMAIN rows, NEW o \in MakerRow, MakerRowOK(o), o.amount = rows[i].amount
    PROVE  LET after == [rows EXCEPT ![i] = o] IN
           /\ MakerTable(after) /\ DOMAIN after = DOMAIN rows
           /\ after[i] = o /\ \A k \in DOMAIN rows : k # i => after[k] = rows[k]
           /\ \A k \in DOMAIN rows : after[k].amount = rows[k].amount
  <1> DEFINE after == [rows EXCEPT ![i] = o]
             R == MakerRow
  <1>1. rows \in Seq(R) /\ o \in R
    BY DEF MakerTable
  <1>2. /\ DOMAIN after = DOMAIN rows /\ after[i] = o
        /\ \A k \in DOMAIN rows : k # i => after[k] = rows[k]
    OBVIOUS
  <1> HIDE DEF R
  <1>3. after \in Seq(R)
    BY <1>1
  <1> HIDE DEF after
  <1>4. \A k \in DOMAIN after : MakerRowOK(after[k])
    BY <1>2 DEF MakerTable
  <1>5. \A k \in DOMAIN rows : after[k].amount = rows[k].amount
    BY <1>2
  <1> QED BY <1>2, <1>3, <1>4, <1>5 DEF MakerTable, R, after

LEMMA MakerCreateInv == ASSUME MakerInv, NEW a \in OrdAmounts, Ord!CreateMakerOrder(a) PROVE MakerInv'
  <1> DEFINE row == [amount |-> a, filled |-> 0, status |-> "active"]
             n == Len(ordMakerOrders)
  <1>1. /\ a > 0 /\ ordMakerOrders' = Append(ordMakerOrders, row) /\ ordFills' = Append(ordFills, 0)
        /\ UNCHANGED <<ordInventory, ordMakerReq, ordMoved, ordRaced>>
    BY DEF Ord!CreateMakerOrder
  <1>2. MakerTable(ordMakerOrders) /\ MakerCounted(ordMakerOrders, ordFills, ordRaced)
    BY DEF MakerInv
  <1>3. row \in MakerRow /\ MakerRowOK(row) /\ row.filled = 0
    BY <1>1, OrderAssumption DEF MakerRow, MakerRowOK
  <1> HIDE DEF row
  <1>4. /\ ordMakerOrders' \in Seq(MakerRow) /\ n \in Nat
        /\ DOMAIN ordMakerOrders = 1..n /\ DOMAIN ordMakerOrders' = 1..(n + 1)
        /\ ordMakerOrders'[n + 1] = row /\ \A i \in 1..n : ordMakerOrders'[i] = ordMakerOrders[i]
    <2> DEFINE R == MakerRow
    <2>1. ordMakerOrders \in Seq(R) /\ row \in R
      BY <1>2, <1>3 DEF MakerTable
    <2> HIDE DEF R
    <2> QED BY <1>1, <2>1 DEF R
  <1> HIDE DEF n
  <1>5. /\ ordFills' \in Seq(Int) /\ DOMAIN ordFills' = 1..(n + 1)
        /\ ordFills'[n + 1] = 0 /\ \A i \in 1..n : ordFills'[i] = ordFills[i]
    <2>1. ordFills \in Seq(Int) /\ DOMAIN ordFills = 1..n
      BY <1>2, <1>4 DEF MakerCounted
    <2>2. Len(ordFills) = n
      BY <1>4, <2>1
    <2> QED BY <1>1, <2>1, <2>2
  <1>6. MakerTable(ordMakerOrders')
    BY <1>2, <1>3, <1>4 DEF MakerTable
  <1>7. MakerCounted(ordMakerOrders', ordFills', ordRaced)
    <2>1. \A i \in 1..(n + 1) : i = n + 1 \/ i \in 1..n
      BY <1>4
    <2> QED BY <1>2, <1>3, <1>4, <1>5, <2>1 DEF MakerCounted
  <1>8. MakerAsked(ordMakerReq, ordMakerOrders')
    <2>1. DOMAIN ordMakerOrders \subseteq DOMAIN ordMakerOrders'
      BY <1>4
    <2>2. \A i \in DOMAIN ordMakerOrders : ordMakerOrders'[i].amount = ordMakerOrders[i].amount
      BY <1>4
    <2> QED BY <2>1, <2>2, MakerAskedStay DEF MakerInv
  <1> QED BY <1>1, <1>6, <1>7, <1>8 DEF MakerInv

LEMMA MakerCancelInv == ASSUME MakerInv, NEW i \in DOMAIN ordMakerOrders, Ord!CancelOrder(i) PROVE MakerInv'
  <1> DEFINE o == ordMakerOrders[i]
             row == [o EXCEPT !.status = "cancelled"]
  <1>1. /\ ordMakerOrders' = [ordMakerOrders EXCEPT ![i] = row]
        /\ UNCHANGED <<ordFills, ordInventory, ordMakerReq, ordMoved, ordRaced>>
    BY DEF Ord!CancelOrder
  <1>2. MakerTable(ordMakerOrders) /\ o \in MakerRow /\ MakerRowOK(o)
    BY MakerRows DEF MakerInv, MakerTable
  <1>3. row \in MakerRow /\ MakerRowOK(row) /\ row.amount = o.amount /\ row.filled = o.filled
    <2> HIDE DEF o
    <2> QED BY <1>2 DEF MakerRow, MakerRowOK
  <1> HIDE DEF row
  <1>4. /\ MakerTable(ordMakerOrders') /\ DOMAIN ordMakerOrders' = DOMAIN ordMakerOrders
        /\ ordMakerOrders'[i] = row /\ \A k \in DOMAIN ordMakerOrders : k # i => ordMakerOrders'[k] = ordMakerOrders[k]
        /\ \A k \in DOMAIN ordMakerOrders : ordMakerOrders'[k].amount = ordMakerOrders[k].amount
    BY <1>1, <1>2, <1>3, MakerReplaced
  <1>5. MakerCounted(ordMakerOrders', ordFills, ordRaced)
    <2>1. \A k \in DOMAIN ordMakerOrders : ordMakerOrders'[k].filled = ordMakerOrders[k].filled
      BY <1>3, <1>4
    <2> QED BY <1>4, <2>1 DEF MakerInv, MakerCounted
  <1>6. MakerAsked(ordMakerReq, ordMakerOrders')
    BY <1>4, MakerAskedStay DEF MakerInv
  <1> QED BY <1>1, <1>4, <1>5, <1>6 DEF MakerInv

\* A request that only answers or reads.
LEMMA MakerRequestInv ==
    ASSUME MakerInv, NEW r \in Clients, NEW q, MakerAsks(q, ordMakerOrders),
           ordMakerReq' = [ordMakerReq EXCEPT ![r] = q],
           UNCHANGED <<ordMakerOrders, ordFills, ordInventory, ordMoved, ordRaced>>
    PROVE  MakerInv'
  <1>1. MakerAsked(ordMakerReq', ordMakerOrders)
    BY MakerAskedMore DEF MakerInv
  <1> QED BY <1>1 DEF MakerInv

LEMMA MakerFillReadInv ==
    ASSUME MakerInv, NEW r \in Clients, NEW i \in DOMAIN ordMakerOrders, NEW a \in OrdAmounts, Ord!FillRead(r, i, a)
    PROVE  MakerInv'
  <1> DEFINE o == ordMakerOrders[i]
             q == [pc |-> "fill", id |-> i, units |-> a, read |-> o.filled]
  <1>1. o.filled + a <= o.amount /\ ordMakerReq' = [ordMakerReq EXCEPT ![r] = q]
    BY DEF Ord!FillRead, Ord!Fits
  <1>2. UNCHANGED <<ordMakerOrders, ordFills, ordInventory, ordMoved, ordRaced>>
    BY DEF Ord!FillRead
  <1>3. o \in MakerRow /\ a \in Nat
    BY MakerRows, OrderAssumption DEF MakerInv
  <1>4. MakerAsks(q, ordMakerOrders)
    BY <1>1, <1>3 DEF MakerAsks, MakerRow
  <1> QED BY <1>1, <1>2, <1>4, MakerRequestInv

LEMMA MakerRecordInv ==
    ASSUME MakerInv, NEW r \in Clients, NEW i, NEW a, Ord!RecordTrade(r, i, a)
    PROVE  MakerInv'
  <1>1. MakerAsks(Ord!Done, ordMakerOrders)
    BY DEF MakerAsks
  <1> QED BY <1>1, MakerRequestInv DEF Ord!RecordTrade

LEMMA MakerInventoryReadInv ==
    ASSUME MakerInv, NEW r \in Clients, NEW c \in OrdChanges, Ord!InventoryRead(r, c)
    PROVE  MakerInv'
  <1> DEFINE q == [pc |-> "inventory", change |-> c, read |-> ordInventory]
  <1>1. ordMakerReq' = [ordMakerReq EXCEPT ![r] = q]
    BY DEF Ord!InventoryRead
  <1>2. UNCHANGED <<ordMakerOrders, ordFills, ordInventory, ordMoved, ordRaced>>
    BY DEF Ord!InventoryRead
  <1>3. MakerAsks(q, ordMakerOrders)
    BY OrderAssumption DEF MakerInv, MakerHeld, MakerAsks
  <1> QED BY <1>1, <1>2, <1>3, MakerRequestInv

LEMMA MakerFillInv == ASSUME MakerInv, NEW r \in Clients, Ord!FillOrder(r) PROVE MakerInv'
  <1> DEFINE q == ordMakerReq[r]
             o == ordMakerOrders[q.id]
             filled == q.read + q.units
             status == IF filled = o.amount THEN "filled" ELSE "active"
             one == [o EXCEPT !.filled = filled]
             row == [one EXCEPT !.status = status]
  <1>1. /\ q.pc = "fill" /\ ordMakerOrders' = [ordMakerOrders EXCEPT ![q.id] = row]
        /\ ordFills' = [ordFills EXCEPT ![q.id] = ordFills[q.id] + q.units]
        /\ ordRaced' = IF o.filled # q.read THEN ordRaced \cup {q.id} ELSE ordRaced
        /\ ordMakerReq' = [ordMakerReq EXCEPT ![r] = Ord!Done]
        /\ UNCHANGED <<ordInventory, ordMoved>>
    BY DEF Ord!FillOrder
  <1>2. q.id \in DOMAIN ordMakerOrders /\ q.units \in Nat /\ q.read \in Nat /\ filled <= o.amount
    <2>1. MakerAsks(q, ordMakerOrders)
      BY DEF MakerInv, MakerAsked
    <2> HIDE DEF q
    <2> QED BY <1>1, <2>1 DEF MakerAsks, Ord!New, Ord!Done
  <1>3. MakerTable(ordMakerOrders) /\ o \in MakerRow
    BY <1>2, MakerRows DEF MakerInv
  <1>4. filled \in Nat
    BY <1>2
  <1>5. row \in MakerRow /\ MakerRowOK(row) /\ row.amount = o.amount /\ row.filled = filled
    <2> HIDE DEF o, filled
    <2>1. status \in {"filled", "active"} /\ (status = "filled" <=> filled = o.amount)
      OBVIOUS
    <2> HIDE DEF status
    <2>2. one \in MakerRow /\ one.filled = filled /\ one.amount = o.amount
      BY <1>3, <1>4 DEF MakerRow
    <2> HIDE DEF one
    <2>3. row \in MakerRow /\ row.filled = filled /\ row.amount = o.amount /\ row.status = status
      BY <2>1, <2>2 DEF MakerRow
    <2> HIDE DEF row
    <2>4. o.amount \in Nat
      BY <1>3 DEF MakerRow
    <2> QED BY <1>2, <1>4, <2>1, <2>3, <2>4 DEF MakerRowOK
  <1> HIDE DEF row
  <1>6. /\ MakerTable(ordMakerOrders') /\ DOMAIN ordMakerOrders' = DOMAIN ordMakerOrders
        /\ ordMakerOrders'[q.id] = row /\ \A k \in DOMAIN ordMakerOrders : k # q.id => ordMakerOrders'[k] = ordMakerOrders[k]
        /\ \A k \in DOMAIN ordMakerOrders : ordMakerOrders'[k].amount = ordMakerOrders[k].amount
    BY <1>1, <1>2, <1>3, <1>5, MakerReplaced
  <1>7. MakerCounted(ordMakerOrders, ordFills, ordRaced)
    BY DEF MakerInv
  <1>8. /\ ordFills' \in Seq(Int) /\ DOMAIN ordFills' = DOMAIN ordFills
        /\ ordFills'[q.id] = ordFills[q.id] + q.units
        /\ \A k \in DOMAIN ordFills : k # q.id => ordFills'[k] = ordFills[k]
    <2> DEFINE more == ordFills[q.id] + q.units
    <2>1. ordFills \in Seq(Int) /\ q.id \in DOMAIN ordFills
      BY <1>2, <1>7 DEF MakerCounted
    <2>2. more \in Int
      BY <1>2, <2>1
    <2> HIDE DEF more
    <2>3. ordFills' = [ordFills EXCEPT ![q.id] = more]
      BY <1>1 DEF more
    <2>4. /\ ordFills' \in Seq(Int) /\ DOMAIN ordFills' = DOMAIN ordFills /\ ordFills'[q.id] = more
          /\ \A k \in DOMAIN ordFills : k # q.id => ordFills'[k] = ordFills[k]
      BY <2>1, <2>2, <2>3
    <2> QED BY <2>4 DEF more
  <1>9. MakerCounted(ordMakerOrders', ordFills', ordRaced')
    <2>1. ASSUME NEW k \in DOMAIN ordMakerOrders, k \notin ordRaced' PROVE ordMakerOrders'[k].filled = ordFills'[k]
      <3>1. k \notin ordRaced /\ (k = q.id => o.filled = q.read)
        BY <1>1, <2>1
      <3>2. ordMakerOrders[k].filled = ordFills[k]
        BY <1>7, <3>1 DEF MakerCounted
      <3>3. CASE k = q.id
        BY <1>5, <1>6, <1>8, <3>1, <3>2, <3>3
      <3>4. CASE k # q.id
        BY <1>6, <1>7, <1>8, <3>2, <3>4 DEF MakerCounted
      <3> QED BY <3>3, <3>4
    <2> QED BY <1>6, <1>7, <1>8, <2>1 DEF MakerCounted
  <1>10. MakerHeld(ordInventory', ordMoved', ordRaced')
    <2>1. 0 \notin ordRaced' => 0 \notin ordRaced
      BY <1>1
    <2> QED BY <1>1, <2>1 DEF MakerInv, MakerHeld
  <1>11. MakerAsked(ordMakerReq', ordMakerOrders')
    <2>1. MakerAsks(Ord!Done, ordMakerOrders')
      BY DEF MakerAsks
    <2> QED BY <1>1, <1>6, <2>1, MakerAskedMore DEF MakerInv
  <1> QED BY <1>6, <1>9, <1>10, <1>11 DEF MakerInv

\* A first row, and a change of it.
LEMMA MakerFirstRow ==
    ASSUME NEW held \in Seq(Int), NEW n \in Int
    PROVE  /\ Append(held, n) \in Seq(Int)
           /\ held = <<>> => Append(held, n) # <<>> /\ Len(Append(held, n)) = 1 /\ Append(held, n)[1] = n
           /\ [held EXCEPT ![1] = n] \in Seq(Int)
           /\ Len(held) = 1 => /\ [held EXCEPT ![1] = n] # <<>>
                               /\ Len([held EXCEPT ![1] = n]) = 1 /\ [held EXCEPT ![1] = n][1] = n
  <1> DEFINE then == [held EXCEPT ![1] = n]
  <1>1. Append(held, n) \in Seq(Int)
    OBVIOUS
  <1>2. held = <<>> => Append(held, n) # <<>> /\ Len(Append(held, n)) = 1 /\ Append(held, n)[1] = n
    OBVIOUS
  <1>3. then \in Seq(Int)
    <2> DEFINE I == Int
    <2>1. held \in Seq(I) /\ n \in I
      OBVIOUS
    <2> HIDE DEF I
    <2>2. CASE 1 \in DOMAIN held
      BY <2>1, <2>2
    <2>3. CASE 1 \notin DOMAIN held
      <3>1. then = held
        BY <2>3
      <3> QED BY <2>1, <3>1
    <2> QED BY <2>2, <2>3 DEF I
  <1>4. ASSUME Len(held) = 1 PROVE then # <<>> /\ Len(then) = 1 /\ then[1] = n
    <2>1. 1 \in DOMAIN held /\ DOMAIN then = DOMAIN held
      BY <1>4
    <2>2. then[1] = n
      BY <2>1
    <2> HIDE DEF then
    <2>3. Len(then) = 1 /\ then # <<>>
      BY <1>3, <1>4, <2>1
    <2> QED BY <2>2, <2>3
  <1> QED BY <1>1, <1>2, <1>3, <1>4

LEMMA MakerInventoryInv == ASSUME MakerInv, NEW r \in Clients, Ord!UpdateInventory(r) PROVE MakerInv'
  <1> DEFINE q == ordMakerReq[r]
             held == q.read[1] + q.change
             kept == IF held < 0 THEN 0 ELSE held
  <1>1. /\ q.pc = "inventory"
        /\ ordInventory' = IF q.read = <<>> THEN Append(ordInventory, q.change) ELSE [ordInventory EXCEPT ![1] = kept]
        /\ ordMoved' = ordMoved + q.change
        /\ ordRaced' = IF ordInventory # q.read \/ (q.read # <<>> /\ held < 0) THEN ordRaced \cup {0} ELSE ordRaced
        /\ ordMakerReq' = [ordMakerReq EXCEPT ![r] = Ord!Done]
        /\ UNCHANGED <<ordMakerOrders, ordFills>>
    BY DEF Ord!UpdateInventory
  <1>2. q.read \in Seq(Int) /\ q.change \in Int
    <2>1. MakerAsks(q, ordMakerOrders)
      BY DEF MakerInv, MakerAsked
    <2> HIDE DEF q
    <2> QED BY <1>1, <2>1 DEF MakerAsks, Ord!New, Ord!Done
  <1>3. /\ ordInventory \in Seq(Int) /\ ordMoved \in Int
        /\ 0 \notin ordRaced => IF ordInventory = <<>> THEN ordMoved = 0 ELSE Len(ordInventory) = 1 /\ ordInventory[1] = ordMoved
    BY DEF MakerInv, MakerHeld
  <1>4. MakerCounted(ordMakerOrders', ordFills', ordRaced')
    <2>1. \A k : k \notin ordRaced' => k \notin ordRaced
      BY <1>1
    <2> QED BY <1>1, <2>1 DEF MakerInv, MakerCounted
  <1>5. MakerAsked(ordMakerReq', ordMakerOrders')
    <2>1. MakerAsks(Ord!Done, ordMakerOrders)
      BY DEF MakerAsks
    <2> QED BY <1>1, <2>1, MakerAskedMore DEF MakerInv
  <1>6. MakerHeld(ordInventory', ordMoved', ordRaced')
    <2> DEFINE change == q.change
               read == q.read
    <2>1. change \in Int /\ ordMoved' = ordMoved + change /\ ordMoved' \in Int
      BY <1>1, <1>2, <1>3
    <2>2. 0 \notin ordRaced' => 0 \notin ordRaced /\ ordInventory = read /\ ~(read # <<>> /\ held < 0)
      BY <1>1
    <2>3. CASE read = <<>>
      <3>1. ordInventory' = Append(ordInventory, change)
        BY <1>1, <2>3
      <3> HIDE DEF change, read
      <3>2. /\ ordInventory' \in Seq(Int)
            /\ ordInventory = <<>> => ordInventory' # <<>> /\ Len(ordInventory') = 1 /\ ordInventory'[1] = change
        BY <1>3, <2>1, <3>1, MakerFirstRow
      <3> QED BY <1>3, <2>1, <2>2, <2>3, <3>2 DEF MakerHeld
    <2>4. CASE read # <<>>
      <3>1. ordInventory' = [ordInventory EXCEPT ![1] = kept]
        BY <1>1, <2>4
      <3>2. read[1] \in Int
        <4> HIDE DEF read
        <4>1. read \in Seq(Int)
          BY <1>2 DEF read
        <4> QED BY <2>4, <4>1
      <3>3. held \in Int /\ kept \in Int /\ (~(held < 0) => kept = held)
        BY <1>2, <3>2
      <3>4. held = read[1] + change
        OBVIOUS
      <3> HIDE DEF kept, held, change, read, q
      <3>5. /\ ordInventory' \in Seq(Int)
            /\ Len(ordInventory) = 1 => ordInventory' # <<>> /\ Len(ordInventory') = 1 /\ ordInventory'[1] = kept
        BY <1>3, <3>1, <3>3, MakerFirstRow
      <3>6. ASSUME 0 \notin ordRaced' PROVE IF ordInventory' = <<>> THEN ordMoved' = 0 ELSE Len(ordInventory') = 1 /\ ordInventory'[1] = ordMoved'
        BY <1>3, <2>1, <2>2, <2>4, <3>3, <3>4, <3>5, <3>6
      <3> QED BY <2>1, <3>5, <3>6 DEF MakerHeld
    <2> QED BY <2>3, <2>4
  <1> QED BY <1>1, <1>4, <1>5, <1>6 DEF MakerInv

LEMMA MakerNextInv == MakerInv /\ [Ord!MakerNext]_(Ord!makerVars) => MakerInv'
  <1> SUFFICES ASSUME MakerInv, [Ord!MakerNext]_(Ord!makerVars) PROVE MakerInv'
    OBVIOUS
  <1>1. CASE UNCHANGED Ord!makerVars
    BY <1>1 DEF Ord!makerVars, MakerInv
  <1>2. CASE Ord!CreateBot
    BY <1>2 DEF Ord!CreateBot, MakerInv
  <1>3. ASSUME NEW s \in OrdStatuses, Ord!UpdateBotStatus(s) PROVE MakerInv'
    BY <1>3 DEF Ord!UpdateBotStatus, MakerInv
  <1>4. ASSUME NEW a \in OrdAmounts, Ord!CreateMakerOrder(a) PROVE MakerInv'
    BY <1>4, MakerCreateInv
  <1>5. ASSUME NEW i \in DOMAIN ordMakerOrders, Ord!CancelOrder(i) PROVE MakerInv'
    BY <1>5, MakerCancelInv
  <1>6. ASSUME NEW r \in Clients, NEW i \in DOMAIN ordMakerOrders, NEW a \in OrdAmounts, Ord!FillRead(r, i, a) PROVE MakerInv'
    BY <1>6, MakerFillReadInv
  <1>7. ASSUME NEW r \in Clients, NEW i \in DOMAIN ordMakerOrders, NEW a \in OrdAmounts, Ord!RecordTrade(r, i, a) PROVE MakerInv'
    BY <1>7, MakerRecordInv
  <1>8. ASSUME NEW r \in Clients, NEW c \in OrdChanges, Ord!InventoryRead(r, c) PROVE MakerInv'
    BY <1>8, MakerInventoryReadInv
  <1>9. ASSUME NEW r \in Clients, Ord!FillOrder(r) PROVE MakerInv'
    BY <1>9, MakerFillInv
  <1>10. ASSUME NEW r \in Clients, Ord!UpdateInventory(r) PROVE MakerInv'
    BY <1>10, MakerInventoryInv
  <1> QED BY <1>1, <1>2, <1>3, <1>4, <1>5, <1>6, <1>7, <1>8, <1>9, <1>10 DEF Ord!MakerNext, Ord!MakerIds

\* A spread is not negative and is halved with at most one unit lost.
LEMMA MakerQuote ==
    ASSUME NEW p \in Nat, NEW s \in Nat, NEW v \in Int
    PROVE  LET quote == Ord!CalculatePricingSpread(p, v, s) IN
           /\ quote[1] <= p /\ p <= quote[2] /\ p - quote[1] = quote[2] - p
           /\ quote[2] - quote[1] >= (p * s) \div OrdBpsUnit - 1
  <1> DEFINE m == p * s
             least == m \div OrdBpsUnit
             wider == (least * (100 + v)) \div 100
             spread == IF wider < least THEN least ELSE wider
             half == spread \div 2
  <1>1. m \in Nat /\ OrdBpsUnit \in Nat \ {0}
    BY OrderAssumption
  <1>2. Ord!CalculatePricingSpread(p, v, s) = <<p - half, p + half>>
    BY DEF Ord!CalculatePricingSpread, Ord!AdjustedSpread
  <1> HIDE DEF m
  <1>3. least \in Nat
    BY <1>1, QuotientBounds
  <1> HIDE DEF least
  <1>4. wider \in Int
    <2> DEFINE k == least * (100 + v)
    <2>1. k \in Int
      BY <1>3
    <2> HIDE DEF k
    <2>2. k \div 100 \in Int
      BY <2>1
    <2> QED BY <2>2 DEF k
  <1> HIDE DEF wider
  <1>5. spread \in Nat /\ spread >= least
    BY <1>3, <1>4
  <1> HIDE DEF spread
  <1>6. half \in Nat /\ half + half >= spread - 1
    BY <1>5
  <1> HIDE DEF half
  <1>7. (p + half) - (p - half) >= least - 1
    BY <1>3, <1>5, <1>6
  <1>8. p - half <= p /\ p <= p + half /\ p - (p - half) = (p + half) - p
    BY <1>6
  <1> QED BY <1>2, <1>7, <1>8 DEF least, m

LEMMA MakerInvMeans == MakerInv => Ord!FillsStayWithinOrder
  <1> SUFFICES ASSUME MakerInv PROVE Ord!FillsStayWithinOrder
    OBVIOUS
  <1>1. ASSUME NEW i \in DOMAIN ordMakerOrders
        PROVE  /\ ordMakerOrders[i].filled \in 0..ordMakerOrders[i].amount
               /\ i \notin ordRaced => ordMakerOrders[i].filled = ordFills[i]
               /\ ordMakerOrders[i].status = "active" => ordMakerOrders[i].filled < ordMakerOrders[i].amount
               /\ ordMakerOrders[i].status = "filled" => ordMakerOrders[i].filled = ordMakerOrders[i].amount
    <2>1. ordMakerOrders[i] \in MakerRow /\ MakerRowOK(ordMakerOrders[i])
      BY MakerRows DEF MakerInv, MakerTable
    <2>2. i \notin ordRaced => ordMakerOrders[i].filled = ordFills[i]
      BY DEF MakerInv, MakerCounted
    <2> QED BY <2>1, <2>2 DEF MakerRow, MakerRowOK
  <1>2. 0 \notin ordRaced => Ord!Position = ordMoved /\ Len(ordInventory) <= 1
    <2> SUFFICES ASSUME 0 \notin ordRaced PROVE Ord!Position = ordMoved /\ Len(ordInventory) <= 1
      OBVIOUS
    <2>1. /\ ordInventory \in Seq(Int) /\ ordMoved \in Int
          /\ IF ordInventory = <<>> THEN ordMoved = 0 ELSE Len(ordInventory) = 1 /\ ordInventory[1] = ordMoved
      BY DEF MakerInv, MakerHeld
    <2>2. Ord!Position = SumFunctionOnSet(ordInventory, DOMAIN ordInventory)
      BY DEF Ord!Position, Ord!SumFunction, Ord!SumFunctionOnSet, Ord!FoldFunctionOnSet, Ord!MapThenFoldSet,
             SumFunctionOnSet, FoldFunctionOnSet, MapThenFoldSet
    <2>3. CASE ordInventory = <<>>
      <3>1. DOMAIN ordInventory = {} /\ Len(ordInventory) = 0
        BY <2>3
      <3> QED BY <2>1, <2>2, <2>3, <3>1, SumEmpty
    <2>4. CASE ordInventory # <<>>
      <3>1. DOMAIN ordInventory = {} \cup {1} /\ ordInventory[1] \in Int
        BY <2>1, <2>4
      <3>2. SumFunctionOnSet(ordInventory, {} \cup {1}) = SumFunctionOnSet(ordInventory, {}) + ordInventory[1]
        BY <3>1, SumAdd, FS_EmptySet
      <3>3. SumFunctionOnSet(ordInventory, DOMAIN ordInventory) = ordInventory[1]
        BY <3>1, <3>2, SumEmpty
      <3>4. Len(ordInventory) = 1 /\ ordInventory[1] = ordMoved
        BY <2>1, <2>4
      <3> QED BY <2>2, <3>3, <3>4
    <2> QED BY <2>3, <2>4
  <1>3. ASSUME NEW p \in OrdPrices, NEW v \in OrdVolatilities, NEW s \in OrdSpreadsBps, p >= 0, s >= 0
        PROVE  LET quote == Ord!CalculatePricingSpread(p, v, s) IN
               /\ quote[1] <= p /\ p <= quote[2] /\ p - quote[1] = quote[2] - p
               /\ quote[2] - quote[1] >= (p * s) \div OrdBpsUnit - 1
    <2>1. p \in Nat /\ s \in Nat /\ v \in Int
      BY <1>3, OrderAssumption
    <2> QED BY <2>1, MakerQuote
  <1> QED BY <1>1, <1>2, <1>3 DEF Ord!FillsStayWithinOrder, Ord!MakerIds

(***************************************************************************)
(* Fills are explained, of the order book and of the market maker: no row  *)
(* is filled beyond its quantity, whatever the age of the copy it is saved *)
(* from.                                                                   *)
(***************************************************************************)
THEOREM FillsExplained == Ord!Spec /\ Ord!MakerSpec => []FillsAreExplained
  <1>1. OrdInv /\ MakerInv => FillsAreExplained
    BY OrdInvMeans, MakerInvMeans DEF FillsAreExplained
  <1> QED BY <1>1, OrdInvInit, OrdNextInv, MakerInvInit, MakerNextInv, PTL DEF Ord!Spec, Ord!MakerSpec

-----------------------------------------------------------------------------
(* The order book of the contracts                                         *)

\* The orders and the trades of the book, and how the fills of an order and
\* its status go together.
BookOrder == [asset_id : BookAssetIds, owner : Addr, side : {"Buy", "Sell"}, price : Int, quantity : Int,
              filled : Int, status : {"Open", "Partial", "Filled", "Cancelled"}]

BookTrade == [buy_order_id : Int, sell_order_id : Int, price : Int, quantity : Int, total_value : Int,
              maker_fee : Int, taker_fee : Int]

BookKept(o) ==
    /\ o.filled \in 0..o.quantity
    /\ o.status = "Filled" <=> o.filled = o.quantity
    /\ o.status = "Partial" => o.filled > 0
    /\ o.status = "Open" => o.filled = 0

\* The trades ts are between two of the orders 1..n.
BookTrades(ts, n) ==
    /\ ts \in Seq(BookTrade)
    /\ \A k \in DOMAIN ts : ts[k].buy_order_id \in 1..n /\ ts[k].sell_order_id \in 1..n

\* What the trades ts have of the order id.
BookTradedIn(ts, id) == SumFunctionOnSet([k \in DOMAIN ts |-> Book!Traded(ts[k], id)], DOMAIN ts)

\* Two orders that do not cross.
BookApart(buy, sell) ==
    /\ buy.side = "Buy" /\ sell.side = "Sell" /\ buy.asset_id = sell.asset_id
    /\ Book!IsLive(buy) /\ Book!IsLive(sell)
    => buy.price < sell.price

BookRows(os, ts) ==
    /\ os \in Seq(BookOrder)
    /\ \A i \in DOMAIN os : BookKept(os[i]) /\ os[i].filled = BookTradedIn(ts, i)
    /\ \A i, j \in DOMAIN os : BookApart(os[i], os[j])

BookInv ==
    /\ bookFees \in SUBSET [maker : Int, taker : Int]
    /\ BookTrades(bookTrades, Len(bookOrders))
    /\ BookRows(bookOrders, bookTrades)

LEMMA BookSum == ASSUME NEW f, NEW S PROVE Book!SumFunctionOnSet(f, S) = SumFunctionOnSet(f, S)
  BY DEF Book!SumFunctionOnSet, Book!FoldFunctionOnSet, Book!MapThenFoldSet,
         SumFunctionOnSet, FoldFunctionOnSet, MapThenFoldSet

LEMMA BookOrderRows ==
    ASSUME NEW os \in Seq(BookOrder)
    PROVE  Len(os) \in Nat /\ DOMAIN os = 1..Len(os) /\ \A i \in DOMAIN os : os[i] \in BookOrder
  <1> DEFINE S == BookOrder
  <1>1. os \in Seq(S)
    OBVIOUS
  <1> HIDE DEF S
  <1>2. Len(os) \in Nat /\ DOMAIN os = 1..Len(os) /\ \A i \in DOMAIN os : os[i] \in S
    BY <1>1
  <1> QED BY <1>2 DEF S

LEMMA BookInvMeans == BookInv => Book!FillsAreTraded /\ Book!BookIsNotCrossed
  <1> SUFFICES ASSUME BookInv PROVE Book!FillsAreTraded /\ Book!BookIsNotCrossed
    OBVIOUS
  <1>1. DOMAIN bookOrders = 1..Len(bookOrders)
    BY BookOrderRows DEF BookInv, BookRows
  <1>2. \A i \in 1..Len(bookOrders) : BookKept(bookOrders[i]) /\ bookOrders[i].filled = Book!TradedOf(i)
    BY <1>1, BookSum DEF BookInv, BookRows, BookTradedIn, Book!TradedOf
  <1>3. \A i, j \in 1..Len(bookOrders) : BookApart(bookOrders[i], bookOrders[j])
    BY <1>1 DEF BookInv, BookRows
  <1> QED BY <1>2, <1>3 DEF BookKept, BookApart, Book!FillsAreTraded, Book!BookIsNotCrossed, Book!OrderIds

LEMMA BookTradeRows ==
    ASSUME NEW ts \in Seq(BookTrade)
    PROVE  /\ Len(ts) \in Nat /\ DOMAIN ts = 1..Len(ts) /\ IsFiniteSet(DOMAIN ts)
           /\ \A k \in DOMAIN ts : ts[k] \in BookTrade
           /\ \A id : \A k \in DOMAIN ts : Book!Traded(ts[k], id) \in Int
  <1> DEFINE S == BookTrade
  <1>1. Len(ts) \in Nat /\ DOMAIN ts = 1..Len(ts) /\ \A k \in DOMAIN ts : ts[k] \in S
    <2>1. ts \in Seq(S)
      OBVIOUS
    <2> HIDE DEF S
    <2> QED BY <2>1
  <1>2. \A k \in DOMAIN ts : ts[k].quantity \in Int
    BY <1>1 DEF BookTrade
  <1>3. IsFiniteSet(DOMAIN ts)
    BY <1>1, FS_Interval
  <1>4. \A id : \A k \in DOMAIN ts : Book!Traded(ts[k], id) \in Int
    BY <1>2 DEF Book!Traded
  <1> QED BY <1>1, <1>3, <1>4

\* One more trade.
LEMMA BookTradeAdded ==
    ASSUME NEW ts \in Seq(BookTrade), NEW t \in BookTrade
    PROVE  /\ Append(ts, t) \in Seq(BookTrade)
           /\ \A k \in DOMAIN ts : Append(ts, t)[k] = ts[k]
           /\ \A k \in DOMAIN Append(ts, t) : k \in DOMAIN ts \/ Append(ts, t)[k] = t
           /\ \A id : BookTradedIn(Append(ts, t), id) = BookTradedIn(ts, id) + Book!Traded(t, id)
  <1> DEFINE S == BookTrade
             n == Len(ts)
             long == Append(ts, t)
  <1>1. n \in Nat /\ DOMAIN ts = 1..n /\ IsFiniteSet(DOMAIN ts)
    BY BookTradeRows
  <1>2. /\ long \in Seq(S) /\ DOMAIN long = 1..(n + 1) /\ long[n + 1] = t
        /\ \A k \in 1..n : long[k] = ts[k]
    <2>1. ts \in Seq(S) /\ t \in S
      OBVIOUS
    <2> HIDE DEF S
    <2> QED BY <2>1
  <1>3. DOMAIN long = DOMAIN ts \cup {n + 1} /\ n + 1 \notin DOMAIN ts
    BY <1>1, <1>2
  <1>4. ASSUME NEW id PROVE BookTradedIn(long, id) = BookTradedIn(ts, id) + Book!Traded(t, id)
    <2> DEFINE f == [k \in DOMAIN ts |-> Book!Traded(ts[k], id)]
               g == [k \in DOMAIN long |-> Book!Traded(long[k], id)]
               D == DOMAIN ts
    <2>1. \A k \in D : f[k] \in Int /\ g[k] = f[k]
      <3>1. \A k \in D : f[k] = Book!Traded(ts[k], id) /\ g[k] = Book!Traded(long[k], id) /\ long[k] = ts[k]
        BY <1>1, <1>2, <1>3
      <3> QED BY <3>1, BookTradeRows
    <2>2. g[n + 1] = Book!Traded(t, id) /\ g[n + 1] \in Int
      <3>1. t.quantity \in Int
        BY DEF BookTrade
      <3>2. g[n + 1] = Book!Traded(t, id)
        BY <1>2, <1>3
      <3> QED BY <3>1, <3>2 DEF Book!Traded
    <2>3. BookTradedIn(ts, id) = SumFunctionOnSet(f, D) /\ BookTradedIn(long, id) = SumFunctionOnSet(g, D \cup {n + 1})
      BY <1>3 DEF BookTradedIn
    <2>4. IsFiniteSet(D) /\ n + 1 \notin D
      BY <1>1, <1>3
    <2> HIDE DEF f, g, D
    <2>5. SumFunctionOnSet(f, D) = SumFunctionOnSet(g, D)
      BY <2>1, <2>4, SumSame
    <2>6. SumFunctionOnSet(g, D \cup {n + 1}) = SumFunctionOnSet(g, D) + g[n + 1]
      BY <2>1, <2>2, <2>4, SumAdd
    <2> QED BY <2>2, <2>3, <2>5, <2>6
  <1> QED BY <1>1, <1>2, <1>3, <1>4

\* An order that has not been placed has not traded.
LEMMA BookUntraded ==
    ASSUME NEW n \in Nat, NEW ts, BookTrades(ts, n)
    PROVE  BookTradedIn(ts, n + 1) = 0
  <1> DEFINE f == [k \in DOMAIN ts |-> Book!Traded(ts[k], n + 1)]
  <1>1. \A k \in DOMAIN ts : f[k] = 0
    BY DEF BookTrades, Book!Traded
  <1>2. IsFiniteSet(DOMAIN ts)
    BY BookTradeRows DEF BookTrades
  <1> HIDE DEF f
  <1>3. SumFunctionOnSet(f, DOMAIN ts) = 0
    BY <1>1, <1>2, SumZero
  <1> QED BY <1>3 DEF BookTradedIn, f

\* Filling part or all of what is left of a live order.
LEMMA BookFill ==
    ASSUME NEW o \in BookOrder, BookKept(o), Book!IsLive(o), NEW qty \in Int, 0 < qty, qty <= Book!Remaining(o)
    PROVE  /\ Book!Fill(o, qty) \in BookOrder /\ BookKept(Book!Fill(o, qty))
           /\ Book!Fill(o, qty).filled = o.filled + qty
           /\ Book!Fill(o, qty).asset_id = o.asset_id /\ Book!Fill(o, qty).side = o.side
           /\ Book!Fill(o, qty).price = o.price /\ Book!Fill(o, qty).quantity = o.quantity
           /\ qty = Book!Remaining(o) => ~Book!IsLive(Book!Fill(o, qty))
  <1> DEFINE f == [o EXCEPT !.filled = o.filled + qty]
             st == Book!FillStatus(f)
  <1>1. /\ o.filled \in Int /\ o.quantity \in Int /\ 0 <= o.filled /\ o.filled + qty <= o.quantity
        /\ (qty = Book!Remaining(o) <=> o.filled + qty = o.quantity)
    BY DEF BookOrder, BookKept, Book!Remaining
  <1>2. /\ f \in BookOrder /\ f.filled = o.filled + qty /\ f.quantity = o.quantity /\ f.status = o.status
        /\ f.asset_id = o.asset_id /\ f.side = o.side /\ f.price = o.price
    BY <1>1 DEF BookOrder
  <1> HIDE DEF f
  <1>3. st = IF o.filled + qty = o.quantity THEN "Filled" ELSE "Partial"
    BY <1>1, <1>2 DEF Book!FillStatus
  <1> HIDE DEF st
  <1>4. /\ [f EXCEPT !.status = st] \in BookOrder /\ [f EXCEPT !.status = st].status = st
        /\ [f EXCEPT !.status = st].filled = f.filled /\ [f EXCEPT !.status = st].quantity = f.quantity
        /\ [f EXCEPT !.status = st].asset_id = f.asset_id /\ [f EXCEPT !.status = st].side = f.side
        /\ [f EXCEPT !.status = st].price = f.price
    BY <1>2, <1>3 DEF BookOrder
  <1>5. Book!Fill(o, qty) = [f EXCEPT !.status = st]
    BY DEF Book!Fill, f, st
  <1> DEFINE r == Book!Fill(o, qty)
  <1>6. /\ r \in BookOrder /\ r.status = st /\ r.filled = o.filled + qty /\ r.quantity = o.quantity
        /\ r.asset_id = o.asset_id /\ r.side = o.side /\ r.price = o.price
    BY <1>2, <1>4, <1>5
  <1> HIDE DEF r
  <1>7. BookKept(r) /\ (qty = Book!Remaining(o) => ~Book!IsLive(r))
    BY <1>1, <1>3, <1>6 DEF BookKept, Book!IsLive
  <1> QED BY <1>6, <1>7 DEF r

\* A trade between two orders is of what both have left.
LEMMA BookTradeOf ==
    ASSUME BookInv, NEW taker \in BookOrder, NEW counter \in BookOrder, NEW n \in Int, NEW id \in Int
    PROVE  /\ Book!TradeOf(taker, n, counter, id) \in BookTrade
           /\ Book!TradeOf(taker, n, counter, id).quantity = Book!FillQuantity(taker, counter)
           /\ {Book!TradeOf(taker, n, counter, id).buy_order_id,
               Book!TradeOf(taker, n, counter, id).sell_order_id} = {n, id}
           /\ Book!TradeOf(taker, n, counter, id).buy_order_id \in {n, id}
           /\ Book!TradeOf(taker, n, counter, id).sell_order_id \in {n, id}
  <1> DEFINE qty == Book!FillQuantity(taker, counter)
             value == counter.price * qty
             m == IF bookFees = {} THEN 0 ELSE Book!ComputeFee(value, (CHOOSE f \in bookFees : TRUE)["maker"])
             k == IF bookFees = {} THEN 0 ELSE Book!ComputeFee(value, (CHOOSE f \in bookFees : TRUE)["taker"])
             b == IF taker.side = "Buy" THEN n ELSE id
             s == IF taker.side = "Buy" THEN id ELSE n
             t == [buy_order_id |-> b, sell_order_id |-> s, price |-> counter.price, quantity |-> qty,
                   total_value |-> value, maker_fee |-> m, taker_fee |-> k]
  <1>1. Book!TradeOf(taker, n, counter, id) = t
    BY DEF Book!TradeOf
  <1>2. qty \in Int /\ counter.price \in Int
    BY DEF BookOrder, Book!FillQuantity, Book!Remaining
  <1> HIDE DEF qty
  <1>3. value \in Int
    BY <1>2
  <1> HIDE DEF value
  <1>4. \A x \in Int : Book!ComputeFee(value, x) \in Int
    BY <1>3, BookAssumption DEF Book!ComputeFee
  <1>5. bookFees # {} => (CHOOSE f \in bookFees : TRUE) \in [maker : Int, taker : Int]
    BY DEF BookInv
  <1>6. m \in Int /\ k \in Int
    BY <1>4, <1>5
  <1>7. b \in Int /\ s \in Int /\ {b, s} = {n, id}
    OBVIOUS
  <1> HIDE DEF m, k, b, s
  <1>8. t \in BookTrade /\ t.quantity = qty /\ t.buy_order_id = b /\ t.sell_order_id = s
    BY <1>2, <1>3, <1>6, <1>7 DEF BookTrade
  <1> HIDE DEF t
  <1> QED BY <1>1, <1>7, <1>8 DEF qty

\* The pass over the resting orders, as the recursive function it is computed
\* with.
IsPass(pass, n, start, id) ==
    pass = [i \in 0..n |-> IF i = 0 THEN start ELSE Book!Visit(pass[i - 1], id, i)]

\* There is one of every length: a shortest length without one would extend
\* the pass that is one shorter.
LEMMA PassExists ==
    ASSUME NEW n \in Nat, NEW start, NEW id
    PROVE  \E pass : IsPass(pass, n, start, id)
  <1> DEFINE Bad == {k \in 0..n : ~\E pass : IsPass(pass, k, start, id)}
  <1>1. SUFFICES ASSUME Bad # {} PROVE FALSE
    OBVIOUS
  <1>2. PICK k \in Bad : \A j \in Bad : k <= j
    <2>1. Bad \in SUBSET (0..n)
      OBVIOUS
    <2> HIDE DEF Bad
    <2> QED BY <1>1, <2>1, LeastNumber
  <1>3. k # 0
    <2>1. IsPass([i \in 0..0 |-> start], 0, start, id)
      BY DEF IsPass
    <2> QED BY <1>2, <2>1
  <1>4. PICK p : IsPass(p, k - 1, start, id)
    BY <1>2, <1>3
  <1> DEFINE v == Book!Visit(p[k - 1], id, k)
             q == [i \in 0..k |-> IF i = k THEN v ELSE p[i]]
             e(i) == IF i = 0 THEN start ELSE Book!Visit(q[i - 1], id, i)
  <1>5. k \in Nat /\ k - 1 \in 0..k
    BY <1>2, <1>3
  <1>6. \A i \in 0..(k - 1) : p[i] = IF i = 0 THEN start ELSE Book!Visit(p[i - 1], id, i)
    BY <1>4, <1>5 DEF IsPass
  <1>7. q[k] = v /\ \A i \in 0..(k - 1) : q[i] = p[i]
    BY <1>5
  <1>8. q = [i \in 0..k |-> q[i]]
    OBVIOUS
  <1> HIDE DEF q
  <1>9. ASSUME NEW i \in 0..k PROVE q[i] = e(i)
    <2>1. CASE i = k
      <3>1. q[i - 1] = p[k - 1]
        BY <1>5, <1>7, <2>1
      <3> QED BY <1>3, <1>7, <2>1, <3>1
    <2>2. CASE i # k
      <3>1. i \in 0..(k - 1) /\ (i # 0 => i - 1 \in 0..(k - 1))
        BY <1>5, <2>2
      <3>2. q[i] = p[i] /\ (i # 0 => q[i - 1] = p[i - 1])
        BY <1>7, <3>1
      <3> QED BY <1>6, <3>1, <3>2
    <2> QED BY <2>1, <2>2
  <1>10. [i \in 0..k |-> q[i]] = [i \in 0..k |-> e(i)]
    BY <1>9, Zenon
  <1>11. q = [i \in 0..k |-> e(i)]
    BY <1>8, <1>10
  <1>12. IsPass(q, k, start, id)
    BY <1>11 DEF IsPass
  <1> QED BY <1>2, <1>12

\* The book after n orders were visited for a taker t: fills are what was
\* traded, orders that were not live are as they were, and if the taker has
\* something left it matches none of the orders visited.
BookSame(o, p) == o.asset_id = p.asset_id /\ o.side = p.side /\ o.price = p.price

BookPass(b, t, n) ==
    /\ b.orders \in Seq(BookOrder) /\ Len(b.orders) = Len(bookOrders) /\ b.taker \in BookOrder
    /\ BookTrades(b.trades, Len(bookOrders) + 1)
    /\ BookKept(b.taker) /\ BookSame(b.taker, t) /\ b.taker.status # "Cancelled"
    /\ b.taker.filled = BookTradedIn(b.trades, Len(bookOrders) + 1)
    /\ \A i \in DOMAIN bookOrders :
          /\ BookKept(b.orders[i]) /\ BookSame(b.orders[i], bookOrders[i])
          /\ b.orders[i].filled = BookTradedIn(b.trades, i)
          /\ ~Book!IsLive(bookOrders[i]) => b.orders[i] = bookOrders[i]
          /\ i <= n /\ Book!Remaining(b.taker) > 0 => ~Book!Matches(b.taker, b.orders[i])

\* A fill of what is left of the smaller of the two.
LEMMA BookQuantity ==
    ASSUME NEW taker \in BookOrder, NEW counter \in BookOrder, BookKept(taker), BookKept(counter),
           Book!Remaining(taker) > 0, Book!Matches(taker, counter)
    PROVE  /\ Book!FillQuantity(taker, counter) \in Int /\ 0 < Book!FillQuantity(taker, counter)
           /\ Book!FillQuantity(taker, counter) <= Book!Remaining(taker)
           /\ Book!FillQuantity(taker, counter) <= Book!Remaining(counter)
           /\ Book!FillQuantity(taker, counter) \in {Book!Remaining(taker), Book!Remaining(counter)}
  <1>1. /\ Book!Remaining(taker) \in Int /\ Book!Remaining(counter) \in Int
        /\ Book!Remaining(counter) > 0 /\ Book!IsLive(counter)
    BY DEF BookOrder, BookKept, Book!Remaining, Book!Matches, Book!IsLive
  <1> QED BY <1>1 DEF Book!FillQuantity

\* The next order visited.
LEMMA BookVisit ==
    ASSUME BookInv, NEW t, NEW b, NEW n \in Nat, n + 1 \in DOMAIN bookOrders, BookPass(b, t, n)
    PROVE  BookPass(Book!Visit(b, Len(bookOrders) + 1, n + 1), t, n + 1)
  <1> DEFINE m == n + 1
             last == Len(bookOrders) + 1
             c == b.orders[m]
             a == Book!Visit(b, last, m)
             meets == Book!Remaining(b.taker) > 0 /\ Book!Matches(b.taker, c)
  <1>1. /\ Len(bookOrders) \in Nat /\ DOMAIN bookOrders = 1..Len(bookOrders)
        /\ last \in Int /\ last \notin DOMAIN bookOrders /\ m \in DOMAIN bookOrders /\ m \in Int
    BY BookOrderRows DEF BookInv, BookRows
  <1>2. DOMAIN b.orders = DOMAIN bookOrders /\ \A i \in DOMAIN bookOrders : b.orders[i] \in BookOrder
    BY <1>1, BookOrderRows DEF BookPass
  <1>3. CASE ~meets
    <2>1. a = b
      BY <1>3 DEF Book!Visit
    <2>2. \A i \in DOMAIN bookOrders : i <= m => i <= n \/ i = m
      BY <1>1
    <2>3. BookPass(b, t, m)
      BY <1>3, <2>2 DEF BookPass
    <2> QED BY <2>1, <2>3
  <1>4. CASE meets
    <2> DEFINE trade == Book!TradeOf(b.taker, last, c, m)
               qty == Book!FillQuantity(b.taker, c)
               row == Book!Fill(c, qty)
               taker == Book!Fill(b.taker, qty)
    <2>1. c \in BookOrder /\ BookKept(c) /\ b.taker \in BookOrder /\ BookKept(b.taker)
      BY <1>1, <1>2 DEF BookPass
    <2>2. /\ qty \in Int /\ 0 < qty /\ qty <= Book!Remaining(b.taker) /\ qty <= Book!Remaining(c)
          /\ qty \in {Book!Remaining(b.taker), Book!Remaining(c)}
      BY <1>4, <2>1, BookQuantity
    <2>3. Book!IsLive(c) /\ Book!IsLive(b.taker)
      <3> DEFINE k == b.taker
      <3>1. k.filled # k.quantity
        <4>1. Book!Remaining(k) > 0 /\ k \in BookOrder
          BY <1>4, <2>1
        <4> HIDE DEF k
        <4> QED BY <4>1 DEF BookOrder, Book!Remaining
      <3>2. k.status \in {"Open", "Partial", "Filled"}
        <4>1. k.status # "Cancelled" /\ k \in BookOrder
          BY <2>1 DEF BookPass
        <4> HIDE DEF k
        <4> QED BY <4>1 DEF BookOrder
      <3> QED BY <1>4, <2>1, <3>1, <3>2 DEF Book!Matches, Book!IsLive, BookKept
    <2>4. /\ row \in BookOrder /\ BookKept(row) /\ row.filled = c.filled + qty /\ BookSame(row, c)
          /\ qty = Book!Remaining(c) => ~Book!IsLive(row)
      BY <2>1, <2>2, <2>3, BookFill DEF BookSame
    <2>5. /\ taker \in BookOrder /\ BookKept(taker) /\ taker.filled = b.taker.filled + qty
          /\ BookSame(taker, b.taker) /\ taker.quantity = b.taker.quantity
      BY <2>1, <2>2, <2>3, BookFill DEF BookSame
    <2>6. /\ trade \in BookTrade /\ trade.quantity = qty
          /\ {trade.buy_order_id, trade.sell_order_id} = {last, m}
          /\ trade.buy_order_id \in {last, m} /\ trade.sell_order_id \in {last, m}
      <3> DEFINE k == b.taker
      <3>1. k \in BookOrder /\ c \in BookOrder /\ last \in Int /\ m \in Int
        BY <1>1, <2>1
      <3> HIDE DEF k, c, m, last
      <3> DEFINE x == Book!TradeOf(k, last, c, m)
      <3>2. x \in BookTrade /\ x.quantity = Book!FillQuantity(k, c)
        BY <3>1, BookTradeOf
      <3>3. {x.buy_order_id, x.sell_order_id} = {last, m}
        BY <3>1, BookTradeOf
      <3>4. x.buy_order_id \in {last, m} /\ x.sell_order_id \in {last, m}
        BY <3>1, BookTradeOf
      <3>5. x = trade /\ Book!FillQuantity(k, c) = qty
        BY DEF k
      <3> HIDE DEF x, trade, qty
      <3> QED BY <3>2, <3>3, <3>4, <3>5
    <2>7. /\ a.orders = [b.orders EXCEPT ![m] = row] /\ a.taker = taker /\ a.trades = Append(b.trades, trade)
      <3>1. trade.quantity = qty
        BY <2>6
      <3> QED BY <1>4, <3>1 DEF Book!Visit
    <2> HIDE DEF row, taker, trade, a, qty
    <2>8. /\ a.orders \in Seq(BookOrder) /\ Len(a.orders) = Len(bookOrders) /\ a.orders[m] = row
          /\ \A i \in DOMAIN bookOrders : i # m => a.orders[i] = b.orders[i]
      <3> DEFINE S == BookOrder
      <3>1. b.orders \in Seq(S) /\ row \in S /\ Len(b.orders) = Len(bookOrders)
        BY <2>4 DEF BookPass
      <3> HIDE DEF S
      <3>2. [b.orders EXCEPT ![m] = row] \in Seq(S) /\ Len([b.orders EXCEPT ![m] = row]) = Len(bookOrders)
        BY <1>1, <1>2, <3>1
      <3>3. [b.orders EXCEPT ![m] = row][m] = row /\ \A i \in DOMAIN bookOrders : i # m => [b.orders EXCEPT ![m] = row][i] = b.orders[i]
        BY <1>1, <1>2
      <3> QED BY <2>7, <3>2, <3>3 DEF S
    <2>9. \A i : BookTradedIn(a.trades, i) = BookTradedIn(b.trades, i) + Book!Traded(trade, i)
      BY <2>6, <2>7, BookTradeAdded DEF BookPass, BookTrades
    <2>10. \A i : Book!Traded(trade, i) = IF i \in {last, m} THEN qty ELSE 0
      BY <2>6 DEF Book!Traded
    <2>11. BookTrades(a.trades, last)
      <3>1. b.trades \in Seq(BookTrade) /\ \A k \in DOMAIN b.trades : b.trades[k].buy_order_id \in 1..last /\ b.trades[k].sell_order_id \in 1..last
        BY DEF BookPass, BookTrades
      <3>2. /\ a.trades \in Seq(BookTrade) /\ \A k \in DOMAIN b.trades : a.trades[k] = b.trades[k]
            /\ \A k \in DOMAIN a.trades : k \in DOMAIN b.trades \/ a.trades[k] = trade
        BY <2>6, <2>7, <3>1, BookTradeAdded
      <3>3. last \in 1..last /\ m \in 1..last
        BY <1>1
      <3> QED BY <2>6, <3>1, <3>2, <3>3 DEF BookTrades
    <2>12. BookSame(a.taker, t) /\ a.taker.filled = BookTradedIn(a.trades, last) /\ a.taker.status # "Cancelled"
      <3>1. b.taker.filled = BookTradedIn(b.trades, last) /\ BookSame(b.taker, t)
        BY DEF BookPass
      <3>2. taker.status # "Cancelled"
        BY <2>3, <2>7 DEF taker, Book!Fill, Book!FillStatus, Book!IsLive
      <3> QED BY <2>5, <2>7, <2>9, <2>10, <3>1, <3>2 DEF BookSame
    <2>13. ASSUME NEW i \in DOMAIN bookOrders
           PROVE  /\ BookKept(a.orders[i]) /\ BookSame(a.orders[i], bookOrders[i])
                  /\ a.orders[i].filled = BookTradedIn(a.trades, i)
                  /\ ~Book!IsLive(bookOrders[i]) => a.orders[i] = bookOrders[i]
                  /\ i <= m /\ Book!Remaining(a.taker) > 0 => ~Book!Matches(a.taker, a.orders[i])
      <3>1. /\ BookKept(b.orders[i]) /\ BookSame(b.orders[i], bookOrders[i])
            /\ b.orders[i].filled = BookTradedIn(b.trades, i)
            /\ ~Book!IsLive(bookOrders[i]) => b.orders[i] = bookOrders[i]
            /\ i <= n /\ Book!Remaining(b.taker) > 0 => ~Book!Matches(b.taker, b.orders[i])
        BY DEF BookPass
      <3>2. i # last /\ i \in Int
        BY <1>1
      <3>3. CASE i = m
        <4>1. a.orders[i] = row /\ c = b.orders[i] /\ BookSame(row, bookOrders[i]) /\ Book!IsLive(bookOrders[i])
          BY <2>3, <2>4, <2>8, <3>1, <3>3 DEF BookSame
        <4>2. row.filled = BookTradedIn(a.trades, i)
          BY <2>4, <2>9, <2>10, <3>1, <3>3
        <4>3. Book!Remaining(a.taker) > 0 => qty = Book!Remaining(c)
          BY <2>1, <2>2, <2>5, <2>7 DEF Book!Remaining, BookOrder
        <4>4. Book!Remaining(a.taker) > 0 => ~Book!Matches(a.taker, row)
          BY <2>4, <4>3 DEF Book!Matches
        <4> QED BY <2>4, <4>1, <4>2, <4>4
      <3>4. CASE i # m
        <4>1. a.orders[i] = b.orders[i] /\ (i <= m => i <= n)
          BY <2>8, <3>2, <3>4
        <4>2. BookTradedIn(b.trades, i) \in Int
          BY <1>2, <3>1 DEF BookOrder
        <4>3. BookTradedIn(a.trades, i) = BookTradedIn(b.trades, i)
          BY <2>9, <2>10, <3>2, <3>4, <4>2
        <4>4. Book!Matches(a.taker, b.orders[i]) => Book!Matches(b.taker, b.orders[i])
          BY <2>5, <2>7 DEF BookSame, Book!Matches
        <4> QED BY <1>4, <3>1, <4>1, <4>3, <4>4
      <3> QED BY <3>3, <3>4
    <2>14. a.taker \in BookOrder /\ BookKept(a.taker)
      BY <2>5, <2>7
    <2>15. BookPass(a, t, m)
      <3> HIDE DEF m
      <3> QED BY <2>8, <2>11, <2>12, <2>13, <2>14, Zenon DEF BookPass
    <2> QED BY <2>15 DEF a
  <1> QED BY <1>3, <1>4

\* The book before the pass.
LEMMA BookPassStarts ==
    ASSUME BookInv, NEW t \in BookOrder, BookKept(t), t.filled = 0, t.status = "Open"
    PROVE  BookPass([orders |-> bookOrders, taker |-> t, trades |-> bookTrades], t, 0)
  <1> DEFINE b == [orders |-> bookOrders, taker |-> t, trades |-> bookTrades]
             n == Len(bookOrders)
  <1>1. b.orders = bookOrders /\ b.taker = t /\ b.trades = bookTrades
    OBVIOUS
  <1> HIDE DEF b
  <1>2. n \in Nat /\ DOMAIN bookOrders = 1..n
    BY BookOrderRows DEF BookInv, BookRows
  <1>3. BookTradedIn(bookTrades, n + 1) = 0
    BY <1>2, BookUntraded DEF BookInv
  <1>4. BookTrades(bookTrades, n + 1)
    <2>1. 1..n \subseteq 1..(n + 1)
      BY <1>2
    <2> HIDE DEF n
    <2> QED BY <2>1 DEF BookInv, BookTrades, n
  <1>5. \A i \in DOMAIN bookOrders : i > 0
    BY <1>2
  <1>6. BookPass(b, t, 0)
    BY <1>1, <1>2, <1>3, <1>4, <1>5 DEF BookInv, BookRows, BookPass, BookSame
  <1> QED BY <1>6 DEF b

\* The book after it: a shortest pass that went wrong went wrong at its last
\* order.
LEMMA BookMatched ==
    ASSUME BookInv, NEW t \in BookOrder, BookKept(t), t.filled = 0, t.status = "Open"
    PROVE  BookPass(Book!MatchOrder(t, Len(bookOrders) + 1), t, Len(bookOrders))
  <1> DEFINE n == Len(bookOrders)
             start == [orders |-> bookOrders, taker |-> t, trades |-> bookTrades]
             P == CHOOSE pass : IsPass(pass, n, start, n + 1)
             Bad == {k \in 0..n : ~BookPass(P[k], t, k)}
  <1>1. n \in Nat /\ DOMAIN bookOrders = 1..n
    BY BookOrderRows DEF BookInv, BookRows
  <1>2. Book!MatchOrder(t, n + 1) = P[n]
    BY DEF Book!MatchOrder, IsPass
  <1>3. BookPass(start, t, 0)
    BY BookPassStarts
  <1> HIDE DEF start
  <1>4. IsPass(P, n, start, n + 1)
    BY <1>1, PassExists
  <1> HIDE DEF P
  <1>5. \A k \in 0..n : P[k] = IF k = 0 THEN start ELSE Book!Visit(P[k - 1], n + 1, k)
    BY <1>4 DEF IsPass
  <1>6. Bad = {}
    <2> SUFFICES ASSUME Bad # {} PROVE FALSE
      OBVIOUS
    <2>1. PICK k \in Bad : \A j \in Bad : k <= j
      <3>1. Bad \in SUBSET (0..n)
        OBVIOUS
      <3> HIDE DEF Bad
      <3> QED BY <1>1, <3>1, LeastNumber
    <2>2. k \in 0..n /\ ~BookPass(P[k], t, k) /\ k # 0
      BY <1>1, <1>3, <1>5
    <2>3. k - 1 \in Nat /\ k - 1 \in 0..n /\ k - 1 \notin Bad /\ (k - 1) + 1 = k /\ k \in DOMAIN bookOrders
      BY <1>1, <2>1, <2>2
    <2>4. BookPass(P[k - 1], t, k - 1)
      BY <2>3
    <2>5. BookPass(Book!Visit(P[k - 1], n + 1, (k - 1) + 1), t, (k - 1) + 1)
      BY <2>3, <2>4, BookVisit
    <2> QED BY <1>5, <2>2, <2>3, <2>5
  <1> QED BY <1>1, <1>2, <1>6

\* Placing an order.
LEMMA BookPlaceInv ==
    ASSUME BookInv, NEW c \in Addr, NEW asset \in BookAssetIds, NEW side \in {"Buy", "Sell"},
           NEW p \in BookPrices, NEW q \in BookQuantities, Book!PlaceOrder(c, asset, side, p, q)
    PROVE  BookInv'
  <1> DEFINE t == [asset_id |-> asset, owner |-> c, side |-> side, price |-> p,
                   quantity |-> q, filled |-> 0, status |-> "Open"]
             n == Len(bookOrders)
             b == Book!MatchOrder(t, n + 1)
  <1>1. /\ bookOrders' = Append(b.orders, b.taker) /\ bookTrades' = b.trades /\ bookFees' = bookFees
        /\ q > 0
    BY DEF Book!PlaceOrder
  <1>2. t \in BookOrder /\ BookKept(t) /\ t.filled = 0 /\ t.status = "Open"
    BY <1>1, BookAssumption DEF BookOrder, BookKept
  <1> HIDE DEF t
  <1>3. BookPass(b, t, n)
    BY <1>2, BookMatched
  <1> HIDE DEF b
  <1>4. n \in Nat /\ DOMAIN bookOrders = 1..n /\ n + 1 \notin DOMAIN bookOrders
    BY BookOrderRows DEF BookInv, BookRows
  <1>5. /\ bookOrders' \in Seq(BookOrder) /\ Len(bookOrders') = n + 1
        /\ DOMAIN bookOrders' = DOMAIN bookOrders \cup {n + 1} /\ bookOrders'[n + 1] = b.taker
        /\ \A i \in DOMAIN bookOrders : bookOrders'[i] = b.orders[i]
    <2> DEFINE S == BookOrder
    <2>1. b.orders \in Seq(S) /\ b.taker \in S /\ Len(b.orders) = n
      BY <1>3 DEF BookPass
    <2> HIDE DEF S
    <2>2. /\ Append(b.orders, b.taker) \in Seq(S) /\ Len(Append(b.orders, b.taker)) = n + 1
          /\ DOMAIN Append(b.orders, b.taker) = 1..(n + 1) /\ Append(b.orders, b.taker)[n + 1] = b.taker
          /\ \A i \in 1..n : Append(b.orders, b.taker)[i] = b.orders[i]
      BY <1>4, <2>1
    <2>3. 1..(n + 1) = (1..n) \cup {n + 1}
      BY <1>4
    <2> QED BY <1>1, <1>4, <2>2, <2>3 DEF S
  <1>6. ASSUME NEW i \in DOMAIN bookOrders
        PROVE  /\ BookKept(b.orders[i]) /\ BookSame(b.orders[i], bookOrders[i])
               /\ b.orders[i].filled = BookTradedIn(b.trades, i)
               /\ Book!IsLive(b.orders[i]) => Book!IsLive(bookOrders[i])
               /\ Book!Remaining(b.taker) > 0 => ~Book!Matches(b.taker, b.orders[i])
    BY <1>3, <1>4 DEF BookPass
  <1>7. /\ BookKept(b.taker) /\ b.taker.filled = BookTradedIn(b.trades, n + 1)
        /\ b.taker \in BookOrder /\ BookTrades(b.trades, n + 1)
    BY <1>3 DEF BookPass
  <1>8. \A i \in DOMAIN bookOrders' : BookKept(bookOrders'[i]) /\ bookOrders'[i].filled = BookTradedIn(bookTrades', i)
    BY <1>1, <1>5, <1>6, <1>7
  <1>9. Book!IsLive(b.taker) => Book!Remaining(b.taker) > 0
    BY <1>7 DEF Book!IsLive, Book!Remaining, BookKept, BookOrder
  <1>10. ASSUME NEW i \in DOMAIN bookOrders
         PROVE  BookApart(b.orders[i], b.taker) /\ BookApart(b.taker, b.orders[i])
    <2>1. b.taker.price \in Int /\ b.orders[i].price \in Int
      <3>1. b.orders[i].price = bookOrders[i].price
        BY <1>6 DEF BookSame
      <3>2. bookOrders[i] \in BookOrder
        BY BookOrderRows DEF BookInv, BookRows
      <3> QED BY <1>7, <3>1, <3>2 DEF BookOrder
    <2>2. Book!IsLive(b.taker) => ~Book!Matches(b.taker, b.orders[i])
      BY <1>6, <1>9
    <2> QED BY <2>1, <2>2 DEF BookApart, Book!Matches
  <1>11. ASSUME NEW i \in DOMAIN bookOrders, NEW j \in DOMAIN bookOrders
         PROVE  BookApart(b.orders[i], b.orders[j])
    <2>1. BookApart(bookOrders[i], bookOrders[j])
      BY DEF BookInv, BookRows
    <2>2. /\ BookSame(b.orders[i], bookOrders[i]) /\ BookSame(b.orders[j], bookOrders[j])
          /\ Book!IsLive(b.orders[i]) => Book!IsLive(bookOrders[i])
          /\ Book!IsLive(b.orders[j]) => Book!IsLive(bookOrders[j])
      BY <1>6
    <2> QED BY <2>1, <2>2 DEF BookApart, BookSame
  <1>12. BookApart(b.taker, b.taker)
    BY DEF BookApart
  <1>13. ASSUME NEW i \in DOMAIN bookOrders', NEW j \in DOMAIN bookOrders'
         PROVE  BookApart(bookOrders'[i], bookOrders'[j])
    BY <1>5, <1>10, <1>11, <1>12
  <1>14. BookRows(bookOrders', bookTrades')
    BY <1>5, <1>8, <1>13 DEF BookRows
  <1>15. BookTrades(bookTrades', Len(bookOrders'))
    BY <1>1, <1>5, <1>7
  <1> QED BY <1>1, <1>14, <1>15 DEF BookInv

\* Cancelling one takes it from the live orders.
LEMMA BookCancelInv ==
    ASSUME BookInv, NEW c \in Addr, NEW id \in Book!OrderIds, Book!CancelOrder(c, id)
    PROVE  BookInv'
  <1> DEFINE o == bookOrders[id]
             x == [o EXCEPT !.status = "Cancelled"]
  <1>1. Len(bookOrders) \in Nat /\ DOMAIN bookOrders = 1..Len(bookOrders) /\ id \in DOMAIN bookOrders /\ o \in BookOrder
    BY BookOrderRows DEF BookInv, BookRows, Book!OrderIds
  <1>2. /\ bookOrders' = [bookOrders EXCEPT ![id] = x] /\ bookTrades' = bookTrades /\ bookFees' = bookFees
        /\ o.status \notin {"Filled", "Cancelled"}
    BY DEF Book!CancelOrder, Book!Cancellable
  <1>3. BookKept(o) /\ o.filled = BookTradedIn(bookTrades, id)
    BY <1>1 DEF BookInv, BookRows
  <1> HIDE DEF o
  <1>4. /\ x \in BookOrder /\ x.status = "Cancelled" /\ x.filled = o.filled /\ x.quantity = o.quantity
    BY <1>1 DEF BookOrder
  <1> HIDE DEF x
  <1>5. BookKept(x) /\ ~Book!IsLive(x) /\ x.filled = BookTradedIn(bookTrades, id)
    BY <1>2, <1>3, <1>4 DEF BookKept, Book!IsLive
  <1>6. /\ bookOrders' \in Seq(BookOrder) /\ DOMAIN bookOrders' = DOMAIN bookOrders
        /\ Len(bookOrders') = Len(bookOrders) /\ bookOrders'[id] = x
        /\ \A i \in DOMAIN bookOrders : i # id => bookOrders'[i] = bookOrders[i]
    <2> DEFINE S == BookOrder
    <2>1. bookOrders \in Seq(S) /\ x \in S
      BY <1>4 DEF BookInv, BookRows
    <2> HIDE DEF S
    <2>2. bookOrders' \in Seq(S) /\ Len(bookOrders') = Len(bookOrders)
      BY <1>1, <1>2, <2>1
    <2> QED BY <1>1, <1>2, <2>2 DEF S
  <1>7. ASSUME NEW i \in DOMAIN bookOrders
        PROVE  BookKept(bookOrders'[i]) /\ bookOrders'[i].filled = BookTradedIn(bookTrades', i)
    BY <1>2, <1>5, <1>6 DEF BookInv, BookRows
  <1>8. ASSUME NEW i \in DOMAIN bookOrders, NEW j \in DOMAIN bookOrders
        PROVE  BookApart(bookOrders'[i], bookOrders'[j])
    <2>1. CASE i = id \/ j = id
      BY <1>5, <1>6, <2>1 DEF BookApart
    <2>2. CASE i # id /\ j # id
      BY <1>6, <2>2 DEF BookInv, BookRows
    <2> QED BY <2>1, <2>2
  <1>9. BookRows(bookOrders', bookTrades')
    BY <1>6, <1>7, <1>8 DEF BookRows
  <1> QED BY <1>2, <1>6, <1>9 DEF BookInv

LEMMA BookInvInit == Book!Init => BookInv
  <1> SUFFICES ASSUME Book!Init PROVE BookInv
    OBVIOUS
  <1>1. bookOrders = <<>> /\ bookTrades = <<>> /\ bookFees = {}
    BY DEF Book!Init
  <1>2. bookOrders \in Seq(BookOrder) /\ bookTrades \in Seq(BookTrade) /\ DOMAIN bookOrders = {} /\ DOMAIN bookTrades = {}
    BY <1>1
  <1> QED BY <1>1, <1>2 DEF BookInv, BookRows, BookTrades

LEMMA BookInvNext == BookInv /\ [Book!Next]_(Book!vars) => BookInv'
  <1> SUFFICES ASSUME BookInv, [Book!Next]_(Book!vars) PROVE BookInv'
    OBVIOUS
  <1>1. ASSUME NEW c \in Addr, Book!Initialize(c) PROVE BookInv'
    BY <1>1 DEF Book!Initialize, BookInv
  <1>2. ASSUME NEW c \in Addr, NEW maker \in BookFeeBps, NEW taker \in BookFeeBps, Book!SetFeeConfig(c, maker, taker)
        PROVE  BookInv'
    <2>1. bookFees' \in SUBSET [maker : Int, taker : Int]
      BY <1>2, BookAssumption DEF Book!SetFeeConfig
    <2>2. UNCHANGED <<bookOrders, bookTrades>>
      BY <1>2 DEF Book!SetFeeConfig
    <2> QED BY <2>1, <2>2 DEF BookInv
  <1>3. CASE UNCHANGED Book!vars
    BY <1>3 DEF Book!vars, BookInv
  <1> QED BY <1>1, <1>2, <1>3, BookPlaceInv, BookCancelInv DEF Book!Next

(***************************************************************************)
(* Trades are settled, of the auction house and of the contract's book: a  *)
(* settled auction went to its highest bidder; an order of the book has    *)
(* filled what its trades traded, and the single pass over the resting     *)
(* orders leaves no buy order at or above a sell order.                    *)
(***************************************************************************)
THEOREM TradesSettled == Spec /\ Book!Spec => []TradesAreSettled
  <1>1. SettledToHighest /\ BookInv => TradesAreSettled
    BY BookInvMeans DEF TradesAreSettled
  <1> QED BY <1>1, AuctionSettled, BookInvInit, BookInvNext, PTL DEF Book!Spec

-----------------------------------------------------------------------------
(* Types                                                                   *)

\* The orders whose rows were lost are orders of the book.
OrdKnown == ordLost \subseteq DOMAIN ordOrders

LEMMA OrdKnownNext == OrdInv /\ OrdKnown /\ [Ord!Next]_(Ord!vars) => OrdKnown'
  <1> SUFFICES ASSUME OrdInv, OrdKnown, [Ord!Next]_(Ord!vars) PROVE OrdKnown'
    OBVIOUS
  <1>1. Len(ordOrders) \in Nat /\ DOMAIN ordOrders = 1..Len(ordOrders)
    BY OrdRows DEF OrdInv
  <1>2. ASSUME UNCHANGED <<ordOrders, ordLost>> PROVE OrdKnown'
    BY <1>2 DEF OrdKnown
  <1>3. ASSUME NEW read, DOMAIN read \subseteq DOMAIN ordOrders,
               DOMAIN ordOrders' = DOMAIN ordOrders,
               ordLost' = ordLost \cup Ord!Stale(ordOrders, read)
        PROVE  OrdKnown'
    BY <1>3 DEF OrdKnown, Ord!Stale
  <1>4. ASSUME NEW r \in Clients, NEW side \in {"buy", "sell"}, NEW o \in OrdOffers, Ord!CreateOrder(r, side, o[1], o[2])
        PROVE  OrdKnown'
    <2> DEFINE row == [side |-> side, price |-> o[1], quantity |-> o[2], filled |-> 0, status |-> "open"]
    <2>1. ordOrders' = Append(ordOrders, row) /\ ordLost' = ordLost
      BY <1>4 DEF Ord!CreateOrder
    <2> HIDE DEF row
    <2>2. DOMAIN Append(ordOrders, row) = 1..(Len(ordOrders) + 1)
      BY <1>1
    <2> QED BY <1>1, <2>1, <2>2 DEF OrdKnown
  <1>5. ASSUME NEW r \in Clients, Ord!Fill(r) PROVE OrdKnown'
    <2> DEFINE q == ordReq[r]
               c == Head(q.rest)
               read == [i \in {c.id, q.id} |-> IF i = c.id THEN c.row ELSE q.row]
               save == [i \in {c.id, q.id} |-> Ord!Filled(read[i], Ord!FillQuantity(q.left, c.row))]
    <2>1. /\ Ord!Filling(r) /\ ordOrders' = Ord!Saved(ordOrders, save)
          /\ ordLost' = ordLost \cup Ord!Stale(ordOrders, read)
      BY <1>5 DEF Ord!Fill
    <2>2. q.pc = "fill" /\ OrdCounter(q.row, c, ordOrders)
      BY <2>1, OrdNext
    <2>3. q.id \in DOMAIN ordOrders /\ c.id \in DOMAIN ordOrders
      BY <2>2, OrdAtWork DEF OrdCopy, OrdCounter
    <2>4. DOMAIN read \subseteq DOMAIN ordOrders /\ DOMAIN ordOrders' = DOMAIN ordOrders
      BY <2>1, <2>3 DEF Ord!Saved
    <2> HIDE DEF read
    <2> QED BY <1>3, <2>1, <2>4
  <1>6. ASSUME NEW r \in Clients, Ord!FillFails(r) PROVE OrdKnown'
    <2>1. /\ Ord!Filling(r) /\ ordOrders' = ordOrders /\ ordLost' = ordLost \cup {ordReq[r].id}
      BY <1>6 DEF Ord!FillFails
    <2>2. ordReq[r].pc = "fill"
      BY <2>1 DEF Ord!Filling
    <2>3. ordReq[r].id \in DOMAIN ordOrders
      BY <2>2, OrdAtWork DEF OrdCopy
    <2> QED BY <2>1, <2>3 DEF OrdKnown
  <1>7. ASSUME NEW r \in Clients, Ord!CancelSave(r) PROVE OrdKnown'
    <2> DEFINE q == ordReq[r]
               read == [i \in {q.id} |-> q.row]
               save == [i \in {q.id} |-> [q.row EXCEPT !.status = "cancelled"]]
    <2>1. /\ q.pc = "cancel" /\ ordOrders' = Ord!Saved(ordOrders, save)
          /\ ordLost' = ordLost \cup Ord!Stale(ordOrders, read)
      BY <1>7 DEF Ord!CancelSave
    <2>2. q.id \in DOMAIN ordOrders
      BY <2>1, OrdAtWork DEF OrdCopy
    <2>3. DOMAIN read \subseteq DOMAIN ordOrders /\ DOMAIN ordOrders' = DOMAIN ordOrders
      BY <2>1, <2>2 DEF Ord!Saved
    <2> HIDE DEF read
    <2> QED BY <1>3, <2>1, <2>3
  <1>8. ASSUME NEW r \in Clients, NEW id \in DOMAIN ordOrders,
               Ord!FindCounters(r) \/ Ord!MatchDone(r) \/ Ord!CancelRead(r, id)
        PROVE  OrdKnown'
    BY <1>2, <1>8 DEF Ord!FindCounters, Ord!MatchDone, Ord!CancelRead
  <1>8a. ASSUME NEW r \in Clients, Ord!FindCounters(r) \/ Ord!MatchDone(r) PROVE OrdKnown'
    BY <1>2, <1>8a DEF Ord!FindCounters, Ord!MatchDone
  <1>9. CASE UNCHANGED Ord!vars
    BY <1>2, <1>9 DEF Ord!vars
  <1> QED BY <1>4, <1>5, <1>6, <1>7, <1>8, <1>8a, <1>9 DEF Ord!Next, Ord!Ids

\* So are a market maker's orders that were filled by overlapping requests,
\* and every order has its count of trades.
MakerKnown ==
    /\ ordMakerTrades \in Seq(Int) /\ Len(ordMakerTrades) = Len(ordMakerOrders)
    /\ ordRaced \subseteq DOMAIN ordMakerOrders \cup {0}

LEMMA MakerKnownNext == MakerInv /\ MakerKnown /\ [Ord!MakerNext]_(Ord!makerVars) => MakerKnown'
  <1> SUFFICES ASSUME MakerInv, MakerKnown, [Ord!MakerNext]_(Ord!makerVars) PROVE MakerKnown'
    OBVIOUS
  <1>1. Len(ordMakerOrders) \in Nat /\ DOMAIN ordMakerOrders = 1..Len(ordMakerOrders)
    BY MakerRows DEF MakerInv
  <1>2. /\ ordMakerTrades \in Seq(Int) /\ DOMAIN ordMakerTrades = DOMAIN ordMakerOrders
        /\ Len(ordMakerTrades) = Len(ordMakerOrders) /\ ordRaced \subseteq DOMAIN ordMakerOrders \cup {0}
    BY <1>1 DEF MakerKnown
  <1>3. ASSUME NEW i \in DOMAIN ordMakerOrders, NEW row
        PROVE  LET after == [ordMakerOrders EXCEPT ![i] = row]
               IN  DOMAIN after = DOMAIN ordMakerOrders /\ Len(after) = Len(ordMakerOrders)
    <2> DEFINE after == [ordMakerOrders EXCEPT ![i] = row]
    <2>1. DOMAIN after = 1..Len(ordMakerOrders)
      BY <1>1
    <2> HIDE DEF after
    <2>2. Len(after) = Len(ordMakerOrders)
      BY <1>1, <2>1
    <2> QED BY <1>1, <2>1, <2>2 DEF after
  <1>4. ASSUME NEW a \in OrdAmounts, Ord!CreateMakerOrder(a) PROVE MakerKnown'
    <2> DEFINE row == [amount |-> a, filled |-> 0, status |-> "active"]
    <2>1. /\ ordMakerOrders' = Append(ordMakerOrders, row) /\ ordMakerTrades' = Append(ordMakerTrades, 0)
          /\ ordRaced' = ordRaced
      BY <1>4 DEF Ord!CreateMakerOrder
    <2> HIDE DEF row
    <2>2. /\ Append(ordMakerTrades, 0) \in Seq(Int) /\ Len(Append(ordMakerTrades, 0)) = Len(ordMakerOrders) + 1
      BY <1>2
    <2>3. Len(Append(ordMakerOrders, row)) = Len(ordMakerOrders) + 1 /\ DOMAIN Append(ordMakerOrders, row) = 1..(Len(ordMakerOrders) + 1)
      BY <1>1
    <2>4. DOMAIN ordMakerOrders \subseteq DOMAIN ordMakerOrders'
      BY <1>1, <2>1, <2>3
    <2> QED BY <1>2, <2>1, <2>2, <2>3, <2>4 DEF MakerKnown
  <1>5. ASSUME NEW i \in DOMAIN ordMakerOrders, Ord!CancelOrder(i) PROVE MakerKnown'
    <2>1. PICK row : ordMakerOrders' = [ordMakerOrders EXCEPT ![i] = row]
      BY <1>5 DEF Ord!CancelOrder
    <2>2. UNCHANGED <<ordMakerTrades, ordRaced>>
      BY <1>5 DEF Ord!CancelOrder
    <2> QED BY <1>2, <1>3, <2>1, <2>2 DEF MakerKnown
  <1>6. ASSUME NEW r \in Clients, Ord!FillOrder(r) PROVE MakerKnown'
    <2> DEFINE q == ordMakerReq[r]
    <2>1. /\ q.pc = "fill" /\ UNCHANGED ordMakerTrades
          /\ \E row : ordMakerOrders' = [ordMakerOrders EXCEPT ![q.id] = row]
          /\ ordRaced' \in {ordRaced, ordRaced \cup {q.id}}
      BY <1>6 DEF Ord!FillOrder
    <2>2. MakerAsks(q, ordMakerOrders)
      BY DEF MakerInv, MakerAsked
    <2>3. q.id \in DOMAIN ordMakerOrders
      BY <2>1, <2>2 DEF MakerAsks, Ord!New, Ord!Done
    <2> HIDE DEF q
    <2> QED BY <1>2, <1>3, <2>1, <2>3 DEF MakerKnown
  <1>7. ASSUME NEW r \in Clients, NEW i \in DOMAIN ordMakerOrders, NEW a \in OrdAmounts, Ord!RecordTrade(r, i, a)
        PROVE  MakerKnown'
    <2>1. /\ ordMakerTrades' = [ordMakerTrades EXCEPT ![i] = ordMakerTrades[i] + a]
          /\ UNCHANGED <<ordMakerOrders, ordRaced>>
      BY <1>7 DEF Ord!RecordTrade
    <2>2. a \in Int
      BY OrderAssumption
    <2>3. ordMakerTrades[i] + a \in Int
      BY <1>2, <2>2
    <2>4. ordMakerTrades' \in Seq(Int) /\ Len(ordMakerTrades') = Len(ordMakerTrades)
      BY <1>2, <2>1, <2>3
    <2> QED BY <1>2, <2>1, <2>4 DEF MakerKnown
  <1>8. ASSUME NEW r \in Clients, Ord!UpdateInventory(r) PROVE MakerKnown'
    BY <1>2, <1>8 DEF Ord!UpdateInventory, MakerKnown
  <1>9. ASSUME UNCHANGED <<ordMakerOrders, ordMakerTrades, ordRaced>> PROVE MakerKnown'
    BY <1>9 DEF MakerKnown
  <1> QED BY <1>4, <1>5, <1>6, <1>7, <1>8, <1>9
          DEF Ord!MakerNext, Ord!MakerIds, Ord!makerVars, Ord!CreateBot, Ord!UpdateBotStatus, Ord!FillRead, Ord!InventoryRead

LEMMA OrdTypes == OrdInv /\ OrdKnown => Ord!TypeOK
  <1> SUFFICES ASSUME OrdInv, OrdKnown PROVE Ord!TypeOK
    OBVIOUS
  <1>1. \A i \in DOMAIN ordOrders : ordOrders[i] \in OrdRow
    BY OrdRows DEF OrdInv
  <1> QED BY <1>1 DEF OrdRow, OrdKnown, Ord!TypeOK, Ord!Ids

LEMMA MakerTypes == MakerInv /\ MakerKnown => Ord!MakerTypeOK
  <1> SUFFICES ASSUME MakerInv, MakerKnown PROVE Ord!MakerTypeOK
    OBVIOUS
  <1>1. \A i \in DOMAIN ordMakerOrders : ordMakerOrders[i] \in MakerRow
    BY MakerRows DEF MakerInv
  <1> QED BY <1>1 DEF MakerRow, MakerKnown, Ord!MakerTypeOK, Ord!MakerIds

\* A rule of fees keeps its bounds, and the rules changed by overlapping
\* requests are rules.
FeeKnown == feeRaced \subseteq DOMAIN feeConfigs /\ feeNow \in 0..FeeMaxTime

LEMMA FeeTables ==
    ASSUME FeeInv
    PROVE  Len(feeConfigs) \in Nat /\ DOMAIN feeConfigs = 1..Len(feeConfigs) /\ \A i \in DOMAIN feeConfigs : feeConfigs[i] \in FeeRow
  <1> DEFINE S == FeeRow
  <1>1. feeConfigs \in Seq(S)
    BY DEF FeeInv
  <1> HIDE DEF S
  <1>2. Len(feeConfigs) \in Nat /\ DOMAIN feeConfigs = 1..Len(feeConfigs) /\ \A i \in DOMAIN feeConfigs : feeConfigs[i] \in S
    BY <1>1
  <1> QED BY <1>2 DEF S

LEMMA FeeKnownNext == FeeInv /\ FeeKnown /\ [Fee!Next]_(Fee!vars) => FeeKnown'
  <1> SUFFICES ASSUME FeeInv, FeeKnown, [Fee!Next]_(Fee!vars) PROVE FeeKnown'
    OBVIOUS
  <1>1. Len(feeConfigs) \in Nat /\ DOMAIN feeConfigs = 1..Len(feeConfigs)
    BY FeeTables
  <1>2. ASSUME NEW r \in Clients, NEW c \in FeeConfigInputs, Fee!CreateFeeConfig(r, c) PROVE FeeKnown'
    <2>1. feeConfigs' = Append(feeConfigs, c) /\ UNCHANGED <<feeRaced, feeNow>>
      BY <1>2 DEF Fee!CreateFeeConfig
    <2>2. DOMAIN Append(feeConfigs, c) = 1..(Len(feeConfigs) + 1)
      BY <1>1
    <2> QED BY <1>1, <2>1, <2>2 DEF FeeKnown
  <1>3. ASSUME NEW r \in Clients, Fee!Commit(r) PROVE FeeKnown'
    <2> DEFINE q == feeReq[r]
    <2>1. /\ q.pc \in {"updated", "deactivated"}
          /\ feeConfigs' = [feeConfigs EXCEPT ![q.id] = Fee!SavedRow(q)]
          /\ feeRaced' \in {feeRaced, feeRaced \cup {q.id}} /\ feeNow' = feeNow
      BY <1>3 DEF Fee!Commit
    <2>2. q \in FeeChange(DOMAIN feeConfigs)
      BY <2>1 DEF FeeInv, Fee!New, Fee!Done
    <2>3. q.id \in DOMAIN feeConfigs
      BY <2>2 DEF FeeChange
    <2> HIDE DEF q
    <2> QED BY <2>1, <2>3 DEF FeeKnown
  <1>4. ASSUME Fee!Tick PROVE FeeKnown'
    BY <1>4, FeeAssumption DEF Fee!Tick, FeeKnown
  <1>5. ASSUME UNCHANGED <<feeConfigs, feeRaced, feeNow>> PROVE FeeKnown'
    BY <1>5 DEF FeeKnown
  <1> QED BY <1>2, <1>3, <1>4, <1>5 DEF Fee!Next, Fee!UpdateRead, Fee!DeactivateRead, Fee!CalculateFee, Fee!vars

LEMMA FeeTypes == FeeInv /\ FeeKnown => Fee!TypeOK
  <1> SUFFICES ASSUME FeeInv, FeeKnown PROVE Fee!TypeOK
    OBVIOUS
  <1>1. \A i \in DOMAIN feeConfigs : feeConfigs[i] \in FeeRow
    BY FeeTables
  <1> QED BY <1>1 DEF FeeRow, Fee!validateConfig, FeeKnown, Fee!TypeOK, Fee!Ids

\* One rule of distribution is active at most, whatever is activated.
OneActive == \A i, j \in DOMAIN feeRules : feeRules[i].active /\ feeRules[j].active => i = j

LEMMA DistTable ==
    ASSUME DistInv
    PROVE  /\ Len(feeRules) \in Nat /\ DOMAIN feeRules = 1..Len(feeRules)
           /\ \A i \in DOMAIN feeRules : feeRules[i] \in [shares : RuleShares, active : BOOLEAN]
  <1> DEFINE S == [shares : RuleShares, active : BOOLEAN]
  <1>1. feeRules \in Seq(S)
    BY DEF DistInv
  <1> HIDE DEF S
  <1>2. Len(feeRules) \in Nat /\ DOMAIN feeRules = 1..Len(feeRules) /\ \A i \in DOMAIN feeRules : feeRules[i] \in S
    BY <1>1
  <1> QED BY <1>2 DEF S

LEMMA OneActiveNext == DistInv /\ OneActive /\ [Fee!DistNext]_(Fee!distVars) => OneActive'
  <1> SUFFICES ASSUME DistInv, OneActive, [Fee!DistNext]_(Fee!distVars) PROVE OneActive'
    OBVIOUS
  <1>1. /\ Len(feeRules) \in Nat /\ DOMAIN feeRules = 1..Len(feeRules)
        /\ \A i \in DOMAIN feeRules : feeRules[i] \in [shares : RuleShares, active : BOOLEAN]
    BY DistTable
  <1>2. ASSUME NEW s \in FeeShares, Fee!CreateRule(s) PROVE OneActive'
    <2> DEFINE row == [shares |-> s, active |-> TRUE]
               n == Len(feeRules)
    <2>1. feeRules' = Append(feeRules, row) /\ \A i \in DOMAIN feeRules : ~feeRules[i].active
      BY <1>2 DEF Fee!CreateRule, Fee!Active
    <2>2. \A i \in DOMAIN feeRules' : i = n + 1 \/ (i \in DOMAIN feeRules /\ feeRules'[i] = feeRules[i])
      <3> HIDE DEF row
      <3> QED BY <1>1, <2>1
    <2> QED BY <2>1, <2>2 DEF OneActive
  <1>3. ASSUME NEW k \in DOMAIN feeRules, Fee!ActivateRule(k) PROVE OneActive'
    <2>1. feeRules' = [j \in DOMAIN feeRules |-> [feeRules[j] EXCEPT !.active = (j = k)]]
      BY <1>3 DEF Fee!ActivateRule
    <2>2. ASSUME NEW j \in DOMAIN feeRules PROVE feeRules'[j].active = (j = k)
      BY <1>1, <2>1
    <2> QED BY <2>1, <2>2 DEF OneActive
  <1>4. ASSUME UNCHANGED feeRules PROVE OneActive'
    BY <1>4 DEF OneActive
  <1> QED BY <1>2, <1>3, <1>4
          DEF Fee!DistNext, Fee!CollectFee, Fee!MoveShares, Fee!RunDistribution, Fee!Allocate, Fee!AllocateFails, Fee!DistTick,
              Fee!distVars

LEMMA DistTypes == DistInv /\ OneActive => Fee!DistTypeOK
  <1> SUFFICES ASSUME DistInv, OneActive PROVE Fee!DistTypeOK
    OBVIOUS
  <1>1. \A i \in DOMAIN feeRules : feeRules[i].active \in BOOLEAN
    BY DistTable
  <1>2. Cardinality(Fee!Active) <= 1
    <2>1. CASE Fee!Active = {}
      BY <2>1, FS_EmptySet
    <2>2. CASE Fee!Active # {}
      <3>1. PICK i : i \in Fee!Active
        BY <2>2
      <3>2. Fee!Active = {i}
        BY <3>1 DEF Fee!Active, OneActive
      <3>3. Cardinality(Fee!Active) = 1
        BY ONLY <3>2, FS_Singleton
      <3> QED BY ONLY <3>3
    <2> QED BY <2>1, <2>2
  <1> QED BY <1>1, <1>2, FeeCardinality DEF Fee!DistTypeOK

\* The gauge of the price providers, and what the last request came to.
PriceGauge == pxGauge \in {0, 1} /\ pxOutcome \in {0, 1}

LEMMA PriceGaugeNext == PriceGauge /\ [Px!Next]_(Px!vars) => PriceGauge'
  BY DEF PriceGauge, Px!Next, Px!vars, Px!FetchPrice, Px!Answer, Px!Refuse, Px!Fail, Px!GiveUp, Px!Tick

LEMMA PriceTypes == PriceInv /\ PriceGauge => Px!TypeOK
  BY DEF PriceInv, PriceRequest, PriceGauge, Px!TypeOK, Px!New

(***************************************************************************)
(* Every market keeps to its types: rows have a known status, a fee stays  *)
(* between its bounds, one rule of distribution is active at most, and the *)
(* history variables name rows.                                            *)
(***************************************************************************)
THEOREM MarketTypes ==
    Spec /\ Ord!Spec /\ Ord!MakerSpec /\ Pool!Spec /\ Fee!Spec /\ Fee!DistSpec /\ Px!Spec => []MarketsTypeOK
  <1>1. Ord!Init => OrdKnown
    BY DEF Ord!Init, OrdKnown
  <1>2. Ord!MakerInit => MakerKnown
    <2> SUFFICES ASSUME Ord!MakerInit PROVE MakerKnown
      OBVIOUS
    <2>1. ordMakerOrders = <<>> /\ ordMakerTrades = <<>> /\ ordRaced = {}
      BY DEF Ord!MakerInit
    <2> QED BY <2>1 DEF MakerKnown
  <1>3. Fee!Init => FeeKnown
    BY FeeAssumption DEF Fee!Init, FeeKnown
  <1>4. Fee!DistInit => OneActive
    BY DEF Fee!DistInit, OneActive
  <1>5. Px!Init => PriceGauge
    BY DEF Px!Init, PriceGauge
  <1>6. Ord!Spec => []Ord!TypeOK
    BY <1>1, OrdInvInit, OrdNextInv, OrdKnownNext, OrdTypes, PTL DEF Ord!Spec
  <1>7. Ord!MakerSpec => []Ord!MakerTypeOK
    BY <1>2, MakerInvInit, MakerNextInv, MakerKnownNext, MakerTypes, PTL DEF Ord!MakerSpec
  <1>8. Fee!Spec => []Fee!TypeOK
    BY <1>3, FeeInvInit, FeeInvNext, FeeKnownNext, FeeTypes, PTL DEF Fee!Spec
  <1>9. Fee!DistSpec => []Fee!DistTypeOK
    BY <1>4, DistInvInit, DistInvNext, OneActiveNext, DistTypes, PTL DEF Fee!DistSpec
  <1>10. Px!Spec => []Px!TypeOK
    BY <1>5, PriceInvInit, PriceInvNext, PriceGaugeNext, PriceTypes, PTL DEF Px!Spec
  <1>11. PoolInv => Pool!TypeOK
    BY DEF PoolInv
  <1>12. Pool!Spec => []Pool!TypeOK
    BY <1>11, PoolInvInit, PoolInvNext, PTL DEF Pool!Spec
  <1>13. /\ TypeOK /\ Ord!TypeOK /\ Pool!TypeOK /\ Ord!MakerTypeOK
         /\ Fee!TypeOK /\ Fee!DistTypeOK /\ Px!TypeOK
         => MarketsTypeOK
    BY DEF MarketsTypeOK
  <1> QED BY <1>6, <1>7, <1>8, <1>9, <1>10, <1>12, <1>13, AuctionTypeOK, PTL

-----------------------------------------------------------------------------
(* The run                                                                 *)

\* A component that does not move keeps its variables.
LEMMA MarketsAlone ==
    ASSUME NEW k, Alone(k)
    PROVE  /\ k # "auction" => UNCHANGED vars
           /\ k # "book" => UNCHANGED Book!vars
           /\ k # "escrow" => UNCHANGED Esc!vars
           /\ k # "offers" => UNCHANGED Ord!vars
           /\ k # "market_maker" => UNCHANGED Ord!makerVars
           /\ k # "pool" => UNCHANGED Pool!vars
           /\ k # "fees" => UNCHANGED Fee!vars
           /\ k # "fee_distribution" => UNCHANGED Fee!distVars
           /\ k # "prices" => UNCHANGED Px!vars
  <1>1. k # "auction" => UNCHANGED vars
    BY DEF Alone
  <1>2. k # "escrow" => UNCHANGED escVars
    BY DEF Alone
  <1>3. k # "pool" => UNCHANGED poolVars
    BY DEF Alone
  <1>4. k # "fees" => UNCHANGED feeVars
    BY DEF Alone
  <1>5. k # "fee_distribution" => UNCHANGED feeDistVars
    BY DEF Alone
  <1>6. k # "prices" => UNCHANGED pxVars
    BY DEF Alone
  <1>7. k # "offers" => UNCHANGED ordVars
    BY DEF Alone
  <1>8. k # "market_maker" => UNCHANGED ordMakerVars
    BY DEF Alone
  <1>9. k # "book" => UNCHANGED bookVars
    BY DEF Alone
  <1> QED BY <1>1, <1>2, <1>3, <1>4, <1>5, <1>6, <1>7, <1>8, <1>9
          DEF bookVars, Book!vars, escVars, Esc!vars, ordVars, Ord!vars, ordMakerVars, Ord!makerVars, poolVars,
              Pool!vars, feeVars, Fee!vars, feeDistVars, Fee!distVars, pxVars, Px!vars

\* No component touches another's storage, so that a behaviour of all is one
\* of each.
LEMMA MarketsAreApart ==
    MarketsSpec =>
      Spec /\ Book!Spec /\ Esc!Spec /\ Ord!Spec /\ Ord!MakerSpec /\ Pool!Spec /\ Fee!Spec /\ Fee!DistSpec /\ Px!Spec
  <1>1. MarketsInit => Init /\ Book!Init /\ Esc!Init /\ Ord!Init /\ Ord!MakerInit /\ Pool!Init /\
                     Fee!Init /\ Fee!DistInit /\ Px!Init
    BY DEF MarketsInit
  <1>2. UNCHANGED all =>
          UNCHANGED vars /\ UNCHANGED Book!vars /\ UNCHANGED Esc!vars /\ UNCHANGED Ord!vars /\ UNCHANGED Ord!makerVars /\
          UNCHANGED Pool!vars /\ UNCHANGED Fee!vars /\ UNCHANGED Fee!distVars /\ UNCHANGED Px!vars
    BY DEF all, bookVars, Book!vars, escVars, Esc!vars, ordVars, Ord!vars, ordMakerVars, Ord!makerVars, poolVars,
           Pool!vars, feeVars, Fee!vars, feeDistVars, Fee!distVars, pxVars, Px!vars
  <1>3. [MarketsNext]_all => [Next]_vars
    BY <1>2, MarketsAlone DEF MarketsNext
  <1>4. [MarketsNext]_all => [Esc!Next]_(Esc!vars)
    BY <1>2, MarketsAlone DEF MarketsNext
  <1>5. [MarketsNext]_all => [Pool!Next]_(Pool!vars)
    BY <1>2, MarketsAlone DEF MarketsNext
  <1>6. [MarketsNext]_all => [Fee!Next]_(Fee!vars)
    BY <1>2, MarketsAlone DEF MarketsNext
  <1>7. [MarketsNext]_all => [Fee!DistNext]_(Fee!distVars)
    BY <1>2, MarketsAlone DEF MarketsNext
  <1>8. [MarketsNext]_all => [Px!Next]_(Px!vars)
    BY <1>2, MarketsAlone DEF MarketsNext
  <1>9. [MarketsNext]_all => [Ord!Next]_(Ord!vars)
    BY <1>2, MarketsAlone DEF MarketsNext
  <1>10. [MarketsNext]_all => [Ord!MakerNext]_(Ord!makerVars)
    BY <1>2, MarketsAlone DEF MarketsNext
  <1>11. [MarketsNext]_all => [Book!Next]_(Book!vars)
    BY <1>2, MarketsAlone DEF MarketsNext
  <1> QED BY <1>1, <1>3, <1>4, <1>5, <1>6, <1>7, <1>8, <1>9, <1>10, <1>11, PTL
          DEF MarketsSpec, Spec, Book!Spec, Esc!Spec, Ord!Spec, Ord!MakerSpec, Pool!Spec, Fee!Spec, Fee!DistSpec, Px!Spec

(***************************************************************************)
(* What is proved of each part holds of all of them together, as they are  *)
(* explored: refunds and custody are exact, trades settled, fills          *)
(* explained, shares are backed and keep their value, fees are conserved   *)
(* and prices fresh.                                                       *)
(***************************************************************************)
THEOREM MarketsTogether ==
    MarketsSpec =>
      /\ [](/\ MarketsTypeOK /\ RefundsAreExact /\ TradesAreSettled /\ EscrowCustodyIsExact /\ FillsAreExplained
           /\ PoolIsBacked /\ FeesAreConserved /\ PricesAreFresh)
      /\ ShareValueNeverFalls
  <1> QED BY MarketsAreApart, MarketTypes, AuctionRefunds, TradesSettled, EscrowCustody, FillsExplained, PoolBacking,
             PoolShareValue, FeeConservation, PriceFreshness, PTL
=============================================================================
