------------------------------- MODULE Domain -------------------------------
(***************************************************************************)
(* The pure domain rules of internal/domain: wallets, items and auctions.  *)
(* A Go method that validates and then mutates its receiver is a pair of   *)
(* operators here, the condition under which it returns no error (Can...)  *)
(* and the value of the receiver afterwards.                               *)
(*                                                                         *)
(* An operator named after another one with a suffix (CanDebitTotal,       *)
(* CostOfOne ...) is a seeded fault: the same rule with a plausible        *)
(* mistake.  No definition uses it; the run that must notice the mistake   *)
(* substitutes it for the rule.                                            *)
(***************************************************************************)
EXTENDS Gold, Sequences

-----------------------------------------------------------------------------
(* Wallets.  DailyCap never changes and is passed separately.              *)

Wallet == [total : Nat, reserved : Nat]

Available(w) == w.total - w.reserved

WithinDailyCapForgets(cap, spentToday, amount) ==
    cap <= 0 \/ amount <= cap

(* spentToday + amount wraps only for an amount that Reserve or Debit      *)
(* rejects right afterwards, so it is a plain sum.                         *)
WithinDailyCap(cap, spentToday, amount) ==
    cap <= 0 \/ spentToday + amount <= cap

CanReserve(w, amount) ==
    IsPositive(amount) /\ amount <= Available(w)

Reserve(w, amount) == [w EXCEPT !.reserved = @ + amount]

CanRelease(w, amount) ==
    IsPositive(amount) /\ amount <= w.reserved

Release(w, amount) == [w EXCEPT !.reserved = @ - amount]

CanDebitTotal(w, amount) ==
    IsPositive(amount) /\ amount <= w.total

CanDebit(w, amount) ==
    IsPositive(amount) /\ amount <= Available(w)

Debit(w, amount) == [w EXCEPT !.total = @ - amount]

Credit(w, amount) == [w EXCEPT !.total = @ + amount]

-----------------------------------------------------------------------------
(* Items.                                                                  *)

Rarities == {"common", "rare", "legendary"}

ItemStatuses == {"available", "sold_out", "in_auction"}

AuctionOnly(rarity) == rarity = "legendary"

(* NewItem, and the start price that CreateItem checks for a Legendary.    *)
ValidListing(in) ==
    /\ in.rarity \in Rarities
    /\ IsPositive(in.price)
    /\ AuctionOnly(in.rarity) \/ in.quantity >= 1

NewItem(in) ==
    [rarity   |-> in.rarity,
     seller   |-> in.seller,
     price    |-> IF AuctionOnly(in.rarity) THEN 0 ELSE in.price,
     quantity |-> IF AuctionOnly(in.rarity) THEN 1 ELSE in.quantity,
     status   |-> "available"]

CanSellToAnyStock(item, buyer, qty) ==
    /\ qty >= 1
    /\ ~AuctionOnly(item.rarity)
    /\ item.seller # buyer
    /\ item.status = "available"

CanSellTo(item, buyer, qty) ==
    /\ qty >= 1
    /\ ~AuctionOnly(item.rarity)
    /\ item.seller # buyer
    /\ item.status = "available"
    /\ qty <= item.quantity

SellTo(item, qty) ==
    [item EXCEPT !.quantity = @ - qty,
                 !.status   = IF item.quantity = qty THEN "sold_out" ELSE @]

CostOfOne(item, qty) == Int64(item.price)

Cost(item, qty) == Int64(item.price * qty)

-----------------------------------------------------------------------------
(* Auctions.  Bids are kept in the order they were placed and a bid's      *)
(* position in the sequence is its ID.                                     *)

ActiveBids(a) == {b \in DOMAIN a.bids : a.bids[b].active}

(* The ID of the winning bid, the first of the highest active ones; 0 is   *)
(* the code's nil.                                                         *)
HighestBid(a) ==
    IF ActiveBids(a) = {} THEN 0
    ELSE CHOOSE b \in ActiveBids(a) : \A c \in ActiveBids(a) :
            \/ a.bids[c].amount < a.bids[b].amount
            \/ a.bids[c].amount = a.bids[b].amount /\ b <= c

Leader(a) == a.bids[HighestBid(a)]

MinIncrementPercent == 5

IncrementRoundedDown(amount) ==
    LET inc == (amount * MinIncrementPercent) \div 100
    IN  IF inc < 1 THEN 1 ELSE inc

(* ceil(5%), and at least one unit.                                        *)
Increment(amount) ==
    LET inc == (amount * MinIncrementPercent + 99) \div 100
    IN  IF inc < 1 THEN 1 ELSE inc

MinNextBidEqual(a) ==
    IF HighestBid(a) = 0 THEN a.startPrice ELSE Leader(a).amount

MinNextBid(a) ==
    IF HighestBid(a) = 0 THEN a.startPrice
    ELSE Leader(a).amount + Increment(Leader(a).amount)

CanPlaceBid(a, guild, amount, t) ==
    /\ a.status = "active"
    /\ t < a.endsAt
    /\ guild # a.seller
    /\ amount >= MinNextBid(a)

PlaceBidNoExtension(a, guild, amount, t) ==
    [a EXCEPT !.bids = Append(@, [guild |-> guild, amount |-> amount,
                                  active |-> TRUE, placedAt |-> t])]

(* A bid in the last `extension' before the end moves the end.             *)
PlaceBid(a, guild, amount, t) ==
    [a EXCEPT !.bids   = Append(@, [guild |-> guild, amount |-> amount,
                                    active |-> TRUE, placedAt |-> t]),
              !.endsAt = IF a.extension > 0 /\ @ - t < a.extension
                         THEN t + a.extension ELSE @]

CanCancelAnyBid(a, b, guild) ==
    /\ a.status = "active"
    /\ b \in ActiveBids(a)
    /\ a.bids[b].guild = guild

CanCancelBid(a, b, guild) ==
    /\ a.status = "active"
    /\ b # HighestBid(a)
    /\ b \in ActiveBids(a)
    /\ a.bids[b].guild = guild

CancelBid(a, b) == [a EXCEPT !.bids[b].active = FALSE]

Due(a, t) == a.status = "active" /\ t >= a.endsAt
=============================================================================
