---------------------------- MODULE ServerProofs ----------------------------
(***************************************************************************)
(* What survives any number of restarts, wherever each start or run of the *)
(* server is cut off.                                                      *)
(*                                                                         *)
(* The invariant of MarketProofs does not hold here: a guild may have no   *)
(* row yet, and SeedGuild rewrites total under a reservation, so a row may *)
(* be insolvent and, once such a reservation is settled, negative.  What   *)
(* holds is that reserved is what the guild leads with, because a guild    *)
(* that leads has a row and no statement of seed touches its reserved.     *)
(***************************************************************************)
EXTENDS Server, MarketProofs

Row == [total : Int, reserved : Nat]

RowsTyped ==
    /\ DOMAIN items \subseteq ItemIDs
    /\ items \in [DOMAIN items -> Item]
    /\ DOMAIN wallets \subseteq Registered
    /\ wallets \in [DOMAIN wallets -> Row]
    /\ DOMAIN auctions \subseteq AuctionIDs
    /\ now \in 0..MaxTime

(* Whoever bid last in an auction has a row to pay from.                   *)
LeadersHaveRows ==
    \A x \in DOMAIN auctions : auctions[x].bids # <<>> => LastBid(x).guild \in DOMAIN wallets

SInv ==
    /\ RowsTyped
    /\ AuctionRows
    /\ FinitelyManyAuctions
    /\ LeadersHaveRows
    /\ ReservationsSurvive


-----------------------------------------------------------------------------
(* The units of work of the market.                                        *)

(* Rows that keep their last bid and status lead with what they led with,  *)
(* and new ones without bids add nothing.                                  *)
LEMMA SameLeads ==
    ASSUME AuctionRows, AuctionRows', DOMAIN auctions \subseteq DOMAIN auctions',
           \A x \in DOMAIN auctions : /\ auctions'[x].status = auctions[x].status
                                      /\ auctions'[x].bids = <<>> <=> auctions[x].bids = <<>>
                                      /\ LastBid(x)' = LastBid(x),
           \A x \in DOMAIN auctions' \ DOMAIN auctions : auctions'[x].bids = <<>>
    PROVE  /\ \A g : GoldIn(Leads', LedBy(g)') = GoldIn(Leads, LedBy(g))
           /\ LeadersHaveRows /\ DOMAIN wallets \subseteq DOMAIN wallets' => LeadersHaveRows'
<1>1. LeadsAreLast /\ LeadsAreLast'
  BY RowsRead, RowsReadNext
<1>2. ASSUME NEW g PROVE GoldIn(Leads', LedBy(g)') = GoldIn(Leads, LedBy(g))
  <2>1. LedBy(g)' = {x \in DOMAIN auctions' : /\ auctions'[x].status = "active"
                                              /\ auctions'[x].bids # <<>>
                                              /\ LastBid(x)'.guild = g}
    BY <1>1 DEF LeadsAreLast
  <2>2. LedBy(g) = {x \in DOMAIN auctions : /\ auctions[x].status = "active"
                                            /\ auctions[x].bids # <<>>
                                            /\ LastBid(x).guild = g}
    BY <1>1 DEF LeadsAreLast
  <2>3. LedBy(g)' = LedBy(g)
    BY <2>1, <2>2
  <2>4. \A x \in LedBy(g) : Leads'[x] = Leads[x]
    BY <1>1, <2>2 DEF LeadsAreLast
  <2>5. GoldIn(Leads', LedBy(g)) = GoldIn(Leads, LedBy(g))
    BY <2>4, GoldInEq
  <2> QED  BY <2>3, <2>5
<1>3. ASSUME LeadersHaveRows, DOMAIN wallets \subseteq DOMAIN wallets'
      PROVE  LeadersHaveRows'
  BY <1>3 DEF LeadersHaveRows
<1> QED  BY <1>2, <1>3

(* A step that touches no auction and no reservation.                      *)
LEMMA BidsUntouched ==
    ASSUME SInv, RowsTyped', UNCHANGED auctions, DOMAIN wallets' = DOMAIN wallets,
           \A g \in DOMAIN wallets : wallets'[g].reserved = wallets[g].reserved
    PROVE  SInv'
<1>1. AuctionRows' /\ FinitelyManyAuctions' /\ LeadersHaveRows'
  BY DEF SInv, AuctionRows, FinitelyManyAuctions, LeaderStands, LeadersHaveRows, LastBid
<1>2. ReservationsSurvive'
  BY DEF SInv, ReservationsSurvive, Leads, LedBy
<1> QED  BY <1>1, <1>2 DEF SInv

(* A listing, a starter or a guild's own, touches no gold.                 *)
LEMMA CreateItemSurvives ==
    ASSUME SInv, NEW i \in ItemIDs, NEW t \in 0..now,
           NEW in \in ListingInput,
           CreateItem(in, i, t)
    PROVE  SInv'
<1> USE DEF SInv
<1>1. /\ in.rarity \in Rarities /\ in.seller \in Guilds
      /\ in.price \in Nat /\ in.price > 0
      /\ in.quantity \in Int /\ (AuctionOnly(in.rarity) \/ in.quantity >= 1)
  BY DEF ListingInput, CreateItem, ValidListing, IsPositive
<1>2. t \in Nat /\ UNCHANGED <<wallets, ledger, now>>
  BY DEF RowsTyped, CreateItem
<1>3. NewItem(in) \in Item /\ [NewItem(in) EXCEPT !.status = "in_auction"] \in Item
  BY <1>1 DEF NewItem, Item, ItemStatuses
<1>4. CASE AuctionOnly(in.rarity)
  <2>1. PICK x \in AuctionIDs \ DOMAIN auctions :
          /\ auctions' = Put(auctions, x, NewAuction(i, in, t))
          /\ items' = Put(items, i, [NewItem(in) EXCEPT !.status = "in_auction"])
    BY <1>4 DEF CreateItem
  <2>2. NewAuction(i, in, t) \in Auction /\ NewAuction(i, in, t).bids = <<>>
    BY <1>1, <1>2, ClockAssumption DEF NewAuction, Auction
  <2>3. /\ DOMAIN auctions' = DOMAIN auctions \cup {x}
        /\ auctions' \in [DOMAIN auctions' -> Auction]
        /\ auctions'[x].bids = <<>>
        /\ \A y \in DOMAIN auctions : auctions'[y] = auctions[y]
    BY <2>1, <2>2 DEF AuctionRows, Put
  <2>4. DOMAIN items' = DOMAIN items \cup {i} /\ items' \in [DOMAIN items' -> Item]
    BY <1>3, <2>1 DEF RowsTyped, Put
  <2>5. RowsTyped'
    BY <1>2, <2>3, <2>4 DEF RowsTyped
  <2>6. FinitelyManyAuctions'
    BY <2>3, FS_AddElement DEF FinitelyManyAuctions
  <2>7. AuctionRows'
    BY <2>3 DEF AuctionRows, LeaderStands, Stands
  <2>8. /\ \A g : GoldIn(Leads', LedBy(g)') = GoldIn(Leads, LedBy(g))
        /\ LeadersHaveRows'
    <3>1. \A y \in DOMAIN auctions : LastBid(y)' = LastBid(y)
      BY <2>3 DEF LastBid
    <3> QED  BY <1>2, <2>3, <2>7, <3>1, SameLeads
  <2>9. ReservationsSurvive'
    BY <1>2, <2>8 DEF ReservationsSurvive
  <2> QED  BY <2>5, <2>6, <2>7, <2>8, <2>9
<1>5. CASE ~AuctionOnly(in.rarity)
  <2>1. items' = Put(items, i, NewItem(in)) /\ UNCHANGED auctions
    BY <1>5 DEF CreateItem
  <2>2. DOMAIN items' = DOMAIN items \cup {i} /\ items' \in [DOMAIN items' -> Item]
    BY <1>3, <2>1 DEF RowsTyped, Put
  <2>3. RowsTyped'
    BY <1>2, <2>1, <2>2 DEF RowsTyped
  <2> QED  BY <1>2, <2>1, <2>3, BidsUntouched
<1> QED  BY <1>4, <1>5

(* A purchase moves totals only.                                           *)
LEMMA PurchaseSurvives ==
    ASSUME SInv, NEW i \in ItemIDs, NEW buyer \in Guilds, NEW qty \in Quantities,
           NEW t \in Readings, Purchase(i, buyer, qty, t)
    PROVE  SInv'
<1> USE DEF SInv
<1> DEFINE item == items[i]
           seller == item.seller
           cost == Cost(item, qty)
<1>1. /\ i \in DOMAIN items /\ item \in Item /\ qty \in Int
      /\ buyer \in DOMAIN wallets /\ seller \in DOMAIN wallets /\ seller # buyer
      /\ qty <= item.quantity
      /\ UNCHANGED <<auctions, now>>
  BY RequestsAssumption DEF Purchase, RowsTyped, CanSellTo
<1>2. cost \in Int
  BY <1>1, CostIsInt
<1> HIDE DEF cost
<1>3. SellTo(item, qty) \in Item
  <2>1. item.quantity - qty \in Nat
    BY <1>1 DEF Item
  <2> QED  BY <1>1, <2>1 DEF SellTo, Item, ItemStatuses
<1>4. /\ items' = [items EXCEPT ![i] = SellTo(item, qty)]
      /\ wallets' = [wallets EXCEPT ![buyer] = Debit(@, cost), ![seller] = Credit(@, cost)]
  BY DEF Purchase, cost
<1>5. DOMAIN items' = DOMAIN items /\ items' \in [DOMAIN items' -> Item]
  BY <1>1, <1>3, <1>4 DEF RowsTyped
<1>6. ASSUME NEW g \in DOMAIN wallets
      PROVE  wallets'[g] \in Row /\ wallets'[g].reserved = wallets[g].reserved
  <2>0. wallets[g] \in Row
    BY DEF RowsTyped
  <2>1. CASE g = buyer
    <3>1. wallets'[g] = Debit(wallets[g], cost)
      BY <1>1, <1>4, <2>1
    <3> QED  BY <1>2, <2>0, <3>1 DEF Debit, Row
  <2>2. CASE g = seller
    <3>1. wallets'[g] = Credit(wallets[g], cost)
      BY <1>1, <1>4, <2>2
    <3> QED  BY <1>2, <2>0, <3>1 DEF Credit, Row
  <2>3. CASE g # buyer /\ g # seller
    <3>1. wallets'[g] = wallets[g]
      BY <1>1, <1>4, <2>3
    <3> QED  BY <2>0, <3>1
  <2> QED  BY <2>1, <2>2, <2>3
<1>7. DOMAIN wallets' = DOMAIN wallets /\ wallets' \in [DOMAIN wallets -> Row]
  <2>1. wallets' = [g \in DOMAIN wallets |-> wallets'[g]]
    BY <1>4 DEF RowsTyped
  <2> QED  BY <1>6, <2>1
<1>8. RowsTyped'
  BY <1>1, <1>5, <1>7 DEF RowsTyped
<1> QED  BY <1>1, <1>6, <1>7, <1>8, BidsUntouched


(* A bid moves one reservation from the unseated leader's row to the       *)
(* bidder's, whatever their totals say.                                    *)
LEMMA BidSurvives ==
    ASSUME SInv, NEW i \in ItemIDs, NEW bidder \in Guilds, NEW amount \in Amounts,
           NEW t \in Readings, BidOnItem(i, bidder, amount, t)
    PROVE  SInv'
<1>1. PICK x \in ActiveAuctions(i) :
        LET a == auctions[x]
        IN  /\ bidder \in DOMAIN wallets
            /\ CanPlaceBid(a, bidder, amount, t)
            /\ HighestBid(a) # 0 => CanRelease(wallets[Leader(a).guild], Leader(a).amount)
            /\ wallets' = BidWallets(a, bidder, amount)
            /\ auctions' = [auctions EXCEPT ![x] = PlaceBid(a, bidder, amount, t)]
  BY DEF BidOnItem
<1> DEFINE a == auctions[x]
           taken(g) == IF g = bidder THEN amount ELSE 0
<1>2. /\ x \in DOMAIN auctions /\ a.status = "active"
      /\ bidder \in DOMAIN wallets /\ bidder \in Registered
      /\ t \in Nat /\ amount \in Nat
      /\ UNCHANGED <<items, now>>
  BY <1>1, RequestsAssumption
     DEF ActiveAuctions, SInv, RowsTyped, BidOnItem, Readings, IsPositive
<1>3. BidLands(x, bidder, amount, t)
  BY <1>1, <1>2 DEF BidLands
<1>4. /\ AuctionRows' /\ FinitelyManyAuctions'
      /\ DOMAIN auctions' = DOMAIN auctions
      /\ auctions'[x].bids # <<>> /\ LastBid(x)'.guild = bidder
      /\ \A y \in DOMAIN auctions : y # x => auctions'[y] = auctions[y]
      /\ \A g \in Registered :
           GoldIn(Leads', LedBy(g)') = GoldIn(Leads, LedBy(g)) - Freed(x, g) + taken(g)
  BY <1>2, <1>3, BidShiftsLeads DEF SInv
<1>5. /\ HighestBid(a) = 0 <=> a.bids = <<>>
      /\ a.bids # <<>> => Leader(a) = LastBid(x) /\ Leads[x] = LastBid(x).amount
      /\ Leads[x] \in Nat
  BY <1>2, RowsRead DEF SInv, LeadsAreLast
<1>6. a.bids # <<>> => /\ LastBid(x).guild \in DOMAIN wallets
                       /\ Leads[x] <= wallets[LastBid(x).guild].reserved
  BY <1>1, <1>2, <1>5 DEF SInv, LeadersHaveRows, CanRelease
<1>7. wallets \in [DOMAIN wallets -> Row]
  BY DEF SInv, RowsTyped
<1>8. DOMAIN Released(a) = DOMAIN wallets
  BY <1>7 DEF Released
<1>9. ASSUME NEW g \in DOMAIN wallets
      PROVE  /\ Released(a)[g] \in Row
             /\ Released(a)[g].reserved = wallets[g].reserved - Freed(x, g)
             /\ Freed(x, g) \in Nat
  <2>1. wallets[g] \in Row
    BY <1>7
  <2>2. CASE a.bids # <<>> /\ g = LastBid(x).guild
    <3>1. Released(a) =
            [wallets EXCEPT ![LastBid(x).guild] = Release(wallets[LastBid(x).guild], Leads[x])]
      BY <1>5, <2>2 DEF Released
    <3>2. Released(a)[g] = Release(wallets[g], Leads[x])
      BY <1>7, <2>2, <3>1
    <3>3. Freed(x, g) = Leads[x] /\ Leads[x] <= wallets[g].reserved
      BY <1>6, <2>2 DEF Freed
    <3>4. wallets[g].reserved - Leads[x] \in Nat
      BY <1>5, <2>1, <3>3 DEF Row
    <3> QED  BY <1>5, <2>1, <3>2, <3>3, <3>4 DEF Release, Row
  <2>3. CASE ~(a.bids # <<>> /\ g = LastBid(x).guild)
    <3>1. Released(a)[g] = wallets[g]
      BY <1>5, <1>7, <2>3 DEF Released
    <3>2. Freed(x, g) = 0
      BY <2>3 DEF Freed
    <3> QED  BY <2>1, <3>1, <3>2 DEF Row
  <2> QED  BY <2>2, <2>3
<1>10. wallets' = [Released(a) EXCEPT ![bidder] = Reserve(Released(a)[bidder], amount)]
  BY <1>1 DEF BidWallets
<1>11. ASSUME NEW g \in DOMAIN wallets
       PROVE  /\ wallets'[g] \in Row
              /\ wallets'[g].reserved = wallets[g].reserved - Freed(x, g) + taken(g)
  <2>1. CASE g = bidder
    <3>1. wallets'[g] = Reserve(Released(a)[g], amount) /\ taken(g) = amount
      BY <1>8, <1>10, <2>1
    <3>2. /\ Released(a)[g] \in Row
          /\ Released(a)[g].reserved = wallets[g].reserved - Freed(x, g)
      BY <1>9
    <3> HIDE DEF a, taken
    <3> QED  BY <1>2, <3>1, <3>2 DEF Reserve, Row
  <2>2. CASE g # bidder
    <3>1. wallets'[g] = Released(a)[g] /\ taken(g) = 0
      BY <1>8, <1>10, <2>2
    <3>2. /\ Released(a)[g] \in Row
          /\ Released(a)[g].reserved = wallets[g].reserved - Freed(x, g)
      BY <1>9
    <3> HIDE DEF a, taken
    <3> QED  BY <3>1, <3>2 DEF Row
  <2> QED  BY <2>1, <2>2
<1>12. DOMAIN wallets' = DOMAIN wallets /\ wallets' \in [DOMAIN wallets -> Row]
  <2>1. wallets' = [g \in DOMAIN wallets |-> wallets'[g]]
    BY <1>8, <1>10
  <2> QED  BY <1>11, <2>1
<1>13. RowsTyped'
  BY <1>2, <1>4, <1>12 DEF SInv, RowsTyped
<1>14. LeadersHaveRows'
  <2> SUFFICES ASSUME NEW y \in DOMAIN auctions', auctions'[y].bids # <<>>
               PROVE  LastBid(y)'.guild \in DOMAIN wallets'
    BY DEF LeadersHaveRows
  <2>1. CASE y = x
    BY <1>2, <1>4, <1>12, <2>1
  <2>2. CASE y # x
    <3>1. y \in DOMAIN auctions /\ auctions'[y] = auctions[y]
      BY <1>4, <2>2
    <3>2. LastBid(y)' = LastBid(y)
      BY <3>1 DEF LastBid
    <3> QED  BY <1>12, <3>1, <3>2 DEF SInv, LeadersHaveRows
  <2> QED  BY <2>1, <2>2
<1>15. ReservationsSurvive'
  <2> SUFFICES ASSUME NEW g \in DOMAIN wallets
               PROVE  wallets'[g].reserved = GoldIn(Leads', LedBy(g)')
    BY <1>12 DEF ReservationsSurvive
  <2>1. g \in Registered /\ wallets[g].reserved = GoldIn(Leads, LedBy(g))
    BY DEF SInv, RowsTyped, ReservationsSurvive
  <2>2. wallets'[g].reserved = wallets[g].reserved - Freed(x, g) + taken(g)
    BY <1>11
  <2>3. GoldIn(Leads', LedBy(g)') = GoldIn(Leads, LedBy(g)) - Freed(x, g) + taken(g)
    BY <1>4, <2>1
  <2> HIDE DEF taken
  <2> QED  BY <2>1, <2>2, <2>3
<1> QED  BY <1>4, <1>13, <1>14, <1>15 DEF SInv

(* A withdrawn bid was not leading.                                        *)
LEMMA CancelSurvives ==
    ASSUME SInv, NEW i, NEW b, NEW guild, CancelBidOnItem(i, b, guild)
    PROVE  SInv'
<1>1. PICK x \in ActiveAuctions(i) :
        /\ CanCancelBid(auctions[x], b, guild)
        /\ auctions' = [auctions EXCEPT ![x] = CancelBid(auctions[x], b)]
  BY DEF CancelBidOnItem
<1> DEFINE a == auctions[x]
           c == CancelBid(a, b)
<1>2. /\ x \in DOMAIN auctions /\ a \in Auction /\ Stands(a.bids)
      /\ UNCHANGED <<items, wallets, now>>
  BY <1>1 DEF SInv, ActiveAuctions, AuctionRows, LeaderStands, CancelBidOnItem
<1>3. /\ c \in Auction /\ c.status = a.status
      /\ Len(c.bids) = Len(a.bids) /\ Stands(c.bids)
      /\ c.bids[Len(c.bids)] = a.bids[Len(a.bids)]
  BY <1>1, <1>2, CancelBidStands
<1>4. c.bids = <<>> <=> a.bids = <<>>
  <2>1. c.bids \in Seq(Bid) /\ a.bids \in Seq(Bid)
    BY <1>2, <1>3 DEF Auction
  <2> QED  BY <1>3, <2>1
<1>5. auctions' = [auctions EXCEPT ![x] = c]
  BY <1>1
<1> HIDE DEF c
<1>6. /\ DOMAIN auctions' = DOMAIN auctions
      /\ auctions' \in [DOMAIN auctions' -> Auction]
      /\ auctions'[x] = c
      /\ \A y \in DOMAIN auctions : y # x => auctions'[y] = auctions[y]
  BY <1>2, <1>3, <1>5 DEF SInv, AuctionRows
<1>7. AuctionRows' /\ FinitelyManyAuctions'
  BY <1>3, <1>6 DEF SInv, AuctionRows, LeaderStands, FinitelyManyAuctions
<1>8. RowsTyped'
  BY <1>2, <1>6 DEF SInv, RowsTyped
<1>9. \A y \in DOMAIN auctions : /\ auctions'[y].status = auctions[y].status
                                 /\ auctions'[y].bids = <<>> <=> auctions[y].bids = <<>>
                                 /\ LastBid(y)' = LastBid(y)
  BY <1>3, <1>4, <1>6 DEF LastBid
<1>10. /\ \A g : GoldIn(Leads', LedBy(g)') = GoldIn(Leads, LedBy(g))
       /\ LeadersHaveRows'
  BY <1>2, <1>6, <1>7, <1>9, SameLeads DEF SInv
<1>11. ReservationsSurvive'
  BY <1>2, <1>10 DEF SInv, ReservationsSurvive
<1> QED  BY <1>7, <1>8, <1>10, <1>11 DEF SInv

(* Settlement takes out of each row what the closing auctions reserve.     *)
LEMMA SettleSurvives ==
    ASSUME SInv, NEW t \in Readings, SettleDueAuctions(t)
    PROVE  SInv'
<1> DEFINE D == DueAuctions(t)
           paid(g) == GoldIn(Leads, LedBy(g) \cap D)
           earned(g) == GoldIn(Leads, SoldBy(g, D))
<1>1. CASE ~CanSettleAll(D)
  <2>1. UNCHANGED <<items, wallets, auctions, ledger, now>>
    BY <1>1 DEF SettleDueAuctions, vars
  <2>2. RowsTyped'
    BY <2>1 DEF SInv, RowsTyped
  <2> QED  BY <2>1, <2>2, BidsUntouched
<1>2. CASE CanSettleAll(D)
  <2>1. /\ Closing(D)
        /\ items' = SettledItems(D)
        /\ wallets' = SettledWallets(D)
        /\ UNCHANGED now
    BY <1>2 DEF SettleDueAuctions, Closing
  <2>2. D \in SUBSET DOMAIN auctions
    BY DEF DueAuctions
  <2>3. \A g : LedBy(g) \cap D \in SUBSET DOMAIN auctions /\ SoldBy(g, D) \in SUBSET DOMAIN auctions
    BY <2>2 DEF SoldBy, Won
  <2>4. ASSUME NEW g \in DOMAIN wallets
        PROVE  paid(g) \in Nat /\ paid(g) <= wallets[g].reserved /\ earned(g) \in Nat
    <3>1. paid(g) <= wallets[g].reserved
      BY <1>2 DEF CanSettleAll
    <3> QED  BY <2>3, <3>1, LeadsAddUp DEF SInv
  <2>5. ASSUME NEW g \in DOMAIN wallets
        PROVE  wallets'[g] \in Row /\ wallets'[g].reserved = wallets[g].reserved - paid(g)
    <3>1. wallets[g].total \in Int /\ wallets[g].reserved \in Nat
      BY DEF SInv, RowsTyped, Row
    <3>2. wallets'[g] = [total    |-> wallets[g].total - paid(g) + earned(g),
                         reserved |-> wallets[g].reserved - paid(g)]
      BY <2>1 DEF SettledWallets
    <3>3. paid(g) \in Nat /\ paid(g) <= wallets[g].reserved /\ earned(g) \in Nat
      BY <2>4
    <3> HIDE DEF paid, earned
    <3> QED  BY <3>1, <3>2, <3>3 DEF Row
  <2>6. DOMAIN wallets' = DOMAIN wallets /\ wallets' \in [DOMAIN wallets -> Row]
    <3>1. wallets' = [g \in DOMAIN wallets |-> wallets'[g]]
      BY <2>1 DEF SettledWallets
    <3> QED  BY <2>5, <3>1
  <2>7. DOMAIN items' = DOMAIN items /\ items' \in [DOMAIN items' -> Item]
    <3>1. \A i \in DOMAIN items : items[i] \in Item
      BY DEF SInv, RowsTyped
    <3>2. \A i \in DOMAIN items :
            /\ [items[i] EXCEPT !.status = "sold_out"] \in Item
            /\ [items[i] EXCEPT !.status = "available"] \in Item
      BY <3>1 DEF Item, ItemStatuses
    <3> QED  BY <2>1, <3>1, <3>2 DEF SettledItems
  <2> HIDE DEF D
  <2>8. /\ AuctionRows' /\ FinitelyManyAuctions'
        /\ DOMAIN auctions' = DOMAIN auctions
        /\ \A x \in DOMAIN auctions : auctions'[x].bids = auctions[x].bids
        /\ \A g : GoldIn(Leads', LedBy(g)') = GoldIn(Leads, LedBy(g)) - paid(g)
    BY <2>1, <2>2, SettleShiftsLeads DEF SInv
  <2>9. RowsTyped'
    BY <2>1, <2>6, <2>7, <2>8 DEF SInv, RowsTyped
  <2>10. LeadersHaveRows'
    BY <2>6, <2>8 DEF SInv, LeadersHaveRows, LastBid
  <2>11. ReservationsSurvive'
    BY <2>5, <2>6, <2>8 DEF SInv, ReservationsSurvive
  <2> QED  BY <2>8, <2>9, <2>10, <2>11 DEF SInv
<1> QED  BY <1>1, <1>2


(* A statement of seed gives a guild its row, or resets its total: a guild *)
(* without a row leads nowhere, and a row keeps its reservation.           *)
LEMMA SeedGuildSurvives ==
    ASSUME SInv, SeedGuild, left \in Seq(Registered)
    PROVE  SInv'
<1>1. UNCHANGED <<items, auctions, ledger, now>>
  BY DEF SeedGuild
<1>2. CASE UNCHANGED wallets
  <2>1. RowsTyped'
    BY <1>1, <1>2 DEF SInv, RowsTyped
  <2> QED  BY <1>1, <1>2, <2>1, BidsUntouched
<1>3. CASE wallets' = Put(wallets, Head(left), Upsert(Head(left)))
  <2> DEFINE h == Head(left)
             u == Upsert(h)
  <2>1. h \in Registered
    BY DEF SeedGuild
  <2> HIDE DEF h
  <2>2. u \in Row /\ u.reserved = IF h \in DOMAIN wallets THEN wallets[h].reserved ELSE 0
    <3>1. SeedGold[h] \in Int
      BY <2>1, GuildsAssumption
    <3>2. h \in DOMAIN wallets => wallets[h].reserved \in Nat
      BY DEF SInv, RowsTyped, Row
    <3> QED  BY <3>1, <3>2 DEF Upsert, Row
  <2> HIDE DEF u
  <2>3. wallets' = Put(wallets, h, u)
    BY <1>3 DEF h, u
  <2>4. /\ DOMAIN wallets' = DOMAIN wallets \cup {h}
        /\ wallets'[h] = u
        /\ \A g \in DOMAIN wallets : g # h => wallets'[g] = wallets[g]
        /\ wallets' \in [DOMAIN wallets' -> Row]
    BY <2>2, <2>3 DEF Put, SInv, RowsTyped
  <2>5. RowsTyped'
    BY <1>1, <2>1, <2>4 DEF SInv, RowsTyped
  <2>6. AuctionRows' /\ FinitelyManyAuctions' /\ LeadersHaveRows'
    BY <1>1, <2>4 DEF SInv, AuctionRows, FinitelyManyAuctions, LeaderStands,
                      LeadersHaveRows, LastBid
  <2>7. h \notin DOMAIN wallets => GoldIn(Leads, LedBy(h)) = 0
    <3> SUFFICES ASSUME h \notin DOMAIN wallets PROVE GoldIn(Leads, LedBy(h)) = 0
      OBVIOUS
    <3>1. LedBy(h) = {}
      BY RowsRead DEF SInv, LeadsAreLast, LeadersHaveRows
    <3> QED  BY <3>1, GoldInEmpty
  <2>8. ASSUME NEW g \in DOMAIN wallets'
        PROVE  wallets'[g].reserved = GoldIn(Leads, LedBy(g))
    BY <2>2, <2>4, <2>7 DEF SInv, ReservationsSurvive
  <2>9. ReservationsSurvive'
    BY <1>1, <2>8 DEF ReservationsSurvive, Leads, LedBy
  <2> QED  BY <2>5, <2>6, <2>9 DEF SInv
<1> QED  BY <1>2, <1>3 DEF SeedGuild

(* Every unit of work the server commits keeps the invariant.              *)
LEMMA UnitsSurvive ==
    ASSUME SInv, [Next]_vars
    PROVE  SInv'
<1>1. ASSUME NEW in \in Listings, NEW i \in ItemIDs, NEW t \in Readings,
             CreateItem(in, i, t)
      PROVE  SInv'
  BY <1>1, CreateItemSurvives, RequestsAssumption DEF Readings, ListingInput
<1>2. ASSUME NEW i \in ItemIDs, NEW buyer \in Guilds, NEW qty \in Quantities,
             NEW t \in Readings, Purchase(i, buyer, qty, t)
      PROVE  SInv'
  BY <1>2, PurchaseSurvives
<1>3. ASSUME NEW i \in ItemIDs, NEW bidder \in Guilds, NEW amount \in Amounts,
             NEW t \in Readings, BidOnItem(i, bidder, amount, t)
      PROVE  SInv'
  BY <1>3, BidSurvives
<1>4. ASSUME NEW i, NEW b, NEW guild, CancelBidOnItem(i, b, guild)
      PROVE  SInv'
  BY <1>4, CancelSurvives
<1>5. ASSUME NEW t \in Readings, SettleDueAuctions(t)
      PROVE  SInv'
  BY <1>5, SettleSurvives
<1>6. ASSUME UNCHANGED <<items, wallets, auctions, ledger>>, now' \in 0..MaxTime
      PROVE  SInv'
  <2>1. RowsTyped'
    BY <1>6 DEF SInv, RowsTyped
  <2> QED  BY <1>6, <2>1, BidsUntouched
<1>7. CASE Tick
  BY <1>6, <1>7, ClockAssumption DEF Tick, SInv, RowsTyped
<1>8. CASE UNCHANGED vars
  BY <1>6, <1>8 DEF vars, SInv, RowsTyped
<1> QED  BY <1>1, <1>2, <1>3, <1>4, <1>5, <1>7, <1>8 DEF Next, RunSettlementWorker

-----------------------------------------------------------------------------
(* The life of the process.                                                *)

(* What a loop of seed has left are guilds, or starters.                   *)
LeftTyped ==
    /\ phase = "guilds" => left \in Seq(Registered)
    /\ phase = "items" => left \in Seq(ListingInput)

(* The tables are empty before the first start.                            *)
LEMMA ServerInitKeeps ==
    ASSUME ServerInit
    PROVE  SInv /\ LeftTyped
<1>1. DOMAIN items = {} /\ DOMAIN auctions = {} /\ DOMAIN wallets = {} /\ now = 0
      /\ phase = "down"
  BY DEF ServerInit
<1>2. RowsTyped
  BY <1>1, ClockAssumption DEF ServerInit, RowsTyped
<1>3. AuctionRows /\ LeadersHaveRows /\ ReservationsSurvive
  BY <1>1 DEF ServerInit, AuctionRows, LeaderStands, LeadersHaveRows, ReservationsSurvive
<1>4. FinitelyManyAuctions
  BY <1>1, FS_EmptySet DEF FinitelyManyAuctions
<1> QED  BY <1>1, <1>2, <1>3, <1>4 DEF SInv, LeftTyped

(* Starting, seeding, serving, stopping and waiting keep the invariant.    *)
LEMMA ServerNextKeeps ==
    ASSUME SInv, LeftTyped, [ServerNext]_allVars
    PROVE  SInv' /\ LeftTyped'
<1>1. UNCHANGED vars => SInv'
  BY UnitsSurvive
<1>2. CASE Boot
  BY <1>1, <1>2, ServerAssumption DEF Boot, LeftTyped
<1>3. CASE SeedGuild
  <2>1. left \in Seq(Registered) /\ left # <<>>
    BY <1>3 DEF SeedGuild, LeftTyped
  <2>2. left' \in Seq(Registered) /\ phase' = "guilds"
    BY <1>3, <2>1 DEF SeedGuild
  <2> QED  BY <1>3, <2>1, <2>2, SeedGuildSurvives DEF LeftTyped
<1>4. CASE SeedGuildsDone
  BY <1>1, <1>4, ServerAssumption DEF SeedGuildsDone, LeftTyped, ListingInput
<1>5. CASE SeedItem
  <2>1. left \in Seq(ListingInput) /\ left # <<>>
    BY <1>5 DEF SeedItem, LeftTyped
  <2>2. Head(left) \in ListingInput /\ left' \in Seq(ListingInput) /\ phase' = "items"
    BY <1>5, <2>1 DEF SeedItem
  <2>3. ASSUME NEW i \in ItemIDs, CreateItem(Head(left), i, now) PROVE SInv'
    <3>1. now \in 0..now
      BY DEF SInv, RowsTyped
    <3> QED  BY <2>2, <2>3, <3>1, CreateItemSurvives
  <2> QED  BY <1>1, <1>5, <2>2, <2>3 DEF SeedItem, LeftTyped
<1>6. CASE SeedItemsDone
  BY <1>1, <1>6 DEF SeedItemsDone, LeftTyped
<1>7. CASE Serve
  BY <1>7, UnitsSurvive DEF Serve, serverVars, LeftTyped
<1>8. CASE Stop
  BY <1>1, <1>8 DEF Stop, LeftTyped
<1>9. CASE TimePasses
  BY <1>9, UnitsSurvive DEF TimePasses, Next, serverVars, LeftTyped
<1>10. CASE UNCHANGED allVars
  BY <1>1, <1>10 DEF allVars, serverVars, LeftTyped
<1> QED  BY <1>2, <1>3, <1>4, <1>5, <1>6, <1>7, <1>8, <1>9, <1>10 DEF ServerNext

(* The invariant holds through any number of starts and stops.             *)
THEOREM ServerInvariant == ServerSpec => [](SInv /\ LeftTyped)
<1>1. ServerInit => SInv /\ LeftTyped
  BY ServerInitKeeps
<1>2. (SInv /\ LeftTyped) /\ [ServerNext]_allVars => (SInv /\ LeftTyped)'
  BY ServerNextKeeps
<1> QED  BY <1>1, <1>2, PTL DEF ServerSpec

(* Across restarts and half-finished seeding, what a guild has reserved is *)
(* what its open auctions will take (store.go:50), for any guilds,         *)
(* starters, listings and bids.                                            *)
THEOREM ReservationsOutliveRestarts == ServerSpec => []ReservationsSurvive
<1>1. SInv /\ LeftTyped => ReservationsSurvive
  BY DEF SInv
<1> QED  BY <1>1, ServerInvariant, PTL


-----------------------------------------------------------------------------
(* Starters are listed once.                                               *)

SameGoods(a, b) == a.seller = b.seller /\ a.rarity = b.rarity

(* Starters can be told apart by seller and rarity, from one another and   *)
(* from what guilds list.                                                  *)
StartersApart ==
    \A n \in DOMAIN Starters :
        /\ \A m \in DOMAIN Starters : SameGoods(Starters[m], Starters[n]) => m = n
        /\ \A in \in Listings : ~SameGoods(in, Starters[n])

(* The listings of starter n.                                              *)
Copies(n) == {i \in DOMAIN items : SameGoods(items[i], Starters[n])}

(* No starter has two; and while seed lists them, it has the last ones of  *)
(* them left, and none of those is listed.                                 *)
SeedOnce ==
    /\ \A n \in DOMAIN Starters : \A i, j \in Copies(n) : i = j
    /\ phase = "items" =>
         /\ Len(left) <= Len(Starters)
         /\ \A k \in 1..Len(left) : left[k] = Starters[Len(Starters) - Len(left) + k]
         /\ \A n \in DOMAIN Starters : n > Len(Starters) - Len(left) => Copies(n) = {}

(* No unit of work changes what an item is, and none but CreateItem adds   *)
(* one.                                                                    *)
LEMMA GoodsStay ==
    ASSUME SInv, [Next]_vars
    PROVE  \/ /\ DOMAIN items' = DOMAIN items
              /\ \A i \in DOMAIN items : SameGoods(items'[i], items[i])
           \/ \E in \in Listings, i \in ItemIDs, t \in Readings : CreateItem(in, i, t)
<1> DEFINE Stay == /\ DOMAIN items' = DOMAIN items
                   /\ \A i \in DOMAIN items : SameGoods(items'[i], items[i])
<1>0. UNCHANGED items => Stay
  BY DEF SameGoods
<1>1. \A i \in DOMAIN items : items[i] \in Item
  BY DEF SInv, RowsTyped
<1>2. ASSUME NEW i \in ItemIDs, NEW buyer \in Guilds, NEW qty \in Quantities,
             NEW t \in Readings, Purchase(i, buyer, qty, t)
      PROVE  Stay
  <2>1. i \in DOMAIN items /\ items' = [items EXCEPT ![i] = SellTo(items[i], qty)]
    BY <1>2 DEF Purchase
  <2>2. SameGoods(SellTo(items[i], qty), items[i])
    BY <1>1, <2>1 DEF SellTo, SameGoods, Item
  <2>3. \A j \in DOMAIN items : SameGoods(items[j], items[j])
    BY DEF SameGoods
  <2> HIDE DEF SameGoods
  <2> QED  BY <2>1, <2>2, <2>3
<1>3. ASSUME NEW t \in Readings, SettleDueAuctions(t)
      PROVE  Stay
  <2>1. CASE UNCHANGED vars
    BY <1>0, <2>1 DEF vars
  <2>2. CASE items' = SettledItems(DueAuctions(t))
    <3>1. \A i \in DOMAIN items :
            /\ SameGoods([items[i] EXCEPT !.status = "sold_out"], items[i])
            /\ SameGoods([items[i] EXCEPT !.status = "available"], items[i])
            /\ SameGoods(items[i], items[i])
      BY <1>1 DEF SameGoods, Item
    <3> QED  BY <2>2, <3>1 DEF SettledItems
  <2> QED  BY <1>3, <2>1, <2>2 DEF SettleDueAuctions
<1>4. ASSUME NEW i, NEW b, NEW c, NEW t, BidOnItem(i, b, c, t) PROVE Stay
  BY <1>0, <1>4 DEF BidOnItem
<1>5. ASSUME NEW i, NEW b, NEW guild, CancelBidOnItem(i, b, guild) PROVE Stay
  BY <1>0, <1>5 DEF CancelBidOnItem
<1>6. Tick \/ UNCHANGED vars => Stay
  BY <1>0 DEF Tick, vars
<1> HIDE DEF Stay
<1>7. Stay \/ \E in \in Listings, i \in ItemIDs, t \in Readings : CreateItem(in, i, t)
  BY <1>2, <1>3, <1>4, <1>5, <1>6 DEF Next, RunSettlementWorker
<1> QED  BY <1>7 DEF Stay

(* What CreateItem lists.                                                  *)
LEMMA CreateItemLists ==
    ASSUME SInv, NEW in \in ListingInput, NEW i, NEW t, CreateItem(in, i, t)
    PROVE  /\ i \notin DOMAIN items
           /\ DOMAIN items' = DOMAIN items \cup {i}
           /\ SameGoods(items'[i], in)
           /\ \A j \in DOMAIN items : items'[j] = items[j]
<1>1. /\ SameGoods(NewItem(in), in)
      /\ SameGoods([NewItem(in) EXCEPT !.status = "in_auction"], in)
  BY DEF NewItem, SameGoods
<1>2. PICK new : SameGoods(new, in) /\ items' = Put(items, i, new)
  BY <1>1 DEF CreateItem
<1> QED  BY <1>2 DEF CreateItem, Put

(* A guild's own listing is no copy of a starter, so the market leaves the *)
(* copies as they are.                                                     *)
LEMMA CopiesStay ==
    ASSUME StartersApart, SInv, [Next]_vars
    PROVE  \A n \in DOMAIN Starters : Copies(n)' = Copies(n)
<1>1. ASSUME DOMAIN items' = DOMAIN items,
             \A i \in DOMAIN items : SameGoods(items'[i], items[i])
      PROVE  \A n \in DOMAIN Starters : Copies(n)' = Copies(n)
  BY <1>1 DEF Copies, SameGoods
<1>2. ASSUME NEW in \in Listings, NEW i \in ItemIDs, NEW t \in Readings,
             CreateItem(in, i, t)
      PROVE  \A n \in DOMAIN Starters : Copies(n)' = Copies(n)
  <2>1. /\ DOMAIN items' = DOMAIN items \cup {i} /\ i \notin DOMAIN items
        /\ SameGoods(items'[i], in)
        /\ \A j \in DOMAIN items : items'[j] = items[j]
    BY <1>2, CreateItemLists, RequestsAssumption DEF ListingInput
  <2>2. \A n \in DOMAIN Starters : ~SameGoods(items'[i], Starters[n])
    BY <2>1 DEF StartersApart, SameGoods
  <2> HIDE DEF SameGoods
  <2> QED  BY <2>1, <2>2 DEF Copies
<1> QED  BY <1>1, <1>2, GoodsStay

(* Every step of the process keeps SeedOnce.                               *)
LEMMA ServerNextSeedsOnce ==
    ASSUME StartersApart, SInv, LeftTyped, SeedOnce, [ServerNext]_allVars
    PROVE  SeedOnce'
<1> DEFINE N == Len(Starters)
<1>0. Starters \in Seq(ListingInput) /\ N \in Nat /\ DOMAIN Starters = 1..N
  BY ServerAssumption DEF ListingInput
<1>1. ASSUME [Next]_vars, phase' # "items" \/ UNCHANGED <<phase, left>>
      PROVE  SeedOnce'
  BY <1>1, CopiesStay DEF SeedOnce
<1>2. ASSUME UNCHANGED vars, phase' # "items" \/ UNCHANGED <<phase, left>>
      PROVE  SeedOnce'
  BY <1>1, <1>2
<1>3. CASE SeedGuild
  BY <1>3 DEF SeedGuild, SeedOnce, Copies
<1>4. CASE SeedGuildsDone
  <2>1. CASE phase' = "up"
    BY <1>2, <1>4, <2>1 DEF SeedGuildsDone
  <2>2. CASE FirstBoot /\ phase' = "items" /\ left' = Starters
    <3>1. \A n : Copies(n)' = {}
      BY <1>4, <2>2 DEF SeedGuildsDone, FirstBoot, Copies, vars
    <3> QED  BY <1>0, <2>2, <3>1 DEF SeedOnce
  <2> QED  BY <1>4, <2>1, <2>2 DEF SeedGuildsDone
<1>5. CASE SeedItem
  <2> DEFINE L == Len(left)
  <2>1. left \in Seq(ListingInput) /\ left # <<>> /\ phase = "items" /\ phase' = "items"
        /\ left' = Tail(left)
    BY <1>5 DEF SeedItem, LeftTyped
  <2>2. L \in Nat /\ L >= 1 /\ Len(left') = L - 1 /\ \A k \in 1..(L - 1) : left'[k] = left[k + 1]
    BY <2>1
  <2>3. /\ L <= N
        /\ \A k \in 1..L : left[k] = Starters[N - L + k]
        /\ \A n \in DOMAIN Starters : n > N - L => Copies(n) = {}
    BY <2>1 DEF SeedOnce
  <2>4. PICK h \in DOMAIN Starters :
          h = N - L + 1 /\ Head(left) = Starters[h] /\ Head(left) \in ListingInput
    BY <1>0, <2>1, <2>2, <2>3
  <2>5. /\ Len(left') <= N
        /\ \A k \in 1..Len(left') : left'[k] = Starters[N - Len(left') + k]
    <3> SUFFICES ASSUME NEW k \in 1..(L - 1) PROVE left[k + 1] = Starters[N - (L - 1) + k]
      BY <1>0, <2>2, <2>3
    <3>1. k + 1 \in 1..L /\ N - L + (k + 1) = N - (L - 1) + k
      BY <1>0, <2>2
    <3> QED  BY <2>3, <3>1
  <2>6. \A n \in DOMAIN Starters : n > N - Len(left') => n > N - L /\ n # h
    BY <1>0, <2>2, <2>4
  <2>7. CASE UNCHANGED vars
    <3>1. \A n : Copies(n)' = Copies(n)
      BY <2>7 DEF vars, Copies
    <3> QED  BY <2>3, <2>5, <2>6, <3>1 DEF SeedOnce
  <2>8. ASSUME NEW i \in ItemIDs, CreateItem(Head(left), i, now)
        PROVE  SeedOnce'
    <3>1. /\ DOMAIN items' = DOMAIN items \cup {i} /\ i \notin DOMAIN items
          /\ SameGoods(items'[i], Starters[h])
          /\ \A j \in DOMAIN items : items'[j] = items[j]
      BY <2>4, <2>8, CreateItemLists
    <3>2. \A n \in DOMAIN Starters : SameGoods(items'[i], Starters[n]) => n = h
      BY <2>4, <3>1 DEF StartersApart, SameGoods
    <3> HIDE DEF SameGoods
    <3>3. \A n \in DOMAIN Starters : n # h => Copies(n)' = Copies(n)
      BY <3>1, <3>2 DEF Copies
    <3>4. Copies(h)' = Copies(h) \cup {i}
      BY <3>1 DEF Copies
    <3>5. Copies(h) = {}
      <4>1. h > N - L
        BY <1>0, <2>2, <2>4
      <4> QED  BY <2>3, <4>1
    <3>6. \A n \in DOMAIN Starters : \A j, k \in Copies(n)' : j = k
      BY <2>4, <3>3, <3>4, <3>5 DEF SeedOnce
    <3> QED  BY <2>3, <2>5, <2>6, <3>3, <3>6 DEF SeedOnce
  <2> QED  BY <1>5, <2>7, <2>8 DEF SeedItem
<1>6. CASE Serve
  BY <1>1, <1>6 DEF Serve, serverVars
<1>7. CASE TimePasses
  BY <1>1, <1>7 DEF TimePasses, serverVars, Next
<1>8. CASE Boot \/ SeedItemsDone \/ Stop \/ UNCHANGED allVars
  BY <1>2, <1>8 DEF Boot, SeedItemsDone, Stop, allVars, serverVars
<1> QED  BY <1>3, <1>4, <1>5, <1>6, <1>7, <1>8 DEF ServerNext

(* However often the server is started, and wherever seed is cut off or    *)
(* refused by the database, no starter is listed twice (main.go:98): the   *)
(* starters are listed by a start that found no item, one after the other. *)
THEOREM StartersListedOnce ==
    ASSUME StartersApart
    PROVE  ServerSpec => []StartersOnce
<1>1. ServerInit => SeedOnce
  BY DEF ServerInit, SeedOnce, Copies
<1>2. SeedOnce /\ (SInv /\ LeftTyped) /\ [ServerNext]_allVars => SeedOnce'
  BY ServerNextSeedsOnce
<1>3. SeedOnce => StartersOnce
  <2> SUFFICES ASSUME SeedOnce, NEW n \in DOMAIN Starters
               PROVE  Cardinality(Copies(n)) <= 1
    BY DEF StartersOnce, Copies, SameGoods
  <2>1. CASE Copies(n) = {}
    BY <2>1, FS_EmptySet
  <2>2. CASE Copies(n) # {}
    <3>1. PICK i : i \in Copies(n)
      BY <2>2
    <3>2. \A j \in Copies(n) : j = i
      BY <3>1 DEF SeedOnce
    <3>3. Copies(n) = {i}
      BY <3>1, <3>2, Zenon
    <3>4. Cardinality({i}) = 1
      BY FS_Singleton
    <3> QED  BY <3>3, <3>4
  <2> QED  BY <2>1, <2>2
<1> QED  BY <1>1, <1>2, <1>3, ServerInvariant, PTL DEF ServerSpec
=============================================================================
