---------------------------- MODULE EscrowProofs ----------------------------
(***************************************************************************)
(* The market implements Escrow: every unit of work is a step of it, or    *)
(* leaves purses and lots as they are.                                     *)
(***************************************************************************)
EXTENDS MarketEscrow, LedgerProofs

-----------------------------------------------------------------------------
(* The refinement mapping.                                                 *)

Purse == [g \in Registered |-> Available(wallets[g])]

LotTable == [x \in AuctionIDs |-> LotOf(x)]

(* A lot in terms of the auction's last bid.                               *)
LotRow(a, lead) ==
    [phase   |-> IF a.status = "active" THEN "open" ELSE "closed",
     sellers |-> {a.seller},
     leader  |-> IF a.bids = <<>> THEN {} ELSE {a.bids[Len(a.bids)].guild},
     price   |-> IF a.status = "active" THEN lead ELSE 0]

LotsAreRows ==
    /\ \A x \in DOMAIN auctions : LotOf(x) = LotRow(auctions[x], Leads[x])
    /\ \A x : x \notin DOMAIN auctions =>
         LotOf(x) = [phase |-> "unlisted", sellers |-> {}, leader |-> {}, price |-> 0]

(* The lots read the last bids.                                            *)
LEMMA LotsRead == IInv => LotsAreRows
<1> SUFFICES ASSUME IInv PROVE LotsAreRows
  OBVIOUS
<1>1. LeadsAreLast
  BY LeadsRead DEF IInv
<1>2. ASSUME NEW x \in DOMAIN auctions PROVE LotOf(x) = LotRow(auctions[x], Leads[x])
  <2>1. HighestBid(auctions[x]) = 0 <=> auctions[x].bids = <<>>
    BY <1>1 DEF LeadsAreLast
  <2>2. auctions[x].bids # <<>> => Leader(auctions[x]) = auctions[x].bids[Len(auctions[x].bids)]
    BY <1>1 DEF LeadsAreLast, LastBid
  <2> QED  BY <2>1, <2>2 DEF LotOf, LotRow
<1> QED  BY <1>2 DEF LotsAreRows, LotOf

(* The same of the next state.                                             *)
LEMMA LotsReadNext == IInv' => LotsAreRows'
BY LotsRead, PTL

(* The market opens as an escrow.                                          *)
LEMMA EscrowInit ==
    ASSUME Init
    PROVE  E!Init
<1>1. Purse = SeedGold
  <2>1. \A g \in Registered : Available(wallets[g]) = SeedGold[g]
    BY GuildsAssumption DEF Init, Available
  <2> QED  BY <2>1, GuildsAssumption DEF Purse
<1>2. LotTable = [x \in AuctionIDs |->
                    [phase |-> "unlisted", sellers |-> {}, leader |-> {}, price |-> 0]]
  BY DEF Init, LotTable, LotOf
<1> QED  BY <1>1, <1>2 DEF E!Init, E!Unlisted, Purse, LotTable

(* A new auction opens a lot.                                              *)
LEMMA CreateItemOpens ==
    ASSUME IInv, IInv', NEW in \in Listings, NEW i \in ItemIDs, NEW t \in Readings,
           CreateItem(in, i, t), AuctionOnly(in.rarity)
    PROVE  E!Next
<1>1. PICK x \in AuctionIDs \ DOMAIN auctions : auctions' = Put(auctions, x, NewAuction(i, in, t))
  BY DEF CreateItem
<1>2. UNCHANGED wallets /\ in.seller \in Guilds
  BY RequestsAssumption DEF CreateItem
<1>3. LotsAreRows /\ LotsAreRows' /\ LeadsAreLast /\ LeadsAreLast'
  BY LotsRead, LotsReadNext, LeadsRead, LeadsReadNext DEF IInv
<1>4. /\ DOMAIN auctions' = DOMAIN auctions \cup {x} /\ auctions'[x] = NewAuction(i, in, t)
      /\ \A y \in DOMAIN auctions : auctions'[y] = auctions[y]
  BY <1>1 DEF Put
<1>5. \A y \in DOMAIN auctions : Leads'[y] = Leads[y]
  BY <1>4 DEF Leads
<1>6. Leads'[x] = 0
  BY <1>3, <1>4 DEF LeadsAreLast, NewAuction
<1> DEFINE opened == [phase |-> "open", sellers |-> {in.seller}, leader |-> {}, price |-> 0]
<1>7. LotOf(x)' = opened
  <2>1. LotOf(x)' = LotRow(NewAuction(i, in, t), 0)
    BY <1>3, <1>4, <1>6 DEF LotsAreRows
  <2> QED  BY <2>1 DEF LotRow, NewAuction
<1>8. ASSUME NEW y \in AuctionIDs, y # x PROVE LotOf(y)' = LotOf(y)
  <2>1. CASE y \in DOMAIN auctions
    BY <1>3, <1>4, <1>5, <2>1 DEF LotsAreRows
  <2>2. CASE y \notin DOMAIN auctions
    BY <1>3, <1>4, <1>8, <2>2 DEF LotsAreRows
  <2> QED  BY <2>1, <2>2
<1>9. LotOf(x).phase = "unlisted"
  BY <1>3 DEF LotsAreRows
<1>10. LotTable' = [LotTable EXCEPT ![x] = opened]
  BY <1>7, <1>8 DEF LotTable
<1>11. LotTable[x].phase = "unlisted"
  BY <1>9 DEF LotTable
<1>12. Purse' = Purse
  BY <1>2 DEF Purse
<1>13. E!Open(x, in.seller)
  BY <1>10, <1>11, <1>12 DEF E!Open, Purse, LotTable
<1> QED  BY <1>2, <1>13 DEF E!Next

(* A purchase is a trade from purse to purse.                              *)
LEMMA PurchaseTrades ==
    ASSUME IInv, NEW i \in ItemIDs, NEW buyer \in Guilds, NEW qty \in Quantities,
           NEW t \in Readings, Purchase(i, buyer, qty, t)
    PROVE  E!Next
<1> DEFINE seller == items[i].seller
           cost == Cost(items[i], qty)
<1>1. /\ buyer \in Registered /\ seller \in Registered /\ buyer # seller
      /\ cost \in Nat /\ cost > 0 /\ cost <= wallets[buyer].total - wallets[buyer].reserved
      /\ \A g \in Registered :
           /\ wallets'[g].reserved = wallets[g].reserved
           /\ wallets'[g].total = wallets[g].total + (IF g = seller THEN cost ELSE 0)
                                                   - (IF g = buyer THEN cost ELSE 0)
  BY PurchaseMoves
<1>2. \A g \in Registered : wallets[g].total \in Nat /\ wallets[g].reserved \in Nat
  BY DEF IInv, TypeOK, Wallet
<1>3. UNCHANGED auctions
  BY DEF Purchase
<1> HIDE DEF cost, seller
<1>4. Purse[buyer] = wallets[buyer].total - wallets[buyer].reserved
  BY <1>1 DEF Purse, Available
<1>5. cost \in 1..Purse[buyer]
  BY <1>1, <1>2, <1>4
<1>6. Purse' = [Purse EXCEPT ![buyer] = @ - cost, ![seller] = @ + cost]
  <2>1. ASSUME NEW g \in Registered
        PROVE  Available(wallets'[g]) = IF g = seller THEN Available(wallets[g]) + cost
                                        ELSE IF g = buyer THEN Available(wallets[g]) - cost
                                             ELSE Available(wallets[g])
    BY <1>1, <1>2 DEF Available
  <2> QED  BY <1>1, <2>1 DEF Purse
<1>7. LotTable' = LotTable
  BY <1>3 DEF LotTable, LotOf, Leads
<1>8. E!Trade(buyer, seller)
  BY <1>1, <1>5, <1>6, <1>7 DEF E!Trade, Purse, LotTable
<1> QED  BY <1>1, <1>8 DEF E!Next

(* A bid hands the leader's gold back and puts the bidder's down.          *)
LEMMA BidRaisesLot ==
    ASSUME IInv, IInv', NEW i \in ItemIDs, NEW bidder \in Guilds, NEW amount \in Amounts,
           NEW t \in Readings, BidOnItem(i, bidder, amount, t)
    PROVE  E!Next
<1>1. PICK x \in DOMAIN auctions : BidMoved(x, i, bidder, amount, t)
  BY BidMoves
<1> DEFINE a == auctions[x]
           n == PlaceBid(a, bidder, amount, t)
<1>2. /\ a.status = "active" /\ bidder \in Registered
      /\ amount \in Nat /\ amount > 0 /\ amount > Leads[x]
      /\ bidder # a.seller
      /\ auctions' = [auctions EXCEPT ![x] = n]
      /\ \A g \in Registered :
           /\ wallets'[g].total = wallets[g].total
           /\ wallets'[g].reserved = wallets[g].reserved - LedWith(x, g)
                                       + (IF g = bidder THEN amount ELSE 0)
  BY <1>1 DEF BidMoved, CanPlaceBid
<1>3. /\ LotsAreRows /\ LotsAreRows' /\ LeadsAreLast /\ LeadsAreLast'
      /\ x \in AuctionIDs /\ a \in Auction
  BY LotsRead, LotsReadNext, LeadsRead, LeadsReadNext DEF IInv, TypeOK
<1>4. /\ n.status = a.status /\ n.seller = a.seller
      /\ n.bids # <<>> /\ n.bids[Len(n.bids)].guild = bidder
      /\ n.bids[Len(n.bids)].amount = amount
  <2> DEFINE bid == [guild |-> bidder, amount |-> amount, active |-> TRUE, placedAt |-> t]
  <2>1. n.status = a.status /\ n.seller = a.seller /\ n.bids = Append(a.bids, bid)
    BY <1>3 DEF PlaceBid, Auction
  <2>2. bid.guild = bidder /\ bid.amount = amount
    OBVIOUS
  <2>3. a.bids \in Seq(Bid)
    BY <1>3 DEF Auction
  <2> HIDE DEF bid
  <2>4. /\ Append(a.bids, bid) # <<>>
        /\ Append(a.bids, bid)[Len(Append(a.bids, bid))] = bid
    <3>1. Len(Append(a.bids, bid)) = Len(a.bids) + 1 /\ Len(a.bids) \in Nat
      BY <2>3
    <3>2. Append(a.bids, bid)[Len(a.bids) + 1] = bid
      BY <2>3
    <3>3. Append(a.bids, bid) # <<>>
      BY <2>3, <3>1
    <3> QED  BY <3>1, <3>2, <3>3
  <2> QED  BY <2>1, <2>2, <2>4
<1> HIDE DEF n
<1>5. /\ DOMAIN auctions' = DOMAIN auctions /\ auctions'[x] = n
      /\ \A y \in DOMAIN auctions : y # x => auctions'[y] = auctions[y]
  BY <1>2
<1>6. Leads'[x] = amount /\ \A y \in DOMAIN auctions : y # x => Leads'[y] = Leads[y]
  <2>1. Leads'[x] = LastBid(x)'.amount
    BY <1>3, <1>4, <1>5 DEF LeadsAreLast
  <2>2. LastBid(x)' = n.bids[Len(n.bids)]
    BY <1>5 DEF LastBid
  <2>3. \A y \in DOMAIN auctions : y # x => Leads'[y] = Leads[y]
    BY <1>5 DEF Leads
  <2> QED  BY <1>4, <2>1, <2>2, <2>3
<1>7. /\ LotOf(x).phase = "open" /\ LotOf(x).sellers = {a.seller} /\ LotOf(x).price = Leads[x]
      /\ \A g : g \in LotOf(x).leader <=> a.bids # <<>> /\ LastBid(x).guild = g
      /\ DOMAIN LotOf(x) = {"phase", "sellers", "leader", "price"}
  BY <1>2, <1>3 DEF LotsAreRows, LotRow, LastBid
<1>8. LotOf(x)' = [[LotOf(x) EXCEPT !.leader = {bidder}] EXCEPT !.price = amount]
  <2>1. LotOf(x)' = LotRow(n, amount)
    BY <1>3, <1>5, <1>6 DEF LotsAreRows
  <2>2. LotOf(x)' = [phase |-> "open", sellers |-> {a.seller}, leader |-> {bidder},
                     price |-> amount]
    BY <1>2, <1>4, <2>1 DEF LotRow
  <2>3. LotOf(x) = LotRow(a, Leads[x])
    BY <1>3 DEF LotsAreRows
  <2> DEFINE leader == IF a.bids = <<>> THEN {} ELSE {a.bids[Len(a.bids)].guild}
             lead == Leads[x]
             seller == a.seller
  <2>4. LotOf(x) = [phase |-> "open", sellers |-> {seller}, leader |-> leader, price |-> lead]
    BY <1>2, <2>3 DEF LotRow
  <2>5. LotOf(x)' = [phase |-> "open", sellers |-> {seller}, leader |-> {bidder},
                     price |-> amount]
    BY <2>2
  <2> HIDE DEF leader, lead, seller
  <2>6. [LotOf(x) EXCEPT !.leader = {bidder}] =
          [phase |-> "open", sellers |-> {seller}, leader |-> {bidder}, price |-> lead]
    BY <2>4
  <2> DEFINE led == [LotOf(x) EXCEPT !.leader = {bidder}]
  <2>7. led = [phase |-> "open", sellers |-> {seller}, leader |-> {bidder}, price |-> lead]
    BY <2>6
  <2> HIDE DEF led
  <2>8. [led EXCEPT !.price = amount] =
          [phase |-> "open", sellers |-> {seller}, leader |-> {bidder}, price |-> amount]
    BY <2>7
  <2> QED  BY <2>5, <2>8, Zenon DEF led
<1>9. ASSUME NEW y \in AuctionIDs, y # x PROVE LotOf(y)' = LotOf(y)
  <2>1. CASE y \in DOMAIN auctions
    BY <1>3, <1>5, <1>6, <1>9, <2>1 DEF LotsAreRows
  <2>2. CASE y \notin DOMAIN auctions
    BY <1>3, <1>5, <2>2 DEF LotsAreRows
  <2> QED  BY <2>1, <2>2
<1>10. LotTable' = [LotTable EXCEPT ![x].leader = {bidder}, ![x].price = amount]
  <2>1. LotTable = [y \in AuctionIDs |-> LotOf(y)] /\ LotTable' = [y \in AuctionIDs |-> LotOf(y)']
    BY DEF LotTable
  <2> QED  BY <1>3, <1>8, <1>9, <2>1
<1> DEFINE Back == [g \in Registered |->
                      Purse[g] + IF g \in LotTable[x].leader THEN LotTable[x].price ELSE 0]
<1>11. ASSUME NEW g \in Registered PROVE Back[g] = Available(wallets[g]) + LedWith(x, g)
  <2>1. Back[g] = Available(wallets[g]) + IF g \in LotOf(x).leader THEN LotOf(x).price ELSE 0
    BY <1>3 DEF Purse, LotTable
  <2> QED  BY <1>7, <2>1 DEF LedWith
<1>12. \A g \in Registered :
         /\ wallets[g].total \in Nat /\ wallets[g].reserved \in Nat /\ LedWith(x, g) \in Nat
         /\ wallets'[g].reserved <= wallets'[g].total
         /\ wallets'[g].reserved \in Nat
  BY <1>3 DEF IInv, TypeOK, Wallet, Solvent, LedWith, LeadsAreLast
<1>13. amount \in 1..Back[bidder]
  <2>1. Back[bidder] = wallets[bidder].total - wallets[bidder].reserved + LedWith(x, bidder)
    BY <1>2, <1>11 DEF Available
  <2> HIDE DEF Back
  <2> QED  BY <1>2, <1>12, <2>1
<1>14. Purse' = [Back EXCEPT ![bidder] = @ - amount]
  <2>1. ASSUME NEW g \in Registered
        PROVE  Available(wallets'[g]) = IF g = bidder THEN Back[g] - amount ELSE Back[g]
    <3>1. Back[g] = wallets[g].total - wallets[g].reserved + LedWith(x, g)
      BY <1>11 DEF Available
    <3> HIDE DEF Back
    <3> QED  BY <1>2, <1>12, <3>1 DEF Available
  <2>2. DOMAIN Back = Registered
    OBVIOUS
  <2>3. Purse' = [g \in Registered |-> Available(wallets'[g])]
    BY DEF Purse
  <2>4. Back = [g \in Registered |-> Back[g]]
    OBVIOUS
  <2> HIDE DEF Back
  <2> QED  BY <1>2, <2>1, <2>2, <2>3, <2>4
<1>15. /\ LotTable[x].phase = "open" /\ bidder \notin LotTable[x].sellers
       /\ amount > LotTable[x].price
  BY <1>2, <1>3, <1>7 DEF LotTable
<1>16. E!Refunded(x) = Back
  BY DEF E!Refunded, Purse, LotTable
<1> HIDE DEF Back
<1>17. E!Raise(x, bidder)
  BY <1>10, <1>13, <1>14, <1>15, <1>16 DEF E!Raise, Purse, LotTable
<1> QED  BY <1>2, <1>3, <1>17 DEF E!Next

(* Withdrawing a bid, which is never the leading one, moves no gold.       *)
LEMMA CancelMovesNothing ==
    ASSUME IInv, IInv', NEW i, NEW b, NEW guild, CancelBidOnItem(i, b, guild)
    PROVE  Purse' = Purse /\ LotTable' = LotTable
<1>1. PICK x \in ActiveAuctions(i) :
        /\ CanCancelBid(auctions[x], b, guild)
        /\ auctions' = [auctions EXCEPT ![x] = CancelBid(auctions[x], b)]
  BY DEF CancelBidOnItem
<1>2. UNCHANGED wallets
  BY DEF CancelBidOnItem
<1> DEFINE a == auctions[x]
           n == CancelBid(a, b)
<1>3. /\ LotsAreRows /\ LotsAreRows' /\ LeadsAreLast /\ LeadsAreLast'
      /\ x \in DOMAIN auctions /\ x \in AuctionIDs /\ a \in Auction
  BY LotsRead, LotsReadNext, LeadsRead, LeadsReadNext DEF IInv, TypeOK, ActiveAuctions
<1>4. /\ a.bids \in Seq(Bid) /\ b \in 1..Len(a.bids) /\ b # Len(a.bids) /\ Len(a.bids) \in Nat
  BY <1>1, <1>3 DEF LeadsAreLast, CanCancelBid, ActiveBids, Auction
<1>5. /\ n.status = a.status /\ n.seller = a.seller
      /\ n.bids # <<>> /\ a.bids # <<>>
      /\ n.bids[Len(n.bids)] = a.bids[Len(a.bids)]
  <2>1. n.status = a.status /\ n.seller = a.seller /\ n.bids = [a.bids EXCEPT ![b].active = FALSE]
    BY <1>3 DEF CancelBid, Auction
  <2> DEFINE s == a.bids
             z == [s EXCEPT ![b].active = FALSE]
  <2>2. DOMAIN z = 1..Len(s)
    BY <1>4
  <2>3. Len(z) = Len(s) /\ Len(s) \in 1..Len(s)
    BY <1>4, <2>2
  <2>4. z[Len(s)] = s[Len(s)]
    BY <1>4, <2>3
  <2>5. s # <<>> /\ z # <<>>
    BY <1>4, <2>2, <2>3
  <2> QED  BY <2>1, <2>3, <2>4, <2>5
<1> HIDE DEF n
<1>6. /\ DOMAIN auctions' = DOMAIN auctions /\ auctions'[x] = n
      /\ \A y \in DOMAIN auctions : y # x => auctions'[y] = auctions[y]
  BY <1>1, <1>3 DEF n
<1>7. \A y \in DOMAIN auctions : Leads'[y] = Leads[y]
  <2>1. Leads'[x] = LastBid(x)'.amount /\ Leads[x] = LastBid(x).amount
    BY <1>3, <1>5, <1>6 DEF LeadsAreLast
  <2>2. LastBid(x)' = n.bids[Len(n.bids)] /\ LastBid(x) = a.bids[Len(a.bids)]
    BY <1>6 DEF LastBid
  <2>3. \A y \in DOMAIN auctions : y # x => Leads'[y] = Leads[y]
    BY <1>6 DEF Leads
  <2> QED  BY <1>5, <2>1, <2>2, <2>3
<1>8. LotRow(n, Leads[x]) = LotRow(a, Leads[x])
  BY <1>5 DEF LotRow
<1>9. ASSUME NEW y \in AuctionIDs PROVE LotOf(y)' = LotOf(y)
  <2>1. CASE y = x
    BY <1>3, <1>6, <1>7, <1>8, <2>1 DEF LotsAreRows
  <2>2. CASE y # x /\ y \in DOMAIN auctions
    BY <1>3, <1>6, <1>7, <2>2 DEF LotsAreRows
  <2>3. CASE y \notin DOMAIN auctions
    BY <1>3, <1>6, <2>3 DEF LotsAreRows
  <2> QED  BY <2>1, <2>2, <2>3
<1> QED  BY <1>2, <1>9 DEF Purse, LotTable

(* A settlement hands what lies on every due lot to its seller.            *)
LEMMA SettleCloses ==
    ASSUME IInv, IInv', NEW t \in Readings, SettleDueAuctions(t),
           CanSettleAll(DueAuctions(t))
    PROVE  E!Next \/ (Purse' = Purse /\ LotTable' = LotTable)
<1> DEFINE D == DueAuctions(t)
           W == Won(D)
<1>1. SettleMoved(t)
  BY SettleMoves
<1>2. /\ D \subseteq DOMAIN auctions
      /\ W = {x \in D : auctions[x].bids # <<>>}
      /\ \A x \in D : auctions[x].status = "active"
      /\ \A x \in W : auctions[x].seller \in Registered
      /\ \A g \in Registered :
           /\ GoldIn(Leads, LedBy(g) \cap D) \in Nat /\ GoldIn(Leads, SoldBy(g, D)) \in Nat
           /\ wallets'[g].total = wallets[g].total - GoldIn(Leads, LedBy(g) \cap D)
                                                   + GoldIn(Leads, SoldBy(g, D))
           /\ wallets'[g].reserved = wallets[g].reserved - GoldIn(Leads, LedBy(g) \cap D)
      /\ DOMAIN auctions' = DOMAIN auctions
      /\ \A x \in DOMAIN auctions :
           auctions'[x] = IF x \in D THEN [auctions[x] EXCEPT !.status = "settled"]
                          ELSE auctions[x]
  BY <1>1, Zenon DEF SettleMoved
<1>3. /\ LotsAreRows /\ LotsAreRows' /\ LeadsAreLast /\ LeadsAreLast'
      /\ DOMAIN auctions \subseteq AuctionIDs
      /\ \A x \in DOMAIN auctions : auctions[x] \in Auction
  BY LotsRead, LotsReadNext, LeadsRead, LeadsReadNext DEF IInv, TypeOK
<1> HIDE DEF D
<1>4. ASSUME NEW g \in Registered
      PROVE  Available(wallets'[g]) = Available(wallets[g]) + GoldIn(Leads, SoldBy(g, D))
  <2> DEFINE paid == GoldIn(Leads, LedBy(g) \cap D)
             earned == GoldIn(Leads, SoldBy(g, D))
  <2>1. /\ paid \in Nat /\ earned \in Nat
        /\ wallets'[g].total = wallets[g].total - paid + earned
        /\ wallets'[g].reserved = wallets[g].reserved - paid
    BY <1>2
  <2>2. wallets[g].total \in Nat /\ wallets[g].reserved \in Nat
    BY DEF IInv, TypeOK, Wallet
  <2> HIDE DEF paid, earned
  <2>3. Available(wallets'[g]) = Available(wallets[g]) + earned
    BY <2>1, <2>2 DEF Available
  <2> QED  BY <2>3 DEF earned
<1>5. ASSUME NEW x \in D
      PROVE  /\ LotOf(x).phase = "open" /\ LotOf(x).sellers = {auctions[x].seller}
             /\ LotOf(x).price = Leads[x]
             /\ LotOf(x).leader # {} => auctions[x].seller \in Registered
             /\ LotOf(x)' = [[LotOf(x) EXCEPT !.phase = "closed"] EXCEPT !.price = 0]
  <2> DEFINE a == auctions[x]
             leader == IF a.bids = <<>> THEN {} ELSE {a.bids[Len(a.bids)].guild}
             lead == Leads[x]
             sellers == {a.seller}
  <2>1. x \in DOMAIN auctions /\ a.status = "active" /\ a \in Auction
    BY <1>2, <1>3
  <2>2. LotOf(x) = [phase |-> "open", sellers |-> sellers, leader |-> leader, price |-> lead]
    BY <1>3, <2>1 DEF LotsAreRows, LotRow
  <2>3. /\ auctions'[x].status = "settled" /\ auctions'[x].bids = a.bids
        /\ auctions'[x].seller = a.seller
    BY <1>2, <2>1 DEF Auction
  <2>4. LotOf(x)' = LotRow(auctions'[x], Leads'[x])
    BY <1>2, <1>3, <2>1 DEF LotsAreRows
  <2>5. LotOf(x)' = [phase |-> "closed", sellers |-> sellers, leader |-> leader, price |-> 0]
    BY <2>3, <2>4 DEF LotRow
  <2>6. leader # {} => a.seller \in Registered
    BY <1>2
  <2>7. LotOf(x).leader = leader
    BY <2>2
  <2> HIDE DEF leader, lead, sellers
  <2>8. [LotOf(x) EXCEPT !.phase = "closed"] =
          [phase |-> "closed", sellers |-> sellers, leader |-> leader, price |-> lead]
    BY <2>2
  <2> DEFINE shut == [LotOf(x) EXCEPT !.phase = "closed"]
  <2>9. shut = [phase |-> "closed", sellers |-> sellers, leader |-> leader, price |-> lead]
    BY <2>8
  <2> HIDE DEF shut
  <2>10. [shut EXCEPT !.price = 0] =
          [phase |-> "closed", sellers |-> sellers, leader |-> leader, price |-> 0]
    BY <2>9
  <2>11. LotOf(x).phase = "open" /\ LotOf(x).sellers = sellers /\ LotOf(x).price = lead
    BY <2>2
  <2>12. LotOf(x)' = [[LotOf(x) EXCEPT !.phase = "closed"] EXCEPT !.price = 0]
    BY <2>5, <2>10, Zenon DEF shut
  <2>13. LotOf(x).leader # {} => a.seller \in Registered
    BY <2>6, <2>7
  <2> QED  BY <2>11, <2>12, <2>13, Zenon DEF lead, sellers
<1>6. ASSUME NEW x \in D
      PROVE  /\ x \in AuctionIDs /\ x \in DOMAIN auctions
             /\ LotTable[x] = LotOf(x) /\ LotTable[x].phase = "open"
             /\ LotTable[x].sellers = {auctions[x].seller}
             /\ LotTable[x].price = Leads[x]
             /\ LotTable[x].leader # {} => auctions[x].seller \in Registered
  <2>1. x \in AuctionIDs /\ x \in DOMAIN auctions
    BY <1>2, <1>3
  <2>2. LotTable[x] = LotOf(x)
    BY <2>1 DEF LotTable
  <2> QED  BY <1>5, <2>1, <2>2, Zenon
<1>7. D \subseteq AuctionIDs
  BY <1>2, <1>3
<1>8. ASSUME NEW x \in AuctionIDs, x \notin D PROVE LotOf(x)' = LotOf(x)
  <2>1. CASE x \in DOMAIN auctions
    <3>1. auctions'[x] = auctions[x]
      BY <1>2, <1>8, <2>1
    <3>2. Leads'[x] = Leads[x]
      BY <1>2, <2>1, <3>1 DEF Leads
    <3> QED  BY <1>2, <1>3, <2>1, <3>1, <3>2 DEF LotsAreRows
  <2>2. CASE x \notin DOMAIN auctions
    BY <1>2, <1>3, <2>2 DEF LotsAreRows
  <2> QED  BY <2>1, <2>2
<1> DEFINE Prices == [x \in AuctionIDs |-> LotTable[x].price]
<1>9. ASSUME NEW g \in Registered
      PROVE  GoldIn(Prices, {x \in D : g \in LotTable[x].sellers}) = GoldIn(Leads, SoldBy(g, D))
  <2> DEFINE S == {x \in D : g \in LotTable[x].sellers}
             T == SoldBy(g, D)
  <2>1. \A x \in D : LotTable[x].sellers = {auctions[x].seller}
    BY <1>6
  <2>2. S = {x \in D : auctions[x].seller = g}
    BY <2>1
  <2>3. T \subseteq S /\ \A x \in S \ T : auctions[x].bids = <<>>
    BY <1>2, <2>2 DEF SoldBy
  <2>4. \A x \in S : Prices[x] = Leads[x]
    BY <1>6
  <2>5. \A x \in S \ T : Leads[x] = 0
    <3>1. S \subseteq DOMAIN auctions
      BY <1>2
    <3> QED  BY <1>3, <2>3, <3>1 DEF LeadsAreLast
  <2> HIDE DEF S, T, Prices
  <2>6. GoldIn(Prices, S) = GoldIn(Leads, S)
    BY <2>4, GoldInEq
  <2>7. GoldIn(Leads, S) = GoldIn(Leads, T)
    BY <2>3, <2>5, GoldInSupport
  <2> QED  BY <2>6, <2>7 DEF S, T
<1>10. Purse' = [g \in Registered |->
                  Purse[g] + GoldIn(Prices, {x \in D : g \in LotTable[x].sellers})]
  <2>1. ASSUME NEW g \in Registered
        PROVE  Available(wallets'[g]) =
                 Purse[g] + GoldIn(Prices, {x \in D : g \in LotTable[x].sellers})
    <3>1. Purse[g] = Available(wallets[g])
      BY DEF Purse
    <3> HIDE DEF Prices
    <3> QED  BY <1>4, <1>9, <3>1
  <2>2. Purse' = [g \in Registered |-> Available(wallets'[g])]
    BY DEF Purse
  <2> HIDE DEF Prices
  <2> QED  BY <2>1, <2>2, Zenon
<1>11. LotTable' = [x \in AuctionIDs |->
                     IF x \in D THEN [LotTable[x] EXCEPT !.phase = "closed", !.price = 0]
                     ELSE LotTable[x]]
  <2>1. LotTable' = [x \in AuctionIDs |-> LotOf(x)']
    BY DEF LotTable
  <2>2. ASSUME NEW x \in AuctionIDs
        PROVE  LotOf(x)' = IF x \in D THEN [LotTable[x] EXCEPT !.phase = "closed", !.price = 0]
                           ELSE LotTable[x]
    BY <1>5, <1>8 DEF LotTable
  <2> QED  BY <2>1, <2>2
<1>12. CASE D = {}
  <2>1. LotTable' = LotTable
    BY <1>11, <1>12 DEF LotTable
  <2>2. ASSUME NEW g \in Registered PROVE Available(wallets'[g]) = Available(wallets[g])
    <3>1. SoldBy(g, D) = {}
      BY <1>2, <1>12 DEF SoldBy
    <3>2. Available(wallets[g]) \in Int
      BY DEF IInv, TypeOK, Wallet, Available
    <3> QED  BY <1>4, <3>1, <3>2, GoldInEmpty
  <2> QED  BY <2>1, <2>2 DEF Purse
<1>13. CASE D # {}
  <2>1. ASSUME NEW x \in D
        PROVE  /\ LotTable[x].phase = "open"
               /\ LotTable[x].leader # {} => LotTable[x].sellers \subseteq Registered
    BY <1>6
  <2>2. E!Prices = Prices
    BY DEF E!Prices, LotTable
  <2>3. D \in SUBSET AuctionIDs
    BY <1>2, <1>3
  <2> HIDE DEF Prices
  <2>4. Purse' = [g \in Registered |->
                    Purse[g] + E!GoldIn(E!Prices, {x \in D : g \in LotTable[x].sellers})]
    <3>1. \A f, S : E!GoldIn(f, S) = GoldIn(f, S)
      BY Zenon DEF E!GoldIn, E!Coins, E!Cardinality, GoldIn, Coins, Cardinality
    <3> QED  BY <1>10, <2>2, <3>1, Zenon
  <2>5. E!Close(D)
    BY <1>11, <1>13, <2>1, <2>4, Zenon DEF E!Close, Purse, LotTable
  <2> QED  BY <2>3, <2>5 DEF E!Next
<1> QED  BY <1>12, <1>13

(* The reservation bookkeeping of the market is indistinguishable from     *)
(* handing gold over (R7, D6): for every set of guilds, purses, auctions,  *)
(* bids and clock readings the market implements Escrow.                   *)
THEOREM MarketIsEscrow == Spec => EscrowImplemented
<1>1. Init => E!Init
  BY EscrowInit
<1>2. ASSUME IInv, IInv', [Next]_vars
      PROVE  UNCHANGED <<wallets, auctions>> \/ E!Next \/ UNCHANGED E!vars
  <2>1. Purse' = Purse /\ LotTable' = LotTable => UNCHANGED E!vars
    BY DEF E!vars, Purse, LotTable
  <2>2. ASSUME NEW in \in Listings, NEW i \in ItemIDs, NEW t \in Readings,
               CreateItem(in, i, t)
        PROVE  UNCHANGED <<wallets, auctions>> \/ E!Next
    <3>1. CASE AuctionOnly(in.rarity)
      BY <1>2, <2>2, <3>1, CreateItemOpens
    <3>2. CASE ~AuctionOnly(in.rarity)
      BY <2>2, <3>2 DEF CreateItem
    <3> QED  BY <3>1, <3>2
  <2>3. ASSUME NEW i \in ItemIDs, NEW buyer \in Guilds, NEW qty \in Quantities,
               NEW t \in Readings, Purchase(i, buyer, qty, t)
        PROVE  E!Next
    BY <1>2, <2>3, PurchaseTrades
  <2>4. ASSUME NEW i \in ItemIDs, NEW bidder \in Guilds, NEW amount \in Amounts,
               NEW t \in Readings, BidOnItem(i, bidder, amount, t)
        PROVE  E!Next
    BY <1>2, <2>4, BidRaisesLot
  <2>5. ASSUME NEW i, NEW b, NEW guild, CancelBidOnItem(i, b, guild)
        PROVE  Purse' = Purse /\ LotTable' = LotTable
    BY <1>2, <2>5, CancelMovesNothing
  <2>6. ASSUME NEW t \in Readings, SettleDueAuctions(t)
        PROVE  \/ UNCHANGED <<wallets, auctions>>
               \/ E!Next
               \/ Purse' = Purse /\ LotTable' = LotTable
    <3>1. CASE CanSettleAll(DueAuctions(t))
      BY <1>2, <2>6, <3>1, SettleCloses
    <3>2. CASE ~CanSettleAll(DueAuctions(t))
      BY <2>6, <3>2 DEF SettleDueAuctions, vars
    <3> QED  BY <3>1, <3>2
  <2> HIDE DEF Purse, LotTable
  <2> QED  BY <1>2, <2>1, <2>2, <2>3, <2>4, <2>5, <2>6
           DEF Next, RunSettlementWorker, Tick, vars
<1> QED  BY <1>1, <1>2, MarketInvariant, PTL DEF Spec, EscrowImplemented
=============================================================================
