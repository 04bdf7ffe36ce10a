---------------------------- MODULE LedgerProofs ----------------------------
(***************************************************************************)
(* Theorems about where the gold goes: no unit of work makes or loses any, *)
(* and the ledger accounts for all of it.                                  *)
(*                                                                         *)
(* The first part says what each unit does to wallets and ledger, guild by *)
(* guild and entry by entry; the invariants follow from that.              *)
(***************************************************************************)
EXTENDS MarketProofs

-----------------------------------------------------------------------------
(* What the units of work do.                                              *)

(* A clock reading is a time, and belongs to a day of the ledger.          *)
LEMMA ReadingIsTime ==
    ASSUME IInv, NEW t \in Readings
    PROVE  t \in Nat /\ t <= MaxTime /\ Day(t) \in Days
<1>1. t \in Nat /\ MaxTime \in Nat /\ t <= MaxTime /\ DayLength \in Nat /\ DayLength > 0
  BY ClockAssumption DEF Readings, IInv, TypeOK
<1> DEFINE p == t \div DayLength
           q == MaxTime \div DayLength
<1>2. /\ p \in Int /\ DayLength * p <= t /\ t < DayLength * p + DayLength
      /\ q \in Int /\ DayLength * q <= MaxTime /\ MaxTime < DayLength * q + DayLength
  BY <1>1
<1> HIDE DEF p, q
<1>3. p >= 0
  BY <1>1, <1>2
<1>4. p <= q
  BY <1>1, <1>2
<1>5. Day(t) = p /\ Days = 0..q
  BY DEF Day, Days, p, q
<1> QED  BY <1>1, <1>2, <1>3, <1>4, <1>5

(* A purchase takes its cost from the buyer and gives it to the seller,    *)
(* and posts both.                                                         *)
LEMMA PurchaseMoves ==
    ASSUME IInv, NEW i \in ItemIDs, NEW buyer \in Guilds, NEW qty \in Quantities,
           NEW t \in Readings, Purchase(i, buyer, qty, t)
    PROVE  LET seller == items[i].seller
               cost == Cost(items[i], qty)
           IN  /\ i \in DOMAIN items /\ ~AuctionOnly(items[i].rarity)
               /\ buyer \in Registered /\ seller \in Registered /\ buyer # seller
               /\ cost \in Nat /\ cost > 0
               /\ cost <= wallets[buyer].total - wallets[buyer].reserved
               /\ \A g \in Registered :
                    /\ wallets'[g].reserved = wallets[g].reserved
                    /\ wallets'[g].total = wallets[g].total
                                             + (IF g = seller THEN cost ELSE 0)
                                             - (IF g = buyer THEN cost ELSE 0)
               /\ \A k \in LedgerKeys :
                    ledger'[k] = IF \/ k = <<buyer, "debit", i, Day(t)>>
                                    \/ k = <<seller, "credit", i, Day(t)>>
                                 THEN ledger[k] + cost ELSE ledger[k]
<1> USE DEF IInv
<1> DEFINE seller == items[i].seller
           cost == Cost(items[i], qty)
           debit == <<buyer, "debit", i, Day(t)>>
           credit == <<seller, "credit", i, Day(t)>>
<1>1. /\ i \in DOMAIN items /\ items[i] \in Item /\ qty \in Int
      /\ buyer \in Registered /\ seller \in Registered
      /\ ~AuctionOnly(items[i].rarity) /\ seller # buyer
      /\ CanDebit(wallets[buyer], cost)
  BY RequestsAssumption DEF Purchase, CanSellTo, TypeOK
<1>2. /\ cost \in Nat /\ cost > 0
      /\ cost <= wallets[buyer].total - wallets[buyer].reserved
  BY <1>1, CostIsInt DEF CanDebit, IsPositive, Available
<1>3. /\ wallets' = [wallets EXCEPT ![buyer] = Debit(@, cost), ![seller] = Credit(@, cost)]
      /\ ledger' = [ledger EXCEPT ![debit] = @ + cost, ![credit] = @ + cost]
  BY DEF Purchase, PurchaseEntries
<1> HIDE DEF cost
<1>4. ASSUME NEW g \in Registered
      PROVE  /\ wallets'[g].reserved = wallets[g].reserved
             /\ wallets'[g].total = wallets[g].total + (IF g = seller THEN cost ELSE 0)
                                                     - (IF g = buyer THEN cost ELSE 0)
  <2>1. wallets[g] \in Wallet /\ wallets \in [Registered -> Wallet]
    BY DEF TypeOK
  <2>2. wallets'[g] = IF g = seller THEN Credit(wallets[g], cost)
                      ELSE IF g = buyer THEN Debit(wallets[g], cost) ELSE wallets[g]
    BY <1>1, <1>3, <2>1
  <2> QED  BY <1>1, <1>2, <2>1, <2>2 DEF Credit, Debit, Wallet
<1>5. ASSUME NEW k \in LedgerKeys
      PROVE  ledger'[k] = IF k = debit \/ k = credit THEN ledger[k] + cost ELSE ledger[k]
  <2>1. debit # credit
    BY <1>1
  <2> HIDE DEF debit, credit
  <2> QED  BY <1>3, <2>1 DEF TypeOK
<1> QED  BY <1>1, <1>2, <1>4, <1>5 DEF cost

(* The gold that leads auction x for guild g, if g leads it.               *)
LedWith(x, g) ==
    IF auctions[x].bids # <<>> /\ LastBid(x).guild = g THEN Leads[x] ELSE 0

BidMoved(x, i, bidder, amount, t) ==
    /\ x \in DOMAIN auctions /\ auctions[x].item = i /\ auctions[x].status = "active"
    /\ bidder \in Registered /\ amount \in Nat /\ amount > 0 /\ amount > Leads[x]
    /\ CanPlaceBid(auctions[x], bidder, amount, t)
    /\ auctions' = [auctions EXCEPT ![x] = PlaceBid(auctions[x], bidder, amount, t)]
    /\ \A g \in Registered :
        /\ wallets'[g].total = wallets[g].total
        /\ wallets'[g].reserved = wallets[g].reserved - LedWith(x, g)
                                    + (IF g = bidder THEN amount ELSE 0)
    /\ \A k \in LedgerKeys :
        ledger'[k] =
          IF k = <<bidder, "reserve", i, Day(t)>> THEN ledger[k] + amount
          ELSE IF /\ auctions[x].bids # <<>> /\ LastBid(x).guild # bidder
                  /\ k = <<LastBid(x).guild, "release", i, Day(t)>>
               THEN ledger[k] + Leads[x] ELSE ledger[k]

(* A bid gives the unseated leader its reservation back and reserves the   *)
(* bid; it posts a reserve entry, and a release entry unless the bidder    *)
(* raises its own bid.                                                     *)
LEMMA BidMoves ==
    ASSUME IInv, NEW i \in ItemIDs, NEW bidder \in Guilds, NEW amount \in Amounts,
           NEW t \in Readings, BidOnItem(i, bidder, amount, t)
    PROVE  \E x \in DOMAIN auctions : BidMoved(x, i, bidder, amount, t)
<1> USE DEF IInv
<1>1. PICK x \in ActiveAuctions(i) :
        LET a == auctions[x]
        IN  /\ bidder \in DOMAIN wallets
            /\ CanPlaceBid(a, bidder, amount, t)
            /\ wallets' = BidWallets(a, bidder, amount)
            /\ ledger' = BidEntries(a, bidder, amount, t)
            /\ auctions' = [auctions EXCEPT ![x] = PlaceBid(a, bidder, amount, t)]
  BY DEF BidOnItem
<1> DEFINE a == auctions[x]
           reserve == <<bidder, "reserve", i, Day(t)>>
           release == <<LastBid(x).guild, "release", i, Day(t)>>
<1>2. /\ x \in DOMAIN auctions /\ a.status = "active" /\ a.item = i /\ a \in Auction
      /\ Stands(a.bids) /\ bidder \in Registered
      /\ amount \in Nat /\ amount > 0 /\ t \in Nat
  BY <1>1, RequestsAssumption
     DEF ActiveAuctions, TypeOK, LeaderStands, BidOnItem, Readings, IsPositive
<1>3. /\ HighestBid(a) = 0 <=> a.bids = <<>>
      /\ a.bids # <<>> => Leader(a) = LastBid(x) /\ Leads[x] = LastBid(x).amount
      /\ a.bids = <<>> => Leads[x] = 0
      /\ Leads[x] \in Nat
  BY <1>2, LeadsRead DEF LeadsAreLast
<1>4. amount > Leads[x]
  <2>1. CASE a.bids = <<>>
    BY <1>2, <1>3, <2>1
  <2>2. CASE a.bids # <<>>
    <3>1. amount >= Leads[x] + Increment(Leads[x])
      BY <1>1, <1>3, <2>2 DEF CanPlaceBid, MinNextBid
    <3>2. Increment(Leads[x]) \in Nat /\ Increment(Leads[x]) >= 1
      BY <1>3, IncrementIsEnough
    <3> QED  BY <1>2, <1>3, <3>1, <3>2
  <2> QED  BY <2>1, <2>2
<1>5. ASSUME NEW g \in Registered
      PROVE  /\ wallets'[g].total = wallets[g].total
             /\ wallets'[g].reserved = wallets[g].reserved - LedWith(x, g)
                                         + (IF g = bidder THEN amount ELSE 0)
  <2>1. wallets[g] \in Wallet /\ wallets \in [Registered -> Wallet]
    BY DEF TypeOK
  <2>2. /\ DOMAIN Released(a) = Registered
        /\ Released(a)[g].total = wallets[g].total
        /\ Released(a)[g].reserved = wallets[g].reserved - LedWith(x, g)
        /\ DOMAIN Released(a)[g] = {"total", "reserved"}
    <3>1. CASE a.bids = <<>>
      BY <1>3, <2>1, <3>1 DEF Released, LedWith, Wallet
    <3>2. CASE a.bids # <<>>
      <4>1. Released(a) =
              [wallets EXCEPT ![LastBid(x).guild] = Release(wallets[LastBid(x).guild], Leads[x])]
        BY <1>3, <3>2 DEF Released
      <4>2. Released(a)[g] = IF g = LastBid(x).guild THEN Release(wallets[g], Leads[x])
                             ELSE wallets[g]
        BY <2>1, <4>1
      <4>3. DOMAIN Released(a) = Registered
        BY <2>1, <4>1
      <4> QED  BY <1>3, <2>1, <3>2, <4>2, <4>3 DEF Release, LedWith, Wallet
    <3> QED  BY <3>1, <3>2
  <2>3. wallets'[g] = IF g = bidder THEN Reserve(Released(a)[g], amount) ELSE Released(a)[g]
    BY <1>1, <2>2 DEF BidWallets
  <2>4. LedWith(x, g) \in Nat /\ wallets[g].reserved \in Nat
    BY <1>3, <2>1 DEF LedWith, Wallet
  <2> QED  BY <1>2, <2>2, <2>3, <2>4 DEF Reserve
<1>6. ASSUME NEW k \in LedgerKeys
      PROVE  ledger'[k] = IF k = reserve THEN ledger[k] + amount
                          ELSE IF /\ a.bids # <<>> /\ LastBid(x).guild # bidder
                                  /\ k = release
                               THEN ledger[k] + Leads[x] ELSE ledger[k]
  <2>1. ledger' =
          IF a.bids = <<>> \/ LastBid(x).guild = bidder
          THEN [ledger EXCEPT ![reserve] = @ + amount]
          ELSE [[ledger EXCEPT ![reserve] = @ + amount] EXCEPT ![release] = @ + Leads[x]]
    BY <1>1, <1>2, <1>3 DEF BidEntries
  <2>2. release # reserve
    OBVIOUS
  <2> HIDE DEF release, reserve
  <2> QED  BY <2>1, <2>2 DEF TypeOK
<1>7. BidMoved(x, i, bidder, amount, t)
  BY <1>1, <1>2, <1>4, <1>5, <1>6 DEF BidMoved
<1> QED  BY <1>2, <1>7

(* The ledger keys under which the sale that auction x ends in is posted.  *)
WinnerKey(t) ==
    [x \in DOMAIN auctions |->
        <<LastBid(x).guild, "settle", auctions[x].item, Day(t)>>]

SellerKey(t) ==
    [x \in DOMAIN auctions |->
        <<auctions[x].seller, "credit", auctions[x].item, Day(t)>>]

SettleMoved(t) ==
    LET D == DueAuctions(t)
        W == Won(D)
    IN  /\ D \subseteq DOMAIN auctions
        /\ W = {x \in D : auctions[x].bids # <<>>}
        /\ IsFiniteSet(W)
        /\ \A x \in D : auctions[x].status = "active"
        /\ \A x \in W : /\ Leads[x] \in Nat /\ Leads[x] = LastBid(x).amount
                        /\ LastBid(x).guild \in Registered
                        /\ auctions[x].seller \in Registered
        /\ \A g \in Registered :
             LET paid == GoldIn(Leads, LedBy(g) \cap D)
                 earned == GoldIn(Leads, SoldBy(g, D))
             IN  /\ LedBy(g) \cap D = {x \in W : LastBid(x).guild = g}
                 /\ paid \in Nat /\ earned \in Nat
                 /\ wallets'[g].total = wallets[g].total - paid + earned
                 /\ wallets'[g].reserved = wallets[g].reserved - paid
        /\ \A k \in LedgerKeys :
             ledger'[k] = ledger[k] + GoldIn(Leads, {x \in W : \/ k = WinnerKey(t)[x]
                                                              \/ k = SellerKey(t)[x]})
        /\ DOMAIN auctions' = DOMAIN auctions
        /\ \A x \in DOMAIN auctions :
             auctions'[x] = IF x \in D THEN [auctions[x] EXCEPT !.status = "settled"]
                            ELSE auctions[x]
        /\ items' = SettledItems(D)

(* A settlement that goes through takes from each winner what it leads     *)
(* with, gives it to the sellers, and posts both.                          *)
LEMMA SettleMoves ==
    ASSUME IInv, NEW t \in Readings, SettleDueAuctions(t), CanSettleAll(DueAuctions(t))
    PROVE  SettleMoved(t)
<1> USE DEF IInv
<1> DEFINE D == DueAuctions(t)
           W == Won(D)
<1>1. /\ auctions' = [x \in DOMAIN auctions |->
                        IF x \in D THEN [auctions[x] EXCEPT !.status = "settled"]
                        ELSE auctions[x]]
      /\ items' = SettledItems(D)
      /\ wallets' = SettledWallets(D)
      /\ ledger' = SettleEntries(D, t)
  BY DEF SettleDueAuctions
<1>2. LeadsAreLast
  BY LeadsRead
<1>3. D \subseteq DOMAIN auctions /\ \A x \in D : auctions[x].status = "active"
  BY DEF DueAuctions, Due
<1>4. \A x \in W : auctions[x].seller \in Registered
  BY DEF CanSettleAll, TypeOK
<1>5. DOMAIN wallets = Registered
  BY DEF TypeOK
<1> HIDE DEF D
<1>6. W = {x \in D : auctions[x].bids # <<>>} /\ W \subseteq DOMAIN auctions
  BY <1>2, <1>3 DEF Won, LeadsAreLast
<1>7. ASSUME NEW x \in W
      PROVE  /\ Leads[x] \in Nat /\ Leads[x] = LastBid(x).amount
             /\ LastBid(x).guild \in Registered
             /\ Leader(auctions[x]) = LastBid(x)
  <2>1. x \in DOMAIN auctions /\ auctions[x].bids # <<>> /\ auctions[x] \in Auction
    BY <1>6 DEF TypeOK
  <2>2. auctions[x].bids \in Seq(Bid)
    BY <2>1 DEF Auction
  <2>3. Len(auctions[x].bids) \in 1..Len(auctions[x].bids)
    BY <2>1, <2>2
  <2> QED  BY <1>2, <2>1, <2>3, BidFields DEF LeadsAreLast, LastBid
<1>8. \A S \in SUBSET DOMAIN auctions : IsFiniteSet(S) /\ GoldIn(Leads, S) \in Nat
  <2> SUFFICES ASSUME NEW S \in SUBSET DOMAIN auctions
               PROVE  IsFiniteSet(S) /\ GoldIn(Leads, S) \in Nat
    OBVIOUS
  <2>1. IsFiniteSet(S)
    BY FS_Subset DEF FinitelyManyAuctions
  <2>2. \A x \in S : Leads[x] \in Nat
    BY <1>2 DEF LeadsAreLast
  <2> QED  BY <2>1, <2>2, CoinsFinite
<1>9. ASSUME NEW g \in Registered
      PROVE  LET paid == GoldIn(Leads, LedBy(g) \cap D)
                 earned == GoldIn(Leads, SoldBy(g, D))
             IN  /\ LedBy(g) \cap D = {x \in W : LastBid(x).guild = g}
                 /\ paid \in Nat /\ earned \in Nat
                 /\ wallets'[g].total = wallets[g].total - paid + earned
                 /\ wallets'[g].reserved = wallets[g].reserved - paid
  <2> DEFINE paid == GoldIn(Leads, LedBy(g) \cap D)
             earned == GoldIn(Leads, SoldBy(g, D))
  <2>1. LedBy(g) \cap D = {x \in W : LastBid(x).guild = g}
    BY <1>2, <1>3, <1>6 DEF LeadsAreLast
  <2>2. LedBy(g) \cap D \in SUBSET DOMAIN auctions /\ SoldBy(g, D) \in SUBSET DOMAIN auctions
    BY <1>3, <1>6 DEF SoldBy
  <2>3. paid \in Nat /\ earned \in Nat
    BY <1>8, <2>2
  <2>4. wallets'[g] = [total    |-> wallets[g].total - paid + earned,
                       reserved |-> wallets[g].reserved - paid]
    BY <1>1, <1>5 DEF SettledWallets
  <2> HIDE DEF paid, earned
  <2>5. /\ wallets'[g].total = wallets[g].total - paid + earned
        /\ wallets'[g].reserved = wallets[g].reserved - paid
    BY <2>4
  <2> QED  BY <2>1, <2>3, <2>5 DEF paid, earned
<1>10. ASSUME NEW k \in LedgerKeys
       PROVE  ledger'[k] = ledger[k] + GoldIn(Leads, {x \in W : \/ k = WinnerKey(t)[x]
                                                               \/ k = SellerKey(t)[x]})
  <2> DEFINE S == {x \in W :
          \/ k = <<Leader(auctions[x]).guild, "settle", auctions[x].item, Day(t)>>
          \/ k = <<auctions[x].seller, "credit", auctions[x].item, Day(t)>>}
  <2>1. S = {x \in W : k = WinnerKey(t)[x] \/ k = SellerKey(t)[x]}
    BY <1>6, <1>7 DEF WinnerKey, SellerKey
  <2>2. ledger'[k] = ledger[k] + GoldIn(Leads, S)
    BY <1>1 DEF SettleEntries
  <2> QED  BY <2>1, <2>2, Zenon
<1>11. /\ DOMAIN auctions' = DOMAIN auctions
       /\ \A x \in DOMAIN auctions :
            auctions'[x] = IF x \in D THEN [auctions[x] EXCEPT !.status = "settled"]
                           ELSE auctions[x]
  BY <1>1
<1>12. IsFiniteSet(W)
  BY <1>6, <1>8
<1> QED  BY <1>1, <1>3, <1>4, <1>6, <1>7, <1>9, <1>10, <1>11, <1>12, Zenon DEF SettleMoved, D

(* What a settlement posts under any finite set of keys that are all       *)
(* credits, or none of them.                                               *)
LEMMA SettlePosts ==
    ASSUME IInv, NEW t \in Readings, SettleMoved(t),
           NEW Q \in SUBSET LedgerKeys, IsFiniteSet(Q),
           NEW key, \/ key = SellerKey(t) /\ \A k \in Q : k[2] = "credit"
                    \/ key = WinnerKey(t) /\ \A k \in Q : k[2] # "credit"
    PROVE  GoldIn(ledger', Q) =
             GoldIn(ledger, Q) + GoldIn(Leads, {x \in Won(DueAuctions(t)) : key[x] \in Q})
<1> DEFINE W == Won(DueAuctions(t))
           S == {x \in W : key[x] \in Q}
           e == PerOwner(Leads, S, key, Q)
<1>1. /\ IsFiniteSet(W) /\ W \subseteq DOMAIN auctions /\ \A x \in W : Leads[x] \in Nat
      /\ \A k \in LedgerKeys :
           ledger'[k] = ledger[k] + GoldIn(Leads, {x \in W : \/ k = WinnerKey(t)[x]
                                                            \/ k = SellerKey(t)[x]})
  BY Zenon DEF SettleMoved, Won
<1> HIDE DEF W
<1>2. IsFiniteSet(S) /\ (\A x \in S : Leads[x] \in Nat) /\ \A x \in S : key[x] \in Q
  BY <1>1, FS_Subset
<1>3. \A x \in W : WinnerKey(t)[x][2] = "settle" /\ SellerKey(t)[x][2] = "credit"
  BY <1>1 DEF WinnerKey, SellerKey
<1>4. ASSUME NEW k \in Q
      PROVE  /\ ledger[k] \in Nat
             /\ e[k] = GoldIn(Leads, Of(S, key, k)) /\ e[k] \in Nat
             /\ ledger'[k] = ledger[k] + e[k]
  <2>1. {x \in W : k = WinnerKey(t)[x] \/ k = SellerKey(t)[x]} = Of(S, key, k)
    BY <1>3 DEF Of
  <2>2. e[k] = GoldIn(Leads, Of(S, key, k))
    BY DEF PerOwner
  <2>3. IsFiniteSet(Of(S, key, k)) /\ \A x \in Of(S, key, k) : Leads[x] \in Nat
    BY <1>2, FS_Subset DEF Of
  <2>4. GoldIn(Leads, Of(S, key, k)) \in Nat
    BY <2>3, CoinsFinite
  <2>5. ledger'[k] = ledger[k] + GoldIn(Leads, Of(S, key, k))
    BY <1>1, <2>1, Zenon
  <2>6. ledger[k] \in Nat
    BY DEF IInv, TypeOK
  <2> QED  BY <2>2, <2>4, <2>5, <2>6
<1> HIDE DEF e, S
<1>5. GoldIn(ledger', Q) = GoldIn(ledger, Q) + GoldIn(e, Q)
  BY <1>4, GoldInPlus
<1>6. GoldIn(e, Q) = GoldIn(Leads, S)
  BY <1>2, GoldInGrouped DEF e
<1> QED  BY <1>5, <1>6 DEF S, W

-----------------------------------------------------------------------------
(* Gold is neither made nor lost.                                          *)

(* The treasuries are natural numbers of gold.                             *)
LEMMA TreasuryType ==
    ASSUME IInv
    PROVE  /\ \A g \in Registered : Treasury[g] = wallets[g].total /\ Treasury[g] \in Nat
           /\ IsFiniteSet(Registered)
BY GuildsAssumption DEF Treasury, IInv, TypeOK, Wallet

(* The same of the next state.                                             *)
LEMMA TreasuryTypeNext ==
    ASSUME IInv'
    PROVE  \A g \in Registered : Treasury'[g] = wallets'[g].total /\ Treasury'[g] \in Nat
BY DEF Treasury, IInv, TypeOK, Wallet

(* A purchase moves its cost from one treasury to another.                 *)
LEMMA PurchaseConserves ==
    ASSUME IInv, IInv', NEW i \in ItemIDs, NEW buyer \in Guilds, NEW qty \in Quantities,
           NEW t \in Readings, Purchase(i, buyer, qty, t)
    PROVE  GoldIn(Treasury', Registered) = GoldIn(Treasury, Registered)
<1> DEFINE seller == items[i].seller
           cost == Cost(items[i], qty)
           m == [g \in Registered |-> Treasury[g] + (IF g = seller THEN cost ELSE 0)]
<1>1. /\ buyer \in Registered /\ seller \in Registered /\ buyer # seller /\ cost \in Nat
      /\ \A g \in Registered : wallets'[g].total = wallets[g].total
                                     + (IF g = seller THEN cost ELSE 0)
                                     - (IF g = buyer THEN cost ELSE 0)
  BY PurchaseMoves
<1>2. /\ \A g \in Registered : Treasury[g] = wallets[g].total /\ Treasury[g] \in Nat
      /\ \A g \in Registered : Treasury'[g] = wallets'[g].total /\ Treasury'[g] \in Nat
      /\ IsFiniteSet(Registered)
  BY TreasuryType, TreasuryTypeNext
<1> HIDE DEF seller, cost
<1>3. /\ \A g \in Registered : m[g] = IF g = seller THEN Treasury[g] + cost ELSE Treasury[g]
      /\ \A g \in Registered : m[g] = IF g = buyer THEN Treasury'[g] + cost ELSE Treasury'[g]
  BY <1>1, <1>2
<1> HIDE DEF m
<1>4. GoldIn(m, Registered) = GoldIn(Treasury, Registered) + cost
  BY <1>1, <1>2, <1>3, GoldInBump
<1>5. GoldIn(m, Registered) = GoldIn(Treasury', Registered) + cost
  BY <1>1, <1>2, <1>3, GoldInBump
<1>6. GoldIn(Treasury, Registered) \in Nat /\ GoldIn(Treasury', Registered) \in Nat
  BY <1>2, CoinsFinite
<1> QED  BY <1>1, <1>4, <1>5, <1>6

(* In a settlement the winners together pay what the sellers together get: *)
(* both are the leads of the auctions won.                                 *)
LEMMA SettleConserves ==
    ASSUME IInv, IInv', NEW t \in Readings, SettleMoved(t)
    PROVE  GoldIn(Treasury', Registered) = GoldIn(Treasury, Registered)
<1> DEFINE D == DueAuctions(t)
           W == Won(D)
           winner == [x \in W |-> LastBid(x).guild]
           seller == [x \in W |-> auctions[x].seller]
           paid == PerOwner(Leads, W, winner, Registered)
           earned == PerOwner(Leads, W, seller, Registered)
           m == [g \in Registered |-> Treasury'[g] + paid[g]]
<1>1. /\ IsFiniteSet(W)
      /\ \A x \in W : Leads[x] \in Nat
      /\ \A x \in W : LastBid(x).guild \in Registered /\ auctions[x].seller \in Registered
      /\ \A g \in Registered :
           /\ LedBy(g) \cap D = {x \in W : LastBid(x).guild = g}
           /\ GoldIn(Leads, LedBy(g) \cap D) \in Nat
           /\ GoldIn(Leads, SoldBy(g, D)) \in Nat
           /\ wallets'[g].total = wallets[g].total - GoldIn(Leads, LedBy(g) \cap D)
                                                   + GoldIn(Leads, SoldBy(g, D))
  BY Zenon DEF SettleMoved
<1>2. /\ \A g \in Registered : Treasury[g] = wallets[g].total /\ Treasury[g] \in Nat
      /\ \A g \in Registered : Treasury'[g] = wallets'[g].total /\ Treasury'[g] \in Nat
      /\ IsFiniteSet(Registered)
  BY TreasuryType, TreasuryTypeNext
<1>3. ASSUME NEW g \in Registered
      PROVE  /\ paid[g] = GoldIn(Leads, LedBy(g) \cap D)
             /\ earned[g] = GoldIn(Leads, SoldBy(g, D))
  <2>1. Of(W, winner, g) = LedBy(g) \cap D
    BY <1>1 DEF Of
  <2>2. Of(W, seller, g) = SoldBy(g, D)
    BY DEF Of, SoldBy
  <2>3. paid[g] = GoldIn(Leads, Of(W, winner, g)) /\ earned[g] = GoldIn(Leads, Of(W, seller, g))
    BY DEF PerOwner
  <2> QED  BY <2>1, <2>2, <2>3, Zenon
<1>4. (\A x \in W : winner[x] \in Registered) /\ (\A x \in W : seller[x] \in Registered)
  BY <1>1
<1> HIDE DEF W, D, winner, seller
<1>5. GoldIn(paid, Registered) = GoldIn(Leads, W) /\ GoldIn(earned, Registered) = GoldIn(Leads, W)
  BY <1>1, <1>4, GoldInGrouped
<1> HIDE DEF paid, earned
<1>6. ASSUME NEW g \in Registered
      PROVE  /\ paid[g] \in Nat /\ earned[g] \in Nat
             /\ m[g] = Treasury'[g] + paid[g]
             /\ m[g] = Treasury[g] + earned[g]
  <2>1. /\ paid[g] \in Nat /\ earned[g] \in Nat
        /\ wallets'[g].total = wallets[g].total - paid[g] + earned[g]
    BY <1>1, <1>3, Zenon
  <2>2. /\ Treasury[g] = wallets[g].total /\ Treasury[g] \in Nat
        /\ Treasury'[g] = wallets'[g].total /\ m[g] = Treasury'[g] + paid[g]
    BY <1>2
  <2> QED  BY <2>1, <2>2
<1> HIDE DEF m
<1>7. GoldIn(m, Registered) = GoldIn(Treasury', Registered) + GoldIn(paid, Registered)
  BY <1>2, <1>6, GoldInPlus
<1>8. GoldIn(m, Registered) = GoldIn(Treasury, Registered) + GoldIn(earned, Registered)
  BY <1>2, <1>6, GoldInPlus
<1>9. /\ GoldIn(Treasury, Registered) \in Nat /\ GoldIn(Treasury', Registered) \in Nat
      /\ GoldIn(Leads, W) \in Nat
  BY <1>1, <1>2, CoinsFinite
<1> QED  BY <1>5, <1>7, <1>8, <1>9

(* A step that leaves every total alone leaves their sum alone.            *)
LEMMA SameTotals ==
    ASSUME IInv, IInv', \A g \in Registered : wallets'[g].total = wallets[g].total
    PROVE  GoldIn(Treasury', Registered) = GoldIn(Treasury, Registered)
<1>1. \A g \in Registered : Treasury'[g] = Treasury[g]
  BY TreasuryType, TreasuryTypeNext
<1> QED  BY <1>1, GoldInEq

(* No step changes the sum of the treasuries.                              *)
LEMMA NextConserves ==
    ASSUME IInv, IInv', [Next]_vars
    PROVE  GoldIn(Treasury', Registered) = GoldIn(Treasury, Registered)
<1>1. ASSUME NEW i \in ItemIDs, NEW buyer \in Guilds, NEW qty \in Quantities,
             NEW t \in Readings, Purchase(i, buyer, qty, t)
      PROVE  GoldIn(Treasury', Registered) = GoldIn(Treasury, Registered)
  BY <1>1, PurchaseConserves
<1>2. ASSUME NEW i \in ItemIDs, NEW bidder \in Guilds, NEW amount \in Amounts,
             NEW t \in Readings, BidOnItem(i, bidder, amount, t)
      PROVE  GoldIn(Treasury', Registered) = GoldIn(Treasury, Registered)
  <2>1. \A g \in Registered : wallets'[g].total = wallets[g].total
    BY <1>2, BidMoves DEF BidMoved
  <2> QED  BY <2>1, SameTotals
<1>3. ASSUME NEW t \in Readings, SettleDueAuctions(t), CanSettleAll(DueAuctions(t))
      PROVE  GoldIn(Treasury', Registered) = GoldIn(Treasury, Registered)
  <2>1. SettleMoved(t)
    BY <1>3, SettleMoves
  <2> QED  BY <2>1, SettleConserves
<1>4. CASE UNCHANGED wallets
  BY <1>4, SameTotals
<1>5. \A t : SettleDueAuctions(t) /\ ~CanSettleAll(DueAuctions(t)) => UNCHANGED wallets
  BY DEF SettleDueAuctions, vars
<1> QED  BY <1>1, <1>2, <1>3, <1>4, <1>5
         DEF Next, RunSettlementWorker, CreateItem, CancelBidOnItem, Tick, vars

(* The treasuries always hold together what they were seeded with: no      *)
(* purchase, bid or settlement batch, for any number of guilds, auctions   *)
(* and winners, makes or loses gold.                                       *)
THEOREM GoldIsConserved == Spec => []GoldConserved
<1>1. ASSUME Init PROVE GoldConserved
  <2>1. \A g \in Registered : Treasury[g] = SeedGold[g]
    BY <1>1 DEF Init, Treasury
  <2> QED  BY <2>1, GoldInEq DEF GoldConserved
<1>2. ASSUME IInv, IInv', GoldConserved, [Next]_vars PROVE GoldConserved'
  BY <1>2, NextConserves DEF GoldConserved
<1> QED  BY <1>1, <1>2, MarketInvariant, PTL DEF Spec

-----------------------------------------------------------------------------
(* Sums over the ledger.  ItemIDs may be infinite; the entries are not.    *)

FinitelyManyItems == IsFiniteSet(DOMAIN items)

(* Nothing is posted for an item before it is listed.                      *)
OnlyItemsPosted == \A k \in LedgerKeys : k[3] \notin DOMAIN items => ledger[k] = 0

BInv == IInv /\ AuctionsMatchItems /\ FinitelyManyItems /\ OnlyItemsPosted

(* The entries of guild g of the given types, for items in I, on days Ds.  *)
Slice(g, types, I, Ds) == {g} \X types \X I \X Ds

(* Its members, one by one.                                                *)
LEMMA SliceMembers ==
    ASSUME NEW g, NEW types, NEW I, NEW Ds
    PROVE  /\ \A k \in Slice(g, types, I, Ds) :
                /\ k[1] = g /\ k[2] \in types /\ k[3] \in I /\ k[4] \in Ds
                /\ k = <<k[1], k[2], k[3], k[4]>>
           /\ \A h, y, i, d : <<h, y, i, d>> \in Slice(g, types, I, Ds) <=>
                h = g /\ y \in types /\ i \in I /\ d \in Ds
BY DEF Slice

(* A slice of the ledger for finitely many items is finite.                *)
LEMMA SliceFinite ==
    ASSUME NEW g \in Registered, NEW types \in SUBSET LedgerTypes,
           NEW I \in SUBSET ItemIDs, IsFiniteSet(I), NEW Ds \in SUBSET Days
    PROVE  /\ IsFiniteSet(Slice(g, types, I, Ds))
           /\ Slice(g, types, I, Ds) \subseteq LedgerKeys
<1>1. IsFiniteSet(LedgerTypes)
  <2>1. IsFiniteSet({"debit"} \cup {"credit"})
    BY FS_Singleton, FS_Union
  <2>2. IsFiniteSet({"debit"} \cup {"credit"} \cup {"reserve"})
    BY <2>1, FS_AddElement
  <2>3. IsFiniteSet({"debit"} \cup {"credit"} \cup {"reserve"} \cup {"release"})
    BY <2>2, FS_AddElement
  <2>4. IsFiniteSet({"debit"} \cup {"credit"} \cup {"reserve"} \cup {"release"} \cup {"settle"})
    BY <2>3, FS_AddElement
  <2>5. LedgerTypes =
          {"debit"} \cup {"credit"} \cup {"reserve"} \cup {"release"} \cup {"settle"}
    BY DEF LedgerTypes
  <2> QED  BY <2>4, <2>5
<1>2. IsFiniteSet(Days)
  <2>1. Day(MaxTime) \in Int
    BY ClockAssumption DEF Day
  <2> QED  BY <2>1, FS_Interval DEF Days
<1>3. IsFiniteSet(types) /\ IsFiniteSet(Ds)
  BY <1>1, <1>2, FS_Subset
<1>4. IsFiniteSet(types \X I)
  BY <1>3, FS_Product
<1> DEFINE P == (types \X I) \X Ds
           f == [p \in P |-> <<g, p[1][1], p[1][2], p[2]>>]
<1>5. IsFiniteSet(P)
  BY <1>3, <1>4, FS_Product
<1>6. f \in Surjection(P, Slice(g, types, I, Ds))
  <2>1. ASSUME NEW p \in P PROVE f[p] \in Slice(g, types, I, Ds)
    BY SliceMembers
  <2>2. ASSUME NEW k \in Slice(g, types, I, Ds) PROVE \E p \in P : f[p] = k
    <3>1. /\ k[1] = g /\ k[2] \in types /\ k[3] \in I /\ k[4] \in Ds
          /\ k = <<k[1], k[2], k[3], k[4]>>
      BY SliceMembers
    <3>2. <<<<k[2], k[3]>>, k[4]>> \in P /\ f[<<<<k[2], k[3]>>, k[4]>>] = k
      BY <3>1
    <3> QED  BY <3>2
  <2>3. f \in [P -> Slice(g, types, I, Ds)]
    BY <2>1
  <2> HIDE DEF f, P
  <2> QED  BY <2>2, <2>3 DEF Surjection
<1>7. IsFiniteSet(Slice(g, types, I, Ds))
  BY <1>5, <1>6, FS_Surjection
<1>8. Slice(g, types, I, Ds) \subseteq LedgerKeys
  BY DEF Slice, LedgerKeys
<1> QED  BY <1>7, <1>8

(* What the ledger shows in a slice is what it shows there for the items   *)
(* listed.                                                                 *)
LEMMA SliceListed ==
    ASSUME BInv, NEW g \in Registered, NEW types \in SUBSET LedgerTypes, NEW Ds \in SUBSET Days
    PROVE  LET S == Slice(g, types, ItemIDs, Ds)
               T == Slice(g, types, DOMAIN items, Ds)
           IN  /\ T \subseteq S /\ IsFiniteSet(T) /\ S \subseteq LedgerKeys
               /\ \A k \in S \ T : ledger[k] = 0 /\ k[3] \notin DOMAIN items
               /\ GoldIn(ledger, S) = GoldIn(ledger, T)
               /\ GoldIn(ledger, S) \in Nat
<1> DEFINE S == Slice(g, types, ItemIDs, Ds)
           T == Slice(g, types, DOMAIN items, Ds)
<1>1. DOMAIN items \in SUBSET ItemIDs /\ IsFiniteSet(DOMAIN items)
  BY DEF BInv, IInv, TypeOK, FinitelyManyItems
<1>2. IsFiniteSet(T) /\ T \subseteq LedgerKeys
  BY <1>1, SliceFinite
<1>3. T \subseteq S /\ S \subseteq LedgerKeys
  BY <1>1 DEF Slice, LedgerKeys
<1>4. ASSUME NEW k \in S \ T PROVE ledger[k] = 0 /\ k[3] \notin DOMAIN items
  <2>1. k[3] \notin DOMAIN items
    <3>1. /\ k[1] = g /\ k[2] \in types /\ k[4] \in Ds
          /\ k = <<k[1], k[2], k[3], k[4]>>
      BY SliceMembers
    <3>2. k[3] \in DOMAIN items => k \in T
      BY <3>1, SliceMembers
    <3> QED  BY <3>2
  <2> QED  BY <1>3, <2>1 DEF BInv, OnlyItemsPosted
<1> HIDE DEF S, T
<1>5. GoldIn(ledger, S) = GoldIn(ledger, T)
  BY <1>3, <1>4, GoldInSupport
<1>6. \A k \in T : ledger[k] \in Nat
  BY <1>2 DEF BInv, IInv, TypeOK
<1>7. GoldIn(ledger, T) \in Nat
  BY <1>2, <1>6, CoinsFinite
<1> QED  BY <1>2, <1>3, <1>4, <1>5, <1>7 DEF S, T

(* One entry posted, as seen by a slice.                                   *)
LEMMA SlicePost ==
    ASSUME BInv, NEW g \in Registered, NEW types \in SUBSET LedgerTypes,
           NEW Ds \in SUBSET Days, NEW k, k[3] \in DOMAIN items, NEW c \in Nat,
           \A y \in Slice(g, types, ItemIDs, Ds) :
               ledger'[y] = IF y = k THEN ledger[y] + c ELSE ledger[y]
    PROVE  LET S == Slice(g, types, ItemIDs, Ds)
           IN  GoldIn(ledger', S) = GoldIn(ledger, S) + (IF k \in S THEN c ELSE 0)
<1> DEFINE S == Slice(g, types, ItemIDs, Ds)
           T == Slice(g, types, DOMAIN items, Ds)
<1>1. /\ T \subseteq S /\ IsFiniteSet(T) /\ S \subseteq LedgerKeys
      /\ \A y \in S \ T : ledger[y] = 0 /\ y[3] \notin DOMAIN items
      /\ GoldIn(ledger, S) = GoldIn(ledger, T)
  BY SliceListed
<1>2. \A y \in S : ledger[y] \in Nat /\ ledger'[y] = IF y = k THEN ledger[y] + c ELSE ledger[y]
  BY <1>1 DEF BInv, IInv, TypeOK
<1> HIDE DEF S, T
<1>3. k \in S <=> k \in T
  BY <1>1
<1>4. \A y \in S \ T : ledger'[y] = 0
  BY <1>1, <1>2
<1>5. GoldIn(ledger', S) = GoldIn(ledger', T)
  BY <1>1, <1>4, GoldInSupport
<1>6. GoldIn(ledger', T) = GoldIn(ledger, T) + (IF k \in T THEN c ELSE 0)
  <2>1. \A y \in T : ledger[y] \in Nat /\ ledger'[y] = IF y = k THEN ledger[y] + c ELSE ledger[y]
    BY <1>1, <1>2
  <2> QED  BY <1>1, <2>1, GoldInBump
<1> QED  BY <1>1, <1>3, <1>5, <1>6 DEF S

(* A settlement, as seen by a slice of credits or a slice without any.     *)
LEMMA SliceSettle ==
    ASSUME BInv, NEW t \in Readings, SettleMoved(t),
           NEW g \in Registered, NEW types \in SUBSET LedgerTypes, NEW Ds \in SUBSET Days,
           NEW key, \/ key = SellerKey(t) /\ types = {"credit"}
                    \/ key = WinnerKey(t) /\ "credit" \notin types
    PROVE  LET S == Slice(g, types, ItemIDs, Ds)
           IN  GoldIn(ledger', S) =
                 GoldIn(ledger, S) + GoldIn(Leads, {x \in Won(DueAuctions(t)) : key[x] \in S})
<1> DEFINE S == Slice(g, types, ItemIDs, Ds)
           T == Slice(g, types, DOMAIN items, Ds)
           W == Won(DueAuctions(t))
<1>1. /\ T \subseteq S /\ IsFiniteSet(T) /\ S \subseteq LedgerKeys
      /\ \A y \in S \ T : ledger[y] = 0 /\ y[3] \notin DOMAIN items
      /\ GoldIn(ledger, S) = GoldIn(ledger, T)
  BY SliceListed
<1>2. \A k \in T : k[2] \in types
  BY SliceMembers
<1>3. T \in SUBSET LedgerKeys /\ IInv
  BY <1>1 DEF BInv
<1>4. /\ W \subseteq DOMAIN auctions
      /\ \A k \in LedgerKeys :
           ledger'[k] = ledger[k] + GoldIn(Leads, {x \in W : \/ k = WinnerKey(t)[x]
                                                            \/ k = SellerKey(t)[x]})
  BY Zenon DEF SettleMoved, Won
<1>5. \A x \in W : /\ WinnerKey(t)[x][3] \in DOMAIN items
                   /\ SellerKey(t)[x][3] \in DOMAIN items
  BY <1>4 DEF WinnerKey, SellerKey, BInv, AuctionsMatchItems
<1> HIDE DEF S, T, W
<1>6. GoldIn(ledger', T) = GoldIn(ledger, T) + GoldIn(Leads, {x \in W : key[x] \in T})
  BY <1>1, <1>2, <1>3, SettlePosts DEF W
<1>7. {x \in W : key[x] \in T} = {x \in W : key[x] \in S}
  BY <1>1, <1>5
<1>8. ASSUME NEW k \in S \ T PROVE ledger'[k] = 0
  <2>1. {x \in W : k = WinnerKey(t)[x] \/ k = SellerKey(t)[x]} = {}
    BY <1>1, <1>5
  <2>2. ledger'[k] = ledger[k] + GoldIn(Leads, {})
    BY <1>1, <1>4, <2>1, Zenon
  <2> QED  BY <1>1, <2>2, GoldInEmpty
<1>9. GoldIn(ledger', S) = GoldIn(ledger', T)
  BY <1>1, <1>8, GoldInSupport
<1> QED  BY <1>1, <1>6, <1>7, <1>9, Zenon DEF S, W

(* Every unit posts for listed items only.                                 *)
LEMMA NextKeepsBooks ==
    ASSUME BInv, [Next]_vars
    PROVE  BInv'
<1> USE DEF BInv
<1>1. IInv' /\ AuctionsMatchItems'
  BY NextKeeps, NextKeepsMatch
<1>2. ASSUME NEW in \in Listings, NEW i \in ItemIDs, NEW t \in Readings,
             CreateItem(in, i, t)
      PROVE  FinitelyManyItems' /\ OnlyItemsPosted'
  <2>1. DOMAIN items' = DOMAIN items \cup {i} /\ UNCHANGED ledger
    BY <1>2 DEF CreateItem, Put
  <2>2. IsFiniteSet(DOMAIN items \cup {i})
    BY FS_AddElement DEF FinitelyManyItems
  <2> QED  BY <2>1, <2>2 DEF FinitelyManyItems, OnlyItemsPosted
<1>3. ASSUME NEW i \in ItemIDs, NEW buyer \in Guilds, NEW qty \in Quantities,
             NEW t \in Readings, Purchase(i, buyer, qty, t)
      PROVE  FinitelyManyItems' /\ OnlyItemsPosted'
  <2>1. /\ i \in DOMAIN items
        /\ \A k \in LedgerKeys :
             ledger'[k] = IF \/ k = <<buyer, "debit", i, Day(t)>>
                             \/ k = <<items[i].seller, "credit", i, Day(t)>>
                          THEN ledger[k] + Cost(items[i], qty) ELSE ledger[k]
    BY <1>3, PurchaseMoves
  <2>2. DOMAIN items' = DOMAIN items
    BY <1>3 DEF Purchase
  <2>3. ASSUME NEW k \in LedgerKeys, k[3] \notin DOMAIN items PROVE ledger'[k] = 0
    <3>1. k # <<buyer, "debit", i, Day(t)>> /\ k # <<items[i].seller, "credit", i, Day(t)>>
      BY <2>1, <2>3
    <3> QED  BY <2>1, <2>3, <3>1 DEF OnlyItemsPosted
  <2> QED  BY <2>2, <2>3 DEF FinitelyManyItems, OnlyItemsPosted
<1>4. ASSUME NEW i \in ItemIDs, NEW bidder \in Guilds, NEW amount \in Amounts,
             NEW t \in Readings, BidOnItem(i, bidder, amount, t)
      PROVE  FinitelyManyItems' /\ OnlyItemsPosted'
  <2>1. PICK x \in DOMAIN auctions : BidMoved(x, i, bidder, amount, t)
    BY <1>4, BidMoves
  <2>2. i \in DOMAIN items /\ UNCHANGED items
    BY <1>4, <2>1 DEF BidMoved, AuctionsMatchItems, BidOnItem
  <2>3. ASSUME NEW k \in LedgerKeys, k[3] \notin DOMAIN items PROVE ledger'[k] = 0
    <3>1. k # <<bidder, "reserve", i, Day(t)>> /\ k # <<LastBid(x).guild, "release", i, Day(t)>>
      BY <2>2, <2>3
    <3> QED  BY <2>1, <2>3, <3>1 DEF OnlyItemsPosted, BidMoved
  <2> QED  BY <2>2, <2>3 DEF FinitelyManyItems, OnlyItemsPosted
<1>5. ASSUME NEW t \in Readings, SettleDueAuctions(t), CanSettleAll(DueAuctions(t))
      PROVE  FinitelyManyItems' /\ OnlyItemsPosted'
  <2> DEFINE W == Won(DueAuctions(t))
  <2>1. SettleMoved(t)
    BY <1>5, SettleMoves
  <2>2. /\ W \subseteq DOMAIN auctions /\ DOMAIN items' = DOMAIN items
        /\ \A k \in LedgerKeys :
             ledger'[k] = ledger[k] + GoldIn(Leads, {x \in W : \/ k = WinnerKey(t)[x]
                                                              \/ k = SellerKey(t)[x]})
    BY <2>1, Zenon DEF SettleMoved, Won, SettledItems
  <2>3. \A x \in W : /\ WinnerKey(t)[x][3] \in DOMAIN items
                     /\ SellerKey(t)[x][3] \in DOMAIN items
    BY <2>2 DEF WinnerKey, SellerKey, AuctionsMatchItems
  <2> HIDE DEF W
  <2>4. ASSUME NEW k \in LedgerKeys, k[3] \notin DOMAIN items PROVE ledger'[k] = 0
    <3>1. {x \in W : k = WinnerKey(t)[x] \/ k = SellerKey(t)[x]} = {}
      BY <2>3, <2>4
    <3>2. ledger'[k] = ledger[k] + GoldIn(Leads, {})
      BY <2>2, <3>1, Zenon
    <3> QED  BY <2>4, <3>2, GoldInEmpty DEF OnlyItemsPosted
  <2> QED  BY <2>2, <2>4 DEF FinitelyManyItems, OnlyItemsPosted
<1>6. ASSUME UNCHANGED <<items, ledger>> PROVE FinitelyManyItems' /\ OnlyItemsPosted'
  BY <1>6 DEF FinitelyManyItems, OnlyItemsPosted
<1>7. \A t : SettleDueAuctions(t) /\ ~CanSettleAll(DueAuctions(t)) => UNCHANGED <<items, ledger>>
  BY DEF SettleDueAuctions, vars
<1>8. FinitelyManyItems' /\ OnlyItemsPosted'
  BY <1>2, <1>3, <1>4, <1>5, <1>6, <1>7
     DEF Next, RunSettlementWorker, CancelBidOnItem, Tick, vars
<1> QED  BY <1>1, <1>8

(* The books are in order throughout: the basis of the theorems below.     *)
THEOREM BooksInvariant == Spec => []BInv
<1>1. ASSUME Init PROVE BInv
  <2>1. IInv
    BY <1>1, InitKeeps
  <2>2. AuctionsMatchItems
    BY <1>1 DEF Init, AuctionsMatchItems
  <2>3. FinitelyManyItems /\ OnlyItemsPosted
    BY <1>1, FS_EmptySet DEF Init, FinitelyManyItems, OnlyItemsPosted
  <2> QED  BY <2>1, <2>2, <2>3 DEF BInv
<1>2. BInv /\ [Next]_vars => BInv'
  BY NextKeepsBooks
<1> QED  BY <1>1, <1>2, PTL DEF Spec

-----------------------------------------------------------------------------
(* The ledger replays to the wallets.                                      *)

(* Posted, PostedOn and PostedFor read slices.                             *)
LEMMA PostedIsSlice ==
    ASSUME NEW g, NEW types, NEW d
    PROVE  /\ Posted(g, types, 0) = GoldIn(ledger, Slice(g, types, ItemIDs, Days))
           /\ Posted(g, types, 0)' = GoldIn(ledger', Slice(g, types, ItemIDs, Days))
           /\ PostedOn(g, types, d) = GoldIn(ledger, Slice(g, types, ItemIDs, {d}))
           /\ PostedOn(g, types, d)' = GoldIn(ledger', Slice(g, types, ItemIDs, {d}))
<1>1. {e \in Days : e >= 0} = Days
  BY DEF Days
<1> QED  BY <1>1 DEF Posted, PostedOn, Slice

(* A slice in which nothing changes.                                       *)
LEMMA SliceSame ==
    ASSUME NEW g, NEW types, NEW I, NEW Ds,
           \A k \in Slice(g, types, I, Ds) : ledger'[k] = ledger[k]
    PROVE  GoldIn(ledger', Slice(g, types, I, Ds)) = GoldIn(ledger, Slice(g, types, I, Ds))
BY GoldInEq

(* A purchase, as the buyer, the seller and everyone else see it.          *)
LEMMA PurchasePosts ==
    ASSUME BInv, NEW i \in ItemIDs, NEW buyer \in Guilds, NEW qty \in Quantities,
           NEW t \in Readings, Purchase(i, buyer, qty, t),
           NEW g \in Registered, NEW types \in SUBSET LedgerTypes, NEW Ds \in SUBSET Days
    PROVE  LET S == Slice(g, types, ItemIDs, Ds)
               cost == Cost(items[i], qty)
           IN  /\ "credit" \notin types =>
                    GoldIn(ledger', S) = GoldIn(ledger, S) +
                      (IF g = buyer /\ "debit" \in types /\ Day(t) \in Ds THEN cost ELSE 0)
               /\ "debit" \notin types =>
                    GoldIn(ledger', S) = GoldIn(ledger, S) +
                      (IF g = items[i].seller /\ "credit" \in types /\ Day(t) \in Ds
                       THEN cost ELSE 0)
<1> DEFINE S == Slice(g, types, ItemIDs, Ds)
           cost == Cost(items[i], qty)
           seller == items[i].seller
           debit == <<buyer, "debit", i, Day(t)>>
           credit == <<seller, "credit", i, Day(t)>>
<1>1. /\ i \in DOMAIN items /\ cost \in Nat
      /\ \A k \in LedgerKeys :
           ledger'[k] = IF k = debit \/ k = credit THEN ledger[k] + cost ELSE ledger[k]
  BY PurchaseMoves DEF BInv
<1>2. S \subseteq LedgerKeys /\ \A k \in S : k[2] \in types
  BY SliceListed, SliceMembers
<1>3. debit[3] \in DOMAIN items /\ credit[3] \in DOMAIN items
  BY <1>1
<1>4. /\ debit \in S <=> g = buyer /\ "debit" \in types /\ Day(t) \in Ds
      /\ credit \in S <=> g = seller /\ "credit" \in types /\ Day(t) \in Ds
  BY SliceMembers
<1>5. debit[2] = "debit" /\ credit[2] = "credit"
  OBVIOUS
<1> HIDE DEF cost, debit, credit, seller
<1>6. ASSUME "credit" \notin types
      PROVE  GoldIn(ledger', S) = GoldIn(ledger, S) + (IF debit \in S THEN cost ELSE 0)
  <2>1. \A k \in S : ledger'[k] = IF k = debit THEN ledger[k] + cost ELSE ledger[k]
    BY <1>1, <1>2, <1>5, <1>6
  <2> QED  BY <1>1, <1>3, <2>1, SlicePost
<1>7. ASSUME "debit" \notin types
      PROVE  GoldIn(ledger', S) = GoldIn(ledger, S) + (IF credit \in S THEN cost ELSE 0)
  <2>1. \A k \in S : ledger'[k] = IF k = credit THEN ledger[k] + cost ELSE ledger[k]
    BY <1>1, <1>2, <1>5, <1>7
  <2> QED  BY <1>1, <1>3, <2>1, SlicePost
<1> QED  BY <1>4, <1>6, <1>7 DEF S, cost, seller

(* A settlement, as a winner and as a seller see it.                       *)
LEMMA SettlementPosts ==
    ASSUME BInv, NEW t \in Readings, SettleMoved(t), NEW g \in Registered,
           NEW types \in SUBSET LedgerTypes
    PROVE  LET S == Slice(g, types, ItemIDs, Days)
           IN  /\ types = {"credit"} =>
                    GoldIn(ledger', S) =
                      GoldIn(ledger, S) + GoldIn(Leads, SoldBy(g, DueAuctions(t)))
               /\ "credit" \notin types /\ "settle" \in types =>
                    GoldIn(ledger', S) =
                      GoldIn(ledger, S) + GoldIn(Leads, LedBy(g) \cap DueAuctions(t))
               /\ "credit" \notin types /\ "settle" \notin types =>
                    GoldIn(ledger', S) = GoldIn(ledger, S)
<1> DEFINE S == Slice(g, types, ItemIDs, Days)
           W == Won(DueAuctions(t))
<1>1. /\ W \subseteq DOMAIN auctions
      /\ LedBy(g) \cap DueAuctions(t) = {x \in W : LastBid(x).guild = g}
  BY Zenon DEF SettleMoved, Won
<1>2. \A x \in DOMAIN auctions : auctions[x].item \in ItemIDs
  BY DEF BInv, IInv, TypeOK, Auction
<1>3. Day(t) \in Days
  BY ReadingIsTime DEF BInv
<1>4. ASSUME NEW x \in W
      PROVE  /\ SellerKey(t)[x] \in S <=> auctions[x].seller = g /\ "credit" \in types
             /\ WinnerKey(t)[x] \in S <=> LastBid(x).guild = g /\ "settle" \in types
  <2>1. /\ SellerKey(t)[x] = <<auctions[x].seller, "credit", auctions[x].item, Day(t)>>
        /\ WinnerKey(t)[x] = <<LastBid(x).guild, "settle", auctions[x].item, Day(t)>>
    BY <1>1 DEF SellerKey, WinnerKey
  <2> QED  BY <1>1, <1>2, <1>3, <2>1, SliceMembers
<1>5. SoldBy(g, DueAuctions(t)) = {x \in W : auctions[x].seller = g}
  BY DEF SoldBy
<1>6. GoldIn(ledger, S) \in Nat
  BY SliceListed
<1> HIDE DEF W, S
<1>7. ASSUME types = {"credit"}
      PROVE  GoldIn(ledger', S) = GoldIn(ledger, S) + GoldIn(Leads, SoldBy(g, DueAuctions(t)))
  <2>1. {x \in W : SellerKey(t)[x] \in S} = SoldBy(g, DueAuctions(t))
    BY <1>4, <1>5, <1>7
  <2>2. GoldIn(ledger', S) =
          GoldIn(ledger, S) + GoldIn(Leads, {x \in W : SellerKey(t)[x] \in S})
    BY <1>7, SliceSettle DEF S, W
  <2> QED  BY <2>1, <2>2, Zenon
<1>8. ASSUME "credit" \notin types
      PROVE  GoldIn(ledger', S) =
               GoldIn(ledger, S) + GoldIn(Leads, {x \in W : WinnerKey(t)[x] \in S})
  BY <1>8, SliceSettle DEF S, W
<1>9. ASSUME "credit" \notin types, "settle" \in types
      PROVE  GoldIn(ledger', S) =
               GoldIn(ledger, S) + GoldIn(Leads, LedBy(g) \cap DueAuctions(t))
  <2>1. {x \in W : WinnerKey(t)[x] \in S} = LedBy(g) \cap DueAuctions(t)
    BY <1>1, <1>4, <1>9
  <2> QED  BY <1>8, <1>9, <2>1, Zenon
<1>10. ASSUME "credit" \notin types, "settle" \notin types
       PROVE  GoldIn(ledger', S) = GoldIn(ledger, S)
  <2>1. {x \in W : WinnerKey(t)[x] \in S} = {}
    BY <1>4, <1>10
  <2>2. GoldIn(ledger', S) = GoldIn(ledger, S) + GoldIn(Leads, {})
    BY <1>8, <1>10, <2>1, Zenon
  <2> QED  BY <1>6, <2>2, GoldInEmpty
<1> QED  BY <1>7, <1>9, <1>10 DEF S

(* A bid, as the bidder, the unseated leader and everyone else see it.     *)
LEMMA BidPosts ==
    ASSUME BInv, NEW i \in ItemIDs, NEW bidder \in Guilds, NEW amount \in Amounts,
           NEW t \in Readings, NEW x \in DOMAIN auctions, BidMoved(x, i, bidder, amount, t),
           NEW g \in Registered, NEW types \in SUBSET LedgerTypes, NEW Ds \in SUBSET Days
    PROVE  LET S == Slice(g, types, ItemIDs, Ds)
           IN  /\ "release" \notin types =>
                    GoldIn(ledger', S) = GoldIn(ledger, S) +
                      (IF g = bidder /\ "reserve" \in types /\ Day(t) \in Ds
                       THEN amount ELSE 0)
               /\ "reserve" \notin types =>
                    GoldIn(ledger', S) = GoldIn(ledger, S) +
                      (IF g # bidder /\ "release" \in types /\ Day(t) \in Ds
                       THEN LedWith(x, g) ELSE 0)
<1> DEFINE S == Slice(g, types, ItemIDs, Ds)
           reserve == <<bidder, "reserve", i, Day(t)>>
           release == <<LastBid(x).guild, "release", i, Day(t)>>
           freed == IF auctions[x].bids # <<>> /\ LastBid(x).guild # bidder
                    THEN Leads[x] ELSE 0
<1>1. /\ i \in DOMAIN items /\ amount \in Nat
      /\ \A k \in LedgerKeys :
           ledger'[k] =
             IF k = reserve THEN ledger[k] + amount
             ELSE IF /\ auctions[x].bids # <<>> /\ LastBid(x).guild # bidder
                     /\ k = release
                  THEN ledger[k] + Leads[x] ELSE ledger[k]
  BY DEF BidMoved, BInv, AuctionsMatchItems
<1>2. S \subseteq LedgerKeys /\ \A k \in S : k[2] \in types
  BY SliceListed, SliceMembers
<1>3. reserve[3] \in DOMAIN items /\ release[3] \in DOMAIN items
  BY <1>1
<1>4. /\ reserve \in S <=> g = bidder /\ "reserve" \in types /\ Day(t) \in Ds
      /\ release \in S <=> g = LastBid(x).guild /\ "release" \in types /\ Day(t) \in Ds
  BY SliceMembers
<1>5. reserve[2] = "reserve" /\ release[2] = "release"
  OBVIOUS
<1>6. Leads[x] \in Nat /\ \A k \in LedgerKeys : ledger[k] \in Nat
  BY LeadsRead DEF BInv, IInv, TypeOK, LeadsAreLast, BidMoved
<1> HIDE DEF reserve, release
<1>7. ASSUME "release" \notin types
      PROVE  GoldIn(ledger', S) = GoldIn(ledger, S) + (IF reserve \in S THEN amount ELSE 0)
  <2>1. \A k \in S : ledger'[k] = IF k = reserve THEN ledger[k] + amount ELSE ledger[k]
    BY <1>1, <1>2, <1>5, <1>7
  <2> QED  BY <1>1, <1>3, <2>1, SlicePost
<1>8. ASSUME "reserve" \notin types
      PROVE  GoldIn(ledger', S) = GoldIn(ledger, S) + (IF release \in S THEN freed ELSE 0)
  <2>1. \A k \in S : ledger'[k] = IF k = release THEN ledger[k] + freed ELSE ledger[k]
    BY <1>1, <1>2, <1>5, <1>6, <1>8
  <2>2. freed \in Nat
    BY <1>6
  <2> HIDE DEF freed
  <2> QED  BY <1>1, <1>3, <2>1, <2>2, SlicePost
<1>9. release \in S => freed = IF g # bidder THEN LedWith(x, g) ELSE 0
  BY <1>4 DEF LedWith
<1>10. g # bidder /\ "release" \in types /\ Day(t) \in Ds /\ release \notin S => LedWith(x, g) = 0
  BY <1>4 DEF LedWith
<1> HIDE DEF freed
<1> QED  BY <1>4, <1>7, <1>8, <1>9, <1>10 DEF S

(* A bid reserves and releases; no other entries change.                   *)
LEMMA BidSpares ==
    ASSUME BInv, NEW i \in ItemIDs, NEW bidder, NEW amount, NEW t \in Readings,
           NEW x, BidMoved(x, i, bidder, amount, t),
           NEW g \in Registered, NEW types \in SUBSET LedgerTypes, NEW Ds \in SUBSET Days,
           "reserve" \notin types, "release" \notin types
    PROVE  GoldIn(ledger', Slice(g, types, ItemIDs, Ds)) =
             GoldIn(ledger, Slice(g, types, ItemIDs, Ds))
<1> DEFINE S == Slice(g, types, ItemIDs, Ds)
<1>1. S \subseteq LedgerKeys /\ \A k \in S : k[2] \in types
  BY SliceListed, SliceMembers
<1>2. \A k \in S : ledger'[k] = ledger[k]
  BY <1>1 DEF BidMoved
<1> QED  BY <1>2, SliceSame

(* What guild g received and what it spent, in slices.                     *)
Received(g) == Slice(g, {"credit"}, ItemIDs, Days)

Spent(g) == Slice(g, {"debit", "settle"}, ItemIDs, Days)

(* The totals keep up with the ledger in every unit of work.               *)
LEMMA NextReplaysTotal ==
    ASSUME BInv, LedgerReplaysTotal, [Next]_vars
    PROVE  LedgerReplaysTotal'
<1> SUFFICES ASSUME NEW g \in Registered
             PROVE  wallets'[g].total = SeedGold[g] + GoldIn(ledger', Received(g))
                                                    - GoldIn(ledger', Spent(g))
  BY PostedIsSlice DEF LedgerReplaysTotal, Received, Spent
<1>1. /\ wallets[g].total = SeedGold[g] + GoldIn(ledger, Received(g))
                                        - GoldIn(ledger, Spent(g))
      /\ SeedGold[g] \in Nat
  BY PostedIsSlice, GuildsAssumption DEF LedgerReplaysTotal, Received, Spent
<1>2. {"credit"} \in SUBSET LedgerTypes /\ {"debit", "settle"} \in SUBSET LedgerTypes
  BY DEF LedgerTypes
<1>3. GoldIn(ledger, Received(g)) \in Nat /\ GoldIn(ledger, Spent(g)) \in Nat
  BY <1>2, SliceListed DEF Received, Spent
<1> DEFINE Goal == wallets'[g].total = SeedGold[g] + GoldIn(ledger', Received(g))
                                                   - GoldIn(ledger', Spent(g))
<1>4. ASSUME wallets'[g].total = wallets[g].total,
             GoldIn(ledger', Received(g)) = GoldIn(ledger, Received(g)),
             GoldIn(ledger', Spent(g)) = GoldIn(ledger, Spent(g))
      PROVE  Goal
  BY <1>1, <1>4
<1>5. ASSUME NEW i \in ItemIDs, NEW buyer \in Guilds, NEW qty \in Quantities,
             NEW t \in Readings, Purchase(i, buyer, qty, t)
      PROVE  Goal
  <2> DEFINE cost == Cost(items[i], qty)
             seller == items[i].seller
  <2>1. /\ cost \in Nat /\ buyer # seller
        /\ wallets'[g].total = wallets[g].total + (IF g = seller THEN cost ELSE 0)
                                                - (IF g = buyer THEN cost ELSE 0)
    BY <1>5, PurchaseMoves DEF BInv
  <2>2. Day(t) \in Days
    BY ReadingIsTime DEF BInv
  <2> HIDE DEF cost, seller
  <2>3. GoldIn(ledger', Received(g)) =
          GoldIn(ledger, Received(g)) + (IF g = seller THEN cost ELSE 0)
    BY <1>2, <1>5, <2>2, PurchasePosts DEF Received, cost, seller
  <2>4. GoldIn(ledger', Spent(g)) =
          GoldIn(ledger, Spent(g)) + (IF g = buyer THEN cost ELSE 0)
    BY <1>2, <1>5, <2>2, PurchasePosts DEF Spent, cost, seller
  <2> QED  BY <1>1, <1>3, <2>1, <2>3, <2>4
<1>6. ASSUME NEW i \in ItemIDs, NEW bidder \in Guilds, NEW amount \in Amounts,
             NEW t \in Readings, BidOnItem(i, bidder, amount, t)
      PROVE  Goal
  <2>1. PICK x \in DOMAIN auctions : BidMoved(x, i, bidder, amount, t)
    BY <1>6, BidMoves DEF BInv
  <2>2. GoldIn(ledger', Received(g)) = GoldIn(ledger, Received(g))
    BY <1>2, <2>1, BidSpares DEF Received
  <2>4. GoldIn(ledger', Spent(g)) = GoldIn(ledger, Spent(g))
    BY <1>2, <2>1, BidSpares DEF Spent
  <2>3. wallets'[g].total = wallets[g].total
    BY <2>1 DEF BidMoved
  <2> QED  BY <1>4, <2>2, <2>3, <2>4
<1>7. ASSUME NEW t \in Readings, SettleDueAuctions(t), CanSettleAll(DueAuctions(t))
      PROVE  Goal
  <2> DEFINE paid == GoldIn(Leads, LedBy(g) \cap DueAuctions(t))
             earned == GoldIn(Leads, SoldBy(g, DueAuctions(t)))
  <2>1. SettleMoved(t)
    BY <1>7, SettleMoves DEF BInv
  <2>2. /\ paid \in Nat /\ earned \in Nat
        /\ wallets'[g].total = wallets[g].total - paid + earned
    BY <2>1, Zenon DEF SettleMoved
  <2>3. GoldIn(ledger', Received(g)) = GoldIn(ledger, Received(g)) + earned
    BY <1>2, <2>1, SettlementPosts DEF Received
  <2>4. GoldIn(ledger', Spent(g)) = GoldIn(ledger, Spent(g)) + paid
    BY <1>2, <2>1, SettlementPosts DEF Spent
  <2> HIDE DEF paid, earned
  <2> QED  BY <1>1, <1>3, <2>2, <2>3, <2>4
<1>8. ASSUME UNCHANGED <<wallets, ledger>> PROVE Goal
  BY <1>4, <1>8
<1>9. \A t : SettleDueAuctions(t) /\ ~CanSettleAll(DueAuctions(t)) => UNCHANGED <<wallets, ledger>>
  BY DEF SettleDueAuctions, vars
<1> HIDE DEF Goal
<1>10. Goal
  BY <1>5, <1>6, <1>7, <1>8, <1>9
     DEF Next, RunSettlementWorker, CreateItem, CancelBidOnItem, Tick, vars
<1> QED  BY <1>10 DEF Goal

(* Nothing is posted when the market opens.                                *)
LEMMA InitPostsNothing ==
    ASSUME Init, NEW S \in SUBSET LedgerKeys
    PROVE  GoldIn(ledger, S) = 0
<1>1. \A k \in S \ {} : ledger[k] = 0
  BY DEF Init
<1> QED  BY <1>1, GoldInSupport, GoldInEmpty

(* Replaying any guild's ledger from its seed gold gives its treasury, for *)
(* every interleaving of purchases, bids and settlements (R9).             *)
THEOREM LedgerExplainsTotals == Spec => []LedgerReplaysTotal
<1>1. ASSUME Init PROVE LedgerReplaysTotal
  <2> SUFFICES ASSUME NEW g \in Registered
               PROVE  wallets[g].total = SeedGold[g] + GoldIn(ledger, Received(g))
                                                     - GoldIn(ledger, Spent(g))
    BY PostedIsSlice DEF LedgerReplaysTotal, Received, Spent
  <2>1. Received(g) \subseteq LedgerKeys /\ Spent(g) \subseteq LedgerKeys
    BY DEF Received, Spent, Slice, LedgerKeys, LedgerTypes
  <2>2. GoldIn(ledger, Received(g)) = 0 /\ GoldIn(ledger, Spent(g)) = 0
    BY <1>1, <2>1, InitPostsNothing
  <2>3. wallets[g].total = SeedGold[g] /\ SeedGold[g] \in Nat
    BY <1>1, GuildsAssumption DEF Init
  <2> QED  BY <2>2, <2>3
<1>2. BInv /\ LedgerReplaysTotal /\ [Next]_vars => LedgerReplaysTotal'
  BY NextReplaysTotal
<1> QED  BY <1>1, <1>2, BooksInvariant, PTL DEF Spec

-----------------------------------------------------------------------------
(* The daily cap.                                                          *)

(* A day's purchases are part of what the cap check adds up.               *)
LEMMA DayWithinSince ==
    ASSUME BInv, NEW g \in Registered, NEW d \in Days
    PROVE  /\ PostedOn(g, {"debit"}, d) <= SpentSince(g, d)
           /\ PostedOn(g, {"debit"}, d) \in Nat /\ SpentSince(g, d) \in Nat
<1> DEFINE Ds == {e \in Days : e >= d}
           A == Slice(g, {"debit"}, DOMAIN items, {d})
           B == Slice(g, {"debit", "settle"}, DOMAIN items, Ds)
<1>1. /\ {"debit"} \in SUBSET LedgerTypes /\ {"debit", "settle"} \in SUBSET LedgerTypes
      /\ {d} \in SUBSET Days /\ Ds \in SUBSET Days
  BY DEF LedgerTypes
<1>2. /\ PostedOn(g, {"debit"}, d) = GoldIn(ledger, A)
      /\ PostedOn(g, {"debit"}, d) \in Nat
  <2>1. PostedOn(g, {"debit"}, d) = GoldIn(ledger, Slice(g, {"debit"}, ItemIDs, {d}))
    BY PostedIsSlice
  <2> QED  BY <1>1, <2>1, SliceListed
<1>3. /\ SpentSince(g, d) = GoldIn(ledger, B) /\ SpentSince(g, d) \in Nat
      /\ IsFiniteSet(B) /\ B \subseteq LedgerKeys
  <2>1. SpentSince(g, d) = GoldIn(ledger, Slice(g, {"debit", "settle"}, ItemIDs, Ds))
    BY DEF SpentSince, Posted, Slice
  <2> HIDE DEF Ds
  <2> QED  BY <1>1, <2>1, SliceListed
<1>4. A \subseteq B
  <2>1. d \in Ds
    BY DEF Days
  <2> QED  BY <2>1 DEF Slice
<1>5. \A k \in B : ledger[k] \in Nat
  BY <1>3 DEF BInv, IInv, TypeOK
<1> HIDE DEF A, B
<1>6. GoldIn(ledger, A) <= GoldIn(ledger, B)
  BY <1>3, <1>4, <1>5, GoldInPart
<1> QED  BY <1>2, <1>3, <1>6

(* Only a purchase posts a debit, and only within the cap of the day it    *)
(* posts it on.                                                            *)
LEMMA NextKeepsCap ==
    ASSUME BInv, PurchasesWithinCap, [Next]_vars
    PROVE  PurchasesWithinCap'
<1> SUFFICES ASSUME NEW g \in Registered, NEW d \in Days, DailyCap[g] > 0
             PROVE  GoldIn(ledger', Slice(g, {"debit"}, ItemIDs, {d})) <= DailyCap[g]
  BY PostedIsSlice DEF PurchasesWithinCap
<1> DEFINE S == Slice(g, {"debit"}, ItemIDs, {d})
           Goal == GoldIn(ledger', S) <= DailyCap[g]
<1>1. /\ GoldIn(ledger, S) <= DailyCap[g] /\ GoldIn(ledger, S) \in Nat
      /\ GoldIn(ledger, S) <= SpentSince(g, d) /\ SpentSince(g, d) \in Nat
      /\ DailyCap[g] \in Nat
  BY PostedIsSlice, DayWithinSince, GuildsAssumption DEF PurchasesWithinCap
<1>2. {"debit"} \in SUBSET LedgerTypes /\ {d} \in SUBSET Days
  BY DEF LedgerTypes
<1>3. ASSUME NEW i \in ItemIDs, NEW buyer \in Guilds, NEW qty \in Quantities,
             NEW t \in Readings, Purchase(i, buyer, qty, t)
      PROVE  Goal
  <2> DEFINE cost == Cost(items[i], qty)
  <2>1. GoldIn(ledger', S) =
          GoldIn(ledger, S) + (IF g = buyer /\ Day(t) \in {d} THEN cost ELSE 0)
    BY <1>2, <1>3, PurchasePosts
  <2>2. cost \in Nat
    BY <1>3, PurchaseMoves DEF BInv
  <2>3. WithinDailyCap(DailyCap[buyer], SpentSince(buyer, Day(t)), cost)
    BY <1>3 DEF Purchase
  <2> HIDE DEF cost, S
  <2>4. g = buyer /\ Day(t) = d => SpentSince(g, d) + cost <= DailyCap[g]
    BY <1>1, <2>3 DEF WithinDailyCap
  <2> QED  BY <1>1, <2>1, <2>2, <2>4
<1>4. ASSUME NEW i \in ItemIDs, NEW bidder \in Guilds, NEW amount \in Amounts,
             NEW t \in Readings, BidOnItem(i, bidder, amount, t)
      PROVE  Goal
  <2>1. PICK x \in DOMAIN auctions : BidMoved(x, i, bidder, amount, t)
    BY <1>4, BidMoves DEF BInv
  <2>2. GoldIn(ledger', S) = GoldIn(ledger, S)
    BY <1>2, <2>1, BidSpares
  <2> QED  BY <1>1, <2>2
<1>5. ASSUME NEW t \in Readings, SettleDueAuctions(t), CanSettleAll(DueAuctions(t))
      PROVE  Goal
  <2> DEFINE W == Won(DueAuctions(t))
  <2>1. SettleMoved(t)
    BY <1>5, SettleMoves DEF BInv
  <2>2. GoldIn(ledger', S) = GoldIn(ledger, S) + GoldIn(Leads, {x \in W : WinnerKey(t)[x] \in S})
    BY <1>2, <2>1, SliceSettle
  <2>3. {x \in W : WinnerKey(t)[x] \in S} = {}
    <3>1. \A x \in W : WinnerKey(t)[x][2] = "settle"
      <4>1. W \subseteq DOMAIN auctions
        BY <2>1, Zenon DEF SettleMoved, Won
      <4> QED  BY <4>1 DEF WinnerKey
    <3>2. \A k \in S : k[2] = "debit"
      BY SliceMembers
    <3> QED  BY <3>1, <3>2
  <2>4. GoldIn(ledger', S) = GoldIn(ledger, S) + GoldIn(Leads, {})
    BY <2>2, <2>3, Zenon
  <2> QED  BY <1>1, <2>4, GoldInEmpty
<1>6. ASSUME UNCHANGED ledger PROVE Goal
  BY <1>1, <1>6
<1>7. \A t : SettleDueAuctions(t) /\ ~CanSettleAll(DueAuctions(t)) => UNCHANGED ledger
  BY DEF SettleDueAuctions, vars
<1> HIDE DEF Goal
<1>8. Goal
  BY <1>3, <1>4, <1>5, <1>6, <1>7
     DEF Next, RunSettlementWorker, CreateItem, CancelBidOnItem, Tick, vars
<1> QED  BY <1>8 DEF Goal

(* A guild with a daily cap never buys for more than the cap on any one    *)
(* day, for every cap, day length and lag between reading the clock and    *)
(* committing (R14).                                                       *)
THEOREM PurchasesRespectCap == Spec => []PurchasesWithinCap
<1>1. ASSUME Init PROVE PurchasesWithinCap
  <2> SUFFICES ASSUME NEW g \in Registered, NEW d \in Days, DailyCap[g] > 0
               PROVE  GoldIn(ledger, Slice(g, {"debit"}, ItemIDs, {d})) <= DailyCap[g]
    BY PostedIsSlice DEF PurchasesWithinCap
  <2>1. Slice(g, {"debit"}, ItemIDs, {d}) \subseteq LedgerKeys
    BY DEF Slice, LedgerKeys, LedgerTypes
  <2>2. GoldIn(ledger, Slice(g, {"debit"}, ItemIDs, {d})) = 0
    BY <1>1, <2>1, InitPostsNothing
  <2> QED  BY <2>2, GuildsAssumption
<1>2. BInv /\ PurchasesWithinCap /\ [Next]_vars => PurchasesWithinCap'
  BY NextKeepsCap
<1> QED  BY <1>1, <1>2, BooksInvariant, PTL DEF Spec

-----------------------------------------------------------------------------
(* One auction, its item and its sale.                                     *)

(* The entry types that record a sale.                                     *)
SaleTypes == {"settle", "credit", "debit"}

(* What a unit of work may do to auction x, its item and the ledger's      *)
(* entries for it: nothing at all ...                                      *)
LeftAlone(x) ==
    /\ auctions'[x] = auctions[x]
    /\ items'[auctions[x].item] = items[auctions[x].item]
    /\ \A k \in LedgerKeys : k[3] = auctions[x].item => ledger'[k] = ledger[k]

(* ... bidding, which records no sale ...                                  *)
StaysOpen(x) ==
    /\ auctions[x].status = "active" /\ auctions'[x].status = "active"
    /\ auctions'[x].item = auctions[x].item
    /\ \A k \in LedgerKeys :
        k[3] = auctions[x].item /\ k[2] \in SaleTypes => ledger'[k] = ledger[k]

(* ... or a settlement.                                                    *)
SettledNow(x) == \E t \in Readings : SettleMoved(t) /\ x \in DueAuctions(t)

(* A settlement leaves the auctions that are not due alone.                *)
LEMMA SettleSparesOthers ==
    ASSUME BInv, NEW t \in Readings, SettleMoved(t),
           NEW x \in DOMAIN auctions, x \notin DueAuctions(t)
    PROVE  LeftAlone(x)
<1> DEFINE D == DueAuctions(t)
           W == Won(D)
           i == auctions[x].item
<1>1. /\ D \subseteq DOMAIN auctions /\ W \subseteq D
      /\ auctions'[x] = IF x \in D THEN [auctions[x] EXCEPT !.status = "settled"]
                        ELSE auctions[x]
      /\ items' = SettledItems(D)
      /\ \A k \in LedgerKeys :
           ledger'[k] = ledger[k] + GoldIn(Leads, {y \in W : \/ k = WinnerKey(t)[y]
                                                            \/ k = SellerKey(t)[y]})
  BY Zenon DEF SettleMoved, Won
<1>2. i \in DOMAIN items /\ \A y \in DOMAIN auctions : auctions[y].item = i => y = x
  BY DEF BInv, AuctionsMatchItems
<1> HIDE DEF W, D
<1>3. \A y \in D : auctions[y].item # i
  BY <1>1, <1>2 DEF D
<1>4. items'[i] = items[i]
  <2>1. i \notin {auctions[y].item : y \in Won(D)} /\ i \notin {auctions[y].item : y \in D}
    BY <1>1, <1>3 DEF W
  <2> QED  BY <1>1, <1>2, <2>1 DEF SettledItems
<1>5. ASSUME NEW k \in LedgerKeys, k[3] = i PROVE ledger'[k] = ledger[k]
  <2>1. \A y \in W : WinnerKey(t)[y][3] # i /\ SellerKey(t)[y][3] # i
    BY <1>1, <1>3 DEF WinnerKey, SellerKey
  <2>2. {y \in W : k = WinnerKey(t)[y] \/ k = SellerKey(t)[y]} = {}
    BY <1>5, <2>1
  <2>3. ledger'[k] = ledger[k] + GoldIn(Leads, {})
    BY <1>1, <2>2, Zenon
  <2>4. ledger[k] \in Nat
    BY DEF BInv, IInv, TypeOK
  <2> QED  BY <2>3, <2>4, GoldInEmpty
<1>6. auctions'[x] = auctions[x]
  BY <1>1 DEF D
<1> QED  BY <1>4, <1>5, <1>6 DEF LeftAlone

(* Every unit of work does one of the three to every auction.              *)
LEMMA OneAuctionSteps ==
    ASSUME BInv, [Next]_vars, NEW x \in DOMAIN auctions
    PROVE  LeftAlone(x) \/ StaysOpen(x) \/ SettledNow(x)
<1> DEFINE i == auctions[x].item
           Goal == LeftAlone(x) \/ StaysOpen(x) \/ SettledNow(x)
<1>1. /\ i \in DOMAIN items /\ AuctionOnly(items[i].rarity) /\ auctions[x] \in Auction
      /\ \A y \in DOMAIN auctions : auctions[y].item = i => y = x
  BY DEF BInv, IInv, TypeOK, AuctionsMatchItems
<1>2. ASSUME NEW in \in Listings, NEW j \in ItemIDs, NEW t \in Readings,
             CreateItem(in, j, t)
      PROVE  Goal
  <2>1. /\ j # i /\ UNCHANGED ledger
        /\ \E it : items' = Put(items, j, it)
        /\ UNCHANGED auctions \/ \E a : \E y \in AuctionIDs \ DOMAIN auctions :
                                    auctions' = Put(auctions, y, a)
    BY <1>1, <1>2 DEF CreateItem
  <2>2. items'[i] = items[i] /\ auctions'[x] = auctions[x]
    BY <1>1, <2>1 DEF Put
  <2> QED  BY <2>1, <2>2 DEF LeftAlone
<1>3. ASSUME NEW j \in ItemIDs, NEW buyer \in Guilds, NEW qty \in Quantities,
             NEW t \in Readings, Purchase(j, buyer, qty, t)
      PROVE  Goal
  <2>1. /\ j \in DOMAIN items /\ ~AuctionOnly(items[j].rarity)
        /\ \A k \in LedgerKeys :
             ledger'[k] = IF \/ k = <<buyer, "debit", j, Day(t)>>
                             \/ k = <<items[j].seller, "credit", j, Day(t)>>
                          THEN ledger[k] + Cost(items[j], qty) ELSE ledger[k]
    BY <1>3, PurchaseMoves DEF BInv
  <2>2. j # i
    BY <1>1, <2>1
  <2>3. /\ items' = [items EXCEPT ![j] = SellTo(items[j], qty)]
        /\ UNCHANGED auctions
    BY <1>3 DEF Purchase
  <2>4. items'[i] = items[i] /\ auctions'[x] = auctions[x]
    BY <1>1, <2>2, <2>3
  <2>5. \A k \in LedgerKeys : k[3] = i => ledger'[k] = ledger[k]
    BY <2>1, <2>2
  <2> QED  BY <2>4, <2>5 DEF LeftAlone
<1>4. ASSUME NEW j \in ItemIDs, NEW bidder \in Guilds, NEW amount \in Amounts,
             NEW t \in Readings, BidOnItem(j, bidder, amount, t)
      PROVE  Goal
  <2>1. PICK y \in DOMAIN auctions : BidMoved(y, j, bidder, amount, t)
    BY <1>4, BidMoves DEF BInv
  <2>2. /\ auctions[y].item = j /\ auctions[y].status = "active"
        /\ auctions' = [auctions EXCEPT ![y] = PlaceBid(auctions[y], bidder, amount, t)]
        /\ \A k \in LedgerKeys :
             ledger'[k] # ledger[k] => k[3] = j /\ k[2] \in {"reserve", "release"}
    BY <2>1 DEF BidMoved
  <2>3. UNCHANGED items
    BY <1>4 DEF BidOnItem
  <2>4. CASE y = x
    <3>1. /\ auctions'[x] = PlaceBid(auctions[x], bidder, amount, t)
          /\ PlaceBid(auctions[x], bidder, amount, t).status = auctions[x].status
          /\ PlaceBid(auctions[x], bidder, amount, t).item = auctions[x].item
      BY <1>1, <2>2, <2>4 DEF PlaceBid, Auction
    <3> QED  BY <2>2, <2>4, <3>1 DEF StaysOpen, SaleTypes
  <2>5. CASE y # x
    <3>1. j # i
      BY <1>1, <2>2, <2>5
    <3> QED  BY <2>2, <2>3, <2>5, <3>1 DEF LeftAlone
  <2> QED  BY <2>4, <2>5
<1>5. ASSUME NEW j, NEW b, NEW guild, CancelBidOnItem(j, b, guild)
      PROVE  Goal
  <2>1. PICK y \in ActiveAuctions(j) : auctions' = [auctions EXCEPT ![y] = CancelBid(auctions[y], b)]
    BY <1>5 DEF CancelBidOnItem
  <2>2. UNCHANGED <<items, ledger>> /\ y \in DOMAIN auctions /\ auctions[y].status = "active"
    BY <1>5, <2>1 DEF CancelBidOnItem, ActiveAuctions
  <2>3. CASE y = x
    <3>1. /\ auctions'[x] = CancelBid(auctions[x], b)
          /\ CancelBid(auctions[x], b).status = auctions[x].status
          /\ CancelBid(auctions[x], b).item = auctions[x].item
      BY <1>1, <2>1, <2>2, <2>3 DEF CancelBid, Auction
    <3> QED  BY <2>2, <2>3, <3>1 DEF StaysOpen
  <2>4. CASE y # x
    BY <2>1, <2>2, <2>4 DEF LeftAlone
  <2> QED  BY <2>3, <2>4
<1>6. ASSUME NEW t \in Readings, SettleDueAuctions(t), CanSettleAll(DueAuctions(t))
      PROVE  Goal
  <2>1. SettleMoved(t)
    BY <1>6, SettleMoves DEF BInv
  <2> QED  BY <2>1, SettleSparesOthers DEF SettledNow
<1>7. ASSUME UNCHANGED <<items, auctions, ledger>> PROVE Goal
  BY <1>7 DEF LeftAlone
<1>8. \A t : SettleDueAuctions(t) /\ ~CanSettleAll(DueAuctions(t)) =>
        UNCHANGED <<items, auctions, ledger>>
  BY DEF SettleDueAuctions, vars
<1> HIDE DEF Goal
<1>9. Goal
  BY <1>2, <1>3, <1>4, <1>5, <1>6, <1>7, <1>8 DEF Next, RunSettlementWorker, Tick, vars
<1> QED  BY <1>9 DEF Goal

(* A settled auction is final, for any number of further worker ticks and  *)
(* any clock readings: row, item status and ledger entries all stay        *)
(* (auction.go:193).                                                       *)
THEOREM SettlementIsFinal == Spec => SettledIsFinal
<1> DEFINE Final == \A x \in DOMAIN auctions : auctions[x].status = "settled" =>
        /\ auctions'[x] = auctions[x]
        /\ items'[auctions[x].item] = items[auctions[x].item]
        /\ \A k \in LedgerKeys : k[3] = auctions[x].item => ledger'[k] = ledger[k]
<1>1. ASSUME BInv, [Next]_vars PROVE Final
  <2> SUFFICES ASSUME NEW x \in DOMAIN auctions, auctions[x].status = "settled"
               PROVE  LeftAlone(x)
    BY DEF LeftAlone
  <2>1. ~SettledNow(x)
    BY DEF SettledNow, DueAuctions, Due
  <2>2. ~StaysOpen(x)
    BY DEF StaysOpen
  <2> QED  BY <1>1, <2>1, <2>2, OneAuctionSteps
<1> QED  BY <1>1, BooksInvariant, PTL DEF Spec, SettledIsFinal

(* What the ledger has to show of guild g, for each type of entry, of the  *)
(* sale that auction x ended in.                                           *)
Sold(x) == auctions[x].status = "settled" /\ auctions[x].bids # <<>>

SaleEntry(x, g, type) ==
    IF Sold(x) /\ \/ type = "settle" /\ LastBid(x).guild = g
                  \/ type = "credit" /\ auctions[x].seller = g
    THEN LastBid(x).amount ELSE 0

(* The keys of guild g's entries of one type for one item.                 *)
SaleKeys(g, type, i) == Slice(g, {type}, {i}, Days)

SalesPosted ==
    \A x \in DOMAIN auctions, g \in Registered, type \in SaleTypes :
        GoldIn(ledger, SaleKeys(g, type, auctions[x].item)) = SaleEntry(x, g, type)

(* These keys are finitely many.                                           *)
LEMMA SaleKeysFinite ==
    ASSUME BInv, NEW g \in Registered, NEW type \in SaleTypes, NEW i \in ItemIDs
    PROVE  LET S == SaleKeys(g, type, i)
           IN  /\ IsFiniteSet(S) /\ S \in SUBSET LedgerKeys
               /\ \A k \in S : k[1] = g /\ k[2] = type /\ k[3] = i
               /\ GoldIn(ledger, S) \in Nat
<1> DEFINE S == SaleKeys(g, type, i)
<1> USE DEF SaleKeys
<1>1. {type} \in SUBSET LedgerTypes /\ {i} \in SUBSET ItemIDs /\ IsFiniteSet({i})
  BY FS_Singleton DEF SaleTypes, LedgerTypes
<1>2. IsFiniteSet(S) /\ S \subseteq LedgerKeys
  BY <1>1, SliceFinite
<1>3. \A k \in S : k[1] = g /\ k[2] = type /\ k[3] = i
  BY SliceMembers
<1>4. \A k \in S : ledger[k] \in Nat
  BY <1>2 DEF BInv, IInv, TypeOK
<1> HIDE DEF S
<1>5. GoldIn(ledger, S) \in Nat
  BY <1>2, <1>4, CoinsFinite
<1> QED  BY <1>2, <1>3, <1>5 DEF S

(* The settlement of auction x posts its sale, once and to the right       *)
(* guilds.                                                                 *)
LEMMA SettlePostsSale ==
    ASSUME BInv, NEW t \in Readings, SettleMoved(t), NEW x \in DueAuctions(t),
           NEW g \in Registered, NEW type \in SaleTypes
    PROVE  LET S == SaleKeys(g, type, auctions[x].item)
           IN  GoldIn(ledger', S) = GoldIn(ledger, S) + SaleEntry(x, g, type)'
<1> DEFINE W == Won(DueAuctions(t))
           i == auctions[x].item
           S == SaleKeys(g, type, i)
           key == IF type = "credit" THEN SellerKey(t) ELSE WinnerKey(t)
           Y == {y \in W : key[y] \in S}
           party == IF type = "credit" THEN auctions[x].seller = g
                    ELSE type = "settle" /\ LastBid(x).guild = g
<1>1. /\ DueAuctions(t) \subseteq DOMAIN auctions
      /\ W = {y \in DueAuctions(t) : auctions[y].bids # <<>>}
      /\ \A y \in W : Leads[y] \in Nat /\ Leads[y] = LastBid(y).amount
      /\ \A y \in DOMAIN auctions :
           auctions'[y] = IF y \in DueAuctions(t)
                          THEN [auctions[y] EXCEPT !.status = "settled"] ELSE auctions[y]
  BY Zenon DEF SettleMoved
<1>2. /\ x \in DOMAIN auctions /\ auctions[x] \in Auction /\ i \in ItemIDs
      /\ \A y \in DOMAIN auctions : auctions[y].item = i => y = x
  BY <1>1 DEF BInv, IInv, TypeOK, AuctionsMatchItems, Auction
<1>3. /\ auctions'[x].status = "settled" /\ auctions'[x].bids = auctions[x].bids
      /\ auctions'[x].seller = auctions[x].seller
  BY <1>1, <1>2 DEF Auction
<1>4. /\ S \in SUBSET LedgerKeys /\ IsFiniteSet(S)
      /\ \A k \in S : k[2] = type /\ k[3] = i
  BY <1>2, SaleKeysFinite
<1>5. GoldIn(ledger', S) = GoldIn(ledger, S) + GoldIn(Leads, Y)
  <2>1. \/ key = SellerKey(t) /\ \A k \in S : k[2] = "credit"
        \/ key = WinnerKey(t) /\ \A k \in S : k[2] # "credit"
    BY <1>4
  <2> HIDE DEF S, key
  <2> QED  BY <1>4, <2>1, SettlePosts DEF BInv
<1>6. Day(t) \in Days
  BY ReadingIsTime DEF BInv
<1>7. Y = IF x \in W /\ party THEN {x} ELSE {}
  <2>1. ASSUME NEW y \in W PROVE key[y] \in S <=> y = x /\ party
    <3>1. /\ SellerKey(t)[y] = <<auctions[y].seller, "credit", auctions[y].item, Day(t)>>
          /\ WinnerKey(t)[y] = <<LastBid(y).guild, "settle", auctions[y].item, Day(t)>>
      BY <1>1 DEF SellerKey, WinnerKey
    <3>2. auctions[y].item = i <=> y = x
      BY <1>1, <1>2
    <3>3. \A h, c, j, d : <<h, c, j, d>> \in S <=> h = g /\ c = type /\ j = i /\ d \in Days
      BY DEF SaleKeys, Slice
    <3> HIDE DEF S, i
    <3>4. CASE type = "credit"
      <4>1. key[y] = <<auctions[y].seller, "credit", auctions[y].item, Day(t)>>
        BY <3>1, <3>4
      <4> QED  BY <1>6, <3>2, <3>3, <3>4, <4>1
    <3>5. CASE type # "credit"
      <4>1. key[y] = <<LastBid(y).guild, "settle", auctions[y].item, Day(t)>>
        BY <3>1, <3>5
      <4> QED  BY <1>6, <3>2, <3>3, <3>5, <4>1
    <3> QED  BY <3>4, <3>5
  <2> HIDE DEF W, S, key, party
  <2> QED  BY <2>1
<1>8. SaleEntry(x, g, type)' = IF x \in W /\ party THEN Leads[x] ELSE 0
  <2>1. LastBid(x)' = LastBid(x)
    BY <1>3 DEF LastBid
  <2>2. Sold(x)' <=> x \in W
    BY <1>1, <1>3 DEF Sold
  <2>3. x \in W => Leads[x] = LastBid(x).amount
    BY <1>1
  <2> HIDE DEF W
  <2> QED  BY <1>3, <2>1, <2>2, <2>3 DEF SaleEntry, SaleTypes
<1>9. GoldIn(Leads, Y) = SaleEntry(x, g, type)'
  <2>1. CASE x \in W /\ party
    <3>1. Y = {x} /\ Leads[x] \in Nat
      BY <1>1, <1>7, <2>1
    <3>2. GoldIn(Leads, {x}) = Leads[x]
      BY <3>1, GoldInOne
    <3> HIDE DEF Y
    <3> QED  BY <1>8, <2>1, <3>1, <3>2
  <2>2. CASE ~(x \in W /\ party)
    <3>1. Y = {}
      BY <1>7, <2>2
    <3> HIDE DEF Y
    <3> QED  BY <1>8, <2>2, <3>1, GoldInEmpty
  <2> QED  BY <2>1, <2>2
<1> QED  BY <1>5, <1>9

(* The ledger keeps up with the sales in every unit of work.               *)
LEMMA NextPostsSales ==
    ASSUME BInv, SalesPosted, [Next]_vars
    PROVE  SalesPosted'
<1> SUFFICES ASSUME NEW x \in DOMAIN auctions', NEW g \in Registered, NEW type \in SaleTypes
             PROVE  GoldIn(ledger', SaleKeys(g, type, auctions'[x].item)) = SaleEntry(x, g, type)'
  BY DEF SalesPosted, SaleKeys, Slice
<1>1. CASE x \in DOMAIN auctions
  <2> DEFINE i == auctions[x].item
             S == SaleKeys(g, type, i)
  <2>1. auctions[x] \in Auction /\ i \in ItemIDs
    BY <1>1 DEF BInv, IInv, TypeOK, Auction
  <2>2. /\ GoldIn(ledger, S) = SaleEntry(x, g, type)
        /\ S \subseteq LedgerKeys /\ \A k \in S : k[2] = type /\ k[3] = i
    BY <1>1, <2>1, SaleKeysFinite DEF SalesPosted
  <2>3. ASSUME LeftAlone(x) PROVE auctions'[x].item = i /\ GoldIn(ledger', S) = SaleEntry(x, g, type)'
    <3>1. \A k \in S : ledger'[k] = ledger[k]
      BY <2>2, <2>3 DEF LeftAlone
    <3>2. GoldIn(ledger', S) = GoldIn(ledger, S)
      BY <3>1, SliceSame DEF SaleKeys
    <3>3. SaleEntry(x, g, type)' = SaleEntry(x, g, type)
      BY <2>3 DEF LeftAlone, SaleEntry, Sold, LastBid
    <3> QED  BY <2>2, <2>3, <3>2, <3>3 DEF LeftAlone
  <2>4. ASSUME StaysOpen(x) PROVE auctions'[x].item = i /\ GoldIn(ledger', S) = SaleEntry(x, g, type)'
    <3>1. \A k \in S : ledger'[k] = ledger[k]
      BY <2>2, <2>4 DEF StaysOpen
    <3>2. GoldIn(ledger', S) = GoldIn(ledger, S)
      BY <3>1, SliceSame DEF SaleKeys
    <3>3. SaleEntry(x, g, type)' = 0 /\ SaleEntry(x, g, type) = 0
      BY <2>4 DEF StaysOpen, SaleEntry, Sold
    <3> QED  BY <2>2, <2>4, <3>2, <3>3 DEF StaysOpen
  <2>5. ASSUME SettledNow(x) PROVE auctions'[x].item = i /\ GoldIn(ledger', S) = SaleEntry(x, g, type)'
    <3>1. PICK t \in Readings : SettleMoved(t) /\ x \in DueAuctions(t)
      BY <2>5 DEF SettledNow
    <3>2. GoldIn(ledger', S) = GoldIn(ledger, S) + SaleEntry(x, g, type)'
      BY <3>1, SettlePostsSale
    <3>3. SaleEntry(x, g, type) = 0
      BY <3>1 DEF SaleEntry, Sold, DueAuctions, Due
    <3>4. auctions'[x] = [auctions[x] EXCEPT !.status = "settled"]
      BY <1>1, <3>1, Zenon DEF SettleMoved
    <3>5. auctions'[x].item = i /\ auctions'[x].bids = auctions[x].bids
      BY <2>1, <3>4 DEF Auction
    <3>6. SaleEntry(x, g, type)' \in Nat
      <4>1. LastBid(x)' = LastBid(x) /\ (Sold(x)' => auctions[x].bids # <<>>)
        BY <3>5 DEF LastBid, Sold
      <4>2. auctions[x].bids # <<>> => LastBid(x).amount \in Nat
        BY <1>1, LeadsRead DEF BInv, IInv, LeadsAreLast
      <4> QED  BY <4>1, <4>2 DEF SaleEntry
    <3> QED  BY <2>2, <3>2, <3>3, <3>5, <3>6
  <2> HIDE DEF S, i
  <2>6. auctions'[x].item = i /\ GoldIn(ledger', S) = SaleEntry(x, g, type)'
    BY <1>1, <2>3, <2>4, <2>5, OneAuctionSteps
  <2> QED  BY <2>6 DEF S
<1>2. CASE x \notin DOMAIN auctions
  <2>1. DOMAIN auctions' # DOMAIN auctions
    BY <1>2
  <2>2. ASSUME NEW in \in Listings, NEW i \in ItemIDs, NEW t \in Readings, CreateItem(in, i, t)
        PROVE  GoldIn(ledger', SaleKeys(g, type, auctions'[x].item)) = SaleEntry(x, g, type)'
    <3> DEFINE S == SaleKeys(g, type, i)
    <3>1. i \notin DOMAIN items /\ UNCHANGED ledger
      BY <2>2 DEF CreateItem
    <3>2. PICK y \in AuctionIDs \ DOMAIN auctions :
            auctions' = Put(auctions, y, NewAuction(i, in, t))
      BY <2>1, <2>2 DEF CreateItem
    <3>3. auctions'[x] = NewAuction(i, in, t)
      BY <1>2, <3>2 DEF Put
    <3>4. auctions'[x].item = i /\ auctions'[x].status = "active"
      BY <3>3 DEF NewAuction
    <3>5. /\ S \subseteq LedgerKeys /\ \A k \in S : k[3] = i
      BY SaleKeysFinite
    <3>6. \A k \in S \ {} : ledger'[k] = 0
      BY <3>1, <3>5 DEF BInv, OnlyItemsPosted
    <3> HIDE DEF S
    <3>7. GoldIn(ledger', S) = 0
      BY <3>6, GoldInSupport, GoldInEmpty
    <3>8. SaleEntry(x, g, type)' = 0
      BY <3>4 DEF SaleEntry, Sold
    <3> QED  BY <3>4, <3>7, <3>8 DEF S
  <2>3. ~(\E i \in ItemIDs, bidder \in Guilds, amount \in Amounts, t \in Readings :
            BidOnItem(i, bidder, amount, t))
    BY <2>1 DEF BidOnItem
  <2>4. ~(\E i, b, guild : CancelBidOnItem(i, b, guild))
    BY <2>1 DEF CancelBidOnItem
  <2>5. ~RunSettlementWorker
    BY <2>1 DEF RunSettlementWorker, SettleDueAuctions, vars
  <2> QED  BY <2>1, <2>2, <2>3, <2>4, <2>5 DEF Next, Purchase, Tick, vars
<1> QED  BY <1>1, <1>2

(* Every auction is paid for exactly once, by its last bidder to its       *)
(* seller, and only after it closed, however often the worker runs and     *)
(* however bids, withdrawals and clock readings interleave (R1, R9).       *)
THEOREM WinnersPayOnce == Spec => []WinnerPaysOnce
<1>1. ASSUME Init PROVE SalesPosted
  BY <1>1 DEF Init, SalesPosted
<1>2. BInv /\ SalesPosted /\ [Next]_vars => SalesPosted'
  BY NextPostsSales
<1>3. ASSUME SalesPosted PROVE WinnerPaysOnce
  <2> SUFFICES ASSUME NEW x \in DOMAIN auctions, NEW g \in Registered
               PROVE  LET a == auctions[x]
                          sold == a.status = "settled" /\ a.bids # <<>>
                          due(h, party) == IF sold /\ h = party
                                           THEN a.bids[Len(a.bids)].amount ELSE 0
                      IN  /\ PostedFor(g, "settle", a.item) =
                               due(g, IF sold THEN a.bids[Len(a.bids)].guild ELSE g)
                          /\ PostedFor(g, "credit", a.item) = due(g, a.seller)
                          /\ PostedFor(g, "debit", a.item) = 0
    BY DEF WinnerPaysOnce
  <2>1. \A type \in SaleTypes :
          PostedFor(g, type, auctions[x].item) = SaleEntry(x, g, type)
    BY <1>3 DEF SalesPosted, PostedFor, SaleKeys, Slice
  <2>2. /\ PostedFor(g, "settle", auctions[x].item) = SaleEntry(x, g, "settle")
        /\ PostedFor(g, "credit", auctions[x].item) = SaleEntry(x, g, "credit")
        /\ PostedFor(g, "debit", auctions[x].item) = SaleEntry(x, g, "debit")
    BY <2>1 DEF SaleTypes
  <2> QED  BY <2>2 DEF SaleEntry, Sold, LastBid
<1> QED  BY <1>1, <1>2, <1>3, BooksInvariant, PTL DEF Spec

-----------------------------------------------------------------------------
(* The reservations, replayed.                                             *)

(* What the ledger does not show: the bids that guild g raised itself.     *)
Raised(g) == [r \in OwnRaises(g) |-> auctions[r[1]].bids[r[2]].amount]

RaisedGold(g) == GoldIn(Raised(g), OwnRaises(g))

(* Bid b of auction x is one that guild g raised itself.                   *)
Raise(x, b, g) ==
    /\ b \in 1..(Len(auctions[x].bids) - 1)
    /\ auctions[x].bids[b].guild = g /\ auctions[x].bids[b + 1].guild = g

(* The raises of a guild, one by one.                                      *)
LEMMA OwnRaisesAre ==
    ASSUME NEW g
    PROVE  /\ \A x, b : <<x, b>> \in OwnRaises(g) <=> x \in DOMAIN auctions /\ Raise(x, b, g)
           /\ \A r \in OwnRaises(g) : r = <<r[1], r[2]>>
BY DEF OwnRaises, Raise

(* The same of the next state.                                             *)
LEMMA OwnRaisesAreNext ==
    ASSUME NEW g
    PROVE  /\ \A x, b : <<x, b>> \in OwnRaises(g)' <=> x \in DOMAIN auctions' /\ Raise(x, b, g)'
           /\ \A r \in OwnRaises(g)' : r = <<r[1], r[2]>>
BY DEF OwnRaises, Raise

(* They are finitely many, and each is worth some gold.                    *)
LEMMA OwnRaisesFinite ==
    ASSUME IInv, NEW g
    PROVE  /\ IsFiniteSet(OwnRaises(g))
           /\ \A r \in OwnRaises(g) : Raised(g)[r] \in Nat
           /\ RaisedGold(g) \in Nat
<1> DEFINE Raises(x) == {x} \X {b \in 1..(Len(auctions[x].bids) - 1) :
                          auctions[x].bids[b].guild = g /\ auctions[x].bids[b + 1].guild = g}
           F == {Raises(x) : x \in DOMAIN auctions}
<1>1. \A x \in DOMAIN auctions : auctions[x] \in Auction /\ Len(auctions[x].bids) \in Nat
  BY DEF IInv, TypeOK, Auction
<1>2. ASSUME NEW x \in DOMAIN auctions PROVE IsFiniteSet(Raises(x))
  <2>1. IsFiniteSet(1..(Len(auctions[x].bids) - 1))
    BY <1>1, FS_Interval
  <2>2. IsFiniteSet({b \in 1..(Len(auctions[x].bids) - 1) :
                       auctions[x].bids[b].guild = g /\ auctions[x].bids[b + 1].guild = g})
    BY <2>1, FS_Subset
  <2> QED  BY <2>2, FS_Singleton, FS_Product
<1>3. OwnRaises(g) = UNION F
  BY DEF OwnRaises
<1> HIDE DEF Raises
<1>4. IsFiniteSet(F)
  <2> DEFINE M == [x \in DOMAIN auctions |-> Raises(x)]
  <2>1. M \in Surjection(DOMAIN auctions, F)
    BY DEF Surjection
  <2> QED  BY <2>1, FS_Surjection DEF IInv, FinitelyManyAuctions
<1>5. \A S \in F : IsFiniteSet(S)
  BY <1>2
<1>6. IsFiniteSet(OwnRaises(g))
  BY <1>3, <1>4, <1>5, FS_UNION
<1>7. ASSUME NEW r \in OwnRaises(g) PROVE Raised(g)[r] \in Nat
  <2>1. r[1] \in DOMAIN auctions /\ Raise(r[1], r[2], g)
    BY OwnRaisesAre
  <2>2. r[2] \in 1..Len(auctions[r[1]].bids)
    BY <1>1, <2>1 DEF Raise
  <2> QED  BY <1>1, <2>1, <2>2, BidFields DEF Raised
<1>8. RaisedGold(g) \in Nat
  BY <1>6, <1>7, CoinsFinite DEF RaisedGold
<1> QED  BY <1>6, <1>7, <1>8

(* A step that adds no bid raises nobody's.                                *)
LEMMA RaisesSame ==
    ASSUME IInv, NEW g, DOMAIN auctions \subseteq DOMAIN auctions',
           \A x \in DOMAIN auctions' \ DOMAIN auctions : auctions'[x].bids = <<>>,
           \A x \in DOMAIN auctions :
              /\ Len(auctions'[x].bids) = Len(auctions[x].bids)
              /\ \A b \in 1..Len(auctions[x].bids) :
                   /\ auctions'[x].bids[b].guild = auctions[x].bids[b].guild
                   /\ auctions'[x].bids[b].amount = auctions[x].bids[b].amount
    PROVE  RaisedGold(g)' = RaisedGold(g)
<1>1. \A x \in DOMAIN auctions : Len(auctions[x].bids) \in Nat
  BY DEF IInv, TypeOK, Auction
<1>2. ASSUME NEW x \in DOMAIN auctions', NEW b
      PROVE  Raise(x, b, g)' <=> x \in DOMAIN auctions /\ Raise(x, b, g)
  <2>1. CASE x \in DOMAIN auctions
    <3>1. b \in 1..(Len(auctions[x].bids) - 1) =>
            b \in 1..Len(auctions[x].bids) /\ b + 1 \in 1..Len(auctions[x].bids)
      BY <1>1, <2>1
    <3> QED  BY <2>1, <3>1 DEF Raise
  <2>2. CASE x \notin DOMAIN auctions
    <3>1. Len(auctions'[x].bids) = 0
      BY <2>2
    <3> QED  BY <2>2, <3>1 DEF Raise
  <2> QED  BY <2>1, <2>2
<1>3. OwnRaises(g)' = OwnRaises(g)
  <2>1. ASSUME NEW r \in OwnRaises(g)' PROVE r \in OwnRaises(g)
    <3>1. r = <<r[1], r[2]>> /\ r[1] \in DOMAIN auctions' /\ Raise(r[1], r[2], g)'
      BY OwnRaisesAreNext
    <3>2. r[1] \in DOMAIN auctions /\ Raise(r[1], r[2], g)
      BY <1>2, <3>1
    <3> QED  BY <3>1, <3>2, OwnRaisesAre
  <2>2. ASSUME NEW r \in OwnRaises(g) PROVE r \in OwnRaises(g)'
    <3>1. r = <<r[1], r[2]>> /\ r[1] \in DOMAIN auctions /\ Raise(r[1], r[2], g)
      BY OwnRaisesAre
    <3>2. r[1] \in DOMAIN auctions' /\ Raise(r[1], r[2], g)'
      BY <1>2, <3>1
    <3> QED  BY <3>1, <3>2, OwnRaisesAreNext
  <2> QED  BY <2>1, <2>2
<1>4. ASSUME NEW r \in OwnRaises(g) PROVE Raised(g)'[r] = Raised(g)[r]
  <2>1. r[1] \in DOMAIN auctions /\ Raise(r[1], r[2], g)
    BY OwnRaisesAre
  <2>2. r[2] \in 1..Len(auctions[r[1]].bids)
    BY <1>1, <2>1 DEF Raise
  <2> QED  BY <1>3, <2>1, <2>2 DEF Raised
<1>5. GoldIn(Raised(g)', OwnRaises(g)) = GoldIn(Raised(g), OwnRaises(g))
  BY <1>4, GoldInEq
<1> QED  BY <1>3, <1>5 DEF RaisedGold

(* A bid adds a raise if its guild leads the auction already.              *)
LEMMA BidRaises ==
    ASSUME IInv, NEW i, NEW bidder, NEW amount, NEW t, NEW x, NEW g,
           BidMoved(x, i, bidder, amount, t)
    PROVE  RaisedGold(g)' = RaisedGold(g) + (IF g = bidder THEN LedWith(x, g) ELSE 0)
<1> DEFINE n == Len(auctions[x].bids)
           p == <<x, n>>
           own == g = bidder /\ n > 0 /\ LastBid(x).guild = g
<1>1. /\ x \in DOMAIN auctions /\ bidder \in Registered
      /\ auctions' = [auctions EXCEPT ![x] = PlaceBid(auctions[x], bidder, amount, t)]
  BY DEF BidMoved
<1>2. \A y \in DOMAIN auctions : auctions[y] \in Auction /\ auctions[y].bids \in Seq(Bid)
                                 /\ Len(auctions[y].bids) \in Nat
  BY DEF IInv, TypeOK, Auction
<1>3. /\ DOMAIN auctions' = DOMAIN auctions
      /\ \A y \in DOMAIN auctions : y # x => auctions'[y] = auctions[y]
      /\ Len(auctions'[x].bids) = n + 1
      /\ \A b \in 1..n : auctions'[x].bids[b] = auctions[x].bids[b]
      /\ auctions'[x].bids[n + 1].guild = bidder
  <2> DEFINE bid == [guild |-> bidder, amount |-> amount, active |-> TRUE, placedAt |-> t]
  <2>1. auctions'[x].bids = Append(auctions[x].bids, bid)
    BY <1>1, <1>2 DEF PlaceBid, Auction
  <2>2. bid.guild = bidder
    OBVIOUS
  <2> HIDE DEF bid
  <2>3. /\ Len(Append(auctions[x].bids, bid)) = n + 1
        /\ \A b \in 1..n : Append(auctions[x].bids, bid)[b] = auctions[x].bids[b]
        /\ Append(auctions[x].bids, bid)[n + 1] = bid
    BY <1>1, <1>2
  <2> QED  BY <1>1, <2>1, <2>2, <2>3
<1>4. n \in Nat
  BY <1>1, <1>2
<1>5. ASSUME NEW y \in DOMAIN auctions, NEW b
      PROVE  Raise(y, b, g)' <=> Raise(y, b, g) \/ (own /\ y = x /\ b = n)
  <2>1. CASE y # x
    BY <1>3, <2>1 DEF Raise
  <2>2. CASE y = x
    <3>1. Raise(x, b, g) <=> /\ b \in 1..(n - 1)
                             /\ auctions[x].bids[b].guild = g
                             /\ auctions[x].bids[b + 1].guild = g
      BY DEF Raise
    <3>2. Raise(x, b, g)' <=> /\ b \in 1..n
                              /\ auctions'[x].bids[b].guild = g
                              /\ auctions'[x].bids[b + 1].guild = g
      BY <1>3, <1>4 DEF Raise
    <3>3. CASE b \in 1..(n - 1)
      <4>1. b \in 1..n /\ b + 1 \in 1..n /\ b # n
        BY <1>4, <3>3
      <4> QED  BY <1>3, <2>2, <3>1, <3>2, <3>3, <4>1
    <3>4. CASE b = n /\ n > 0
      <4>1. b \in 1..n /\ b \notin 1..(n - 1)
        BY <1>4, <3>4
      <4> QED  BY <1>3, <2>2, <3>1, <3>2, <3>4, <4>1 DEF LastBid
    <3>5. CASE ~(b \in 1..(n - 1)) /\ ~(b = n /\ n > 0)
      <4>1. b \notin 1..n
        BY <1>4, <3>5
      <4> QED  BY <2>2, <3>1, <3>2, <3>5, <4>1
    <3> QED  BY <3>3, <3>4, <3>5
  <2> QED  BY <2>1, <2>2
<1>6. p \notin OwnRaises(g)
  <2>1. ~Raise(x, n, g)
    BY <1>4 DEF Raise
  <2> QED  BY <2>1, OwnRaisesAre
<1> HIDE DEF own
<1>7. OwnRaises(g)' = OwnRaises(g) \cup (IF own THEN {p} ELSE {})
  <2>1. ASSUME NEW r \in OwnRaises(g)' PROVE r \in OwnRaises(g) \/ (own /\ r = p)
    <3>1. r = <<r[1], r[2]>> /\ r[1] \in DOMAIN auctions /\ Raise(r[1], r[2], g)'
      BY <1>3, OwnRaisesAreNext
    <3>2. Raise(r[1], r[2], g) \/ (own /\ r[1] = x /\ r[2] = n)
      BY <1>5, <3>1
    <3> QED  BY <3>1, <3>2, OwnRaisesAre
  <2>2. ASSUME NEW r \in OwnRaises(g) PROVE r \in OwnRaises(g)'
    <3>1. r = <<r[1], r[2]>> /\ r[1] \in DOMAIN auctions /\ Raise(r[1], r[2], g)
      BY OwnRaisesAre
    <3> QED  BY <1>3, <1>5, <3>1, OwnRaisesAreNext
  <2>3. own => p \in OwnRaises(g)'
    BY <1>1, <1>3, <1>5, OwnRaisesAreNext
  <2> QED  BY <2>1, <2>2, <2>3
<1>8. \A r \in OwnRaises(g) : Raised(g)'[r] = Raised(g)[r]
  <2> SUFFICES ASSUME NEW r \in OwnRaises(g) PROVE Raised(g)'[r] = Raised(g)[r]
    OBVIOUS
  <2>1. r[1] \in DOMAIN auctions /\ Raise(r[1], r[2], g)
    BY OwnRaisesAre
  <2>2. r[2] \in 1..Len(auctions[r[1]].bids)
    BY <1>2, <2>1 DEF Raise
  <2>3. auctions'[r[1]].bids[r[2]] = auctions[r[1]].bids[r[2]]
    BY <1>3, <2>1, <2>2
  <2> QED  BY <1>7, <2>3 DEF Raised
<1>9. /\ IsFiniteSet(OwnRaises(g)) /\ RaisedGold(g) \in Nat
      /\ \A r \in OwnRaises(g) : Raised(g)[r] \in Nat
  BY OwnRaisesFinite
<1>10. GoldIn(Raised(g)', OwnRaises(g)) = RaisedGold(g)
  BY <1>8, GoldInEq DEF RaisedGold
<1>11. CASE ~own
  <2>1. OwnRaises(g)' = OwnRaises(g)
    BY <1>7, <1>11
  <2>2. g = bidder => LedWith(x, g) = 0
    <3>1. n > 0 <=> auctions[x].bids # <<>>
      BY <1>1, <1>2
    <3> QED  BY <1>11, <3>1 DEF own, LedWith
  <2> QED  BY <1>9, <1>10, <2>1, <2>2 DEF RaisedGold
<1>12. CASE own
  <2> DEFINE R == OwnRaises(g) \cup {p}
             f == Raised(g)'
  <2>1. OwnRaises(g)' = R
    BY <1>7, <1>12
  <2>2. g = bidder /\ n > 0 /\ auctions[x].bids # <<>> /\ LastBid(x).guild = g
    BY <1>1, <1>2, <1>12 DEF own
  <2>3. LedWith(x, g) = LastBid(x).amount /\ LastBid(x).amount \in Nat
    BY <1>1, <2>2, LeadsRead DEF LedWith, LeadsAreLast, IInv
  <2>4. f[p] = LastBid(x).amount
    <3>1. f[p] = auctions'[x].bids[n].amount
      BY <2>1 DEF Raised
    <3>2. n \in 1..n
      BY <1>4, <2>2
    <3> QED  BY <1>3, <3>1, <3>2 DEF LastBid
  <2> HIDE DEF f, p
  <2>5. IsFiniteSet(R) /\ \A r \in R : f[r] \in Nat
    <3>1. IsFiniteSet(R)
      BY <1>9, FS_AddElement
    <3> QED  BY <1>8, <1>9, <2>3, <2>4, <3>1 DEF f
  <2>6. GoldIn(f, R) = GoldIn(f, R \ {p}) + (IF p \in R THEN f[p] ELSE 0)
    BY <2>5, GoldInPoint
  <2>7. R \ {p} = OwnRaises(g) /\ p \in R
    BY <1>6
  <2>8. GoldIn(f, R) = GoldIn(f, OwnRaises(g)) + f[p]
    BY <2>6, <2>7
  <2>9. RaisedGold(g)' = GoldIn(f, R)
    BY <2>1 DEF RaisedGold, f
  <2> QED  BY <1>10, <2>2, <2>3, <2>4, <2>8, <2>9 DEF f
<1> QED  BY <1>11, <1>12

(* What guild g reserved, and what it had released or settled, in slices.  *)
Reserves(g) == Slice(g, {"reserve"}, ItemIDs, Days)

Releases(g) == Slice(g, {"release", "settle"}, ItemIDs, Days)

(* The reservations keep up with the ledger in every unit of work.         *)
LEMMA NextReplaysReserved ==
    ASSUME BInv, ReplayOverstatesReserved, [Next]_vars
    PROVE  ReplayOverstatesReserved'
<1> SUFFICES ASSUME NEW g \in Registered
             PROVE  wallets'[g].reserved + RaisedGold(g)' =
                      GoldIn(ledger', Reserves(g)) - GoldIn(ledger', Releases(g))
  BY PostedIsSlice DEF ReplayOverstatesReserved, RaisedGold, Raised, Reserves, Releases
<1>1. wallets[g].reserved + RaisedGold(g) =
        GoldIn(ledger, Reserves(g)) - GoldIn(ledger, Releases(g))
  BY PostedIsSlice DEF ReplayOverstatesReserved, RaisedGold, Raised, Reserves, Releases
<1>2. {"reserve"} \in SUBSET LedgerTypes /\ {"release", "settle"} \in SUBSET LedgerTypes
  BY DEF LedgerTypes
<1>3. /\ GoldIn(ledger, Reserves(g)) \in Nat /\ GoldIn(ledger, Releases(g)) \in Nat
      /\ Reserves(g) \subseteq LedgerKeys /\ Releases(g) \subseteq LedgerKeys
  BY <1>2, SliceListed DEF Reserves, Releases
<1>4. wallets[g].reserved \in Nat /\ RaisedGold(g) \in Nat
  BY OwnRaisesFinite DEF BInv, IInv, TypeOK, Wallet
<1> DEFINE Goal == wallets'[g].reserved + RaisedGold(g)' =
                     GoldIn(ledger', Reserves(g)) - GoldIn(ledger', Releases(g))
<1>5. ASSUME wallets'[g].reserved = wallets[g].reserved,
             RaisedGold(g)' = RaisedGold(g),
             \A k \in Reserves(g) \cup Releases(g) : ledger'[k] = ledger[k]
      PROVE  Goal
  <2>1. GoldIn(ledger', Reserves(g)) = GoldIn(ledger, Reserves(g))
    BY <1>5, SliceSame DEF Reserves
  <2>2. GoldIn(ledger', Releases(g)) = GoldIn(ledger, Releases(g))
    BY <1>5, SliceSame DEF Releases
  <2> QED  BY <1>1, <1>5, <2>1, <2>2
<1>6. \A k \in Reserves(g) \cup Releases(g) : k \in LedgerKeys /\ k[2] \notin {"debit", "credit"}
  <2>1. \A k \in Reserves(g) : k[2] \in {"reserve"}
    BY SliceMembers DEF Reserves
  <2>2. \A k \in Releases(g) : k[2] \in {"release", "settle"}
    BY SliceMembers DEF Releases
  <2> QED  BY <1>3, <2>1, <2>2
<1>7. ASSUME UNCHANGED auctions PROVE RaisedGold(g)' = RaisedGold(g)
  BY <1>7, RaisesSame DEF BInv
<1>8. ASSUME NEW in \in Listings, NEW i \in ItemIDs, NEW t \in Readings, CreateItem(in, i, t)
      PROVE  Goal
  <2>1. UNCHANGED <<wallets, ledger>>
    BY <1>8 DEF CreateItem
  <2>2. RaisedGold(g)' = RaisedGold(g)
    <3>1. CASE UNCHANGED auctions
      BY <1>7, <3>1
    <3>2. CASE \E x \in AuctionIDs \ DOMAIN auctions :
                 auctions' = Put(auctions, x, NewAuction(i, in, t))
      <4>1. PICK x \in AuctionIDs \ DOMAIN auctions :
              auctions' = Put(auctions, x, NewAuction(i, in, t))
        BY <3>2
      <4>2. NewAuction(i, in, t).bids = <<>>
        BY DEF NewAuction
      <4>3. /\ DOMAIN auctions' = DOMAIN auctions \cup {x} /\ auctions'[x].bids = <<>>
            /\ \A y \in DOMAIN auctions : auctions'[y] = auctions[y]
        BY <4>1, <4>2 DEF Put
      <4> QED  BY <4>3, RaisesSame DEF BInv
    <3> QED  BY <1>8, <3>1, <3>2 DEF CreateItem
  <2> QED  BY <1>5, <2>1, <2>2
<1>9. ASSUME NEW i \in ItemIDs, NEW buyer \in Guilds, NEW qty \in Quantities,
             NEW t \in Readings, Purchase(i, buyer, qty, t)
      PROVE  Goal
  <2>1. /\ wallets'[g].reserved = wallets[g].reserved
        /\ \A k \in LedgerKeys :
             ledger'[k] = IF \/ k = <<buyer, "debit", i, Day(t)>>
                             \/ k = <<items[i].seller, "credit", i, Day(t)>>
                          THEN ledger[k] + Cost(items[i], qty) ELSE ledger[k]
    BY <1>9, PurchaseMoves DEF BInv
  <2>2. \A k \in Reserves(g) \cup Releases(g) : ledger'[k] = ledger[k]
    BY <1>6, <2>1
  <2>3. UNCHANGED auctions
    BY <1>9 DEF Purchase
  <2> QED  BY <1>5, <1>7, <2>1, <2>2, <2>3
<1>10. ASSUME NEW i \in ItemIDs, NEW bidder \in Guilds, NEW amount \in Amounts,
              NEW t \in Readings, BidOnItem(i, bidder, amount, t)
       PROVE  Goal
  <2>1. PICK x \in DOMAIN auctions : BidMoved(x, i, bidder, amount, t)
    BY <1>10, BidMoves DEF BInv
  <2>2. /\ amount \in Nat
        /\ wallets'[g].reserved = wallets[g].reserved - LedWith(x, g)
                                    + (IF g = bidder THEN amount ELSE 0)
    BY <2>1 DEF BidMoved
  <2>3. LedWith(x, g) \in Nat
    BY <2>1, LeadsRead DEF LedWith, LeadsAreLast, BInv, IInv
  <2>4. RaisedGold(g)' = RaisedGold(g) + (IF g = bidder THEN LedWith(x, g) ELSE 0)
    BY <2>1, BidRaises DEF BInv
  <2>5. Day(t) \in Days
    BY ReadingIsTime DEF BInv
  <2>6. GoldIn(ledger', Reserves(g)) =
          GoldIn(ledger, Reserves(g)) + (IF g = bidder THEN amount ELSE 0)
    BY <1>2, <2>1, <2>5, BidPosts DEF Reserves
  <2>7. GoldIn(ledger', Releases(g)) =
          GoldIn(ledger, Releases(g)) + (IF g # bidder THEN LedWith(x, g) ELSE 0)
    BY <1>2, <2>1, <2>5, BidPosts DEF Releases
  <2> QED  BY <1>1, <1>3, <1>4, <2>2, <2>3, <2>4, <2>6, <2>7
<1>11. ASSUME NEW i, NEW b, NEW guild, CancelBidOnItem(i, b, guild)
       PROVE  Goal
  <2>1. PICK x \in ActiveAuctions(i) :
          /\ CanCancelBid(auctions[x], b, guild)
          /\ auctions' = [auctions EXCEPT ![x] = CancelBid(auctions[x], b)]
    BY <1>11 DEF CancelBidOnItem
  <2>2. /\ x \in DOMAIN auctions /\ auctions[x] \in Auction /\ auctions[x].bids \in Seq(Bid)
        /\ b \in DOMAIN auctions[x].bids
    BY <2>1 DEF ActiveAuctions, CanCancelBid, ActiveBids, BInv, IInv, TypeOK, Auction
  <2>3. auctions'[x].bids = [auctions[x].bids EXCEPT ![b].active = FALSE]
    BY <2>1, <2>2 DEF CancelBid, Auction
  <2>4. /\ Len(auctions'[x].bids) = Len(auctions[x].bids)
        /\ \A c \in 1..Len(auctions[x].bids) :
             /\ auctions'[x].bids[c].guild = auctions[x].bids[c].guild
             /\ auctions'[x].bids[c].amount = auctions[x].bids[c].amount
    <3> DEFINE s == auctions[x].bids
               z == [s EXCEPT ![b].active = FALSE]
    <3>1. \A c \in 1..Len(s) : s[c] \in Bid
      BY <2>2
    <3>2. DOMAIN z = 1..Len(s) /\ Len(s) \in Nat
      BY <2>2
    <3>3. ASSUME NEW c \in 1..Len(s) PROVE z[c].guild = s[c].guild /\ z[c].amount = s[c].amount
      BY <2>2, <3>1, <3>3 DEF Bid
    <3>4. Len(z) = Len(s)
      BY <3>2
    <3> QED  BY <2>3, <3>3, <3>4
  <2>5. /\ DOMAIN auctions' = DOMAIN auctions
        /\ \A y \in DOMAIN auctions : y # x => auctions'[y] = auctions[y]
    BY <2>1
  <2>6. RaisedGold(g)' = RaisedGold(g)
    BY <2>4, <2>5, RaisesSame DEF BInv
  <2>7. UNCHANGED <<wallets, ledger>>
    BY <1>11 DEF CancelBidOnItem
  <2> QED  BY <1>5, <2>6, <2>7
<1>12. ASSUME NEW t \in Readings, SettleDueAuctions(t), CanSettleAll(DueAuctions(t))
       PROVE  Goal
  <2> DEFINE paid == GoldIn(Leads, LedBy(g) \cap DueAuctions(t))
  <2>1. SettleMoved(t)
    BY <1>12, SettleMoves DEF BInv
  <2>2. /\ paid \in Nat /\ wallets'[g].reserved = wallets[g].reserved - paid
        /\ DOMAIN auctions' = DOMAIN auctions
        /\ \A x \in DOMAIN auctions :
             auctions'[x] = IF x \in DueAuctions(t)
                            THEN [auctions[x] EXCEPT !.status = "settled"] ELSE auctions[x]
    BY <2>1, Zenon DEF SettleMoved
  <2>3. \A x \in DOMAIN auctions : auctions'[x].bids = auctions[x].bids
    <3>1. \A x \in DOMAIN auctions : auctions[x] \in Auction
      BY DEF BInv, IInv, TypeOK
    <3> QED  BY <2>2, <3>1 DEF Auction
  <2>4. RaisedGold(g)' = RaisedGold(g)
    BY <2>2, <2>3, RaisesSame DEF BInv
  <2>5. GoldIn(ledger', Reserves(g)) = GoldIn(ledger, Reserves(g))
    BY <1>2, <2>1, SettlementPosts DEF Reserves
  <2>6. GoldIn(ledger', Releases(g)) = GoldIn(ledger, Releases(g)) + paid
    BY <1>2, <2>1, SettlementPosts DEF Releases
  <2> HIDE DEF paid
  <2> QED  BY <1>1, <1>3, <1>4, <2>2, <2>4, <2>5, <2>6
<1>13. ASSUME UNCHANGED <<wallets, auctions, ledger>> PROVE Goal
  BY <1>5, <1>7, <1>13
<1>14. \A t : SettleDueAuctions(t) /\ ~CanSettleAll(DueAuctions(t)) =>
         UNCHANGED <<wallets, auctions, ledger>>
  BY DEF SettleDueAuctions, vars
<1> HIDE DEF Goal
<1>15. Goal
  BY <1>8, <1>9, <1>10, <1>11, <1>12, <1>13, <1>14 DEF Next, RunSettlementWorker, Tick, vars
<1> QED  BY <1>15 DEF Goal

(* Replaying a guild's reserve, release and settle entries gives its       *)
(* reservation plus every bid it raised itself, whose release BidOnItem    *)
(* does not post (auction.go:88): "the same total/reserved" (ledger.go:5)  *)
(* holds for a guild's reservation only until it raises itself.            *)
THEOREM LedgerOverstatesReserved == Spec => []ReplayOverstatesReserved
<1>1. ASSUME Init PROVE ReplayOverstatesReserved
  <2> SUFFICES ASSUME NEW g \in Registered
               PROVE  wallets[g].reserved + RaisedGold(g) =
                        GoldIn(ledger, Reserves(g)) - GoldIn(ledger, Releases(g))
    BY PostedIsSlice DEF ReplayOverstatesReserved, RaisedGold, Raised, Reserves, Releases
  <2>1. Reserves(g) \subseteq LedgerKeys /\ Releases(g) \subseteq LedgerKeys
    BY DEF Reserves, Releases, Slice, LedgerKeys, LedgerTypes
  <2>2. GoldIn(ledger, Reserves(g)) = 0 /\ GoldIn(ledger, Releases(g)) = 0
    BY <1>1, <2>1, InitPostsNothing
  <2>3. OwnRaises(g) = {}
    BY <1>1 DEF Init, OwnRaises
  <2>4. RaisedGold(g) = 0
    BY <2>3, GoldInEmpty DEF RaisedGold
  <2>5. wallets[g].reserved = 0
    BY <1>1 DEF Init
  <2> QED  BY <2>2, <2>4, <2>5
<1>2. BInv /\ ReplayOverstatesReserved /\ [Next]_vars => ReplayOverstatesReserved'
  BY NextReplaysReserved
<1> QED  BY <1>1, <1>2, BooksInvariant, PTL DEF Spec

-----------------------------------------------------------------------------
(* Stock and its price.                                                    *)

(* The whole stock of every listing that is not auctioned is worth an      *)
(* int64.  Nothing in the code checks it, and without it stock leaves      *)
(* unpaid (the run cost_wraps).                                            *)
StockWorthFits ==
    \A in \in Listings : ValidListing(in) /\ ~AuctionOnly(in.rarity) =>
        in.price * in.quantity < GoldModulus \div 2

(* The same of the items listed.                                           *)
ItemWorthFits ==
    \A i \in DOMAIN items : ~AuctionOnly(items[i].rarity) =>
        items[i].price * items[i].quantity < GoldModulus \div 2

(* The part of a stock is worth no more than the whole.                    *)
LEMMA PartWorth ==
    ASSUME NEW price \in Nat, NEW n \in Nat, NEW m \in Nat, m <= n
    PROVE  price * m <= price * n /\ price * m \in Nat
<1>1. n - m \in Nat
  OBVIOUS
<1>2. price * (n - m) \in Nat /\ price * m \in Nat
  BY <1>1
<1>3. price * n = price * m + price * (n - m)
  OBVIOUS
<1> HIDE <1>1
<1> DEFINE a == price * n
           b == price * m
           c == price * (n - m)
<1>4. a = b + c /\ b \in Nat /\ c \in Nat
  BY <1>2, <1>3
<1> HIDE DEF a, b, c
<1>5. b <= a /\ b \in Nat
  BY <1>4
<1> QED  BY <1>5 DEF a, b

(* Arithmetic does not wrap below half the modulus.                        *)
LEMMA Int64Fits ==
    ASSUME NEW z \in Nat, z < GoldModulus \div 2
    PROVE  Int64(z) = z
<1> DEFINE h == GoldModulus \div 2
<1>1. GoldModulus \in Nat /\ GoldModulus > 0 /\ h \in Nat /\ 2 * h <= GoldModulus
  BY GoldModulusAssumption
<1>2. Int64(z) = ((z + h) % GoldModulus) - h
  BY DEF Int64
<1>3. z < h
  OBVIOUS
<1> HIDE DEF h
<1>4. z + h \in 0..(GoldModulus - 1)
  BY <1>1, <1>3
<1>5. (z + h) % GoldModulus = z + h
  BY <1>1, <1>4
<1> QED  BY <1>1, <1>2, <1>5

(* A purchase takes qty units off the shelf for qty times their price.     *)
LEMMA PurchaseSells ==
    ASSUME IInv, ItemWorthFits, NEW i \in ItemIDs, NEW buyer \in Guilds,
           NEW qty \in Quantities, NEW t \in Readings, Purchase(i, buyer, qty, t)
    PROVE  /\ i \in DOMAIN items /\ DOMAIN items' = DOMAIN items
           /\ \A j \in DOMAIN items : j # i => items'[j] = items[j]
           /\ qty \in Nat /\ qty >= 1 /\ qty <= items[i].quantity
           /\ items'[i].price = items[i].price /\ items'[i].rarity = items[i].rarity
           /\ items'[i].quantity = items[i].quantity - qty
           /\ ~AuctionOnly(items[i].rarity)
           /\ Cost(items[i], qty) = items[i].price * qty
<1>1. /\ i \in DOMAIN items /\ items[i] \in Item /\ qty \in Int
      /\ qty >= 1 /\ qty <= items[i].quantity /\ ~AuctionOnly(items[i].rarity)
      /\ items' = [items EXCEPT ![i] = SellTo(items[i], qty)]
  BY RequestsAssumption DEF IInv, TypeOK, Purchase, CanSellTo
<1>2. qty \in Nat /\ items[i].price \in Nat /\ items[i].quantity \in Nat
  BY <1>1 DEF Item
<1>3. /\ SellTo(items[i], qty).price = items[i].price
      /\ SellTo(items[i], qty).rarity = items[i].rarity
      /\ SellTo(items[i], qty).quantity = items[i].quantity - qty
  BY <1>1 DEF SellTo, Item
<1>4. /\ DOMAIN items' = DOMAIN items /\ items'[i] = SellTo(items[i], qty)
      /\ \A j \in DOMAIN items : j # i => items'[j] = items[j]
  BY <1>1
<1> DEFINE worth == items[i].price * qty
           whole == items[i].price * items[i].quantity
<1>5. worth <= whole /\ worth \in Nat
  BY <1>1, <1>2, PartWorth
<1>6. whole < GoldModulus \div 2 /\ whole \in Nat
  BY <1>1, <1>2 DEF ItemWorthFits
<1>7. Cost(items[i], qty) = Int64(worth)
  BY DEF Cost
<1> HIDE DEF worth, whole
<1>8. worth < GoldModulus \div 2
  BY <1>5, <1>6, GoldModulusAssumption
<1>9. Cost(items[i], qty) = worth
  BY <1>5, <1>7, <1>8, Int64Fits
<1> QED  BY <1>1, <1>2, <1>3, <1>4, <1>9 DEF worth

(* What is listed stays worth an int64.                                    *)
LEMMA NextKeepsWorth ==
    ASSUME StockWorthFits, IInv, ItemWorthFits, [Next]_vars
    PROVE  ItemWorthFits'
<1>1. ASSUME NEW in \in Listings, NEW i \in ItemIDs, NEW t \in Readings, CreateItem(in, i, t)
      PROVE  ItemWorthFits'
  <2>1. CASE AuctionOnly(in.rarity)
    <3>1. \E x \in AuctionIDs \ DOMAIN auctions :
            items' = Put(items, i, [NewItem(in) EXCEPT !.status = "in_auction"])
      BY <1>1, <2>1 DEF CreateItem
    <3>2. [NewItem(in) EXCEPT !.status = "in_auction"].rarity = in.rarity
      BY DEF NewItem
    <3> QED  BY <2>1, <3>1, <3>2 DEF ItemWorthFits, Put
  <2>2. CASE ~AuctionOnly(in.rarity)
    <3>1. items' = Put(items, i, NewItem(in)) /\ ValidListing(in)
      BY <1>1, <2>2 DEF CreateItem
    <3>2. NewItem(in).price = in.price /\ NewItem(in).quantity = in.quantity
      BY <2>2 DEF NewItem
    <3>3. in.price * in.quantity < GoldModulus \div 2
      BY <2>2, <3>1 DEF StockWorthFits
    <3> QED  BY <3>1, <3>2, <3>3 DEF ItemWorthFits, Put
  <2> QED  BY <2>1, <2>2
<1>2. ASSUME NEW i \in ItemIDs, NEW buyer \in Guilds, NEW qty \in Quantities,
             NEW t \in Readings, Purchase(i, buyer, qty, t)
      PROVE  ItemWorthFits'
  <2>1. /\ i \in DOMAIN items /\ DOMAIN items' = DOMAIN items
        /\ \A j \in DOMAIN items : j # i => items'[j] = items[j]
        /\ items'[i].price = items[i].price
        /\ qty \in Nat /\ qty <= items[i].quantity
        /\ items'[i].quantity = items[i].quantity - qty
        /\ ~AuctionOnly(items[i].rarity)
    BY <1>2, PurchaseSells
  <2>2. items[i].price \in Nat /\ items[i].quantity \in Nat
    BY <2>1 DEF IInv, TypeOK, Item
  <2>3. items'[i].quantity \in Nat /\ items'[i].quantity <= items[i].quantity
    BY <2>1, <2>2
  <2> DEFINE rest == items'[i].price * items'[i].quantity
             whole == items[i].price * items[i].quantity
  <2>4. rest <= whole /\ rest \in Nat /\ whole \in Nat
    BY <2>1, <2>2, <2>3, PartWorth
  <2>5. whole < GoldModulus \div 2
    BY <2>1 DEF ItemWorthFits
  <2> HIDE DEF rest, whole
  <2>6. rest < GoldModulus \div 2
    BY <2>4, <2>5, GoldModulusAssumption
  <2> QED  BY <2>1, <2>6 DEF ItemWorthFits, rest
<1>3. ASSUME NEW t \in Readings, SettleDueAuctions(t)
      PROVE  ItemWorthFits'
  <2>1. ASSUME NEW i \in DOMAIN items, UNCHANGED items \/ items' = SettledItems(DueAuctions(t))
        PROVE  /\ DOMAIN items' = DOMAIN items
               /\ items'[i].rarity = items[i].rarity /\ items'[i].price = items[i].price
               /\ items'[i].quantity = items[i].quantity
    <3>1. items[i] \in Item
      BY DEF IInv, TypeOK
    <3> QED  BY <2>1, <3>1 DEF SettledItems, Item
  <2>2. UNCHANGED items \/ items' = SettledItems(DueAuctions(t))
    BY <1>3 DEF SettleDueAuctions, vars
  <2>3. DOMAIN items' = DOMAIN items
    BY <2>2 DEF SettledItems
  <2> QED  BY <2>1, <2>2, <2>3 DEF ItemWorthFits
<1>4. ASSUME UNCHANGED items PROVE ItemWorthFits'
  BY <1>4 DEF ItemWorthFits
<1> QED  BY <1>1, <1>2, <1>3, <1>4
         DEF Next, RunSettlementWorker, BidOnItem, CancelBidOnItem, Tick, vars

(* As long as the stock of every listing is worth an int64, stock only     *)
(* leaves against payment in full to its seller, for every price, quantity *)
(* and interleaving (R2, money.go:5).  Without the hypothesis it does not. *)
THEOREM StockIsPaidFor ==
    ASSUME StockWorthFits
    PROVE  Spec => StockPaidFor
<1> DEFINE Paid == \A i \in DOMAIN items :
        items'[i].quantity # items[i].quantity =>
          /\ items'[i].quantity < items[i].quantity
          /\ LET seller == items[i].seller
             IN  wallets'[seller].total - wallets[seller].total =
                   items[i].price * (items[i].quantity - items'[i].quantity)
<1>1. ASSUME Init PROVE ItemWorthFits
  BY <1>1 DEF Init, ItemWorthFits
<1>2. IInv /\ ItemWorthFits /\ [Next]_vars => ItemWorthFits'
  BY NextKeepsWorth
<1>3. ASSUME IInv, ItemWorthFits, [Next]_vars PROVE Paid
  <2> SUFFICES ASSUME NEW i \in DOMAIN items, items'[i].quantity # items[i].quantity
               PROVE  /\ items'[i].quantity < items[i].quantity
                      /\ wallets'[items[i].seller].total - wallets[items[i].seller].total =
                           items[i].price * (items[i].quantity - items'[i].quantity)
    OBVIOUS
  <2>1. items[i] \in Item
    BY <1>3 DEF IInv, TypeOK
  <2>2. ~(\E in \in Listings, j \in ItemIDs, t \in Readings : CreateItem(in, j, t))
    BY DEF CreateItem, Put
  <2>3. ~RunSettlementWorker
    <3> SUFFICES ASSUME NEW t \in Readings, SettleDueAuctions(t) PROVE FALSE
      BY DEF RunSettlementWorker
    <3>1. items' = SettledItems(DueAuctions(t))
      BY DEF SettleDueAuctions, vars
    <3> QED  BY <2>1, <3>1 DEF SettledItems, Item
  <2>4. PICK j \in ItemIDs, buyer \in Guilds, qty \in Quantities, t \in Readings :
          Purchase(j, buyer, qty, t)
    BY <1>3, <2>2, <2>3 DEF Next, BidOnItem, CancelBidOnItem, Tick, vars
  <2>5. /\ \A k \in DOMAIN items : k # j => items'[k] = items[k]
        /\ qty \in Nat /\ qty >= 1 /\ qty <= items[j].quantity
        /\ items'[j].quantity = items[j].quantity - qty
        /\ Cost(items[j], qty) = items[j].price * qty
    BY <1>3, <2>4, PurchaseSells
  <2>6. i = j
    BY <2>5
  <2> DEFINE seller == items[i].seller
             cost == Cost(items[i], qty)
  <2>7. /\ seller \in Registered /\ buyer # seller /\ cost \in Nat
        /\ wallets'[seller].total = wallets[seller].total + cost
    <3>1. /\ seller \in Registered /\ buyer # seller /\ cost \in Nat
          /\ wallets'[seller].total = wallets[seller].total
                                        + (IF seller = seller THEN cost ELSE 0)
                                        - (IF seller = buyer THEN cost ELSE 0)
      BY <1>3, <2>4, <2>6, PurchaseMoves
    <3>2. wallets[seller].total \in Nat
      BY <1>3, <3>1 DEF IInv, TypeOK, Wallet
    <3> HIDE DEF cost
    <3> QED  BY <3>1, <3>2
  <2>8. wallets[seller].total \in Nat /\ items[i].quantity \in Nat
    BY <1>3, <2>1, <2>7 DEF IInv, TypeOK, Wallet, Item
  <2>9. wallets'[seller].total - wallets[seller].total = cost
    BY <2>7, <2>8
  <2>10. items[i].quantity - items'[i].quantity = qty /\ items'[i].quantity < items[i].quantity
    BY <2>5, <2>6, <2>8
  <2> QED  BY <2>5, <2>6, <2>9, <2>10
<1> QED  BY <1>1, <1>2, <1>3, MarketInvariant, PTL DEF Spec, StockPaidFor

=============================================================================
