------------------------------- MODULE Market -------------------------------
(***************************************************************************)
(* The market service (internal/service) over a store whose units of work  *)
(* are atomic: the in-memory store, which runs WithinTx under one mutex,   *)
(* and what the Postgres store has to look like.  Each action is one       *)
(* committed unit of work.  A request that the code rejects, and a unit    *)
(* that is rolled back, changes nothing and is a stuttering step.          *)
(*                                                                         *)
(* A unit reads the clock some time before it commits: CreateItem before   *)
(* it opens the unit, the others inside it, ahead of further waits.  The   *)
(* reading t an action uses is any of the last MaxLag time units.          *)
(*                                                                         *)
(* PurchaseEntriesOneSided, BidWalletsUnreserved, BidWalletsStale,         *)
(* DueWithBids, DueAgain, SettledWalletsUncredited, SettledItemsStuck and  *)
(* SettleEntriesUncredited are seeded faults of the definitions they       *)
(* precede, used by none.                                                  *)
(***************************************************************************)
EXTENDS Domain

CONSTANTS
    Guilds,             \* the X-Guild-Id values requests carry
    Registered,         \* the guilds that have a wallet row
    SeedGold,           \* their treasury at first boot
    DailyCap,           \* their daily cap, 0 for none
    ItemIDs,
    AuctionIDs,
    Listings,           \* the CreateItemInput values requests carry
    Quantities,         \* the quantities purchase requests carry
    Amounts,            \* the amounts bids carry
    MaxQuantity,        \* the largest quantity a row of items holds: 2^31 - 1
                        \* in Postgres, the largest int in memory
    AuctionWindow,
    AuctionExtension,
    DayLength,
    MaxTime,            \* bound: the clock stops here
    MaxLag              \* bound: the oldest clock reading a unit commits with

ASSUME GuildsAssumption ==
    /\ Registered \subseteq Guilds
    /\ IsFiniteSet(Registered)
    /\ SeedGold \in [Registered -> Nat]
    /\ DailyCap \in [Registered -> Nat]

ASSUME RequestsAssumption ==
    /\ Listings \subseteq [rarity : STRING, seller : Guilds,
                           price : Int, quantity : Int]
    /\ Quantities \subseteq Int
    /\ Amounts \subseteq Int

ASSUME StoreAssumption == MaxQuantity \in Nat \ {0}

ASSUME ClockAssumption ==
    /\ AuctionWindow \in Nat
    /\ AuctionExtension \in Nat
    /\ DayLength \in Nat \ {0}
    /\ MaxTime \in Nat
    /\ MaxLag \in Nat

VARIABLES
    items,      \* the items table, a map from IDs
    wallets,    \* the wallets table
    auctions,   \* the auctions table, each row with its bids
    ledger,     \* the ledger: the gold posted per guild, type, item and day
    now         \* the wall clock

vars == <<items, wallets, auctions, ledger, now>>

-----------------------------------------------------------------------------
(* startOfUTCDay(t), as the number of the day.                             *)
Day(t) == t \div DayLength

Days == 0..Day(MaxTime)

LedgerTypes == {"debit", "credit", "reserve", "release", "settle"}

LedgerKeys == Registered \X LedgerTypes \X ItemIDs \X Days

Item == [rarity : Rarities, seller : Guilds, price : Nat, quantity : Nat,
         status : ItemStatuses]

Bid == [guild : Registered, amount : Nat, active : BOOLEAN, placedAt : Nat]

Auction == [item : ItemIDs, seller : Guilds, startPrice : Nat, endsAt : Nat,
            extension : Nat, status : {"active", "settled"}, bids : Seq(Bid)]

Init ==
    /\ items = [i \in {} |-> i]
    /\ wallets = [g \in Registered |-> [total |-> SeedGold[g], reserved |-> 0]]
    /\ auctions = [x \in {} |-> x]
    /\ ledger = [k \in LedgerKeys |-> 0]
    /\ now = 0

Readings == {t \in 0..now : now - t <= MaxLag}

(* The map f with key k set to v.                                          *)
Put(f, k, v) == [x \in DOMAIN f \cup {k} |-> IF x = k THEN v ELSE f[x]]

(* The auctions GetActiveAuctionByItem may return.                         *)
ActiveAuctions(i) ==
    {x \in DOMAIN auctions : auctions[x].item = i /\ auctions[x].status = "active"}

(* The gold of the given types that guild g posted on day d or later.      *)
Posted(g, types, from) ==
    GoldIn(ledger, {g} \X types \X ItemIDs \X {d \in Days : d >= from})

SpentSince(g, d) == Posted(g, {"debit", "settle"}, d)

-----------------------------------------------------------------------------
(* openAuction: the row of a new auction.                                  *)
NewAuction(i, in, t) ==
    [item |-> i, seller |-> in.seller, startPrice |-> in.price,
     endsAt |-> t + AuctionWindow, extension |-> AuctionExtension,
     status |-> "active", bids |-> <<>>]

(* The quantity column, an INT, takes the row; Go's int is twice as wide.  *)
Insertable(item) == item.quantity <= MaxQuantity

(* The seller is not looked up: a guild without a wallet may list.         *)
CreateItem(in, i, t) ==
    /\ ValidListing(in)
    /\ Insertable(NewItem(in))
    /\ i \notin DOMAIN items
    /\ IF AuctionOnly(in.rarity)
       THEN \E x \in AuctionIDs \ DOMAIN auctions :
              /\ ActiveAuctions(i) = {}
              /\ auctions' = Put(auctions, x, NewAuction(i, in, t))
              /\ items' = Put(items, i, [NewItem(in) EXCEPT !.status = "in_auction"])
       ELSE /\ items' = Put(items, i, NewItem(in))
            /\ UNCHANGED auctions
    /\ UNCHANGED <<wallets, ledger, now>>

-----------------------------------------------------------------------------
PurchaseEntriesOneSided(buyer, seller, cost, i, t) ==
    [ledger EXCEPT ![<<seller, "credit", i, Day(t)>>] = @ + cost]

PurchaseEntries(buyer, seller, cost, i, t) ==
    [ledger EXCEPT ![<<buyer, "debit", i, Day(t)>>] = @ + cost,
                   ![<<seller, "credit", i, Day(t)>>] = @ + cost]

Purchase(i, buyer, qty, t) ==
    /\ i \in DOMAIN items
    /\ LET item == items[i]
           cost == Cost(item, qty)
       IN  /\ buyer \in DOMAIN wallets
           /\ item.seller \in DOMAIN wallets
           /\ CanSellTo(item, buyer, qty)
           /\ WithinDailyCap(DailyCap[buyer], SpentSince(buyer, Day(t)), cost)
           /\ CanDebit(wallets[buyer], cost)
           /\ items' = [items EXCEPT ![i] = SellTo(item, qty)]
           /\ wallets' = [wallets EXCEPT ![buyer] = Debit(@, cost),
                                         ![item.seller] = Credit(@, cost)]
           /\ ledger' = PurchaseEntries(buyer, item.seller, cost, i, t)
    /\ UNCHANGED <<auctions, now>>

-----------------------------------------------------------------------------
(* The wallets once the unseated leader of a, if any, has its gold back.   *)
(* When a guild raises its own bid this is the wallet it then reserves on. *)
Released(a) ==
    IF HighestBid(a) = 0 THEN wallets
    ELSE [wallets EXCEPT ![Leader(a).guild] = Release(@, Leader(a).amount)]

(* The ledger after a bid.  A guild that raises its own bid posts the new  *)
(* reservation and no release of the old one.                              *)
BidEntries(a, bidder, amount, t) ==
    LET reserved == [ledger EXCEPT
                        ![<<bidder, "reserve", a.item, Day(t)>>] = @ + amount]
    IN  IF HighestBid(a) = 0 \/ Leader(a).guild = bidder THEN reserved
        ELSE [reserved EXCEPT
                ![<<Leader(a).guild, "release", a.item, Day(t)>>] = @ + Leader(a).amount]

BidWalletsUnreserved(a, bidder, amount) == Released(a)

BidWalletsStale(a, bidder, amount) ==
    [Released(a) EXCEPT ![bidder] = Reserve(wallets[bidder], amount)]

(* The reservation is made on the released wallet, not on a copy read      *)
(* before the release.                                                     *)
BidWallets(a, bidder, amount) ==
    [Released(a) EXCEPT ![bidder] = Reserve(@, amount)]

BidOnItem(i, bidder, amount, t) ==
    /\ IsPositive(amount)
    /\ \E x \in ActiveAuctions(i) :
        LET a == auctions[x]
        IN  /\ bidder \in DOMAIN wallets
            /\ CanPlaceBid(a, bidder, amount, t)
            /\ WithinDailyCap(DailyCap[bidder], SpentSince(bidder, Day(t)), amount)
            /\ HighestBid(a) # 0 =>
                 /\ Leader(a).guild \in DOMAIN wallets
                 /\ CanRelease(wallets[Leader(a).guild], Leader(a).amount)
            /\ CanReserve(Released(a)[bidder], amount)
            /\ wallets' = BidWallets(a, bidder, amount)
            /\ ledger' = BidEntries(a, bidder, amount, t)
            /\ auctions' = [auctions EXCEPT ![x] = PlaceBid(a, bidder, amount, t)]
    /\ UNCHANGED <<items, now>>

CancelBidOnItem(i, b, guild) ==
    /\ \E x \in ActiveAuctions(i) :
        /\ CanCancelBid(auctions[x], b, guild)
        /\ auctions' = [auctions EXCEPT ![x] = CancelBid(@, b)]
    /\ UNCHANGED <<items, wallets, ledger, now>>

-----------------------------------------------------------------------------
(* Settlement.  settleOne runs for every due auction in one unit; since it *)
(* only subtracts from reservations and only adds proceeds to totals, the  *)
(* unit's effect does not depend on the order and is given in one piece.   *)

(* The amount at the head of each auction, 0 where nobody bids.            *)
Leads == [x \in DOMAIN auctions |->
            IF HighestBid(auctions[x]) = 0 THEN 0 ELSE Leader(auctions[x]).amount]

LedBy(g) ==
    {x \in DOMAIN auctions : /\ auctions[x].status = "active"
                             /\ HighestBid(auctions[x]) # 0
                             /\ Leader(auctions[x]).guild = g}

DueWithBids(t) ==
    {x \in DOMAIN auctions : /\ Due(auctions[x], t)
                             /\ HighestBid(auctions[x]) # 0}

DueAgain(t) == {x \in DOMAIN auctions : t >= auctions[x].endsAt}

DueAuctions(t) == {x \in DOMAIN auctions : Due(auctions[x], t)}

Won(D) == {x \in D : HighestBid(auctions[x]) # 0}

SoldBy(g, D) == {x \in Won(D) : auctions[x].seller = g}

SettledWalletsUncredited(D) ==
    [g \in DOMAIN wallets |->
        LET paid == GoldIn(Leads, LedBy(g) \cap D)
        IN  [total    |-> wallets[g].total - paid,
             reserved |-> wallets[g].reserved - paid]]

(* Wallet.Settle for the winners and Wallet.Credit for the sellers.        *)
SettledWallets(D) ==
    [g \in DOMAIN wallets |->
        LET paid == GoldIn(Leads, LedBy(g) \cap D)
        IN  [total    |-> wallets[g].total - paid + GoldIn(Leads, SoldBy(g, D)),
             reserved |-> wallets[g].reserved - paid]]

SettledItemsStuck(D) ==
    [i \in DOMAIN items |->
        IF i \in {auctions[x].item : x \in Won(D)}
        THEN [items[i] EXCEPT !.status = "sold_out"] ELSE items[i]]

(* A Legendary that was bid for is sold, the others return to the shelf.   *)
SettledItems(D) ==
    [i \in DOMAIN items |->
        IF i \in {auctions[x].item : x \in Won(D)}
        THEN [items[i] EXCEPT !.status = "sold_out"]
        ELSE IF i \in {auctions[x].item : x \in D}
             THEN [items[i] EXCEPT !.status = "available"] ELSE items[i]]

SettleEntriesUncredited(D, t) ==
    [k \in LedgerKeys |->
        ledger[k] + GoldIn(Leads, {x \in Won(D) :
            k = <<Leader(auctions[x]).guild, "settle", auctions[x].item, Day(t)>>})]

(* A settle entry for the winner and a credit entry for the seller of      *)
(* every auction won.                                                      *)
SettleEntries(D, t) ==
    [k \in LedgerKeys |->
        ledger[k] + GoldIn(Leads, {x \in Won(D) :
            \/ k = <<Leader(auctions[x]).guild, "settle", auctions[x].item, Day(t)>>
            \/ k = <<auctions[x].seller, "credit", auctions[x].item, Day(t)>>})]

CanSettleAll(D) ==
    /\ \A x \in Won(D) : /\ Leader(auctions[x]).guild \in DOMAIN wallets
                         /\ auctions[x].seller \in DOMAIN wallets
                         /\ IsPositive(Leads[x])
    /\ \A g \in DOMAIN wallets : GoldIn(Leads, LedBy(g) \cap D) <= wallets[g].reserved

(* One auction that cannot be settled, because its seller has no wallet,   *)
(* rolls the whole unit back: the worker logs the error and goes on.       *)
SettleDueAuctions(t) ==
    LET D == DueAuctions(t)
    IN  \/ /\ CanSettleAll(D)
           /\ auctions' = [x \in DOMAIN auctions |->
                             IF x \in D THEN [auctions[x] EXCEPT !.status = "settled"]
                             ELSE auctions[x]]
           /\ items' = SettledItems(D)
           /\ wallets' = SettledWallets(D)
           /\ ledger' = SettleEntries(D, t)
           /\ UNCHANGED now
        \/ /\ ~CanSettleAll(D)
           /\ UNCHANGED vars

(* One tick of the worker's timer.                                         *)
RunSettlementWorker == \E t \in Readings : SettleDueAuctions(t)

-----------------------------------------------------------------------------
Tick ==
    /\ now < MaxTime
    /\ now' = now + 1
    /\ UNCHANGED <<items, wallets, auctions, ledger>>

Next ==
    \/ \E in \in Listings, i \in ItemIDs, t \in Readings : CreateItem(in, i, t)
    \/ \E i \in ItemIDs, buyer \in Guilds, qty \in Quantities, t \in Readings :
         Purchase(i, buyer, qty, t)
    \/ \E i \in ItemIDs, bidder \in Guilds, amount \in Amounts, t \in Readings :
         BidOnItem(i, bidder, amount, t)
    \/ \E x \in DOMAIN auctions, guild \in Guilds :
         \E b \in DOMAIN auctions[x].bids : CancelBidOnItem(auctions[x].item, b, guild)
    \/ RunSettlementWorker
    \/ Tick

Spec == Init /\ [][Next]_vars

(* The worker calls SettleDueAuctions on every tick of its timer for as    *)
(* long as the process lives, whatever the last call returned; time        *)
(* passes.  Requests need not come.                                        *)
FairSpec == Spec /\ WF_vars(Tick) /\ WF_vars(RunSettlementWorker)
=============================================================================
