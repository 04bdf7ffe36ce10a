-------------------------- MODULE MarketProperties --------------------------
(***************************************************************************)
(* What the market promises, over the state of Market.                     *)
(***************************************************************************)
EXTENDS Market

(* Every table has rows of its type: in particular no stock, balance or    *)
(* reservation ever goes below zero (domain.Item, Wallet, Auction).        *)
TypeOK ==
    /\ DOMAIN items \subseteq ItemIDs
    /\ items \in [DOMAIN items -> Item]
    /\ wallets \in [Registered -> Wallet]
    /\ DOMAIN auctions \subseteq AuctionIDs
    /\ auctions \in [DOMAIN auctions -> Auction]
    /\ ledger \in [LedgerKeys -> Nat]
    /\ now \in 0..MaxTime

-----------------------------------------------------------------------------
(* Safety.                                                                 *)

(* The invariant wallet.go:6 states: a guild never commits gold it does    *)
(* not have, across purchases, bids and settlements (R13).                 *)
Solvent == \A g \in Registered : wallets[g].reserved <= wallets[g].total

(* What a guild has reserved is exactly what it currently leads with, over *)
(* all open auctions: the outbid are released at once, nobody twice, and a *)
(* guild that raises its own bid holds one reservation, not two (R7).      *)
ReservedBacksLeads ==
    \A g \in Registered : wallets[g].reserved = GoldIn(Leads, LedBy(g))

Treasury == [g \in Registered |-> wallets[g].total]

(* Purchases and settlements move gold between guilds; none is made and    *)
(* none is lost, whatever is bid, outbid, cancelled or rolled back.        *)
GoldConserved == GoldIn(Treasury, Registered) = GoldIn(SeedGold, Registered)

(* Replaying a guild's ledger from its seed gold gives its total (R9,      *)
(* ledger.go:5).                                                           *)
LedgerReplaysTotal ==
    \A g \in Registered :
        wallets[g].total = SeedGold[g] + Posted(g, {"credit"}, 0)
                                       - Posted(g, {"debit", "settle"}, 0)

(* The bids of guild g that it raised itself: <<auction, bid>>.            *)
OwnRaises(g) ==
    UNION {{x} \X {b \in 1..(Len(auctions[x].bids) - 1) :
                      auctions[x].bids[b].guild = g /\ auctions[x].bids[b + 1].guild = g}
           : x \in DOMAIN auctions}

(* Not so for what it has reserved, although ledger.go:5 claims "the same  *)
(* total/reserved": a guild that raises its own bid has the old one        *)
(* released without an entry (auction.go:88), so its reserve entries less  *)
(* its release and settle entries come to more than it has reserved, by    *)
(* every bid it ever raised itself.                                        *)
ReplayOverstatesReserved ==
    \A g \in Registered :
        LET raised == [r \in OwnRaises(g) |-> auctions[r[1]].bids[r[2]].amount]
        IN  wallets[g].reserved + GoldIn(raised, OwnRaises(g)) =
              Posted(g, {"reserve"}, 0) - Posted(g, {"release", "settle"}, 0)

Stands(bids) ==
    bids # <<>> => /\ bids[Len(bids)].active
                   /\ \A b \in 1..(Len(bids) - 1) :
                        bids[b].amount < bids[Len(bids)].amount

(* The last bid of an auction is still standing and above every other bid  *)
(* ever made in it, withdrawn ones too: whoever bid last pays if the       *)
(* auction ends now (R5, R11, R12).                                        *)
LeaderStands == \A x \in DOMAIN auctions : Stands(auctions[x].bids)

(* The two tables agree on every Legendary: it is in_auction exactly while *)
(* one auction of it is open, never two (R3); sold_out exactly if one was  *)
(* won; available exactly if its auction closed without a bid (R8).        *)
ItemAuctionAgree ==
    \A i \in DOMAIN items : AuctionOnly(items[i].rarity) =>
        LET ended == {x \in DOMAIN auctions :
                        auctions[x].item = i /\ auctions[x].status = "settled"}
            won == {x \in ended : auctions[x].bids # <<>>}
        IN  /\ Cardinality(ActiveAuctions(i)) =
                 IF items[i].status = "in_auction" THEN 1 ELSE 0
            /\ Cardinality(won) = IF items[i].status = "sold_out" THEN 1 ELSE 0

PostedFor(g, type, i) == GoldIn(ledger, {g} \X {type} \X {i} \X Days)

(* Every auction is paid for once: after it settled, the last bidder's     *)
(* ledger shows its bid as settled for that item and the seller's shows    *)
(* the same gold as credited, and nobody else paid or was paid; while it   *)
(* is open, or if nobody bid, nobody has (R1, R9).                         *)
WinnerPaysOnce ==
    \A x \in DOMAIN auctions :
        LET a == auctions[x]
            sold == a.status = "settled" /\ a.bids # <<>>
            due(g, party) == IF sold /\ g = party THEN a.bids[Len(a.bids)].amount ELSE 0
        IN  \A g \in Registered :
              /\ PostedFor(g, "settle", a.item) =
                   due(g, IF sold THEN a.bids[Len(a.bids)].guild ELSE g)
              /\ PostedFor(g, "credit", a.item) = due(g, a.seller)
              /\ PostedFor(g, "debit", a.item) = 0

(* An auction stays open for its full extension after every bid it took,   *)
(* so the others always have that long to answer (R6).                     *)
AnswerTime ==
    \A x \in DOMAIN auctions : \A b \in DOMAIN auctions[x].bids :
        LET bid == auctions[x].bids[b]
        IN  /\ bid.placedAt < auctions[x].endsAt
            /\ bid.placedAt + auctions[x].extension <= auctions[x].endsAt

PostedOn(g, types, d) == GoldIn(ledger, {g} \X types \X ItemIDs \X {d})

(* A day's purchases alone never pass the cap, even those that commit      *)
(* after midnight with a clock reading from before it (R14).               *)
PurchasesWithinCap ==
    \A g \in Registered, d \in Days :
        DailyCap[g] > 0 => PostedOn(g, {"debit"}, d) <= DailyCap[g]

-----------------------------------------------------------------------------
(* What a step may never do.                                               *)

(* While an auction is open its leading bid is only ever replaced by one   *)
(* at least 5% higher, never withdrawn or lost, and its end never moves    *)
(* closer (R6, R11, R12).                                                  *)
LeadOnlyRises ==
    [][\A x \in DOMAIN auctions :
        /\ auctions'[x].endsAt >= auctions[x].endsAt
        /\ Leads[x] > 0 => \/ Leads'[x] = Leads[x]
                           \/ 100 * Leads'[x] >= 105 * Leads[x]
      ]_vars

(* A settled auction is final: its row never changes again, its item keeps *)
(* its status and its ledger entries stay as they are, even if the worker  *)
(* ticks twice or with an older clock reading (auction.go:193).            *)
SettledIsFinal ==
    [][\A x \in DOMAIN auctions : auctions[x].status = "settled" =>
        /\ auctions'[x] = auctions[x]
        /\ items'[auctions[x].item] = items[auctions[x].item]
        /\ \A k \in LedgerKeys : k[3] = auctions[x].item => ledger'[k] = ledger[k]
      ]_vars

(* Stock only leaves a listing against payment in full: the seller earns   *)
(* the unit price of every unit gone (R2; money.go:5 "money must be        *)
(* exact").                                                                *)
StockPaidFor ==
    [][\A i \in DOMAIN items :
        items'[i].quantity # items[i].quantity =>
          /\ items'[i].quantity < items[i].quantity
          /\ LET seller == items[i].seller
             IN  wallets'[seller].total - wallets[seller].total =
                   items[i].price * (items[i].quantity - items'[i].quantity)
      ]_vars

-----------------------------------------------------------------------------
(* Progress, under FairSpec.                                               *)

(* Every auction past its end time is closed (auction.go:189).             *)
DueSettled ==
    \A x \in AuctionIDs :
        (x \in DOMAIN auctions /\ Due(auctions[x], now))
            ~> (x \in DOMAIN auctions /\ auctions[x].status = "settled")
=============================================================================
