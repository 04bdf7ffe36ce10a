---------------------------- MODULE MarketEscrow ----------------------------
(***************************************************************************)
(* The market implements Escrow: a guild's purse is what it has available, *)
(* and the gold on a lot is its leading bid.                               *)
(***************************************************************************)
EXTENDS MarketProperties

LotOf(x) ==
    IF x \notin DOMAIN auctions
    THEN [phase |-> "unlisted", sellers |-> {}, leader |-> {}, price |-> 0]
    ELSE LET a == auctions[x]
             open == a.status = "active"
         IN  [phase   |-> IF open THEN "open" ELSE "closed",
              sellers |-> {a.seller},
              leader  |-> IF HighestBid(a) = 0 THEN {} ELSE {Leader(a).guild},
              price   |-> IF open THEN Leads[x] ELSE 0]

E == INSTANCE Escrow WITH
        Members <- Registered,
        Sellers <- Guilds,
        Lots    <- AuctionIDs,
        Purse0  <- SeedGold,
        purse   <- [g \in Registered |-> Available(wallets[g])],
        lot     <- [x \in AuctionIDs |-> LotOf(x)]

(* The reserve, release and settle bookkeeping of Market (R7, D6) is       *)
(* indistinguishable from handing gold over: whatever is bid, outbid,      *)
(* raised, withdrawn, bought or settled in one batch, each step moves the  *)
(* available gold exactly as the corresponding step of Escrow does.  This  *)
(* is E!Spec; the steps that touch neither table are set aside first.      *)
EscrowImplemented ==
    E!Init /\ [][UNCHANGED <<wallets, auctions>> \/ E!Next]_(E!vars)
=============================================================================
