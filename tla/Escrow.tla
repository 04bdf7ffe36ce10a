------------------------------- MODULE Escrow -------------------------------
(***************************************************************************)
(* What the market promises to do with gold, without its bookkeeping.      *)
(*                                                                         *)
(* There are no reservations here.  Gold is physically somewhere: in a     *)
(* guild's purse, or in the hands of a lot whose leader has put it down.   *)
(* A bid puts the bidder's gold down and hands the previous leader's back, *)
(* closing a lot hands what lies on it to the seller, and a trade moves    *)
(* gold from purse to purse.                                               *)
(***************************************************************************)
EXTENDS Gold

CONSTANTS Members,      \* the guilds with a purse
          Sellers,      \* those who may put up a lot, members or not
          Lots,
          Purse0        \* what their purses hold at first

VARIABLES purse, lot

vars == <<purse, lot>>

(* leader is the set of the one guild that leads, or empty; price is the   *)
(* gold that lies on the lot.                                              *)
Unlisted == [phase |-> "unlisted", sellers |-> {}, leader |-> {}, price |-> 0]

Init ==
    /\ purse = Purse0
    /\ lot = [x \in Lots |-> Unlisted]

Open(x, seller) ==
    /\ lot[x].phase = "unlisted"
    /\ lot' = [lot EXCEPT ![x] = [phase |-> "open", sellers |-> {seller},
                                 leader |-> {}, price |-> 0]]
    /\ UNCHANGED purse

(* The purses once the leader of lot x has its gold back.                  *)
Refunded(x) ==
    [g \in Members |-> purse[g] + IF g \in lot[x].leader THEN lot[x].price ELSE 0]

Raise(x, bidder) ==
    /\ lot[x].phase = "open"
    /\ bidder \notin lot[x].sellers
    /\ \E amount \in 1..Refunded(x)[bidder] :
        /\ amount > lot[x].price
        /\ lot' = [lot EXCEPT ![x].leader = {bidder}, ![x].price = amount]
        /\ purse' = [Refunded(x) EXCEPT ![bidder] = @ - amount]

Prices == [x \in Lots |-> lot[x].price]

(* Any number of open lots close together.  Gold that lies on a lot goes   *)
(* to a purse, so a lot that was bid for closes only if its seller has one.*)
Close(S) ==
    /\ S # {}
    /\ \A x \in S : /\ lot[x].phase = "open"
                    /\ lot[x].leader # {} => lot[x].sellers \subseteq Members
    /\ lot' = [x \in Lots |-> IF x \in S
                              THEN [lot[x] EXCEPT !.phase = "closed", !.price = 0]
                              ELSE lot[x]]
    /\ purse' = [g \in Members |->
                    purse[g] + GoldIn(Prices, {x \in S : g \in lot[x].sellers})]

Trade(buyer, seller) ==
    /\ buyer # seller
    /\ \E cost \in 1..purse[buyer] :
        purse' = [purse EXCEPT ![buyer] = @ - cost, ![seller] = @ + cost]
    /\ UNCHANGED lot

Next ==
    \/ \E x \in Lots, seller \in Sellers : Open(x, seller)
    \/ \E x \in Lots, bidder \in Members : Raise(x, bidder)
    \/ \E S \in SUBSET Lots : Close(S)
    \/ \E buyer, seller \in Members : Trade(buyer, seller)

Spec == Init /\ [][Next]_vars
=============================================================================
