------------------------------ MODULE MCMarket ------------------------------
(***************************************************************************)
(* Instances of Market for TLC.                                            *)
(***************************************************************************)
EXTENDS MarketEscrow, TLC

CONSTANTS g1, g2, g3, g4

Symmetry == Permutations(ItemIDs) \cup Permutations(AuctionIDs)

Legendary(seller, price) ==
    [rarity |-> "legendary", seller |-> seller, price |-> price, quantity |-> 0]

Rare(seller, price, quantity) ==
    [rarity |-> "rare", seller |-> seller, price |-> price, quantity |-> quantity]

\* An auction at a price of which 5% is more than the one unit every raise
\* needs, and a stock of two at a price the capped guild pays once a day.
AuctionAndStock == {Legendary(g1, 40), Rare(g2, 22, 2)}
\* Two sellers who bid on each other, and g4, which has no wallet.
StrangerSells == {Legendary(g1, 1), Legendary(g2, 1), Legendary(g4, 1)}
AllKinds == StrangerSells \cup {Rare(g2, 1, 2)}
OnlyRare == {Rare(g1, 6, 3)}

Gold2 == [g \in Registered |-> 2]
Gold3 == [g \in Registered |-> 3]
Gold50 == [g \in Registered |-> 50]
Uncapped == [g \in Registered |-> 0]
OneCapped == [g \in Registered |-> IF g = g3 THEN 43 ELSE 0]
=============================================================================
