------------------------------ MODULE MCServer ------------------------------
(***************************************************************************)
(* Instances of Server for TLC.                                            *)
(***************************************************************************)
EXTENDS Server, TLC

CONSTANTS g1, g2, g3

Symmetry == Permutations(ItemIDs) \cup Permutations(AuctionIDs)

Legendary(seller, price) ==
    [rarity |-> "legendary", seller |-> seller, price |-> price, quantity |-> 0]

Rare(seller, price, quantity) ==
    [rarity |-> "rare", seller |-> seller, price |-> price, quantity |-> quantity]

\* What main.go seeds, in small: a stack of goods and a Legendary.
DemoGuilds == <<g1, g2, g3>>
DemoStarters == <<Rare(g1, 1, 2), Legendary(g3, 1)>>
\* A guild lists a Legendary of its own while the server is up.
Listed == {Legendary(g2, 1)}

Gold2 == [g \in Registered |-> 2]
Uncapped == [g \in Registered |-> 0]
=============================================================================
