----------------------------- MODULE MCPostgres -----------------------------
(***************************************************************************)
(* Instances of PostgresUnits for TLC.                                     *)
(***************************************************************************)
EXTENDS PostgresUnits, MarketProperties, TLC

CONSTANTS g1, g2, g3

Symmetry == Permutations(Clients) \cup Permutations(ItemIDs)

Legendary(seller, price) ==
    [rarity |-> "legendary", seller |-> seller, price |-> price, quantity |-> 0]

Rare(seller, price, quantity) ==
    [rarity |-> "rare", seller |-> seller, price |-> price, quantity |-> quantity]

Gold3 == [g \in Registered |-> 3]
Uncapped == [g \in Registered |-> 0]
OneCapped == [g \in Registered |-> IF g = g3 THEN 2 ELSE 0]

OneOfEach == {Legendary(g1, 1), Rare(g2, 1, 1)}

BidBy(g, n) == {r \in Bids : r.guild = g /\ r.amount = n}
Buy(g) == {r \in Purchases : r.guild = g}
Withdraw(g, b) == [op : {"cancel"}, item : ItemIDs, guild : {g}, bid : {b}]

\* Bids that unseat each other, a withdrawal, a purchase and a query.
MixedRequests ==
    BidBy(g2, 1) \cup BidBy(g3, 2) \cup BidBy(g2, 3) \cup Buy(g3) \cup Withdraw(g2, 1)
      \cup {[op |-> "wallet", guild |-> g2]}

\* g1 buys from g2 while the worker hands the gold of g2 to g1.
CrossingRequests == BidBy(g2, 1) \cup Buy(g1) \cup {[op |-> "wallet", guild |-> g1]}
=============================================================================
