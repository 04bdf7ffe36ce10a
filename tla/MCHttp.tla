------------------------------- MODULE MCHttp -------------------------------
(***************************************************************************)
(* Instances of HttpApi for TLC.                                           *)
(***************************************************************************)
EXTENDS HttpApi, TLC

CONSTANTS g1, g2, g3, g4, i1, NoItem, k1, k2, c1, c2, c3, c4, c5, c6

\* Retries are interchangeable.
Symmetry == Permutations({c2, c3})

Gold3 == [g \in Registered |-> 3]
Uncapped == [g \in Registered |-> 0]

Call(op, guild, key) ==
    [op |-> op, guild |-> guild, key |-> key, item |-> i1, bid |-> 0, body |-> "json",
     rarity |-> "", price |-> 0, quantity |-> 0, amount |-> 0]

List(guild, rarity, price, quantity, key) ==
    [Call("create", guild, key) EXCEPT !.item = NoItem, !.rarity = rarity,
                                       !.price = price, !.quantity = quantity]
BidFor(guild, amount, key) == [Call("bid", guild, key) EXCEPT !.amount = amount]
Withdraw(guild, b, key) == [Call("cancel", guild, key) EXCEPT !.bid = b, !.body = "empty"]

\* A listing; a bid and its retry under a key that another guild uses for its
\* own, higher bid; a withdrawal without a key; and a listing of more than
\* there may be, by a guild whose ID makes its scope that of the first bid.
MixedCalls ==
    c1 :> List(g1, "legendary", 1, 0, NoKey)
    @@ c2 :> BidFor(g2, 1, k1) @@ c3 :> BidFor(g2, 1, k1) @@ c4 :> BidFor(g3, 2, k1)
    @@ c5 :> Withdraw(g2, 1, NoKey) @@ c6 :> List(g4, "rare", 1, MaxQuantity + 1, k2)

\* g4 is g2|POST|/items/i1/bid, and k1 is POST|/items|k2.
BarredParts ==
    g1 :> <<"g1">> @@ g2 :> <<"g2">> @@ g3 :> <<"g3">>
    @@ g4 :> <<"g2", "POST", "/items/i1/bid">>
    @@ <<"items">> :> <<"/items">> @@ <<"items", i1, "bid">> :> <<"/items/i1/bid">>
    @@ k1 :> <<"POST", "/items", "k2">> @@ k2 :> <<"k2">>
=============================================================================
