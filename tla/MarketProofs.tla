---------------------------- MODULE MarketProofs ----------------------------
(***************************************************************************)
(* Theorems about Market, for every value of its constants.                *)
(*                                                                         *)
(* The money invariants rest on one another and are proved together: a     *)
(* settlement stays solvent only because what the winners pay was          *)
(* reserved, what is reserved is a sum over the leading bids only if the   *)
(* bid that HighestBid finds is the one that was placed last, and that     *)
(* holds only because the leader cannot withdraw.                          *)
(***************************************************************************)
EXTENDS MarketProperties, FiniteSetTheorems, FunctionTheorems, TLAPS

-----------------------------------------------------------------------------
(* What sums of gold satisfy, for every finite set.                        *)

(* The coins of a finite set of natural amounts are finitely many, so a    *)
(* sum of gold is a natural number.                                        *)
LEMMA CoinsFinite ==
    ASSUME NEW S, IsFiniteSet(S), NEW f, \A x \in S : f[x] \in Nat
    PROVE  /\ IsFiniteSet(Coins(f, S))
           /\ GoldIn(f, S) \in Nat
<1> DEFINE Purse(x) == {x} \X (1..f[x])
           Purses == {Purse(x) : x \in S}
<1>1. IsFiniteSet(Purses)
  <2> DEFINE M == [x \in S |-> Purse(x)]
  <2>1. M \in Surjection(S, Purses)
    BY DEF Surjection
  <2> QED  BY <2>1, FS_Surjection
<1>2. \A P \in Purses : IsFiniteSet(P)
  <2> SUFFICES ASSUME NEW x \in S PROVE IsFiniteSet(Purse(x))
    OBVIOUS
  <2>1. IsFiniteSet({x})
    BY FS_Singleton
  <2>2. IsFiniteSet(1..f[x])
    BY FS_Interval
  <2> QED  BY <2>1, <2>2, FS_Product
<1>3. IsFiniteSet(UNION Purses)
  BY <1>1, <1>2, FS_UNION
<1> QED  BY <1>3, FS_CardinalityType DEF Coins, GoldIn

(* Amounts that agree on S have the same sum over S.                       *)
LEMMA GoldInEq ==
    ASSUME NEW S, NEW f, NEW h, \A x \in S : f[x] = h[x]
    PROVE  GoldIn(f, S) = GoldIn(h, S)
<1>1. Coins(f, S) = Coins(h, S)
  BY DEF Coins
<1> QED  BY <1>1 DEF GoldIn

(* A sum splits along any set D.                                           *)
LEMMA GoldInSplit ==
    ASSUME NEW S, IsFiniteSet(S), NEW f, \A x \in S : f[x] \in Nat, NEW D
    PROVE  GoldIn(f, S) = GoldIn(f, S \ D) + GoldIn(f, S \cap D)
<1>1. Coins(f, S) = Coins(f, S \ D) \cup Coins(f, S \cap D)
  BY DEF Coins
<1>2. Coins(f, S \ D) \cap Coins(f, S \cap D) = {}
  BY DEF Coins
<1>3. IsFiniteSet(S \ D) /\ IsFiniteSet(S \cap D)
  BY FS_Subset
<1>4. IsFiniteSet(Coins(f, S \ D)) /\ IsFiniteSet(Coins(f, S \cap D))
  BY <1>3, CoinsFinite
<1>5. Cardinality(Coins(f, S)) =
        Cardinality(Coins(f, S \ D)) + Cardinality(Coins(f, S \cap D)) - Cardinality({})
  <2>1. Cardinality(Coins(f, S \ D) \cup Coins(f, S \cap D)) =
          Cardinality(Coins(f, S \ D)) + Cardinality(Coins(f, S \cap D))
            - Cardinality(Coins(f, S \ D) \cap Coins(f, S \cap D))
    BY <1>4, FS_Union, Zenon
  <2> QED  BY <1>1, <1>2, <2>1, Zenon
<1>6. /\ Cardinality(Coins(f, S \ D)) \in Nat
      /\ Cardinality(Coins(f, S \cap D)) \in Nat
  BY <1>4, FS_CardinalityType
<1> QED  BY <1>5, <1>6, FS_EmptySet DEF GoldIn

(* Nothing sums to 0.                                                      *)
LEMMA GoldInEmpty ==
    ASSUME NEW f
    PROVE  GoldIn(f, {}) = 0
<1>1. Coins(f, {}) = {}
  BY DEF Coins
<1> QED  BY <1>1, FS_EmptySet DEF GoldIn

(* The sum of one amount is that amount.                                   *)
LEMMA GoldInOne ==
    ASSUME NEW f, NEW x, f[x] \in Nat
    PROVE  GoldIn(f, {x}) = f[x]
<1>1. Coins(f, {x}) = {x} \X (1..f[x])
  BY DEF Coins
<1>2. IsFiniteSet({x}) /\ Cardinality({x}) = 1
  BY FS_Singleton
<1>3. IsFiniteSet(1..f[x]) /\ Cardinality(1..f[x]) = f[x]
  <2>1. /\ IsFiniteSet(1..f[x])
        /\ Cardinality(1..f[x]) = IF 1 > f[x] THEN 0 ELSE f[x] - 1 + 1
    <3>1. 1 \in Int /\ f[x] \in Int
      OBVIOUS
    <3> QED  BY <3>1, FS_Interval, Zenon
  <2> QED  BY <2>1
<1>4. Cardinality({x} \X (1..f[x])) = Cardinality({x}) * Cardinality(1..f[x])
  BY <1>2, <1>3, FS_Product
<1>5. \A n \in Nat : 1 * n = n
  OBVIOUS
<1>6. Cardinality({x}) * Cardinality(1..f[x]) = 1 * f[x]
  BY <1>2, <1>3, Zenon
<1> QED  BY <1>1, <1>4, <1>5, <1>6, Zenon DEF GoldIn

(* The part of one member x in a sum over S.                               *)
LEMMA GoldInPoint ==
    ASSUME NEW S, IsFiniteSet(S), NEW f, \A y \in S : f[y] \in Nat, NEW x
    PROVE  GoldIn(f, S) = GoldIn(f, S \ {x}) + (IF x \in S THEN f[x] ELSE 0)
<1>1. GoldIn(f, S) = GoldIn(f, S \ {x}) + GoldIn(f, S \cap {x})
  BY GoldInSplit
<1>2. CASE x \in S
  <2>1. S \cap {x} = {x}
    BY <1>2
  <2>2. GoldIn(f, {x}) = f[x]
    BY <1>2, GoldInOne
  <2> QED  BY <1>1, <1>2, <2>1, <2>2
<1>3. CASE x \notin S
  <2>1. S \cap {x} = {}
    BY <1>3
  <2> QED  BY <1>1, <1>3, <2>1, GoldInEmpty
<1> QED  BY <1>2, <1>3

(* The part of S that belongs to g, and the gold each owner in G has in S. *)
Of(S, o, g) == {x \in S : o[x] = g}

PerOwner(f, S, o, G) == [g \in G |-> GoldIn(f, Of(S, o, g))]

(* Summing the amounts of S owner by owner gives the sum over S.  The      *)
(* coins of each owner g are numbered 1..h[g], and a coin of S is its      *)
(* owner together with its number.                                         *)
LEMMA GoldInGrouped ==
    ASSUME NEW S, IsFiniteSet(S), NEW f, \A x \in S : f[x] \in Nat,
           NEW G, NEW o, \A x \in S : o[x] \in G
    PROVE  GoldIn(PerOwner(f, S, o, G), G) = GoldIn(f, S)
<1> DEFINE h == PerOwner(f, S, o, G)
           C(g) == Coins(f, Of(S, o, g))
           num(g) == CHOOSE b : b \in Bijection(C(g), 1..h[g])
           N == [c \in Coins(f, S) |-> <<o[c[1]], num(o[c[1]])[c]>>]
<1>0. \A g \in G : h[g] = GoldIn(f, Of(S, o, g))
  BY DEF PerOwner
<1> HIDE DEF h
<1>1. ASSUME NEW g \in G
      PROVE  num(g) \in Bijection(C(g), 1..h[g])
  <2>1. IsFiniteSet(Of(S, o, g)) /\ \A x \in Of(S, o, g) : f[x] \in Nat
    BY FS_Subset DEF Of
  <2>2. IsFiniteSet(C(g))
    BY <2>1, CoinsFinite
  <2>3. ExistsBijection(1..Cardinality(C(g)), C(g))
    BY <2>2, FS_CardinalityType
  <2>4. Cardinality(C(g)) = h[g]
    BY <1>0 DEF GoldIn
  <2>5. ExistsBijection(C(g), 1..h[g])
    BY <2>3, <2>4, Fun_ExistsBijSymmetric
  <2> QED  BY <2>5 DEF ExistsBijection
<1>2. \A c : c \in Coins(f, S) <=>
               \E x \in S : \E k \in 1..f[x] : c = <<x, k>>
  BY DEF Coins
<1>3. \A g, c : c \in C(g) <=> /\ c \in Coins(f, S)
                                /\ o[c[1]] = g
  BY DEF Coins, Of
<1>4. \A c : c \in Coins(h, G) <=>
               \E g \in G : \E k \in 1..h[g] : c = <<g, k>>
  BY DEF Coins
<1>5. \A c \in Coins(f, S) : o[c[1]] \in G
  BY <1>2
<1> HIDE DEF num, C
<1>6. N \in Bijection(Coins(f, S), Coins(h, G))
  <2>1. ASSUME NEW c \in Coins(f, S)
        PROVE  N[c] \in Coins(h, G)
    <3> DEFINE g == o[c[1]]
    <3>1. g \in G /\ c \in C(g)
      BY <1>3, <1>5
    <3>2. num(g)[c] \in 1..h[g]
      BY <1>1, <3>1 DEF Bijection, Injection
    <3>3. N[c] = <<g, num(g)[c]>>
      OBVIOUS
    <3> QED  BY <1>4, <3>1, <3>2, <3>3
  <2>2. ASSUME NEW c \in Coins(f, S), NEW d \in Coins(f, S), N[c] = N[d]
        PROVE  c = d
    <3> DEFINE g == o[c[1]]
    <3>1. o[d[1]] = g /\ num(g)[c] = num(g)[d]
      BY <2>2
    <3>2. g \in G /\ c \in C(g) /\ d \in C(g)
      BY <1>3, <1>5, <3>1
    <3> HIDE DEF g
    <3> QED  BY <1>1, <3>1, <3>2 DEF Bijection, Injection, IsInjective
  <2>3. ASSUME NEW e \in Coins(h, G)
        PROVE  \E c \in Coins(f, S) : N[c] = e
    <3>1. PICK g \in G : \E k \in 1..h[g] : e = <<g, k>>
      BY <1>4
    <3>2. PICK k \in 1..h[g] : e = <<g, k>>
      BY <3>1
    <3>3. PICK c \in C(g) : num(g)[c] = k
      BY <1>1 DEF Bijection, Surjection
    <3>4. c \in Coins(f, S) /\ o[c[1]] = g
      BY <1>3
    <3> QED  BY <3>2, <3>3, <3>4
  <2>4. N \in [Coins(f, S) -> Coins(h, G)]
    BY <2>1
  <2> HIDE DEF N
  <2> QED  BY <2>2, <2>3, <2>4 DEF Bijection, Injection, IsInjective, Surjection
<1>7. IsFiniteSet(Coins(f, S))
  BY CoinsFinite
<1>8. ExistsBijection(Coins(f, S), Coins(h, G))
  BY <1>6 DEF ExistsBijection
<1> QED  BY <1>7, <1>8, FS_Bijection DEF GoldIn, h

(* The coins of S, one by one.                                             *)
LEMMA CoinsAre ==
    ASSUME NEW f, NEW S
    PROVE  /\ \A c \in Coins(f, S) : \E x \in S : \E k \in 1..f[x] : c = <<x, k>>
           /\ \A x \in S : \A k \in 1..f[x] : <<x, k>> \in Coins(f, S)
           /\ \A x, k : <<x, k>> \in Coins(f, S) => x \in S /\ k \in 1..f[x]
BY DEF Coins

(* Two amounts added member by member: the coins of e come on top of those *)
(* of f.                                                                   *)
LEMMA GoldInPlus ==
    ASSUME NEW S, IsFiniteSet(S), NEW f, NEW e, NEW h,
           \A x \in S : f[x] \in Nat /\ e[x] \in Nat /\ h[x] = f[x] + e[x]
    PROVE  GoldIn(h, S) = GoldIn(f, S) + GoldIn(e, S)
<1> DEFINE top == Coins(h, S) \ Coins(f, S)
           N == [c \in Coins(e, S) |-> <<c[1], c[2] + f[c[1]]>>]
<1>1. IsFiniteSet(Coins(f, S)) /\ IsFiniteSet(Coins(e, S)) /\ IsFiniteSet(Coins(h, S))
  BY CoinsFinite
<1>2. N \in Bijection(Coins(e, S), top)
  <2>1. ASSUME NEW c \in Coins(e, S) PROVE N[c] \in top
    <3>1. PICK x \in S : \E k \in 1..e[x] : c = <<x, k>>
      BY CoinsAre
    <3>2. PICK k \in 1..e[x] : c = <<x, k>>
      BY <3>1
    <3>3. k + f[x] \in 1..h[x] /\ k + f[x] \notin 1..f[x] /\ N[c] = <<x, k + f[x]>>
      BY <3>2
    <3> QED  BY <3>3, CoinsAre
  <2>2. ASSUME NEW c \in Coins(e, S), NEW d \in Coins(e, S), N[c] = N[d]
        PROVE  c = d
    <3>1. PICK x \in S : \E k \in 1..e[x] : c = <<x, k>>
      BY CoinsAre
    <3>2. PICK k \in 1..e[x] : c = <<x, k>>
      BY <3>1
    <3>3. PICK y \in S : \E l \in 1..e[y] : d = <<y, l>>
      BY CoinsAre
    <3>4. PICK l \in 1..e[y] : d = <<y, l>>
      BY <3>3
    <3>5. <<x, k + f[x]>> = <<y, l + f[y]>>
      BY <2>2, <3>2, <3>4
    <3>6. x = y /\ k + f[x] = l + f[x]
      BY <3>5
    <3> QED  BY <3>2, <3>4, <3>6
  <2>3. ASSUME NEW d \in top PROVE \E c \in Coins(e, S) : N[c] = d
    <3>1. PICK x \in S : \E l \in 1..h[x] : d = <<x, l>>
      BY CoinsAre
    <3>2. PICK l \in 1..h[x] : d = <<x, l>>
      BY <3>1
    <3>3. l \notin 1..f[x]
      BY <3>2, CoinsAre
    <3>4. l - f[x] \in 1..e[x] /\ (l - f[x]) + f[x] = l
      BY <3>3
    <3>5. <<x, l - f[x]>> \in Coins(e, S)
      BY <3>4, CoinsAre
    <3> QED  BY <3>2, <3>4, <3>5
  <2>4. N \in [Coins(e, S) -> top]
    BY <2>1
  <2> HIDE DEF N
  <2> QED  BY <2>2, <2>3, <2>4 DEF Bijection, Injection, IsInjective, Surjection
<1>3. IsFiniteSet(top) /\ Cardinality(top) = GoldIn(e, S)
  BY <1>1, <1>2, FS_Bijection DEF ExistsBijection, GoldIn
<1>4. Coins(f, S) \subseteq Coins(h, S)
  <2> SUFFICES ASSUME NEW c \in Coins(f, S) PROVE c \in Coins(h, S)
    OBVIOUS
  <2>1. PICK x \in S : \E k \in 1..f[x] : c = <<x, k>>
    BY CoinsAre
  <2>2. PICK k \in 1..f[x] : c = <<x, k>>
    BY <2>1
  <2>3. k \in 1..h[x]
    OBVIOUS
  <2> QED  BY <2>2, <2>3, CoinsAre
<1>5. Coins(h, S) = Coins(f, S) \cup top /\ Coins(f, S) \cap top = {}
  BY <1>4
<1>6. Cardinality(Coins(f, S) \cup top) =
        Cardinality(Coins(f, S)) + Cardinality(top) - Cardinality({})
  BY <1>1, <1>3, <1>5, FS_Union, Zenon
<1>7. Cardinality(Coins(f, S)) \in Nat /\ Cardinality(top) \in Nat
  BY <1>1, <1>3, FS_CardinalityType
<1>8. GoldIn(h, S) = Cardinality(Coins(f, S) \cup top)
  BY <1>5, Zenon DEF GoldIn
<1> HIDE DEF top
<1> QED  BY <1>3, <1>6, <1>7, <1>8, FS_EmptySet DEF GoldIn

(* Members without gold do not count.                                      *)
LEMMA GoldInSupport ==
    ASSUME NEW S, NEW T \in SUBSET S, NEW f, \A x \in S \ T : f[x] = 0
    PROVE  GoldIn(f, S) = GoldIn(f, T)
<1>1. Coins(f, S) = Coins(f, T)
  BY DEF Coins
<1> QED  BY <1>1 DEF GoldIn

(* A part holds no more than the whole.                                    *)
LEMMA GoldInPart ==
    ASSUME NEW S, IsFiniteSet(S), NEW T \in SUBSET S,
           NEW f, \A x \in S : f[x] \in Nat
    PROVE  GoldIn(f, T) <= GoldIn(f, S)
<1>1. Coins(f, T) \in SUBSET Coins(f, S)
  BY DEF Coins
<1>2. IsFiniteSet(Coins(f, S))
  BY CoinsFinite
<1> QED  BY <1>1, <1>2, FS_Subset DEF GoldIn

(* One member's amount grows by c.                                         *)
LEMMA GoldInBump ==
    ASSUME NEW S, IsFiniteSet(S), NEW f, \A y \in S : f[y] \in Nat,
           NEW x, NEW c \in Nat, NEW h,
           \A y \in S : h[y] = IF y = x THEN f[y] + c ELSE f[y]
    PROVE  GoldIn(h, S) = GoldIn(f, S) + (IF x \in S THEN c ELSE 0)
<1>1. GoldIn(f, S) = GoldIn(f, S \ {x}) + (IF x \in S THEN f[x] ELSE 0)
  BY GoldInPoint
<1>2. \A y \in S : h[y] \in Nat
  OBVIOUS
<1>3. GoldIn(h, S) = GoldIn(h, S \ {x}) + (IF x \in S THEN h[x] ELSE 0)
  BY <1>2, GoldInPoint
<1>4. GoldIn(h, S \ {x}) = GoldIn(f, S \ {x})
  <2>1. \A y \in S \ {x} : h[y] = f[y]
    OBVIOUS
  <2> QED  BY <2>1, GoldInEq
<1>5. IsFiniteSet(S \ {x}) /\ GoldIn(f, S \ {x}) \in Nat
  BY FS_RemoveElement, CoinsFinite
<1> QED  BY <1>1, <1>3, <1>4, <1>5

-----------------------------------------------------------------------------
(* The invariant.                                                          *)

FinitelyManyAuctions == IsFiniteSet(DOMAIN auctions)

IInv ==
    /\ TypeOK
    /\ FinitelyManyAuctions
    /\ LeaderStands
    /\ Solvent
    /\ ReservedBacksLeads

-----------------------------------------------------------------------------
(* Bids.                                                                   *)

(* The fields of an auction's bids have their types.                       *)
LEMMA BidFields ==
    ASSUME NEW a \in Auction, NEW b \in 1..Len(a.bids)
    PROVE  a.bids[b].amount \in Nat /\ a.bids[b].guild \in Registered
<1>1. a.bids \in Seq(Bid)
  BY DEF Auction
<1>2. a.bids[b] \in Bid
  BY <1>1
<1> QED  BY <1>2 DEF Bid

(* Where the last bid stands, HighestBid is that bid, and nil exactly      *)
(* where there is none.                                                    *)
LEMMA HighestIsLast ==
    ASSUME NEW a \in Auction, Stands(a.bids)
    PROVE  HighestBid(a) = Len(a.bids)
<1> DEFINE n == Len(a.bids)
<1>1. a.bids \in Seq(Bid)
  BY DEF Auction
<1>2. CASE a.bids = <<>>
  BY <1>1, <1>2 DEF HighestBid, ActiveBids
<1>3. CASE a.bids # <<>>
  <2>1. n \in Nat /\ n >= 1 /\ DOMAIN a.bids = 1..n
    BY <1>1, <1>3
  <2>2. n \in ActiveBids(a)
    BY <1>3, <2>1 DEF ActiveBids, Stands
  <2>3. \A c \in ActiveBids(a) : c # n => a.bids[c].amount < a.bids[n].amount
    BY <1>3, <2>1 DEF ActiveBids, Stands
  <2>4. \A c \in ActiveBids(a) : c \in Nat /\ a.bids[c].amount \in Nat
    <3>1. \A c \in ActiveBids(a) : c \in 1..n
      BY <2>1 DEF ActiveBids
    <3> QED  BY <2>1, <3>1, BidFields
  <2> DEFINE P(b) == \A c \in ActiveBids(a) :
                \/ a.bids[c].amount < a.bids[b].amount
                \/ a.bids[c].amount = a.bids[b].amount /\ b <= c
  <2>5. P(n)
    BY <2>2, <2>3, <2>4
  <2>6. \A b \in ActiveBids(a) : P(b) => b = n
    BY <2>2, <2>3, <2>4
  <2>7. HighestBid(a) = CHOOSE b \in ActiveBids(a) : P(b)
    BY <2>2 DEF HighestBid
  <2> HIDE DEF P
  <2> QED  BY <2>2, <2>5, <2>6, <2>7
<1> QED  BY <1>2, <1>3

(* Five per cent of any amount, rounded up, is at least five per cent.     *)
LEMMA IncrementIsEnough ==
    ASSUME NEW n \in Nat
    PROVE  Increment(n) \in Nat /\ 100 * Increment(n) >= 5 * n /\ Increment(n) >= 1
<1>1. 100 * ((n * 5 + 99) \div 100) >= 5 * n /\ (n * 5 + 99) \div 100 \in Int
  OBVIOUS
<1> QED  BY <1>1 DEF Increment, MinIncrementPercent

(* A bid that PlaceBid accepts becomes the standing last bid.              *)
LEMMA PlaceBidStands ==
    ASSUME NEW a \in Auction, Stands(a.bids), NEW guild \in Registered,
           NEW amount \in Nat, NEW t \in Nat, CanPlaceBid(a, guild, amount, t)
    PROVE  LET b == PlaceBid(a, guild, amount, t)
           IN  /\ b \in Auction
               /\ b.item = a.item /\ b.status = a.status
               /\ Stands(b.bids)
               /\ b.bids # <<>>
               /\ b.bids[Len(b.bids)].guild = guild
               /\ b.bids[Len(b.bids)].amount = amount
<1> DEFINE new == [guild |-> guild, amount |-> amount, active |-> TRUE, placedAt |-> t]
           b == PlaceBid(a, guild, amount, t)
           n == Len(a.bids)
<1>1. new \in Bid /\ a.bids \in Seq(Bid)
  BY DEF Bid, Auction
<1>2. b.bids = Append(a.bids, new)
  BY DEF PlaceBid, Auction
<1>3. b \in Auction /\ b.item = a.item /\ b.status = a.status
  <2>1. b.bids \in Seq(Bid)
    BY <1>1, <1>2
  <2>2. a.endsAt \in Nat /\ a.extension \in Nat /\ t + a.extension \in Nat
    BY DEF Auction
  <2> QED  BY <2>1, <2>2 DEF PlaceBid, Auction
<1>4. /\ n \in Nat /\ Len(b.bids) = n + 1 /\ b.bids[n + 1] = new
      /\ \A c \in 1..n : b.bids[c] = a.bids[c]
  BY <1>1, <1>2
<1>5. \A c \in 1..n : a.bids[c].amount < amount
  <2> SUFFICES ASSUME NEW c \in 1..n PROVE a.bids[c].amount < amount
    OBVIOUS
  <2>1. a.bids # <<>> /\ n >= 1
    BY <1>1
  <2>2. HighestBid(a) = n
    BY HighestIsLast
  <2>3. amount >= a.bids[n].amount + Increment(a.bids[n].amount)
    BY <2>1, <2>2 DEF CanPlaceBid, MinNextBid, Leader
  <2>4. a.bids[n].amount \in Nat /\ a.bids[c].amount \in Nat
    BY <1>1, <2>1, BidFields
  <2>5. Increment(a.bids[n].amount) \in Nat /\ Increment(a.bids[n].amount) >= 1
    BY <2>4, IncrementIsEnough, Zenon
  <2>6. c # n => a.bids[c].amount < a.bids[n].amount
    BY <2>1 DEF Stands
  <2> QED  BY <2>3, <2>4, <2>5, <2>6
<1>6. Stands(b.bids)
  BY <1>4, <1>5 DEF Stands
<1> QED  BY <1>3, <1>4, <1>6

(* A bid that CancelBid accepts is not the last one, which still stands.   *)
LEMMA CancelBidStands ==
    ASSUME NEW a \in Auction, Stands(a.bids), NEW b, NEW guild,
           CanCancelBid(a, b, guild)
    PROVE  LET c == CancelBid(a, b)
           IN  /\ c \in Auction
               /\ c.item = a.item /\ c.status = a.status
               /\ Len(c.bids) = Len(a.bids)
               /\ Stands(c.bids)
               /\ c.bids[Len(c.bids)] = a.bids[Len(a.bids)]
<1> DEFINE c == CancelBid(a, b)
           n == Len(a.bids)
<1>1. a.bids \in Seq(Bid)
  BY DEF Auction
<1>2. n \in Nat /\ DOMAIN a.bids = 1..n
  BY <1>1
<1>3. b \in 1..n /\ b # n
  BY <1>2, HighestIsLast DEF CanCancelBid, ActiveBids
<1>4. c.bids = [a.bids EXCEPT ![b].active = FALSE]
  BY DEF CancelBid, Auction
<1>5. /\ c.bids \in Seq(Bid) /\ Len(c.bids) = n
      /\ \A d \in 1..n : /\ c.bids[d].amount = a.bids[d].amount
                         /\ d # b => c.bids[d] = a.bids[d]
  <2>1. \A d \in 1..n : a.bids[d] \in Bid
    BY <1>1, <1>2
  <2>2. [a.bids[b] EXCEPT !.active = FALSE] \in Bid
    BY <1>3, <2>1 DEF Bid
  <2>3. /\ DOMAIN c.bids = 1..n
        /\ c.bids[b] = [a.bids[b] EXCEPT !.active = FALSE]
        /\ \A d \in 1..n : d # b => c.bids[d] = a.bids[d]
    BY <1>2, <1>3, <1>4
  <2>4. \A d \in 1..n : c.bids[d] \in Bid
    BY <2>1, <2>2, <2>3
  <2>5. c.bids = [d \in 1..n |-> c.bids[d]]
    BY <1>2, <1>4, <2>3
  <2>6. c.bids \in Seq(Bid) /\ Len(c.bids) = n
    BY <1>2, <2>4, <2>5
  <2>7. c.bids[b].amount = a.bids[b].amount
    BY <1>3, <2>1, <2>3 DEF Bid
  <2> QED  BY <2>3, <2>6, <2>7
<1>6. c \in Auction /\ c.item = a.item /\ c.status = a.status
  BY <1>4, <1>5 DEF CancelBid, Auction
<1>7. Stands(c.bids)
  BY <1>1, <1>2, <1>3, <1>5 DEF Stands
<1> QED  BY <1>2, <1>3, <1>5, <1>6, <1>7

-----------------------------------------------------------------------------
(* What leads, in terms of the last bids.                                  *)

LastBid(x) == auctions[x].bids[Len(auctions[x].bids)]

LeadsAreLast ==
    /\ Leads \in [DOMAIN auctions -> Nat]
    /\ \A x \in DOMAIN auctions :
        /\ HighestBid(auctions[x]) = Len(auctions[x].bids)
        /\ HighestBid(auctions[x]) = 0 <=> auctions[x].bids = <<>>
        /\ Leads[x] = IF auctions[x].bids = <<>> THEN 0 ELSE LastBid(x).amount
        /\ auctions[x].bids # <<>> => Leader(auctions[x]) = LastBid(x)
    /\ \A g : LedBy(g) = {x \in DOMAIN auctions : /\ auctions[x].status = "active"
                                                  /\ auctions[x].bids # <<>>
                                                  /\ LastBid(x).guild = g}

(* The auctions table as far as leads depend on it.                        *)
AuctionRows == auctions \in [DOMAIN auctions -> Auction] /\ LeaderStands

(* In a state where every last bid stands, Leads and LedBy read the last   *)
(* bids.                                                                   *)
LEMMA RowsRead == AuctionRows => LeadsAreLast
<1> SUFFICES ASSUME AuctionRows PROVE LeadsAreLast
  OBVIOUS
<1>1. ASSUME NEW x \in DOMAIN auctions
      PROVE  /\ HighestBid(auctions[x]) = Len(auctions[x].bids)
             /\ HighestBid(auctions[x]) = 0 <=> auctions[x].bids = <<>>
             /\ Leads[x] = IF auctions[x].bids = <<>> THEN 0 ELSE LastBid(x).amount
             /\ auctions[x].bids # <<>> => Leader(auctions[x]) = LastBid(x)
             /\ Leads[x] \in Nat
  <2>1. auctions[x] \in Auction /\ Stands(auctions[x].bids)
    BY DEF AuctionRows, LeaderStands
  <2>2. HighestBid(auctions[x]) = Len(auctions[x].bids)
    BY <2>1, HighestIsLast
  <2>3. auctions[x].bids \in Seq(Bid)
    BY <2>1 DEF Auction
  <2>4. HighestBid(auctions[x]) = 0 <=> auctions[x].bids = <<>>
    BY <2>2, <2>3
  <2>5. Leads[x] = IF auctions[x].bids = <<>> THEN 0 ELSE LastBid(x).amount
    BY <2>2, <2>4 DEF Leads, Leader, LastBid
  <2>6. auctions[x].bids # <<>> => LastBid(x).amount \in Nat
    BY <2>1, <2>3, BidFields DEF LastBid
  <2> QED  BY <2>2, <2>4, <2>5, <2>6 DEF Leader, LastBid
<1>2. Leads \in [DOMAIN auctions -> Nat]
  BY <1>1 DEF Leads
<1>3. ASSUME NEW g
      PROVE  LedBy(g) = {x \in DOMAIN auctions : /\ auctions[x].status = "active"
                                                 /\ auctions[x].bids # <<>>
                                                 /\ LastBid(x).guild = g}
  BY <1>1 DEF LedBy
<1> QED  BY <1>1, <1>2, <1>3 DEF LeadsAreLast

(* The same of the next state.                                             *)
LEMMA RowsReadNext == AuctionRows' => LeadsAreLast'
BY RowsRead, PTL

(* In particular in a state whose tables have their types.                 *)
LEMMA LeadsRead == TypeOK /\ LeaderStands => LeadsAreLast
BY RowsRead DEF AuctionRows, TypeOK

(* The same of the next state.                                             *)
LEMMA LeadsReadNext == TypeOK' /\ LeaderStands' => LeadsAreLast'
BY LeadsRead, PTL

(* The gold at the head of any set of auctions is a natural number.        *)
LEMMA LeadsAddUp ==
    ASSUME AuctionRows, FinitelyManyAuctions
    PROVE  \A S \in SUBSET DOMAIN auctions :
             /\ IsFiniteSet(S)
             /\ \A x \in S : Leads[x] \in Nat
             /\ GoldIn(Leads, S) \in Nat
<1> SUFFICES ASSUME NEW S \in SUBSET DOMAIN auctions
             PROVE  /\ IsFiniteSet(S)
                    /\ \A x \in S : Leads[x] \in Nat
                    /\ GoldIn(Leads, S) \in Nat
  OBVIOUS
<1>1. IsFiniteSet(S)
  BY FS_Subset DEF AuctionRows, FinitelyManyAuctions
<1>2. \A x \in S : Leads[x] \in Nat
  BY RowsRead DEF LeadsAreLast
<1> QED  BY <1>1, <1>2, CoinsFinite

(* What the leader of auction x, if it is g, gets back when it is outbid.  *)
Freed(x, g) ==
    IF auctions[x].bids # <<>> /\ LastBid(x).guild = g THEN Leads[x] ELSE 0

(* A bid lands in auction x.                                               *)
BidLands(x, bidder, amount, t) ==
    /\ auctions[x].status = "active"
    /\ CanPlaceBid(auctions[x], bidder, amount, t)
    /\ auctions' = [auctions EXCEPT ![x] = PlaceBid(auctions[x], bidder, amount, t)]

(* A bid takes the unseated leader's gold out of what that guild leads     *)
(* with and adds the new amount to what the bidder leads with.             *)
LEMMA BidShiftsLeads ==
    ASSUME AuctionRows, FinitelyManyAuctions, NEW x \in DOMAIN auctions,
           NEW bidder \in Registered, NEW amount \in Nat, NEW t \in Nat,
           BidLands(x, bidder, amount, t)
    PROVE  /\ AuctionRows' /\ FinitelyManyAuctions'
           /\ DOMAIN auctions' = DOMAIN auctions
           /\ auctions'[x].bids # <<>> /\ LastBid(x)'.guild = bidder
           /\ \A y \in DOMAIN auctions : y # x => auctions'[y] = auctions[y]
           /\ \A g \in Registered :
                GoldIn(Leads', LedBy(g)') = GoldIn(Leads, LedBy(g)) - Freed(x, g)
                                              + (IF g = bidder THEN amount ELSE 0)
<1> DEFINE a == auctions[x]
           b == PlaceBid(a, bidder, amount, t)
           taken(g) == IF g = bidder THEN amount ELSE 0
<1>2. a \in Auction /\ Stands(a.bids)
  BY DEF AuctionRows, LeaderStands
<1>3. LeadsAreLast
  BY RowsRead
<1>4. Leads[x] \in Nat
  BY <1>3 DEF LeadsAreLast
<1>9. /\ b \in Auction /\ b.item = a.item /\ b.status = "active"
      /\ Stands(b.bids) /\ b.bids # <<>>
      /\ b.bids[Len(b.bids)].guild = bidder /\ b.bids[Len(b.bids)].amount = amount
  BY <1>2, PlaceBidStands DEF BidLands
<1>5. auctions' = [auctions EXCEPT ![x] = b] /\ a.status = "active"
  BY DEF BidLands
<1> HIDE DEF b
<1>10. /\ DOMAIN auctions' = DOMAIN auctions
       /\ auctions' \in [DOMAIN auctions' -> Auction]
       /\ auctions'[x] = b
       /\ \A y \in DOMAIN auctions : y # x => auctions'[y] = auctions[y]
  BY <1>5, <1>9 DEF AuctionRows
<1>14. AuctionRows' /\ FinitelyManyAuctions'
  BY <1>9, <1>10 DEF AuctionRows, LeaderStands, FinitelyManyAuctions
<1>15. ASSUME NEW g \in Registered
       PROVE  GoldIn(Leads', LedBy(g)') = GoldIn(Leads, LedBy(g)) - Freed(x, g) + taken(g)
  <2> DEFINE others == LedBy(g) \ {x}
  <2>1. LeadsAreLast'
    BY <1>14, RowsReadNext
  <2>2. \A y \in DOMAIN auctions : y # x => LastBid(y)' = LastBid(y)
    BY <1>10 DEF LastBid
  <2>3. LastBid(x)'.guild = bidder /\ LastBid(x)'.amount = amount
    BY <1>9, <1>10 DEF LastBid
  <2>4. LedBy(g)' = {y \in DOMAIN auctions' : /\ auctions'[y].status = "active"
                                              /\ auctions'[y].bids # <<>>
                                              /\ LastBid(y)'.guild = g}
    BY <2>1 DEF LeadsAreLast
  <2>5. LedBy(g) = {y \in DOMAIN auctions : /\ auctions[y].status = "active"
                                            /\ auctions[y].bids # <<>>
                                            /\ LastBid(y).guild = g}
    BY <1>3 DEF LeadsAreLast
  <2>6. LedBy(g)' \ {x} = others
    BY <1>10, <2>2, <2>4, <2>5
  <2>7. (x \in LedBy(g) <=> a.bids # <<>> /\ LastBid(x).guild = g) /\ (x \in LedBy(g)' <=> g = bidder)
    BY <1>2, <1>5, <1>9, <1>10, <2>3, <2>4, <2>5
  <2>8. Leads'[x] = amount /\ \A y \in others : Leads'[y] = Leads[y]
    <3>1. ASSUME NEW y \in DOMAIN auctions
          PROVE  /\ Leads[y] = IF auctions[y].bids = <<>> THEN 0 ELSE LastBid(y).amount
                 /\ Leads'[y] = IF auctions'[y].bids = <<>> THEN 0 ELSE LastBid(y)'.amount
      BY <1>3, <1>10, <2>1 DEF LeadsAreLast
    <3>2. Leads'[x] = amount
      BY <1>2, <1>9, <1>10, <2>3, <3>1
    <3>3. ASSUME NEW y \in others PROVE Leads'[y] = Leads[y]
      <4>1. y \in DOMAIN auctions /\ y # x
        BY <2>5
      <4>2. auctions'[y] = auctions[y]
        BY <1>10, <4>1
      <4> QED  BY <2>2, <3>1, <4>1, <4>2
    <3> QED  BY <3>2, <3>3
  <2>9. /\ IsFiniteSet(LedBy(g)) /\ \A y \in LedBy(g) : Leads[y] \in Nat
        /\ IsFiniteSet(LedBy(g)') /\ \A y \in LedBy(g)' : Leads'[y] \in Nat
    BY <1>3, <1>10, <2>1, <2>4, <2>5, FS_Subset DEF FinitelyManyAuctions, LeadsAreLast
  <2>10. GoldIn(Leads, LedBy(g)) = GoldIn(Leads, others) + Freed(x, g)
    BY <2>7, <2>9, GoldInPoint DEF Freed
  <2>11. GoldIn(Leads', LedBy(g)') = GoldIn(Leads', others) + taken(g)
    BY <2>6, <2>7, <2>8, <2>9, GoldInPoint
  <2>12. GoldIn(Leads', others) = GoldIn(Leads, others) /\ GoldIn(Leads, others) \in Nat
    <3>1. IsFiniteSet(others) /\ \A y \in others : Leads[y] \in Nat
      <4>1. others \subseteq LedBy(g)
        OBVIOUS
      <4>2. IsFiniteSet(others)
        BY <2>9, <4>1, FS_Subset, Zenon
      <4> QED  BY <2>9, <4>1, <4>2
    <3> HIDE DEF others
    <3> QED  BY <2>8, <3>1, GoldInEq, CoinsFinite
  <2>14. Freed(x, g) \in Nat /\ taken(g) \in Nat
    BY <1>4 DEF Freed
  <2> QED  BY <2>10, <2>11, <2>12, <2>14
<1>16. LastBid(x)'.guild = bidder
  BY <1>9, <1>10 DEF LastBid
<1> QED  BY <1>9, <1>10, <1>14, <1>15, <1>16

(* The auctions D close.                                                   *)
Closing(D) ==
    auctions' = [x \in DOMAIN auctions |->
                   IF x \in D THEN [auctions[x] EXCEPT !.status = "settled"]
                   ELSE auctions[x]]

(* Closing the auctions D takes their gold out of what their leaders lead  *)
(* with.                                                                   *)
LEMMA SettleShiftsLeads ==
    ASSUME AuctionRows, FinitelyManyAuctions, NEW D \in SUBSET DOMAIN auctions,
           Closing(D)
    PROVE  /\ AuctionRows' /\ FinitelyManyAuctions'
           /\ DOMAIN auctions' = DOMAIN auctions
           /\ \A x \in DOMAIN auctions :
                /\ auctions'[x].bids = auctions[x].bids
                /\ auctions'[x].status = IF x \in D THEN "settled" ELSE auctions[x].status
           /\ \A g : GoldIn(Leads', LedBy(g)') =
                       GoldIn(Leads, LedBy(g)) - GoldIn(Leads, LedBy(g) \cap D)
<1>1. LeadsAreLast
  BY RowsRead
<1>2. /\ DOMAIN auctions' = DOMAIN auctions
      /\ auctions' \in [DOMAIN auctions' -> Auction]
      /\ \A x \in DOMAIN auctions :
           /\ auctions'[x].bids = auctions[x].bids
           /\ auctions'[x].status = IF x \in D THEN "settled" ELSE auctions[x].status
  <2>1. \A x \in DOMAIN auctions : auctions[x] \in Auction
    BY DEF AuctionRows
  <2> QED  BY <2>1 DEF Closing, Auction
<1>3. AuctionRows' /\ FinitelyManyAuctions'
  BY <1>2 DEF AuctionRows, LeaderStands, FinitelyManyAuctions
<1>4. LeadsAreLast'
  BY <1>3, RowsReadNext
<1>5. \A x \in DOMAIN auctions : LastBid(x)' = LastBid(x) /\ Leads'[x] = Leads[x]
  <2>1. \A x \in DOMAIN auctions : LastBid(x)' = LastBid(x)
    BY <1>2 DEF LastBid
  <2> QED  BY <1>1, <1>2, <1>4, <2>1 DEF LeadsAreLast
<1>6. ASSUME NEW g
      PROVE  GoldIn(Leads', LedBy(g)') =
               GoldIn(Leads, LedBy(g)) - GoldIn(Leads, LedBy(g) \cap D)
  <2>1. LedBy(g)' = LedBy(g) \ D
    <3>1. LedBy(g)' = {x \in DOMAIN auctions' : /\ auctions'[x].status = "active"
                                                /\ auctions'[x].bids # <<>>
                                                /\ LastBid(x)'.guild = g}
      BY <1>4 DEF LeadsAreLast
    <3>2. LedBy(g) = {x \in DOMAIN auctions : /\ auctions[x].status = "active"
                                              /\ auctions[x].bids # <<>>
                                              /\ LastBid(x).guild = g}
      BY <1>1 DEF LeadsAreLast
    <3> QED  BY <1>2, <1>5, <3>1, <3>2
  <2>2. LedBy(g) \in SUBSET DOMAIN auctions
    BY DEF LedBy
  <2>3. \A x \in LedBy(g) \ D : Leads'[x] = Leads[x]
    BY <1>5, <2>2
  <2>4. GoldIn(Leads', LedBy(g) \ D) = GoldIn(Leads, LedBy(g) \ D)
    BY <2>3, GoldInEq
  <2>5. GoldIn(Leads, LedBy(g)) = GoldIn(Leads, LedBy(g) \ D) + GoldIn(Leads, LedBy(g) \cap D)
    BY <2>2, LeadsAddUp, GoldInSplit
  <2>6. GoldIn(Leads, LedBy(g) \ D) \in Nat /\ GoldIn(Leads, LedBy(g) \cap D) \in Nat
    BY <2>2, LeadsAddUp
  <2> QED  BY <2>1, <2>4, <2>5, <2>6
<1> QED  BY <1>2, <1>3, <1>6

-----------------------------------------------------------------------------
(* The units of work, with inputs that no request set bounds.              *)

ListingInput == [rarity : STRING, seller : Guilds, price : Int, quantity : Int]

AnyUnit ==
    \/ \E in \in ListingInput, i \in ItemIDs, t \in Readings : CreateItem(in, i, t)
    \/ \E i, buyer : \E qty \in Int, t \in Readings : Purchase(i, buyer, qty, t)
    \/ \E i, bidder : \E amount \in Int, t \in Readings : BidOnItem(i, bidder, amount, t)
    \/ \E i, b, guild : CancelBidOnItem(i, b, guild)
    \/ \E t \in Readings : SettleDueAuctions(t)
    \/ Tick

(* Every step of the market is one.                                        *)
LEMMA NextIsAnyUnit ==
    ASSUME Next
    PROVE  AnyUnit
BY RequestsAssumption DEF Next, RunSettlementWorker, AnyUnit, ListingInput

-----------------------------------------------------------------------------
(* The invariant is inductive: one lemma per action.                       *)

(* Reservations and leading bids that nobody touches still agree.          *)
LEMMA ReservedUnchanged ==
    ASSUME IInv, TypeOK', LeaderStands',
           \A g \in Registered : wallets'[g].reserved = wallets[g].reserved,
           \A g \in Registered : /\ LedBy(g)' = LedBy(g)
                                 /\ \A x \in LedBy(g) : Leads'[x] = Leads[x]
    PROVE  ReservedBacksLeads'
<1> SUFFICES ASSUME NEW g \in Registered
             PROVE  wallets'[g].reserved = GoldIn(Leads', LedBy(g)')
  BY DEF ReservedBacksLeads
<1>1. GoldIn(Leads', LedBy(g)) = GoldIn(Leads, LedBy(g))
  BY GoldInEq
<1>2. wallets[g].reserved = GoldIn(Leads, LedBy(g))
  BY DEF IInv, ReservedBacksLeads
<1> QED  BY <1>1, <1>2

(* A new listing, or a new auction without bids, touches no gold.          *)
LEMMA CreateItemKeeps ==
    ASSUME IInv, NEW in \in ListingInput, NEW i \in ItemIDs, NEW t \in Readings,
           CreateItem(in, i, t)
    PROVE  IInv'
<1> USE DEF IInv
<1>1. /\ in.rarity \in Rarities /\ in.seller \in Guilds
      /\ in.price \in Nat /\ in.price > 0
      /\ in.quantity \in Int /\ (AuctionOnly(in.rarity) \/ in.quantity >= 1)
  BY DEF ListingInput, CreateItem, ValidListing, IsPositive
<1>2. t \in Nat
  BY DEF Readings, TypeOK
<1>3. NewItem(in) \in Item /\ [NewItem(in) EXCEPT !.status = "in_auction"] \in Item
  BY <1>1 DEF NewItem, Item, ItemStatuses
<1>4. CASE AuctionOnly(in.rarity)
  <2>1. PICK x \in AuctionIDs \ DOMAIN auctions :
          /\ auctions' = Put(auctions, x, NewAuction(i, in, t))
          /\ items' = Put(items, i, [NewItem(in) EXCEPT !.status = "in_auction"])
    BY <1>4 DEF CreateItem
  <2>2. UNCHANGED <<wallets, ledger, now>>
    BY DEF CreateItem
  <2>3. NewAuction(i, in, t) \in Auction /\ NewAuction(i, in, t).bids = <<>>
    BY <1>1, <1>2, ClockAssumption DEF NewAuction, Auction
  <2>4. /\ DOMAIN auctions' = DOMAIN auctions \cup {x}
        /\ auctions' \in [DOMAIN auctions' -> Auction]
        /\ auctions'[x].bids = <<>>
        /\ \A y \in DOMAIN auctions : auctions'[y] = auctions[y]
    BY <2>1, <2>3 DEF TypeOK, Put
  <2>5. DOMAIN items' = DOMAIN items \cup {i} /\ items' \in [DOMAIN items' -> Item]
    BY <1>3, <2>1 DEF TypeOK, Put
  <2>6. TypeOK'
    BY <2>2, <2>4, <2>5 DEF TypeOK
  <2>7. FinitelyManyAuctions'
    BY <2>4, FS_AddElement DEF FinitelyManyAuctions
  <2>8. LeaderStands'
    BY <2>4 DEF LeaderStands, Stands
  <2>9. Solvent'
    BY <2>2 DEF Solvent
  <2>10. ReservedBacksLeads'
    <3>1. LeadsAreLast /\ LeadsAreLast'
      BY <2>6, <2>8, LeadsRead, LeadsReadNext
    <3>2. ASSUME NEW g \in Registered
          PROVE  LedBy(g)' = LedBy(g) /\ \A y \in LedBy(g) : Leads'[y] = Leads[y]
      <4>1. LedBy(g)' = {y \in DOMAIN auctions' : /\ auctions'[y].status = "active"
                                                  /\ auctions'[y].bids # <<>>
                                                  /\ LastBid(y)'.guild = g}
        BY <3>1 DEF LeadsAreLast
      <4>2. \A y \in DOMAIN auctions : LastBid(y)' = LastBid(y)
        BY <2>4 DEF LastBid
      <4>3. \A y \in DOMAIN auctions : Leads'[y] = Leads[y]
        BY <2>4, <3>1, <4>2 DEF LeadsAreLast
      <4> QED  BY <2>4, <3>1, <4>1, <4>2, <4>3 DEF LeadsAreLast
    <3> QED  BY <2>2, <2>6, <2>8, <3>2, ReservedUnchanged
  <2> QED  BY <2>6, <2>7, <2>8, <2>9, <2>10
<1>5. CASE ~AuctionOnly(in.rarity)
  <2>1. items' = Put(items, i, NewItem(in)) /\ UNCHANGED <<wallets, auctions, ledger, now>>
    BY <1>5 DEF CreateItem
  <2>2. DOMAIN items' = DOMAIN items \cup {i} /\ items' \in [DOMAIN items' -> Item]
    BY <1>3, <2>1 DEF TypeOK, Put
  <2>3. TypeOK'
    BY <2>1, <2>2 DEF TypeOK
  <2>4. LeaderStands' /\ Solvent' /\ FinitelyManyAuctions'
    BY <2>1 DEF LeaderStands, Solvent, FinitelyManyAuctions
  <2>5. ReservedBacksLeads'
    BY <2>1 DEF ReservedBacksLeads, Leads, LedBy
  <2> QED  BY <2>3, <2>4, <2>5
<1> QED  BY <1>4, <1>5

(* An entry of any amount of gold keeps the ledger's type.                 *)
LEMMA PostType ==
    ASSUME NEW l \in [LedgerKeys -> Nat], NEW k, NEW c \in Nat
    PROVE  [l EXCEPT ![k] = @ + c] \in [LedgerKeys -> Nat]
<1> DEFINE m == [l EXCEPT ![k] = @ + c]
<1>1. \A j \in LedgerKeys : m[j] = IF j = k THEN l[j] + c ELSE l[j]
  OBVIOUS
<1>2. \A j \in LedgerKeys : l[j] \in Nat /\ l[j] + c \in Nat
  OBVIOUS
<1>3. DOMAIN m = LedgerKeys /\ m = [j \in LedgerKeys |-> m[j]]
  OBVIOUS
<1> HIDE DEF m
<1> QED  BY <1>1, <1>2, <1>3

(* The price of a purchase is an integer, wrapped or not.                  *)
LEMMA CostIsInt ==
    ASSUME NEW item \in Item, NEW qty \in Int
    PROVE  Cost(item, qty) \in Int
<1>1. item.price * qty \in Int
  BY DEF Item
<1> QED  BY <1>1, GoldModulusAssumption DEF Cost, Int64

(* A purchase spends available gold only: reservations are not touched and *)
(* stay covered.                                                           *)
LEMMA PurchaseKeeps ==
    ASSUME IInv, NEW i, NEW buyer, NEW qty \in Int, NEW t \in Readings,
           Purchase(i, buyer, qty, t)
    PROVE  IInv'
<1> USE DEF IInv
<1> DEFINE item == items[i]
           seller == item.seller
           cost == Cost(item, qty)
<1>1. /\ i \in DOMAIN items /\ item \in Item /\ qty \in Int
      /\ buyer \in Registered /\ seller \in Registered
      /\ UNCHANGED <<auctions, now>>
  BY DEF Purchase, TypeOK
<1>2. /\ qty <= item.quantity /\ seller # buyer
      /\ CanDebit(wallets[buyer], cost)
  BY DEF Purchase, CanSellTo
<1>3. /\ wallets[buyer] \in Wallet /\ wallets[seller] \in Wallet
  BY <1>1 DEF TypeOK
<1>4. cost \in Nat /\ cost <= wallets[buyer].total - wallets[buyer].reserved
  BY <1>1, <1>2, CostIsInt DEF CanDebit, IsPositive, Available
<1> HIDE DEF cost
<1>5. SellTo(item, qty) \in Item
  <2>1. item.quantity - qty \in Nat
    BY <1>1, <1>2 DEF Item
  <2> QED  BY <1>1, <2>1 DEF SellTo, Item, ItemStatuses
<1>6. /\ items' = [items EXCEPT ![i] = SellTo(item, qty)]
      /\ wallets' = [wallets EXCEPT ![buyer] = Debit(@, cost), ![seller] = Credit(@, cost)]
      /\ ledger' = PurchaseEntries(buyer, seller, cost, i, t)
  BY DEF Purchase, cost
<1>7. DOMAIN items' = DOMAIN items /\ items' \in [DOMAIN items' -> Item]
  BY <1>1, <1>5, <1>6 DEF TypeOK
<1>8. ASSUME NEW g \in Registered
      PROVE  /\ wallets'[g] \in Wallet
             /\ wallets'[g].reserved = wallets[g].reserved
             /\ wallets'[g].reserved <= wallets'[g].total
  <2>0. wallets[g] \in Wallet /\ wallets[g].reserved <= wallets[g].total
    BY DEF TypeOK, Solvent
  <2>1. CASE g = buyer
    <3>1. wallets'[g] = Debit(wallets[g], cost)
      BY <1>1, <1>2, <1>6, <2>1 DEF TypeOK
    <3> QED  BY <1>4, <2>0, <2>1, <3>1 DEF Debit, Wallet
  <2>2. CASE g = seller
    <3>1. wallets'[g] = Credit(wallets[g], cost)
      BY <1>1, <1>2, <1>6, <2>2 DEF TypeOK
    <3> QED  BY <1>4, <2>0, <3>1 DEF Credit, Wallet
  <2>3. CASE g # buyer /\ g # seller
    <3>1. wallets'[g] = wallets[g]
      BY <1>1, <1>6, <2>3 DEF TypeOK
    <3> QED  BY <2>0, <3>1
  <2> QED  BY <2>1, <2>2, <2>3
<1>9. wallets' \in [Registered -> Wallet]
  <2>1. wallets' \in [Registered -> {wallets'[g] : g \in Registered}]
    BY <1>6 DEF TypeOK
  <2> QED  BY <1>8, <2>1
<1>10. ledger' \in [LedgerKeys -> Nat]
  <2> DEFINE l == [ledger EXCEPT ![<<buyer, "debit", i, Day(t)>>] = @ + cost]
  <2>1. l \in [LedgerKeys -> Nat]
    BY <1>4, PostType DEF TypeOK
  <2>2. ledger' = [l EXCEPT ![<<seller, "credit", i, Day(t)>>] = @ + cost]
    BY <1>6 DEF PurchaseEntries
  <2> HIDE DEF l
  <2> QED  BY <1>4, <2>1, <2>2, PostType
<1>11. TypeOK'
  BY <1>1, <1>7, <1>9, <1>10 DEF TypeOK
<1>12. FinitelyManyAuctions' /\ LeaderStands' /\ Solvent'
  BY <1>1, <1>8 DEF FinitelyManyAuctions, LeaderStands, Solvent
<1>13. ReservedBacksLeads'
  BY <1>1, <1>8 DEF ReservedBacksLeads, Leads, LedBy
<1> QED  BY <1>11, <1>12, <1>13

(* A bid moves one reservation: out of the unseated leader's wallet and    *)
(* into the bidder's, which may be the same.                               *)
LEMMA BidOnItemKeeps ==
    ASSUME IInv, NEW i, NEW bidder, NEW amount \in Int, NEW t \in Readings,
           BidOnItem(i, bidder, amount, t)
    PROVE  IInv'
<1> USE DEF IInv
<1>1. PICK x \in ActiveAuctions(i) :
        LET a == auctions[x]
        IN  /\ bidder \in DOMAIN wallets
            /\ CanPlaceBid(a, bidder, amount, t)
            /\ HighestBid(a) # 0 => CanRelease(wallets[Leader(a).guild], Leader(a).amount)
            /\ CanReserve(Released(a)[bidder], amount)
            /\ wallets' = BidWallets(a, bidder, amount)
            /\ ledger' = BidEntries(a, bidder, amount, t)
            /\ auctions' = [auctions EXCEPT ![x] = PlaceBid(a, bidder, amount, t)]
  BY DEF BidOnItem
<1> DEFINE a == auctions[x]
           b == PlaceBid(a, bidder, amount, t)
           led(g) == a.bids # <<>> /\ LastBid(x).guild = g
           freed(g) == IF led(g) THEN Leads[x] ELSE 0
           taken(g) == IF g = bidder THEN amount ELSE 0
<1>2. /\ x \in DOMAIN auctions /\ a.status = "active" /\ a \in Auction
      /\ Stands(a.bids) /\ bidder \in Registered
      /\ t \in Nat /\ amount \in Nat /\ amount > 0
      /\ UNCHANGED <<items, now>>
  BY <1>1
     DEF ActiveAuctions, TypeOK, LeaderStands, BidOnItem, Readings, IsPositive
<1>3. LeadsAreLast
  BY LeadsRead
<1>4. /\ HighestBid(a) = 0 <=> a.bids = <<>>
      /\ a.bids # <<>> => Leader(a) = LastBid(x) /\ Leads[x] = LastBid(x).amount
      /\ Leads[x] \in Nat
  BY <1>2, <1>3 DEF LeadsAreLast
<1>5. a.bids # <<>> => /\ LastBid(x).guild \in Registered
                       /\ Leads[x] <= wallets[LastBid(x).guild].reserved
  <2> SUFFICES ASSUME a.bids # <<>>
               PROVE  /\ LastBid(x).guild \in Registered
                      /\ Leads[x] <= wallets[LastBid(x).guild].reserved
    OBVIOUS
  <2>1. a.bids \in Seq(Bid)
    BY <1>2 DEF Auction
  <2>2. Len(a.bids) \in 1..Len(a.bids)
    BY <2>1
  <2>3. LastBid(x).guild \in Registered
    BY <1>2, <2>2, BidFields DEF LastBid
  <2> QED  BY <1>1, <1>4, <2>3 DEF CanRelease
<1>6. ASSUME NEW g \in Registered
      PROVE  /\ Released(a)[g] \in Wallet
             /\ Released(a)[g].total = wallets[g].total
             /\ Released(a)[g].reserved = wallets[g].reserved - freed(g)
             /\ DOMAIN Released(a) = Registered
  <2>1. wallets[g] \in Wallet /\ wallets \in [Registered -> Wallet]
    BY DEF TypeOK
  <2>2. CASE a.bids = <<>>
    <3>1. Released(a) = wallets
      BY <1>4, <2>2 DEF Released
    <3> QED  BY <2>1, <2>2, <3>1 DEF Wallet
  <2>3. CASE a.bids # <<>>
    <3>1. Released(a) =
            [wallets EXCEPT ![LastBid(x).guild] = Release(wallets[LastBid(x).guild], Leads[x])]
      BY <1>4, <2>3 DEF Released
    <3>2. CASE g = LastBid(x).guild
      <4>1. Released(a)[g] = Release(wallets[g], Leads[x])
        BY <2>1, <3>1, <3>2
      <4>2. freed(g) = Leads[x] /\ Leads[x] <= wallets[g].reserved
        BY <1>5, <2>3, <3>2
      <4>3. wallets[g].reserved - Leads[x] \in Nat
        BY <1>4, <2>1, <4>2 DEF Wallet
      <4> QED  BY <2>1, <3>1, <4>1, <4>2, <4>3 DEF Release, Wallet
    <3>3. CASE g # LastBid(x).guild
      <4>1. Released(a)[g] = wallets[g] /\ freed(g) = 0
        BY <2>1, <3>1, <3>3
      <4> QED  BY <2>1, <3>1, <4>1 DEF Wallet
    <3> QED  BY <3>2, <3>3
  <2> QED  BY <2>2, <2>3
<1>7. ASSUME NEW g \in Registered
      PROVE  /\ wallets'[g] \in Wallet
             /\ wallets'[g].reserved = wallets[g].reserved - freed(g) + taken(g)
             /\ wallets'[g].reserved <= wallets'[g].total
  <2>1. /\ wallets[g] \in Wallet /\ wallets[g].reserved <= wallets[g].total
        /\ freed(g) \in Nat /\ taken(g) \in Nat
    BY <1>2, <1>4 DEF TypeOK, Solvent
  <2>2. wallets' = [Released(a) EXCEPT ![bidder] = Reserve(Released(a)[bidder], amount)]
    BY <1>1 DEF BidWallets
  <2> HIDE DEF freed
  <2>3. CASE g = bidder
    <3>1. wallets'[g] = Reserve(Released(a)[g], amount) /\ taken(g) = amount
      BY <1>6, <2>2, <2>3
    <3>2. amount <= Released(a)[g].total - Released(a)[g].reserved
      BY <1>1, <2>3 DEF CanReserve, Available
    <3> QED  BY <1>2, <1>6, <2>1, <3>1, <3>2 DEF Reserve, Wallet
  <2>4. CASE g # bidder
    <3>1. wallets'[g] = Released(a)[g] /\ taken(g) = 0
      BY <1>6, <2>2, <2>4
    <3> QED  BY <1>6, <2>1, <3>1 DEF Wallet
  <2> QED  BY <2>3, <2>4
<1>8. wallets' \in [Registered -> Wallet]
  <2>1. wallets' = [Released(a) EXCEPT ![bidder] = Reserve(Released(a)[bidder], amount)]
    BY <1>1 DEF BidWallets
  <2>2. wallets' = [g \in Registered |-> wallets'[g]]
    BY <1>2, <1>6, <2>1
  <2> QED  BY <1>7, <2>2
<1>9. /\ b \in Auction /\ b.item = a.item /\ b.status = "active"
      /\ Stands(b.bids) /\ b.bids # <<>>
      /\ b.bids[Len(b.bids)].guild = bidder /\ b.bids[Len(b.bids)].amount = amount
  BY <1>1, <1>2, PlaceBidStands
<1> HIDE DEF b
<1>10. /\ DOMAIN auctions' = DOMAIN auctions
       /\ auctions' \in [DOMAIN auctions' -> Auction]
       /\ auctions'[x] = b
       /\ \A y \in DOMAIN auctions : y # x => auctions'[y] = auctions[y]
  <2>1. auctions' = [auctions EXCEPT ![x] = b]
    BY <1>1 DEF b
  <2> QED  BY <1>2, <1>9, <2>1 DEF TypeOK
<1>11. ledger' \in [LedgerKeys -> Nat]
  <2> DEFINE l == [ledger EXCEPT ![<<bidder, "reserve", a.item, Day(t)>>] = @ + amount]
             m == [l EXCEPT ![<<Leader(a).guild, "release", a.item, Day(t)>>] = @ + Leader(a).amount]
  <2>1. l \in [LedgerKeys -> Nat]
    BY <1>2, PostType DEF TypeOK
  <2>2. ledger' = IF HighestBid(a) = 0 \/ Leader(a).guild = bidder THEN l ELSE m
    BY <1>1 DEF BidEntries
  <2> HIDE DEF l
  <2>3. HighestBid(a) # 0 => m \in [LedgerKeys -> Nat]
    BY <1>4, <2>1, PostType
  <2> QED  BY <2>1, <2>2, <2>3
<1>12. TypeOK'
  BY <1>2, <1>8, <1>10, <1>11 DEF TypeOK
<1>13. FinitelyManyAuctions' /\ Solvent'
  BY <1>7, <1>10 DEF FinitelyManyAuctions, Solvent
<1>14. LeaderStands'
  BY <1>9, <1>10 DEF LeaderStands
<1>15. ReservedBacksLeads'
  <2> SUFFICES ASSUME NEW g \in Registered
               PROVE  wallets'[g].reserved = GoldIn(Leads', LedBy(g)')
    BY DEF ReservedBacksLeads
  <2>1. GoldIn(Leads', LedBy(g)') = GoldIn(Leads, LedBy(g)) - Freed(x, g) + taken(g)
    <3>1. AuctionRows /\ FinitelyManyAuctions
      BY DEF AuctionRows, TypeOK
    <3>2. BidLands(x, bidder, amount, t)
      BY <1>1, <1>2 DEF BidLands
    <3> HIDE DEF IInv
    <3> QED  BY <1>2, <3>1, <3>2, BidShiftsLeads
  <2>2. wallets[g].reserved = GoldIn(Leads, LedBy(g))
    BY DEF ReservedBacksLeads
  <2> QED  BY <1>7, <2>1, <2>2 DEF Freed
<1> QED  BY <1>12, <1>13, <1>14, <1>15

(* Withdrawing a bid that does not lead moves no gold and no lead.         *)
LEMMA CancelBidOnItemKeeps ==
    ASSUME IInv, NEW i, NEW b, NEW guild, CancelBidOnItem(i, b, guild)
    PROVE  IInv'
<1> USE DEF IInv
<1>1. PICK x \in ActiveAuctions(i) :
        /\ CanCancelBid(auctions[x], b, guild)
        /\ auctions' = [auctions EXCEPT ![x] = CancelBid(auctions[x], b)]
  BY DEF CancelBidOnItem
<1> DEFINE a == auctions[x]
           c == CancelBid(a, b)
<1>2. /\ x \in DOMAIN auctions /\ a \in Auction /\ Stands(a.bids)
      /\ UNCHANGED <<items, wallets, ledger, now>>
  BY <1>1 DEF ActiveAuctions, TypeOK, LeaderStands, CancelBidOnItem
<1>3. /\ c \in Auction /\ c.status = a.status
      /\ Len(c.bids) = Len(a.bids) /\ Stands(c.bids)
      /\ c.bids[Len(c.bids)] = a.bids[Len(a.bids)]
  BY <1>1, <1>2, CancelBidStands
<1>4. c.bids = <<>> <=> a.bids = <<>>
  <2>1. c.bids \in Seq(Bid) /\ a.bids \in Seq(Bid)
    BY <1>2, <1>3 DEF Auction
  <2> QED  BY <1>3, <2>1
<1>5. auctions' = [auctions EXCEPT ![x] = c]
  BY <1>1
<1> HIDE DEF c
<1>6. /\ DOMAIN auctions' = DOMAIN auctions
      /\ auctions' \in [DOMAIN auctions' -> Auction]
      /\ auctions'[x] = c
      /\ \A y \in DOMAIN auctions : y # x => auctions'[y] = auctions[y]
  BY <1>2, <1>3, <1>5 DEF TypeOK
<1>7. TypeOK'
  BY <1>2, <1>6 DEF TypeOK
<1>8. LeaderStands'
  BY <1>3, <1>6 DEF LeaderStands
<1>9. FinitelyManyAuctions' /\ Solvent'
  BY <1>2, <1>6 DEF FinitelyManyAuctions, Solvent
<1>10. ReservedBacksLeads'
  <2>1. LeadsAreLast /\ LeadsAreLast'
    BY <1>7, <1>8, LeadsRead, LeadsReadNext
  <2>2. \A y \in DOMAIN auctions : /\ LastBid(y)' = LastBid(y)
                                   /\ auctions'[y].status = auctions[y].status
                                   /\ auctions'[y].bids = <<>> <=> auctions[y].bids = <<>>
    BY <1>3, <1>4, <1>6 DEF LastBid
  <2>3. ASSUME NEW g \in Registered
        PROVE  LedBy(g)' = LedBy(g) /\ \A y \in LedBy(g) : Leads'[y] = Leads[y]
    <3>1. LedBy(g)' = {y \in DOMAIN auctions' : /\ auctions'[y].status = "active"
                                                /\ auctions'[y].bids # <<>>
                                                /\ LastBid(y)'.guild = g}
      BY <2>1 DEF LeadsAreLast
    <3>2. \A y \in DOMAIN auctions : Leads'[y] = Leads[y]
      BY <1>6, <2>1, <2>2 DEF LeadsAreLast
    <3> QED  BY <1>6, <2>1, <2>2, <3>1, <3>2 DEF LeadsAreLast
  <2> QED  BY <1>2, <1>7, <1>8, <2>3, ReservedUnchanged
<1> QED  BY <1>7, <1>8, <1>9, <1>10

(* Settlement takes from each winner what its leading bids reserve in the  *)
(* auctions that close, and leaves the reservations of the others.         *)
LEMMA SettleDueAuctionsKeeps ==
    ASSUME IInv, NEW t \in Readings, SettleDueAuctions(t)
    PROVE  IInv'
<1> USE DEF IInv
<1> DEFINE D == DueAuctions(t)
<1>1. CASE ~CanSettleAll(D)
  <2>1. UNCHANGED vars
    BY <1>1 DEF SettleDueAuctions
  <2>2. UNCHANGED <<items, wallets, auctions, ledger, now>>
    BY <2>1 DEF vars
  <2>3. TypeOK' /\ FinitelyManyAuctions' /\ LeaderStands' /\ Solvent'
    BY <2>2 DEF TypeOK, FinitelyManyAuctions, LeaderStands, Solvent
  <2>4. ReservedBacksLeads'
    BY <2>2 DEF ReservedBacksLeads, Leads, LedBy
  <2> QED  BY <2>3, <2>4
<1>2. CASE CanSettleAll(D)
  <2> DEFINE paid(g) == GoldIn(Leads, LedBy(g) \cap D)
             earned(g) == GoldIn(Leads, SoldBy(g, D))
  <2>1. /\ auctions' = [x \in DOMAIN auctions |->
                          IF x \in D THEN [auctions[x] EXCEPT !.status = "settled"]
                          ELSE auctions[x]]
        /\ items' = SettledItems(D)
        /\ wallets' = SettledWallets(D)
        /\ ledger' = SettleEntries(D, t)
        /\ UNCHANGED now
    BY <1>2 DEF SettleDueAuctions
  <2>2. LeadsAreLast
    BY LeadsRead
  <2>3. \A S \in SUBSET DOMAIN auctions : IsFiniteSet(S) /\ GoldIn(Leads, S) \in Nat
    <3> SUFFICES ASSUME NEW S \in SUBSET DOMAIN auctions
                 PROVE  IsFiniteSet(S) /\ GoldIn(Leads, S) \in Nat
      OBVIOUS
    <3>1. IsFiniteSet(S)
      BY FS_Subset DEF FinitelyManyAuctions
    <3>2. \A x \in S : Leads[x] \in Nat
      BY <2>2 DEF LeadsAreLast
    <3> QED  BY <3>1, <3>2, CoinsFinite
  <2>4. ASSUME NEW g \in Registered
        PROVE  /\ paid(g) \in Nat /\ paid(g) <= wallets[g].reserved
               /\ earned(g) \in Nat
    <3>1. LedBy(g) \cap D \in SUBSET DOMAIN auctions /\ SoldBy(g, D) \in SUBSET DOMAIN auctions
      BY DEF DueAuctions, SoldBy, Won
    <3>2. paid(g) <= wallets[g].reserved
      BY <1>2 DEF CanSettleAll, TypeOK
    <3> QED  BY <2>3, <3>1, <3>2
  <2>5. ASSUME NEW g \in Registered
        PROVE  /\ wallets'[g] \in Wallet
               /\ wallets'[g].reserved = wallets[g].reserved - paid(g)
               /\ wallets'[g].reserved <= wallets'[g].total
    <3>1. /\ wallets[g].total \in Nat /\ wallets[g].reserved \in Nat
          /\ wallets[g].reserved <= wallets[g].total
      BY DEF TypeOK, Solvent, Wallet
    <3>2. wallets'[g] = [total    |-> wallets[g].total - paid(g) + earned(g),
                         reserved |-> wallets[g].reserved - paid(g)]
      BY <2>1 DEF SettledWallets, TypeOK
    <3> HIDE DEF paid, earned
    <3> QED  BY <2>4, <3>1, <3>2 DEF Wallet
  <2>6. wallets' \in [Registered -> Wallet]
    <3>1. wallets' = [g \in Registered |-> wallets'[g]]
      BY <2>1 DEF SettledWallets, TypeOK
    <3> QED  BY <2>5, <3>1
  <2>7. /\ DOMAIN auctions' = DOMAIN auctions
        /\ auctions' \in [DOMAIN auctions' -> Auction]
        /\ \A x \in DOMAIN auctions :
             /\ auctions'[x].bids = auctions[x].bids
             /\ auctions'[x].status = IF x \in D THEN "settled" ELSE auctions[x].status
    <3>1. \A x \in DOMAIN auctions : auctions[x] \in Auction
      BY DEF TypeOK
    <3> QED  BY <2>1, <3>1 DEF Auction
  <2>8. DOMAIN items' = DOMAIN items /\ items' \in [DOMAIN items' -> Item]
    <3>1. \A i \in DOMAIN items : items[i] \in Item
      BY DEF TypeOK
    <3>2. \A i \in DOMAIN items :
            /\ [items[i] EXCEPT !.status = "sold_out"] \in Item
            /\ [items[i] EXCEPT !.status = "available"] \in Item
      BY <3>1 DEF Item, ItemStatuses
    <3> QED  BY <2>1, <3>1, <3>2 DEF SettledItems
  <2>9. ledger' \in [LedgerKeys -> Nat]
    <3> SUFFICES ASSUME NEW k \in LedgerKeys PROVE ledger'[k] \in Nat
      BY <2>1 DEF SettleEntries
    <3> DEFINE S == {x \in Won(D) :
            \/ k = <<Leader(auctions[x]).guild, "settle", auctions[x].item, Day(t)>>
            \/ k = <<auctions[x].seller, "credit", auctions[x].item, Day(t)>>}
    <3>1. S \in SUBSET DOMAIN auctions
      BY DEF Won, DueAuctions
    <3>2. ledger'[k] = ledger[k] + GoldIn(Leads, S)
      BY <2>1 DEF SettleEntries
    <3> HIDE DEF S
    <3>3. ledger[k] \in Nat /\ GoldIn(Leads, S) \in Nat
      BY <2>3, <3>1 DEF TypeOK
    <3> QED  BY <3>2, <3>3
  <2>10. TypeOK'
    BY <2>1, <2>6, <2>7, <2>8, <2>9 DEF TypeOK
  <2>11. FinitelyManyAuctions' /\ LeaderStands' /\ Solvent'
    BY <2>5, <2>7 DEF FinitelyManyAuctions, LeaderStands, Solvent
  <2>12. ReservedBacksLeads'
    <3> SUFFICES ASSUME NEW g \in Registered
                 PROVE  wallets'[g].reserved = GoldIn(Leads', LedBy(g)')
      BY DEF ReservedBacksLeads
    <3>1. GoldIn(Leads', LedBy(g)') = GoldIn(Leads, LedBy(g)) - paid(g)
      <4>1. D \in SUBSET DOMAIN auctions
        BY DEF DueAuctions
      <4> HIDE DEF D
      <4> QED  BY <2>1, <4>1, SettleShiftsLeads DEF AuctionRows, Closing, TypeOK
    <3>2. wallets[g].reserved = GoldIn(Leads, LedBy(g))
      BY DEF ReservedBacksLeads
    <3> QED  BY <2>5, <3>1, <3>2
  <2> QED  BY <2>10, <2>11, <2>12
<1> QED  BY <1>1, <1>2

(* Nothing but the clock changes on a tick.                                *)
LEMMA TickKeeps ==
    ASSUME IInv, Tick
    PROVE  IInv'
<1> USE DEF IInv
<1>1. UNCHANGED <<items, wallets, auctions, ledger>> /\ now' \in 0..MaxTime
  BY ClockAssumption DEF Tick, TypeOK
<1>2. TypeOK' /\ FinitelyManyAuctions' /\ LeaderStands' /\ Solvent'
  BY <1>1 DEF TypeOK, FinitelyManyAuctions, LeaderStands, Solvent
<1>3. ReservedBacksLeads'
  BY <1>1 DEF ReservedBacksLeads, Leads, LedBy
<1> QED  BY <1>2, <1>3

(* The market opens with seeded wallets, nothing reserved and no auction.  *)
LEMMA InitKeeps ==
    ASSUME Init
    PROVE  IInv
<1>1. DOMAIN items = {} /\ DOMAIN auctions = {} /\ now = 0
  BY DEF Init
<1>2. ASSUME NEW g \in Registered
      PROVE  wallets[g].total = SeedGold[g] /\ wallets[g].reserved = 0
  <2>1. wallets[g] = [total |-> SeedGold[g], reserved |-> 0]
    BY DEF Init
  <2> QED  BY <2>1
<1>3. wallets \in [Registered -> Wallet]
  BY GuildsAssumption DEF Init, Wallet
<1>4. TypeOK
  BY <1>1, <1>3, ClockAssumption DEF Init, TypeOK
<1>5. FinitelyManyAuctions
  BY <1>1, FS_EmptySet DEF FinitelyManyAuctions
<1>6. LeaderStands
  BY <1>1 DEF LeaderStands
<1>7. Solvent
  <2>1. \A g \in Registered : SeedGold[g] >= 0
    BY GuildsAssumption
  <2> QED  BY <1>2, <2>1 DEF Solvent
<1>8. ReservedBacksLeads
  <2> SUFFICES ASSUME NEW g \in Registered
               PROVE  wallets[g].reserved = GoldIn(Leads, LedBy(g))
    BY DEF ReservedBacksLeads
  <2>1. LedBy(g) = {}
    BY <1>1 DEF LedBy
  <2>2. wallets[g].reserved = 0
    BY <1>2
  <2>3. GoldIn(Leads, {}) = 0
    BY GoldInEmpty
  <2> QED  BY <2>1, <2>2, <2>3
<1> QED  BY <1>4, <1>5, <1>6, <1>7, <1>8 DEF IInv

(* Every unit of work keeps the invariant.                                 *)
LEMMA UnitsKeep ==
    ASSUME IInv, [AnyUnit]_vars
    PROVE  IInv'
<1>1. CASE UNCHANGED vars
  <2>1. UNCHANGED <<items, wallets, auctions, ledger, now>>
    BY <1>1 DEF vars
  <2> QED  BY <2>1 DEF IInv, TypeOK, FinitelyManyAuctions, LeaderStands, Solvent,
                       ReservedBacksLeads, Leads, LedBy
<1>2. CASE AnyUnit
  BY <1>2, CreateItemKeeps, PurchaseKeeps, BidOnItemKeeps, CancelBidOnItemKeeps,
     SettleDueAuctionsKeeps, TickKeeps, Zenon DEF AnyUnit
<1> QED  BY <1>1, <1>2

(* So does every step of the market.                                       *)
LEMMA NextKeeps ==
    ASSUME IInv, [Next]_vars
    PROVE  IInv'
BY NextIsAnyUnit, UnitsKeep

-----------------------------------------------------------------------------
(* The theorems.                                                           *)

(* The invariant holds throughout every behaviour of the market.           *)
THEOREM MarketInvariant == Spec => []IInv
<1>1. Init => IInv
  BY InitKeeps
<1>2. IInv /\ [Next]_vars => IInv'
  BY NextKeeps
<1> QED  BY <1>1, <1>2, PTL DEF Spec

(* The tables keep their types: no stock, balance or reservation goes      *)
(* below zero, whatever guilds, amounts, prices and clock readings the     *)
(* requests carry.                                                         *)
THEOREM TypeCorrect == Spec => []TypeOK
<1>1. IInv => TypeOK
  BY DEF IInv
<1> QED  BY <1>1, MarketInvariant, PTL

(* wallet.go's invariant: no guild ever has more gold reserved than it     *)
(* holds.                                                                  *)
THEOREM GuildsStaySolvent == Spec => []Solvent
<1>1. IInv => Solvent
  BY DEF IInv
<1> QED  BY <1>1, MarketInvariant, PTL

(* Reservations are exactly the leading bids of the open auctions, across  *)
(* outbidding, self-raises, withdrawals and batched settlement (R7).       *)
THEOREM ReservationsAreLeads == Spec => []ReservedBacksLeads
<1>1. IInv => ReservedBacksLeads
  BY DEF IInv
<1> QED  BY <1>1, MarketInvariant, PTL

(* The last bid placed is the highest ever placed and is never withdrawn,  *)
(* so it is the one that wins (R5, R11, R12).                              *)
THEOREM LastBidderWins == Spec => []LeaderStands
<1>1. IInv => LeaderStands
  BY DEF IInv
<1> QED  BY <1>1, MarketInvariant, PTL

-----------------------------------------------------------------------------
(* The life of one auction: every step of the market treats its row in one *)
(* of few ways, and the bidding rules follow from those; and the items     *)
(* table follows the auctions table.                                       *)

(* What a step of the market may do to the row of auction x.               *)
BidTaken(x) ==
    \E guild \in Registered, amount \in Nat, t \in Nat :
        /\ IsPositive(amount)
        /\ CanPlaceBid(auctions[x], guild, amount, t)
        /\ auctions'[x] = PlaceBid(auctions[x], guild, amount, t)

BidWithdrawn(x) ==
    \E b, guild : /\ CanCancelBid(auctions[x], b, guild)
                  /\ auctions'[x] = CancelBid(auctions[x], b)

Closed(x) ==
    /\ auctions[x].status = "active"
    /\ auctions'[x] = [auctions[x] EXCEPT !.status = "settled"]

RowStep(x) ==
    \/ auctions'[x] = auctions[x]
    \/ BidTaken(x)
    \/ BidWithdrawn(x)
    \/ Closed(x)

RowSteps ==
    /\ DOMAIN auctions \subseteq DOMAIN auctions'
    /\ \A x \in DOMAIN auctions : RowStep(x)
    /\ \A x \in DOMAIN auctions' \ DOMAIN auctions : auctions'[x].bids = <<>>

(* No unit of work does anything else to an auction.                       *)
LEMMA OnlyRowSteps ==
    ASSUME IInv, [AnyUnit]_vars
    PROVE  RowSteps
<1> USE DEF IInv
<1>1. ASSUME NEW in \in ListingInput, NEW i \in ItemIDs, NEW t \in Readings,
             CreateItem(in, i, t)
      PROVE  RowSteps
  <2>1. CASE AuctionOnly(in.rarity)
    <3>1. PICK x \in AuctionIDs \ DOMAIN auctions :
            auctions' = Put(auctions, x, NewAuction(i, in, t))
      BY <1>1, <2>1 DEF CreateItem
    <3>2. NewAuction(i, in, t).bids = <<>>
      BY DEF NewAuction
    <3>3. /\ DOMAIN auctions' = DOMAIN auctions \cup {x}
          /\ auctions'[x] = NewAuction(i, in, t)
          /\ \A y \in DOMAIN auctions : auctions'[y] = auctions[y]
      BY <3>1 DEF Put
    <3> QED  BY <3>2, <3>3 DEF RowSteps, RowStep
  <2>2. CASE ~AuctionOnly(in.rarity)
    <3>1. UNCHANGED auctions
      BY <1>1, <2>2 DEF CreateItem
    <3> QED  BY <3>1 DEF RowSteps, RowStep
  <2> QED  BY <2>1, <2>2
<1>2. ASSUME NEW i, NEW buyer, NEW qty \in Int,
             NEW t \in Readings, Purchase(i, buyer, qty, t)
      PROVE  RowSteps
  <2>1. UNCHANGED auctions
    BY <1>2 DEF Purchase
  <2> QED  BY <2>1 DEF RowSteps, RowStep
<1>3. ASSUME NEW i, NEW bidder, NEW amount \in Int,
             NEW t \in Readings, BidOnItem(i, bidder, amount, t)
      PROVE  RowSteps
  <2>1. PICK x \in ActiveAuctions(i) :
          /\ bidder \in DOMAIN wallets
          /\ CanPlaceBid(auctions[x], bidder, amount, t)
          /\ auctions' = [auctions EXCEPT ![x] = PlaceBid(auctions[x], bidder, amount, t)]
    BY <1>3 DEF BidOnItem
  <2>2. /\ x \in DOMAIN auctions /\ bidder \in Registered
        /\ t \in Nat /\ amount \in Nat /\ IsPositive(amount)
    BY <1>3, <2>1
       DEF ActiveAuctions, TypeOK, BidOnItem, Readings, IsPositive
  <2>3. /\ DOMAIN auctions' = DOMAIN auctions
        /\ auctions'[x] = PlaceBid(auctions[x], bidder, amount, t)
        /\ \A y \in DOMAIN auctions : y # x => auctions'[y] = auctions[y]
    BY <2>1, <2>2
  <2>4. BidTaken(x)
    BY <2>1, <2>2, <2>3 DEF BidTaken
  <2> QED  BY <2>3, <2>4 DEF RowSteps, RowStep
<1>4. ASSUME NEW i, NEW b, NEW guild, CancelBidOnItem(i, b, guild)
      PROVE  RowSteps
  <2>1. PICK x \in ActiveAuctions(i) :
          /\ CanCancelBid(auctions[x], b, guild)
          /\ auctions' = [auctions EXCEPT ![x] = CancelBid(auctions[x], b)]
    BY <1>4 DEF CancelBidOnItem
  <2>2. x \in DOMAIN auctions
    BY DEF ActiveAuctions
  <2>3. /\ DOMAIN auctions' = DOMAIN auctions
        /\ auctions'[x] = CancelBid(auctions[x], b)
        /\ \A y \in DOMAIN auctions : y # x => auctions'[y] = auctions[y]
    BY <2>1, <2>2
  <2>4. BidWithdrawn(x)
    BY <2>1, <2>3 DEF BidWithdrawn
  <2> QED  BY <2>3, <2>4 DEF RowSteps, RowStep
<1>5. ASSUME NEW t \in Readings, SettleDueAuctions(t)
      PROVE  RowSteps
  <2>1. CASE UNCHANGED vars
    BY <2>1 DEF vars, RowSteps, RowStep
  <2>2. CASE auctions' = [x \in DOMAIN auctions |->
                            IF x \in DueAuctions(t)
                            THEN [auctions[x] EXCEPT !.status = "settled"]
                            ELSE auctions[x]]
    <3>1. ASSUME NEW x \in DOMAIN auctions PROVE RowStep(x)
      <4>1. CASE x \in DueAuctions(t)
        BY <2>2, <4>1 DEF DueAuctions, Due, RowStep, Closed
      <4>2. CASE x \notin DueAuctions(t)
        BY <2>2, <4>2 DEF RowStep
      <4> QED  BY <4>1, <4>2
    <3>2. DOMAIN auctions' = DOMAIN auctions
      BY <2>2
    <3> QED  BY <3>1, <3>2 DEF RowSteps
  <2> QED  BY <1>5, <2>1, <2>2 DEF SettleDueAuctions
<1>6. CASE Tick
  <2>1. UNCHANGED auctions
    BY <1>6 DEF Tick
  <2> QED  BY <2>1 DEF RowSteps, RowStep
<1>7. CASE UNCHANGED vars
  BY <1>7 DEF vars, RowSteps, RowStep
<1> QED  BY <1>1, <1>2, <1>3, <1>4, <1>5, <1>6, <1>7 DEF AnyUnit

-----------------------------------------------------------------------------
(* A bid leaves the auction open for the full extension after it and never *)
(* moves its end closer.                                                   *)
LEMMA PlaceBidExtends ==
    ASSUME NEW a \in Auction, NEW guild \in Registered, NEW amount \in Nat,
           NEW t \in Nat, CanPlaceBid(a, guild, amount, t)
    PROVE  LET b == PlaceBid(a, guild, amount, t)
           IN  /\ b.endsAt \in Nat /\ b.endsAt >= a.endsAt
               /\ t < b.endsAt /\ t + a.extension <= b.endsAt
               /\ b.extension = a.extension
               /\ b.bids = Append(a.bids, [guild |-> guild, amount |-> amount,
                                           active |-> TRUE, placedAt |-> t])
<1>1. a.endsAt \in Nat /\ a.extension \in Nat /\ t < a.endsAt
  BY DEF Auction, CanPlaceBid
<1>2. PlaceBid(a, guild, amount, t).endsAt =
        IF a.extension > 0 /\ a.endsAt - t < a.extension
        THEN t + a.extension ELSE a.endsAt
  BY DEF PlaceBid, Auction
<1> QED  BY <1>1, <1>2 DEF PlaceBid, Auction

(* The bids of a row are all answered for: AnswerTime of one auction.      *)
Answerable(a) ==
    \A b \in DOMAIN a.bids : /\ a.bids[b].placedAt < a.endsAt
                             /\ a.bids[b].placedAt + a.extension <= a.endsAt

(* Whatever happens to a row, its bids stay answerable.                    *)
LEMMA RowStepAnswerable ==
    ASSUME IInv, NEW x \in DOMAIN auctions, RowStep(x), Answerable(auctions[x])
    PROVE  Answerable(auctions'[x])
<1> DEFINE a == auctions[x]
<1>1. a \in Auction /\ Stands(a.bids) /\ a.bids \in Seq(Bid)
  BY DEF IInv, TypeOK, LeaderStands, Auction
<1>2. /\ Len(a.bids) \in Nat /\ DOMAIN a.bids = 1..Len(a.bids)
      /\ \A b \in DOMAIN a.bids : a.bids[b].placedAt \in Nat
      /\ a.endsAt \in Nat /\ a.extension \in Nat
  <2>1. \A b \in DOMAIN a.bids : a.bids[b] \in Bid
    BY <1>1
  <2> QED  BY <1>1, <2>1 DEF Bid, Auction
<1>3. CASE auctions'[x] = a
  BY <1>3 DEF Answerable
<1>4. CASE BidTaken(x)
  <2>1. PICK guild \in Registered, amount \in Nat, t \in Nat :
          /\ CanPlaceBid(a, guild, amount, t)
          /\ auctions'[x] = PlaceBid(a, guild, amount, t)
    BY <1>4 DEF BidTaken
  <2> DEFINE new == [guild |-> guild, amount |-> amount, active |-> TRUE, placedAt |-> t]
             c == auctions'[x]
  <2>2. /\ c.endsAt \in Nat /\ c.endsAt >= a.endsAt
        /\ t < c.endsAt /\ t + a.extension <= c.endsAt
        /\ c.extension = a.extension
        /\ c.bids = Append(a.bids, new)
    BY <1>1, <2>1, PlaceBidExtends
  <2>3. new \in Bid /\ new.placedAt = t
    BY DEF Bid
  <2> HIDE DEF new
  <2>4. /\ DOMAIN c.bids = 1..(Len(a.bids) + 1)
        /\ c.bids[Len(a.bids) + 1] = new
        /\ \A b \in 1..Len(a.bids) : c.bids[b] = a.bids[b]
    BY <1>1, <2>2, <2>3
  <2> SUFFICES ASSUME NEW b \in DOMAIN c.bids
               PROVE  /\ c.bids[b].placedAt < c.endsAt
                      /\ c.bids[b].placedAt + c.extension <= c.endsAt
    BY DEF Answerable
  <2>5. CASE b = Len(a.bids) + 1
    BY <2>2, <2>3, <2>4, <2>5
  <2>6. CASE b \in 1..Len(a.bids)
    <3>1. /\ a.bids[b].placedAt < a.endsAt
          /\ a.bids[b].placedAt + a.extension <= a.endsAt
          /\ a.bids[b].placedAt \in Nat
      BY <1>2, <2>6 DEF Answerable
    <3>2. c.bids[b] = a.bids[b]
      BY <2>4, <2>6
    <3>3. /\ a.endsAt \in Nat /\ a.extension \in Nat /\ c.endsAt \in Nat
          /\ c.endsAt >= a.endsAt /\ c.extension = a.extension
      BY <1>2, <2>2
    <3> HIDE DEF a, c
    <3> QED  BY <3>1, <3>2, <3>3
  <2> QED  BY <1>2, <2>4, <2>5, <2>6
<1>5. CASE BidWithdrawn(x)
  <2>1. PICK b, guild : CanCancelBid(a, b, guild) /\ auctions'[x] = CancelBid(a, b)
    BY <1>5 DEF BidWithdrawn
  <2> DEFINE c == auctions'[x]
  <2>2. c = [a EXCEPT !.bids[b].active = FALSE]
    BY <2>1 DEF CancelBid
  <2>3. /\ c.endsAt = a.endsAt /\ c.extension = a.extension
        /\ c.bids = [a.bids EXCEPT ![b].active = FALSE]
    BY <1>1, <2>2 DEF Auction
  <2>4. \A d \in DOMAIN a.bids : a.bids[d] \in Bid
    BY <1>1
  <2>5. /\ DOMAIN c.bids = DOMAIN a.bids
        /\ \A d \in DOMAIN a.bids : c.bids[d].placedAt = a.bids[d].placedAt
    BY <2>3, <2>4 DEF Bid
  <2> QED  BY <2>3, <2>5 DEF Answerable
<1>6. CASE Closed(x)
  <2>1. /\ auctions'[x].bids = a.bids /\ auctions'[x].endsAt = a.endsAt
        /\ auctions'[x].extension = a.extension
    BY <1>1, <1>6 DEF Closed, Auction
  <2> QED  BY <2>1 DEF Answerable
<1> QED  BY <1>3, <1>4, <1>5, <1>6 DEF RowStep

(* An auction stays open for its full extension after every bid it took,   *)
(* whatever window, extension and clock readings: R6.                      *)
THEOREM BiddersCanAnswer == Spec => []AnswerTime
<1>1. AnswerTime <=> \A x \in DOMAIN auctions : Answerable(auctions[x])
  BY DEF AnswerTime, Answerable
<1>2. Init => AnswerTime
  BY DEF Init, AnswerTime
<1>3. ASSUME IInv, AnswerTime, [Next]_vars PROVE AnswerTime'
  <2>1. RowSteps
    BY <1>3, NextIsAnyUnit, OnlyRowSteps
  <2>2. ASSUME NEW x \in DOMAIN auctions' PROVE Answerable(auctions'[x])
    <3>1. CASE x \in DOMAIN auctions
      BY <1>1, <1>3, <2>1, <3>1, RowStepAnswerable DEF RowSteps
    <3>2. CASE x \notin DOMAIN auctions
      BY <2>1, <3>2 DEF RowSteps, Answerable
    <3> QED  BY <3>1, <3>2
  <2> QED  BY <2>2 DEF AnswerTime, Answerable
<1> QED  BY <1>2, <1>3, MarketInvariant, PTL DEF Spec

-----------------------------------------------------------------------------
(* Whatever happens to a row, its end does not move closer, and its lead   *)
(* stays or rises by 5%.                                                   *)
LEMMA RowStepRises ==
    ASSUME IInv, IInv', NEW x \in DOMAIN auctions, x \in DOMAIN auctions', RowStep(x)
    PROVE  /\ auctions'[x].endsAt >= auctions[x].endsAt
           /\ Leads[x] > 0 => \/ Leads'[x] = Leads[x]
                              \/ 100 * Leads'[x] >= 105 * Leads[x]
<1> DEFINE a == auctions[x]
           c == auctions'[x]
<1>1. a \in Auction /\ Stands(a.bids) /\ a.bids \in Seq(Bid) /\ a.endsAt \in Nat
  BY DEF IInv, TypeOK, LeaderStands, Auction
<1>2. LeadsAreLast /\ LeadsAreLast'
  BY LeadsRead, LeadsReadNext DEF IInv
<1>3. /\ Leads[x] = IF a.bids = <<>> THEN 0 ELSE a.bids[Len(a.bids)].amount
      /\ Leads[x] \in Nat
      /\ HighestBid(a) = 0 <=> a.bids = <<>>
      /\ a.bids # <<>> => Leader(a) = a.bids[Len(a.bids)]
  BY <1>2 DEF LeadsAreLast, LastBid
<1>4. Leads'[x] = IF c.bids = <<>> THEN 0 ELSE c.bids[Len(c.bids)].amount
  BY <1>2 DEF LeadsAreLast, LastBid
<1>5. CASE c = a
  BY <1>1, <1>3, <1>4, <1>5
<1>6. CASE BidTaken(x)
  <2>1. PICK guild \in Registered, amount \in Nat, t \in Nat :
          CanPlaceBid(a, guild, amount, t) /\ c = PlaceBid(a, guild, amount, t)
    BY <1>6 DEF BidTaken
  <2>2. c.endsAt >= a.endsAt
    BY <1>1, <2>1, PlaceBidExtends
  <2>3. Leads'[x] = amount
    BY <1>1, <1>4, <2>1, PlaceBidStands
  <2>4. ASSUME Leads[x] > 0 PROVE 100 * Leads'[x] >= 105 * Leads[x]
    <3>1. a.bids # <<>> /\ HighestBid(a) # 0 /\ Leader(a).amount = Leads[x]
      BY <1>3, <2>4
    <3>2. amount >= Leads[x] + Increment(Leads[x])
      BY <2>1, <3>1 DEF CanPlaceBid, MinNextBid
    <3>3. Increment(Leads[x]) \in Nat /\ 100 * Increment(Leads[x]) >= 5 * Leads[x]
      BY <1>3, IncrementIsEnough
    <3> QED  BY <1>3, <2>3, <3>2, <3>3
  <2> QED  BY <2>2, <2>4
<1>7. CASE BidWithdrawn(x)
  <2>1. PICK b, guild : CanCancelBid(a, b, guild) /\ c = CancelBid(a, b)
    BY <1>7 DEF BidWithdrawn
  <2>2. Len(c.bids) = Len(a.bids) /\ c.bids[Len(c.bids)] = a.bids[Len(a.bids)] /\ c \in Auction
    BY <1>1, <2>1, CancelBidStands
  <2>3. c.bids \in Seq(Bid)
    BY <2>2 DEF Auction
  <2>4. c.bids = <<>> <=> a.bids = <<>>
    BY <1>1, <2>2, <2>3
  <2>5. c.endsAt = a.endsAt
    BY <1>1, <2>1 DEF CancelBid, Auction
  <2> QED  BY <1>1, <1>3, <1>4, <2>2, <2>4, <2>5
<1>8. CASE Closed(x)
  <2>1. c.bids = a.bids /\ c.endsAt = a.endsAt
    BY <1>1, <1>8 DEF Closed, Auction
  <2> QED  BY <1>1, <1>3, <1>4, <2>1
<1> QED  BY <1>5, <1>6, <1>7, <1>8 DEF RowStep

(* A leading bid is only ever replaced by one at least 5% higher, is never *)
(* withdrawn or lost, and the end of an auction never moves closer: R6,    *)
(* R11 and R12 together.                                                   *)
THEOREM LeadsNeverFall == Spec => LeadOnlyRises
<1> DEFINE Rises == \A x \in DOMAIN auctions :
              /\ auctions'[x].endsAt >= auctions[x].endsAt
              /\ Leads[x] > 0 => \/ Leads'[x] = Leads[x]
                                 \/ 100 * Leads'[x] >= 105 * Leads[x]
<1>1. ASSUME IInv, IInv', [Next]_vars PROVE Rises
  <2>1. RowSteps
    BY <1>1, NextIsAnyUnit, OnlyRowSteps
  <2> SUFFICES ASSUME NEW x \in DOMAIN auctions
               PROVE  /\ auctions'[x].endsAt >= auctions[x].endsAt
                      /\ Leads[x] > 0 => \/ Leads'[x] = Leads[x]
                                         \/ 100 * Leads'[x] >= 105 * Leads[x]
    OBVIOUS
  <2>2. x \in DOMAIN auctions' /\ RowStep(x)
    BY <2>1 DEF RowSteps
  <2> QED  BY <1>1, <2>2, RowStepRises
<1> QED  BY <1>1, MarketInvariant, PTL DEF Spec, LeadOnlyRises

-----------------------------------------------------------------------------
(* Items and their auctions.                                               *)

(* What the shelf says of the item that auction row a is about.            *)
ShelfStatus(a) ==
    IF a.status = "active" THEN "in_auction"
    ELSE IF a.bids = <<>> THEN "available" ELSE "sold_out"

(* The inductive form of ItemAuctionAgree: every Legendary has exactly one *)
(* auction in its life, and its status is read off that auction.           *)
AuctionsMatchItems ==
    /\ \A x \in DOMAIN auctions :
        /\ auctions[x].item \in DOMAIN items
        /\ AuctionOnly(items[auctions[x].item].rarity)
        /\ items[auctions[x].item].status = ShelfStatus(auctions[x])
    /\ \A x, y \in DOMAIN auctions : auctions[x].item = auctions[y].item => x = y
    /\ \A i \in DOMAIN items : AuctionOnly(items[i].rarity) =>
         \E x \in DOMAIN auctions : auctions[x].item = i

(* Bidding and withdrawing change neither what a row is about nor what the *)
(* shelf says of it.                                                       *)
LEMMA RowsKeepMatch ==
    ASSUME AuctionsMatchItems, items' = items, DOMAIN auctions' = DOMAIN auctions,
           \A x \in DOMAIN auctions :
               /\ auctions'[x].item = auctions[x].item
               /\ ShelfStatus(auctions'[x]) = ShelfStatus(auctions[x])
    PROVE  AuctionsMatchItems'
<1>1. \A x \in DOMAIN auctions' :
        /\ auctions'[x].item \in DOMAIN items'
        /\ AuctionOnly(items'[auctions'[x].item].rarity)
        /\ items'[auctions'[x].item].status = ShelfStatus(auctions'[x])
  BY DEF AuctionsMatchItems
<1>2. \A x, y \in DOMAIN auctions' : auctions'[x].item = auctions'[y].item => x = y
  BY DEF AuctionsMatchItems
<1>3. \A i \in DOMAIN items' : AuctionOnly(items'[i].rarity) =>
        \E x \in DOMAIN auctions' : auctions'[x].item = i
  BY DEF AuctionsMatchItems
<1> QED  BY <1>1, <1>2, <1>3 DEF AuctionsMatchItems

(* A new Legendary comes with the one auction it will have; any other      *)
(* listing is none of the auctions' business.                              *)
LEMMA CreateItemKeepsMatch ==
    ASSUME IInv, AuctionsMatchItems, NEW in \in ListingInput, NEW i \in ItemIDs,
           NEW t \in Readings, CreateItem(in, i, t)
    PROVE  AuctionsMatchItems'
<1>1. i \notin DOMAIN items
  BY DEF CreateItem
<1>2. CASE AuctionOnly(in.rarity)
  <2> DEFINE it == [NewItem(in) EXCEPT !.status = "in_auction"]
             a == NewAuction(i, in, t)
  <2>1. PICK x \in AuctionIDs \ DOMAIN auctions :
          auctions' = Put(auctions, x, a) /\ items' = Put(items, i, it)
    BY <1>2 DEF CreateItem
  <2>2. it.rarity = in.rarity /\ it.status = "in_auction"
    BY DEF NewItem
  <2>3. a.item = i /\ ShelfStatus(a) = "in_auction"
    BY DEF NewAuction, ShelfStatus
  <2> HIDE DEF it, a
  <2>4. /\ DOMAIN auctions' = DOMAIN auctions \cup {x} /\ auctions'[x] = a
        /\ \A y \in DOMAIN auctions : auctions'[y] = auctions[y]
        /\ DOMAIN items' = DOMAIN items \cup {i} /\ items'[i] = it
        /\ \A j \in DOMAIN items : items'[j] = items[j]
    BY <1>1, <2>1 DEF Put
  <2>5. \A y \in DOMAIN auctions' :
          /\ auctions'[y].item \in DOMAIN items'
          /\ AuctionOnly(items'[auctions'[y].item].rarity)
          /\ items'[auctions'[y].item].status = ShelfStatus(auctions'[y])
    BY <1>2, <2>2, <2>3, <2>4 DEF AuctionsMatchItems
  <2>6. \A y, z \in DOMAIN auctions' : auctions'[y].item = auctions'[z].item => y = z
    BY <1>1, <2>3, <2>4 DEF AuctionsMatchItems
  <2>7. \A j \in DOMAIN items' : AuctionOnly(items'[j].rarity) =>
          \E y \in DOMAIN auctions' : auctions'[y].item = j
    <3> SUFFICES ASSUME NEW j \in DOMAIN items', AuctionOnly(items'[j].rarity)
                 PROVE  \E y \in DOMAIN auctions' : auctions'[y].item = j
      OBVIOUS
    <3>1. CASE j = i
      BY <2>3, <2>4, <3>1
    <3>2. CASE j \in DOMAIN items
      <4>1. PICK y \in DOMAIN auctions : auctions[y].item = j
        BY <2>4, <3>2 DEF AuctionsMatchItems
      <4> QED  BY <2>4, <4>1
    <3> QED  BY <2>4, <3>1, <3>2
  <2> QED  BY <2>5, <2>6, <2>7 DEF AuctionsMatchItems
<1>3. CASE ~AuctionOnly(in.rarity)
  <2>1. items' = Put(items, i, NewItem(in)) /\ UNCHANGED auctions
    BY <1>3 DEF CreateItem
  <2>2. NewItem(in).rarity = in.rarity
    BY DEF NewItem
  <2>3. /\ DOMAIN items' = DOMAIN items \cup {i} /\ items'[i].rarity = in.rarity
        /\ \A j \in DOMAIN items : items'[j] = items[j]
    BY <1>1, <2>1, <2>2 DEF Put
  <2> QED  BY <1>1, <1>3, <2>1, <2>3 DEF AuctionsMatchItems
<1> QED  BY <1>2, <1>3

(* A Legendary is never sold over the counter.                             *)
LEMMA PurchaseKeepsMatch ==
    ASSUME IInv, AuctionsMatchItems, NEW i, NEW buyer, NEW qty \in Int,
           NEW t \in Readings, Purchase(i, buyer, qty, t)
    PROVE  AuctionsMatchItems'
<1>1. /\ i \in DOMAIN items /\ ~AuctionOnly(items[i].rarity) /\ UNCHANGED auctions
      /\ items' = [items EXCEPT ![i] = SellTo(items[i], qty)]
  BY DEF Purchase, CanSellTo
<1>2. items[i] \in Item
  BY <1>1 DEF IInv, TypeOK
<1>3. SellTo(items[i], qty).rarity = items[i].rarity
  BY <1>2 DEF SellTo, Item
<1>4. /\ DOMAIN items' = DOMAIN items /\ items'[i].rarity = items[i].rarity
      /\ \A j \in DOMAIN items : j # i => items'[j] = items[j]
  BY <1>1, <1>3
<1> QED  BY <1>1, <1>4 DEF AuctionsMatchItems

(* A settlement moves the item of every auction it closes off the auction  *)
(* block, and no other item.                                               *)
LEMMA SettleKeepsMatch ==
    ASSUME IInv, AuctionsMatchItems, NEW t \in Readings, SettleDueAuctions(t)
    PROVE  AuctionsMatchItems'
<1> DEFINE D == DueAuctions(t)
<1>1. CASE ~CanSettleAll(D)
  <2>1. UNCHANGED <<items, auctions>>
    BY <1>1 DEF SettleDueAuctions, vars
  <2> QED  BY <2>1, RowsKeepMatch
<1>2. CASE CanSettleAll(D)
  <2>1. /\ auctions' = [x \in DOMAIN auctions |->
                          IF x \in D THEN [auctions[x] EXCEPT !.status = "settled"]
                          ELSE auctions[x]]
        /\ items' = SettledItems(D)
    BY <1>2 DEF SettleDueAuctions
  <2>2. D \subseteq DOMAIN auctions /\ \A x \in D : auctions[x].status = "active"
    BY DEF DueAuctions, Due
  <2>3. Won(D) = {x \in D : auctions[x].bids # <<>>}
    <3>1. LeadsAreLast
      BY LeadsRead DEF IInv
    <3> QED  BY <2>2, <3>1 DEF Won, LeadsAreLast
  <2> HIDE DEF D
  <2>4. /\ DOMAIN auctions' = DOMAIN auctions
        /\ \A x \in DOMAIN auctions :
             /\ auctions'[x].item = auctions[x].item
             /\ auctions'[x].bids = auctions[x].bids
             /\ auctions'[x].status = IF x \in D THEN "settled" ELSE auctions[x].status
    <3>1. \A x \in DOMAIN auctions : auctions[x] \in Auction
      BY DEF IInv, TypeOK
    <3> QED  BY <2>1, <3>1 DEF Auction
  <2>5. ASSUME NEW x \in DOMAIN auctions
        PROVE  /\ auctions[x].item \in DOMAIN items'
               /\ items'[auctions[x].item].rarity = items[auctions[x].item].rarity
               /\ items'[auctions[x].item].status = ShelfStatus(auctions'[x])
    <3> DEFINE i == auctions[x].item
    <3>1. /\ i \in DOMAIN items /\ items[i].status = ShelfStatus(auctions[x])
          /\ items[i] \in Item
          /\ \A y \in DOMAIN auctions : auctions[y].item = i => y = x
      BY DEF AuctionsMatchItems, IInv, TypeOK
    <3>2. (i \in {auctions[y].item : y \in Won(D)} <=> x \in Won(D))
      BY <2>2, <2>3, <3>1
    <3>3. (i \in {auctions[y].item : y \in D} <=> x \in D)
      BY <2>2, <3>1
    <3>4. items'[i] = IF x \in Won(D) THEN [items[i] EXCEPT !.status = "sold_out"]
                      ELSE IF x \in D THEN [items[i] EXCEPT !.status = "available"]
                           ELSE items[i]
      BY <2>1, <3>1, <3>2, <3>3 DEF SettledItems
    <3>5. items'[i].rarity = items[i].rarity /\ i \in DOMAIN items'
      BY <2>1, <3>1, <3>4 DEF SettledItems, Item
    <3>6. items'[i].status = IF x \in Won(D) THEN "sold_out"
                             ELSE IF x \in D THEN "available" ELSE items[i].status
      BY <3>1, <3>4 DEF Item
    <3>7. items'[i].status = ShelfStatus(auctions'[x])
      BY <2>3, <2>4, <3>1, <3>6 DEF ShelfStatus
    <3> QED  BY <3>5, <3>7
  <2>6. ASSUME NEW i \in DOMAIN items'
        PROVE  i \in DOMAIN items /\ items'[i].rarity = items[i].rarity
    <3>1. i \in DOMAIN items
      BY <2>1 DEF SettledItems
    <3>2. items[i] \in Item
      BY <3>1 DEF IInv, TypeOK
    <3> QED  BY <2>1, <3>1, <3>2 DEF SettledItems, Item
  <2>7. \A x \in DOMAIN auctions' :
          /\ auctions'[x].item \in DOMAIN items'
          /\ AuctionOnly(items'[auctions'[x].item].rarity)
          /\ items'[auctions'[x].item].status = ShelfStatus(auctions'[x])
    BY <2>4, <2>5 DEF AuctionsMatchItems
  <2>8. \A x, y \in DOMAIN auctions' : auctions'[x].item = auctions'[y].item => x = y
    BY <2>4 DEF AuctionsMatchItems
  <2>9. \A i \in DOMAIN items' : AuctionOnly(items'[i].rarity) =>
          \E x \in DOMAIN auctions' : auctions'[x].item = i
    BY <2>4, <2>6 DEF AuctionsMatchItems
  <2> QED  BY <2>7, <2>8, <2>9 DEF AuctionsMatchItems
<1> QED  BY <1>1, <1>2

(* Every unit of work keeps items and auctions in step.                    *)
LEMMA UnitsKeepMatch ==
    ASSUME IInv, AuctionsMatchItems, [AnyUnit]_vars
    PROVE  AuctionsMatchItems'
<1>1. ASSUME NEW i, NEW bidder, NEW amount \in Int, NEW t \in Readings,
             BidOnItem(i, bidder, amount, t)
      PROVE  AuctionsMatchItems'
  <2>1. PICK x \in ActiveAuctions(i) :
          /\ bidder \in DOMAIN wallets
          /\ CanPlaceBid(auctions[x], bidder, amount, t)
          /\ auctions' = [auctions EXCEPT ![x] = PlaceBid(auctions[x], bidder, amount, t)]
    BY <1>1 DEF BidOnItem
  <2>2. x \in DOMAIN auctions /\ auctions[x].status = "active" /\ auctions[x] \in Auction
    BY DEF ActiveAuctions, IInv, TypeOK
  <2>3. /\ PlaceBid(auctions[x], bidder, amount, t).item = auctions[x].item
        /\ PlaceBid(auctions[x], bidder, amount, t).status = auctions[x].status
    BY <2>2 DEF PlaceBid, Auction
  <2>4. /\ DOMAIN auctions' = DOMAIN auctions
        /\ auctions'[x] = PlaceBid(auctions[x], bidder, amount, t)
        /\ \A y \in DOMAIN auctions : y # x => auctions'[y] = auctions[y]
    BY <2>1, <2>2
  <2>5. \A y \in DOMAIN auctions :
          /\ auctions'[y].item = auctions[y].item
          /\ ShelfStatus(auctions'[y]) = ShelfStatus(auctions[y])
    BY <2>2, <2>3, <2>4 DEF ShelfStatus
  <2>6. items' = items
    BY <1>1 DEF BidOnItem
  <2> QED  BY <2>4, <2>5, <2>6, RowsKeepMatch
<1>2. ASSUME NEW i, NEW b, NEW guild, CancelBidOnItem(i, b, guild)
      PROVE  AuctionsMatchItems'
  <2>1. PICK x \in ActiveAuctions(i) :
          /\ CanCancelBid(auctions[x], b, guild)
          /\ auctions' = [auctions EXCEPT ![x] = CancelBid(auctions[x], b)]
    BY <1>2 DEF CancelBidOnItem
  <2>2. x \in DOMAIN auctions /\ auctions[x].status = "active" /\ auctions[x] \in Auction
    BY DEF ActiveAuctions, IInv, TypeOK
  <2>3. /\ CancelBid(auctions[x], b).item = auctions[x].item
        /\ CancelBid(auctions[x], b).status = auctions[x].status
    BY <2>2 DEF CancelBid, Auction
  <2>4. /\ DOMAIN auctions' = DOMAIN auctions
        /\ auctions'[x] = CancelBid(auctions[x], b)
        /\ \A y \in DOMAIN auctions : y # x => auctions'[y] = auctions[y]
    BY <2>1, <2>2
  <2>5. \A y \in DOMAIN auctions :
          /\ auctions'[y].item = auctions[y].item
          /\ ShelfStatus(auctions'[y]) = ShelfStatus(auctions[y])
    BY <2>2, <2>3, <2>4 DEF ShelfStatus
  <2>6. items' = items
    BY <1>2 DEF CancelBidOnItem
  <2> QED  BY <2>4, <2>5, <2>6, RowsKeepMatch
<1>3. CASE UNCHANGED <<items, auctions>>
  BY <1>3, RowsKeepMatch
<1> QED  BY <1>1, <1>2, <1>3, CreateItemKeepsMatch, PurchaseKeepsMatch, SettleKeepsMatch
         DEF AnyUnit, Tick, vars

(* So does every step of the market.                                       *)
LEMMA NextKeepsMatch ==
    ASSUME IInv, AuctionsMatchItems, [Next]_vars
    PROVE  AuctionsMatchItems'
BY NextIsAnyUnit, UnitsKeepMatch

(* Items and auctions agree throughout.                                    *)
THEOREM TablesInStep == Spec => []AuctionsMatchItems
<1>1. Init => AuctionsMatchItems
  BY DEF Init, AuctionsMatchItems
<1>2. IInv /\ AuctionsMatchItems /\ [Next]_vars => AuctionsMatchItems'
  BY NextKeepsMatch
<1> QED  BY <1>1, <1>2, MarketInvariant, PTL DEF Spec

(* A Legendary is in_auction exactly while one auction of it is open,      *)
(* never two, sold_out exactly if one was won, and available exactly if    *)
(* it closed without a bid (R3, R8).                                       *)
THEOREM ItemsFollowAuctions == Spec => []ItemAuctionAgree
<1>1. ASSUME AuctionsMatchItems, IInv PROVE ItemAuctionAgree
  <2> SUFFICES ASSUME NEW i \in DOMAIN items, AuctionOnly(items[i].rarity)
               PROVE  LET ended == {x \in DOMAIN auctions :
                                      auctions[x].item = i /\ auctions[x].status = "settled"}
                          won == {x \in ended : auctions[x].bids # <<>>}
                      IN  /\ Cardinality(ActiveAuctions(i)) =
                               IF items[i].status = "in_auction" THEN 1 ELSE 0
                          /\ Cardinality(won) =
                               IF items[i].status = "sold_out" THEN 1 ELSE 0
    BY DEF ItemAuctionAgree
  <2> DEFINE ended == {x \in DOMAIN auctions :
                         auctions[x].item = i /\ auctions[x].status = "settled"}
             won == {x \in ended : auctions[x].bids # <<>>}
  <2>1. PICK x \in DOMAIN auctions : auctions[x].item = i
    BY <1>1 DEF AuctionsMatchItems
  <2>2. \A y \in DOMAIN auctions : auctions[y].item = i => y = x
    BY <1>1, <2>1 DEF AuctionsMatchItems
  <2>3. auctions[x].status \in {"active", "settled"}
    BY <1>1 DEF IInv, TypeOK, Auction
  <2>4. items[i].status = ShelfStatus(auctions[x])
    BY <1>1, <2>1 DEF AuctionsMatchItems
  <2>5. ActiveAuctions(i) = IF items[i].status = "in_auction" THEN {x} ELSE {}
    BY <2>1, <2>2, <2>3, <2>4 DEF ActiveAuctions, ShelfStatus
  <2>6. won = IF items[i].status = "sold_out" THEN {x} ELSE {}
    BY <2>1, <2>2, <2>3, <2>4 DEF ShelfStatus
  <2>7. Cardinality({x}) = 1 /\ Cardinality({}) = 0
    BY FS_Singleton, FS_EmptySet
  <2> HIDE DEF won
  <2>8. /\ Cardinality(ActiveAuctions(i)) = IF items[i].status = "in_auction" THEN 1 ELSE 0
        /\ Cardinality(won) = IF items[i].status = "sold_out" THEN 1 ELSE 0
    BY <2>5, <2>6, <2>7
  <2> QED  BY <2>8 DEF won
<1> QED  BY <1>1, TablesInStep, MarketInvariant, PTL
=============================================================================
