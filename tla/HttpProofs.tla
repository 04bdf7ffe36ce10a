----------------------------- MODULE HttpProofs -----------------------------
(***************************************************************************)
(* Theorems about the market as its HTTP clients see it, for every set of  *)
(* calls: no rule of the market is answered as an internal error, a bid or *)
(* a withdrawal takes effect once however often it is sent, the calls of   *)
(* each scope behave as Idempotency says, and a scope is one key of one    *)
(* guild at one endpoint unless a guild ID or a path contains a bar.       *)
(*                                                                         *)
(* The invariant has three parts.  The market's own carries over: a        *)
(* handler runs a unit of work with inputs nobody restricts.  The          *)
(* middleware's says that what it stores is the success of a call of the   *)
(* same scope that is over.  And a call that was applied has left a trace  *)
(* in its auction that nothing takes away.                                 *)
(***************************************************************************)
EXTENDS HttpApi, MarketProofs, SequenceTheorems

-----------------------------------------------------------------------------
(* The inductive invariant.                                                *)

(* No bid is for nothing.                                                  *)
BidsPositive ==
    \A x \in DOMAIN auctions : \A b \in DOMAIN auctions[x].bids :
        auctions[x].bids[b].amount > 0

(* What the middleware keeps of the calls.  It lets those without a key    *)
(* pass.                                                                   *)
CallRows ==
    /\ DOMAIN phase = Calls /\ DOMAIN status = Calls /\ DOMAIN source = Calls
    /\ applied \subseteq Calls
    /\ \A c \in Calls : c \notin Keyed => phase[c] \in {"running", "done"}

(* The cached response of a scope is the success of a call of that scope,  *)
(* which is over.                                                          *)
EntriesAreSuccesses ==
    /\ \A k \in DOMAIN entries :
        /\ entries[k] \in Keyed
        /\ Scope(entries[k]) = k
        /\ phase[entries[k]] = "done"
        /\ Success(status[entries[k]])
    /\ \A c \in Calls : phase[c] = "succeeded" => Success(status[c])

(* A call computes its own answer or replays one of its scope.             *)
SourcesInScope ==
    \A c \in Calls : /\ source[c] \in Calls
                     /\ c \in Keyed => source[c] \in Keyed
                     /\ Scope(source[c]) = Scope(c)
                     /\ phase[c] # "done" => source[c] = c

(* The traces of a bid and of a withdrawal: the auction of the item has    *)
(* been led with at least the amount, and the bid no longer stands.        *)
BidTrace(c) ==
    \E x \in DOMAIN auctions :
        /\ auctions[x].item = call[c].item
        /\ auctions[x].bids # <<>>
        /\ LastBid(x).amount >= call[c].amount

CancelTrace(c) ==
    \E x \in DOMAIN auctions :
        /\ auctions[x].item = call[c].item
        /\ call[c].bid \in DOMAIN auctions[x].bids
        /\ ~auctions[x].bids[call[c].bid].active

AppliedLeaveTraces ==
    \A c \in applied : /\ call[c].op = "bid" => BidTrace(c)
                       /\ call[c].op = "cancel" => CancelTrace(c)

HInv ==
    /\ IInv
    /\ AuctionsMatchItems
    /\ BidsPositive
    /\ CallRows
    /\ EntriesAreSuccesses
    /\ SourcesInScope
    /\ AppliedLeaveTraces
    /\ NoInternalError
    /\ BidsApplyOnce

-----------------------------------------------------------------------------
(* The market under its handlers.                                          *)

(* The unit of work a handler commits is a unit of the market.             *)
LEMMA ApplyIsUnit ==
    ASSUME NEW c \in Calls, NEW t \in Readings, Success(Response(c, t)), Apply(c, t)
    PROVE  AnyUnit
<1>1. call[c].guild \in Guilds
  <2>1. call[c].guild # NoGuild
    BY DEF Response, Success
  <2> QED  BY <2>1, CallsAssumption
<1>2. call[c].op \in {"create", "purchase", "bid", "cancel"}
  BY CallsAssumption
<1>3. CASE call[c].op = "create"
  <2>1. PICK i \in ItemIDs : CreateItem(Listing(c), i, t)
    BY <1>3 DEF Apply
  <2>2. call[c].rarity \in STRING /\ call[c].price \in Int /\ call[c].quantity \in Int
    BY CallsAssumption
  <2>3. Listing(c) \in ListingInput
    BY <1>1, <2>2 DEF Listing, ListingInput
  <2> QED  BY <2>1, <2>3 DEF AnyUnit
<1>4. CASE call[c].op = "purchase"
  <2>1. Purchase(call[c].item, call[c].guild, Quantity(c), t)
    BY <1>4 DEF Apply
  <2>2. Quantity(c) \in Int
    BY CallsAssumption DEF Quantity
  <2> QED  BY <2>1, <2>2 DEF AnyUnit
<1>5. CASE call[c].op = "bid"
  <2>1. BidOnItem(call[c].item, call[c].guild, call[c].amount, t)
    BY <1>5 DEF Apply
  <2>2. call[c].amount \in Int
    BY CallsAssumption
  <2> QED  BY <2>1, <2>2 DEF AnyUnit
<1>6. CASE call[c].op = "cancel"
  <2>1. CancelBidOnItem(call[c].item, call[c].bid, call[c].guild)
    BY <1>6 DEF Apply
  <2> QED  BY <2>1 DEF AnyUnit
<1> QED  BY <1>2, <1>3, <1>4, <1>5, <1>6

(* A market step behind the API: a unit of work, or nothing.               *)
LEMMA ApiStepIsUnit ==
    ASSUME [ApiNext]_apiVars
    PROVE  [AnyUnit]_vars
<1>1. ASSUME NEW c \in Calls, Send(c) \/ Lookup(c) \/ StoreEntry(c)
      PROVE  UNCHANGED vars
  BY <1>1 DEF Send, Lookup, StoreEntry
<1>2. ASSUME NEW c \in Calls, Handle(c)
      PROVE  [AnyUnit]_vars
  BY <1>2, ApplyIsUnit DEF Handle
<1>3. ASSUME NEW c \in Calls, Interrupted(c)
      PROVE  [AnyUnit]_vars
  BY <1>3, ApplyIsUnit DEF Interrupted
<1>4. ASSUME Background
      PROVE  AnyUnit
  BY <1>4 DEF Background, RunSettlementWorker, AnyUnit
<1>5. ASSUME UNCHANGED apiVars
      PROVE  UNCHANGED vars
  BY <1>5 DEF apiVars
<1> QED  BY <1>1, <1>2, <1>3, <1>4, <1>5 DEF ApiNext

(* What a step of the market leaves of an auction row: what it is about,   *)
(* every bid in its place, and none that was withdrawn standing again.     *)
LEMMA RowStepKeepsBids ==
    ASSUME IInv, BidsPositive, NEW x \in DOMAIN auctions, RowStep(x)
    PROVE  /\ auctions'[x].item = auctions[x].item
           /\ auctions'[x].bids \in Seq(Bid)
           /\ Len(auctions'[x].bids) >= Len(auctions[x].bids)
           /\ \A b \in 1..Len(auctions[x].bids) :
                /\ auctions'[x].bids[b].amount = auctions[x].bids[b].amount
                /\ auctions'[x].bids[b].active => auctions[x].bids[b].active
           /\ \A b \in 1..Len(auctions'[x].bids) : auctions'[x].bids[b].amount > 0
           /\ auctions[x].bids # <<>> =>
                auctions'[x].bids[Len(auctions'[x].bids)].amount >=
                  auctions[x].bids[Len(auctions[x].bids)].amount
<1> DEFINE a == auctions[x]
           c == auctions'[x]
           n == Len(a.bids)
<1>1. a \in Auction /\ Stands(a.bids) /\ a.bids \in Seq(Bid)
  BY DEF IInv, TypeOK, LeaderStands, Auction
<1>2. /\ n \in Nat /\ DOMAIN a.bids = 1..n /\ (a.bids # <<>> => n \in 1..n)
      /\ \A b \in 1..n : a.bids[b] \in Bid /\ a.bids[b].amount \in Nat
  <2>1. \A b \in 1..n : a.bids[b] \in Bid
    BY <1>1
  <2> QED  BY <1>1, <2>1 DEF Bid
<1>3. \A b \in 1..n : a.bids[b].amount > 0
  BY <1>2 DEF BidsPositive
<1>4. CASE c = a
  BY <1>1, <1>2, <1>3, <1>4
<1>5. CASE BidTaken(x)
  <2>1. PICK guild \in Registered, amount \in Nat, t \in Nat :
          /\ IsPositive(amount)
          /\ CanPlaceBid(a, guild, amount, t)
          /\ c = PlaceBid(a, guild, amount, t)
    BY <1>5 DEF BidTaken
  <2> DEFINE new == [guild |-> guild, amount |-> amount, active |-> TRUE, placedAt |-> t]
  <2>2. new \in Bid /\ new.amount = amount /\ amount > 0
    BY <2>1 DEF Bid, IsPositive
  <2>3. c.bids = Append(a.bids, new) /\ c.item = a.item
    BY <1>1, <2>1, PlaceBidExtends, PlaceBidStands
  <2> HIDE DEF new
  <2>4. /\ c.bids \in Seq(Bid) /\ Len(c.bids) = n + 1
        /\ c.bids[n + 1] = new
        /\ \A b \in 1..n : c.bids[b] = a.bids[b]
    BY <1>1, <2>2, <2>3
  <2>5. ASSUME a.bids # <<>> PROVE amount >= a.bids[n].amount
    <3>1. LeadsAreLast
      BY LeadsRead DEF IInv
    <3>2. HighestBid(a) # 0 /\ Leader(a) = a.bids[n]
      BY <2>5, <3>1 DEF LeadsAreLast, LastBid
    <3>3. amount >= Leader(a).amount + Increment(Leader(a).amount)
      BY <2>1, <3>2 DEF CanPlaceBid, MinNextBid
    <3>4. a.bids[n].amount \in Nat
      BY <1>2, <2>5
    <3>5. Increment(a.bids[n].amount) \in Nat
      BY <3>4, IncrementIsEnough
    <3> QED  BY <3>2, <3>3, <3>4, <3>5
  <2> HIDE DEF a, c, n
  <2> QED  BY <1>2, <1>3, <2>2, <2>3, <2>4, <2>5 DEF a, c, n
<1>6. CASE BidWithdrawn(x)
  <2>1. PICK b, guild : CanCancelBid(a, b, guild) /\ c = CancelBid(a, b)
    BY <1>6 DEF BidWithdrawn
  <2>2. /\ c \in Auction /\ c.item = a.item /\ Len(c.bids) = n
        /\ c.bids[n] = a.bids[n]
    BY <1>1, <2>1, CancelBidStands
  <2>3. c.bids \in Seq(Bid)
    BY <2>2 DEF Auction
  <2>4. c = [a EXCEPT !.bids[b].active = FALSE]
    BY <2>1 DEF CancelBid
  <2>5. c.bids = [a.bids EXCEPT ![b].active = FALSE]
    BY <1>1, <2>4 DEF Auction
  <2>6. \A d \in 1..n : /\ c.bids[d].amount = a.bids[d].amount
                        /\ c.bids[d].active => a.bids[d].active
    <3> SUFFICES ASSUME NEW d \in 1..n
                 PROVE  /\ c.bids[d].amount = a.bids[d].amount
                        /\ c.bids[d].active => a.bids[d].active
      OBVIOUS
    <3>1. a.bids[d] \in Bid /\ d \in DOMAIN a.bids
      BY <1>2
    <3>2. CASE d = b
      <4>1. c.bids[d] = [a.bids[d] EXCEPT !.active = FALSE]
        BY <2>5, <3>1, <3>2
      <4> QED  BY <3>1, <4>1 DEF Bid
    <3>3. CASE d # b
      <4>1. c.bids[d] = a.bids[d]
        BY <2>5, <3>1, <3>3
      <4> QED  BY <4>1
    <3> QED  BY <3>2, <3>3
  <2> HIDE DEF a, c, n
  <2> QED  BY <1>2, <1>3, <2>2, <2>3, <2>6 DEF a, c, n
<1>7. CASE Closed(x)
  <2>1. c.bids = a.bids /\ c.item = a.item
    BY <1>1, <1>7 DEF Closed, Auction
  <2> HIDE DEF a, c, n
  <2> QED  BY <1>1, <1>2, <1>3, <2>1 DEF a, c, n
<1> QED  BY <1>4, <1>5, <1>6, <1>7 DEF RowStep

(* The market's part of the invariant is kept by whatever a handler or the *)
(* settlement worker does to it.                                           *)
LEMMA UnitsKeepMarket ==
    ASSUME IInv, AuctionsMatchItems, BidsPositive, [AnyUnit]_vars
    PROVE  IInv' /\ AuctionsMatchItems' /\ BidsPositive' /\ RowSteps
<1>1. IInv' /\ AuctionsMatchItems' /\ RowSteps
  BY UnitsKeep, UnitsKeepMatch, OnlyRowSteps
<1>2. ASSUME NEW x \in DOMAIN auctions', NEW b \in DOMAIN auctions'[x].bids
      PROVE  auctions'[x].bids[b].amount > 0
  <2>1. CASE x \in DOMAIN auctions
    <3>1. RowStep(x)
      BY <1>1, <2>1 DEF RowSteps
    <3>2. /\ auctions'[x].bids \in Seq(Bid)
          /\ \A d \in 1..Len(auctions'[x].bids) : auctions'[x].bids[d].amount > 0
      BY <2>1, <3>1, RowStepKeepsBids
    <3> QED  BY <1>2, <3>2
  <2>2. CASE x \notin DOMAIN auctions
    <3>1. auctions'[x].bids = <<>>
      BY <1>1, <1>2, <2>2 DEF RowSteps
    <3> QED  BY <1>2, <3>1
  <2> QED  BY <2>1, <2>2
<1> QED  BY <1>1, <1>2 DEF BidsPositive

(* No step of the market takes the trace of a bid or a withdrawal away.    *)
LEMMA TracesStay ==
    ASSUME IInv, BidsPositive, RowSteps, NEW c \in Calls
    PROVE  /\ BidTrace(c) => BidTrace(c)'
           /\ CancelTrace(c) => CancelTrace(c)'
<1>1. ASSUME NEW x \in DOMAIN auctions
      PROVE  /\ x \in DOMAIN auctions'
             /\ RowStep(x)
             /\ auctions[x].bids \in Seq(Bid)
             /\ \A b \in 1..Len(auctions[x].bids) : auctions[x].bids[b] \in Bid
  <2>1. auctions[x].bids \in Seq(Bid)
    BY DEF IInv, TypeOK, Auction
  <2> QED  BY <2>1 DEF RowSteps
<1>2. ASSUME BidTrace(c) PROVE BidTrace(c)'
  <2>1. PICK x \in DOMAIN auctions :
          /\ auctions[x].item = call[c].item
          /\ auctions[x].bids # <<>>
          /\ LastBid(x).amount >= call[c].amount
    BY <1>2 DEF BidTrace
  <2> DEFINE s == auctions[x].bids
             r == auctions'[x].bids
  <2>2. /\ x \in DOMAIN auctions' /\ RowStep(x)
        /\ s \in Seq(Bid) /\ Len(s) \in 1..Len(s) /\ s[Len(s)] \in Bid
    BY <1>1, <2>1
  <2>3. /\ auctions'[x].item = auctions[x].item
        /\ r \in Seq(Bid) /\ Len(r) >= Len(s)
        /\ \A b \in 1..Len(r) : r[b].amount > 0
        /\ r[Len(r)].amount >= s[Len(s)].amount
    BY <2>1, <2>2, RowStepKeepsBids
  <2>4. /\ Len(r) \in Nat /\ Len(s) \in Nat /\ Len(r) \in 1..Len(r)
        /\ r # <<>> /\ r[Len(r)] \in Bid
    BY <2>2, <2>3
  <2>5. /\ s[Len(s)].amount \in Int /\ r[Len(r)].amount \in Int
        /\ call[c].amount \in Int /\ s[Len(s)].amount >= call[c].amount
    <3>1. call[c].amount \in Int
      BY CallsAssumption
    <3>2. s[Len(s)].amount \in Nat /\ r[Len(r)].amount \in Nat
      BY <2>2, <2>4 DEF Bid
    <3> QED  BY <2>1, <3>1, <3>2 DEF LastBid
  <2>6. r[Len(r)].amount >= call[c].amount
    <3> HIDE DEF r, s
    <3> QED  BY <2>3, <2>5
  <2> QED  BY <2>1, <2>2, <2>3, <2>4, <2>6 DEF BidTrace, LastBid
<1>3. ASSUME CancelTrace(c) PROVE CancelTrace(c)'
  <2>1. PICK x \in DOMAIN auctions :
          /\ auctions[x].item = call[c].item
          /\ call[c].bid \in DOMAIN auctions[x].bids
          /\ ~auctions[x].bids[call[c].bid].active
    BY <1>3 DEF CancelTrace
  <2> DEFINE s == auctions[x].bids
             r == auctions'[x].bids
  <2>2. x \in DOMAIN auctions' /\ RowStep(x) /\ s \in Seq(Bid)
    BY <1>1
  <2>3. /\ auctions'[x].item = auctions[x].item
        /\ r \in Seq(Bid) /\ Len(r) >= Len(s)
        /\ \A b \in 1..Len(s) : r[b].active => s[b].active
    BY <2>2, RowStepKeepsBids
  <2>4. /\ Len(r) \in Nat /\ Len(s) \in Nat
        /\ DOMAIN s = 1..Len(s) /\ DOMAIN r = 1..Len(r)
    BY <2>2, <2>3
  <2>5. call[c].bid \in DOMAIN r /\ ~r[call[c].bid].active
    BY <2>1, <2>3, <2>4
  <2> QED  BY <2>1, <2>2, <2>3, <2>5 DEF CancelTrace
<1> QED  BY <1>2, <1>3

(* A bid or a withdrawal that commits finds no trace of itself and leaves  *)
(* one.                                                                    *)
LEMMA BidLeavesTrace ==
    ASSUME IInv, AuctionsMatchItems, NEW c \in Calls, NEW t \in Readings,
           BidOnItem(call[c].item, call[c].guild, call[c].amount, t)
    PROVE  ~BidTrace(c) /\ BidTrace(c)'
<1> DEFINE i == call[c].item
           g == call[c].guild
           m == call[c].amount
<1>1. PICK x \in ActiveAuctions(i) :
        /\ g \in DOMAIN wallets
        /\ CanPlaceBid(auctions[x], g, m, t)
        /\ auctions' = [auctions EXCEPT ![x] = PlaceBid(auctions[x], g, m, t)]
  BY DEF BidOnItem
<1>2. /\ x \in DOMAIN auctions /\ auctions[x].item = i
      /\ auctions[x] \in Auction /\ Stands(auctions[x].bids)
      /\ auctions[x].bids \in Seq(Bid)
      /\ g \in Registered /\ m \in Nat /\ t \in Nat
  BY <1>1, CallsAssumption
     DEF ActiveAuctions, IInv, TypeOK, LeaderStands, Auction, BidOnItem, Readings, IsPositive
<1>3. BidTrace(c)'
  <2> DEFINE b == PlaceBid(auctions[x], g, m, t)
  <2>1. b.item = auctions[x].item /\ b.bids # <<>> /\ b.bids[Len(b.bids)].amount = m
    BY <1>1, <1>2, PlaceBidStands
  <2> HIDE DEF b
  <2>2. x \in DOMAIN auctions' /\ auctions'[x] = b
    BY <1>1, <1>2 DEF b
  <2>3. m >= m
    BY <1>2
  <2> QED  BY <1>2, <2>1, <2>2, <2>3 DEF BidTrace, LastBid
<1>4. ASSUME BidTrace(c) PROVE FALSE
  <2>1. PICK y \in DOMAIN auctions :
          /\ auctions[y].item = i
          /\ auctions[y].bids # <<>>
          /\ LastBid(y).amount >= m
    BY <1>4 DEF BidTrace
  <2>2. y = x
    BY <1>2, <2>1 DEF AuctionsMatchItems
  <2>3. LeadsAreLast
    BY LeadsRead DEF IInv
  <2>4. HighestBid(auctions[x]) # 0 /\ Leader(auctions[x]) = LastBid(x)
    BY <1>2, <2>1, <2>2, <2>3 DEF LeadsAreLast
  <2>5. m >= LastBid(x).amount + Increment(LastBid(x).amount)
    BY <1>1, <2>4 DEF CanPlaceBid, MinNextBid
  <2>6. LastBid(x) \in Bid
    BY <1>2, <2>1, <2>2 DEF LastBid
  <2>7. LastBid(x).amount \in Nat
    BY <2>6 DEF Bid
  <2>8. Increment(LastBid(x).amount) \in Nat /\ Increment(LastBid(x).amount) >= 1
    BY <2>7, IncrementIsEnough
  <2> HIDE DEF m
  <2> QED  BY <1>2, <2>1, <2>2, <2>5, <2>7, <2>8
<1> QED  BY <1>3, <1>4

(* The same for a withdrawal.                                              *)
LEMMA CancelLeavesTrace ==
    ASSUME IInv, AuctionsMatchItems, NEW c \in Calls,
           CancelBidOnItem(call[c].item, call[c].bid, call[c].guild)
    PROVE  ~CancelTrace(c) /\ CancelTrace(c)'
<1> DEFINE i == call[c].item
           b == call[c].bid
<1>1. PICK x \in ActiveAuctions(i) :
        /\ CanCancelBid(auctions[x], b, call[c].guild)
        /\ auctions' = [auctions EXCEPT ![x] = CancelBid(auctions[x], b)]
  BY DEF CancelBidOnItem
<1>2. /\ x \in DOMAIN auctions /\ auctions[x].item = i
      /\ auctions[x] \in Auction /\ auctions[x].bids \in Seq(Bid)
  BY DEF ActiveAuctions, IInv, TypeOK, Auction
<1>3. b \in DOMAIN auctions[x].bids /\ auctions[x].bids[b].active
  BY <1>1 DEF CanCancelBid, ActiveBids
<1>4. CancelTrace(c)'
  <2>1. auctions'[x] = CancelBid(auctions[x], b) /\ x \in DOMAIN auctions'
    BY <1>1, <1>2
  <2>2. auctions'[x] = [auctions[x] EXCEPT !.bids[b].active = FALSE]
    BY <2>1 DEF CancelBid
  <2>3. /\ auctions'[x].bids = [auctions[x].bids EXCEPT ![b].active = FALSE]
        /\ auctions'[x].item = auctions[x].item
    BY <1>2, <2>2 DEF Auction
  <2>4. auctions[x].bids[b] \in Bid
    BY <1>2, <1>3
  <2>5. /\ b \in DOMAIN auctions'[x].bids
        /\ auctions'[x].bids[b] = [auctions[x].bids[b] EXCEPT !.active = FALSE]
    BY <1>3, <2>3
  <2>6. auctions'[x].bids[b].active = FALSE
    BY <2>4, <2>5 DEF Bid
  <2> QED  BY <1>2, <2>1, <2>3, <2>5, <2>6 DEF CancelTrace
<1>5. ASSUME CancelTrace(c) PROVE FALSE
  <2>1. PICK y \in DOMAIN auctions :
          /\ auctions[y].item = i
          /\ ~auctions[y].bids[b].active
    BY <1>5 DEF CancelTrace
  <2>2. y = x
    BY <1>2, <2>1 DEF AuctionsMatchItems
  <2> QED  BY <1>3, <2>1, <2>2
<1> QED  BY <1>4, <1>5

-----------------------------------------------------------------------------
(* Answers.                                                                *)

(* The gold behind a leading bid can always be released: it is part of     *)
(* what its guild has reserved.                                            *)
LEMMA LeadersCanRelease ==
    ASSUME IInv, BidsPositive, NEW x \in DOMAIN auctions,
           auctions[x].status = "active", HighestBid(auctions[x]) # 0
    PROVE  CanRelease(wallets[Leader(auctions[x]).guild], Leader(auctions[x]).amount)
<1> DEFINE g == Leader(auctions[x]).guild
<1>1. LeadsAreLast /\ AuctionRows
  BY LeadsRead DEF IInv, TypeOK, AuctionRows
<1>2. /\ auctions[x].bids # <<>> /\ Leader(auctions[x]) = LastBid(x)
      /\ Leads[x] = LastBid(x).amount /\ x \in LedBy(g)
  BY <1>1 DEF LeadsAreLast
<1>3. auctions[x].bids \in Seq(Bid)
  BY DEF IInv, TypeOK, Auction
<1>4. Len(auctions[x].bids) \in DOMAIN auctions[x].bids /\ LastBid(x) \in Bid
  BY <1>2, <1>3 DEF LastBid
<1>5. Leads[x] > 0 /\ Leads[x] \in Nat /\ g \in Registered
  BY <1>2, <1>4 DEF BidsPositive, LastBid, Bid
<1>6. Leads[x] <= GoldIn(Leads, LedBy(g)) /\ GoldIn(Leads, LedBy(g)) \in Nat
  <2>1. LedBy(g) \in SUBSET DOMAIN auctions /\ {x} \in SUBSET LedBy(g)
    BY <1>2 DEF LedBy
  <2> HIDE DEF g
  <2>2. /\ IsFiniteSet(LedBy(g)) /\ \A y \in LedBy(g) : Leads[y] \in Nat
        /\ GoldIn(Leads, LedBy(g)) \in Nat
    BY <1>1, <2>1, LeadsAddUp DEF IInv
  <2>3. GoldIn(Leads, {x}) <= GoldIn(Leads, LedBy(g))
    BY <2>1, <2>2, GoldInPart
  <2>4. GoldIn(Leads, {x}) = Leads[x]
    BY <1>5, GoldInOne
  <2> QED  BY <2>2, <2>3, <2>4
<1>7. wallets[g].reserved = GoldIn(Leads, LedBy(g))
  BY <1>5 DEF IInv, ReservedBacksLeads
<1> HIDE DEF g
<1> QED  BY <1>2, <1>5, <1>6, <1>7 DEF CanRelease, IsPositive, g

(* The errors that writeError names.                                       *)
NamedErrors ==
    {"ErrItemNotFound", "ErrWalletNotFound", "ErrAuctionNotFound", "ErrBidNotFound",
     "ErrInsufficientFunds", "ErrInsufficientStock", "ErrItemNotAvailable",
     "ErrCannotBuyOwnItem", "ErrLegendaryNotLimit", "ErrAuctionClosed", "ErrBidTooLow",
     "ErrCannotBidOwnItem", "ErrCannotCancelLeader", "ErrDailyCapExceeded",
     "ErrInvalidRarity", "ErrInvalidQuantity", "ErrNonPositiveAmount"}

(* None of them is answered with 500 or with a success.                    *)
LEMMA NamedErrorsAreClientErrors ==
    ASSUME NEW err \in NamedErrors
    PROVE  StatusOf(err) \in {400, 404, 409}
BY DEF NamedErrors, StatusOf

(* The service returns no other error, unless the INSERT of a listing      *)
(* fails.                                                                  *)
LEMMA ServiceErrorsAreNamed ==
    ASSUME IInv, BidsPositive, NEW c \in Calls, NEW t \in Readings, ~Oversize(c)
    PROVE  ServiceError(c, t) \in NamedErrors \cup {"ok"}
<1>1. \A in : Insertable(NewItem(in)) => CreateError(in) \in NamedErrors \cup {"ok"}
  BY DEF CreateError, NamedErrors
<1>2. \A item, buyer, qty : SellToError(item, buyer, qty) \in NamedErrors \cup {"ok"}
  BY DEF SellToError, NamedErrors
<1>3. \A i, buyer, qty : PurchaseError(i, buyer, qty, t) \in NamedErrors \cup {"ok"}
  <2> SUFFICES ASSUME NEW i, NEW buyer, NEW qty
               PROVE  PurchaseError(i, buyer, qty, t) \in NamedErrors \cup {"ok"}
    OBVIOUS
  <2>1. SellToError(items[i], buyer, qty) \in NamedErrors \cup {"ok"}
    BY <1>2
  <2> QED  BY <2>1 DEF PurchaseError, NamedErrors
<1>4. \A a, guild, amount : PlaceBidError(a, guild, amount, t) \in NamedErrors \cup {"ok"}
  BY DEF PlaceBidError, NamedErrors
<1>5. \A i, bidder, amount : BidError(i, bidder, amount, t) \in NamedErrors \cup {"ok"}
  <2> SUFFICES ASSUME NEW i, NEW bidder, NEW amount
               PROVE  BidError(i, bidder, amount, t) \in NamedErrors \cup {"ok"}
    OBVIOUS
  <2> DEFINE x == CHOOSE y \in ActiveAuctions(i) : TRUE
             a == auctions[x]
  <2>1. CASE ActiveAuctions(i) = {}
    BY <2>1 DEF BidError, NamedErrors
  <2>2. CASE ActiveAuctions(i) # {}
    <3>1. x \in ActiveAuctions(i)
      BY <2>2
    <3> HIDE DEF x
    <3>2. x \in DOMAIN auctions /\ a.status = "active"
      BY <3>1 DEF ActiveAuctions
    <3>3. ~(HighestBid(a) # 0 /\ ~CanRelease(wallets[Leader(a).guild], Leader(a).amount))
      BY <3>2, LeadersCanRelease
    <3>4. PlaceBidError(a, bidder, amount, t) \in NamedErrors \cup {"ok"}
      BY <1>4
    <3> HIDE DEF a
    <3>5. BidError(i, bidder, amount, t) \in
            {"ErrNonPositiveAmount", "ErrWalletNotFound", "ErrDailyCapExceeded",
             "ErrInsufficientFunds", "ok", PlaceBidError(a, bidder, amount, t)}
      BY <2>2, <3>3, Zenon DEF BidError, a, x
    <3> QED  BY <3>4, <3>5 DEF NamedErrors
  <2> QED  BY <2>1, <2>2
<1>6. \A i, b, guild : CancelError(i, b, guild) \in NamedErrors \cup {"ok"}
  BY DEF CancelError, NamedErrors
<1>7. call[c].op \in {"create", "purchase", "bid", "cancel"}
  BY CallsAssumption
<1> QED  BY <1>1, <1>3, <1>5, <1>6, <1>7 DEF ServiceError, Oversize

(* So a handler that runs to its end never answers 500 to the others.      *)
LEMMA HandlersNeverFail ==
    ASSUME IInv, BidsPositive, NEW c \in Calls, NEW t \in Readings, ~Oversize(c)
    PROVE  Response(c, t) # 500
<1>1. ServiceError(c, t) \in NamedErrors \cup {"ok"}
  BY ServiceErrorsAreNamed
<1>2. ServiceError(c, t) # "ok" => StatusOf(ServiceError(c, t)) \in {400, 404, 409}
  BY <1>1, NamedErrorsAreClientErrors
<1> QED  BY <1>2 DEF Response

-----------------------------------------------------------------------------
(* The invariant is inductive.                                             *)

(* Calls of the same content ask for the same.                             *)
LEMMA SameContentSameFields ==
    ASSUME NEW c \in Calls, NEW d \in Calls, SameContent(c, d)
    PROVE  /\ call[c].op = call[d].op
           /\ call[c].item = call[d].item
           /\ call[c].bid = call[d].bid
           /\ call[c].amount = call[d].amount
<1> DEFINE f == [call[c] EXCEPT !.key = NoKey]
           h == [call[d] EXCEPT !.key = NoKey]
<1>1. f = h
  BY DEF SameContent
<1>2. {"op", "item", "bid", "amount"} \subseteq DOMAIN call[c] \cap DOMAIN call[d]
  BY CallsAssumption
<1>3. /\ f.op = call[c].op /\ f.item = call[c].item
      /\ f.bid = call[c].bid /\ f.amount = call[c].amount
  BY <1>2
<1>4. /\ h.op = call[d].op /\ h.item = call[d].item
      /\ h.bid = call[d].bid /\ h.amount = call[d].amount
  BY <1>2
<1> HIDE DEF f, h
<1> QED  BY <1>1, <1>3, <1>4

(* A call that commits leaves its trace, and no other call of its content  *)
(* has committed if it is a bid or a withdrawal.                           *)
LEMMA CommitsKeepTraces ==
    ASSUME IInv, AuctionsMatchItems, BidsPositive, CallRows, AppliedLeaveTraces,
           BidsApplyOnce, RowSteps,
           NEW c \in Calls, NEW t \in Readings, Apply(c, t), applied' = applied \cup {c}
    PROVE  AppliedLeaveTraces' /\ BidsApplyOnce'
<1>1. call[c].op = "bid" => ~BidTrace(c) /\ BidTrace(c)'
  <2>1. ASSUME call[c].op = "bid"
        PROVE  BidOnItem(call[c].item, call[c].guild, call[c].amount, t)
    BY <2>1 DEF Apply
  <2> QED  BY <2>1, BidLeavesTrace
<1>2. call[c].op = "cancel" => ~CancelTrace(c) /\ CancelTrace(c)'
  <2>1. ASSUME call[c].op = "cancel"
        PROVE  CancelBidOnItem(call[c].item, call[c].bid, call[c].guild)
    BY <2>1 DEF Apply
  <2> QED  BY <2>1, CancelLeavesTrace
<1>3. \A d \in applied : d \in Calls
  BY DEF CallRows
<1>4. ASSUME NEW d \in applied'
      PROVE  /\ call[d].op = "bid" => BidTrace(d)'
             /\ call[d].op = "cancel" => CancelTrace(d)'
  <2>1. CASE d = c
    BY <1>1, <1>2, <2>1
  <2>2. CASE d \in applied
    <3>1. d \in Calls
      BY <1>3, <2>2
    <3>2. /\ call[d].op = "bid" => BidTrace(d)
          /\ call[d].op = "cancel" => CancelTrace(d)
      BY <2>2 DEF AppliedLeaveTraces
    <3> QED  BY <3>1, <3>2, TracesStay
  <2> QED  BY <2>1, <2>2
<1>5. ASSUME NEW d \in applied, SameContent(c, d) \/ SameContent(d, c),
             call[c].op \in {"bid", "cancel"} \/ call[d].op \in {"bid", "cancel"}
      PROVE  FALSE
  <2>1. d \in Calls
    BY <1>3
  <2>2. /\ call[c].op = call[d].op /\ call[c].item = call[d].item
        /\ call[c].bid = call[d].bid /\ call[c].amount = call[d].amount
    BY <1>5, <2>1, SameContentSameFields
  <2>3. CASE call[c].op = "bid"
    <3>1. BidTrace(d)
      BY <2>2, <2>3 DEF AppliedLeaveTraces
    <3>2. BidTrace(c)
      BY <2>2, <3>1 DEF BidTrace
    <3> QED  BY <1>1, <2>3, <3>2
  <2>4. CASE call[c].op = "cancel"
    <3>1. CancelTrace(d)
      BY <2>2, <2>4 DEF AppliedLeaveTraces
    <3>2. CancelTrace(c)
      BY <2>2, <3>1 DEF CancelTrace
    <3> QED  BY <1>2, <2>4, <3>2
  <2> QED  BY <1>5, <2>2, <2>3, <2>4
<1>6. AppliedLeaveTraces'
  BY <1>4 DEF AppliedLeaveTraces
<1>7. ASSUME NEW d \in applied', NEW e \in applied', d # e, SameContent(d, e)
      PROVE  call[d].op \notin {"bid", "cancel"}
  <2>1. CASE d \in applied /\ e \in applied
    BY <1>7, <2>1 DEF BidsApplyOnce
  <2>2. CASE d = c /\ e \in applied
    BY <1>5, <1>7, <2>2
  <2>3. CASE d \in applied /\ e = c
    BY <1>5, <1>7, <2>3
  <2> QED  BY <1>7, <2>1, <2>2, <2>3
<1>8. BidsApplyOnce'
  BY <1>7 DEF BidsApplyOnce, SameContent
<1> QED  BY <1>6, <1>8

(* Where no call commits, traces stay.                                     *)
LEMMA OthersKeepTraces ==
    ASSUME IInv, BidsPositive, CallRows, AppliedLeaveTraces, BidsApplyOnce, RowSteps,
           applied' = applied
    PROVE  AppliedLeaveTraces' /\ BidsApplyOnce'
<1>1. ASSUME NEW d \in applied
      PROVE  /\ call[d].op = "bid" => BidTrace(d)'
             /\ call[d].op = "cancel" => CancelTrace(d)'
  <2>1. d \in Calls
    BY DEF CallRows
  <2> QED  BY <2>1, TracesStay DEF AppliedLeaveTraces
<1>2. AppliedLeaveTraces'
  BY <1>1 DEF AppliedLeaveTraces
<1>3. BidsApplyOnce'
  BY DEF BidsApplyOnce, SameContent
<1> QED  BY <1>2, <1>3

(* What depends on the content of the calls alone.                         *)
LEMMA ContentIsFixed ==
    /\ \A c : Scope(c)' = Scope(c) /\ Oversize(c)' = Oversize(c)
    /\ Keyed' = Keyed /\ KeyedScopes' = KeyedScopes
    /\ \A k : Duplicates[k]' = Duplicates[k]
<1>1. \A c : Scope(c)' = Scope(c)
  BY DEF Scope, Method, Path
<1>2. \A c : Oversize(c)' = Oversize(c)
  BY DEF Oversize, Insertable, NewItem, Listing, AuctionOnly
<1>3. Keyed' = Keyed
  BY DEF Keyed
<1>4. KeyedScopes' = KeyedScopes
  BY <1>1, <1>3 DEF KeyedScopes
<1>5. \A k : Duplicates[k]' = Duplicates[k]
  BY <1>1, <1>3, <1>4 DEF Duplicates
<1> QED  BY <1>1, <1>2, <1>3, <1>4, <1>5

(* What is known of the calls and of the cache.                            *)
Middleware == CallRows /\ EntriesAreSuccesses /\ SourcesInScope /\ NoInternalError

(* Every step of a call keeps what the middleware knows.                   *)
LEMMA CallsKeepMiddleware ==
    ASSUME HInv, [ApiNext]_apiVars
    PROVE  Middleware'
<1> USE DEF HInv
<1>0. /\ CallRows /\ EntriesAreSuccesses /\ SourcesInScope /\ NoInternalError
      /\ Keyed \subseteq Calls
  BY DEF Keyed
<1>1. ASSUME NEW c \in Calls, Send(c)
      PROVE  Middleware'
  <2>1. /\ phase[c] = "unsent" /\ phase' = [phase EXCEPT ![c] = "arrived"]
        /\ UNCHANGED <<entries, status, source, applied, cut>>
    BY <1>1 DEF Send
  <2>2. CallRows'
    BY <1>0, <2>1, ContentIsFixed DEF CallRows
  <2>3. EntriesAreSuccesses'
    BY <1>0, <2>1, ContentIsFixed DEF EntriesAreSuccesses, CallRows
  <2>4. SourcesInScope'
    BY <1>0, <2>1, ContentIsFixed DEF SourcesInScope, CallRows
  <2>5. NoInternalError'
    BY <1>0, <2>1, ContentIsFixed DEF NoInternalError
  <2> QED  BY <2>2, <2>3, <2>4, <2>5 DEF Middleware
<1>2. ASSUME NEW c \in Calls, Lookup(c)
      PROVE  Middleware'
  <2>1. phase[c] = "arrived" /\ UNCHANGED <<entries, applied, cut>>
    BY <1>2 DEF Lookup
  <2>2. CASE /\ Scope(c) \in DOMAIN entries
             /\ status' = [status EXCEPT ![c] = status[entries[Scope(c)]]]
             /\ source' = [source EXCEPT ![c] = entries[Scope(c)]]
             /\ phase' = [phase EXCEPT ![c] = "done"]
    <3> DEFINE e == entries[Scope(c)]
    <3>1. e \in Calls /\ e \in Keyed /\ Scope(e) = Scope(c) /\ Success(status[e])
      BY <1>0, <2>2 DEF EntriesAreSuccesses, Keyed
    <3> HIDE DEF e
    <3>2. /\ status' = [status EXCEPT ![c] = status[e]]
          /\ source' = [source EXCEPT ![c] = e]
          /\ phase' = [phase EXCEPT ![c] = "done"]
      BY <2>2 DEF e
    <3>3. CallRows'
      BY <1>0, <2>1, <3>2, ContentIsFixed DEF CallRows
    <3>4. \A d \in Calls : /\ phase'[d] = IF d = c THEN "done" ELSE phase[d]
                           /\ status'[d] = IF d = c THEN status[e] ELSE status[d]
                           /\ source'[d] = IF d = c THEN e ELSE source[d]
      BY <1>0, <3>2, ContentIsFixed DEF CallRows
    <3>5. EntriesAreSuccesses'
      BY <1>0, <2>1, <3>1, <3>4, ContentIsFixed DEF EntriesAreSuccesses
    <3>6. SourcesInScope'
      BY <1>0, <3>1, <3>4, ContentIsFixed DEF SourcesInScope
    <3>7. NoInternalError'
      BY <1>0, <2>1, <3>1, <3>4, ContentIsFixed DEF NoInternalError, Success
    <3> QED  BY <3>3, <3>5, <3>6, <3>7 DEF Middleware
  <2>3. CASE phase' = [phase EXCEPT ![c] = "running"] /\ UNCHANGED <<status, source>>
    <3>1. CallRows'
      BY <1>0, <2>1, <2>3, ContentIsFixed DEF CallRows
    <3>2. EntriesAreSuccesses'
      BY <1>0, <2>1, <2>3, ContentIsFixed DEF EntriesAreSuccesses, CallRows
    <3>3. SourcesInScope'
      BY <1>0, <2>1, <2>3, ContentIsFixed DEF SourcesInScope, CallRows
    <3>4. NoInternalError'
      BY <1>0, <2>1, <2>3, ContentIsFixed DEF NoInternalError
    <3> QED  BY <3>1, <3>2, <3>3, <3>4 DEF Middleware
  <2> QED  BY <1>2, <2>2, <2>3 DEF Lookup
<1>3. ASSUME NEW c \in Calls, NEW code, NEW p \in {"succeeded", "done"},
             phase[c] = "running",
             status' = [status EXCEPT ![c] = code],
             phase' = [phase EXCEPT ![c] = p],
             p = "succeeded" => Success(code) /\ c \in Keyed,
             code = 500 => c \in cut' \/ Oversize(c),
             applied' \subseteq applied \cup {c}, cut \subseteq cut',
             UNCHANGED <<entries, source>>
      PROVE  Middleware'
  <2>1. CallRows'
    BY <1>0, <1>3, ContentIsFixed DEF CallRows
  <2>2. \A d \in Calls : /\ phase'[d] = IF d = c THEN p ELSE phase[d]
                         /\ status'[d] = IF d = c THEN code ELSE status[d]
    BY <1>0, <1>3, ContentIsFixed DEF CallRows
  <2>3. EntriesAreSuccesses'
    BY <1>0, <1>3, <2>2, ContentIsFixed DEF EntriesAreSuccesses
  <2>4. SourcesInScope'
    BY <1>0, <1>3, <2>2, ContentIsFixed DEF SourcesInScope
  <2>5. NoInternalError'
    BY <1>0, <1>3, <2>2, ContentIsFixed DEF NoInternalError
  <2> QED  BY <2>1, <2>3, <2>4, <2>5 DEF Middleware
<1>4. ASSUME NEW c \in Calls, Handle(c)
      PROVE  Middleware'
  <2>1. PICK t \in Readings :
          /\ status' = [status EXCEPT ![c] = Response(c, t)]
          /\ \/ /\ Success(Response(c, t))
                /\ Apply(c, t)
                /\ applied' = applied \cup {c}
                /\ phase' = [phase EXCEPT ![c] =
                               IF call[c].key = NoKey THEN "done" ELSE "succeeded"]
             \/ /\ ~Success(Response(c, t))
                /\ phase' = [phase EXCEPT ![c] = "done"]
                /\ UNCHANGED <<vars, applied>>
    BY <1>4 DEF Handle
  <2>2. phase[c] = "running" /\ UNCHANGED <<entries, source, cut>>
    BY <1>4 DEF Handle
  <2>3. Response(c, t) = 500 => Oversize(c)
    BY HandlersNeverFail
  <2>4. PICK p \in {"succeeded", "done"} :
          /\ phase' = [phase EXCEPT ![c] = p]
          /\ p = "succeeded" => Success(Response(c, t)) /\ c \in Keyed
    BY <2>1 DEF Keyed
  <2>5. applied' \subseteq applied \cup {c}
    BY <2>1
  <2> QED  BY <1>3, <2>1, <2>2, <2>3, <2>4, <2>5
<1>5. ASSUME NEW c \in Calls, Interrupted(c)
      PROVE  Middleware'
  <2>1. /\ phase[c] = "running" /\ UNCHANGED <<entries, source>>
        /\ phase' = [phase EXCEPT ![c] = "done"]
        /\ status' = [status EXCEPT ![c] = 500]
        /\ cut' = cut \cup {c}
        /\ applied' \subseteq applied \cup {c}
    BY <1>5 DEF Interrupted
  <2> QED  BY <1>3, <2>1
<1>6. ASSUME NEW c \in Calls, StoreEntry(c)
      PROVE  Middleware'
  <2>1. /\ phase[c] = "succeeded" /\ phase' = [phase EXCEPT ![c] = "done"]
        /\ entries' = Put(entries, Scope(c), c)
        /\ UNCHANGED <<status, source, applied, cut>>
    BY <1>6 DEF StoreEntry
  <2>2. /\ DOMAIN entries' = DOMAIN entries \cup {Scope(c)}
        /\ \A k \in DOMAIN entries' : entries'[k] = IF k = Scope(c) THEN c ELSE entries[k]
    BY <2>1 DEF Put
  <2>3. CallRows'
    BY <1>0, <2>1, ContentIsFixed DEF CallRows
  <2>4. \A d \in Calls : phase'[d] = IF d = c THEN "done" ELSE phase[d]
    BY <1>0, <2>1, ContentIsFixed DEF CallRows
  <2>5. EntriesAreSuccesses'
    <3>1. ASSUME NEW k \in DOMAIN entries'
          PROVE  /\ entries'[k] \in Keyed /\ Scope(entries'[k]) = k
                 /\ phase'[entries'[k]] = "done" /\ Success(status'[entries'[k]])
      <4>1. CASE k = Scope(c)
        <5>1. c \in Keyed
          BY <1>0, <2>1 DEF CallRows
        <5> QED  BY <1>0, <2>1, <2>2, <2>4, <4>1, <5>1 DEF EntriesAreSuccesses
      <4>2. CASE k # Scope(c)
        BY <1>0, <2>1, <2>2, <2>4, <4>2 DEF EntriesAreSuccesses
      <4> QED  BY <4>1, <4>2
    <3>2. \A d \in Calls : phase'[d] = "succeeded" => Success(status'[d])
      BY <1>0, <2>1, <2>4 DEF EntriesAreSuccesses
    <3> QED  BY <3>1, <3>2, ContentIsFixed DEF EntriesAreSuccesses
  <2>6. SourcesInScope'
    BY <1>0, <2>1, <2>4, ContentIsFixed DEF SourcesInScope
  <2>7. NoInternalError'
    BY <1>0, <2>1, ContentIsFixed DEF NoInternalError
  <2> QED  BY <2>3, <2>5, <2>6, <2>7 DEF Middleware
<1>7. ASSUME UNCHANGED httpVars
      PROVE  Middleware'
  BY <1>0, <1>7, ContentIsFixed
     DEF httpVars, Middleware, CallRows, EntriesAreSuccesses, SourcesInScope, NoInternalError
<1> QED  BY <1>1, <1>2, <1>4, <1>5, <1>6, <1>7 DEF ApiNext, Background, apiVars

(* Every step keeps the invariant.                                         *)
LEMMA ApiKeeps ==
    ASSUME HInv, [ApiNext]_apiVars
    PROVE  HInv'
<1>1. [AnyUnit]_vars
  BY ApiStepIsUnit
<1>2. IInv' /\ AuctionsMatchItems' /\ BidsPositive' /\ RowSteps
  BY <1>1, UnitsKeepMarket DEF HInv
<1>3. Middleware'
  BY CallsKeepMiddleware
<1>4. AppliedLeaveTraces' /\ BidsApplyOnce'
  <2>1. ASSUME NEW c \in Calls, NEW t \in Readings, Apply(c, t), applied' = applied \cup {c}
        PROVE  AppliedLeaveTraces' /\ BidsApplyOnce'
    BY <1>2, <2>1, CommitsKeepTraces DEF HInv
  <2>2. ASSUME applied' = applied
        PROVE  AppliedLeaveTraces' /\ BidsApplyOnce'
    BY <1>2, <2>2, OthersKeepTraces DEF HInv
  <2>3. ASSUME NEW c \in Calls, Handle(c)
        PROVE  AppliedLeaveTraces' /\ BidsApplyOnce'
    BY <2>1, <2>2, <2>3 DEF Handle
  <2>4. ASSUME NEW c \in Calls, Interrupted(c)
        PROVE  AppliedLeaveTraces' /\ BidsApplyOnce'
    BY <2>1, <2>2, <2>4 DEF Interrupted
  <2>5. ASSUME NEW c \in Calls, Send(c) \/ Lookup(c) \/ StoreEntry(c)
        PROVE  applied' = applied
    BY <2>5 DEF Send, Lookup, StoreEntry
  <2>6. ASSUME Background \/ UNCHANGED apiVars
        PROVE  applied' = applied
    BY <2>6 DEF Background, apiVars, httpVars
  <2> QED  BY <2>2, <2>3, <2>4, <2>5, <2>6 DEF ApiNext
<1> QED  BY <1>2, <1>3, <1>4 DEF HInv, Middleware

(* The invariant of the API, whatever the clients send.                    *)
THEOREM ApiInvariant == ApiSpec => []HInv
<1>1. ApiInit => HInv
  <2> SUFFICES ASSUME ApiInit PROVE HInv
    OBVIOUS
  <2>1. IInv
    BY InitKeeps DEF ApiInit
  <2>2. AuctionsMatchItems /\ BidsPositive
    BY DEF ApiInit, Init, AuctionsMatchItems, BidsPositive
  <2>3. CallRows /\ EntriesAreSuccesses /\ SourcesInScope /\ NoInternalError
    BY DEF ApiInit, CallRows, Keyed, EntriesAreSuccesses, SourcesInScope, NoInternalError
  <2>4. AppliedLeaveTraces /\ BidsApplyOnce
    BY DEF ApiInit, AppliedLeaveTraces, BidsApplyOnce
  <2> QED  BY <2>1, <2>2, <2>3, <2>4 DEF HInv
<1>2. HInv /\ [ApiNext]_apiVars => HInv'
  BY ApiKeeps
<1> QED  BY <1>1, <1>2, PTL DEF ApiSpec

(* Only calls that were cut off and listings that no row can hold are      *)
(* answered 500: writeError names every other error the service can        *)
(* return but one, and that one needs a reservation that is gone.          *)
THEOREM NoRuleIsInternalError == ApiSpec => []NoInternalError
<1>1. HInv => NoInternalError
  BY DEF HInv
<1> QED  BY <1>1, ApiInvariant, PTL

(* A bid or a withdrawal takes effect at most once however often it is     *)
(* sent, with or without a key, whatever became of the other tries.        *)
THEOREM BidsTakeEffectOnce == ApiSpec => []BidsApplyOnce
<1>1. HInv => BidsApplyOnce
  BY DEF HInv
<1> QED  BY <1>1, ApiInvariant, PTL

-----------------------------------------------------------------------------
(* What a scope tells apart.                                               *)

(* Two joined strings that are equal have equal fronts if the fronts have  *)
(* equally many pieces, and then equal rests.                              *)
LEMMA EqualFronts ==
    ASSUME NEW S, NEW s \in Seq(S), NEW t \in Seq(S), NEW u \in Seq(S), NEW v \in Seq(S),
           Len(s) = Len(t), s \o u = t \o v
    PROVE  s = t /\ u = v
<1>1. PICK w \in Seq(S) : w = s \o u /\ w = t \o v
  BY ConcatProperties
<1>2. /\ Len(w) = Len(s) + Len(u)
      /\ \A i \in 1..(Len(s) + Len(u)) : w[i] = IF i <= Len(s) THEN s[i] ELSE u[i - Len(s)]
  <2>1. /\ Len(s \o u) = Len(s) + Len(u)
        /\ \A i \in 1..(Len(s) + Len(u)) :
             (s \o u)[i] = IF i <= Len(s) THEN s[i] ELSE u[i - Len(s)]
    BY ConcatProperties
  <2> QED  BY <1>1, <2>1
<1>3. /\ Len(w) = Len(t) + Len(v)
      /\ \A i \in 1..(Len(t) + Len(v)) : w[i] = IF i <= Len(t) THEN t[i] ELSE v[i - Len(t)]
  <2>1. /\ Len(t \o v) = Len(t) + Len(v)
        /\ \A i \in 1..(Len(t) + Len(v)) :
             (t \o v)[i] = IF i <= Len(t) THEN t[i] ELSE v[i - Len(t)]
    BY ConcatProperties
  <2> QED  BY <1>1, <2>1
<1>4. Len(s) \in Nat /\ Len(u) \in Nat /\ Len(v) \in Nat /\ Len(u) = Len(v)
  BY <1>2, <1>3
<1>5. ASSUME NEW i \in 1..Len(s) PROVE s[i] = t[i]
  BY <1>2, <1>3, <1>4
<1>6. ASSUME NEW i \in 1..Len(u) PROVE u[i] = v[i]
  <2>1. PICK n \in 1..(Len(s) + Len(u)) : n = i + Len(s) /\ ~(n <= Len(s)) /\ n - Len(s) = i
    BY <1>4
  <2> QED  BY <1>2, <1>3, <1>4, <2>1
<1> QED  BY <1>4, <1>5, <1>6, SeqEqual

(* A sequence of some values is one of any larger set of them.             *)
LEMMA WiderSeq ==
    ASSUME NEW A, NEW B, A \subseteq B, NEW s \in Seq(A)
    PROVE  s \in Seq(B)
OBVIOUS

(* A bar-free string as a sequence.                                        *)
LEMMA OnePiece ==
    ASSUME NEW S, NEW x \in S
    PROVE  <<x>> \in Seq(S) /\ Len(<<x>>) = 1
OBVIOUS

(* Four strings, of which the second is bar-free, joined to the same as    *)
(* four others, with as many pieces in the first and in the third.         *)
JoinAlike(g, m, p, k, h, n, q, j) ==
    /\ {g, p, k, h, q, j} \subseteq Seq(STRING)
    /\ Len(g) = Len(h) /\ Len(p) = Len(q)
    /\ g \o <<m>> \o p \o k = h \o <<n>> \o q \o j

(* They are the same four.                                                 *)
LEMMA JoinedStringsAreTold ==
    ASSUME NEW g, NEW m, NEW p, NEW k, NEW h, NEW n, NEW q, NEW j,
           JoinAlike(g, m, p, k, h, n, q, j)
    PROVE  g = h /\ m = n /\ p = q /\ k = j
<1> DEFINE S == STRING \cup {m, n}
<1>1. STRING \subseteq S /\ m \in S /\ n \in S
  OBVIOUS
<1> HIDE DEF S
<1>2. /\ g \in Seq(S) /\ p \in Seq(S) /\ k \in Seq(S)
      /\ h \in Seq(S) /\ q \in Seq(S) /\ j \in Seq(S)
  BY <1>1, WiderSeq DEF JoinAlike
<1>3. PICK x \in Seq(S), y \in Seq(S) : x = <<m>> /\ y = <<n>> /\ Len(x) = 1 /\ Len(y) = 1
  <2>1. /\ <<m>> \in Seq(S) /\ Len(<<m>>) = 1
        /\ <<n>> \in Seq(S) /\ Len(<<n>>) = 1
    BY <1>1, OnePiece
  <2> QED  BY <2>1, Zenon
<1>4. PICK a \in Seq(S), b \in Seq(S) : a = g \o x /\ b = h \o y /\ Len(a) = Len(b)
  <2>1. /\ g \o x \in Seq(S) /\ Len(g \o x) = Len(g) + Len(x)
        /\ h \o y \in Seq(S) /\ Len(h \o y) = Len(h) + Len(y)
    BY <1>2, ConcatProperties
  <2> QED  BY <1>3, <2>1 DEF JoinAlike
<1>5. PICK c \in Seq(S), d \in Seq(S) : c = a \o p /\ d = b \o q /\ Len(c) = Len(d)
  <2>1. /\ a \o p \in Seq(S) /\ Len(a \o p) = Len(a) + Len(p)
        /\ b \o q \in Seq(S) /\ Len(b \o q) = Len(b) + Len(q)
    BY <1>2, ConcatProperties
  <2> QED  BY <1>4, <2>1 DEF JoinAlike
<1>6. c = d /\ k = j
  <2>1. /\ c \in Seq(S) /\ d \in Seq(S) /\ k \in Seq(S) /\ j \in Seq(S)
        /\ Len(c) = Len(d) /\ c \o k = d \o j
    BY <1>2, <1>3, <1>4, <1>5, Zenon DEF JoinAlike
  <2> QED  BY ONLY <2>1, EqualFronts, Zenon
<1>7. a = b /\ p = q
  <2>1. /\ a \in Seq(S) /\ b \in Seq(S) /\ p \in Seq(S) /\ q \in Seq(S)
        /\ Len(a) = Len(b) /\ a \o p = b \o q
    BY <1>2, <1>4, <1>5, <1>6, Zenon
  <2> QED  BY ONLY <2>1, EqualFronts, Zenon
<1>8. g = h /\ x = y
  <2>1. /\ g \in Seq(S) /\ h \in Seq(S) /\ x \in Seq(S) /\ y \in Seq(S)
        /\ Len(g) = Len(h) /\ g \o x = h \o y
    BY <1>2, <1>3, <1>4, <1>7, Zenon DEF JoinAlike
  <2> QED  BY ONLY <2>1, EqualFronts, Zenon
<1>9. <<m>> = <<n>>
  BY <1>3, <1>8, Zenon
<1> QED  BY <1>6, <1>7, <1>8, <1>9

(* Two calls with keys, neither with a bar in its guild ID or path, have   *)
(* one scope only if all that it is made of is the same.                   *)
LEMMA ScopesTellApart ==
    ASSUME NEW c \in Keyed, NEW d \in Keyed, Unbarred(c), Unbarred(d), Scope(c) = Scope(d)
    PROVE  /\ call[c].guild = call[d].guild /\ Method(c) = Method(d)
           /\ Path(c) = Path(d) /\ call[c].key = call[d].key
<1>1. ASSUME NEW e \in Keyed, Unbarred(e)
      PROVE  /\ {call[e].guild, Path(e), call[e].key} \subseteq DOMAIN Parts
             /\ Parts[call[e].guild] \in Seq(STRING) /\ Len(Parts[call[e].guild]) = 1
             /\ Parts[Path(e)] \in Seq(STRING) /\ Len(Parts[Path(e)]) = 1
             /\ Parts[call[e].key] \in Seq(STRING)
  BY <1>1, PartsAssumption DEF Unbarred
<1>2. PICK g \in Seq(STRING), p \in Seq(STRING), k \in Seq(STRING) :
        /\ g = Parts[call[c].guild] /\ Len(g) = 1 /\ p = Parts[Path(c)] /\ Len(p) = 1
        /\ k = Parts[call[c].key]
  BY <1>1, Zenon
<1>3. PICK h \in Seq(STRING), q \in Seq(STRING), j \in Seq(STRING) :
        /\ h = Parts[call[d].guild] /\ Len(h) = 1 /\ q = Parts[Path(d)] /\ Len(q) = 1
        /\ j = Parts[call[d].key]
  BY <1>1, Zenon
<1>4. PICK m, n : m = Method(c) /\ n = Method(d)
  BY Zenon
<1>5. JoinAlike(g, m, p, k, h, n, q, j)
  BY <1>2, <1>3, <1>4, Zenon DEF Scope, JoinAlike
<1>6. g = h /\ m = n /\ p = q /\ k = j
  BY <1>5, JoinedStringsAreTold, Zenon
<1>7. \A s, r \in DOMAIN Parts : Parts[s] = Parts[r] => s = r
  BY PartsAssumption
<1>8. /\ call[c].guild \in DOMAIN Parts /\ Path(c) \in DOMAIN Parts /\ call[c].key \in DOMAIN Parts
      /\ call[d].guild \in DOMAIN Parts /\ Path(d) \in DOMAIN Parts /\ call[d].key \in DOMAIN Parts
  BY <1>1
<1> QED  BY <1>2, <1>3, <1>4, <1>6, <1>7, <1>8, Zenon

(* "Keys are scoped per acting guild + method + path so they cannot        *)
(* collide" (idempotency.go:49): true of guild IDs and paths without a     *)
(* bar, whatever the keys are.                                             *)
THEOREM ResponsesAreOwn == ApiSpec => []OwnResponses
<1>1. HInv => OwnResponses
  <2> SUFFICES ASSUME HInv, NEW c \in Keyed, Unbarred(c), Unbarred(source[c])
               PROVE  /\ call[c].guild = call[source[c]].guild
                      /\ Method(c) = Method(source[c]) /\ Path(c) = Path(source[c])
                      /\ call[c].key = call[source[c]].key
    BY DEF OwnResponses
  <2>1. c \in Calls
    BY DEF Keyed
  <2>2. source[c] \in Keyed /\ Scope(c) = Scope(source[c])
    BY <2>1 DEF HInv, SourcesInScope
  <2> QED  BY <2>2, ScopesTellApart
<1> QED  BY <1>1, ApiInvariant, PTL

-----------------------------------------------------------------------------
(* Calls under a key.                                                      *)

(* The state of Idempotency that the calls of scope k are in.              *)
EntryOf(k) == IF k \in DOMAIN entries THEN {entries[k]} ELSE {}

PhasesOf(k) == [c \in Duplicates[k] |-> phase[c]]

AnswerOf(c) == IF phase[c] # "done" THEN "none"
               ELSE IF Success(status[c]) THEN source[c] ELSE "error"

AnswersOf(k) == [c \in Duplicates[k] |-> AnswerOf(c)]

(* The duplicates of a scope are the calls of that scope, all with a key.  *)
LEMMA DuplicatesAre ==
    ASSUME NEW k \in KeyedScopes
    PROVE  /\ Duplicates[k] = {c \in Keyed : Scope(c) = k}
           /\ \A c \in Duplicates[k] : c \in Calls /\ call[c].key # NoKey
BY DEF Duplicates, Keyed

(* A step that leaves the calls and the entry of a scope alone.            *)
LEMMA OtherScopes ==
    ASSUME NEW k \in KeyedScopes,
           \A c \in Duplicates[k] : /\ phase'[c] = phase[c] /\ status'[c] = status[c]
                                    /\ source'[c] = source[c]
                                    /\ c \in applied' <=> c \in applied
                                    /\ c \in informed' <=> c \in informed,
           EntryOf(k)' = EntryOf(k)
    PROVE  UNCHANGED OfScope(k)!vars
<1> DEFINE D == Duplicates[k]
<1>1. \A c \in D : AnswerOf(c)' = AnswerOf(c)
  BY DEF AnswerOf
<1>2. D' = D
  BY ContentIsFixed
<1>3. PhasesOf(k)' = PhasesOf(k)
  BY <1>2 DEF PhasesOf
<1>4. AnswersOf(k)' = AnswersOf(k)
  BY <1>1, <1>2 DEF AnswersOf
<1>5. applied' \cap D = applied \cap D /\ informed' \cap D = informed \cap D
  OBVIOUS
<1> QED  BY <1>2, <1>3, <1>4, <1>5 DEF OfScope!vars, EntryOf, PhasesOf, AnswersOf, AnswerOf

(* A step that moves call c to phase p, and no other call.                 *)
OnlyMoves(c, p) ==
    /\ phase' = [phase EXCEPT ![c] = p]
    /\ \A d \in Calls : d # c => status'[d] = status[d] /\ source'[d] = source[d]

(* Such a step as the scope of the call sees it.                           *)
LEMMA OneCallMoves ==
    ASSUME NEW k \in KeyedScopes, NEW c \in Duplicates[k], NEW p, CallRows,
           OnlyMoves(c, p)
    PROVE  /\ PhasesOf(k)' = [PhasesOf(k) EXCEPT ![c] = p]
           /\ AnswersOf(k)' = [AnswersOf(k) EXCEPT ![c] = AnswerOf(c)']
           /\ phase'[c] = p
<1> DEFINE D == Duplicates[k]
<1>1. D' = D /\ D \subseteq Calls
  BY DuplicatesAre, ContentIsFixed
<1>2. /\ phase'[c] = p
      /\ \A d \in D : d # c => phase'[d] = phase[d]
  BY <1>1 DEF CallRows, OnlyMoves
<1>3. \A d \in D : d # c => AnswerOf(d)' = AnswerOf(d)
  BY <1>1, <1>2 DEF AnswerOf, OnlyMoves
<1>4. PhasesOf(k)' = [d \in D |-> phase'[d]] /\ AnswersOf(k)' = [d \in D |-> AnswerOf(d)']
  BY <1>1 DEF PhasesOf, AnswersOf
<1> HIDE DEF D
<1>5. [d \in D |-> phase'[d]] = [[d \in D |-> phase[d]] EXCEPT ![c] = p]
  BY <1>2
<1>6. [d \in D |-> AnswerOf(d)'] = [[d \in D |-> AnswerOf(d)] EXCEPT ![c] = AnswerOf(c)']
  BY <1>3
<1> QED  BY <1>2, <1>4, <1>5, <1>6 DEF PhasesOf, AnswersOf, D

(* Some client holds a success answer of the scope exactly if Idempotency  *)
(* says so.                                                                *)
LEMMA SuccessGivenAlike ==
    ASSUME NEW k \in KeyedScopes, SourcesInScope
    PROVE  SuccessGiven(k) <=> \E c \in Duplicates[k] : AnswersOf(k)[c] \in Duplicates[k]
<1>1. /\ Duplicates[k] = {c \in Keyed : Scope(c) = k} /\ Duplicates[k] \subseteq Calls
      /\ "none" \notin Calls /\ "error" \notin Calls
  BY DuplicatesAre, CallsAssumption
<1>2. \A c \in Duplicates[k] :
        AnswersOf(k)[c] \in Duplicates[k] <=> phase[c] = "done" /\ Success(status[c])
  <2> SUFFICES ASSUME NEW c \in Duplicates[k]
               PROVE  AnswerOf(c) \in Duplicates[k] <=> phase[c] = "done" /\ Success(status[c])
    BY DEF AnswersOf
  <2>1. source[c] \in Duplicates[k]
    BY <1>1 DEF SourcesInScope
  <2> QED  BY <1>1, <2>1 DEF AnswerOf
<1> QED  BY <1>1, <1>2 DEF SuccessGiven

(* Every step of a call under a key is a step of Idempotency on its scope. *)
LEMMA KeyedSteps ==
    ASSUME HInv, NEW k \in KeyedScopes, NEW c \in Duplicates[k],
           Send(c) \/ Lookup(c) \/ Handle(c) \/ Interrupted(c) \/ StoreEntry(c)
    PROVE  OfScope(k)!Next
<1> DEFINE D == Duplicates[k]
<1>1. /\ c \in Calls /\ Scope(c) = k /\ call[c].key # NoKey
      /\ CallRows /\ EntriesAreSuccesses /\ SourcesInScope
  BY DuplicatesAre DEF HInv
<1>2. PhasesOf(k)[c] = phase[c] /\ AnswersOf(k)[c] = AnswerOf(c)
  BY DEF PhasesOf, AnswersOf
<1>3. D' = D
  BY ContentIsFixed
<1>4. ASSUME AnswerOf(c)' = AnswerOf(c),
             AnswersOf(k)' = [AnswersOf(k) EXCEPT ![c] = AnswerOf(c)']
      PROVE  AnswersOf(k)' = AnswersOf(k)
  BY <1>2, <1>4 DEF AnswersOf
<1>5. ASSUME Send(c) PROVE OfScope(k)!Send(c)
  <2>1. /\ phase[c] = "unsent" /\ phase' = [phase EXCEPT ![c] = "arrived"]
        /\ informed' = IF SuccessGiven(k) THEN informed \cup {c} ELSE informed
        /\ UNCHANGED <<entries, status, source, applied>>
    BY <1>1, <1>5 DEF Send
  <2>2. /\ PhasesOf(k)' = [PhasesOf(k) EXCEPT ![c] = "arrived"]
        /\ AnswersOf(k)' = [AnswersOf(k) EXCEPT ![c] = AnswerOf(c)']
        /\ phase'[c] = "arrived"
    <3>1. OnlyMoves(c, "arrived")
      BY <2>1 DEF OnlyMoves
    <3> QED  BY <1>1, <3>1, OneCallMoves
  <2>3. AnswersOf(k)' = AnswersOf(k)
    BY <1>4, <2>1, <2>2 DEF AnswerOf
  <2>4. informed' \cap D = IF \E r \in D : AnswersOf(k)[r] \in D
                           THEN (informed \cap D) \cup {c} ELSE informed \cap D
    BY <1>1, <2>1, SuccessGivenAlike
  <2>5. EntryOf(k)' = EntryOf(k) /\ applied' \cap D = applied \cap D
    BY <2>1 DEF EntryOf
  <2> QED  BY <1>2, <1>3, <2>1, <2>2, <2>3, <2>4, <2>5
           DEF OfScope!Send, OfScope!SuccessGiven, PhasesOf, AnswersOf, AnswerOf, EntryOf
<1>6. ASSUME Lookup(c) PROVE OfScope(k)!Lookup(c)
  <2>1. phase[c] = "arrived" /\ UNCHANGED <<entries, applied, informed>>
    BY <1>6 DEF Lookup
  <2>2. /\ EntryOf(k)' = EntryOf(k) /\ applied' \cap D = applied \cap D
        /\ informed' \cap D = informed \cap D
    BY <2>1 DEF EntryOf
  <2>3. CASE /\ k \in DOMAIN entries
             /\ status' = [status EXCEPT ![c] = status[entries[k]]]
             /\ source' = [source EXCEPT ![c] = entries[k]]
             /\ phase' = [phase EXCEPT ![c] = "done"]
    <3>1. EntryOf(k) = {entries[k]} /\ Success(status[entries[k]])
      BY <1>1, <2>3 DEF EntryOf, EntriesAreSuccesses
    <3>2. /\ status'[c] = status[entries[k]] /\ source'[c] = entries[k]
          /\ \A d \in Calls : d # c => status'[d] = status[d] /\ source'[d] = source[d]
      BY <1>1, <2>3 DEF CallRows
    <3>3. /\ PhasesOf(k)' = [PhasesOf(k) EXCEPT ![c] = "done"]
          /\ AnswersOf(k)' = [AnswersOf(k) EXCEPT ![c] = AnswerOf(c)']
          /\ phase'[c] = "done"
      <4>1. OnlyMoves(c, "done")
        BY <2>3, <3>2 DEF OnlyMoves
      <4> QED  BY <1>1, <4>1, OneCallMoves
    <3>4. AnswerOf(c)' = entries[k]
      BY <3>1, <3>2, <3>3 DEF AnswerOf
    <3>5. /\ EntryOf(k) # {}
          /\ \E q \in EntryOf(k) : AnswersOf(k)' = [AnswersOf(k) EXCEPT ![c] = q]
      BY <3>1, <3>3, <3>4
    <3> QED  BY <1>2, <1>3, <2>1, <2>2, <3>3, <3>5
             DEF OfScope!Lookup, PhasesOf, AnswersOf, AnswerOf, EntryOf
  <2>4. CASE /\ k \notin DOMAIN entries
             /\ phase' = [phase EXCEPT ![c] = "running"]
             /\ UNCHANGED <<status, source>>
    <3>1. EntryOf(k) = {}
      BY <2>4 DEF EntryOf
    <3>2. /\ PhasesOf(k)' = [PhasesOf(k) EXCEPT ![c] = "running"]
          /\ AnswersOf(k)' = [AnswersOf(k) EXCEPT ![c] = AnswerOf(c)']
          /\ phase'[c] = "running"
      <4>1. OnlyMoves(c, "running")
        BY <2>4 DEF OnlyMoves
      <4> QED  BY <1>1, <4>1, OneCallMoves
    <3>3. AnswersOf(k)' = AnswersOf(k)
      BY <1>4, <2>1, <3>2 DEF AnswerOf
    <3> QED  BY <1>2, <1>3, <2>1, <2>2, <3>1, <3>2, <3>3
             DEF OfScope!Lookup, PhasesOf, AnswersOf, AnswerOf, EntryOf
  <2> QED  BY <1>1, <1>6, <2>3, <2>4 DEF Lookup
<1>7. ASSUME NEW code, phase[c] = "running",
             status' = [status EXCEPT ![c] = code], ~Success(code),
             phase' = [phase EXCEPT ![c] = "done"],
             applied' = applied \/ applied' = applied \cup {c},
             UNCHANGED <<entries, source, informed>>
      PROVE  OfScope(k)!HandleError(c)
  <2>1. /\ status'[c] = code
        /\ \A d \in Calls : d # c => status'[d] = status[d] /\ source'[d] = source[d]
    BY <1>1, <1>7 DEF CallRows
  <2>2. /\ PhasesOf(k)' = [PhasesOf(k) EXCEPT ![c] = "done"]
        /\ AnswersOf(k)' = [AnswersOf(k) EXCEPT ![c] = AnswerOf(c)']
        /\ phase'[c] = "done"
    <3>1. OnlyMoves(c, "done")
      BY <1>7, <2>1 DEF OnlyMoves
    <3> QED  BY <1>1, <3>1, OneCallMoves
  <2>3. AnswerOf(c)' = "error"
    BY <1>7, <2>1, <2>2 DEF AnswerOf
  <2>4. AnswersOf(k)' = [AnswersOf(k) EXCEPT ![c] = "error"]
    BY <2>2, <2>3
  <2>5. /\ EntryOf(k)' = EntryOf(k) /\ informed' \cap D = informed \cap D
        /\ \/ applied' \cap D = applied \cap D
           \/ applied' \cap D = (applied \cap D) \cup {c}
    BY <1>7 DEF EntryOf
  <2> QED  BY <1>2, <1>3, <1>7, <2>2, <2>4, <2>5
           DEF OfScope!HandleError, PhasesOf, AnswersOf, AnswerOf, EntryOf
<1>8. ASSUME Handle(c) PROVE OfScope(k)!HandleApplied(c) \/ OfScope(k)!HandleError(c)
  <2>1. PICK t \in Readings :
          /\ status' = [status EXCEPT ![c] = Response(c, t)]
          /\ \/ /\ Success(Response(c, t))
                /\ applied' = applied \cup {c}
                /\ phase' = [phase EXCEPT ![c] = "succeeded"]
             \/ /\ ~Success(Response(c, t))
                /\ phase' = [phase EXCEPT ![c] = "done"]
                /\ UNCHANGED applied
    BY <1>1, <1>8 DEF Handle
  <2>2. phase[c] = "running" /\ UNCHANGED <<entries, source, informed>>
    BY <1>8 DEF Handle
  <2>3. CASE applied' = applied \cup {c} /\ phase' = [phase EXCEPT ![c] = "succeeded"]
    <3>1. \A d \in Calls : d # c => status'[d] = status[d] /\ source'[d] = source[d]
      BY <1>1, <2>1, <2>2 DEF CallRows
    <3>2. /\ PhasesOf(k)' = [PhasesOf(k) EXCEPT ![c] = "succeeded"]
          /\ AnswersOf(k)' = [AnswersOf(k) EXCEPT ![c] = AnswerOf(c)']
          /\ phase'[c] = "succeeded"
      <4>1. OnlyMoves(c, "succeeded")
        BY <2>3, <3>1 DEF OnlyMoves
      <4> QED  BY <1>1, <4>1, OneCallMoves
    <3>3. AnswersOf(k)' = AnswersOf(k)
      BY <1>4, <2>2, <3>2 DEF AnswerOf
    <3>4. /\ EntryOf(k)' = EntryOf(k) /\ informed' \cap D = informed \cap D
          /\ applied' \cap D = (applied \cap D) \cup {c}
      BY <2>2, <2>3 DEF EntryOf
    <3>5. OfScope(k)!HandleApplied(c)
      BY <1>2, <1>3, <2>2, <3>2, <3>3, <3>4
         DEF OfScope!HandleApplied, PhasesOf, AnswersOf, AnswerOf, EntryOf
    <3> QED  BY <3>5
  <2> QED  BY <1>7, <2>1, <2>2, <2>3
<1>9. ASSUME Interrupted(c) PROVE OfScope(k)!HandleError(c)
  <2>1. /\ phase[c] = "running" /\ UNCHANGED <<entries, source, informed>>
        /\ phase' = [phase EXCEPT ![c] = "done"]
        /\ status' = [status EXCEPT ![c] = 500]
        /\ applied' = applied \/ applied' = applied \cup {c}
    BY <1>9 DEF Interrupted
  <2>2. ~Success(500)
    BY DEF Success
  <2> QED  BY <1>7, <2>1, <2>2
<1>10. ASSUME StoreEntry(c) PROVE OfScope(k)!StoreEntry(c)
  <2>1. /\ phase[c] = "succeeded" /\ phase' = [phase EXCEPT ![c] = "done"]
        /\ entries' = Put(entries, k, c)
        /\ UNCHANGED <<status, source, applied, informed>>
    BY <1>1, <1>10 DEF StoreEntry
  <2>2. EntryOf(k)' = {c}
    <3>1. k \in DOMAIN entries' /\ entries'[k] = c
      BY <2>1 DEF Put
    <3> QED  BY <3>1 DEF EntryOf
  <2>3. /\ PhasesOf(k)' = [PhasesOf(k) EXCEPT ![c] = "done"]
        /\ AnswersOf(k)' = [AnswersOf(k) EXCEPT ![c] = AnswerOf(c)']
        /\ phase'[c] = "done"
    <3>1. OnlyMoves(c, "done")
      BY <2>1 DEF OnlyMoves
    <3> QED  BY <1>1, <3>1, OneCallMoves
  <2>4. AnswerOf(c)' = c
    <3>1. Success(status[c]) /\ source[c] = c
      BY <1>1, <2>1 DEF EntriesAreSuccesses, SourcesInScope
    <3> QED  BY <2>1, <2>3, <3>1 DEF AnswerOf
  <2>5. AnswersOf(k)' = [AnswersOf(k) EXCEPT ![c] = c]
    BY <2>3, <2>4
  <2>6. applied' \cap D = applied \cap D /\ informed' \cap D = informed \cap D
    BY <2>1
  <2> QED  BY <1>2, <1>3, <2>1, <2>2, <2>3, <2>5, <2>6
           DEF OfScope!StoreEntry, PhasesOf, AnswersOf, AnswerOf, EntryOf
<1> QED  BY <1>5, <1>6, <1>8, <1>9, <1>10 DEF OfScope!Next

(* A step of a call of another scope, or of one without a key.             *)
LEMMA OtherSteps ==
    ASSUME CallRows, NEW k \in KeyedScopes, NEW c \in Calls, c \notin Duplicates[k],
           Send(c) \/ Lookup(c) \/ Handle(c) \/ Interrupted(c) \/ StoreEntry(c)
    PROVE  UNCHANGED OfScope(k)!vars
<1>1. Duplicates[k] \subseteq Calls /\ (c \in Keyed => Scope(c) # k)
  BY DuplicatesAre
<1>2. \A d \in Calls : d # c => /\ phase'[d] = phase[d] /\ status'[d] = status[d]
                                /\ source'[d] = source[d]
                                /\ d \in applied' <=> d \in applied
                                /\ d \in informed' <=> d \in informed
  <2>1. CASE Send(c)
    BY <2>1 DEF Send, CallRows
  <2>2. CASE Lookup(c)
    BY <2>2 DEF Lookup, CallRows
  <2>3. CASE Handle(c)
    <3>1. \E code, p : phase' = [phase EXCEPT ![c] = p] /\ status' = [status EXCEPT ![c] = code]
      BY <2>3, Zenon DEF Handle
    <3>2. /\ UNCHANGED <<source, informed>>
          /\ applied' = applied \/ applied' = applied \cup {c}
      BY <2>3 DEF Handle
    <3> QED  BY <3>1, <3>2 DEF CallRows
  <2>4. CASE Interrupted(c)
    <3>1. /\ phase' = [phase EXCEPT ![c] = "done"] /\ status' = [status EXCEPT ![c] = 500]
          /\ UNCHANGED <<source, informed>>
          /\ applied' = applied \/ applied' = applied \cup {c}
      BY <2>4 DEF Interrupted
    <3> QED  BY <3>1 DEF CallRows
  <2>5. CASE StoreEntry(c)
    BY <2>5 DEF StoreEntry, CallRows
  <2> QED  BY <2>1, <2>2, <2>3, <2>4, <2>5
<1>3. EntryOf(k)' = EntryOf(k)
  <2>1. CASE UNCHANGED entries
    BY <2>1 DEF EntryOf
  <2>2. CASE c \in Keyed /\ entries' = Put(entries, Scope(c), c)
    <3>1. /\ DOMAIN entries' = DOMAIN entries \cup {Scope(c)}
          /\ \A j \in DOMAIN entries : j # Scope(c) => entries'[j] = entries[j]
      BY <2>2 DEF Put
    <3> QED  BY <1>1, <2>2, <3>1 DEF EntryOf
  <2>3. UNCHANGED entries \/ (c \in Keyed /\ entries' = Put(entries, Scope(c), c))
    BY DEF Send, Lookup, Handle, Interrupted, StoreEntry, CallRows
  <2> QED  BY <2>1, <2>2, <2>3
<1>4. \A d \in Duplicates[k] : /\ phase'[d] = phase[d] /\ status'[d] = status[d]
                               /\ source'[d] = source[d]
                               /\ d \in applied' <=> d \in applied
                               /\ d \in informed' <=> d \in informed
  BY <1>1, <1>2
<1> QED  BY <1>3, <1>4, OtherScopes

(* Under real handlers and a real market the calls of every scope behave   *)
(* as Idempotency says, whatever the calls of other scopes are doing.      *)
THEOREM KeysAreIdempotent == ApiSpec => IdempotencyImplemented
<1> DEFINE Starts == \A k \in KeyedScopes : OfScope(k)!Init
           Steps == \A k \in KeyedScopes : UNCHANGED OfScope(k)!vars \/ OfScope(k)!Next
<1>1. ApiInit => Starts
  <2> SUFFICES ASSUME ApiInit, NEW k \in KeyedScopes
               PROVE  OfScope(k)!Init
    OBVIOUS
  <2>1. EntryOf(k) = {} /\ applied \cap Duplicates[k] = {} /\ informed \cap Duplicates[k] = {}
    BY DEF ApiInit, EntryOf
  <2>2. \A c \in Duplicates[k] : phase[c] = "unsent" /\ AnswerOf(c) = "none"
    BY DuplicatesAre DEF ApiInit, AnswerOf
  <2>3. /\ PhasesOf(k) = [c \in Duplicates[k] |-> "unsent"]
        /\ AnswersOf(k) = [c \in Duplicates[k] |-> "none"]
    BY <2>2 DEF PhasesOf, AnswersOf
  <2> QED  BY <2>1, <2>3 DEF OfScope!Init, EntryOf, PhasesOf, AnswersOf, AnswerOf
<1>2. HInv /\ [ApiNext]_apiVars => [Steps]_httpVars
  <2> SUFFICES ASSUME HInv, [ApiNext]_apiVars
               PROVE  [Steps]_httpVars
    OBVIOUS
  <2>1. ASSUME NEW c \in Calls,
               Send(c) \/ Lookup(c) \/ Handle(c) \/ Interrupted(c) \/ StoreEntry(c)
        PROVE  Steps
    <3> SUFFICES ASSUME NEW k \in KeyedScopes
                 PROVE  UNCHANGED OfScope(k)!vars \/ OfScope(k)!Next
      OBVIOUS
    <3>1. CASE c \in Duplicates[k]
      <4>1. OfScope(k)!Next
        BY <2>1, <3>1, KeyedSteps
      <4> QED  BY <4>1
    <3>2. CASE c \notin Duplicates[k]
      <4>1. UNCHANGED OfScope(k)!vars
        BY <2>1, <3>2, OtherSteps DEF HInv
      <4> QED  BY <4>1
    <3> QED  BY <3>1, <3>2
  <2>2. ASSUME Background \/ UNCHANGED apiVars
        PROVE  UNCHANGED httpVars
    BY <2>2 DEF Background, apiVars
  <2> HIDE DEF Steps
  <2> QED  BY <2>1, <2>2 DEF ApiNext
<1> QED  BY <1>1, <1>2, ApiInvariant, PTL DEF ApiSpec, IdempotencyImplemented

=============================================================================
