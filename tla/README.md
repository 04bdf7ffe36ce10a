# Dragon Market in TLA+

A verification project for the guild market in `src/`: guilds list items, buy
them at a fixed price or bid for them in auctions, and a worker settles the
auctions that have ended. The modules model the domain rules, the service's
units of work, their execution over Postgres row locks, the HTTP layer with its
idempotency cache, the server's start-up and restarts, and the advisory price
oracle; TLC checks them on small instances, and TLAPS proves the safety properties
and the refinements between the modules for every value of the constants.

## The system

| part | state | operations | talks to |
|---|---|---|---|
| domain rules (`internal/domain`) | `Wallet`, `Item`, `Auction` with its bids | `Reserve`, `Release`, `Settle`, `Debit`, `Credit`, `SellTo`, `PlaceBid`, `CancelBid`, `Settle` | called by the service on copies of rows |
| market service (`internal/service/market.go`, `auction.go`) | none of its own apart from the price cache | `CreateItem`, `Purchase`, `BidOnItem`, `CancelBidOnItem`, `SettleDueAuctions`, and queries | runs each operation as one `WithinTx` unit |
| settlement worker (`internal/service/worker.go`) | a 5s ticker | calls `SettleDueAuctions`, logs an error and goes on | service |
| in-memory store (`memstore`) | items, wallets, auctions, ledger | `WithinTx` under one mutex, staged writes, commit or discard | service |
| Postgres store (`postgres`) | the same as tables | `WithinTx` as a READ COMMITTED transaction with `SELECT ... FOR UPDATE` | service |
| idempotency middleware (`httpapi/idempotency.go`) | one response per guild, method, path and key | lookup, run the handler, store a 2xx response | wraps every mutating route |
| HTTP handlers (`httpapi`) | none | decode, one service call, the status of its error; a 15s deadline | service |
| price oracle (`pricing.go`, `oracle/mock.go`) | last good price per item | `OraclePrice` with a 500ms bound and a fallback | display only |
| start-up (`cmd/server`) | none | connect with retries, `SeedGuild` upserts, starter items | store, service |
| clock, ID generator, web console | none | readings, fresh IDs, a static page | |

What makes it correct, and what is hard to test about it:

* **Money.** A bid reserves gold instead of paying it; the reservation moves,
  or is freed, on every outbid, self-raise and settlement, in wallets that the
  same unit may read and write several times. A missed or doubled release shows
  only much later, when a settlement fails. Reservations must be exactly the
  leading bids, and gold must be conserved.
* **Auctions.** Withdrawals, the 5% rule and the anti-snipe extension together
  decide who pays. The bid that `HighestBid` finds must be the one that holds
  the reservation.
* **Settlement.** All due auctions settle in one unit, which one failing auction
  rolls back; ticks repeat; clock readings are older than commits.
* **The daily cap** is checked against realized spend when a bid is placed, and
  is stale when the bid wins.
* **Duplicates.** The idempotency cache is unlocked while the handler runs, and
  a commit can go through although its caller is told that it failed.
* **Postgres.** Lock waits re-check conditions, wallets are locked in request
  order, a deadlock fails one of the units, a deadline may end a unit between
  any two statements.
* **Restarts.** Start-up resets totals while auctions are open, seeds in several
  steps any of which may be the last, and is the only one to settle what fell
  due meanwhile.
* **Prices.** Pages share a cache and read a slow, faulty oracle at the same time.

`PROJECT.json` lists these hazards line by line, with the properties that cover
them.

## Modules

| module | models | role |
|---|---|---|
| `Gold` | `money.go` | int64 wrap-around; `GoldIn`, the sum of a function over a set, as the number of coins in it |
| `Domain` | `internal/domain` | each validating method as a condition (`CanReserve`, `CanPlaceBid`, ...) and a result (`Reserve`, `PlaceBid`, ...) |
| `Market` | `internal/service` over an atomic store | the state machine |
| `MarketProperties` | | what the market promises |
| `Escrow`, `MarketEscrow` | | the abstract specification and the refinement mapping to it |
| `PostgresUnits` | `internal/service` over `postgres/store.go` | the units of work statement by statement; refines `Market` |
| `Server` | `cmd/server/main.go` | start, seeding, serving, stop, restart; composes `Market` |
| `Idempotency` | `httpapi/idempotency.go` | one keyed request and its duplicates |
| `HttpApi` | `internal/adapters/httpapi` | the mutating routes; composes `Market` and refines `Idempotency` for every scope |
| `OraclePrice` | `pricing.go`, `oracle/mock.go`, `withOraclePrice` | pages that ask for prices |
| `MarketProofs`, `LedgerProofs`, `EscrowProofs` | | theorems about `Market`, each module resting on the ones before it |
| `PostgresProofs` | | theorems about `PostgresUnits`, resting on the market's theorems |
| `ServerProofs`, `HttpProofs` | | theorems about `Server` and `HttpApi`, resting on the market's lemmas |
| `IdempotencyProofs`, `OracleProofs` | | theorems about `Idempotency` and `OraclePrice` |
| `MCMarket`, `MCPostgres`, `MCServer`, `MCIdempotency`, `MCHttp`, `MCOracle` | | instances for TLC |

`PostgresUnits`, `Server` and `HttpApi` extend `Market` and use its tables and
its rules. `PostgresUnits` shows that the store is as atomic as `Market` takes it
to be; `Server` and `HttpApi` therefore use `Market`'s units as single steps.

### Market

The variables are the store's tables: `items`, `wallets` and `auctions` are
maps from IDs, an auction carries its bids in the order they were placed (a
bid's position is its ID). The ledger is append-only and is only ever summed,
by guild, type, item and day, so it is kept as those sums (`ledger`). `now` is
the wall clock; `Day` is `startOfUTCDay`.

An action is a whole unit of work that commits. The guard collects the early
returns of the service and of the domain methods it calls; a rejected request
and a rolled-back unit change nothing, which is a stuttering step. The mutex of
the in-memory store makes the unit atomic. Staged writes are read back within
the unit, which is why `BidWallets` reserves on the wallet that `Released` left
and why `SettledWallets` adds up all the auctions of a batch. `settleOne` only
subtracts from reservations and only adds proceeds to totals, so the effect of a
batch does not depend on the (random) order of Go's map iteration.

`CreateItem` does not look its seller up. `Guilds` may therefore be larger than
`Registered`, the guilds with a wallet, and `SettleDueAuctions` has a second
disjunct: if one due auction cannot be settled, nothing is.

A unit reads the clock before it commits: `CreateItem` before the unit starts,
the others inside it. `Readings` gives every action any reading of the last
`MaxLag` time units. This allows more than the in-memory store does (where
readings are in commit order) and what two units on different Postgres rows can
do.

Integers: balances, bids and sums of them are bounded by the treasuries and stay
plain integers. `price * quantity` is bounded by nothing the code checks, and
`Cost` takes it modulo `GoldModulus`. The domain accepts any positive quantity,
but the `INSERT` of a listing fails for one beyond the 32-bit column
(`schema.sql:16`): `Insertable` is part of the guard of `CreateItem`, with
`MaxQuantity` for what the column holds.

### Escrow

`Escrow` has no reservations: gold is in a purse or lies on a lot. A bid puts
gold down and hands the previous leader's back; closing a lot hands what lies on
it to the seller. `MarketEscrow` maps a purse to `Available(wallet)` and the
gold on a lot to the leading bid. That `Market` implements it says that the
bookkeeping of reserve, release and settle can never be told apart from handing
the gold over.

### PostgresUnits

A session (a request, or the worker) holds a unit: `pc` is its next statement,
`rows` the rows it has locked with its own versions of them, `t` its clock
reading. `Program` lists the statements of each operation in the order the
service makes them; `Wants` says which rows a locking read selects. A locking
read is a step that is possible when nobody else holds the row; it copies the
committed version. The service's computations on those copies (`Sell`, `Place`,
`ReserveBid`, `Cancel`, `SettleOne`) use `Domain`, and end in `Commit`, which
installs the copies and the ledger entries, or in `Rollback`.

READ COMMITTED enters in two places. `GetActiveAuctionByItem` evaluates
`status='active'` on the version it finds when the lock is granted, so `Wants` is
evaluated then. `DueAuctions` takes its snapshot in `BeginSettlement` and
re-checks `ends_at` and `status` row by row (`StillDue`); a row that is no longer
due is left out, and its lock stays until the unit ends. A second `FOR UPDATE` of
a row the unit already holds, as in `GetAuctionForUpdate` after
`GetActiveAuctionByItem`, is no step. The order in which due rows come back is
left open, as the query leaves it. Bids are read back in the order of `placed_at`
where the in-memory store keeps insertion order; they are the same because the
auction is locked before the clock is read, and equal readings do no harm since
the lead is decided by amount.

`CreateItem` writes rows that nobody else can see or lock before it commits and
stays one step, with the clock reading of its commit. (With a reading that lags,
an auction could be born due, if a listing took longer than `AuctionWindow` to
commit.) A unit may be cut off between any two statements (`Interrupt`), which
the worker may not, and a cycle of waiting units is broken by failing one of them
(`BreakDeadlock`, external: Postgres's detector).

The extension is stored in whole seconds; `AuctionExtension`, which `Market`
uses, is `StoredExtension` here, and `ConfiguredExtension` is what was asked for, in
units of which `Second` make a second.

### Server

`phase` follows `main` and `seed`: down, seeding guilds, seeding items, up.
Guilds are seeded one upsert at a time, and starters one `CreateItem` at a time if
`ListItems` found none; each of these may fail, is logged and passed over
(`SeedingMayFail`). `Stop` can happen anywhere and is a crash or a signal: units
are atomic, so an open one has no effect. Time passes while the server is down.

### HttpApi

`Calls` is a fixed set of requests with their content; a retry is another call
with the same content. A call with a key goes through the lookup, the handler and
the store of `Idempotency`, in a cache with many keys; one without goes straight
to the handler. The scope of a key is guild ID, method, path and key joined with
bars, of which only the method cannot contain a bar itself. A string is given by the
pieces between its bars (`Parts`), and joining is appending the pieces, so that, as in
the code, different calls can have one scope. The handler's answer is computed by
`Response`: the header check, the body check, then the service's error, which
`PurchaseError`, `BidError` and the others find by the code's checks in the code's
order (a refused `INSERT` comes last), and `StatusOf`, which is `writeError`. A handler can be interrupted: it answers 500, and its unit was
rolled back or, if the deadline hit during `tx.Commit`, committed.

### OraclePrice

A page asks for its items one after the other. `BasePrice` reads the price and
`StoreGood` or `FallBack` uses it, as steps of their own, because the lock of the
oracle and that of the cache are separate. A price is the number of the refresh
that set it. The mock draws from its rng under a read lock only: the outcome of
that race is any draw, which `BasePrice` allows already, or a panic that ends the
page (`Panic`).

### Idempotency

One key; `Requests` are the request and its duplicates. A request arrives, looks
the entry up under the mutex, runs the handler outside it, and stores its
response under it again. A handler error is not cached; the unit behind it was
rolled back, or its commit went through and the acknowledgement was lost to the
request's deadline. A restart loses the entries and the requests in flight.
`informed` is a history variable: the requests that were sent after some client
held a success answer from the running process.

## Runs

Three guilds with wallets (`g1`, `g2` sell, all bid and buy) and, where it
matters, `g4` without one. Symmetry is over item and auction IDs, client sessions
and calls with the same content, which no definition tells apart; it is not used
in the runs that check liveness.

| run | checks | shows |
|---|---|---|
| `trade` | `TypeOK`, `Solvent`, `GoldConserved`, `LedgerReplaysTotal`, `PurchasesWithinCap`, `StockPaidFor`, `LeaderStands`, `AnswerTime`, `LeadOnlyRises` | purchases of a rare item and bids on a Legendary compete for the same gold, over midnight, with a capped guild; bids start at 40, where 5% is 2 and rounding matters; withdrawals, self-raises, extensions to the end of time |
| `settlement` | `ReservedBacksLeads`, `ItemAuctionAgree`, `WinnerPaysOnce`, `SettledIsFinal`, `EscrowImplemented` | two auctions among three, with sellers who bid on each other and a seller without a wallet; batches of one and two; roll-backs; all of it as steps of `Escrow` |
| `idempotency` | `RetryAfterAnswer`, `AnswersAreTrue` | four duplicates and a restart |
| `postgres` | `MarketImplemented`, `DeadlocksSpareAuctions`, `ConfiguredAnswerTime` | two client sessions and the worker, with bids that unseat each other, a withdrawal, a purchase, a wallet query: whatever the interleaving, what is committed is a behaviour of `Market`; deadlocks are among units that wait for wallets or items, never for auctions; of the extension, one and a half seconds, the table keeps the whole second and the waiting takes nothing |
| `postgres_live` | `UnitsEnd`, `DueSettled` | a purchase that locks wallets against the order of the settlement: deadlocks happen, every unit ends, and the auction is settled |
| `restart` | `ReservationsSurvive`, `StartersOnce`, `DueSettledAfterRestart` | two starts with stops anywhere and failing seed statements, and auctions that fall due while the server is down |
| `oracle` | `KnownPriceShown`, `PagesEnd` | three pages over two items, a slow and faulty oracle |
| `http` | `NoInternalError`, `BidsApplyOnce`, `OwnResponses`, `IdempotencyImplemented` | a bid sent twice under a key that another guild uses too, a withdrawal, a listing, and a listing too large for its column by a guild whose ID makes its scope that of the bid, cut off anywhere and racing settlement |

Four runs show where the code and its documentation disagree (the quotes are in
`PROJECT.json`, under findings):

| run | property | what happens |
|---|---|---|
| `stranger_blocks` | `DueSettled` | one due auction whose seller has no wallet keeps every due auction open |
| `cost_wraps` | `StockPaidFor` | with a modulus of 16, three units of price 6 are sold for 2 |
| `duplicate_applied` | `AppliedOnce` | two concurrent requests with one key are both applied |
| `restart_solvent` | `RowsSolvent` | a restart resets a total below what is reserved |

Other behaviour that the models reproduce, and that a reader of the code's
comments may not expect, has no run of its own:

* "you can replay the ledger and arrive at the same total/reserved" (`ledger.go:6`)
  holds of the total and not of what is reserved: a guild that raises its own bid
  posts no release (`auction.go:88`), and the replay then gives more than is
  reserved, for good. `ReplayOverstatesReserved` says how much more, and is proved
  (`LedgerOverstatesReserved`);
* "Keys are scoped per acting guild + method + path so they cannot collide"
  (`idempotency.go:49`) does not hold of a guild ID with a bar in it: in `http` the
  oversize listing of `g4` can be answered with the response to a bid of `g2`, and
  the other way round it cannot, since that listing never succeeds. `OwnResponses`
  is what does hold;
* a listing of more than 2^31 - 1 units is answered 500 (`schema.sql:16`), where the
  domain has nothing against it; it is the exception in `NoInternalError`;
* a guild that leads an auction can buy up to its daily cap and then win, which
  passes the cap with a single win (`docs/adr/0002`, D12);
* the extension loses what exceeds a whole number of seconds, and one of less than a
  second is stored as none (`store.go:215`); `ConfiguredAnswerTime` bounds the loss;
* a Legendary that nobody bid on returns to `available` and can never be sold
  (`auction.go:228`); `ItemAuctionAgree` records that it does;
* an older oracle reading can overwrite a newer one in the cache (`pricing.go:25`);
* a purchase sent twice without a key buys twice while there is stock
  (`idempotency.go:14` counts on the checks of the data layer; for bids they
  suffice, which is `BidsApplyOnce`), and one whose body cannot be decoded buys
  one unit (`items.go:109`).

**Bounds.** `ItemIDs` and `AuctionIDs` bound how many listings there are: two
are enough for a winner who is also a seller, a guild that leads twice, and a
batch that fails because of its other half. `Amounts` bounds the bids; amounts
grow by at least one, so three or four amounts give every guild the chance to
lead, be outbid, raise and return. `MaxTime` bounds
the clock: with a window and an extension of 1 it covers open, extended, due and
settled. In `trade` window and extension are 2 and `MaxTime` is 4: a bid can be
early or late (with an extension of 1 any bid before the end would leave it
anyway), and `DayLength` 2 puts midnight in between. There the amounts lie around
40 and 41, whose 5% is a whole number and is not, the capped guild can afford one
unit of the stock a day or lead the auction, and 0 and 39 are there to be
rejected. `MaxLag` 1 lets a unit commit with a reading
from before the last tick. `MaxRestarts` 1 is one lost cache.

`MaxUnits` bounds the requests sent to Postgres: in `postgres` there are enough
for two of them and the worker to wait for each other, and for a request that
finds what an earlier one committed. In `postgres_live` it is 2, which also means
that requests do not come for ever; an endless stream of deadlocks with new
requests could fail the worker each time, and nothing in the code excludes that.
`MaxBoots` 2 is one restart. `MaxRefresh` lets the price of an item change between
two readings. The `Calls` of `http` are six, each sent once, in any order and all at
once (`MixedCalls` in `MCHttp`); a purchase among them is left to the proofs, which
are about any calls. `MaxQuantity` is above every quantity listed, except in `http`,
where one listing exceeds it by one. In `postgres` `Second` is 2 and the extension 3,
so that the table really cuts something off.

**Fairness.** `FairSpec` is weakly fair for `Tick` (time passes) and for
`RunSettlementWorker` (its loop calls `SettleDueAuctions` at every tick of its
timer until the process is stopped, whatever the last call returned). Requests
get no fairness: nobody has to come. It is what `stranger_blocks` refutes
`DueSettled` under; the same property holds in `postgres_live`, where all sellers
have wallets. A clock at `MaxTime` is not a deadlock,
the worker still runs.

`PgFairSpec` is strongly fair for each session's next statement. Weak fairness is
not enough: a unit could wait for a wallet that the worker takes, loses to a
deadlock and takes again, for ever. Postgres grants a row lock to those who wait
for it when it becomes free, before those who ask later, which is what strong
fairness says here. Weakly fair are the worker's timer, the clock, and the deadlock
detector, which runs whenever a wait lasts. `Interrupt` is not fair: nothing relies
on a deadline.

`ServerFairSpec` assumes that a server that is down is started again (up to
`MaxBoots`), that start-up goes on, and what `FairSpec` assumes while it is up.
`DueSettledAfterRestart` speaks of the time from which every guild has its row: a
seller whose upsert failed blocks settlement as in `stranger_blocks`, until a later
start seeds it.
`OraclePrice!FairSpec` makes a handler go on and a timer fire; the oracle owes
nobody an answer. The runs over `Server` do not check for deadlock: after
`MaxBoots` starts the server may be down for good.

## Proofs

Everything here is proved by TLAPS for all sets of guilds, IDs, amounts, listings,
calls and pages, all treasuries, caps, windows, moduli and bounds, from the
assumptions the modules state. Every safety property that a passing run checks is a
theorem, and so are the three refinements: `Market` implements `Escrow`,
`PostgresUnits` implements `Market`, `HttpApi` implements `Idempotency`.

| theorem | property | proved in |
|---|---|---|
| `TypeCorrect` | `TypeOK`: in particular no balance, reservation or stock goes below zero | `MarketProofs` |
| `GuildsStaySolvent` | `Solvent` | |
| `ReservationsAreLeads` | `ReservedBacksLeads` | |
| `LastBidderWins` | `LeaderStands` | |
| `BiddersCanAnswer` | `AnswerTime` | |
| `LeadsNeverFall` | `LeadOnlyRises` | |
| `ItemsFollowAuctions` | `ItemAuctionAgree` | |
| `GoldIsConserved` | `GoldConserved` | `LedgerProofs` |
| `LedgerExplainsTotals` | `LedgerReplaysTotal` |
| `LedgerOverstatesReserved` | `ReplayOverstatesReserved`, which no run checks | |
| `PurchasesRespectCap` | `PurchasesWithinCap` | |
| `SettlementIsFinal`, `WinnersPayOnce` | `SettledIsFinal`, `WinnerPaysOnce` | |
| `StockIsPaidFor` | `StockPaidFor`, if `StockWorthFits` | |
| `MarketIsEscrow` | `EscrowImplemented` | `EscrowProofs` |
| `UnitsAreAtomic` | `MarketImplemented` | `PostgresProofs` |
| `AuctionsNeverDeadlock` | `DeadlocksSpareAuctions` | |
| `ConfiguredExtensionHolds` | `ConfiguredAnswerTime` | |
| `PostgresKeepsTheMoney` | `Solvent`, `ReservedBacksLeads`, `ItemAuctionAgree`, `GoldConserved`, `LedgerReplaysTotal`, `WinnerPaysOnce` of the Postgres store | |
| `ReservationsOutliveRestarts` | `ReservationsSurvive` | `ServerProofs` |
| `StartersListedOnce` | `StartersOnce`, if `StartersApart` | |
| `NoRuleIsInternalError` | `NoInternalError` | `HttpProofs` |
| `BidsTakeEffectOnce` | `BidsApplyOnce` | |
| `ResponsesAreOwn` | `OwnResponses` | |
| `KeysAreIdempotent` | `IdempotencyImplemented` | |
| `InformedRetriesAreSafe`, `SuccessIsReal` | `RetryAfterAnswer`, `AnswersAreTrue` | `IdempotencyProofs` |
| `PricesStayKnown` | `KnownPriceShown` | `OracleProofs` |

### The market

None of the first four is inductive by itself, and they are proved together as
`IInv` (theorem `MarketInvariant`).
A settlement takes what the winners owe out of their totals: that leaves
`reserved <= total` only because the same amount was reserved, which is
`ReservedBacksLeads`. `ReservedBacksLeads` in turn is a statement about the bid
`HighestBid` finds, and a bid or a withdrawal changes it in a controlled way only
if that is the last bid placed, which is `LeaderStands`. That the withdrawal of
any other bid changes nothing is where R12 enters. `FinitelyManyAuctions` is
added because a sum is the cardinality of a finite set of coins. The lemmas on
sums at the head of `MarketProofs` are facts about such sets: a sum splits along a
partition, grows at one point by what is added there, is the same summed owner by
owner (a bijection between coins), and depends only on where it is not zero. The
lemmas on the units of work are stated for `AnyUnit`, a unit with inputs nobody
restricts, so that `HttpProofs` can use them for what its calls carry.

For the other properties of auctions, a step treats the row of an auction in one of
few ways: leaves it, appends a bid that `CanPlaceBid` accepts, withdraws one that
`CanCancelBid` accepts, or closes it (`OnlyRowSteps`). `AnswerTime` is then
inductive row by row. `LeadOnlyRises` follows from `IInv`, which identifies the
lead with the last bid before and after the step, and from a lemma on the
rounding of the increment. `ItemAuctionAgree` counts auctions; its inductive form
`AuctionsMatchItems` says that a Legendary has one auction in its life, and that
its status is read off that auction.

`LedgerProofs` adds that only finitely many items are listed and that nothing is
posted for an item that is not (`BInv`): `ItemIDs` may be infinite, and a sum over
the ledger is then one over the part that can be non-zero. On that basis each
action changes a guild's postings by what it changes the wallet by, which is
`LedgerReplaysTotal`; for reservations the difference is exactly the own raises, which
is `ReplayOverstatesReserved`.
`WinnerPaysOnce` is inductive for every auction as `SalesPosted`. For the cap, a
purchase is checked against all that was spent since the start of its day, which
is at least what was bought on it. `GoldConserved` needs the settlement batch as a
whole: what winners pay, summed by winner, and what sellers get, summed by seller,
are the same sum over the auctions won.

`StockPaidFor` does not hold of the code: `price * quantity` can wrap, which
`cost_wraps` shows. It is proved under `StockWorthFits`, that no listing's whole
stock is worth more than an int64. `Trade.cfg`, whose run checks the property,
satisfies it.

`MarketIsEscrow` maps every unit to one step of `Escrow`: `CreateItem` of a
Legendary to `Open`, `BidOnItem` to `Raise` (also of one's own bid), a settlement
batch to `Close` of all its lots at once, a purchase to `Trade`; a withdrawal, a
tick, any other listing and a batch that is rolled back to no step. The invariants
are needed for what the mapping reads: purses are never negative, the gold on a lot
is the last bid, and what is on a leader's lots is what it has reserved.

### Postgres

`PgInv` is what makes row locks as good as one mutex. It has four parts: `IInv` and
`AuctionsMatchItems`, which speak of the committed tables and are carried over from
`Market`; `ControlInv`, where each unit stands in its program; and `DataInv`, what it
knows of the tables.

`ControlInv` says that a unit is at a statement of its own operation, that only the
worker settles, and that auctions come first: a bid or a withdrawal that asks for its
auction holds nothing, and the worker, while it locks the due ones, nothing but
auctions. This alone gives `DeadlocksSpareAuctions`. In a deadlock everyone is waited
for; nobody waits for a unit that holds nothing, so no bid or withdrawal at its
auction is in one, and only such a unit could wait for the worker.

`DataInv` says that no row is held by two sessions (`Exclusive`); that a client's
copies are the committed versions (`Copies`), that it holds what its program has asked
for so far, and that a bid which passed its checks would pass them still
(`Gathered`, `BidChecked`). The settlement unit is harder, because between two of its
statements its copies agree with no state of `Market`. While it locks auctions
(`Collecting`) it has each due one locked or still to do. After that it has some
subset `S` of the due auctions settled, and each of its rows is the one that
`Market`'s batch settlement of exactly `S` would leave (`SettledSoFar`), its ledger
entries those of `S` (`PostedSoFar`). Settling one more, with the winner's and the
seller's wallets changed in turn, also when a guild is both or is paid by an auction
settled before, leads from `S` to `S` with that auction added; this is where the
lemmas on sums are used again. When nothing is left, `S` is the
whole batch and the commit is `SettleDueAuctions`.

Everything is stable under the others' commits. They change only rows and ledger
entries of rows they hold, so none of a unit's own (`CommitsOwn`, `Spares`); a bid
that extends an auction, a settlement, a listing and the clock make no auction due at
an earlier reading (`NoNewDue`). For a listing this uses `AuctionWindow > 0` and that
its reading is that of its commit. So every step takes the tables from one state of
`Market` to the next or leaves them alone, which is `UnitsAreAtomic`, and with it
every invariant of `Market` holds over Postgres (`PostgresKeepsTheMoney` lists the ones
about money).

One assumption is about the instance: `MaxTime <= MaxLag`, because a unit waits for
a lock as long as it takes and `Market` must then accept its reading.
`ConfiguredExtensionHolds` is `AnswerTime` of the stored extension, which falls short
of the configured one by a remainder modulo `Second`.

### Restarts

`IInv` does not survive a restart: rows of wallets appear one at a time, and a
start resets the total of a guild whose gold lies in open auctions, so that neither
`Solvent` nor `total >= 0` holds of every row (`restart_solvent`). `SInv` keeps
what is left: rows have the right shape, whoever leads an auction has a row, and
`ReservationsSurvive`. It is enough because no unit of work needs solvency to move
reservations correctly. `StartersOnce` is inductive with `SeedOnce`: while seeding
lists the starters, what is left is a suffix of them and none of the suffix is
listed yet. Items have no names here; starters are recognised by seller and rarity,
and `StartersApart` says that these tell them apart from one another and from what
guilds list (`Restart.cfg` satisfies it).

### Calls and keys

`HttpProofs` carries `IInv` and `AuctionsMatchItems` over to `HttpApi` and adds that
every bid is positive, that a stored response is the success of a call of the same
scope that is over, and that an applied call leaves a trace: the auction of the item
has been led with at least the amount of an applied bid, and a withdrawn bid is no
longer active. No step removes a trace, and a bid or a withdrawal that commits finds
none of its own; two calls of the same content share the trace, which is
`BidsApplyOnce`. `NoInternalError` is that `CanRelease` never fails for the leader of
an open auction: its bid is part of the sum it has reserved; a listing beyond the
column, the other error without a name, is the exception the property makes. With the
scopes of stored responses, every step of a call is a step of `Idempotency` on its
scope and no step on any other, which is `IdempotencyImplemented`; what
`IdempotencyProofs` shows therefore holds of every scope under the real handlers. This
is so whether or not a scope is shared by different requests; `OwnResponses` says when
it is not. A guild ID and a path without a bar are one piece each, so the first three
pieces of the scope are guild, method and path, and all that follows is the key,
however many bars are in it (`ScopesTellApart`).

`IdempotencyProofs` proves `RetryAfterAnswer` and `AnswersAreTrue` for any set of
duplicates and any number of restarts. The strengthening says that the entry is
present while anybody holds a success answer of the running process, so an informed
retry never gets past the lookup, and that only what was applied is ever stored.

### Prices

`KnownPriceShown` compares a page with an earlier one of another request. `OInv`
links the two through the cache: a price that was shown is one the cache can fall
back on, and stays so.

### Model-checked only

`DueSettled`, `DueSettledAfterRestart`, `UnitsEnd` and `PagesEnd` are liveness
properties under fairness, which is out of the prover's reach here.

## Not modelled

* **Queries**, listings and the ledger view: they change no state. `GetWallet` is
  modelled in `PostgresUnits` because it locks the row.
* **The web console, JSON encoding, log lines.**
* **Environment parsing**: `AUCTION_WINDOW` and `AUCTION_EXTENSION` are constants.
  `connectWithRetry` is the one step `Boot`: if it gives up the process exits,
  which is `Boot` not happening.
* **The ID generator**: `Market` takes IDs as fresh.
* **Columns** other than `quantity` and the whole seconds: texts that Postgres does
  not store (a zero byte, invalid UTF-8) fail with 500 like an oversize quantity, and
  the models take names and IDs to be texts it does store.
* **Pool exhaustion**: a request that waits for a connection has opened no unit.

## What could come next

* A store in which a restart is a step of `PostgresUnits`, between any two
  statements, instead of one of `Server` over atomic units.
* The conversions between Go values and table columns as one model, of which the
  whole seconds and the range of `quantity` are instances, with the texts too.
