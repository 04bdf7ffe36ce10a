---------------------------- MODULE PostgresUnits ----------------------------
(***************************************************************************)
(* The units of work of internal/service as transactions of the Postgres   *)
(* store (internal/adapters/postgres/store.go).  A unit is a sequence of   *)
(* statements of one session; the statements of different sessions         *)
(* interleave.  SELECT ... FOR UPDATE locks a row until the unit ends and  *)
(* copies its committed version; the service changes the copies; COMMIT    *)
(* installs them together with the ledger entries.  The tables are those   *)
(* of Market, whose units are atomic, and every COMMIT is meant to be a    *)
(* step of Market.                                                         *)
(*                                                                         *)
(* Isolation is READ COMMITTED: a statement reads what is committed when   *)
(* it starts, and a locking one that had to wait re-evaluates its WHERE    *)
(* clause on the version it finds then.  CreateItem writes rows that       *)
(* nobody else can see or lock before it commits and is one step.          *)
(*                                                                         *)
(* StoredExtensionMinutes, ProgramWalletFirst, NotFoundRetries and         *)
(* StillDueUnchecked are seeded faults of the definitions they precede,    *)
(* used by none.                                                           *)
(***************************************************************************)
EXTENDS Market

CONSTANTS
    Clients,                \* the sessions that serve requests
    Worker,                 \* the session of the settlement worker
    Requests,               \* the requests that open a unit
    MaxUnits,               \* bound: how many of them are sent
    ConfiguredExtension,    \* AUCTION_EXTENSION
    Second                  \* one second, in units of the clock

StoredExtensionMinutes == (ConfiguredExtension \div (60 * Second)) * 60 * Second

(* CreateAuction stores the extension in whole seconds, and scanAuction    *)
(* reads it back.                                                          *)
StoredExtension == (ConfiguredExtension \div Second) * Second

Purchases == [op : {"purchase"}, item : ItemIDs, guild : Guilds, qty : Quantities]
Bids == [op : {"bid"}, item : ItemIDs, guild : Guilds, amount : Amounts]
Cancels == [op : {"cancel"}, item : ItemIDs, guild : Guilds, bid : Nat]
WalletReads == [op : {"wallet"}, guild : Guilds]

ASSUME PostgresAssumption ==
    /\ Worker \notin Clients
    /\ Requests \subseteq Purchases \cup Bids \cup Cancels \cup WalletReads
    /\ MaxUnits \in Nat
    /\ ConfiguredExtension \in Nat
    /\ Second \in Nat \ {0}
    /\ AuctionExtension = StoredExtension
    /\ AuctionWindow > 0
    /\ MaxTime <= MaxLag    \* a unit may wait for a lock as long as the clock runs

VARIABLES
    unit,   \* the unit of work each session has open
    sent    \* how many requests were sent

pgVars == <<vars, unit, sent>>

Sessions == Clients \cup {Worker}

-----------------------------------------------------------------------------
(* Rows.                                                                   *)

ItemRow(i) == <<"item", i>>
WalletRow(g) == <<"wallet", g>>
AuctionRow(x) == <<"auction", x>>

Rows == {ItemRow(i) : i \in DOMAIN items}
        \cup {WalletRow(g) : g \in DOMAIN wallets}
        \cup {AuctionRow(x) : x \in DOMAIN auctions}

Committed(row) ==
    CASE row[1] = "item"    -> items[row[2]]
      [] row[1] = "wallet"  -> wallets[row[2]]
      [] row[1] = "auction" -> auctions[row[2]]

-----------------------------------------------------------------------------
(* Units.                                                                  *)

ProgramWalletFirst ==
    [purchase |-> <<"item", "guild", "seller", "sell">>,
     bid      |-> <<"guild", "auction", "place", "leader", "reserve">>,
     cancel   |-> <<"auction", "cancel">>,
     wallet   |-> <<"guild", "read">>,
     settle   |-> <<"due", "next", "lot", "leader", "payee", "settle">>]

(* The statements of each operation, in order.  Those Wants names are      *)
(* locking reads; the others are what the service does with their results. *)
Program ==
    [purchase |-> <<"item", "guild", "seller", "sell">>,
     bid      |-> <<"auction", "guild", "place", "leader", "reserve">>,
     cancel   |-> <<"auction", "cancel">>,
     wallet   |-> <<"guild", "read">>,
     settle   |-> <<"due", "next", "lot", "leader", "payee", "settle">>]

After(op, pc) ==
    LET k == CHOOSE n \in DOMAIN Program[op] : Program[op][n] = pc
    IN  Program[op][k + 1]

(* rows: the rows the unit holds, each with its own version of it;         *)
(* t: its clock reading; todo: due auctions it has yet to lock; due: those *)
(* it has yet to settle; lot: the auction at hand; posts: ledger entries.  *)
NoUnit ==
    [req |-> [op |-> "none"], pc |-> "none", rows |-> [r \in {} |-> r],
     t |-> 0, todo |-> {}, due |-> {}, lot |-> "none", posts |-> <<>>]

Opened(req) == [NoUnit EXCEPT !.req = req, !.pc = Head(Program[req.op])]

Open(s) == unit[s].req.op # "none"

Lot(u) == u.rows[AuctionRow(u.lot)]

(* The rows the unit's next statement selects FOR UPDATE.                  *)
Wants(u) ==
    CASE u.pc = "item"    -> {ItemRow(u.req.item)}
      [] u.pc = "guild"   -> {WalletRow(u.req.guild)}
      [] u.pc = "seller"  -> {WalletRow(u.rows[ItemRow(u.req.item)].seller)}
      [] u.pc = "auction" -> {AuctionRow(x) : x \in ActiveAuctions(u.req.item)}
      [] u.pc = "due"     -> {AuctionRow(x) : x \in u.todo}
      [] u.pc = "lot"     -> {ItemRow(Lot(u).item)}
      [] u.pc = "leader"  -> {WalletRow(Leader(Lot(u)).guild)}
      [] u.pc = "payee"   -> {WalletRow(Lot(u).seller)}
      [] OTHER            -> {}

LockingReads == {"item", "guild", "seller", "auction", "lot", "leader", "payee"}

Free(s, row) == \A o \in Sessions \ {s} : row \notin DOMAIN unit[o].rows

(* The version of a row the unit sees: its own once it has one.            *)
Version(u, row) == IF row \in DOMAIN u.rows THEN u.rows[row] ELSE Committed(row)

(* The deferred tx.Rollback: nothing of the unit remains.                  *)
Rollback(s) ==
    /\ unit' = [unit EXCEPT ![s] = NoUnit]
    /\ UNCHANGED <<vars, sent>>

(* The tables with the unit's versions of the rows it holds.               *)
UpdateItem(rows) ==
    [i \in DOMAIN items |->
        IF ItemRow(i) \in DOMAIN rows THEN rows[ItemRow(i)] ELSE items[i]]

UpdateWallet(rows) ==
    [g \in DOMAIN wallets |->
        IF WalletRow(g) \in DOMAIN rows THEN rows[WalletRow(g)] ELSE wallets[g]]

UpdateAuction(rows) ==
    [x \in DOMAIN auctions |->
        IF AuctionRow(x) \in DOMAIN rows THEN rows[AuctionRow(x)] ELSE auctions[x]]

AppendLedger(posts, t) ==
    LET amounts == [n \in DOMAIN posts |-> posts[n].amount]
    IN  [k \in LedgerKeys |-> ledger[k] + GoldIn(amounts,
            {n \in DOMAIN posts : k = <<posts[n].guild, posts[n].type,
                                        posts[n].item, Day(t)>>})]

(* The updates and the ledger entries take effect for the others together, *)
(* when tx.Commit does.                                                    *)
Commit(s, rows, posts, t) ==
    /\ items' = UpdateItem(rows)
    /\ wallets' = UpdateWallet(rows)
    /\ auctions' = UpdateAuction(rows)
    /\ ledger' = AppendLedger(posts, t)
    /\ unit' = [unit EXCEPT ![s] = NoUnit]
    /\ UNCHANGED <<now, sent>>

Entry(guild, type, i, amount) ==
    [guild |-> guild, type |-> type, item |-> i, amount |-> amount]

-----------------------------------------------------------------------------
(* Opening a unit.  Purchase and BidOnItem reject a non-positive quantity  *)
(* or amount before they do.                                               *)
Begin(s, req) ==
    /\ ~Open(s)
    /\ sent < MaxUnits
    /\ req.op = "purchase" => req.qty >= 1
    /\ req.op = "bid" => IsPositive(req.amount)
    /\ unit' = [unit EXCEPT ![s] = Opened(req)]
    /\ sent' = sent + 1
    /\ UNCHANGED vars

(* A tick of the worker.  The snapshot of the due auctions is taken here,  *)
(* and their rows are locked one after the other.                          *)
BeginSettlement ==
    /\ ~Open(Worker)
    /\ unit' = [unit EXCEPT ![Worker] =
                  [Opened([op |-> "settle"]) EXCEPT !.t = now,
                                                    !.todo = DueAuctions(now)]]
    /\ UNCHANGED <<vars, sent>>

-----------------------------------------------------------------------------
(* Locking reads.                                                          *)

(* GetItemForUpdate, GetWalletForUpdate, GetActiveAuctionByItem.  For the  *)
(* last, Wants is evaluated when the row is free: the re-check.  A lot     *)
(* nobody bid for is settled without a wallet.                             *)
GetForUpdate(s) ==
    LET u == unit[s]
    IN  /\ u.pc \in LockingReads
        /\ \E row \in Wants(u) \cap Rows :
            /\ Free(s, row)
            /\ unit' = [unit EXCEPT ![s] =
                 [u EXCEPT !.rows = Put(@, row, Version(u, row)),
                           !.lot  = IF u.pc = "auction" THEN row[2] ELSE @,
                           !.pc   = IF u.pc = "lot" /\ HighestBid(Lot(u)) = 0
                                    THEN "settle" ELSE After(u.req.op, @)]]
        /\ UNCHANGED <<vars, sent>>

NotFoundRetries(s) ==
    /\ unit[s].pc \in LockingReads
    /\ Wants(unit[s]) \cap Rows = {}
    /\ UNCHANGED pgVars

(* pgx.ErrNoRows.                                                          *)
NotFound(s) ==
    /\ unit[s].pc \in LockingReads
    /\ Wants(unit[s]) \cap Rows = {}
    /\ Rollback(s)

StillDueUnchecked(x, t) == TRUE

StillDue(x, t) == Due(auctions[x], t)

(* DueAuctions.  A row that is no longer due when its lock is granted is   *)
(* left out of the result; the lock stays.                                 *)
DueForUpdate(s) ==
    LET u == unit[s]
    IN  /\ u.pc = "due"
        /\ \/ \E x \in u.todo :
                /\ Free(s, AuctionRow(x))
                /\ unit' = [unit EXCEPT ![s] =
                     [u EXCEPT !.rows = Put(@, AuctionRow(x), auctions[x]),
                               !.todo = @ \ {x},
                               !.due  = IF StillDue(x, u.t) THEN @ \cup {x} ELSE @]]
           \/ /\ u.todo = {}
              /\ unit' = [unit EXCEPT ![s].pc = "next"]
        /\ UNCHANGED <<vars, sent>>

-----------------------------------------------------------------------------
(* What the service does with the rows it holds.                           *)

Sell(s) ==
    LET u     == unit[s]
        buyer == WalletRow(u.req.guild)
        lock  == ItemRow(u.req.item)
        item  == u.rows[lock]
        cost  == Cost(item, u.req.qty)
    IN  /\ u.pc = "sell"
        /\ IF /\ CanSellTo(item, u.req.guild, u.req.qty)
              /\ WithinDailyCap(DailyCap[u.req.guild],
                                SpentSince(u.req.guild, Day(now)), cost)
              /\ CanDebit(u.rows[buyer], cost)
           THEN Commit(s, [u.rows EXCEPT
                             ![lock] = SellTo(item, u.req.qty),
                             ![buyer] = Debit(@, cost),
                             ![WalletRow(item.seller)] = Credit(@, cost)],
                       <<Entry(u.req.guild, "debit", u.req.item, cost),
                         Entry(item.seller, "credit", u.req.item, cost)>>, now)
           ELSE Rollback(s)

Unseats(u) == HighestBid(Lot(u)) # 0 /\ Leader(Lot(u)).guild # u.req.guild

(* The clock is read, the rules are checked; the wallet of another guild   *)
(* that is unseated has to be locked next, which may take a while.         *)
Place(s) ==
    LET u == unit[s]
    IN  /\ u.pc = "place"
        /\ IF /\ CanPlaceBid(Lot(u), u.req.guild, u.req.amount, now)
              /\ WithinDailyCap(DailyCap[u.req.guild],
                                SpentSince(u.req.guild, Day(now)), u.req.amount)
           THEN /\ unit' = [unit EXCEPT ![s].t = now,
                                        ![s].pc = IF Unseats(u) THEN "leader"
                                                  ELSE "reserve"]
                /\ UNCHANGED <<vars, sent>>
           ELSE Rollback(s)

ReserveBid(s) ==
    LET u    == unit[s]
        a    == Lot(u)
        mine == WalletRow(u.req.guild)
        held == WalletRow(Leader(a).guild)
        released == IF HighestBid(a) = 0 THEN u.rows
                    ELSE [u.rows EXCEPT ![held] = Release(@, Leader(a).amount)]
        reserve == Entry(u.req.guild, "reserve", a.item, u.req.amount)
    IN  /\ u.pc = "reserve"
        /\ IF /\ HighestBid(a) = 0 \/ CanRelease(u.rows[held], Leader(a).amount)
              /\ CanReserve(released[mine], u.req.amount)
           THEN Commit(s, [released EXCEPT
                             ![mine] = Reserve(@, u.req.amount),
                             ![AuctionRow(u.lot)] =
                                PlaceBid(a, u.req.guild, u.req.amount, u.t)],
                       IF Unseats(u)
                       THEN <<Entry(Leader(a).guild, "release", a.item,
                                    Leader(a).amount), reserve>>
                       ELSE <<reserve>>, u.t)
           ELSE Rollback(s)

Cancel(s) ==
    LET u == unit[s]
    IN  /\ u.pc = "cancel"
        /\ IF CanCancelBid(Lot(u), u.req.bid, u.req.guild)
           THEN Commit(s, [u.rows EXCEPT ![AuctionRow(u.lot)] = CancelBid(@, u.req.bid)],
                       <<>>, now)
           ELSE Rollback(s)

(* GetWallet: a query, but one that locks the row.                         *)
ReadWallet(s) == unit[s].pc = "read" /\ Commit(s, unit[s].rows, <<>>, now)

(* The loop of SettleDueAuctions, in the order the rows came in.           *)
NextLot(s) ==
    LET u == unit[s]
    IN  /\ u.pc = "next"
        /\ \/ /\ u.due = {}
              /\ Commit(s, u.rows, u.posts, u.t)
           \/ \E x \in u.due :
                /\ unit' = [unit EXCEPT ![s].lot = x, ![s].pc = "lot"]
                /\ UNCHANGED <<vars, sent>>

(* settleOne, once it holds the item and, if somebody bid, both wallets.   *)
SettleOne(s) ==
    LET u      == unit[s]
        a      == Lot(u)
        winner == WalletRow(Leader(a).guild)
        seller == WalletRow(a.seller)
        price  == Leader(a).amount
        closed == [u.rows EXCEPT ![AuctionRow(u.lot)].status = "settled",
                                 ![ItemRow(a.item)].status =
                                    IF HighestBid(a) = 0 THEN "available" ELSE "sold_out"]
        taken  == [closed EXCEPT ![winner] = Debit(Release(@, price), price)]
        paid   == [taken EXCEPT ![seller] = Credit(@, price)]
        done(rows, posts) ==
            /\ unit' = [unit EXCEPT ![s] =
                 [u EXCEPT !.rows = rows, !.posts = @ \o posts,
                           !.due = @ \ {u.lot}, !.pc = "next"]]
            /\ UNCHANGED <<vars, sent>>
    IN  /\ u.pc = "settle"
        /\ IF HighestBid(a) = 0 THEN done(closed, <<>>)
           ELSE IF CanRelease(u.rows[winner], price)
           THEN done(paid, <<Entry(Leader(a).guild, "settle", a.item, price),
                             Entry(a.seller, "credit", a.item, price)>>)
           ELSE Rollback(s)

Advance(s) ==
    \/ GetForUpdate(s) \/ NotFound(s) \/ DueForUpdate(s)
    \/ Sell(s) \/ Place(s) \/ ReserveBid(s) \/ Cancel(s) \/ ReadWallet(s)
    \/ NextLot(s) \/ SettleOne(s)

-----------------------------------------------------------------------------
(* Failures.                                                               *)

(* A request's 15s deadline passes, its client goes away, or its           *)
(* connection breaks.  The worker has no deadline.                         *)
Interrupt(s) == Open(s) /\ Rollback(s)

WaitsFor(s, o) == o # s /\ Wants(unit[s]) \cap DOMAIN unit[o].rows # {}

Deadlocked(C) ==
    /\ C # {}
    /\ \A s \in C : \E o \in C : WaitsFor(s, o)
    /\ \A D \in (SUBSET C) \ {C, {}} : \E s \in D : \A o \in D : ~WaitsFor(s, o)

(* Postgres finds a cycle of waiting units and fails the statement of one  *)
(* of them: the request is answered 500, the worker logs and goes on.      *)
BreakDeadlock ==
    \E C \in SUBSET Sessions : Deadlocked(C) /\ \E s \in C : Rollback(s)

-----------------------------------------------------------------------------
PgInit ==
    /\ Init
    /\ unit = [s \in Sessions |-> NoUnit]
    /\ sent = 0

PgNext ==
    \/ \E in \in Listings, i \in ItemIDs :
         CreateItem(in, i, now) /\ UNCHANGED <<unit, sent>>
    \/ \E s \in Clients, req \in Requests : Begin(s, req)
    \/ BeginSettlement
    \/ \E s \in Sessions : Advance(s)
    \/ \E s \in Clients : Interrupt(s)
    \/ BreakDeadlock
    \/ Tick /\ UNCHANGED <<unit, sent>>

PgSpec == PgInit /\ [][PgNext]_pgVars

(* A session sends its next statement, Postgres looks for deadlocks and    *)
(* the worker's timer ticks.  Row locks are granted in the order they are  *)
(* asked for, so a unit is not passed over time and again by others that   *)
(* come later and take the same lock: fairness is strong.  No request has  *)
(* to come, and none has to be cut off by its deadline.                    *)
PgFairSpec ==
    /\ PgSpec
    /\ \A s \in Sessions : SF_pgVars(Advance(s))
    /\ WF_pgVars(BeginSettlement)
    /\ WF_pgVars(BreakDeadlock)
    /\ WF_pgVars(Tick /\ UNCHANGED <<unit, sent>>)

-----------------------------------------------------------------------------
(* "SELECT ... FOR UPDATE row locks so the money-safety and                *)
(* single-fulfilment guarantees hold under concurrency" (store.go:3):      *)
(* whatever the interleaving, rollbacks and deadlocks, what is committed   *)
(* is what some sequence of atomic units commits.  This is Market's Spec;  *)
(* its stuttering steps are spelled out because most statements are one.   *)
MarketImplemented == Init /\ [][UNCHANGED vars \/ Next]_vars

(* Deadlocks are possible between units that lock wallets, or a wallet and *)
(* the item of a Legendary, in opposite orders (store.go:147).  Auctions   *)
(* are always locked first: a unit that waits for one is never part of a   *)
(* cycle, so a bidder is never failed for having queued for an auction.    *)
DeadlocksSpareAuctions ==
    \A C \in SUBSET Sessions :
        Deadlocked(C) => \A s \in C : unit[s].pc \notin {"auction", "due"}

(* No unit stays open for ever, even if no deadline ever fires: every wait *)
(* ends in a grant, or in a deadlock that is broken (store.go:62, :147).   *)
UnitsEnd == \A s \in Sessions : Open(s) ~> ~Open(s)

(* "Anti-snipe: guarantee at least Extension remains after a late bid"     *)
(* (auction.go:95), for the extension an operator configures: it goes      *)
(* through a column of whole seconds, so after every bid the others have   *)
(* that long to answer less a part of a second, and all of it if it is     *)
(* configured in whole seconds.  The bid's own waiting costs them nothing. *)
ConfiguredAnswerTime ==
    \A x \in DOMAIN auctions : \A b \in DOMAIN auctions[x].bids :
        LET left == auctions[x].endsAt - auctions[x].bids[b].placedAt
        IN  /\ ConfiguredExtension - left < Second
            /\ ConfiguredExtension % Second = 0 => ConfiguredExtension <= left
=============================================================================
