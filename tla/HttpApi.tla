------------------------------- MODULE HttpApi -------------------------------
(***************************************************************************)
(* The HTTP layer over the market (internal/adapters/httpapi): the         *)
(* idempotency middleware around the handlers of the mutating routes, the  *)
(* error each one gets from the service and the status writeError makes of *)
(* it.  A handler calls one unit of work of Market, which is atomic; the   *)
(* middleware's lookup and store are steps of their own.  Clients send     *)
(* the calls of a fixed set, each once, in any order and all at once if    *)
(* they like; a retry is another call with the same content.               *)
(*                                                                         *)
(* An error operator lists the checks of one operation in the order the    *)
(* code makes them.  ScopeAnyGuild and HandleCachesErrors are seeded       *)
(* faults of the definitions they precede, used by none.                   *)
(***************************************************************************)
EXTENDS Market

CONSTANTS
    Calls,      \* the HTTP requests clients send
    call,       \* the content of each: the route (op, item, bid), the headers
                \* (guild, key), whether the body is "json", "empty" or
                \* "unreadable", and the fields it decodes to, 0 where omitted
    NoGuild,    \* no X-Guild-Id header
    NoKey,      \* no Idempotency-Key header
    Parts       \* the pieces that its bars cut a guild ID, path or key into

ASSUME CallsAssumption ==
    /\ Calls \cap {"none", "error"} = {}
    /\ \A c \in Calls :
        /\ DOMAIN call[c] = {"op", "guild", "key", "item", "bid", "body",
                             "rarity", "price", "quantity", "amount"}
        /\ call[c].op \in {"create", "purchase", "bid", "cancel"}
        /\ call[c].guild \in Guilds \cup {NoGuild}
        /\ call[c].body \in {"json", "empty", "unreadable"}
        /\ call[c].rarity \in STRING
        /\ {call[c].price, call[c].quantity, call[c].amount} \subseteq Int

VARIABLES
    entries,    \* the middleware's cache: the call whose response is stored
    phase,      \* where each call is
    status,     \* the status it was answered with, 0 before that
    source,     \* the call that computed its answer: itself, unless replayed
    applied,    \* the calls whose unit of work committed
    cut,        \* the calls that were interrupted
    informed    \* the calls sent after a success of their scope was answered

httpVars == <<entries, phase, status, source, applied, cut, informed>>
apiVars == <<vars, httpVars>>

-----------------------------------------------------------------------------
(* What a request asks for.                                                *)

Method(c) == IF call[c].op = "cancel" THEN "DELETE" ELSE "POST"

(* The path names the item, and for a withdrawal the bid.                  *)
Path(c) ==
    CASE call[c].op = "create" -> <<"items">>
      [] call[c].op = "cancel" -> <<"items", call[c].item, "bid", call[c].bid>>
      [] OTHER                 -> <<"items", call[c].item, call[c].op>>

Keyed == {c \in Calls : call[c].key # NoKey}

(* A string is known by the pieces between its bars, so joining strings    *)
(* with bars appends their pieces.  Nothing is escaped: what is appended   *)
(* no longer shows where one string ended and the next began.              *)
ASSUME PartsAssumption ==
    /\ \A c \in Keyed : {call[c].guild, Path(c), call[c].key} \subseteq DOMAIN Parts
    /\ \A s \in DOMAIN Parts : Parts[s] \in Seq(STRING) /\ Parts[s] # <<>>
    /\ \A s, r \in DOMAIN Parts : Parts[s] = Parts[r] => s = r

ScopeAnyGuild(c) == <<Method(c)>> \o Parts[Path(c)] \o Parts[call[c].key]

(* guildID(r) + "|" + r.Method + "|" + r.URL.Path + "|" + key              *)
Scope(c) ==
    Parts[call[c].guild] \o <<Method(c)>> \o Parts[Path(c)] \o Parts[call[c].key]

(* An empty body, one that omits the quantity and one that says 0 ask for  *)
(* one unit, and so does one that cannot be decoded.                       *)
Quantity(c) == IF call[c].body = "json" /\ call[c].quantity # 0
               THEN call[c].quantity ELSE 1

Listing(c) == [rarity |-> call[c].rarity, seller |-> call[c].guild,
               price |-> call[c].price, quantity |-> call[c].quantity]

-----------------------------------------------------------------------------
(* The error the service returns, "ok" if it commits.                      *)

(* A quantity too large for its column fails the INSERT, with an error of  *)
(* the driver and not of the domain.                                       *)
CreateError(in) ==
    IF in.rarity \notin Rarities THEN "ErrInvalidRarity"
    ELSE IF ~IsPositive(in.price) THEN "ErrNonPositiveAmount"
    ELSE IF ~AuctionOnly(in.rarity) /\ in.quantity < 1 THEN "ErrInvalidQuantity"
    ELSE IF ~Insertable(NewItem(in)) THEN "insert failed"
    ELSE "ok"

SellToError(item, buyer, qty) ==
    IF AuctionOnly(item.rarity) THEN "ErrLegendaryNotLimit"
    ELSE IF item.seller = buyer THEN "ErrCannotBuyOwnItem"
    ELSE IF item.status # "available" THEN "ErrItemNotAvailable"
    ELSE IF qty > item.quantity THEN "ErrInsufficientStock"
    ELSE "ok"

PurchaseError(i, buyer, qty, t) ==
    IF qty < 1 THEN "ErrInvalidQuantity"
    ELSE IF i \notin DOMAIN items THEN "ErrItemNotFound"
    ELSE IF ~({buyer, items[i].seller} \subseteq DOMAIN wallets)
         THEN "ErrWalletNotFound"
    ELSE LET cost == Cost(items[i], qty)
             refused == SellToError(items[i], buyer, qty)
         IN  IF refused # "ok" THEN refused
             ELSE IF ~WithinDailyCap(DailyCap[buyer], SpentSince(buyer, Day(t)), cost)
             THEN "ErrDailyCapExceeded"
             ELSE IF ~IsPositive(cost) THEN "ErrNonPositiveAmount"
             ELSE IF ~CanDebit(wallets[buyer], cost) THEN "ErrInsufficientFunds"
             ELSE "ok"

PlaceBidError(a, guild, amount, t) ==
    IF t >= a.endsAt THEN "ErrAuctionClosed"
    ELSE IF guild = a.seller THEN "ErrCannotBidOwnItem"
    ELSE IF amount < MinNextBid(a) THEN "ErrBidTooLow"
    ELSE "ok"

BidError(i, bidder, amount, t) ==
    IF ~IsPositive(amount) THEN "ErrNonPositiveAmount"
    ELSE IF ActiveAuctions(i) = {} THEN "ErrAuctionNotFound"
    ELSE IF bidder \notin DOMAIN wallets THEN "ErrWalletNotFound"
    ELSE LET a == auctions[CHOOSE x \in ActiveAuctions(i) : TRUE]
             refused == PlaceBidError(a, bidder, amount, t)
         IN  IF refused # "ok" THEN refused
             ELSE IF ~WithinDailyCap(DailyCap[bidder], SpentSince(bidder, Day(t)), amount)
             THEN "ErrDailyCapExceeded"
             ELSE IF HighestBid(a) # 0 /\ ~CanRelease(wallets[Leader(a).guild], Leader(a).amount)
             THEN "ErrReserveTooLarge"
             ELSE IF ~CanReserve(Released(a)[bidder], amount) THEN "ErrInsufficientFunds"
             ELSE "ok"

CancelError(i, b, guild) ==
    IF ActiveAuctions(i) = {} THEN "ErrAuctionNotFound"
    ELSE LET a == auctions[CHOOSE x \in ActiveAuctions(i) : TRUE]
         IN  IF CanCancelBid(a, b, guild) THEN "ok"
             ELSE IF b = HighestBid(a) THEN "ErrCannotCancelLeader"
             ELSE "ErrBidNotFound"

-----------------------------------------------------------------------------
(* The status of an answer.                                                *)

(* writeError.  An error it does not name is the server's own fault.       *)
StatusOf(err) ==
    CASE err \in {"ErrItemNotFound", "ErrWalletNotFound", "ErrAuctionNotFound",
                  "ErrBidNotFound"} -> 404
      [] err \in {"ErrInsufficientFunds", "ErrInsufficientStock", "ErrItemNotAvailable",
                  "ErrCannotBuyOwnItem", "ErrLegendaryNotLimit", "ErrAuctionClosed",
                  "ErrBidTooLow", "ErrCannotBidOwnItem", "ErrCannotCancelLeader",
                  "ErrDailyCapExceeded"} -> 409
      [] err \in {"ErrInvalidRarity", "ErrInvalidQuantity", "ErrNonPositiveAmount"} -> 400
      [] OTHER -> 500

ServiceError(c, t) ==
    CASE call[c].op = "create"   -> CreateError(Listing(c))
      [] call[c].op = "purchase" -> PurchaseError(call[c].item, call[c].guild, Quantity(c), t)
      [] call[c].op = "bid"      -> BidError(call[c].item, call[c].guild, call[c].amount, t)
      [] call[c].op = "cancel"   -> CancelError(call[c].item, call[c].bid, call[c].guild)

(* The handler: header, body, service.                                     *)
Response(c, t) ==
    IF call[c].guild = NoGuild THEN 401
    ELSE IF call[c].op \in {"create", "bid"} /\ call[c].body # "json" THEN 400
    ELSE LET err == ServiceError(c, t)
         IN  IF err # "ok" THEN StatusOf(err)
             ELSE IF call[c].op \in {"create", "bid"} THEN 201 ELSE 200

Success(code) == code \in 200..299

(* The service call that commits.                                          *)
Apply(c, t) ==
    CASE call[c].op = "create"   -> \E i \in ItemIDs : CreateItem(Listing(c), i, t)
      [] call[c].op = "purchase" -> Purchase(call[c].item, call[c].guild, Quantity(c), t)
      [] call[c].op = "bid"      -> BidOnItem(call[c].item, call[c].guild, call[c].amount, t)
      [] call[c].op = "cancel"   -> CancelBidOnItem(call[c].item, call[c].bid, call[c].guild)

-----------------------------------------------------------------------------
(* A call without a key passes the middleware by: when it is sent matters  *)
(* to no one, and it waits for its handler from the start.                 *)
ApiInit ==
    /\ Init
    /\ entries = [k \in {} |-> k]
    /\ phase = [c \in Calls |-> IF call[c].key = NoKey THEN "running" ELSE "unsent"]
    /\ status = [c \in Calls |-> 0]
    /\ source = [c \in Calls |-> c]
    /\ applied = {}
    /\ cut = {}
    /\ informed = {}

SuccessGiven(k) ==
    \E c \in Keyed : Scope(c) = k /\ phase[c] = "done" /\ Success(status[c])

Send(c) ==
    /\ phase[c] = "unsent"
    /\ phase' = [phase EXCEPT ![c] = "arrived"]
    /\ informed' = IF SuccessGiven(Scope(c)) THEN informed \cup {c} ELSE informed
    /\ UNCHANGED <<vars, entries, status, source, applied, cut>>

(* The lookup under the mutex: replay the entry, or go on to the handler.  *)
Lookup(c) ==
    /\ phase[c] = "arrived"
    /\ \/ /\ Scope(c) \in DOMAIN entries
          /\ status' = [status EXCEPT ![c] = status[entries[Scope(c)]]]
          /\ source' = [source EXCEPT ![c] = entries[Scope(c)]]
          /\ phase' = [phase EXCEPT ![c] = "done"]
       \/ /\ Scope(c) \notin DOMAIN entries
          /\ phase' = [phase EXCEPT ![c] = "running"]
          /\ UNCHANGED <<status, source>>
    /\ UNCHANGED <<vars, entries, applied, cut, informed>>

HandleCachesErrors(c) ==
    /\ phase[c] = "running"
    /\ \E t \in Readings :
        LET code == Response(c, t)
        IN  /\ status' = [status EXCEPT ![c] = code]
            /\ phase' = [phase EXCEPT ![c] =
                           IF call[c].key = NoKey THEN "done" ELSE "succeeded"]
            /\ \/ Success(code) /\ Apply(c, t) /\ applied' = applied \cup {c}
               \/ ~Success(code) /\ UNCHANGED <<vars, applied>>
    /\ UNCHANGED <<entries, source, cut, informed>>

(* The handler runs to its end.  Only a success is cached.                 *)
Handle(c) ==
    /\ phase[c] = "running"
    /\ \E t \in Readings :
        LET code == Response(c, t)
        IN  /\ status' = [status EXCEPT ![c] = code]
            /\ \/ /\ Success(code)
                  /\ Apply(c, t)
                  /\ applied' = applied \cup {c}
                  /\ phase' = [phase EXCEPT ![c] =
                                 IF call[c].key = NoKey THEN "done" ELSE "succeeded"]
               \/ /\ ~Success(code)
                  /\ phase' = [phase EXCEPT ![c] = "done"]
                  /\ UNCHANGED <<vars, applied>>
    /\ UNCHANGED <<entries, source, cut, informed>>

(* Its context ends first, or Postgres breaks a deadlock with it: nothing  *)
(* is committed, or tx.Commit went through although it reports the         *)
(* context's error.                                                        *)
Interrupted(c) ==
    /\ phase[c] = "running"
    /\ phase' = [phase EXCEPT ![c] = "done"]
    /\ status' = [status EXCEPT ![c] = 500]
    /\ cut' = cut \cup {c}
    /\ \/ UNCHANGED <<vars, applied>>
       \/ \E t \in Readings :
            /\ Success(Response(c, t))
            /\ Apply(c, t)
            /\ applied' = applied \cup {c}
    /\ UNCHANGED <<entries, source, informed>>

StoreEntry(c) ==
    /\ phase[c] = "succeeded"
    /\ entries' = Put(entries, Scope(c), c)
    /\ phase' = [phase EXCEPT ![c] = "done"]
    /\ UNCHANGED <<vars, status, source, applied, cut, informed>>

Background == (RunSettlementWorker \/ Tick) /\ UNCHANGED httpVars

ApiNext ==
    \/ \E c \in Calls : \/ Send(c) \/ Lookup(c) \/ Handle(c)
                        \/ Interrupted(c) \/ StoreEntry(c)
    \/ Background

ApiSpec == ApiInit /\ [][ApiNext]_apiVars

-----------------------------------------------------------------------------
(* A listing of more than the quantity column holds.                       *)
Oversize(c) == call[c].op = "create" /\ ~Insertable(NewItem(Listing(c)))

(* No rule of the market is ever reported as the server's own fault: 500   *)
(* (server.go:86) goes only to calls that were cut off and to listings of  *)
(* more than 2^31 - 1 units, which the domain accepts and the items table  *)
(* does not (schema.sql:16).  The one domain error that writeError does    *)
(* not name, ErrReserveTooLarge, would be a reservation released twice,    *)
(* and no sequence of calls gets there.                                    *)
NoInternalError == \A c \in Calls : status[c] = 500 => c \in cut \/ Oversize(c)

SameContent(c, d) ==
    [call[c] EXCEPT !.key = NoKey] = [call[d] EXCEPT !.key = NoKey]

(* "Natural invariants ... already prevent double-effect at the data       *)
(* layer" (idempotency.go:14), for bids and withdrawals: with or without a *)
(* key, and also when the first try committed but was answered 500, the    *)
(* same call is never applied twice.                                       *)
BidsApplyOnce ==
    \A c, d \in applied :
        c # d /\ SameContent(c, d) => call[c].op \notin {"bid", "cancel"}

Unbarred(c) == Len(Parts[call[c].guild]) = 1 /\ Len(Parts[Path(c)]) = 1

(* "Keys are scoped per acting guild + method + path so they cannot        *)
(* collide across guilds or endpoints" (idempotency.go:49), as far as it   *)
(* goes: a replayed answer was computed for the same guild, method, path   *)
(* and key, whatever bars the keys contain, unless the guild ID or the     *)
(* path of one of the two calls contains a bar.  X-Guild-Id is free text,  *)
(* and with a bar in it a call can be answered with the result of another  *)
(* guild's call at another endpoint.                                       *)
OwnResponses ==
    \A c \in Keyed :
        Unbarred(c) /\ Unbarred(source[c]) =>
            /\ call[c].guild = call[source[c]].guild
            /\ Method(c) = Method(source[c]) /\ Path(c) = Path(source[c])
            /\ call[c].key = call[source[c]].key

KeyedScopes == {Scope(c) : c \in Keyed}

Duplicates == [k \in KeyedScopes |-> {c \in Keyed : Scope(c) = k}]

OfScope(k) ==
    INSTANCE Idempotency WITH
        Requests <- Duplicates[k],
        MaxRestarts <- 0,
        entry <- IF k \in DOMAIN entries THEN {entries[k]} ELSE {},
        phase <- [c \in Duplicates[k] |-> phase[c]],
        answer <- [c \in Duplicates[k] |->
                     IF phase[c] # "done" THEN "none"
                     ELSE IF Success(status[c]) THEN source[c] ELSE "error"],
        applied <- applied \cap Duplicates[k],
        informed <- informed \cap Duplicates[k],
        restarts <- 0

(* Under real handlers and a real market, the calls of every scope, the    *)
(* colliding ones included, behave as the duplicates of Idempotency do:    *)
(* its guarantees carry over, scope by scope and whatever the calls of the *)
(* other scopes are doing.                                                 *)
IdempotencyImplemented ==
    /\ \A k \in KeyedScopes : OfScope(k)!Init
    /\ [][\A k \in KeyedScopes :
           UNCHANGED OfScope(k)!vars \/ OfScope(k)!Next]_httpVars
=============================================================================
