--------------------------- MODULE PostgresProofs ---------------------------
(***************************************************************************)
(* Theorems about PostgresUnits, for every value of its constants.         *)
(*                                                                         *)
(* Control comes first: every unit is at a statement of its program, and   *)
(* what it holds when it asks for an auction.  That much shows that no     *)
(* deadlock goes through an auction.                                       *)
(*                                                                         *)
(* Data builds on it.  A row is held by one session, a client's unit has   *)
(* the committed versions of what it holds, and the settlement unit has    *)
(* them with some of the due auctions settled.  So every commit is a step  *)
(* of Market and every other statement leaves the tables alone, which      *)
(* gives the Postgres store the safety properties of Market.               *)
(***************************************************************************)
EXTENDS PostgresUnits, LedgerProofs

-----------------------------------------------------------------------------
(* Rows and programs.                                                      *)

(* Rows of different tables, and of different keys, are different rows.    *)
LEMMA RowsDiffer ==
    /\ \A i, g : ItemRow(i) # WalletRow(g)
    /\ \A i, x : ItemRow(i) # AuctionRow(x)
    /\ \A g, x : WalletRow(g) # AuctionRow(x)
    /\ \A i, j : ItemRow(i) = ItemRow(j) => i = j
    /\ \A g, h : WalletRow(g) = WalletRow(h) => g = h
    /\ \A x, y : AuctionRow(x) = AuctionRow(y) => x = y
BY DEF ItemRow, WalletRow, AuctionRow

(* A row's committed version is the entry of its table.                    *)
LEMMA CommittedIs ==
    /\ \A i : Committed(ItemRow(i)) = items[i]
    /\ \A g : Committed(WalletRow(g)) = wallets[g]
    /\ \A x : Committed(AuctionRow(x)) = auctions[x]
BY DEF Committed, ItemRow, WalletRow, AuctionRow

(* The statements of an operation.                                         *)
Statements(op) == {Program[op][n] : n \in DOMAIN Program[op]}

(* What follows each locking read.                                         *)
LEMMA AfterIs ==
    /\ After("purchase", "item") = "guild"
    /\ After("purchase", "guild") = "seller"
    /\ After("purchase", "seller") = "sell"
    /\ After("bid", "auction") = "guild"
    /\ After("bid", "guild") = "place"
    /\ After("bid", "leader") = "reserve"
    /\ After("cancel", "auction") = "cancel"
    /\ After("wallet", "guild") = "read"
    /\ After("settle", "lot") = "leader"
    /\ After("settle", "leader") = "payee"
    /\ After("settle", "payee") = "settle"
<1>1. /\ Program["purchase"] = <<"item", "guild", "seller", "sell">>
      /\ Program["bid"] = <<"auction", "guild", "place", "leader", "reserve">>
      /\ Program["cancel"] = <<"auction", "cancel">>
      /\ Program["wallet"] = <<"guild", "read">>
      /\ Program["settle"] = <<"due", "next", "lot", "leader", "payee", "settle">>
  BY DEF Program
<1>2. ASSUME NEW op, NEW n \in DOMAIN Program[op], NEW pc, Program[op][n] = pc,
             \A m \in DOMAIN Program[op] : Program[op][m] = pc => m = n
      PROVE  After(op, pc) = Program[op][n + 1]
  BY <1>2 DEF After
<1>3. After("purchase", "item") = Program["purchase"][1 + 1]
  BY <1>1, <1>2
<1>4. After("purchase", "guild") = Program["purchase"][2 + 1]
  BY <1>1, <1>2
<1>5. After("purchase", "seller") = Program["purchase"][3 + 1]
  BY <1>1, <1>2
<1>6. After("bid", "auction") = Program["bid"][1 + 1]
  BY <1>1, <1>2
<1>7. After("bid", "guild") = Program["bid"][2 + 1]
  BY <1>1, <1>2
<1>8. After("bid", "leader") = Program["bid"][4 + 1]
  BY <1>1, <1>2
<1>9. After("cancel", "auction") = Program["cancel"][1 + 1]
  BY <1>1, <1>2
<1>10. After("wallet", "guild") = Program["wallet"][1 + 1]
  BY <1>1, <1>2
<1>11. After("settle", "lot") = Program["settle"][3 + 1]
  BY <1>1, <1>2
<1>12. After("settle", "leader") = Program["settle"][4 + 1]
  BY <1>1, <1>2
<1>13. After("settle", "payee") = Program["settle"][5 + 1]
  BY <1>1, <1>2
<1> QED  BY <1>1, <1>3, <1>4, <1>5, <1>6, <1>7, <1>8, <1>9, <1>10, <1>11, <1>12, <1>13

(* The statements, operation by operation.                                 *)
LEMMA StatementsAre ==
    /\ Statements("purchase") = {"item", "guild", "seller", "sell"}
    /\ Statements("bid") = {"auction", "guild", "place", "leader", "reserve"}
    /\ Statements("cancel") = {"auction", "cancel"}
    /\ Statements("wallet") = {"guild", "read"}
    /\ Statements("settle") = {"due", "next", "lot", "leader", "payee", "settle"}
<1>1. \A a, b, c, d : {<<a, b, c, d>>[n] : n \in 1..4} = {a, b, c, d}
  OBVIOUS
<1>2. \A a, b, c, d, e : {<<a, b, c, d, e>>[n] : n \in 1..5} = {a, b, c, d, e}
  OBVIOUS
<1>3. \A a, b : {<<a, b>>[n] : n \in 1..2} = {a, b}
  OBVIOUS
<1>4. \A a, b, c, d, e, f : {<<a, b, c, d, e, f>>[n] : n \in 1..6} = {a, b, c, d, e, f}
  OBVIOUS
<1> QED  BY <1>1, <1>2, <1>3, <1>4 DEF Statements, Program

-----------------------------------------------------------------------------
(* Control.                                                                *)

Fields == {"req", "pc", "rows", "t", "todo", "due", "lot", "posts"}

(* A request that opened a unit.                                           *)
Admitted(req) ==
    /\ req \in Requests
    /\ req.op = "purchase" => req.qty >= 1
    /\ req.op = "bid" => IsPositive(req.amount)

(* Session s has no unit open, or one at a statement of its operation.     *)
AtStatement(s, u) ==
    \/ u = NoUnit
    \/ /\ \/ s \in Clients /\ Admitted(u.req)
          \/ s = Worker /\ u.req = [op |-> "settle"]
       /\ u.pc \in Statements(u.req.op)

(* A unit that asks for an auction holds nothing but auctions.             *)
AuctionsFirst(u) ==
    /\ u.pc = "auction" => DOMAIN u.rows = {}
    /\ u.pc = "due" => \A r \in DOMAIN u.rows : \E x : r = AuctionRow(x)

InControl(s, u) == DOMAIN u = Fields /\ AtStatement(s, u) /\ AuctionsFirst(u)

ControlInv == DOMAIN unit = Sessions /\ \A s \in Sessions : InControl(s, unit[s])

(* The operations of clients.                                              *)
LEMMA AdmittedOps ==
    ASSUME NEW req, Admitted(req)
    PROVE  /\ req.op = "purchase" => req \in Purchases
           /\ req.op = "bid" => req \in Bids
           /\ req.op = "cancel" => req \in Cancels
           /\ req.op = "wallet" => req \in WalletReads
           /\ req.op \in {"purchase", "bid", "cancel", "wallet"}
BY PostgresAssumption DEF Admitted, Purchases, Bids, Cancels, WalletReads

(* No unit.                                                                *)
LEMMA NoUnitInControl ==
    /\ \A s : InControl(s, NoUnit)
    /\ DOMAIN NoUnit = Fields /\ NoUnit.pc = "none" /\ NoUnit.req.op = "none"
    /\ DOMAIN NoUnit.rows = {}
BY DEF InControl, AtStatement, AuctionsFirst, NoUnit, Fields

(* One session moves on and the others stay.                               *)
Moves(s, v) ==
    /\ DOMAIN unit' = Sessions
    /\ unit'[s] = v
    /\ \A o \in Sessions : o # s => unit'[o] = unit[o]

(* Control is a matter of each session alone.                              *)
LEMMA MovesKeepControl ==
    ASSUME ControlInv, NEW s \in Sessions, NEW v, Moves(s, v), InControl(s, v)
    PROVE  ControlInv'
<1>1. ASSUME NEW o \in Sessions
      PROVE  InControl(o, unit'[o])
  BY DEF Moves, ControlInv
<1> QED  BY <1>1 DEF ControlInv, Moves, InControl, AtStatement, AuctionsFirst

(* A unit opens.                                                           *)
LEMMA OpenedIs ==
    ASSUME NEW req
    PROVE  LET u == Opened(req)
           IN  /\ DOMAIN u = Fields /\ u.req = req
               /\ u.pc = Head(Program[req.op]) /\ DOMAIN u.rows = {}
               /\ u.t = 0 /\ u.todo = {} /\ u.due = {} /\ u.posts = <<>>
BY DEF Opened, NoUnit, Fields

(* Replacing the unit of one session moves that session.                   *)
LEMMA ExceptMoves ==
    ASSUME ControlInv, NEW s \in Sessions, NEW v, unit' = [unit EXCEPT ![s] = v]
    PROVE  Moves(s, v)
BY DEF ControlInv, Moves

(* The fields of u that a statement leaves alone.                          *)
SameUnit(u, v) == DOMAIN v = Fields /\ v.req = u.req /\ v.posts = u.posts

(* A lock is granted to unit u, which goes on as v.                        *)
Grants(u, row, v) ==
    /\ SameUnit(u, v) /\ v.t = u.t /\ v.todo = u.todo /\ v.due = u.due
    /\ v.rows = Put(u.rows, row, Version(u, row))
    /\ v.lot = IF u.pc = "auction" THEN row[2] ELSE u.lot
    /\ v.pc = IF u.pc = "lot" /\ HighestBid(Lot(u)) = 0 THEN "settle"
              ELSE After(u.req.op, u.pc)

(* What a locking read of one row does.                                    *)
LEMMA GetForUpdateGrants ==
    ASSUME ControlInv, NEW s \in Sessions, GetForUpdate(s)
    PROVE  /\ UNCHANGED <<vars, sent>>
           /\ unit[s].pc \in LockingReads
           /\ \E row \in Wants(unit[s]) \cap Rows : \E v :
                Free(s, row) /\ Moves(s, v) /\ Grants(unit[s], row, v)
<1> DEFINE u == unit[s]
<1>1. PICK row \in Wants(u) \cap Rows :
        /\ Free(s, row)
        /\ unit' = [unit EXCEPT ![s] =
             [u EXCEPT !.rows = Put(@, row, Version(u, row)),
                       !.lot  = IF u.pc = "auction" THEN row[2] ELSE @,
                       !.pc   = IF u.pc = "lot" /\ HighestBid(Lot(u)) = 0
                                THEN "settle" ELSE After(u.req.op, @)]]
  BY DEF GetForUpdate
<1> DEFINE v == [u EXCEPT !.rows = Put(@, row, Version(u, row)),
                          !.lot  = IF u.pc = "auction" THEN row[2] ELSE @,
                          !.pc   = IF u.pc = "lot" /\ HighestBid(Lot(u)) = 0
                                   THEN "settle" ELSE After(u.req.op, @)]
<1>2. Moves(s, v)
  BY <1>1, ExceptMoves
<1>3. DOMAIN u = Fields
  BY DEF ControlInv, InControl
<1>4. Grants(u, row, v)
  BY <1>3 DEF Grants, SameUnit, Fields
<1>5. UNCHANGED <<vars, sent>> /\ unit[s].pc \in LockingReads
  BY DEF GetForUpdate
<1> HIDE DEF v
<1> QED  BY <1>1, <1>2, <1>4, <1>5

(* What the locking read of the due auctions does: it locks one of them,   *)
(* or it has locked them all.                                              *)
LEMMA DueForUpdateGrants ==
    ASSUME ControlInv, NEW s \in Sessions, DueForUpdate(s)
    PROVE  LET u == unit[s]
           IN  /\ UNCHANGED <<vars, sent>> /\ u.pc = "due"
               /\ \E v : /\ Moves(s, v) /\ SameUnit(u, v)
                         /\ v.t = u.t /\ v.lot = u.lot
                         /\ \/ \E x \in u.todo :
                                 /\ Free(s, AuctionRow(x))
                                 /\ v.rows = Put(u.rows, AuctionRow(x), auctions[x])
                                 /\ v.todo = u.todo \ {x} /\ v.pc = "due"
                                 /\ v.due = IF StillDue(x, u.t) THEN u.due \cup {x}
                                            ELSE u.due
                            \/ /\ u.todo = {} /\ v.todo = {} /\ v.due = u.due
                               /\ v.rows = u.rows /\ v.pc = "next"
<1> DEFINE u == unit[s]
<1>1. UNCHANGED <<vars, sent>> /\ u.pc = "due" /\ DOMAIN u = Fields
  BY DEF DueForUpdate, ControlInv, InControl
<1>2. CASE u.todo = {} /\ unit' = [unit EXCEPT ![s].pc = "next"]
  <2> DEFINE v == [u EXCEPT !.pc = "next"]
  <2>1. unit' = [unit EXCEPT ![s] = v]
    BY <1>2
  <2>2. Moves(s, v)
    BY <2>1, ExceptMoves
  <2>3. /\ SameUnit(u, v) /\ v.t = u.t /\ v.lot = u.lot /\ v.todo = {}
        /\ v.due = u.due /\ v.rows = u.rows /\ v.pc = "next"
    BY <1>1, <1>2 DEF SameUnit, Fields
  <2> HIDE DEF v
  <2> QED  BY <1>1, <1>2, <2>2, <2>3
<1>3. ASSUME NEW x \in u.todo, Free(s, AuctionRow(x)),
             unit' = [unit EXCEPT ![s] =
                 [u EXCEPT !.rows = Put(@, AuctionRow(x), auctions[x]),
                           !.todo = @ \ {x},
                           !.due  = IF StillDue(x, u.t) THEN @ \cup {x} ELSE @]]
      PROVE  \E v : /\ Moves(s, v) /\ SameUnit(u, v)
                    /\ v.t = u.t /\ v.lot = u.lot
                    /\ v.rows = Put(u.rows, AuctionRow(x), auctions[x])
                    /\ v.todo = u.todo \ {x} /\ v.pc = "due"
                    /\ v.due = IF StillDue(x, u.t) THEN u.due \cup {x} ELSE u.due
  <2> DEFINE v == [u EXCEPT !.rows = Put(@, AuctionRow(x), auctions[x]),
                            !.todo = @ \ {x},
                            !.due  = IF StillDue(x, u.t) THEN @ \cup {x} ELSE @]
  <2>1. Moves(s, v)
    BY <1>3, ExceptMoves
  <2>2. /\ SameUnit(u, v) /\ v.t = u.t /\ v.lot = u.lot
        /\ v.rows = Put(u.rows, AuctionRow(x), auctions[x])
        /\ v.todo = u.todo \ {x} /\ v.pc = "due"
        /\ v.due = IF StillDue(x, u.t) THEN u.due \cup {x} ELSE u.due
    BY <1>1 DEF SameUnit, Fields
  <2> HIDE DEF v
  <2> QED  BY <2>1, <2>2
<1> QED  BY <1>1, <1>2, <1>3 DEF DueForUpdate

(* Ending a unit.                                                          *)
LEMMA EndMoves ==
    ASSUME ControlInv, NEW s \in Sessions
    PROVE  /\ Rollback(s) => Moves(s, NoUnit) /\ UNCHANGED vars
           /\ \A rows, posts, t : Commit(s, rows, posts, t) => Moves(s, NoUnit)
BY ExceptMoves DEF Rollback, Commit

(* What checking a bid does when the bid passes.                           *)
PassesCheck(s, v) ==
    LET u == unit[s]
    IN  /\ CanPlaceBid(Lot(u), u.req.guild, u.req.amount, now)
        /\ WithinDailyCap(DailyCap[u.req.guild],
                          SpentSince(u.req.guild, Day(now)), u.req.amount)
        /\ UNCHANGED <<vars, sent>>
        /\ Moves(s, v) /\ SameUnit(u, v)
        /\ v.t = now /\ v.rows = u.rows /\ v.lot = u.lot
        /\ v.todo = u.todo /\ v.due = u.due
        /\ v.pc = IF Unseats(u) THEN "leader" ELSE "reserve"

(* A bid is turned down or passes the check.                               *)
LEMMA PlaceMoves ==
    ASSUME ControlInv, NEW s \in Sessions, Place(s)
    PROVE  unit[s].pc = "place" /\ (Rollback(s) \/ \E v : PassesCheck(s, v))
<1> DEFINE u == unit[s]
           passes == /\ CanPlaceBid(Lot(u), u.req.guild, u.req.amount, now)
                     /\ WithinDailyCap(DailyCap[u.req.guild],
                                SpentSince(u.req.guild, Day(now)), u.req.amount)
           v == [u EXCEPT !.t = now, !.pc = IF Unseats(u) THEN "leader" ELSE "reserve"]
<1>1. u.pc = "place" /\ DOMAIN u = Fields
  BY DEF Place, ControlInv, InControl
<1>2. CASE ~passes
  BY <1>1, <1>2 DEF Place
<1>3. CASE passes
  <2>1. /\ unit' = [unit EXCEPT ![s].t = now,
                                ![s].pc = IF Unseats(u) THEN "leader" ELSE "reserve"]
        /\ UNCHANGED <<vars, sent>>
    BY <1>3 DEF Place
  <2>2. unit' = [unit EXCEPT ![s] = v]
    BY <2>1 DEF ControlInv
  <2>3. Moves(s, v)
    BY <2>2, ExceptMoves
  <2>4. /\ SameUnit(u, v) /\ v.t = now /\ v.rows = u.rows /\ v.lot = u.lot
        /\ v.todo = u.todo /\ v.due = u.due
        /\ v.pc = IF Unseats(u) THEN "leader" ELSE "reserve"
    BY <1>1 DEF SameUnit, Fields
  <2> HIDE DEF v
  <2> QED  BY <1>1, <1>3, <2>1, <2>3, <2>4 DEF PassesCheck
<1> QED  BY <1>2, <1>3

(* The settlement unit turns to lot x.                                     *)
TurnsTo(s, x, v) ==
    LET u == unit[s]
    IN  /\ UNCHANGED <<vars, sent>>
        /\ Moves(s, v) /\ SameUnit(u, v)
        /\ v.t = u.t /\ v.rows = u.rows /\ v.todo = u.todo /\ v.due = u.due
        /\ v.lot = x /\ v.pc = "lot"

(* The settlement unit commits or turns to the next lot.                   *)
LEMMA NextLotMoves ==
    ASSUME ControlInv, NEW s \in Sessions, NextLot(s)
    PROVE  LET u == unit[s]
           IN  /\ u.pc = "next"
               /\ \/ u.due = {} /\ Commit(s, u.rows, u.posts, u.t)
                  \/ \E x \in u.due : \E v : TurnsTo(s, x, v)
<1> DEFINE u == unit[s]
<1>1. u.pc = "next" /\ DOMAIN u = Fields
  BY DEF NextLot, ControlInv, InControl
<1>2. ASSUME NEW x \in u.due, unit' = [unit EXCEPT ![s].lot = x, ![s].pc = "lot"],
             UNCHANGED <<vars, sent>>
      PROVE  \E v : TurnsTo(s, x, v)
  <2> DEFINE v == [u EXCEPT !.lot = x, !.pc = "lot"]
  <2>1. unit' = [unit EXCEPT ![s] = v]
    BY <1>2 DEF ControlInv
  <2>2. Moves(s, v)
    BY <2>1, ExceptMoves
  <2>3. /\ SameUnit(u, v) /\ v.t = u.t /\ v.rows = u.rows /\ v.todo = u.todo
        /\ v.due = u.due /\ v.lot = x /\ v.pc = "lot"
    BY <1>1 DEF SameUnit, Fields
  <2> HIDE DEF v
  <2> QED  BY <1>2, <2>2, <2>3 DEF TurnsTo
<1>3. \/ u.due = {} /\ Commit(s, u.rows, u.posts, u.t)
      \/ \E x \in u.due : /\ unit' = [unit EXCEPT ![s].lot = x, ![s].pc = "lot"]
                          /\ UNCHANGED <<vars, sent>>
  BY DEF NextLot
<1> QED  BY <1>1, <1>2, <1>3

(* The rows of a unit with its lot closed.                                 *)
ClosedRows(u) ==
    [u.rows EXCEPT ![AuctionRow(u.lot)].status = "settled",
                   ![ItemRow(Lot(u).item)].status =
                        IF HighestBid(Lot(u)) = 0 THEN "available" ELSE "sold_out"]

(* The same with the winner's gold handed to the seller.                   *)
PaidRows(u) ==
    LET price == Leader(Lot(u)).amount
        taken == [ClosedRows(u) EXCEPT
                    ![WalletRow(Leader(Lot(u)).guild)] = Debit(Release(@, price), price)]
    IN  [taken EXCEPT ![WalletRow(Lot(u).seller)] = Credit(@, price)]

(* The settlement unit is done with its lot: it holds rows and posted p.   *)
LotDone(s, v, rows, p) ==
    LET u == unit[s]
    IN  /\ UNCHANGED <<vars, sent>>
        /\ Moves(s, v) /\ DOMAIN v = Fields /\ v.req = u.req
        /\ v.t = u.t /\ v.todo = u.todo /\ v.lot = u.lot
        /\ v.due = u.due \ {u.lot} /\ v.pc = "next"
        /\ v.rows = rows /\ v.posts = u.posts \o p

(* The entries for the lot at hand.                                        *)
LotPosts(a) ==
    <<Entry(Leader(a).guild, "settle", a.item, Leader(a).amount),
      Entry(a.seller, "credit", a.item, Leader(a).amount)>>

(* The settlement unit settles the lot at hand.                            *)
Settles(s, v) ==
    LET u == unit[s]
        a == Lot(u)
    IN  \/ /\ HighestBid(a) = 0
           /\ LotDone(s, v, ClosedRows(u), <<>>)
        \/ /\ HighestBid(a) # 0
           /\ CanRelease(u.rows[WalletRow(Leader(a).guild)], Leader(a).amount)
           /\ LotDone(s, v, PaidRows(u), LotPosts(a))

(* The settlement unit settles its lot or gives up.                        *)
LEMMA SettleOneMoves ==
    ASSUME ControlInv, NEW s \in Sessions, SettleOne(s)
    PROVE  unit[s].pc = "settle" /\ (Rollback(s) \/ \E v : Settles(s, v))
<1> DEFINE u == unit[s]
           a == Lot(u)
           w(rows, p) == [u EXCEPT !.rows = rows, !.posts = @ \o p,
                                   !.due = @ \ {u.lot}, !.pc = "next"]
           done(rows, p) == /\ unit' = [unit EXCEPT ![s] = w(rows, p)]
                            /\ UNCHANGED <<vars, sent>>
           can == CanRelease(u.rows[WalletRow(Leader(a).guild)], Leader(a).amount)
<1>1. u.pc = "settle" /\ DOMAIN u = Fields
  BY DEF SettleOne, ControlInv, InControl
<1>2. ASSUME NEW rows, NEW p, done(rows, p)
      PROVE  \E v : LotDone(s, v, rows, p)
  <2> DEFINE v == w(rows, p)
  <2>1. Moves(s, v)
    BY <1>2, ExceptMoves
  <2>2. /\ DOMAIN v = Fields /\ v.req = u.req
        /\ v.t = u.t /\ v.todo = u.todo /\ v.lot = u.lot
        /\ v.due = u.due \ {u.lot} /\ v.pc = "next"
        /\ v.rows = rows /\ v.posts = u.posts \o p
    BY <1>1 DEF Fields
  <2> HIDE DEF v
  <2> QED  BY <1>2, <2>1, <2>2 DEF LotDone
<1>3. IF HighestBid(a) = 0 THEN done(ClosedRows(u), <<>>)
      ELSE IF can THEN done(PaidRows(u), LotPosts(a))
      ELSE Rollback(s)
  BY Zenon DEF SettleOne, ClosedRows, PaidRows, LotPosts
<1> HIDE DEF done
<1>4. CASE HighestBid(a) = 0
  BY <1>1, <1>2, <1>3, <1>4 DEF Settles
<1>5. CASE HighestBid(a) # 0 /\ can
  BY <1>1, <1>2, <1>3, <1>5 DEF Settles
<1>6. CASE HighestBid(a) # 0 /\ ~can
  BY <1>1, <1>3, <1>6
<1> QED  BY <1>4, <1>5, <1>6

(* A locking read leads to the next statement.                             *)
LEMMA GrantsKeepControl ==
    ASSUME ControlInv, NEW s \in Sessions, unit[s].pc \in LockingReads,
           NEW row, NEW v, Grants(unit[s], row, v)
    PROVE  InControl(s, v)
<1> DEFINE u == unit[s]
<1>1. InControl(s, u) /\ u # NoUnit
  BY NoUnitInControl DEF ControlInv, LockingReads
<1>2. PICK op : op = u.req.op
  OBVIOUS
<1>3. v.req = u.req /\ DOMAIN v = Fields
  BY DEF Grants, SameUnit
<1>4. v.pc \in Statements(op) /\ v.pc \notin {"auction", "due"}
  <2>1. CASE s \in Clients /\ Admitted(u.req)
    <3>1. op \in {"purchase", "bid", "cancel", "wallet"} /\ u.pc \in Statements(op)
      BY <1>1, <1>2, <2>1, AdmittedOps DEF InControl, AtStatement
    <3>2. u.pc \in {"item", "guild", "seller", "auction", "leader"}
      BY <3>1, StatementsAre DEF LockingReads
    <3>3. v.pc = After(op, u.pc)
      BY <1>2, <3>2 DEF Grants
    <3> QED  BY <3>1, <3>2, <3>3, StatementsAre, AfterIs
  <2>2. CASE s = Worker /\ u.req = [op |-> "settle"]
    <3>1. op = "settle" /\ u.pc \in {"lot", "leader", "payee"}
      BY <1>1, <1>2, <2>2, StatementsAre DEF InControl, AtStatement, LockingReads
    <3>2. v.pc \in {"settle", After(op, u.pc)}
      BY <1>2 DEF Grants
    <3> QED  BY <3>1, <3>2, StatementsAre, AfterIs
  <2> QED  BY <1>1, <2>1, <2>2 DEF InControl, AtStatement
<1> QED  BY <1>1, <1>2, <1>3, <1>4 DEF InControl, AtStatement, AuctionsFirst

(* Every statement leads to one of the same operation, or ends the unit.   *)
LEMMA AdvanceKeepsControl ==
    ASSUME ControlInv, NEW s \in Sessions, Advance(s)
    PROVE  ControlInv'
<1> DEFINE u == unit[s]
<1>0. InControl(s, u) /\ DOMAIN u = Fields
  BY DEF ControlInv, InControl
<1>1. CASE GetForUpdate(s)
  BY <1>1, GetForUpdateGrants, GrantsKeepControl, MovesKeepControl
<1>2. CASE Rollback(s)
  BY <1>2, EndMoves, MovesKeepControl, NoUnitInControl
<1>3. ASSUME NEW rows, NEW posts, NEW t, Commit(s, rows, posts, t)
      PROVE  ControlInv'
  BY <1>3, EndMoves, MovesKeepControl, NoUnitInControl
<1>4. ASSUME NEW v, Moves(s, v), DOMAIN v = Fields, v.req = u.req, u.pc # "none",
             u.pc \in Statements(u.req.op) => v.pc \in Statements(v.req.op),
             AuctionsFirst(v)
      PROVE  ControlInv'
  <2>1. InControl(s, v)
    BY <1>0, <1>4, NoUnitInControl DEF InControl, AtStatement
  <2> QED  BY <1>4, <2>1, MovesKeepControl
<1>w. u.pc \in {"due", "next", "settle"} => u.req.op = "settle"
  <2>1. CASE s \in Clients /\ Admitted(u.req) /\ u.pc \in Statements(u.req.op)
    BY <2>1, AdmittedOps, StatementsAre
  <2>2. CASE u.req = [op |-> "settle"]
    BY <2>2
  <2> QED  BY <1>0, <2>1, <2>2, NoUnitInControl DEF InControl, AtStatement
<1>b. u.pc = "place" => u.req.op = "bid"
  <2>1. CASE s \in Clients /\ Admitted(u.req) /\ u.pc \in Statements(u.req.op)
    BY <2>1, AdmittedOps, StatementsAre
  <2>2. CASE u.req = [op |-> "settle"] /\ u.pc \in Statements(u.req.op)
    BY <2>2, StatementsAre
  <2> QED  BY <1>0, <2>1, <2>2, NoUnitInControl DEF InControl, AtStatement
<1>5. CASE DueForUpdate(s)
  <2>1. PICK v :
           /\ Moves(s, v) /\ SameUnit(u, v) /\ u.pc = "due"
           /\ \/ \E x \in u.todo :
                     v.rows = Put(u.rows, AuctionRow(x), auctions[x]) /\ v.pc = "due"
              \/ v.pc = "next"
    BY <1>5, DueForUpdateGrants, Zenon
  <2>2. AuctionsFirst(v)
    BY <1>0, <2>1 DEF AuctionsFirst, Put, InControl
  <2> QED  BY <1>4, <1>w, <2>1, <2>2, StatementsAre DEF SameUnit
<1>6. CASE Place(s)
  <2>1. CASE Rollback(s)  BY <1>2, <2>1
  <2>2. ASSUME NEW v, PassesCheck(s, v), u.pc = "place"
        PROVE  ControlInv'
    <3>1. Moves(s, v) /\ SameUnit(u, v) /\ v.pc \in {"leader", "reserve"}
      BY <2>2 DEF PassesCheck
    <3>2. AuctionsFirst(v)
      BY <3>1 DEF AuctionsFirst
    <3> QED  BY <1>4, <1>b, <2>2, <3>1, <3>2, StatementsAre DEF SameUnit
  <2> QED  BY <1>6, <2>1, <2>2, PlaceMoves
<1>7. CASE NextLot(s)
  <2>1. ASSUME NEW x, NEW v, TurnsTo(s, x, v), u.pc = "next"
        PROVE  ControlInv'
    <3>1. Moves(s, v) /\ SameUnit(u, v) /\ v.pc = "lot"
      BY <2>1 DEF TurnsTo
    <3>2. AuctionsFirst(v)
      BY <3>1 DEF AuctionsFirst
    <3> QED  BY <1>4, <1>w, <2>1, <3>1, <3>2, StatementsAre DEF SameUnit
  <2> QED  BY <1>3, <1>7, <2>1, NextLotMoves
<1>8. CASE SettleOne(s)
  <2>1. CASE Rollback(s)  BY <1>2, <2>1
  <2>2. ASSUME NEW v, Settles(s, v), u.pc = "settle"
        PROVE  ControlInv'
    <3>1. Moves(s, v) /\ DOMAIN v = Fields /\ v.req = u.req /\ v.pc = "next"
      BY <2>2 DEF Settles, LotDone
    <3>2. AuctionsFirst(v)
      BY <3>1 DEF AuctionsFirst
    <3> QED  BY <1>4, <1>w, <2>2, <3>1, <3>2, StatementsAre
  <2> QED  BY <1>8, <2>1, <2>2, SettleOneMoves
<1>9. CASE NotFound(s) \/ Sell(s) \/ ReserveBid(s) \/ Cancel(s) \/ ReadWallet(s)
  <2>1. Rollback(s) \/ \E rows, posts, t : Commit(s, rows, posts, t)
    BY <1>9, Zenon DEF NotFound, Sell, ReserveBid, Cancel, ReadWallet
  <2> QED  BY <1>2, <1>3, <2>1
<1> QED  BY <1>1, <1>5, <1>6, <1>7, <1>8, <1>9 DEF Advance

(* Control is kept by every step.                                          *)
LEMMA NextKeepsControl ==
    ASSUME ControlInv, [PgNext]_pgVars
    PROVE  ControlInv'
<1>1. ASSUME UNCHANGED unit
      PROVE  ControlInv'
  BY <1>1 DEF ControlInv, InControl, AtStatement, AuctionsFirst
<1>2. ASSUME NEW s \in Sessions, Rollback(s)
      PROVE  ControlInv'
  BY <1>2, EndMoves, MovesKeepControl, NoUnitInControl
<1>3. ASSUME NEW s \in Clients, NEW req \in Requests, Begin(s, req)
      PROVE  ControlInv'
  <2> DEFINE v == Opened(req)
  <2>1. s \in Sessions /\ Admitted(req) /\ unit' = [unit EXCEPT ![s] = v]
    BY <1>3 DEF Begin, Admitted, Sessions
  <2>2. Head(Program[req.op]) \in Statements(req.op) \ {"due"}
    BY <2>1, AdmittedOps, StatementsAre DEF Program
  <2>3. DOMAIN v = Fields /\ v.req = req /\ v.pc = Head(Program[req.op])
           /\ DOMAIN v.rows = {}
    BY OpenedIs
  <2> HIDE DEF v
  <2>4. InControl(s, v)
    BY <2>1, <2>2, <2>3 DEF InControl, AtStatement, AuctionsFirst
  <2> QED  BY <2>1, <2>4, ExceptMoves, MovesKeepControl
<1>4. CASE BeginSettlement
  <2> DEFINE w == Opened([op |-> "settle"])
             v == [w EXCEPT !.t = now, !.todo = DueAuctions(now)]
  <2>1. DOMAIN w = Fields /\ w.req = [op |-> "settle"] /\ w.pc = Head(Program["settle"])
           /\ DOMAIN w.rows = {}
    BY OpenedIs
  <2>2. Head(Program["settle"]) = "due"
    BY DEF Program
  <2> HIDE DEF w
  <2>3. DOMAIN v = Fields /\ v.req = [op |-> "settle"] /\ v.pc = "due"
           /\ DOMAIN v.rows = {}
    BY <2>1, <2>2 DEF Fields
  <2>4. unit' = [unit EXCEPT ![Worker] = v]
    BY <1>4 DEF BeginSettlement, w
  <2> HIDE DEF v
  <2>5. InControl(Worker, v)
    BY <2>3, StatementsAre DEF InControl, AtStatement, AuctionsFirst
  <2> QED  BY <2>4, <2>5, ExceptMoves, MovesKeepControl DEF Sessions
<1>5. CASE BreakDeadlock
  <2>1. \E s \in Sessions : Rollback(s)
    BY <1>5 DEF BreakDeadlock
  <2> QED  BY <1>2, <2>1
<1>6. ASSUME NEW s \in Clients, Interrupt(s)
      PROVE  ControlInv'
  BY <1>2, <1>6 DEF Interrupt, Sessions
<1> QED  BY <1>1, <1>3, <1>4, <1>5, <1>6, AdvanceKeepsControl DEF PgNext, pgVars, vars

(* Every unit is where its program says, whatever the interleaving.        *)
THEOREM UnitsInControl == PgSpec => []ControlInv
<1>1. PgInit => ControlInv
  BY NoUnitInControl DEF PgInit, ControlInv
<1>2. ControlInv /\ [PgNext]_pgVars => ControlInv'
  BY NextKeepsControl
<1> QED  BY <1>1, <1>2, PTL DEF PgSpec

(* Only the two reads of auctions ask for one.                             *)
LEMMA WantsAuction ==
    ASSUME NEW u, NEW x, AuctionRow(x) \in Wants(u)
    PROVE  u.pc \in {"auction", "due"}
<1>1. \/ u.pc \in {"auction", "due"}
      \/ Wants(u) = {}
      \/ \E i : Wants(u) = {ItemRow(i)}
      \/ \E g : Wants(u) = {WalletRow(g)}
  BY DEF Wants
<1> QED  BY <1>1, RowsDiffer

(* In a deadlock everyone is waited for: without the one who is not, the   *)
(* others would be a smaller deadlock.                                     *)
LEMMA DeadlockedAreWaitedFor ==
    ASSUME NEW C, Deadlocked(C), NEW s \in C
    PROVE  \E o \in C : WaitsFor(o, s)
<1>1. SUFFICES ASSUME \A o \in C : ~WaitsFor(o, s)
               PROVE  FALSE
  OBVIOUS
<1> DEFINE D == C \ {s}
<1>2. \A o \in C : \E p \in D : WaitsFor(o, p)
  BY <1>1 DEF Deadlocked
<1>3. D \in (SUBSET C) \ {C, {}}
  BY <1>2
<1> QED  BY <1>2, <1>3 DEF Deadlocked

(* A unit that waits for an auction is in no deadlock (store.go:147).  A   *)
(* bid or a withdrawal holds nothing then, so nobody waits for it; the     *)
(* worker holds auctions, and only such a bid or withdrawal waits for it.  *)
THEOREM AuctionsNeverDeadlock == PgSpec => []DeadlocksSpareAuctions
<1>1. ASSUME ControlInv
      PROVE  DeadlocksSpareAuctions
  <2>1. SUFFICES ASSUME NEW C \in SUBSET Sessions, Deadlocked(C), NEW s \in C,
                        unit[s].pc \in {"auction", "due"}
                 PROVE  FALSE
    BY DEF DeadlocksSpareAuctions
  <2>2. \A o \in C : unit[o].pc # "auction"
    <3>1. SUFFICES ASSUME NEW o \in C, unit[o].pc = "auction"
                   PROVE  FALSE
      OBVIOUS
    <3>2. DOMAIN unit[o].rows = {}
      BY <1>1, <2>1, <3>1 DEF ControlInv, InControl, AuctionsFirst
    <3> QED  BY <2>1, <3>2, DeadlockedAreWaitedFor DEF WaitsFor
  <2>3. unit[s].pc = "due" /\ s = Worker
    <3>1. InControl(s, unit[s]) /\ unit[s].pc = "due"
      BY <1>1, <2>1, <2>2 DEF ControlInv
    <3>2. ASSUME Admitted(unit[s].req), unit[s].pc \in Statements(unit[s].req.op)
          PROVE  FALSE
      BY <3>1, <3>2, AdmittedOps, StatementsAre
    <3> QED  BY <3>1, <3>2, NoUnitInControl DEF InControl, AtStatement
  <2>4. PICK o \in C : WaitsFor(o, s)
    BY <2>1, DeadlockedAreWaitedFor
  <2>5. PICK x : AuctionRow(x) \in Wants(unit[o])
    BY <1>1, <2>1, <2>3, <2>4 DEF WaitsFor, ControlInv, InControl, AuctionsFirst
  <2>6. unit[o].pc = "due" /\ o # s
    BY <2>2, <2>4, <2>5, WantsAuction DEF WaitsFor
  <2>7. o = Worker
    <3>1. InControl(o, unit[o])
      BY <1>1, <2>1 DEF ControlInv
    <3>2. ASSUME Admitted(unit[o].req), unit[o].pc \in Statements(unit[o].req.op)
          PROVE  FALSE
      BY <2>6, <3>2, AdmittedOps, StatementsAre
    <3> QED  BY <2>6, <3>1, <3>2, NoUnitInControl DEF InControl, AtStatement
  <2> QED  BY <2>3, <2>6, <2>7
<1> QED  BY <1>1, UnitsInControl, PTL

-----------------------------------------------------------------------------
(* Data.  What a unit holds is what is committed, or for the settlement    *)
(* unit what is committed with some of the due auctions settled, and       *)
(* nobody else holds it.                                                   *)

Holds(u, r) == r \in DOMAIN u.rows

Exclusive ==
    \A s, o \in Sessions : s # o => DOMAIN unit[s].rows \cap DOMAIN unit[o].rows = {}

Copies(u) == \A r \in DOMAIN u.rows : r \in Rows /\ u.rows[r] = Committed(r)

(* The bid passed the check at u.t and would pass it still.                *)
BidChecked(u) ==
    /\ u.t \in 0..now
    /\ CanPlaceBid(auctions[u.lot], u.req.guild, u.req.amount, u.t)
    /\ WithinDailyCap(DailyCap[u.req.guild],
                      SpentSince(u.req.guild, Day(u.t)), u.req.amount)

(* What the unit of a client has locked so far.                            *)
Gathered(u) ==
    /\ u.req.op = "purchase" =>
        /\ u.pc # "item" => Holds(u, ItemRow(u.req.item))
        /\ u.pc \in {"seller", "sell"} => Holds(u, WalletRow(u.req.guild))
        /\ u.pc = "sell" => Holds(u, WalletRow(items[u.req.item].seller))
    /\ u.req.op \in {"bid", "cancel"} /\ u.pc # "auction" =>
        u.lot \in ActiveAuctions(u.req.item) /\ Holds(u, AuctionRow(u.lot))
    /\ u.req.op = "bid" /\ u.pc \in {"place", "leader", "reserve"} =>
        Holds(u, WalletRow(u.req.guild))
    /\ u.req.op = "bid" /\ u.pc \in {"leader", "reserve"} => BidChecked(u)
    /\ u.req.op = "bid" /\ u.pc = "reserve" /\ HighestBid(auctions[u.lot]) # 0 =>
        Holds(u, WalletRow(Leader(auctions[u.lot]).guild))

ClientInv(u) == Copies(u) /\ Gathered(u)

(* The settlement unit while it locks the due auctions.                    *)
Collecting(u) ==
    /\ Copies(u)
    /\ u.todo \subseteq DOMAIN auctions
    /\ u.due \subseteq DueAuctions(u.t)
    /\ \A x \in u.due : Holds(u, AuctionRow(x))
    /\ DueAuctions(u.t) \subseteq u.todo \cup u.due
    /\ u.posts = <<>>

(* The due auctions it has settled.                                        *)
Done(u) == DueAuctions(u.t) \ u.due

(* The gold a sequence of entries posts under key k at time t.             *)
KeyOf(e, t) == <<e.guild, e.type, e.item, Day(t)>>
PostedUnder(posts, k, t) ==
    GoldIn([n \in DOMAIN posts |-> posts[n].amount],
           {n \in DOMAIN posts : k = KeyOf(posts[n], t)})

(* The auctions of S that post under k when they are settled.              *)
PostingUnder(S, k, t) ==
    {x \in Won(S) :
        \/ k = <<Leader(auctions[x]).guild, "settle", auctions[x].item, Day(t)>>
        \/ k = <<auctions[x].seller, "credit", auctions[x].item, Day(t)>>}

(* Its version of every row it holds has the auctions of S settled, and it *)
(* holds every row that settling them touches.                             *)
SettledSoFar(u, S) ==
    /\ \A r \in DOMAIN u.rows : r \in Rows
    /\ \A x : Holds(u, AuctionRow(x)) =>
        u.rows[AuctionRow(x)] = IF x \in S THEN [auctions[x] EXCEPT !.status = "settled"]
                                ELSE auctions[x]
    /\ \A i : Holds(u, ItemRow(i)) => u.rows[ItemRow(i)] = SettledItems(S)[i]
    /\ \A g : Holds(u, WalletRow(g)) => u.rows[WalletRow(g)] = SettledWallets(S)[g]
    /\ \A x \in S : Holds(u, AuctionRow(x)) /\ Holds(u, ItemRow(auctions[x].item))
    /\ \A x \in Won(S) : /\ Holds(u, WalletRow(Leader(auctions[x]).guild))
                         /\ Holds(u, WalletRow(auctions[x].seller))
                         /\ IsPositive(Leads[x])

PostedSoFar(u, S) ==
    /\ u.posts \in Seq([guild : Registered, type : LedgerTypes,
                        item : ItemIDs, amount : Nat])
    /\ \A k \in LedgerKeys :
        PostedUnder(u.posts, k, u.t) = GoldIn(Leads, PostingUnder(S, k, u.t))
    /\ \A n \in DOMAIN u.posts : Holds(u, WalletRow(u.posts[n].guild))

(* The lot at hand and the rows locked for it.                             *)
AtLot(u) ==
    LET a == auctions[u.lot]
    IN  /\ u.lot \in u.due
        /\ u.pc # "lot" => Holds(u, ItemRow(a.item))
        /\ u.pc \in {"leader", "payee"} => HighestBid(a) # 0
        /\ u.pc \in {"payee", "settle"} /\ HighestBid(a) # 0 =>
             Holds(u, WalletRow(Leader(a).guild))
        /\ u.pc = "settle" /\ HighestBid(a) # 0 => Holds(u, WalletRow(a.seller))

Settling(u) ==
    /\ u.due \subseteq DueAuctions(u.t)
    /\ \A x \in DueAuctions(u.t) : Holds(u, AuctionRow(x))
    /\ SettledSoFar(u, Done(u))
    /\ PostedSoFar(u, Done(u))
    /\ u.pc # "next" => AtLot(u)

WorkerInv(u) ==
    u.req.op = "settle" =>
        /\ u.t \in 0..now
        /\ u.pc = "due" => Collecting(u)
        /\ u.pc # "due" => Settling(u)

DataInv ==
    /\ Exclusive
    /\ \A s \in Clients : \A u : u = unit[s] => ClientInv(u)
    /\ \A u : u = unit[Worker] => WorkerInv(u)

(* The rows of the tables.                                                 *)
LEMMA RowsAre ==
    /\ \A i : ItemRow(i) \in Rows <=> i \in DOMAIN items
    /\ \A g : WalletRow(g) \in Rows <=> g \in DOMAIN wallets
    /\ \A x : AuctionRow(x) \in Rows <=> x \in DOMAIN auctions
    /\ \A r \in Rows : \/ \E i \in DOMAIN items : r = ItemRow(i)
                       \/ \E g \in DOMAIN wallets : r = WalletRow(g)
                       \/ \E x \in DOMAIN auctions : r = AuctionRow(x)
BY RowsDiffer DEF Rows

(* The same after a step.                                                  *)
LEMMA RowsAreNext ==
    /\ \A i : (ItemRow(i) \in Rows') <=> i \in DOMAIN items'
    /\ \A g : (WalletRow(g) \in Rows') <=> g \in DOMAIN wallets'
    /\ \A x : (AuctionRow(x) \in Rows') <=> x \in DOMAIN auctions'
BY RowsDiffer DEF Rows

(* What the rows of a client's unit are, table by table.                   *)
LEMMA CopiesAre ==
    ASSUME NEW u, Copies(u)
    PROVE  /\ \A i : Holds(u, ItemRow(i)) =>
                       i \in DOMAIN items /\ u.rows[ItemRow(i)] = items[i]
           /\ \A g : Holds(u, WalletRow(g)) =>
                       g \in DOMAIN wallets /\ u.rows[WalletRow(g)] = wallets[g]
           /\ \A x : Holds(u, AuctionRow(x)) =>
                       x \in DOMAIN auctions /\ u.rows[AuctionRow(x)] = auctions[x]
BY RowsAre, CommittedIs DEF Copies, Holds

(* A step of the tables that leaves alone what unit u holds.               *)
Spares(u) ==
    /\ now \in Nat /\ now' \in Nat /\ now <= now'
    /\ DOMAIN items \subseteq DOMAIN items'
    /\ DOMAIN wallets' = DOMAIN wallets
    /\ DOMAIN auctions \subseteq DOMAIN auctions'
    /\ \A i \in DOMAIN items : Holds(u, ItemRow(i)) => items'[i] = items[i]
    /\ \A g \in DOMAIN wallets : Holds(u, WalletRow(g)) =>
         wallets'[g] = wallets[g] /\ \A d : SpentSince(g, d)' = SpentSince(g, d)
    /\ \A x \in DOMAIN auctions : Holds(u, AuctionRow(x)) => auctions'[x] = auctions[x]

(* Copies stay copies.                                                     *)
LEMMA SparesCopies ==
    ASSUME NEW u, Copies(u), Spares(u)
    PROVE  Copies(u)'
<1>1. ASSUME NEW r \in DOMAIN u.rows
      PROVE  r \in Rows' /\ Committed(r)' = Committed(r)
  <2>1. r \in Rows
    BY DEF Copies
  <2>2. CASE \E i \in DOMAIN items : r = ItemRow(i)
    <3>1. PICK i \in DOMAIN items : r = ItemRow(i)
      BY <2>2
    <3>2. i \in DOMAIN items' /\ items'[i] = items[i]
      BY <3>1 DEF Spares, Holds
    <3> QED  BY <3>1, <3>2, RowsAreNext DEF Committed, ItemRow
  <2>3. CASE \E g \in DOMAIN wallets : r = WalletRow(g)
    <3>1. PICK g \in DOMAIN wallets : r = WalletRow(g)
      BY <2>3
    <3>2. g \in DOMAIN wallets' /\ wallets'[g] = wallets[g]
      BY <3>1 DEF Spares, Holds
    <3> QED  BY <3>1, <3>2, RowsAreNext DEF Committed, WalletRow
  <2>4. CASE \E x \in DOMAIN auctions : r = AuctionRow(x)
    <3>1. PICK x \in DOMAIN auctions : r = AuctionRow(x)
      BY <2>4
    <3>2. x \in DOMAIN auctions' /\ auctions'[x] = auctions[x]
      BY <3>1 DEF Spares, Holds
    <3> QED  BY <3>1, <3>2, RowsAreNext DEF Committed, AuctionRow
  <2> QED  BY <2>1, <2>2, <2>3, <2>4, RowsAre
<1> QED  BY <1>1 DEF Copies

(* The unit of a client is not disturbed by what the others do.            *)
LEMMA SparesClient ==
    ASSUME NEW u, ClientInv(u), Spares(u)
    PROVE  ClientInv(u)'
<1>1. Copies(u) /\ Copies(u)'
  BY SparesCopies DEF ClientInv
<1>2. ASSUME Holds(u, AuctionRow(u.lot)), NEW i, u.lot \in ActiveAuctions(i)
      PROVE  auctions'[u.lot] = auctions[u.lot] /\ u.lot \in ActiveAuctions(i)'
  BY <1>2 DEF Spares, ActiveAuctions
<1>3. ASSUME Holds(u, WalletRow(u.req.guild)), Holds(u, AuctionRow(u.lot)), BidChecked(u)
      PROVE  BidChecked(u)'
  <2>1. /\ u.req.guild \in DOMAIN wallets
        /\ u.lot \in DOMAIN auctions
    BY <1>1, <1>3, CopiesAre
  <2>2. /\ auctions'[u.lot] = auctions[u.lot]
        /\ \A d : SpentSince(u.req.guild, d)' = SpentSince(u.req.guild, d)
        /\ u.t \in 0..now'
    BY <1>3, <2>1 DEF Spares, BidChecked
  <2> QED  BY <1>3, <2>2 DEF BidChecked, Day
<1>4. ASSUME Holds(u, ItemRow(u.req.item))
      PROVE  items'[u.req.item] = items[u.req.item]
  BY <1>1, <1>4, CopiesAre DEF Spares
<1>5. Gathered(u)'
  <2>1. Gathered(u)
    BY DEF ClientInv
  <2>2. u.req.op = "purchase" =>
          /\ u.pc # "item" => Holds(u, ItemRow(u.req.item))
          /\ u.pc \in {"seller", "sell"} => Holds(u, WalletRow(u.req.guild))
          /\ u.pc = "sell" => Holds(u, WalletRow(items'[u.req.item].seller))
    BY <1>4, <2>1 DEF Gathered
  <2>3. u.req.op \in {"bid", "cancel"} /\ u.pc # "auction" =>
          /\ (u.lot \in ActiveAuctions(u.req.item)') /\ Holds(u, AuctionRow(u.lot))
          /\ auctions'[u.lot] = auctions[u.lot]
    BY <1>2, <2>1 DEF Gathered
  <2>4. u.req.op = "bid" /\ u.pc \in {"place", "leader", "reserve"} =>
          Holds(u, WalletRow(u.req.guild))
    BY <2>1 DEF Gathered
  <2>5. u.req.op = "bid" /\ u.pc \in {"leader", "reserve"} => BidChecked(u)'
    BY <1>3, <2>1, <2>3, <2>4 DEF Gathered
  <2>6. u.req.op = "bid" /\ u.pc = "reserve" /\ HighestBid(auctions'[u.lot]) # 0 =>
          Holds(u, WalletRow(Leader(auctions'[u.lot]).guild))
    BY <2>1, <2>3 DEF Gathered
  <2> QED  BY <2>2, <2>3, <2>4, <2>5, <2>6 DEF Gathered, Holds
<1> QED  BY <1>1, <1>5 DEF ClientInv

(* What settling the auctions of S means only depends on their rows.       *)
LEMMA SettledSame ==
    ASSUME NEW S, S \subseteq DOMAIN auctions, S \subseteq DOMAIN auctions',
           \A x \in S : auctions'[x] = auctions[x]
    PROVE  /\ Won(S)' = Won(S)
           /\ \A x \in S : Leads'[x] = Leads[x]
           /\ \A i \in DOMAIN items \cap DOMAIN items' :
                items'[i] = items[i] => SettledItems(S)'[i] = SettledItems(S)[i]
           /\ \A g \in DOMAIN wallets \cap DOMAIN wallets' :
                wallets'[g] = wallets[g] => SettledWallets(S)'[g] = SettledWallets(S)[g]
           /\ \A k, t : /\ PostingUnder(S, k, t)' = PostingUnder(S, k, t)
                        /\ GoldIn(Leads', PostingUnder(S, k, t)') =
                             GoldIn(Leads, PostingUnder(S, k, t))
<1>1. Won(S)' = Won(S)
  BY DEF Won
<1>2. \A x \in S : Leads'[x] = Leads[x]
  BY DEF Leads
<1>3. ASSUME NEW i \in DOMAIN items \cap DOMAIN items', items'[i] = items[i]
      PROVE  SettledItems(S)'[i] = SettledItems(S)[i]
  <2>1. /\ (i \in {auctions'[x].item : x \in Won(S)'}) <=>
             i \in {auctions[x].item : x \in Won(S)}
        /\ (i \in {auctions'[x].item : x \in S}) <=> i \in {auctions[x].item : x \in S}
    BY <1>1 DEF Won
  <2> QED  BY <1>3, <2>1 DEF SettledItems
<1>4. ASSUME NEW g \in DOMAIN wallets \cap DOMAIN wallets', wallets'[g] = wallets[g]
      PROVE  SettledWallets(S)'[g] = SettledWallets(S)[g]
  <2>1. (LedBy(g)' \cap S) = LedBy(g) \cap S /\ SoldBy(g, S)' = SoldBy(g, S)
    BY <1>1 DEF LedBy, SoldBy, Won
  <2>2. LedBy(g) \cap S \subseteq S /\ SoldBy(g, S) \subseteq S
    BY DEF SoldBy, Won
  <2>3. GoldIn(Leads', LedBy(g)' \cap S) = GoldIn(Leads, LedBy(g) \cap S)
    BY <1>2, <2>1, <2>2, GoldInEq
  <2>4. GoldIn(Leads', SoldBy(g, S)') = GoldIn(Leads, SoldBy(g, S))
    BY <1>2, <2>1, <2>2, GoldInEq
  <2> QED  BY <1>4, <2>3, <2>4 DEF SettledWallets
<1>5. ASSUME NEW k, NEW t
      PROVE  /\ PostingUnder(S, k, t)' = PostingUnder(S, k, t)
             /\ GoldIn(Leads', PostingUnder(S, k, t)') = GoldIn(Leads, PostingUnder(S, k, t))
  <2>1. \A x \in Won(S) : x \in S
    BY DEF Won
  <2>2. PostingUnder(S, k, t)' = PostingUnder(S, k, t)
    BY <1>1, <2>1 DEF PostingUnder, Day
  <2>3. PostingUnder(S, k, t) \subseteq S
    BY <2>1 DEF PostingUnder
  <2> QED  BY <1>2, <2>2, <2>3, GoldInEq
<1> QED  BY <1>1, <1>2, <1>3, <1>4, <1>5

(* The settlement unit is not disturbed by the others, as long as no       *)
(* auction becomes due at its reading.                                     *)
LEMMA SparesWorker ==
    ASSUME NEW u, WorkerInv(u), Spares(u), u.req.op = "settle",
           DueAuctions(u.t)' \subseteq DueAuctions(u.t)
    PROVE  WorkerInv(u)'
<1>1. u.t \in 0..now'
  BY DEF WorkerInv, Spares
<1>2. \A x \in DOMAIN auctions : Holds(u, AuctionRow(x)) =>
        auctions'[x] = auctions[x] /\ x \in DOMAIN auctions'
  BY DEF Spares
<1>3. CASE u.pc = "due"
  <2>1. Collecting(u)
    BY <1>3 DEF WorkerInv
  <2>2. Copies(u)'
    BY <2>1, SparesCopies DEF Collecting
  <2>3. \A x \in u.due : x \in DueAuctions(u.t)'
    BY <1>2, <2>1 DEF Collecting, DueAuctions
  <2>4. u.todo \subseteq DOMAIN auctions'
    BY <2>1 DEF Collecting, Spares
  <2>5. Collecting(u)'
    BY <2>1, <2>2, <2>3, <2>4 DEF Collecting, Holds
  <2> QED  BY <1>1, <1>3, <2>5 DEF WorkerInv
<1>4. CASE u.pc # "due"
  <2>1. Settling(u)
    BY <1>4 DEF WorkerInv
  <2>2. DueAuctions(u.t)' = DueAuctions(u.t)
    <3>1. \A x \in DueAuctions(u.t) : x \in DueAuctions(u.t)'
      BY <1>2, <2>1 DEF Settling, DueAuctions
    <3> QED  BY <3>1
  <2>3. PICK S : S = Done(u)
    OBVIOUS
  <2>4. S = Done(u)'
    BY <2>2, <2>3 DEF Done
  <2>5. /\ S \subseteq DOMAIN auctions /\ S \subseteq DOMAIN auctions'
        /\ \A x \in S : auctions'[x] = auctions[x]
    BY <1>2, <2>1, <2>3 DEF Settling, Done, DueAuctions
  <2>6. SettledSoFar(u, S) /\ PostedSoFar(u, S)
    BY <2>1, <2>3 DEF Settling
  <2>7. SettledSoFar(u, S)'
    <3>1. \A r \in DOMAIN u.rows : r \in Rows'
      <4>1. SUFFICES ASSUME NEW r \in DOMAIN u.rows PROVE r \in Rows'
        OBVIOUS
      <4>2. r \in Rows
        BY <2>6 DEF SettledSoFar
      <4> QED  BY <4>2, RowsAre, RowsAreNext DEF Spares
    <3>2. ASSUME NEW x, Holds(u, AuctionRow(x))
          PROVE  u.rows[AuctionRow(x)] =
                   IF x \in S THEN [auctions'[x] EXCEPT !.status = "settled"]
                   ELSE auctions'[x]
      <4>1. x \in DOMAIN auctions
        BY <2>6, <3>2, RowsAre DEF SettledSoFar, Holds
      <4>2. auctions'[x] = auctions[x]
        BY <1>2, <3>2, <4>1
      <4> QED  BY <2>6, <3>2, <4>2 DEF SettledSoFar
    <3>3. ASSUME NEW i, Holds(u, ItemRow(i))
          PROVE  u.rows[ItemRow(i)] = SettledItems(S)'[i]
      <4>1. i \in DOMAIN items
        BY <2>6, <3>3, RowsAre DEF SettledSoFar, Holds
      <4>2. i \in DOMAIN items' /\ items'[i] = items[i]
        BY <3>3, <4>1 DEF Spares
      <4> QED  BY <2>5, <2>6, <3>3, <4>1, <4>2, SettledSame DEF SettledSoFar
    <3>4. ASSUME NEW g, Holds(u, WalletRow(g))
          PROVE  u.rows[WalletRow(g)] = SettledWallets(S)'[g]
      <4>1. g \in DOMAIN wallets
        BY <2>6, <3>4, RowsAre DEF SettledSoFar, Holds
      <4>2. g \in DOMAIN wallets' /\ wallets'[g] = wallets[g]
        BY <3>4, <4>1 DEF Spares
      <4> QED  BY <2>5, <2>6, <3>4, <4>1, <4>2, SettledSame DEF SettledSoFar
    <3>5. \A x \in S : Holds(u, AuctionRow(x)) /\ Holds(u, ItemRow(auctions'[x].item))
      BY <2>5, <2>6 DEF SettledSoFar
    <3>6. \A x \in Won(S)' : /\ Holds(u, WalletRow(Leader(auctions'[x]).guild))
                             /\ Holds(u, WalletRow(auctions'[x].seller))
                             /\ IsPositive(Leads'[x])
      <4>1. SUFFICES ASSUME NEW x \in Won(S)'
                     PROVE  /\ Holds(u, WalletRow(Leader(auctions'[x]).guild))
                            /\ Holds(u, WalletRow(auctions'[x].seller))
                            /\ IsPositive(Leads'[x])
        OBVIOUS
      <4>2. x \in Won(S) /\ x \in S /\ Leads'[x] = Leads[x]
        BY <2>5, SettledSame DEF Won
      <4> QED  BY <2>5, <2>6, <4>2 DEF SettledSoFar
    <3> QED  BY <3>1, <3>2, <3>3, <3>4, <3>5, <3>6 DEF SettledSoFar, Holds
  <2>8. PostedSoFar(u, S)'
    <3>1. ASSUME NEW k \in LedgerKeys
          PROVE  PostedUnder(u.posts, k, u.t) = GoldIn(Leads', PostingUnder(S, k, u.t)')
      <4>1. PostedUnder(u.posts, k, u.t) = GoldIn(Leads, PostingUnder(S, k, u.t))
        BY <2>6 DEF PostedSoFar
      <4> QED  BY <2>5, <4>1, SettledSame
    <3>2. \A k : PostedUnder(u.posts, k, u.t)' = PostedUnder(u.posts, k, u.t)
      BY DEF PostedUnder, KeyOf, Day
    <3>3. \A n \in DOMAIN u.posts : Holds(u, WalletRow(u.posts[n].guild))
      BY <2>6 DEF PostedSoFar
    <3> QED  BY <2>6, <3>1, <3>2, <3>3 DEF PostedSoFar, Holds
  <2>9. u.pc # "next" => AtLot(u)'
    <3>1. SUFFICES ASSUME u.pc # "next" PROVE AtLot(u)'
      OBVIOUS
    <3>2. AtLot(u) /\ u.lot \in DueAuctions(u.t)
      BY <2>1, <3>1 DEF Settling, AtLot
    <3>3. auctions'[u.lot] = auctions[u.lot]
      BY <1>2, <2>1, <3>2 DEF Settling, DueAuctions
    <3> QED  BY <3>2, <3>3 DEF AtLot, Holds
  <2>10. Settling(u)'
    BY <2>1, <2>2, <2>4, <2>7, <2>8, <2>9 DEF Settling, Holds
  <2> QED  BY <1>1, <1>4, <2>10 DEF WorkerInv
<1> QED  BY <1>3, <1>4

(* A commit changes rows that the unit holds, and posts spending of guilds *)
(* whose wallet it holds, so it spares every other unit.                   *)
LEMMA CommitSpares ==
    ASSUME TypeOK, Exclusive, NEW s \in Sessions, NEW o \in Sessions, o # s,
           NEW rows, NEW posts, NEW t, Commit(s, rows, posts, t),
           DOMAIN rows = DOMAIN unit[s].rows,
           \A n \in DOMAIN posts : posts[n].type \in {"debit", "settle"} =>
               WalletRow(posts[n].guild) \in DOMAIN rows
    PROVE  Spares(unit[o])
<1> DEFINE u == unit[o]
<1>1. \A r : Holds(u, r) => r \notin DOMAIN rows
  BY DEF Exclusive, Holds
<1>2. now \in Nat /\ now' = now
  BY DEF TypeOK, Commit
<1>3. /\ DOMAIN items' = DOMAIN items
      /\ \A i \in DOMAIN items : Holds(u, ItemRow(i)) => items'[i] = items[i]
  BY <1>1 DEF Commit, UpdateItem
<1>4. /\ DOMAIN wallets' = DOMAIN wallets
      /\ \A g \in DOMAIN wallets : Holds(u, WalletRow(g)) => wallets'[g] = wallets[g]
  BY <1>1 DEF Commit, UpdateWallet
<1>5. /\ DOMAIN auctions' = DOMAIN auctions
      /\ \A x \in DOMAIN auctions : Holds(u, AuctionRow(x)) => auctions'[x] = auctions[x]
  BY <1>1 DEF Commit, UpdateAuction
<1>6. ASSUME NEW g \in DOMAIN wallets, Holds(u, WalletRow(g)), NEW d
      PROVE  SpentSince(g, d)' = SpentSince(g, d)
  <2> DEFINE K == {g} \X {"debit", "settle"} \X ItemIDs \X {e \in Days : e >= d}
  <2>1. ASSUME NEW k \in K
        PROVE  ledger'[k] = ledger[k]
    <3>1. k \in LedgerKeys /\ k[1] = g /\ k[2] \in {"debit", "settle"}
      BY DEF LedgerKeys, LedgerTypes, TypeOK
    <3> DEFINE amounts == [n \in DOMAIN posts |-> posts[n].amount]
               mine == {n \in DOMAIN posts : k = <<posts[n].guild, posts[n].type,
                                                   posts[n].item, Day(t)>>}
    <3>2. mine = {}
      BY <1>1, <1>6, <3>1
    <3>3. ledger'[k] = ledger[k] + GoldIn(amounts, mine)
      BY <3>1, Zenon DEF Commit, AppendLedger
    <3>4. GoldIn(amounts, mine) = 0
      BY <3>2, GoldInEmpty
    <3>5. ledger[k] \in Nat
      BY <3>1 DEF TypeOK
    <3> HIDE DEF mine, amounts
    <3> QED  BY <3>3, <3>4, <3>5
  <2>2. GoldIn(ledger', K) = GoldIn(ledger, K)
    BY <2>1, GoldInEq
  <2>3. K' = K
    BY DEF Days, Day
  <2> QED  BY <2>2, <2>3 DEF SpentSince, Posted
<1> QED  BY <1>2, <1>3, <1>4, <1>5, <1>6 DEF Spares

-----------------------------------------------------------------------------
(* Ledger entries.                                                         *)

LedgerEntry == [guild : Registered, type : LedgerTypes, item : ItemIDs, amount : Nat]

(* One more entry adds its amount under its key.                           *)
LEMMA PostOne ==
    ASSUME NEW posts \in Seq(LedgerEntry), NEW e \in LedgerEntry, NEW k, NEW t
    PROVE  PostedUnder(Append(posts, e), k, t) =
             PostedUnder(posts, k, t) + (IF k = KeyOf(e, t) THEN e.amount ELSE 0)
<1> DEFINE more == Append(posts, e)
           f == [n \in DOMAIN posts |-> posts[n].amount]
           h == [n \in DOMAIN more |-> more[n].amount]
           S == {n \in DOMAIN posts : k = KeyOf(posts[n], t)}
           T == {n \in DOMAIN more : k = KeyOf(more[n], t)}
           z == Len(posts) + 1
<1>1. /\ more \in Seq(LedgerEntry) /\ Len(more) = z /\ z \in Nat
      /\ DOMAIN posts = 1..Len(posts) /\ DOMAIN more = 1..z
      /\ more[z] = e /\ \A n \in 1..Len(posts) : more[n] = posts[n]
  OBVIOUS
<1>2. T \ {z} = S /\ (z \in T <=> k = KeyOf(e, t))
  BY <1>1
<1>3. IsFiniteSet(T)
  <2>1. IsFiniteSet(1..z)
    BY <1>1, FS_Interval
  <2>2. T \subseteq 1..z
    BY <1>1
  <2> QED  BY <2>1, <2>2, FS_Subset
<1>4. \A n \in T : h[n] \in Nat
  <2>1. SUFFICES ASSUME NEW n \in T PROVE h[n] \in Nat
    OBVIOUS
  <2>2. more[n] \in LedgerEntry
    BY <1>1
  <2> QED  BY <2>2 DEF LedgerEntry
<1>5. h[z] = e.amount
  BY <1>1
<1>6. GoldIn(h, T) = GoldIn(h, T \ {z}) + (IF z \in T THEN h[z] ELSE 0)
  <2> HIDE DEF h, T, z
  <2> QED  BY <1>3, <1>4, GoldInPoint
<1>7. GoldIn(h, S) = GoldIn(f, S)
  <2>1. \A n \in S : h[n] = f[n]
    BY <1>1
  <2> HIDE DEF h, f, S
  <2> QED  BY <2>1, GoldInEq
<1>8. PostedUnder(more, k, t) = GoldIn(h, T) /\ PostedUnder(posts, k, t) = GoldIn(f, S)
  BY DEF PostedUnder
<1> HIDE DEF h, f, S, T, z, more
<1>9. PostedUnder(more, k, t) =
        PostedUnder(posts, k, t) + (IF k = KeyOf(e, t) THEN e.amount ELSE 0)
  BY <1>2, <1>5, <1>6, <1>7, <1>8
<1> QED  BY <1>9 DEF more

(* No entries post nothing; sums are natural.                              *)
LEMMA PostNone ==
    ASSUME NEW k, NEW t
    PROVE  PostedUnder(<<>>, k, t) = 0
BY GoldInEmpty DEF PostedUnder

(* Two more entries.                                                       *)
LEMMA PostTwo ==
    ASSUME NEW posts \in Seq(LedgerEntry), NEW e \in LedgerEntry, NEW f \in LedgerEntry
    PROVE  /\ posts \o <<e, f>> \in Seq(LedgerEntry)
           /\ \A k, t : PostedUnder(posts \o <<e, f>>, k, t) =
                          (PostedUnder(posts, k, t) + (IF k = KeyOf(e, t) THEN e.amount ELSE 0))
                             + (IF k = KeyOf(f, t) THEN f.amount ELSE 0)
<1>a. \A z \in Seq(LedgerEntry), d \in LedgerEntry : Append(z, d) \in Seq(LedgerEntry)
  OBVIOUS
<1>1. PICK p \in Seq(LedgerEntry) : p = Append(posts, e)
  BY <1>a, Zenon
<1>2. PICK q \in Seq(LedgerEntry) : q = Append(p, f)
  BY <1>a, Zenon
<1>3. posts \o <<e, f>> = q
  BY <1>1, <1>2
<1>4. ASSUME NEW k, NEW t
      PROVE  /\ PostedUnder(p, k, t) =
                  PostedUnder(posts, k, t) + (IF k = KeyOf(e, t) THEN e.amount ELSE 0)
             /\ PostedUnder(q, k, t) =
                  PostedUnder(p, k, t) + (IF k = KeyOf(f, t) THEN f.amount ELSE 0)
  <2>1. PostedUnder(Append(posts, e), k, t) =
          PostedUnder(posts, k, t) + (IF k = KeyOf(e, t) THEN e.amount ELSE 0)
    BY PostOne
  <2>2. PostedUnder(Append(p, f), k, t) =
          PostedUnder(p, k, t) + (IF k = KeyOf(f, t) THEN f.amount ELSE 0)
    BY PostOne
  <2> QED  BY <1>1, <1>2, <2>1, <2>2, Zenon
<1>5. ASSUME NEW k, NEW t
      PROVE  PostedUnder(q, k, t) =
               (PostedUnder(posts, k, t) + (IF k = KeyOf(e, t) THEN e.amount ELSE 0))
                  + (IF k = KeyOf(f, t) THEN f.amount ELSE 0)
  <2> DEFINE up(d) == IF k = KeyOf(d, t) THEN d.amount ELSE 0
  <2>1. /\ PostedUnder(p, k, t) = PostedUnder(posts, k, t) + up(e)
        /\ PostedUnder(q, k, t) = PostedUnder(p, k, t) + up(f)
    BY <1>4
  <2> HIDE DEF up
  <2>2. PostedUnder(q, k, t) = (PostedUnder(posts, k, t) + up(e)) + up(f)
    BY <2>1, Zenon
  <2> QED  BY <2>2 DEF up
<1> QED  BY <1>3, <1>5, Zenon

(* What a unit appends to the ledger, key by key.                          *)
LEMMA AppendLedgerIs ==
    ASSUME NEW posts, NEW t
    PROVE  /\ DOMAIN AppendLedger(posts, t) = LedgerKeys
           /\ \A k \in LedgerKeys :
                AppendLedger(posts, t)[k] = ledger[k] + PostedUnder(posts, k, t)
           /\ AppendLedger(posts, t) = [k \in LedgerKeys |-> AppendLedger(posts, t)[k]]
BY Zenon DEF AppendLedger, PostedUnder, KeyOf

(* A unit with one entry.                                                  *)
LEMMA AppendOne ==
    ASSUME TypeOK, NEW e \in LedgerEntry, NEW t
    PROVE  AppendLedger(<<e>>, t) = [ledger EXCEPT ![KeyOf(e, t)] = @ + e.amount]
<1>0. <<>> \in Seq(LedgerEntry)
  OBVIOUS
<1>1. PICK p \in Seq(LedgerEntry) : p = <<>>
  BY <1>0, Zenon
<1>e. <<e>> = Append(p, e)
  BY <1>1
<1>2. \A k : PostedUnder(<<e>>, k, t) = IF k = KeyOf(e, t) THEN e.amount ELSE 0
  <2>1. SUFFICES ASSUME NEW k
                 PROVE  PostedUnder(<<e>>, k, t) = IF k = KeyOf(e, t) THEN e.amount ELSE 0
    OBVIOUS
  <2>2. PostedUnder(Append(p, e), k, t) =
          PostedUnder(p, k, t) + (IF k = KeyOf(e, t) THEN e.amount ELSE 0)
    BY PostOne
  <2>3. e.amount \in Nat
    BY DEF LedgerEntry
  <2>4. PostedUnder(p, k, t) = 0
    BY <1>1, PostNone
  <2>5. PostedUnder(<<e>>, k, t) =
          PostedUnder(p, k, t) + (IF k = KeyOf(e, t) THEN e.amount ELSE 0)
    BY <1>e, <2>2, Zenon
  <2> QED  BY <2>3, <2>4, <2>5
<1>3. ledger \in [LedgerKeys -> Nat] /\ e.amount \in Nat
  BY DEF TypeOK, LedgerEntry
<1> DEFINE L == AppendLedger(<<e>>, t)
           M == [ledger EXCEPT ![KeyOf(e, t)] = @ + e.amount]
<1>4. /\ DOMAIN L = LedgerKeys /\ L = [k \in LedgerKeys |-> L[k]]
      /\ \A k \in LedgerKeys : L[k] = ledger[k] + PostedUnder(<<e>>, k, t)
  BY AppendLedgerIs, Zenon
<1>5. \A k \in LedgerKeys : L[k] = M[k]
  <2>1. SUFFICES ASSUME NEW k \in LedgerKeys PROVE L[k] = M[k]
    OBVIOUS
  <2>2. L[k] = ledger[k] + PostedUnder(<<e>>, k, t)
    BY <1>4
  <2> HIDE DEF L
  <2> QED  BY <1>2, <1>3, <2>2
<1>6. M = [k \in LedgerKeys |-> M[k]]
  BY <1>3
<1> HIDE DEF L, M
<1>7. L = M
  BY <1>4, <1>5, <1>6
<1> QED  BY <1>7 DEF L, M

(* A unit with two entries under different keys.                           *)
LEMMA AppendTwo ==
    ASSUME TypeOK, NEW e \in LedgerEntry, NEW f \in LedgerEntry, NEW t,
           KeyOf(e, t) # KeyOf(f, t)
    PROVE  AppendLedger(<<e, f>>, t) =
             [ledger EXCEPT ![KeyOf(e, t)] = @ + e.amount, ![KeyOf(f, t)] = @ + f.amount]
<1>0. <<>> \in Seq(LedgerEntry)
  OBVIOUS
<1>1. PICK p \in Seq(LedgerEntry) : p = <<>>
  BY <1>0, Zenon
<1>e. <<e, f>> = p \o <<e, f>>
  BY <1>1
<1>2. ASSUME NEW k
      PROVE  PostedUnder(<<e, f>>, k, t) = (IF k = KeyOf(e, t) THEN e.amount ELSE 0)
                                             + (IF k = KeyOf(f, t) THEN f.amount ELSE 0)
  <2>1. PostedUnder(p \o <<e, f>>, k, t) =
          (PostedUnder(p, k, t) + (IF k = KeyOf(e, t) THEN e.amount ELSE 0))
             + (IF k = KeyOf(f, t) THEN f.amount ELSE 0)
    BY PostTwo
  <2>2. PostedUnder(p, k, t) = 0
    BY <1>1, PostNone
  <2>3. e.amount \in Nat /\ f.amount \in Nat
    BY DEF LedgerEntry
  <2>4. PostedUnder(<<e, f>>, k, t) =
          (PostedUnder(p, k, t) + (IF k = KeyOf(e, t) THEN e.amount ELSE 0))
             + (IF k = KeyOf(f, t) THEN f.amount ELSE 0)
    BY <1>e, <2>1, Zenon
  <2> QED  BY <2>2, <2>3, <2>4
<1>3. ledger \in [LedgerKeys -> Nat] /\ e.amount \in Nat /\ f.amount \in Nat
  BY DEF TypeOK, LedgerEntry
<1> DEFINE L == AppendLedger(<<e, f>>, t)
           M == [ledger EXCEPT ![KeyOf(e, t)] = @ + e.amount, ![KeyOf(f, t)] = @ + f.amount]
<1>4. /\ DOMAIN L = LedgerKeys /\ L = [k \in LedgerKeys |-> L[k]]
      /\ \A k \in LedgerKeys : L[k] = ledger[k] + PostedUnder(<<e, f>>, k, t)
  BY AppendLedgerIs, Zenon
<1>5. \A k \in LedgerKeys : L[k] = M[k]
  <2>1. SUFFICES ASSUME NEW k \in LedgerKeys PROVE L[k] = M[k]
    OBVIOUS
  <2>2. L[k] = ledger[k] + PostedUnder(<<e, f>>, k, t)
    BY <1>4
  <2> HIDE DEF L
  <2> QED  BY <1>2, <1>3, <2>2
<1>6. M = [k \in LedgerKeys |-> M[k]]
  BY <1>3
<1> HIDE DEF L, M
<1>7. L = M
  BY <1>4, <1>5, <1>6
<1> QED  BY <1>7 DEF L, M

-----------------------------------------------------------------------------
(* Every commit is a step of Market.                                       *)

(* Session s commits versions of the rows it holds, and entries of guilds  *)
(* whose wallets are among them.                                           *)
CommitsOwn(s) ==
    \E rows, posts, t :
        /\ Commit(s, rows, posts, t)
        /\ DOMAIN rows = DOMAIN unit[s].rows
        /\ \A n \in DOMAIN posts : WalletRow(posts[n].guild) \in DOMAIN rows

(* Whose statement it is.                                                  *)
LEMMA OpAt ==
    ASSUME ControlInv, NEW s \in Sessions
    PROVE  LET u == unit[s]
           IN  /\ u.pc = "sell" => s \in Clients /\ u.req \in Purchases
               /\ u.pc \in {"place", "reserve"} =>
                    s \in Clients /\ u.req \in Bids /\ IsPositive(u.req.amount)
               /\ u.pc = "cancel" => s \in Clients /\ u.req \in Cancels
               /\ u.pc = "read" => s \in Clients /\ u.req \in WalletReads
               /\ u.pc \in {"due", "next", "lot", "payee", "settle"} =>
                    s = Worker /\ u.req.op = "settle"
               /\ s = Worker => u = NoUnit \/ u.req.op = "settle"
               /\ s = Worker => u.pc \in {"none", "due", "next", "lot", "leader",
                                          "payee", "settle"}
               /\ s \in Clients => u = NoUnit \/ Admitted(u.req)
<1> DEFINE u == unit[s]
<1>1. InControl(s, u) /\ Worker \notin Clients
  BY PostgresAssumption DEF ControlInv
<1>2. CASE u = NoUnit
  BY <1>1, <1>2, NoUnitInControl
<1>3. CASE s \in Clients /\ Admitted(u.req) /\ u.pc \in Statements(u.req.op)
  <2>1. u.req.op \in {"purchase", "bid", "cancel", "wallet"}
    BY <1>3, AdmittedOps
  <2>2. CASE u.req.op = "purchase"
    BY <1>1, <1>3, <2>2, AdmittedOps, StatementsAre
  <2>3. CASE u.req.op = "bid"
    <3>1. u.req \in Bids /\ IsPositive(u.req.amount)
      BY <1>3, <2>3, AdmittedOps DEF Admitted
    <3> QED  BY <1>1, <1>3, <2>3, <3>1, StatementsAre
  <2>4. CASE u.req.op = "cancel"
    BY <1>1, <1>3, <2>4, AdmittedOps, StatementsAre
  <2>5. CASE u.req.op = "wallet"
    BY <1>1, <1>3, <2>5, AdmittedOps, StatementsAre
  <2> QED  BY <2>1, <2>2, <2>3, <2>4, <2>5
<1>4. CASE s = Worker /\ u.req = [op |-> "settle"] /\ u.pc \in Statements(u.req.op)
  BY <1>1, <1>4, StatementsAre
<1> QED  BY <1>1, <1>2, <1>3, <1>4 DEF InControl, AtStatement

(* A reading a unit took is one that Market allows it to commit with.      *)
LEMMA AnyReading ==
    ASSUME TypeOK
    PROVE  \A t \in 0..now : t \in Readings /\ Day(t) \in Days
<1>1. now \in Nat /\ now <= MaxTime /\ MaxTime \in Nat /\ MaxLag \in Nat /\ MaxTime <= MaxLag
  BY ClockAssumption, PostgresAssumption DEF TypeOK
<1>2. DayLength \in Nat \ {0}
  BY ClockAssumption
<1> SUFFICES ASSUME NEW t \in 0..now
             PROVE  t \in Readings /\ Day(t) \in Days
  OBVIOUS
<1>3. t \in Readings
  BY <1>1 DEF Readings
<1>4. /\ t \div DayLength \in Int /\ 0 <= t \div DayLength
      /\ MaxTime \div DayLength \in Int
      /\ t \div DayLength <= MaxTime \div DayLength
  BY <1>1, <1>2, Z3
<1> QED  BY <1>3, <1>4 DEF Day, Days

(* A purchase that commits is Market's.                                    *)
LEMMA SellImplements ==
    ASSUME IInv, ControlInv, DataInv, NEW s \in Sessions, Sell(s)
    PROVE  \/ Rollback(s)
           \/ /\ CommitsOwn(s)
              /\ Next
<1> SUFFICES ASSUME ~Rollback(s)
             PROVE  /\ CommitsOwn(s)
                    /\ Next
  OBVIOUS
<1> DEFINE u == unit[s]
           i == u.req.item
           g == u.req.guild
           q == u.req.qty
           item == items[i]
           h == item.seller
           cost == Cost(item, q)
<1>1. u.pc = "sell" /\ s \in Clients /\ u.req \in Purchases
  BY OpAt DEF Sell
<1>2. Copies(u) /\ Gathered(u)
  BY <1>1 DEF DataInv, ClientInv
<1>3. i \in ItemIDs /\ g \in Guilds /\ q \in Quantities /\ q \in Int /\ u.req.op = "purchase"
  BY <1>1, RequestsAssumption DEF Purchases
<1>4. Holds(u, ItemRow(i)) /\ Holds(u, WalletRow(g)) /\ Holds(u, WalletRow(h))
  BY <1>1, <1>2, <1>3 DEF Gathered
<1>5. /\ i \in DOMAIN items /\ u.rows[ItemRow(i)] = item
      /\ g \in DOMAIN wallets /\ u.rows[WalletRow(g)] = wallets[g]
      /\ h \in DOMAIN wallets /\ u.rows[WalletRow(h)] = wallets[h]
  BY <1>2, <1>4, CopiesAre
<1> DEFINE rows == [u.rows EXCEPT ![ItemRow(i)] = SellTo(item, q),
                                  ![WalletRow(g)] = Debit(@, cost),
                                  ![WalletRow(h)] = Credit(@, cost)]
           posts == <<Entry(g, "debit", i, cost), Entry(h, "credit", i, cost)>>
<1>6. /\ CanSellTo(item, g, q)
      /\ WithinDailyCap(DailyCap[g], SpentSince(g, Day(now)), cost)
      /\ CanDebit(wallets[g], cost)
      /\ Commit(s, rows, posts, now)
  <2>1. LET it == u.rows[ItemRow(u.req.item)]
            co == Cost(it, u.req.qty)
        IN  /\ CanSellTo(it, u.req.guild, u.req.qty)
            /\ WithinDailyCap(DailyCap[u.req.guild],
                              SpentSince(u.req.guild, Day(now)), co)
            /\ CanDebit(u.rows[WalletRow(u.req.guild)], co)
            /\ Commit(s, [u.rows EXCEPT
                             ![ItemRow(u.req.item)] = SellTo(it, u.req.qty),
                             ![WalletRow(u.req.guild)] = Debit(@, co),
                             ![WalletRow(it.seller)] = Credit(@, co)],
                       <<Entry(u.req.guild, "debit", u.req.item, co),
                         Entry(it.seller, "credit", u.req.item, co)>>, now)
    BY Zenon DEF Sell
  <2> QED  BY <1>5, <2>1, Zenon
<1>7. g # h /\ cost \in Nat
  <2>1. item \in Item
    BY <1>5 DEF IInv, TypeOK
  <2>2. cost \in Int
    BY <1>3, <2>1, CostIsInt
  <2> QED  BY <1>6, <2>2 DEF CanSellTo, CanDebit, IsPositive
<1>8. DOMAIN rows = DOMAIN u.rows
  OBVIOUS
<1>9. \A n \in DOMAIN posts : WalletRow(posts[n].guild) \in DOMAIN rows
  BY <1>4, <1>8 DEF Holds, Entry
<1>10. items' = [items EXCEPT ![i] = SellTo(item, q)]
  <2>1. items' = [j \in DOMAIN items |->
                    IF ItemRow(j) \in DOMAIN rows THEN rows[ItemRow(j)] ELSE items[j]]
    BY <1>6, Zenon DEF Commit, UpdateItem
  <2>2. \A j \in DOMAIN items : ItemRow(j) \in DOMAIN rows =>
          rows[ItemRow(j)] = IF j = i THEN SellTo(item, q) ELSE items[j]
    BY <1>2, <1>4, CopiesAre, RowsDiffer DEF Holds
  <2>3. items = [j \in DOMAIN items |-> items[j]]
    BY DEF IInv, TypeOK
  <2>4. ItemRow(i) \in DOMAIN rows
    BY <1>4 DEF Holds
  <2> HIDE DEF rows
  <2> QED  BY <1>5, <2>1, <2>2, <2>3, <2>4
<1>11. wallets' = [wallets EXCEPT ![g] = Debit(@, cost), ![h] = Credit(@, cost)]
  <2>1. wallets' = [j \in DOMAIN wallets |->
                      IF WalletRow(j) \in DOMAIN rows THEN rows[WalletRow(j)] ELSE wallets[j]]
    BY <1>6, Zenon DEF Commit, UpdateWallet
  <2>2. \A j \in DOMAIN wallets : WalletRow(j) \in DOMAIN rows =>
          rows[WalletRow(j)] = IF j = g THEN Debit(wallets[g], cost)
                               ELSE IF j = h THEN Credit(wallets[h], cost) ELSE wallets[j]
    BY <1>2, <1>4, <1>5, <1>7, CopiesAre, RowsDiffer DEF Holds
  <2>3. wallets = [j \in DOMAIN wallets |-> wallets[j]]
    BY DEF IInv, TypeOK
  <2>4. WalletRow(g) \in DOMAIN rows /\ WalletRow(h) \in DOMAIN rows
    BY <1>4 DEF Holds
  <2> HIDE DEF rows
  <2> QED  BY <1>5, <1>7, <2>1, <2>2, <2>3, <2>4
<1>12. auctions' = auctions
  <2>1. auctions' = [j \in DOMAIN auctions |->
                      IF AuctionRow(j) \in DOMAIN rows THEN rows[AuctionRow(j)] ELSE auctions[j]]
    BY <1>6, Zenon DEF Commit, UpdateAuction
  <2>2. \A j \in DOMAIN auctions : AuctionRow(j) \in DOMAIN rows =>
          rows[AuctionRow(j)] = auctions[j]
    BY <1>2, CopiesAre, RowsDiffer DEF Holds
  <2>3. auctions = [j \in DOMAIN auctions |-> auctions[j]]
    BY DEF IInv, TypeOK
  <2> HIDE DEF rows
  <2> QED  BY <2>1, <2>2, <2>3
<1>13. ledger' = PurchaseEntries(g, h, cost, i, now)
  <2> DEFINE e == Entry(g, "debit", i, cost)
             f == Entry(h, "credit", i, cost)
  <2>1. g \in Registered /\ h \in Registered
    BY <1>5 DEF IInv, TypeOK
  <2>2. e \in LedgerEntry /\ f \in LedgerEntry
    BY <1>3, <1>7, <2>1 DEF LedgerEntry, Entry, LedgerTypes
  <2>3. KeyOf(e, now) = <<g, "debit", i, Day(now)>> /\ e.amount = cost
          /\ KeyOf(f, now) = <<h, "credit", i, Day(now)>> /\ f.amount = cost
    BY DEF KeyOf, Entry
  <2>4. KeyOf(e, now) # KeyOf(f, now)
    BY <2>3
  <2>5. ledger' = AppendLedger(<<e, f>>, now)
    BY <1>6, Zenon DEF Commit
  <2>6. TypeOK
    BY DEF IInv
  <2> HIDE DEF e, f
  <2>7. AppendLedger(<<e, f>>, now) =
          [ledger EXCEPT ![KeyOf(e, now)] = @ + e.amount, ![KeyOf(f, now)] = @ + f.amount]
    BY <2>2, <2>4, <2>6, AppendTwo
  <2> QED  BY <2>3, <2>5, <2>7, Zenon DEF PurchaseEntries
<1>14. now \in Readings /\ now' = now
  <2>1. now \in 0..now
    BY DEF IInv, TypeOK
  <2> QED  BY <1>6, <2>1, AnyReading DEF IInv, Commit
<1>15. Purchase(i, g, q, now)
  BY <1>5, <1>6, <1>10, <1>11, <1>12, <1>13, <1>14, Zenon DEF Purchase
<1>16. Next
  BY <1>3, <1>14, <1>15, Zenon DEF Next
<1> HIDE DEF rows, posts
<1> QED  BY <1>6, <1>8, <1>9, <1>16, Zenon DEF CommitsOwn

(* The bid that leads an auction is one of a registered guild.             *)
LEMMA LeaderIs ==
    ASSUME IInv, NEW x \in DOMAIN auctions, HighestBid(auctions[x]) # 0
    PROVE  /\ Leader(auctions[x]).guild \in Registered
           /\ Leader(auctions[x]).amount \in Nat
           /\ Leads[x] = Leader(auctions[x]).amount
<1>1. /\ HighestBid(auctions[x]) = Len(auctions[x].bids)
      /\ Leader(auctions[x]) = auctions[x].bids[HighestBid(auctions[x])]
  BY LeadsRead DEF IInv, LeadsAreLast, Leader
<1>2. auctions[x] \in Auction
  BY DEF IInv, TypeOK
<1>3. HighestBid(auctions[x]) \in 1..Len(auctions[x].bids)
  BY <1>1, <1>2 DEF Auction
<1>4. Leads[x] = Leader(auctions[x]).amount
  BY DEF Leads
<1> QED  BY <1>1, <1>2, <1>3, <1>4, BidFields

(* A bid that commits is Market's, with the reading taken at its check.    *)
LEMMA ReserveImplements ==
    ASSUME IInv, ControlInv, DataInv, NEW s \in Sessions, ReserveBid(s)
    PROVE  \/ Rollback(s)
           \/ /\ CommitsOwn(s)
              /\ Next
<1> SUFFICES ASSUME ~Rollback(s)
             PROVE  /\ CommitsOwn(s)
                    /\ Next
  OBVIOUS
<1> DEFINE u == unit[s]
           x == u.lot
           i == u.req.item
           g == u.req.guild
           q == u.req.amount
           a == auctions[x]
           led == HighestBid(a) # 0
           h == Leader(a).guild
           p == Leader(a).amount
<1>1. u.pc = "reserve" /\ s \in Clients /\ u.req \in Bids /\ IsPositive(q)
  BY OpAt DEF ReserveBid
<1>2. Copies(u) /\ Gathered(u)
  BY <1>1 DEF DataInv, ClientInv
<1>3. i \in ItemIDs /\ g \in Guilds /\ q \in Amounts /\ q \in Nat /\ u.req.op = "bid"
  <2>1. i \in ItemIDs /\ g \in Guilds /\ q \in Amounts /\ u.req.op = "bid"
    BY <1>1 DEF Bids
  <2>2. q \in Int
    BY <2>1, RequestsAssumption
  <2>3. q > 0
    BY <1>1 DEF IsPositive
  <2> QED  BY <2>1, <2>2, <2>3
<1>4. /\ x \in ActiveAuctions(i) /\ BidChecked(u)
      /\ Holds(u, AuctionRow(x)) /\ Holds(u, WalletRow(g)) /\ (led => Holds(u, WalletRow(h)))
  BY <1>1, <1>2, <1>3 DEF Gathered
<1>5. /\ x \in DOMAIN auctions /\ u.rows[AuctionRow(x)] = a /\ a.item = i
      /\ g \in DOMAIN wallets /\ u.rows[WalletRow(g)] = wallets[g]
      /\ led => h \in DOMAIN wallets /\ u.rows[WalletRow(h)] = wallets[h]
  BY <1>2, <1>4, CopiesAre DEF ActiveAuctions
<1>6. Lot(u) = a
  BY <1>5 DEF Lot
<1>7. led => h \in Registered /\ p \in Nat
  BY <1>5, LeaderIs
<1> DEFINE released == IF HighestBid(a) = 0 THEN u.rows
                       ELSE [u.rows EXCEPT ![WalletRow(h)] = Release(@, p)]
           rows == [released EXCEPT ![WalletRow(g)] = Reserve(@, q),
                                    ![AuctionRow(x)] = PlaceBid(a, g, q, u.t)]
           reserve == Entry(g, "reserve", i, q)
           release == Entry(h, "release", i, p)
           posts == IF led /\ h # g THEN <<release, reserve>> ELSE <<reserve>>
<1>8. /\ HighestBid(a) = 0 \/ CanRelease(u.rows[WalletRow(h)], p)
      /\ CanReserve(released[WalletRow(g)], q)
      /\ Commit(s, rows, posts, u.t)
  <2>1. LET b == Lot(u)
            held == WalletRow(Leader(b).guild)
            rel == IF HighestBid(b) = 0 THEN u.rows
                   ELSE [u.rows EXCEPT ![held] = Release(@, Leader(b).amount)]
            res == Entry(g, "reserve", b.item, q)
        IN  /\ HighestBid(b) = 0 \/ CanRelease(u.rows[held], Leader(b).amount)
            /\ CanReserve(rel[WalletRow(g)], q)
            /\ Commit(s, [rel EXCEPT
                             ![WalletRow(g)] = Reserve(@, q),
                             ![AuctionRow(u.lot)] = PlaceBid(b, g, q, u.t)],
                       IF Unseats(u)
                       THEN <<Entry(Leader(b).guild, "release", b.item,
                                    Leader(b).amount), res>>
                       ELSE <<res>>, u.t)
    BY Zenon DEF ReserveBid
  <2>2. Unseats(u) <=> (led /\ h # g)
    BY <1>6, Zenon DEF Unseats
  <2>3. posts = IF Unseats(u) THEN <<release, reserve>> ELSE <<reserve>>
    BY <2>2, Zenon
  <2> HIDE DEF posts
  <2> QED  BY <1>5, <1>6, <2>1, <2>3, Zenon
<1>9. DOMAIN released = DOMAIN u.rows
  OBVIOUS
<1>10. DOMAIN rows = DOMAIN u.rows
  <2> HIDE DEF released
  <2> QED  BY <1>9
<1>11. \A n \in DOMAIN posts : WalletRow(posts[n].guild) \in DOMAIN rows
  <2>1. reserve.guild = g /\ release.guild = h
    BY DEF Entry
  <2>2. \A n \in DOMAIN posts : posts[n].guild = g \/ (led /\ posts[n].guild = h)
    <3> HIDE DEF reserve, release
    <3>1. CASE led /\ h # g
      <4>1. posts = <<release, reserve>>
        BY <3>1
      <4> QED  BY <2>1, <3>1, <4>1
    <3>2. CASE ~(led /\ h # g)
      <4>1. posts = <<reserve>>
        BY <3>2
      <4> QED  BY <2>1, <4>1
    <3> QED  BY <3>1, <3>2
  <2> QED  BY <1>4, <1>10, <2>2 DEF Holds
<1>12. /\ \A r : r \in DOMAIN u.rows => rows[r] =
              IF r = AuctionRow(x) THEN PlaceBid(a, g, q, u.t)
              ELSE IF r = WalletRow(g) THEN Reserve(released[r], q)
              ELSE released[r]
       /\ \A r : r \in DOMAIN u.rows => released[r] =
              IF led /\ r = WalletRow(h) THEN Release(wallets[h], p) ELSE u.rows[r]
  <2>1. \A r : r \in DOMAIN u.rows => released[r] =
              IF led /\ r = WalletRow(h) THEN Release(wallets[h], p) ELSE u.rows[r]
    BY <1>5
  <2>2. WalletRow(g) # AuctionRow(x)
    BY RowsDiffer
  <2>3. \A r : r \in DOMAIN u.rows => rows[r] =
              IF r = AuctionRow(x) THEN PlaceBid(a, g, q, u.t)
              ELSE IF r = WalletRow(g) THEN Reserve(released[r], q)
              ELSE released[r]
    <3> HIDE DEF released
    <3> QED  BY <1>9, <2>2
  <2> QED  BY <2>1, <2>3
<1> HIDE DEF rows, released
<1>13. items' = items
  <2>1. items' = [j \in DOMAIN items |->
                    IF ItemRow(j) \in DOMAIN rows THEN rows[ItemRow(j)] ELSE items[j]]
    BY <1>8, Zenon DEF Commit, UpdateItem
  <2>2. \A j \in DOMAIN items : ItemRow(j) \in DOMAIN rows => rows[ItemRow(j)] = items[j]
    BY <1>2, <1>10, <1>12, CopiesAre, RowsDiffer DEF Holds
  <2>3. items = [j \in DOMAIN items |-> items[j]]
    BY DEF IInv, TypeOK
  <2> QED  BY <2>1, <2>2, <2>3
<1>14. /\ \A j \in DOMAIN wallets : Released(a)[j] =
              IF led /\ j = h THEN Release(wallets[h], p) ELSE wallets[j]
       /\ DOMAIN Released(a) = DOMAIN wallets
  BY <1>5 DEF Released
<1>15. wallets' = BidWallets(a, g, q)
  <2>1. wallets' = [j \in DOMAIN wallets |->
                      IF WalletRow(j) \in DOMAIN rows THEN rows[WalletRow(j)] ELSE wallets[j]]
    BY <1>8, Zenon DEF Commit, UpdateWallet
  <2>2. \A j \in DOMAIN wallets : WalletRow(j) \in DOMAIN rows =>
          rows[WalletRow(j)] = IF j = g THEN Reserve(Released(a)[g], q) ELSE Released(a)[j]
    <3>1. SUFFICES ASSUME NEW j \in DOMAIN wallets, WalletRow(j) \in DOMAIN rows
                   PROVE  rows[WalletRow(j)] =
                            IF j = g THEN Reserve(Released(a)[g], q) ELSE Released(a)[j]
      OBVIOUS
    <3>2. released[WalletRow(j)] = Released(a)[j]
      <4>1. u.rows[WalletRow(j)] = wallets[j]
        BY <1>2, <1>10, <3>1, CopiesAre DEF Holds
      <4> QED  BY <1>10, <1>12, <1>14, <3>1, <4>1, RowsDiffer
    <3>3. rows[WalletRow(j)] = IF j = g THEN Reserve(released[WalletRow(j)], q)
                               ELSE released[WalletRow(j)]
      BY <1>10, <1>12, <3>1, RowsDiffer
    <3> QED  BY <3>2, <3>3
  <2>3. \A j \in DOMAIN wallets : WalletRow(j) \notin DOMAIN rows =>
          j # g /\ Released(a)[j] = wallets[j]
    BY <1>4, <1>10, <1>14 DEF Holds
  <2>4. \A j \in DOMAIN wallets : BidWallets(a, g, q)[j] =
          IF j = g THEN Reserve(Released(a)[g], q) ELSE Released(a)[j]
    BY <1>14 DEF BidWallets
  <2>5. BidWallets(a, g, q) = [j \in DOMAIN wallets |-> BidWallets(a, g, q)[j]]
    BY <1>14 DEF BidWallets
  <2> QED  BY <2>1, <2>2, <2>3, <2>4, <2>5
<1>16. auctions' = [auctions EXCEPT ![x] = PlaceBid(a, g, q, u.t)]
  <2>1. auctions' = [j \in DOMAIN auctions |->
                      IF AuctionRow(j) \in DOMAIN rows THEN rows[AuctionRow(j)] ELSE auctions[j]]
    BY <1>8, Zenon DEF Commit, UpdateAuction
  <2>2. \A j \in DOMAIN auctions : AuctionRow(j) \in DOMAIN rows =>
          rows[AuctionRow(j)] = IF j = x THEN PlaceBid(a, g, q, u.t) ELSE auctions[j]
    BY <1>2, <1>10, <1>12, CopiesAre, RowsDiffer DEF Holds
  <2>3. auctions = [j \in DOMAIN auctions |-> auctions[j]]
    BY DEF IInv, TypeOK
  <2>4. AuctionRow(x) \in DOMAIN rows
    BY <1>4, <1>10 DEF Holds
  <2> QED  BY <1>5, <2>1, <2>2, <2>3, <2>4
<1>17. ledger' = BidEntries(a, g, q, u.t)
  <2>1. g \in Registered /\ TypeOK
    BY <1>5 DEF IInv, TypeOK
  <2>2. ledger' = AppendLedger(posts, u.t)
    BY <1>8, Zenon DEF Commit
  <2>3. reserve \in LedgerEntry /\ (led => release \in LedgerEntry)
    BY <1>3, <1>7, <2>1 DEF LedgerEntry, Entry, LedgerTypes
  <2>4. /\ KeyOf(reserve, u.t) = <<g, "reserve", i, Day(u.t)>> /\ reserve.amount = q
        /\ KeyOf(release, u.t) = <<h, "release", i, Day(u.t)>> /\ release.amount = p
    BY DEF KeyOf, Entry
  <2>5. KeyOf(release, u.t) # KeyOf(reserve, u.t)
    BY <2>4
  <2> HIDE DEF reserve, release
  <2>6. CASE led /\ h # g
    <3>1. AppendLedger(<<release, reserve>>, u.t) =
            [ledger EXCEPT ![KeyOf(release, u.t)] = @ + release.amount,
                           ![KeyOf(reserve, u.t)] = @ + reserve.amount]
      BY <2>1, <2>3, <2>5, <2>6, AppendTwo
    <3>2. BidEntries(a, g, q, u.t) =
            [[ledger EXCEPT ![KeyOf(reserve, u.t)] = @ + q]
                EXCEPT ![KeyOf(release, u.t)] = @ + p]
      BY <1>5, <2>4, <2>6, Zenon DEF BidEntries
    <3>3. ASSUME NEW k, NEW l, k # l
          PROVE  [[ledger EXCEPT ![k] = @ + q] EXCEPT ![l] = @ + p] =
                   [ledger EXCEPT ![l] = @ + p, ![k] = @ + q]
      BY <2>1, <3>3 DEF TypeOK
    <3>4. ledger' = [ledger EXCEPT ![KeyOf(release, u.t)] = @ + p,
                                   ![KeyOf(reserve, u.t)] = @ + q]
      BY <2>2, <2>4, <2>6, <3>1
    <3> QED  BY <2>5, <3>2, <3>3, <3>4, Zenon
  <2>7. CASE ~(led /\ h # g)
    <3>1. AppendLedger(<<reserve>>, u.t) =
            [ledger EXCEPT ![KeyOf(reserve, u.t)] = @ + reserve.amount]
      BY <2>1, <2>3, AppendOne
    <3>2. BidEntries(a, g, q, u.t) = [ledger EXCEPT ![KeyOf(reserve, u.t)] = @ + q]
      BY <1>5, <2>4, <2>7, Zenon DEF BidEntries
    <3> QED  BY <2>2, <2>4, <2>7, <3>1, <3>2
  <2> QED  BY <2>6, <2>7
<1>18. u.t \in Readings /\ now' = now
  BY <1>4, <1>8, AnyReading DEF IInv, Commit, BidChecked
<1>19. CanReserve(Released(a)[g], q)
  <2>1. released[WalletRow(g)] = Released(a)[g]
    BY <1>4, <1>5, <1>12, <1>14, RowsDiffer DEF Holds
  <2> QED  BY <1>8, <2>1
<1>20. BidOnItem(i, g, q, u.t)
  <2>1. /\ g \in DOMAIN wallets
        /\ CanPlaceBid(a, g, q, u.t)
        /\ WithinDailyCap(DailyCap[g], SpentSince(g, Day(u.t)), q)
        /\ HighestBid(a) # 0 =>
             /\ Leader(a).guild \in DOMAIN wallets
             /\ CanRelease(wallets[Leader(a).guild], Leader(a).amount)
    BY <1>4, <1>5, <1>8 DEF BidChecked
  <2> QED  BY <1>1, <1>4, <1>13, <1>15, <1>16, <1>17, <1>18, <1>19, <2>1, Zenon DEF BidOnItem
<1>21. Next
  BY <1>3, <1>18, <1>20, Zenon DEF Next
<1> HIDE DEF posts
<1> QED  BY <1>8, <1>10, <1>11, <1>21, Zenon DEF CommitsOwn

(* A withdrawal that commits is Market's.                                  *)
LEMMA CancelImplements ==
    ASSUME IInv, ControlInv, DataInv, NEW s \in Sessions, Cancel(s)
    PROVE  \/ Rollback(s)
           \/ /\ CommitsOwn(s)
              /\ Next
<1> SUFFICES ASSUME ~Rollback(s)
             PROVE  /\ CommitsOwn(s)
                    /\ Next
  OBVIOUS
<1> DEFINE u == unit[s]
           x == u.lot
           i == u.req.item
           g == u.req.guild
           b == u.req.bid
           a == auctions[x]
           rows == [u.rows EXCEPT ![AuctionRow(x)] = CancelBid(@, b)]
<1>1. u.pc = "cancel" /\ s \in Clients /\ u.req \in Cancels
  BY OpAt DEF Cancel
<1>2. Copies(u) /\ Gathered(u)
  BY <1>1 DEF DataInv, ClientInv
<1>3. i \in ItemIDs /\ g \in Guilds /\ u.req.op = "cancel"
  BY <1>1 DEF Cancels
<1>4. x \in ActiveAuctions(i) /\ Holds(u, AuctionRow(x))
  BY <1>1, <1>2, <1>3 DEF Gathered
<1>5. x \in DOMAIN auctions /\ u.rows[AuctionRow(x)] = a /\ a.item = i /\ Lot(u) = a
  BY <1>2, <1>4, CopiesAre DEF ActiveAuctions, Lot
<1>6. CanCancelBid(a, b, g) /\ Commit(s, rows, <<>>, now)
  BY <1>5, Zenon DEF Cancel
<1>7. DOMAIN rows = DOMAIN u.rows
  OBVIOUS
<1>8. items' = items
  <2>1. items' = [j \in DOMAIN items |->
                    IF ItemRow(j) \in DOMAIN rows THEN rows[ItemRow(j)] ELSE items[j]]
    BY <1>6, Zenon DEF Commit, UpdateItem
  <2>2. \A j \in DOMAIN items : ItemRow(j) \in DOMAIN rows => rows[ItemRow(j)] = items[j]
    BY <1>2, CopiesAre, RowsDiffer DEF Holds
  <2>3. items = [j \in DOMAIN items |-> items[j]]
    BY DEF IInv, TypeOK
  <2> HIDE DEF rows
  <2> QED  BY <2>1, <2>2, <2>3
<1>9. wallets' = wallets
  <2>1. wallets' = [j \in DOMAIN wallets |->
                      IF WalletRow(j) \in DOMAIN rows THEN rows[WalletRow(j)] ELSE wallets[j]]
    BY <1>6, Zenon DEF Commit, UpdateWallet
  <2>2. \A j \in DOMAIN wallets : WalletRow(j) \in DOMAIN rows =>
          rows[WalletRow(j)] = wallets[j]
    BY <1>2, CopiesAre, RowsDiffer DEF Holds
  <2>3. wallets = [j \in DOMAIN wallets |-> wallets[j]]
    BY DEF IInv, TypeOK
  <2> HIDE DEF rows
  <2> QED  BY <2>1, <2>2, <2>3
<1>10. auctions' = [auctions EXCEPT ![x] = CancelBid(@, b)]
  <2>1. auctions' = [j \in DOMAIN auctions |->
                      IF AuctionRow(j) \in DOMAIN rows THEN rows[AuctionRow(j)] ELSE auctions[j]]
    BY <1>6, Zenon DEF Commit, UpdateAuction
  <2>2. \A j \in DOMAIN auctions : AuctionRow(j) \in DOMAIN rows =>
          rows[AuctionRow(j)] = IF j = x THEN CancelBid(a, b) ELSE auctions[j]
    BY <1>2, <1>5, CopiesAre, RowsDiffer DEF Holds
  <2>3. auctions = [j \in DOMAIN auctions |-> auctions[j]]
    BY DEF IInv, TypeOK
  <2>4. AuctionRow(x) \in DOMAIN rows
    BY <1>4 DEF Holds
  <2> HIDE DEF rows
  <2> QED  BY <1>5, <2>1, <2>2, <2>3, <2>4
<1>11. ledger' = ledger
  <2>1. ledger' = AppendLedger(<<>>, now)
    BY <1>6 DEF Commit
  <2>2. ledger \in [LedgerKeys -> Nat]
    BY DEF IInv, TypeOK
  <2>3. \A k \in LedgerKeys : AppendLedger(<<>>, now)[k] = ledger[k]
    BY <2>2, AppendLedgerIs, PostNone
  <2> QED  BY <2>1, <2>2, <2>3, AppendLedgerIs
<1>12. now' = now
  BY <1>6 DEF Commit
<1>13. CancelBidOnItem(a.item, b, g)
  BY <1>4, <1>5, <1>6, <1>8, <1>9, <1>10, <1>11, <1>12, Zenon DEF CancelBidOnItem
<1>14. b \in DOMAIN a.bids
  BY <1>6 DEF CanCancelBid, ActiveBids
<1>15. Next
  BY <1>3, <1>5, <1>13, <1>14, Zenon DEF Next
<1>16. \A n \in DOMAIN <<>> : WalletRow((<<>>)[n].guild) \in DOMAIN rows
  OBVIOUS
<1> HIDE DEF rows
<1> QED  BY <1>6, <1>7, <1>15, <1>16, Zenon DEF CommitsOwn

(* A query that commits changes nothing.                                   *)
LEMMA ReadImplements ==
    ASSUME IInv, ControlInv, DataInv, NEW s \in Sessions, ReadWallet(s)
    PROVE  Moves(s, NoUnit) /\ UNCHANGED vars
<1> DEFINE u == unit[s]
           rows == u.rows
<1>1. u.pc = "read" /\ s \in Clients /\ Commit(s, rows, <<>>, now)
  BY OpAt DEF ReadWallet
<1>2. Copies(u)
  BY <1>1 DEF DataInv, ClientInv
<1>8. items' = items
  <2>1. items' = [j \in DOMAIN items |->
                    IF ItemRow(j) \in DOMAIN rows THEN rows[ItemRow(j)] ELSE items[j]]
    BY <1>1, Zenon DEF Commit, UpdateItem
  <2>2. items = [j \in DOMAIN items |-> items[j]]
    BY DEF IInv, TypeOK
  <2> QED  BY <1>2, <2>1, <2>2, CopiesAre DEF Holds
<1>9. wallets' = wallets
  <2>1. wallets' = [j \in DOMAIN wallets |->
                      IF WalletRow(j) \in DOMAIN rows THEN rows[WalletRow(j)] ELSE wallets[j]]
    BY <1>1, Zenon DEF Commit, UpdateWallet
  <2>2. wallets = [j \in DOMAIN wallets |-> wallets[j]]
    BY DEF IInv, TypeOK
  <2> QED  BY <1>2, <2>1, <2>2, CopiesAre DEF Holds
<1>10. auctions' = auctions
  <2>1. auctions' = [j \in DOMAIN auctions |->
                      IF AuctionRow(j) \in DOMAIN rows THEN rows[AuctionRow(j)] ELSE auctions[j]]
    BY <1>1, Zenon DEF Commit, UpdateAuction
  <2>2. auctions = [j \in DOMAIN auctions |-> auctions[j]]
    BY DEF IInv, TypeOK
  <2> QED  BY <1>2, <2>1, <2>2, CopiesAre DEF Holds
<1>11. ledger' = ledger
  <2>1. ledger' = AppendLedger(<<>>, now)
    BY <1>1 DEF Commit
  <2>2. ledger \in [LedgerKeys -> Nat]
    BY DEF IInv, TypeOK
  <2>3. \A k \in LedgerKeys : AppendLedger(<<>>, now)[k] = ledger[k]
    BY <2>2, AppendLedgerIs, PostNone
  <2> QED  BY <2>1, <2>2, <2>3, AppendLedgerIs
<1> QED  BY <1>1, <1>8, <1>9, <1>10, <1>11, EndMoves DEF Commit, vars

-----------------------------------------------------------------------------
(* The units of clients make progress.                                     *)

(* What each locking read asks for.                                        *)
LEMMA WantsIs ==
    ASSUME NEW u
    PROVE  /\ u.pc = "item" => Wants(u) = {ItemRow(u.req.item)}
           /\ u.pc = "guild" => Wants(u) = {WalletRow(u.req.guild)}
           /\ u.pc = "seller" => Wants(u) = {WalletRow(u.rows[ItemRow(u.req.item)].seller)}
           /\ u.pc = "auction" =>
                Wants(u) = {AuctionRow(x) : x \in ActiveAuctions(u.req.item)}
           /\ u.pc = "lot" => Wants(u) = {ItemRow(Lot(u).item)}
           /\ u.pc = "leader" => Wants(u) = {WalletRow(Leader(Lot(u)).guild)}
           /\ u.pc = "payee" => Wants(u) = {WalletRow(Lot(u).seller)}
BY DEF Wants

(* A closed unit holds nothing.                                            *)
LEMMA NoUnitData == ClientInv(NoUnit) /\ WorkerInv(NoUnit)
BY NoUnitInControl DEF ClientInv, Copies, Gathered, WorkerInv

(* A fresh unit of a client holds nothing.                                 *)
LEMMA OpenedData ==
    ASSUME NEW req, Admitted(req)
    PROVE  ClientInv(Opened(req))
<1> DEFINE u == Opened(req)
<1>1. u.req = req /\ u.pc = Head(Program[req.op]) /\ DOMAIN u.rows = {}
  BY OpenedIs
<1> HIDE DEF u
<1>2. /\ req.op = "purchase" => u.pc = "item"
      /\ req.op = "bid" => u.pc = "auction"
      /\ req.op = "cancel" => u.pc = "auction"
  BY <1>1 DEF Program
<1>3. ClientInv(u)
  BY <1>1, <1>2 DEF ClientInv, Copies, Gathered
<1> QED  BY <1>3 DEF u

(* A lock gives a client's unit a copy of the committed row.               *)
LEMMA GrantsCopies ==
    ASSUME NEW u, Copies(u), NEW row \in Rows, NEW v, Grants(u, row, v)
    PROVE  Copies(v) /\ DOMAIN v.rows = DOMAIN u.rows \cup {row}
<1>1. v.rows = Put(u.rows, row, Version(u, row))
  BY DEF Grants
<1>2. Version(u, row) = Committed(row)
  BY DEF Version, Copies
<1>3. /\ DOMAIN v.rows = DOMAIN u.rows \cup {row}
      /\ \A r \in DOMAIN v.rows : v.rows[r] = IF r = row THEN Committed(row) ELSE u.rows[r]
  BY <1>1, <1>2 DEF Put
<1> QED  BY <1>3 DEF Copies

(* The locks of a client's unit are what its next statement needs.         *)
LEMMA ClientGrant ==
    ASSUME ControlInv, NEW s \in Clients, ClientInv(unit[s]), unit[s].pc \in LockingReads,
           NEW row \in Wants(unit[s]) \cap Rows, NEW v, Grants(unit[s], row, v)
    PROVE  ClientInv(v)
<1> DEFINE u == unit[s]
<1>1. Copies(v) /\ DOMAIN v.rows = DOMAIN u.rows \cup {row}
  BY GrantsCopies DEF ClientInv
<1>2. \A r : r = row \/ Holds(u, r) => Holds(v, r)
  BY <1>1 DEF Holds
<1>3. InControl(s, u) /\ u # NoUnit /\ s # Worker
  BY PostgresAssumption, NoUnitInControl DEF ControlInv, Sessions, LockingReads
<1>4. Admitted(u.req) /\ u.pc \in Statements(u.req.op) /\ s \in Sessions
  BY <1>3 DEF InControl, AtStatement, Sessions
<1>5. v.req = u.req /\ v.t = u.t /\ (u.pc # "auction" => v.lot = u.lot)
  BY DEF Grants, SameUnit
<1>6. u.pc # "lot"
  BY <1>3, <1>4, OpAt, Zenon
<1>7. v.pc = After(u.req.op, u.pc)
  BY <1>6 DEF Grants
<1>8. Gathered(u) /\ Copies(u)
  BY DEF ClientInv
<1>9. CASE u.req.op = "purchase"
  <2>1. u.pc \in {"item", "guild", "seller"}
    BY <1>4, <1>9, StatementsAre DEF LockingReads
  <2>2. CASE u.pc = "item"
    <3>1. v.pc = "guild" /\ row = ItemRow(u.req.item)
      BY <1>7, <1>9, <2>2, AfterIs, WantsIs
    <3> QED  BY <1>1, <1>2, <1>5, <1>9, <3>1 DEF ClientInv, Gathered
  <2>3. CASE u.pc = "guild"
    <3>1. v.pc = "seller" /\ row = WalletRow(u.req.guild)
      BY <1>7, <1>9, <2>3, AfterIs, WantsIs
    <3>2. Holds(v, ItemRow(u.req.item))
      BY <1>2, <1>8, <1>9, <2>3 DEF Gathered
    <3> QED  BY <1>1, <1>2, <1>5, <1>9, <3>1, <3>2 DEF ClientInv, Gathered
  <2>4. CASE u.pc = "seller"
    <3>1. v.pc = "sell" /\ row = WalletRow(u.rows[ItemRow(u.req.item)].seller)
      BY <1>7, <1>9, <2>4, AfterIs, WantsIs
    <3>2. Holds(u, ItemRow(u.req.item)) /\ Holds(u, WalletRow(u.req.guild))
      BY <1>8, <1>9, <2>4 DEF Gathered
    <3>3. u.rows[ItemRow(u.req.item)] = items[u.req.item]
      BY <1>8, <3>2, CopiesAre
    <3> QED  BY <1>1, <1>2, <1>5, <1>9, <3>1, <3>2, <3>3 DEF ClientInv, Gathered
  <2> QED  BY <2>1, <2>2, <2>3, <2>4
<1>10. CASE u.req.op \in {"bid", "cancel"} /\ u.pc = "auction"
  <2>1. PICK x \in ActiveAuctions(u.req.item) : row = AuctionRow(x)
    BY <1>10, WantsIs
  <2>2. v.lot = x
    BY <1>10, <2>1 DEF Grants, AuctionRow
  <2>3. v.pc \in {"guild", "cancel"}
    BY <1>7, <1>10, AfterIs
  <2>4. v.lot \in ActiveAuctions(v.req.item) /\ Holds(v, AuctionRow(v.lot))
    BY <1>2, <1>5, <2>1, <2>2
  <2> QED  BY <1>1, <1>5, <1>10, <2>3, <2>4 DEF ClientInv, Gathered
<1>11. CASE u.req.op = "bid" /\ u.pc # "auction"
  <2>1. u.pc \in {"guild", "leader"}
    BY <1>4, <1>11, StatementsAre DEF LockingReads
  <2>2. /\ v.lot = u.lot /\ u.lot \in ActiveAuctions(u.req.item)
        /\ Holds(u, AuctionRow(u.lot)) /\ Lot(u) = auctions[u.lot]
    BY <1>5, <1>8, <1>11, CopiesAre DEF Gathered, Lot
  <2>3. CASE u.pc = "guild"
    <3>1. v.pc = "place" /\ row = WalletRow(u.req.guild)
      BY <1>7, <1>11, <2>3, AfterIs, WantsIs
    <3> QED  BY <1>1, <1>2, <1>5, <1>11, <2>2, <3>1 DEF ClientInv, Gathered
  <2>4. CASE u.pc = "leader"
    <3>1. v.pc = "reserve" /\ row = WalletRow(Leader(auctions[u.lot]).guild)
      BY <1>7, <1>11, <2>2, <2>4, AfterIs, WantsIs
    <3>2. Holds(u, WalletRow(u.req.guild)) /\ BidChecked(u)
      BY <1>8, <1>11, <2>4 DEF Gathered
    <3>3. BidChecked(v)
      BY <1>5, <2>2, <3>2 DEF BidChecked
    <3> QED  BY <1>1, <1>2, <1>5, <1>11, <2>2, <3>1, <3>2, <3>3 DEF ClientInv, Gathered
  <2> QED  BY <2>1, <2>3, <2>4
<1>12. CASE u.req.op = "wallet"
  BY <1>1, <1>5, <1>12 DEF ClientInv, Gathered
<1>13. CASE u.req.op = "cancel" /\ u.pc # "auction"
  BY <1>4, <1>13, StatementsAre DEF LockingReads
<1> QED  BY <1>4, <1>9, <1>10, <1>11, <1>12, <1>13, AdmittedOps

(* A bid that passes the check has passed it now.                          *)
LEMMA ClientChecks ==
    ASSUME TypeOK, ControlInv, NEW s \in Clients, ClientInv(unit[s]), unit[s].pc = "place",
           NEW v, PassesCheck(s, v)
    PROVE  ClientInv(v)
<1> DEFINE u == unit[s]
<1>1. u.req.op = "bid"
  BY OpAt DEF Sessions, Bids
<1>2. Gathered(u) /\ Copies(u)
  BY DEF ClientInv
<1>3. /\ u.lot \in ActiveAuctions(u.req.item) /\ Holds(u, AuctionRow(u.lot))
      /\ Holds(u, WalletRow(u.req.guild))
  BY <1>1, <1>2 DEF Gathered
<1>4. Lot(u) = auctions[u.lot]
  BY <1>2, <1>3, CopiesAre DEF Lot
<1>5. /\ v.req = u.req /\ v.rows = u.rows /\ v.lot = u.lot /\ v.t = now
      /\ CanPlaceBid(Lot(u), u.req.guild, u.req.amount, now)
      /\ WithinDailyCap(DailyCap[u.req.guild],
                        SpentSince(u.req.guild, Day(now)), u.req.amount)
      /\ v.pc = IF Unseats(u) THEN "leader" ELSE "reserve"
  BY Zenon DEF PassesCheck, SameUnit
<1>6. now \in 0..now
  BY DEF TypeOK
<1>7. BidChecked(v)
  BY <1>4, <1>5, <1>6 DEF BidChecked
<1>8. v.pc = "reserve" /\ HighestBid(auctions[u.lot]) # 0 =>
        Leader(auctions[u.lot]).guild = u.req.guild
  BY <1>4, <1>5 DEF Unseats
<1>9. Copies(v)
  BY <1>2, <1>5 DEF Copies
<1>10. Gathered(v)
  BY <1>1, <1>3, <1>5, <1>7, <1>8 DEF Gathered, Holds
<1> QED  BY <1>9, <1>10 DEF ClientInv

-----------------------------------------------------------------------------
(* The settlement unit makes progress.                                     *)

(* The unit has the rows of everything it touched: settling S changes no   *)
(* item and no wallet that it does not hold.                               *)
LEMMA Untouched ==
    ASSUME IInv, NEW S, S \subseteq DOMAIN auctions, NEW u, SettledSoFar(u, S)
    PROVE  /\ \A i \in DOMAIN items : ~Holds(u, ItemRow(i)) => SettledItems(S)[i] = items[i]
           /\ \A g \in DOMAIN wallets :
                ~Holds(u, WalletRow(g)) => SettledWallets(S)[g] = wallets[g]
<1>1. ASSUME NEW i \in DOMAIN items, ~Holds(u, ItemRow(i))
      PROVE  SettledItems(S)[i] = items[i]
  <2>1. \A x \in S : auctions[x].item # i
    BY <1>1 DEF SettledSoFar
  <2>2. \A x \in Won(S) : x \in S
    BY DEF Won
  <2> QED  BY <2>1, <2>2 DEF SettledItems
<1>2. ASSUME NEW g \in DOMAIN wallets, ~Holds(u, WalletRow(g))
      PROVE  SettledWallets(S)[g] = wallets[g]
  <2>1. LedBy(g) \cap S = {}
    <3>1. \A x \in LedBy(g) \cap S : x \in Won(S) /\ Leader(auctions[x]).guild = g
      BY DEF LedBy, Won
    <3> QED  BY <1>2, <3>1 DEF SettledSoFar
  <2>2. SoldBy(g, S) = {}
    BY <1>2 DEF SettledSoFar, SoldBy
  <2>3. GoldIn(Leads, LedBy(g) \cap S) = 0 /\ GoldIn(Leads, SoldBy(g, S)) = 0
    BY <2>1, <2>2, GoldInEmpty
  <2>4. wallets[g] \in Wallet
    BY DEF IInv, TypeOK
  <2>5. SettledWallets(S)[g] = [total |-> wallets[g].total - 0 + 0,
                                reserved |-> wallets[g].reserved - 0]
    BY <2>3, Zenon DEF SettledWallets
  <2> QED  BY <2>4, <2>5 DEF Wallet
<1> QED  BY <1>1, <1>2

(* The gold a wallet pays and gets when auction x is settled, the item it  *)
(* leaves and the gold it posts under key k.                               *)
Pays(x, g) ==
    IF HighestBid(auctions[x]) # 0 /\ Leader(auctions[x]).guild = g THEN Leads[x] ELSE 0

Gets(x, g) ==
    IF HighestBid(auctions[x]) # 0 /\ auctions[x].seller = g THEN Leads[x] ELSE 0

ClosedItem(x, item) ==
    [item EXCEPT !.status = IF HighestBid(auctions[x]) # 0 THEN "sold_out" ELSE "available"]

Posts(x, k, t) ==
    IF HighestBid(auctions[x]) # 0 /\
         \/ k = <<Leader(auctions[x]).guild, "settle", auctions[x].item, Day(t)>>
         \/ k = <<auctions[x].seller, "credit", auctions[x].item, Day(t)>>
    THEN Leads[x] ELSE 0

(* What settling x as well adds to the effect of settling S.               *)
AddsToSettled(S, x, T) ==
    /\ Won(T) = IF HighestBid(auctions[x]) # 0 THEN Won(S) \cup {x} ELSE Won(S)
    /\ auctions[x].item \in DOMAIN items
    /\ SettledItems(S)[auctions[x].item] = items[auctions[x].item]
    /\ \A i \in DOMAIN items : SettledItems(T)[i] =
        IF i = auctions[x].item THEN ClosedItem(x, items[i]) ELSE SettledItems(S)[i]
    /\ \A g \in DOMAIN wallets :
        /\ SettledWallets(S)[g] \in [total : Int, reserved : Int]
        /\ SettledWallets(T)[g] =
             [total    |-> SettledWallets(S)[g].total - Pays(x, g) + Gets(x, g),
              reserved |-> SettledWallets(S)[g].reserved - Pays(x, g)]
    /\ \A k, t : GoldIn(Leads, PostingUnder(T, k, t)) =
        GoldIn(Leads, PostingUnder(S, k, t)) + Posts(x, k, t)

(* Settling one more auction adds its effect to that of the others.        *)
LEMMA OneMore ==
    ASSUME IInv, AuctionsMatchItems, NEW S, S \subseteq DOMAIN auctions,
           NEW x \in DOMAIN auctions, x \notin S, auctions[x].status = "active",
           NEW T, T = S \cup {x}
    PROVE  AddsToSettled(S, x, T)
<1> DEFINE a == auctions[x]
           led == HighestBid(a) # 0
<1>0. AuctionRows /\ FinitelyManyAuctions
  BY DEF IInv, TypeOK, AuctionRows
<1>s. ASSUME NEW Q \in SUBSET DOMAIN auctions
      PROVE  /\ GoldIn(Leads, Q) \in Nat /\ Leads[x] \in Nat
             /\ GoldIn(Leads, Q) = GoldIn(Leads, Q \ {x}) + (IF x \in Q THEN Leads[x] ELSE 0)
  <2>1. IsFiniteSet(Q) /\ (\A y \in Q : Leads[y] \in Nat) /\ GoldIn(Leads, Q) \in Nat
    BY <1>0, LeadsAddUp
  <2>2. {x} \in SUBSET DOMAIN auctions
    OBVIOUS
  <2>3. Leads[x] \in Nat
    BY <1>0, <2>2, LeadsAddUp
  <2> QED  BY <2>1, <2>3, GoldInPoint
<1>1. Won(T) = IF led THEN Won(S) \cup {x} ELSE Won(S)
  BY DEF Won
<1>2. /\ a.item \in DOMAIN items
      /\ \A y \in S : auctions[y].item # a.item
      /\ \A y \in Won(S) : y \in S
  BY DEF AuctionsMatchItems, Won
<1>3. SettledItems(S)[a.item] = items[a.item]
  BY <1>2 DEF SettledItems
<1>4. ASSUME NEW i \in DOMAIN items
      PROVE  SettledItems(T)[i] =
               IF i = a.item
               THEN ClosedItem(x, items[i]) ELSE SettledItems(S)[i]
  <2> DEFINE W(Q) == {auctions[y].item : y \in Won(Q)}
             V(Q) == {auctions[y].item : y \in Q}
             out(Q) == IF i \in W(Q) THEN [items[i] EXCEPT !.status = "sold_out"]
                       ELSE IF i \in V(Q) THEN [items[i] EXCEPT !.status = "available"]
                       ELSE items[i]
  <2>1. SettledItems(T)[i] = out(T) /\ SettledItems(S)[i] = out(S)
    BY Zenon DEF SettledItems
  <2>2. CASE i = a.item
    <3>1. i \in V(T) /\ (i \in W(T) <=> led)
      BY <1>1, <1>2, <2>2
    <3> QED  BY <2>1, <2>2, <3>1 DEF ClosedItem
  <2>3. CASE i # a.item
    <3>1. (i \in V(T) <=> i \in V(S)) /\ (i \in W(T) <=> i \in W(S))
      BY <1>1, <2>3
    <3> QED  BY <2>1, <2>3, <3>1
  <2> QED  BY <2>2, <2>3
<1>5. ASSUME NEW g \in DOMAIN wallets
      PROVE  /\ SettledWallets(S)[g] \in [total : Int, reserved : Int]
             /\ SettledWallets(T)[g] =
                  [total    |-> SettledWallets(S)[g].total - Pays(x, g) + Gets(x, g),
                   reserved |-> SettledWallets(S)[g].reserved - Pays(x, g)]
  <2> DEFINE out(Q) == GoldIn(Leads, LedBy(g) \cap Q)
             in(Q) == GoldIn(Leads, SoldBy(g, Q))
  <2>1. /\ LedBy(g) \cap T \in SUBSET DOMAIN auctions
        /\ LedBy(g) \cap S \in SUBSET DOMAIN auctions
        /\ SoldBy(g, T) \in SUBSET DOMAIN auctions
        /\ SoldBy(g, S) \in SUBSET DOMAIN auctions
    BY DEF LedBy, SoldBy, Won
  <2>2. /\ (LedBy(g) \cap T) \ {x} = LedBy(g) \cap S
        /\ x \in LedBy(g) \cap T <=> led /\ Leader(a).guild = g
    BY DEF LedBy
  <2>3. /\ SoldBy(g, T) \ {x} = SoldBy(g, S)
        /\ x \in SoldBy(g, T) <=> led /\ a.seller = g
    BY DEF SoldBy, Won
  <2>4. out(T) = out(S) + Pays(x, g) /\ out(S) \in Nat
    BY <1>s, <2>1, <2>2 DEF Pays
  <2>5. in(T) = in(S) + Gets(x, g) /\ in(S) \in Nat
    BY <1>s, <2>1, <2>3 DEF Gets
  <2>6. Pays(x, g) \in Nat /\ Gets(x, g) \in Nat
    BY <1>s, <2>1 DEF Pays, Gets
  <2>7. wallets[g].total \in Nat /\ wallets[g].reserved \in Nat
    BY DEF IInv, TypeOK, Wallet
  <2>8. /\ SettledWallets(T)[g] = [total    |-> wallets[g].total - out(T) + in(T),
                                   reserved |-> wallets[g].reserved - out(T)]
        /\ SettledWallets(S)[g] = [total    |-> wallets[g].total - out(S) + in(S),
                                   reserved |-> wallets[g].reserved - out(S)]
    BY Zenon DEF SettledWallets
  <2> HIDE DEF out, in
  <2>9. PICK w, v : w = SettledWallets(S)[g] /\ v = SettledWallets(T)[g]
    OBVIOUS
  <2>10. PICK p, q, P, Q \in Nat : p = Pays(x, g) /\ q = Gets(x, g) /\ P = out(S) /\ Q = in(S)
    BY <2>4, <2>5, <2>6
  <2>11. out(T) = P + p /\ in(T) = Q + q
    BY <2>4, <2>5, <2>10
  <2>12. /\ v = [total    |-> wallets[g].total - (P + p) + (Q + q),
                 reserved |-> wallets[g].reserved - (P + p)]
         /\ w = [total    |-> wallets[g].total - P + Q,
                 reserved |-> wallets[g].reserved - P]
    BY <2>8, <2>9, <2>10, <2>11, Zenon
  <2>13. /\ w \in [total : Int, reserved : Int]
         /\ v = [total |-> w.total - p + q, reserved |-> w.reserved - p]
    BY <2>7, <2>12
  <2> QED  BY <2>9, <2>10, <2>13, Zenon
<1>6. ASSUME NEW k, NEW t
      PROVE  GoldIn(Leads, PostingUnder(T, k, t)) =
               GoldIn(Leads, PostingUnder(S, k, t)) + Posts(x, k, t)
  <2>1. /\ PostingUnder(T, k, t) \in SUBSET DOMAIN auctions
        /\ PostingUnder(T, k, t) \ {x} = PostingUnder(S, k, t)
        /\ x \in PostingUnder(T, k, t) <=>
             led /\ \/ k = <<Leader(a).guild, "settle", a.item, Day(t)>>
                    \/ k = <<a.seller, "credit", a.item, Day(t)>>
    BY DEF PostingUnder, Won
  <2>2. Posts(x, k, t) = IF x \in PostingUnder(T, k, t) THEN Leads[x] ELSE 0
    BY <2>1 DEF Posts
  <2> QED  BY <1>s, <2>1, <2>2
<1> QED  BY <1>1, <1>2, <1>3, <1>4, <1>5, <1>6, Zenon DEF AddsToSettled

(* A fresh settlement unit.                                                *)
LEMMA SettlementOpens ==
    ASSUME TypeOK, NEW v, v.req.op = "settle", v.pc = "due", v.t = now,
           v.todo = DueAuctions(now), DOMAIN v.rows = {}, v.due = {}, v.posts = <<>>
    PROVE  WorkerInv(v)
<1>1. now \in 0..now
  BY DEF TypeOK
<1>2. Collecting(v)
  BY DEF Collecting, Copies, DueAuctions
<1> QED  BY <1>1, <1>2 DEF WorkerInv

(* It locks one of the due auctions.                                       *)
LEMMA DueLocks ==
    ASSUME NEW u, u.req.op = "settle", u.pc = "due", WorkerInv(u),
           NEW x \in u.todo, NEW v, SameUnit(u, v), v.t = u.t,
           v.rows = Put(u.rows, AuctionRow(x), auctions[x]),
           v.todo = u.todo \ {x}, v.pc = "due",
           v.due = IF StillDue(x, u.t) THEN u.due \cup {x} ELSE u.due
    PROVE  WorkerInv(v)
<1>1. Collecting(u) /\ u.t \in 0..now
  BY DEF WorkerInv
<1>2. x \in DOMAIN auctions
  BY <1>1 DEF Collecting
<1>3. /\ DOMAIN v.rows = DOMAIN u.rows \cup {AuctionRow(x)}
      /\ \A r \in DOMAIN v.rows :
           v.rows[r] = IF r = AuctionRow(x) THEN auctions[x] ELSE u.rows[r]
  BY DEF Put
<1>4. Copies(v)
  BY <1>1, <1>2, <1>3, RowsAre, CommittedIs DEF Collecting, Copies
<1>5. x \in DueAuctions(u.t) <=> StillDue(x, u.t)
  BY <1>2 DEF DueAuctions, StillDue
<1>6. v.due \subseteq DueAuctions(u.t) /\ DueAuctions(u.t) \subseteq v.todo \cup v.due
  BY <1>1, <1>5 DEF Collecting
<1>7. \A y \in v.due : Holds(v, AuctionRow(y))
  BY <1>1, <1>3 DEF Collecting, Holds
<1>8. Collecting(v)
  BY <1>1, <1>4, <1>6, <1>7 DEF Collecting, SameUnit
<1> QED  BY <1>1, <1>8 DEF WorkerInv

(* It has locked them all and starts to settle.                            *)
LEMMA DueCollected ==
    ASSUME IInv, NEW u, u.req.op = "settle", u.pc = "due", WorkerInv(u), AuctionsFirst(u),
           u.todo = {}, NEW v, SameUnit(u, v), v.t = u.t,
           v.due = u.due, v.rows = u.rows, v.pc = "next"
    PROVE  WorkerInv(v)
<1>1. Collecting(u) /\ u.t \in 0..now
  BY DEF WorkerInv
<1>2. v.due = DueAuctions(v.t) /\ \A x \in DueAuctions(v.t) : Holds(v, AuctionRow(x))
  <2>1. /\ u.due \subseteq DueAuctions(u.t) /\ DueAuctions(u.t) \subseteq u.due
        /\ \A x \in u.due : Holds(u, AuctionRow(x))
    BY <1>1 DEF Collecting
  <2>2. u.due = DueAuctions(u.t)
    BY <2>1
  <2> QED  BY <2>1, <2>2 DEF Holds
<1>3. Done(v) = {}
  BY <1>2 DEF Done
<1>4. \A r \in DOMAIN v.rows : r \in Rows /\ \E x : r = AuctionRow(x)
  BY <1>1 DEF Collecting, Copies, AuctionsFirst
<1>5. SettledSoFar(v, {})
  <2>1. \A i : ~Holds(v, ItemRow(i)) /\ ~Holds(v, WalletRow(i))
    BY <1>4, RowsDiffer DEF Holds
  <2>2. \A x : Holds(v, AuctionRow(x)) => v.rows[AuctionRow(x)] = auctions[x]
    BY <1>1, CopiesAre DEF Collecting, Holds
  <2>3. Won({}) = {}
    BY DEF Won
  <2> QED  BY <1>4, <2>1, <2>2, <2>3 DEF SettledSoFar
<1>6. PostedSoFar(v, {})
  <2>1. v.posts = <<>>
    BY <1>1 DEF Collecting, SameUnit
  <2>2. <<>> \in Seq(LedgerEntry)
    OBVIOUS
  <2>3. v.posts \in Seq([guild : Registered, type : LedgerTypes,
                         item : ItemIDs, amount : Nat])
    BY <2>1, <2>2, Zenon DEF LedgerEntry
  <2>4. DOMAIN v.posts = {}
    BY <2>1
  <2>5. ASSUME NEW k
        PROVE  PostedUnder(v.posts, k, v.t) = GoldIn(Leads, PostingUnder({}, k, v.t))
    <3>1. {n \in DOMAIN v.posts : k = KeyOf(v.posts[n], v.t)} = {}
      BY <2>4
    <3>2. PostingUnder({}, k, v.t) = {}
      BY DEF PostingUnder, Won
    <3> QED  BY <3>1, <3>2, GoldInEmpty DEF PostedUnder
  <2> QED  BY <2>3, <2>4, <2>5 DEF PostedSoFar
<1> QED  BY <1>1, <1>2, <1>3, <1>5, <1>6 DEF WorkerInv, Settling

(* It turns to one of the auctions it has yet to settle.                   *)
LEMMA LotChosen ==
    ASSUME NEW u, u.req.op = "settle", u.pc = "next", WorkerInv(u),
           NEW v, SameUnit(u, v), v.t = u.t, v.rows = u.rows, v.due = u.due,
           v.lot \in u.due, v.pc = "lot"
    PROVE  WorkerInv(v)
<1>1. Settling(u) /\ u.t \in 0..now
  BY DEF WorkerInv
<1>2. Done(v) = Done(u)
  BY DEF Done
<1>3. SettledSoFar(v, Done(u))
  BY <1>1 DEF Settling, SettledSoFar, Holds
<1>4. PostedSoFar(v, Done(u))
  BY <1>1 DEF Settling, PostedSoFar, SameUnit, Holds
<1>5. AtLot(v)
  BY DEF AtLot
<1>6. \A x \in DueAuctions(v.t) : Holds(v, AuctionRow(x))
  BY <1>1 DEF Settling, Holds
<1>7. Settling(v)
  BY <1>1, <1>2, <1>3, <1>4, <1>5, <1>6 DEF Settling
<1> QED  BY <1>1, <1>7 DEF WorkerInv

(* A lock gives it its own version of the row, or the committed one.       *)
LEMMA GrantsSettled ==
    ASSUME IInv, NEW S, S \subseteq DOMAIN auctions, NEW u, SettledSoFar(u, S),
           NEW row \in Rows, \A x : row # AuctionRow(x),
           NEW v, v.rows = Put(u.rows, row, Version(u, row))
    PROVE  SettledSoFar(v, S) /\ DOMAIN v.rows = DOMAIN u.rows \cup {row}
<1>1. /\ DOMAIN v.rows = DOMAIN u.rows \cup {row}
      /\ \A r \in DOMAIN u.rows : v.rows[r] = u.rows[r]
      /\ row \notin DOMAIN u.rows => v.rows[row] = Committed(row)
  BY DEF Put, Version
<1>2. \A r : Holds(v, r) => \/ Holds(u, r) /\ v.rows[r] = u.rows[r]
                            \/ ~Holds(u, r) /\ r = row /\ v.rows[r] = Committed(r)
  BY <1>1 DEF Holds
<1>3. \A r : Holds(u, r) => Holds(v, r)
  BY <1>1 DEF Holds
<1>4. \A r \in DOMAIN v.rows : r \in Rows
  BY <1>1 DEF SettledSoFar
<1>5. ASSUME NEW x, Holds(v, AuctionRow(x))
      PROVE  v.rows[AuctionRow(x)] =
               IF x \in S THEN [auctions[x] EXCEPT !.status = "settled"] ELSE auctions[x]
  <2>1. Holds(u, AuctionRow(x)) /\ v.rows[AuctionRow(x)] = u.rows[AuctionRow(x)]
    BY <1>2, <1>5
  <2> QED  BY <2>1 DEF SettledSoFar
<1>6. ASSUME NEW i, Holds(v, ItemRow(i))
      PROVE  v.rows[ItemRow(i)] = SettledItems(S)[i]
  <2>1. CASE Holds(u, ItemRow(i))
    BY <1>2, <1>6, <2>1 DEF SettledSoFar
  <2>2. CASE ~Holds(u, ItemRow(i))
    <3>1. i \in DOMAIN items
      BY <1>4, <1>6, RowsAre DEF Holds
    <3>2. v.rows[ItemRow(i)] = items[i]
      BY <1>2, <1>6, <2>2, <3>1, CommittedIs
    <3> QED  BY <2>2, <3>1, <3>2, Untouched
  <2> QED  BY <2>1, <2>2
<1>7. ASSUME NEW g, Holds(v, WalletRow(g))
      PROVE  v.rows[WalletRow(g)] = SettledWallets(S)[g]
  <2>1. CASE Holds(u, WalletRow(g))
    BY <1>2, <1>7, <2>1 DEF SettledSoFar
  <2>2. CASE ~Holds(u, WalletRow(g))
    <3>1. g \in DOMAIN wallets
      BY <1>4, <1>7, RowsAre DEF Holds
    <3>2. v.rows[WalletRow(g)] = wallets[g]
      BY <1>2, <1>7, <2>2, <3>1, CommittedIs
    <3> QED  BY <2>2, <3>1, <3>2, Untouched
  <2> QED  BY <2>1, <2>2
<1>8. /\ \A x \in S : Holds(v, AuctionRow(x)) /\ Holds(v, ItemRow(auctions[x].item))
      /\ \A x \in Won(S) : /\ Holds(v, WalletRow(Leader(auctions[x]).guild))
                           /\ Holds(v, WalletRow(auctions[x].seller))
                           /\ IsPositive(Leads[x])
  BY <1>3 DEF SettledSoFar
<1> QED  BY <1>1, <1>4, <1>5, <1>6, <1>7, <1>8 DEF SettledSoFar

(* It locks the item and the wallets of its lot.                           *)
LEMMA LotLocks ==
    ASSUME IInv, NEW u, u.req.op = "settle", u.pc \in {"lot", "leader", "payee"},
           WorkerInv(u), NEW row \in Wants(u) \cap Rows, NEW v, Grants(u, row, v)
    PROVE  WorkerInv(v)
<1> DEFINE S == Done(u)
           a == auctions[u.lot]
<1>1. Settling(u) /\ u.t \in 0..now /\ AtLot(u)
  BY DEF WorkerInv, Settling
<1>2. /\ v.req = u.req /\ v.posts = u.posts /\ v.t = u.t /\ v.due = u.due /\ v.lot = u.lot
      /\ v.rows = Put(u.rows, row, Version(u, row))
      /\ v.pc = IF u.pc = "lot" /\ HighestBid(Lot(u)) = 0 THEN "settle"
                ELSE After("settle", u.pc)
  BY DEF Grants, SameUnit
<1>3. /\ u.lot \in DOMAIN auctions /\ u.lot \notin S /\ Holds(u, AuctionRow(u.lot))
      /\ S \subseteq DOMAIN auctions
  BY <1>1 DEF AtLot, Settling, Done, DueAuctions
<1>4. Lot(u) = a
  BY <1>1, <1>3 DEF Lot, Settling, SettledSoFar
<1>5. /\ u.pc = "lot" => row = ItemRow(a.item)
      /\ u.pc = "leader" => row = WalletRow(Leader(a).guild)
      /\ u.pc = "payee" => row = WalletRow(a.seller)
  BY <1>4, WantsIs
<1>6. \A x : row # AuctionRow(x)
  BY <1>5, RowsDiffer
<1>7. SettledSoFar(v, S) /\ DOMAIN v.rows = DOMAIN u.rows \cup {row}
  <2>1. SettledSoFar(u, S)
    BY <1>1 DEF Settling
  <2> HIDE DEF S
  <2> QED  BY <1>2, <1>3, <1>6, <2>1, GrantsSettled
<1>8. \A r : r = row \/ Holds(u, r) => Holds(v, r)
  BY <1>7 DEF Holds
<1>9. Done(v) = S /\ PostedSoFar(v, S)
  BY <1>1, <1>2, <1>8 DEF Done, Settling, PostedSoFar
<1>10. AtLot(v)
  <2>1. /\ u.pc = "lot" => v.pc = IF HighestBid(a) = 0 THEN "settle" ELSE "leader"
        /\ u.pc = "leader" => v.pc = "payee"
        /\ u.pc = "payee" => v.pc = "settle"
    BY <1>2, <1>4, AfterIs
  <2>2. u.lot \in u.due /\ (u.pc # "lot" => Holds(v, ItemRow(a.item)) /\ HighestBid(a) # 0)
        /\ (u.pc = "payee" => Holds(v, WalletRow(Leader(a).guild)))
    BY <1>1, <1>8 DEF AtLot
  <2> QED  BY <1>2, <1>5, <1>8, <2>1, <2>2 DEF AtLot
<1>11. Settling(v)
  BY <1>1, <1>2, <1>7, <1>8, <1>9, <1>10 DEF Settling
<1>12. v.pc # "due"
  BY <1>2, AfterIs
<1> QED  BY <1>1, <1>2, <1>11, <1>12 DEF WorkerInv

(* The rows of a unit with the auction at hand settled, table by table.    *)
LotRows(u, rows) ==
    /\ DOMAIN rows = DOMAIN u.rows
    /\ \A y : Holds(u, AuctionRow(y)) =>
        rows[AuctionRow(y)] = IF y = u.lot THEN [auctions[y] EXCEPT !.status = "settled"]
                              ELSE u.rows[AuctionRow(y)]
    /\ \A i : Holds(u, ItemRow(i)) =>
        rows[ItemRow(i)] = IF i = auctions[u.lot].item
                           THEN ClosedItem(u.lot, u.rows[ItemRow(i)])
                           ELSE u.rows[ItemRow(i)]
    /\ \A g : Holds(u, WalletRow(g)) =>
        rows[WalletRow(g)] =
          [total    |-> u.rows[WalletRow(g)].total - Pays(u.lot, g) + Gets(u.lot, g),
           reserved |-> u.rows[WalletRow(g)].reserved - Pays(u.lot, g)]

(* Changing the status of two records of a function.                       *)
LEMMA TwoStatuses ==
    ASSUME NEW f, NEW p \in DOMAIN f, NEW q \in DOMAIN f, p # q, NEW c, NEW d, NEW h,
           h = [f EXCEPT ![p].status = c, ![q].status = d]
    PROVE  /\ DOMAIN h = DOMAIN f
           /\ h[p] = [f[p] EXCEPT !.status = c]
           /\ h[q] = [f[q] EXCEPT !.status = d]
           /\ \A r \in DOMAIN f : r # p /\ r # q => h[r] = f[r]
OBVIOUS

(* What closing the lot at hand does to the rows.                          *)
LEMMA ClosedRowsAre ==
    ASSUME NEW u, Holds(u, AuctionRow(u.lot)), Lot(u) = auctions[u.lot],
           Holds(u, ItemRow(auctions[u.lot].item))
    PROVE  LET rows == ClosedRows(u)
           IN  /\ DOMAIN rows = DOMAIN u.rows
               /\ rows[AuctionRow(u.lot)] = [auctions[u.lot] EXCEPT !.status = "settled"]
               /\ rows[ItemRow(auctions[u.lot].item)] =
                    ClosedItem(u.lot, u.rows[ItemRow(auctions[u.lot].item)])
               /\ \A r \in DOMAIN u.rows :
                    r # AuctionRow(u.lot) /\ r # ItemRow(auctions[u.lot].item) =>
                      rows[r] = u.rows[r]
<1>1. PICK p : p = AuctionRow(u.lot)
  OBVIOUS
<1>2. PICK q : q = ItemRow(auctions[u.lot].item)
  OBVIOUS
<1>3. PICK d : d = IF HighestBid(Lot(u)) = 0 THEN "available" ELSE "sold_out"
  OBVIOUS
<1>4. PICK rows : rows = [u.rows EXCEPT ![p].status = "settled", ![q].status = d]
  OBVIOUS
<1>5. ClosedRows(u) = rows
  BY <1>1, <1>2, <1>3, <1>4, Zenon DEF ClosedRows
<1>6. p \in DOMAIN u.rows /\ q \in DOMAIN u.rows /\ p # q
  BY <1>1, <1>2, RowsDiffer DEF Holds
<1>7. /\ DOMAIN rows = DOMAIN u.rows
      /\ rows[p] = [u.rows[p] EXCEPT !.status = "settled"]
      /\ rows[q] = [u.rows[q] EXCEPT !.status = d]
      /\ \A r \in DOMAIN u.rows : r # p /\ r # q => rows[r] = u.rows[r]
  BY <1>4, <1>6, TwoStatuses
<1>8. u.rows[p] = auctions[u.lot]
  BY <1>1 DEF Lot
<1>9. [u.rows[q] EXCEPT !.status = d] = ClosedItem(u.lot, u.rows[q])
  BY <1>3 DEF ClosedItem
<1> QED  BY <1>1, <1>2, <1>5, <1>7, <1>8, <1>9, Zenon

(* A lot nobody bid for: no gold moves.                                    *)
LEMMA ClosedLotRows ==
    ASSUME NEW u, Holds(u, AuctionRow(u.lot)), Lot(u) = auctions[u.lot],
           Holds(u, ItemRow(auctions[u.lot].item)), HighestBid(auctions[u.lot]) = 0,
           \A g : Holds(u, WalletRow(g)) =>
               u.rows[WalletRow(g)] \in [total : Int, reserved : Int]
    PROVE  LotRows(u, ClosedRows(u))
<1>1. PICK rows : rows = ClosedRows(u)
  OBVIOUS
<1>2. /\ DOMAIN rows = DOMAIN u.rows
      /\ rows[AuctionRow(u.lot)] = [auctions[u.lot] EXCEPT !.status = "settled"]
      /\ rows[ItemRow(auctions[u.lot].item)] =
           ClosedItem(u.lot, u.rows[ItemRow(auctions[u.lot].item)])
      /\ \A r \in DOMAIN u.rows :
           r # AuctionRow(u.lot) /\ r # ItemRow(auctions[u.lot].item) => rows[r] = u.rows[r]
  BY <1>1, ClosedRowsAre, Zenon
<1>3. \A y : Holds(u, AuctionRow(y)) /\ y # u.lot =>
        rows[AuctionRow(y)] = u.rows[AuctionRow(y)]
  BY <1>2, RowsDiffer DEF Holds
<1>4. \A i : Holds(u, ItemRow(i)) /\ i # auctions[u.lot].item =>
        rows[ItemRow(i)] = u.rows[ItemRow(i)]
  BY <1>2, RowsDiffer DEF Holds
<1>5. \A g : Holds(u, WalletRow(g)) => rows[WalletRow(g)] = u.rows[WalletRow(g)]
  BY <1>2, RowsDiffer DEF Holds
<1>6. ASSUME NEW g, Holds(u, WalletRow(g))
      PROVE  rows[WalletRow(g)] =
              [total    |-> u.rows[WalletRow(g)].total - Pays(u.lot, g) + Gets(u.lot, g),
               reserved |-> u.rows[WalletRow(g)].reserved - Pays(u.lot, g)]
  <2>1. Pays(u.lot, g) = 0 /\ Gets(u.lot, g) = 0
    BY DEF Pays, Gets
  <2>2. PICK w \in [total : Int, reserved : Int] : w = u.rows[WalletRow(g)]
    BY <1>6
  <2>3. rows[WalletRow(g)] = w
    BY <1>5, <1>6, <2>2
  <2>4. w = [total |-> w.total - 0 + 0, reserved |-> w.reserved - 0]
    OBVIOUS
  <2> QED  BY <2>1, <2>2, <2>3, <2>4, Zenon
<1>7. LotRows(u, rows)
  BY <1>2, <1>3, <1>4, <1>6, Zenon DEF LotRows
<1> QED  BY <1>1, <1>7

(* A lot that was bid for: the leader pays the seller.                     *)
LEMMA PaidLotRows ==
    ASSUME IInv, NEW u, u.lot \in DOMAIN auctions,
           Holds(u, AuctionRow(u.lot)), Lot(u) = auctions[u.lot],
           Holds(u, ItemRow(auctions[u.lot].item)), HighestBid(auctions[u.lot]) # 0,
           Holds(u, WalletRow(Leader(auctions[u.lot]).guild)),
           Holds(u, WalletRow(auctions[u.lot].seller)),
           \A g : Holds(u, WalletRow(g)) =>
               u.rows[WalletRow(g)] \in [total : Int, reserved : Int]
    PROVE  LotRows(u, PaidRows(u))
<1>1. PICK c : c = ClosedRows(u)
  OBVIOUS
<1>2. /\ DOMAIN c = DOMAIN u.rows
      /\ c[AuctionRow(u.lot)] = [auctions[u.lot] EXCEPT !.status = "settled"]
      /\ c[ItemRow(auctions[u.lot].item)] =
           ClosedItem(u.lot, u.rows[ItemRow(auctions[u.lot].item)])
      /\ \A r \in DOMAIN u.rows :
           r # AuctionRow(u.lot) /\ r # ItemRow(auctions[u.lot].item) => c[r] = u.rows[r]
  BY <1>1, ClosedRowsAre, Zenon
<1>3. PICK p \in Nat : p = Leads[u.lot] /\ p = Leader(auctions[u.lot]).amount
  BY LeaderIs
<1>4. PICK win : win = Leader(auctions[u.lot]).guild
  OBVIOUS
<1>5. PICK sell : sell = auctions[u.lot].seller
  OBVIOUS
<1>6. PICK w, z : w = WalletRow(win) /\ z = WalletRow(sell)
  OBVIOUS
<1>7. PICK d : d = Debit(Release(c[w], p), p)
  OBVIOUS
<1>m. PICK m : m = [c EXCEPT ![w] = d]
  OBVIOUS
<1>e. PICK e : e = Credit(m[z], p)
  OBVIOUS
<1>r. PICK rows : rows = [m EXCEPT ![z] = e]
  OBVIOUS
<1>8. PaidRows(u) = rows
  BY <1>1, <1>3, <1>4, <1>5, <1>6, <1>7, <1>m, <1>e, <1>r, Zenon DEF PaidRows
<1>9. w \in DOMAIN c /\ z \in DOMAIN c
  BY <1>2, <1>4, <1>5, <1>6 DEF Holds
<1>10. /\ DOMAIN rows = DOMAIN c
       /\ \A r \in DOMAIN c : r # w /\ r # z => rows[r] = c[r]
       /\ w # z => rows[w] = Debit(Release(c[w], p), p) /\ rows[z] = Credit(c[z], p)
       /\ w = z => rows[w] = Credit(Debit(Release(c[w], p), p), p)
  <2>1. /\ DOMAIN m = DOMAIN c /\ m[w] = d
        /\ \A r \in DOMAIN c : r # w => m[r] = c[r]
    BY <1>9, <1>m
  <2>2. /\ DOMAIN rows = DOMAIN c /\ rows[z] = e
        /\ \A r \in DOMAIN c : r # z => rows[r] = m[r]
    BY <1>9, <1>r, <2>1
  <2> QED  BY <1>7, <1>9, <1>e, <2>1, <2>2
<1>11. \A y : Holds(u, AuctionRow(y)) => rows[AuctionRow(y)] =
          IF y = u.lot THEN [auctions[y] EXCEPT !.status = "settled"]
          ELSE u.rows[AuctionRow(y)]
  BY <1>2, <1>6, <1>10, RowsDiffer DEF Holds
<1>12. \A i : Holds(u, ItemRow(i)) => rows[ItemRow(i)] =
          IF i = auctions[u.lot].item THEN ClosedItem(u.lot, u.rows[ItemRow(i)])
          ELSE u.rows[ItemRow(i)]
  BY <1>2, <1>6, <1>10, RowsDiffer DEF Holds
<1>13. ASSUME NEW g, Holds(u, WalletRow(g))
      PROVE  rows[WalletRow(g)] =
              [total    |-> u.rows[WalletRow(g)].total - Pays(u.lot, g) + Gets(u.lot, g),
               reserved |-> u.rows[WalletRow(g)].reserved - Pays(u.lot, g)]
  <2>1. PICK b \in [total : Int, reserved : Int] : b = u.rows[WalletRow(g)]
    BY <1>13
  <2>2. WalletRow(g) \in DOMAIN c /\ c[WalletRow(g)] = b
    BY <1>2, <1>13, <2>1, RowsDiffer DEF Holds
  <2>3. WalletRow(g) = w <=> g = win
    BY <1>6, RowsDiffer
  <2>4. WalletRow(g) = z <=> g = sell
    BY <1>6, RowsDiffer
  <2>5. /\ Pays(u.lot, g) = IF g = win THEN p ELSE 0
        /\ Gets(u.lot, g) = IF g = sell THEN p ELSE 0
    BY <1>3, <1>4, <1>5 DEF Pays, Gets
  <2>6. PICK P, G \in Nat : P = Pays(u.lot, g) /\ G = Gets(u.lot, g)
    BY <2>5
  <2>7. rows[WalletRow(g)] = [total |-> b.total - P + G, reserved |-> b.reserved - P]
    <3>1. CASE g # win /\ g # sell
      <4>1. rows[WalletRow(g)] = b /\ P = 0 /\ G = 0
        BY <1>10, <2>2, <2>3, <2>4, <2>5, <2>6, <3>1
      <4>2. b = [total |-> b.total - 0 + 0, reserved |-> b.reserved - 0]
        OBVIOUS
      <4> QED  BY <4>1, <4>2, Zenon
    <3>2. CASE g = win /\ g # sell
      <4>1. rows[WalletRow(g)] = Debit(Release(b, p), p) /\ P = p /\ G = 0
        BY <1>10, <2>2, <2>3, <2>4, <2>5, <2>6, <3>2
      <4>2. Debit(Release(b, p), p) = [total |-> b.total - p + 0, reserved |-> b.reserved - p]
        <5>1. PICK after : after = [total |-> b.total, reserved |-> b.reserved - p]
          OBVIOUS
        <5>2. after = Release(b, p)
          BY <5>1 DEF Release
        <5>3. Debit(after, p) = [total |-> b.total - p + 0, reserved |-> b.reserved - p]
          BY <5>1 DEF Debit
        <5> QED  BY <5>2, <5>3
      <4> QED  BY <4>1, <4>2, Zenon
    <3>3. CASE g # win /\ g = sell
      <4>1. rows[WalletRow(g)] = Credit(b, p) /\ P = 0 /\ G = p
        BY <1>10, <2>2, <2>3, <2>4, <2>5, <2>6, <3>3
      <4>2. Credit(b, p) = [total |-> b.total - 0 + p, reserved |-> b.reserved - 0]
        BY DEF Credit
      <4> QED  BY <4>1, <4>2, Zenon
    <3>4. CASE g = win /\ g = sell
      <4>1. rows[WalletRow(g)] = Credit(Debit(Release(b, p), p), p) /\ P = p /\ G = p
        BY <1>10, <2>2, <2>3, <2>4, <2>5, <2>6, <3>4
      <4>2. Credit(Debit(Release(b, p), p), p) =
              [total |-> b.total - p + p, reserved |-> b.reserved - p]
        <5>1. PICK after : after = [total |-> b.total, reserved |-> b.reserved - p]
          OBVIOUS
        <5>2. after = Release(b, p)
          BY <5>1 DEF Release
        <5>3. PICK down : down = [total |-> b.total - p, reserved |-> b.reserved - p]
          OBVIOUS
        <5>4. down = Debit(after, p)
          BY <5>1, <5>3 DEF Debit
        <5>5. Credit(down, p) = [total |-> b.total - p + p, reserved |-> b.reserved - p]
          BY <5>3 DEF Credit
        <5> QED  BY <5>2, <5>4, <5>5
      <4> QED  BY <4>1, <4>2, Zenon
    <3> QED  BY <3>1, <3>2, <3>3, <3>4
  <2> QED  BY <2>1, <2>6, <2>7, Zenon
<1>14. LotRows(u, rows)
  BY <1>2, <1>10, <1>11, <1>12, <1>13, Zenon DEF LotRows
<1> QED  BY <1>8, <1>14

(* With its lot settled, the unit has one auction more settled.            *)
LEMMA OneMoreSettled ==
    ASSUME IInv, AuctionsMatchItems, NEW u, NEW S, S \subseteq DOMAIN auctions,
           SettledSoFar(u, S), u.lot \in DOMAIN auctions, u.lot \notin S,
           auctions[u.lot].status = "active",
           Holds(u, AuctionRow(u.lot)), Holds(u, ItemRow(auctions[u.lot].item)),
           HighestBid(auctions[u.lot]) # 0 =>
               /\ Holds(u, WalletRow(Leader(auctions[u.lot]).guild))
               /\ Holds(u, WalletRow(auctions[u.lot].seller))
               /\ IsPositive(Leads[u.lot]),
           NEW v, LotRows(u, v.rows)
    PROVE  SettledSoFar(v, S \cup {u.lot})
<1>1. PICK x \in DOMAIN auctions : x = u.lot
  OBVIOUS
<1>2. PICK T : T = S \cup {x}
  OBVIOUS
<1>x. AddsToSettled(S, x, T)
  BY <1>1, <1>2, OneMore
<1>3. /\ Won(T) = IF HighestBid(auctions[x]) # 0 THEN Won(S) \cup {x} ELSE Won(S)
      /\ auctions[x].item \in DOMAIN items
      /\ SettledItems(S)[auctions[x].item] = items[auctions[x].item]
      /\ \A i \in DOMAIN items : SettledItems(T)[i] =
           IF i = auctions[x].item THEN ClosedItem(x, items[i]) ELSE SettledItems(S)[i]
      /\ \A g \in DOMAIN wallets : SettledWallets(T)[g] =
           [total    |-> SettledWallets(S)[g].total - Pays(x, g) + Gets(x, g),
            reserved |-> SettledWallets(S)[g].reserved - Pays(x, g)]
  BY <1>x DEF AddsToSettled
<1>4. \A r : Holds(v, r) <=> Holds(u, r)
  BY DEF LotRows, Holds
<1>5. \A r \in DOMAIN v.rows : r \in Rows
  BY DEF LotRows, SettledSoFar
<1>6. ASSUME NEW y, Holds(v, AuctionRow(y))
      PROVE  v.rows[AuctionRow(y)] =
               IF y \in T THEN [auctions[y] EXCEPT !.status = "settled"] ELSE auctions[y]
  <2>1. v.rows[AuctionRow(y)] = IF y = x THEN [auctions[y] EXCEPT !.status = "settled"]
                                ELSE u.rows[AuctionRow(y)]
    BY <1>1, <1>4, <1>6 DEF LotRows
  <2>2. u.rows[AuctionRow(y)] = IF y \in S THEN [auctions[y] EXCEPT !.status = "settled"]
                                ELSE auctions[y]
    BY <1>4, <1>6 DEF SettledSoFar
  <2> QED  BY <1>2, <2>1, <2>2
<1>7. ASSUME NEW i, Holds(v, ItemRow(i))
      PROVE  v.rows[ItemRow(i)] = SettledItems(T)[i]
  <2>1. i \in DOMAIN items
    BY <1>5, <1>7, RowsAre DEF Holds
  <2>2. u.rows[ItemRow(i)] = SettledItems(S)[i]
    BY <1>4, <1>7 DEF SettledSoFar
  <2>3. v.rows[ItemRow(i)] = IF i = auctions[x].item THEN ClosedItem(x, u.rows[ItemRow(i)])
                             ELSE u.rows[ItemRow(i)]
    BY <1>1, <1>4, <1>7 DEF LotRows
  <2> QED  BY <1>3, <2>1, <2>2, <2>3
<1>8. ASSUME NEW g, Holds(v, WalletRow(g))
      PROVE  v.rows[WalletRow(g)] = SettledWallets(T)[g]
  <2>1. g \in DOMAIN wallets
    BY <1>5, <1>8, RowsAre DEF Holds
  <2>2. u.rows[WalletRow(g)] = SettledWallets(S)[g]
    BY <1>4, <1>8 DEF SettledSoFar
  <2>3. v.rows[WalletRow(g)] =
          [total    |-> u.rows[WalletRow(g)].total - Pays(x, g) + Gets(x, g),
           reserved |-> u.rows[WalletRow(g)].reserved - Pays(x, g)]
    BY <1>1, <1>4, <1>8, Zenon DEF LotRows
  <2> QED  BY <1>3, <2>1, <2>2, <2>3, Zenon
<1>9. \A y \in T : Holds(v, AuctionRow(y)) /\ Holds(v, ItemRow(auctions[y].item))
  BY <1>1, <1>2, <1>4 DEF SettledSoFar
<1>10. \A y \in Won(T) : /\ Holds(v, WalletRow(Leader(auctions[y]).guild))
                         /\ Holds(v, WalletRow(auctions[y].seller))
                         /\ IsPositive(Leads[y])
  BY <1>1, <1>3, <1>4 DEF SettledSoFar
<1>11. SettledSoFar(v, T)
  BY <1>5, <1>6, <1>7, <1>8, <1>9, <1>10 DEF SettledSoFar
<1> QED  BY <1>1, <1>2, <1>11

(* The entries of a lot that was bid for.                                  *)
LEMMA LotPosted ==
    ASSUME IInv, AuctionsMatchItems, NEW u, NEW S, S \subseteq DOMAIN auctions,
           PostedSoFar(u, S), u.lot \in DOMAIN auctions, u.lot \notin S,
           auctions[u.lot].status = "active", HighestBid(auctions[u.lot]) # 0,
           auctions[u.lot].seller \in Registered,
           Holds(u, WalletRow(Leader(auctions[u.lot]).guild)),
           Holds(u, WalletRow(auctions[u.lot].seller)),
           NEW v, v.t = u.t, DOMAIN v.rows = DOMAIN u.rows,
           v.posts = u.posts \o LotPosts(auctions[u.lot])
    PROVE  PostedSoFar(v, S \cup {u.lot})
<1>1. PICK x \in DOMAIN auctions : x = u.lot
  OBVIOUS
<1>2. PICK T : T = S \cup {x}
  OBVIOUS
<1>x. AddsToSettled(S, x, T)
  BY <1>1, <1>2, OneMore
<1>3. /\ Leader(auctions[x]).guild \in Registered
      /\ Leader(auctions[x]).amount \in Nat /\ Leads[x] = Leader(auctions[x]).amount
  BY <1>1, LeaderIs
<1>4. auctions[x].item \in ItemIDs
  BY DEF IInv, TypeOK, Auction
<1>5. PICK e \in LedgerEntry :
        e = Entry(Leader(auctions[x]).guild, "settle", auctions[x].item, Leads[x])
  BY <1>3, <1>4 DEF LedgerEntry, Entry, LedgerTypes
<1>6. PICK f \in LedgerEntry :
        f = Entry(auctions[x].seller, "credit", auctions[x].item, Leads[x])
  BY <1>1, <1>3, <1>4 DEF LedgerEntry, Entry, LedgerTypes
<1>7. PICK posts \in Seq(LedgerEntry) : posts = u.posts
  BY DEF PostedSoFar, LedgerEntry
<1>8. v.posts = posts \o <<e, f>>
  BY <1>1, <1>3, <1>5, <1>6, <1>7, Zenon DEF LotPosts
<1>9. PICK more \in Seq(LedgerEntry) : more = posts \o <<e, f>>
  BY PostTwo, Zenon
<1>10. \A k, t : PostedUnder(more, k, t) =
          (PostedUnder(posts, k, t) + (IF k = KeyOf(e, t) THEN e.amount ELSE 0))
             + (IF k = KeyOf(f, t) THEN f.amount ELSE 0)
  <2>1. \A k, t : PostedUnder(posts \o <<e, f>>, k, t) =
          (PostedUnder(posts, k, t) + (IF k = KeyOf(e, t) THEN e.amount ELSE 0))
             + (IF k = KeyOf(f, t) THEN f.amount ELSE 0)
    BY PostTwo
  <2> QED  BY <1>9, <2>1, Zenon
<1>11. v.posts = more
  BY <1>8, <1>9, Zenon
<1>12. ASSUME NEW k \in LedgerKeys
       PROVE  PostedUnder(v.posts, k, v.t) = GoldIn(Leads, PostingUnder(T, k, v.t))
  <2>1. KeyOf(e, u.t) = <<Leader(auctions[x]).guild, "settle", auctions[x].item, Day(u.t)>>
    BY <1>5 DEF KeyOf, Entry
  <2>2. KeyOf(f, u.t) = <<auctions[x].seller, "credit", auctions[x].item, Day(u.t)>>
    BY <1>6 DEF KeyOf, Entry
  <2>3. e.amount = Leads[x] /\ f.amount = Leads[x]
    BY <1>5, <1>6 DEF Entry
  <2>4. KeyOf(e, u.t) # KeyOf(f, u.t)
    BY <2>1, <2>2
  <2>6. PICK old : old = PostedUnder(posts, k, u.t)
    OBVIOUS
  <2>7. PostedUnder(more, k, u.t) =
          (old + (IF k = KeyOf(e, u.t) THEN Leads[x] ELSE 0))
            + (IF k = KeyOf(f, u.t) THEN Leads[x] ELSE 0)
    BY <1>10, <2>3, <2>6, Zenon
  <2>8. GoldIn(Leads, PostingUnder(T, k, u.t)) =
          GoldIn(Leads, PostingUnder(S, k, u.t)) + Posts(x, k, u.t)
    BY <1>x DEF AddsToSettled
  <2>9. old = GoldIn(Leads, PostingUnder(S, k, u.t))
    BY <1>7, <2>6 DEF PostedSoFar
  <2>10. old \in Nat
    <3>1. PostingUnder(S, k, u.t) \in SUBSET DOMAIN auctions
      BY DEF PostingUnder, Won
    <3>2. AuctionRows /\ FinitelyManyAuctions
      BY DEF IInv, TypeOK, AuctionRows
    <3> QED  BY <2>9, <3>1, <3>2, LeadsAddUp
  <2>11. Posts(x, k, u.t) = (IF k = KeyOf(e, u.t) THEN Leads[x] ELSE 0)
                              + (IF k = KeyOf(f, u.t) THEN Leads[x] ELSE 0)
    BY <1>1, <1>3, <2>1, <2>2, <2>4 DEF Posts
  <2>12. PostedUnder(more, k, u.t) = old + Posts(x, k, u.t)
    BY <1>3, <2>7, <2>10, <2>11
  <2>13. PostedUnder(more, k, u.t) = GoldIn(Leads, PostingUnder(T, k, u.t))
    BY <2>8, <2>9, <2>12, Zenon
  <2> QED  BY <1>11, <2>13, Zenon
<1>13. ASSUME NEW n \in DOMAIN v.posts
       PROVE  Holds(v, WalletRow(v.posts[n].guild))
  <2>1. /\ DOMAIN more = 1..(Len(posts) + 2)
        /\ \A m \in 1..Len(posts) : more[m] = posts[m]
        /\ more[Len(posts) + 1] = e /\ more[Len(posts) + 2] = f /\ Len(posts) \in Nat
    BY <1>9
  <2>2. \A m \in 1..Len(posts) : Holds(u, WalletRow(posts[m].guild))
    BY <1>7 DEF PostedSoFar
  <2>3. Holds(u, WalletRow(e.guild)) /\ Holds(u, WalletRow(f.guild))
    BY <1>1, <1>5, <1>6 DEF Entry
  <2>4. n \in 1..Len(posts) \/ n = Len(posts) + 1 \/ n = Len(posts) + 2
    BY <1>11, <1>13, <2>1
  <2>5. v.posts[n] = more[n]
    BY <1>11
  <2>6. Holds(u, WalletRow(more[n].guild))
    BY <2>1, <2>2, <2>3, <2>4
  <2> QED  BY <2>5, <2>6 DEF Holds
<1>14. v.posts \in Seq([guild : Registered, type : LedgerTypes, item : ItemIDs, amount : Nat])
  BY <1>11, Zenon DEF LedgerEntry
<1>15. PostedSoFar(v, T)
  BY <1>12, <1>13, <1>14, Zenon DEF PostedSoFar
<1> QED  BY <1>1, <1>2, <1>15

(* A lot nobody bid for posts nothing.                                     *)
LEMMA LotUnposted ==
    ASSUME IInv, AuctionsMatchItems, NEW u, NEW S, S \subseteq DOMAIN auctions,
           PostedSoFar(u, S), u.lot \in DOMAIN auctions, u.lot \notin S,
           auctions[u.lot].status = "active", HighestBid(auctions[u.lot]) = 0,
           NEW v, v.t = u.t, DOMAIN v.rows = DOMAIN u.rows, v.posts = u.posts \o <<>>
    PROVE  PostedSoFar(v, S \cup {u.lot})
<1>1. PICK posts \in Seq(LedgerEntry) : posts = u.posts
  BY DEF PostedSoFar, LedgerEntry
<1>2. posts \o <<>> = posts
  OBVIOUS
<1>3. v.posts = u.posts
  BY <1>1, <1>2, Zenon
<1>4. Won(S \cup {u.lot}) = Won(S)
  BY DEF Won
<1>5. \A k, t : PostingUnder(S \cup {u.lot}, k, t) = PostingUnder(S, k, t)
  BY <1>4 DEF PostingUnder
<1> QED  BY <1>3, <1>5 DEF PostedSoFar, Holds

(* The unit settles the lot at hand.                                       *)
LEMMA LotSettled ==
    ASSUME IInv, AuctionsMatchItems, NEW s, unit[s].req.op = "settle", unit[s].pc = "settle",
           WorkerInv(unit[s]), NEW v, Settles(s, v)
    PROVE  WorkerInv(v)
<1>0. PICK u : u = unit[s]
  OBVIOUS
<1>00. PICK S : S = Done(u)
  OBVIOUS
<1>1. Settling(u) /\ u.t \in 0..now /\ AtLot(u)
  BY <1>0 DEF WorkerInv, Settling
<1>2. /\ u.lot \in DOMAIN auctions /\ u.lot \notin S /\ Holds(u, AuctionRow(u.lot))
      /\ auctions[u.lot].status = "active" /\ u.lot \in u.due /\ u.lot \in DueAuctions(u.t)
      /\ S \subseteq DOMAIN auctions
  BY <1>00, <1>1 DEF AtLot, Settling, Done, DueAuctions, Due
<1>3. SettledSoFar(u, S) /\ PostedSoFar(u, S)
  BY <1>00, <1>1 DEF Settling
<1>4. Lot(u) = auctions[u.lot]
  BY <1>2, <1>3 DEF Lot, SettledSoFar
<1>5. /\ Holds(u, ItemRow(auctions[u.lot].item))
      /\ HighestBid(auctions[u.lot]) # 0 =>
           /\ Holds(u, WalletRow(Leader(auctions[u.lot]).guild))
           /\ Holds(u, WalletRow(auctions[u.lot].seller))
  BY <1>0, <1>1 DEF AtLot
<1>6. ASSUME NEW g, Holds(u, WalletRow(g))
      PROVE  /\ g \in DOMAIN wallets
             /\ u.rows[WalletRow(g)] \in [total : Int, reserved : Int]
  <2>1. g \in DOMAIN wallets
    BY <1>3, <1>6, RowsAre DEF SettledSoFar, Holds
  <2>2. u.rows[WalletRow(g)] = SettledWallets(S)[g]
    BY <1>3, <1>6 DEF SettledSoFar
  <2>3. SettledWallets(S)[g] \in [total : Int, reserved : Int]
    <3>1. AddsToSettled(S, u.lot, S \cup {u.lot})
      BY <1>2, OneMore
    <3> QED  BY <2>1, <3>1 DEF AddsToSettled
  <2> QED  BY <2>1, <2>2, <2>3
<1>7. /\ v.req = u.req /\ v.t = u.t /\ v.due = u.due \ {u.lot} /\ v.pc = "next"
      /\ \/ /\ HighestBid(auctions[u.lot]) = 0
            /\ v.rows = ClosedRows(u) /\ v.posts = u.posts \o <<>>
         \/ /\ HighestBid(auctions[u.lot]) # 0
            /\ CanRelease(u.rows[WalletRow(Leader(auctions[u.lot]).guild)],
                          Leader(auctions[u.lot]).amount)
            /\ v.rows = PaidRows(u) /\ v.posts = u.posts \o LotPosts(auctions[u.lot])
  BY <1>0, <1>4, Zenon DEF Settles, LotDone
<1>8. LotRows(u, v.rows)
  <2>1. CASE HighestBid(auctions[u.lot]) = 0
    BY <1>2, <1>4, <1>5, <1>6, <1>7, <2>1, ClosedLotRows, Zenon
  <2>2. CASE HighestBid(auctions[u.lot]) # 0
    BY <1>2, <1>4, <1>5, <1>6, <1>7, <2>2, PaidLotRows, Zenon
  <2> QED  BY <2>1, <2>2
<1>9. HighestBid(auctions[u.lot]) # 0 => IsPositive(Leads[u.lot])
  BY <1>2, <1>7, LeaderIs DEF CanRelease
<1>10. SettledSoFar(v, S \cup {u.lot})
  BY <1>2, <1>3, <1>5, <1>8, <1>9, OneMoreSettled, Zenon
<1>11. DOMAIN v.rows = DOMAIN u.rows
  BY <1>8 DEF LotRows
<1>12. PostedSoFar(v, S \cup {u.lot})
  <2>1. CASE HighestBid(auctions[u.lot]) = 0
    BY <1>2, <1>3, <1>7, <1>11, <2>1, LotUnposted, Zenon
  <2>2. CASE HighestBid(auctions[u.lot]) # 0
    <3>1. auctions[u.lot].seller \in Registered
      BY <1>5, <1>6, <2>2 DEF IInv, TypeOK
    <3> QED  BY <1>2, <1>3, <1>5, <1>7, <1>11, <2>2, <3>1, LotPosted, Zenon
  <2> QED  BY <2>1, <2>2
<1>13. Done(v) = S \cup {u.lot}
  BY <1>00, <1>2, <1>7 DEF Done
<1>14. v.due \subseteq DueAuctions(v.t) /\ \A x \in DueAuctions(v.t) : Holds(v, AuctionRow(x))
  BY <1>1, <1>7, <1>11 DEF Settling, Holds
<1>15. Settling(v)
  BY <1>7, <1>10, <1>12, <1>13, <1>14 DEF Settling
<1> QED  BY <1>1, <1>7, <1>15 DEF WorkerInv

(* The settlement unit commits as Market's, with the reading it started    *)
(* with.                                                                   *)
LEMMA SettlementImplements ==
    ASSUME IInv, AuctionsMatchItems, ControlInv, DataInv, NEW s \in Sessions,
           unit[s].pc = "next", unit[s].due = {},
           Commit(s, unit[s].rows, unit[s].posts, unit[s].t)
    PROVE  CommitsOwn(s) /\ Next
<1>1. PICK u : u = unit[s]
  OBVIOUS
<1>2. PICK rows : rows = u.rows
  OBVIOUS
<1>3. s = Worker /\ u.req.op = "settle"
  BY <1>1, OpAt
<1>4. Settling(u) /\ u.t \in 0..now
  BY <1>1, <1>3 DEF DataInv, WorkerInv
<1>5. PICK S : S = DueAuctions(u.t)
  OBVIOUS
<1>6. SettledSoFar(u, S) /\ PostedSoFar(u, S)
  <2>1. Done(u) = S
    BY <1>1, <1>5 DEF Done
  <2> QED  BY <1>4, <2>1 DEF Settling
<1>7. /\ S \in SUBSET DOMAIN auctions
      /\ \A x \in S : Holds(u, AuctionRow(x))
  BY <1>5, <1>6 DEF SettledSoFar, DueAuctions
<1>8. Commit(s, rows, u.posts, u.t)
  BY <1>1, <1>2
<1>9. items' = SettledItems(S)
  <2>1. items' = [j \in DOMAIN items |->
                    IF ItemRow(j) \in DOMAIN rows THEN rows[ItemRow(j)] ELSE items[j]]
    BY <1>8, Zenon DEF Commit, UpdateItem
  <2>2. ASSUME NEW j \in DOMAIN items
        PROVE  items'[j] = SettledItems(S)[j]
    <3>1. CASE Holds(u, ItemRow(j))
      BY <1>2, <1>6, <2>1, <3>1 DEF SettledSoFar, Holds
    <3>2. CASE ~Holds(u, ItemRow(j))
      BY <1>2, <1>6, <1>7, <2>1, <3>2, Untouched DEF Holds
    <3> QED  BY <3>1, <3>2
  <2>3. SettledItems(S) = [j \in DOMAIN items |-> SettledItems(S)[j]]
    BY DEF SettledItems
  <2>4. items' = [j \in DOMAIN items |-> items'[j]]
    BY <2>1
  <2> QED  BY <2>2, <2>3, <2>4
<1>10. wallets' = SettledWallets(S)
  <2>1. wallets' = [j \in DOMAIN wallets |->
                      IF WalletRow(j) \in DOMAIN rows THEN rows[WalletRow(j)] ELSE wallets[j]]
    BY <1>8, Zenon DEF Commit, UpdateWallet
  <2>2. ASSUME NEW j \in DOMAIN wallets
        PROVE  wallets'[j] = SettledWallets(S)[j]
    <3>1. CASE Holds(u, WalletRow(j))
      BY <1>2, <1>6, <2>1, <3>1 DEF SettledSoFar, Holds
    <3>2. CASE ~Holds(u, WalletRow(j))
      BY <1>2, <1>6, <1>7, <2>1, <3>2, Untouched DEF Holds
    <3> QED  BY <3>1, <3>2
  <2>3. SettledWallets(S) = [j \in DOMAIN wallets |-> SettledWallets(S)[j]]
    BY Zenon DEF SettledWallets
  <2>4. wallets' = [j \in DOMAIN wallets |-> wallets'[j]]
    BY <2>1
  <2> QED  BY <2>2, <2>3, <2>4
<1>11. auctions' = [x \in DOMAIN auctions |->
                      IF x \in S THEN [auctions[x] EXCEPT !.status = "settled"]
                      ELSE auctions[x]]
  <2>1. auctions' = [j \in DOMAIN auctions |->
                      IF AuctionRow(j) \in DOMAIN rows THEN rows[AuctionRow(j)] ELSE auctions[j]]
    BY <1>8, Zenon DEF Commit, UpdateAuction
  <2>2. ASSUME NEW j \in DOMAIN auctions
        PROVE  auctions'[j] = IF j \in S THEN [auctions[j] EXCEPT !.status = "settled"]
                              ELSE auctions[j]
    <3>1. CASE Holds(u, AuctionRow(j))
      BY <1>2, <1>6, <2>1, <3>1 DEF SettledSoFar, Holds
    <3>2. CASE ~Holds(u, AuctionRow(j))
      BY <1>2, <1>7, <2>1, <3>2 DEF Holds
    <3> QED  BY <3>1, <3>2
  <2>3. auctions' = [j \in DOMAIN auctions |-> auctions'[j]]
    BY <2>1
  <2> QED  BY <2>2, <2>3
<1>12. ledger' = SettleEntries(S, u.t)
  <2>1. ledger' = AppendLedger(u.posts, u.t)
    BY <1>8 DEF Commit
  <2>2. \A k \in LedgerKeys :
          AppendLedger(u.posts, u.t)[k] = ledger[k] + GoldIn(Leads, PostingUnder(S, k, u.t))
    BY <1>6, AppendLedgerIs DEF PostedSoFar
  <2>3. SettleEntries(S, u.t) =
          [k \in LedgerKeys |-> ledger[k] + GoldIn(Leads, PostingUnder(S, k, u.t))]
    BY Zenon DEF SettleEntries, PostingUnder
  <2>4. AppendLedger(u.posts, u.t) = [k \in LedgerKeys |-> AppendLedger(u.posts, u.t)[k]]
    BY AppendLedgerIs
  <2> QED  BY <2>1, <2>2, <2>3, <2>4
<1>13. CanSettleAll(S)
  <2>1. \A x \in Won(S) : /\ Leader(auctions[x]).guild \in DOMAIN wallets
                          /\ auctions[x].seller \in DOMAIN wallets
                          /\ IsPositive(Leads[x])
    BY <1>6, RowsAre DEF SettledSoFar, Holds
  <2>2. ASSUME NEW g \in DOMAIN wallets
        PROVE  GoldIn(Leads, LedBy(g) \cap S) <= wallets[g].reserved
    <3>1. AuctionRows /\ FinitelyManyAuctions
      BY DEF IInv, TypeOK, AuctionRows
    <3>2. LedBy(g) \in SUBSET DOMAIN auctions
      BY DEF LedBy
    <3>3. IsFiniteSet(LedBy(g)) /\ \A x \in LedBy(g) : Leads[x] \in Nat
      BY <3>1, <3>2, LeadsAddUp
    <3>4. GoldIn(Leads, LedBy(g) \cap S) <= GoldIn(Leads, LedBy(g))
      BY <3>3, GoldInPart
    <3>5. wallets[g].reserved = GoldIn(Leads, LedBy(g))
      BY DEF IInv, TypeOK, ReservedBacksLeads
    <3> QED  BY <3>4, <3>5
  <2> QED  BY <2>1, <2>2 DEF CanSettleAll
<1>14. UNCHANGED now
  BY <1>8 DEF Commit
<1>15. u.t \in Readings
  BY <1>4, AnyReading DEF IInv
<1>16. SettleDueAuctions(u.t)
  BY <1>5, <1>9, <1>10, <1>11, <1>12, <1>13, <1>14, Zenon DEF SettleDueAuctions
<1>17. Next
  BY <1>15, <1>16, Zenon DEF Next, RunSettlementWorker
<1>18. \A n \in DOMAIN u.posts : WalletRow(u.posts[n].guild) \in DOMAIN u.rows
  BY <1>6 DEF PostedSoFar, Holds
<1> QED  BY <1>1, <1>17, <1>18, Zenon DEF CommitsOwn

-----------------------------------------------------------------------------
(* What one session does leaves the others with what they know.            *)

(* A step of the tables that makes no auction due at reading t.            *)
NoNewDue(t) == DueAuctions(t)' \subseteq DueAuctions(t)

(* A step of a session that leaves the tables alone.                       *)
LEMMA StillSpares ==
    ASSUME TypeOK, UNCHANGED vars, NEW u
    PROVE  Spares(u) /\ \A t : NoNewDue(t)
<1>1. UNCHANGED <<items, wallets, auctions, ledger, now>>
  BY DEF vars
<1>2. \A g, d : SpentSince(g, d)' = SpentSince(g, d)
  BY <1>1 DEF SpentSince, Posted, Days, Day
<1>3. \A t : DueAuctions(t)' = DueAuctions(t)
  BY <1>1 DEF DueAuctions
<1>4. now \in Nat
  BY DEF TypeOK
<1> QED  BY <1>1, <1>2, <1>3, <1>4 DEF Spares, NoNewDue

(* The clock moves on.                                                     *)
LEMMA TickSpares ==
    ASSUME TypeOK, Tick, NEW u
    PROVE  Spares(u) /\ \A t : NoNewDue(t)
<1>1. UNCHANGED <<items, wallets, auctions, ledger>> /\ now' = now + 1
  BY DEF Tick
<1>2. \A g, d : SpentSince(g, d)' = SpentSince(g, d)
  BY <1>1 DEF SpentSince, Posted, Days, Day
<1>3. \A t : DueAuctions(t)' = DueAuctions(t)
  BY <1>1 DEF DueAuctions
<1>4. now \in Nat
  BY DEF TypeOK
<1> QED  BY <1>1, <1>2, <1>3, <1>4 DEF Spares, NoNewDue

(* A new listing is nobody's yet, and a new auction runs for a while.      *)
LEMMA CreateItemSpares ==
    ASSUME TypeOK, NEW in \in Listings, NEW i \in ItemIDs, CreateItem(in, i, now), NEW u
    PROVE  Spares(u) /\ \A t \in 0..now : NoNewDue(t)
<1>1. UNCHANGED <<wallets, ledger, now>> /\ i \notin DOMAIN items /\ now \in Nat
  BY DEF CreateItem, TypeOK
<1>2. \A g, d : SpentSince(g, d)' = SpentSince(g, d)
  BY <1>1 DEF SpentSince, Posted, Days, Day
<1>3. \E it : items' = Put(items, i, it)
  BY DEF CreateItem
<1>4. DOMAIN items \subseteq DOMAIN items' /\ \A j \in DOMAIN items : items'[j] = items[j]
  BY <1>1, <1>3 DEF Put
<1>5. /\ DOMAIN auctions \subseteq DOMAIN auctions'
      /\ \A x \in DOMAIN auctions : auctions'[x] = auctions[x]
      /\ \A x \in DOMAIN auctions' \ DOMAIN auctions : auctions'[x].endsAt > now
  <2>1. CASE ~AuctionOnly(in.rarity)
    BY <2>1 DEF CreateItem
  <2>2. CASE AuctionOnly(in.rarity)
    <3>1. PICK x \in AuctionIDs \ DOMAIN auctions :
            auctions' = Put(auctions, x, NewAuction(i, in, now))
      BY <2>2 DEF CreateItem
    <3>2. PICK a : a = NewAuction(i, in, now)
      OBVIOUS
    <3>3. a.endsAt > now
      BY <1>1, <3>2, ClockAssumption, PostgresAssumption DEF NewAuction
    <3>4. auctions' = Put(auctions, x, a)
      BY <3>1, <3>2
    <3> QED  BY <3>3, <3>4 DEF Put
  <2> QED  BY <2>1, <2>2
<1>6. ASSUME NEW t \in 0..now
      PROVE  NoNewDue(t)
  <2>1. SUFFICES ASSUME NEW x \in DueAuctions(t)' PROVE x \in DueAuctions(t)
    BY DEF NoNewDue
  <2>2. x \in DOMAIN auctions' /\ Due(auctions'[x], t)
    BY DEF DueAuctions
  <2>3. x \in DOMAIN auctions
    <3>1. SUFFICES ASSUME x \notin DOMAIN auctions PROVE FALSE
      OBVIOUS
    <3>2. auctions'[x].endsAt > now /\ t >= auctions'[x].endsAt
      BY <1>5, <2>2, <3>1 DEF Due
    <3>3. PICK e : e = auctions'[x].endsAt
      OBVIOUS
    <3>4. e = now + AuctionWindow
      <4>1. PICK y \in AuctionIDs \ DOMAIN auctions :
              auctions' = Put(auctions, y, NewAuction(i, in, now))
        BY <2>2, <3>1 DEF CreateItem
      <4>2. PICK a : a = NewAuction(i, in, now)
        OBVIOUS
      <4>3. auctions'[x] = a
        BY <2>2, <3>1, <4>1, <4>2 DEF Put
      <4> QED  BY <3>3, <4>2, <4>3 DEF NewAuction
    <3> QED  BY <1>1, <3>2, <3>3, <3>4, ClockAssumption
  <2> QED  BY <1>5, <2>2, <2>3 DEF DueAuctions
<1> QED  BY <1>1, <1>2, <1>4, <1>5, <1>6 DEF Spares

(* A unit that commits reopens no auction and brings none forward.         *)
LEMMA CommitNoNewDue ==
    ASSUME IInv, NEW s, CommitsOwn(s), Next, NEW t \in Nat
    PROVE  NoNewDue(t)
<1>1. IInv' /\ RowSteps
  BY NextKeeps, NextIsAnyUnit, OnlyRowSteps
<1>2. DOMAIN auctions' = DOMAIN auctions
  BY DEF CommitsOwn, Commit, UpdateAuction
<1>3. SUFFICES ASSUME NEW x \in DueAuctions(t)' PROVE x \in DueAuctions(t)
  BY DEF NoNewDue
<1>4. x \in DOMAIN auctions /\ Due(auctions'[x], t) /\ RowStep(x) /\ x \in DOMAIN auctions'
  BY <1>1, <1>2 DEF DueAuctions, RowSteps
<1>5. auctions'[x].endsAt >= auctions[x].endsAt
  BY <1>1, <1>4, RowStepRises
<1>6. auctions[x] \in Auction /\ auctions'[x] \in Auction
  BY <1>1, <1>4 DEF IInv, TypeOK
<1>7. auctions[x].endsAt \in Nat /\ auctions'[x].endsAt \in Nat
  BY <1>6 DEF Auction
<1>8. auctions[x].status = "active"
  <2>1. CASE auctions'[x] = auctions[x]
    BY <1>4, <2>1 DEF Due
  <2>2. CASE BidTaken(x)
    BY <2>2 DEF BidTaken, CanPlaceBid
  <2>3. CASE BidWithdrawn(x)
    BY <2>3 DEF BidWithdrawn, CanCancelBid
  <2>4. CASE Closed(x)
    BY <2>4 DEF Closed
  <2> QED  BY <1>4, <2>1, <2>2, <2>3, <2>4 DEF RowStep
<1> QED  BY <1>4, <1>5, <1>7, <1>8 DEF Due, DueAuctions

(* A unit that is spared keeps what it knows.                              *)
LEMMA SparedKeeps ==
    ASSUME ControlInv, DataInv, NEW o \in Sessions, NEW u, u = unit[o], Spares(u),
           \A t \in 0..now : NoNewDue(t)
    PROVE  /\ o \in Clients => ClientInv(u)'
           /\ o = Worker => WorkerInv(u)'
<1>1. ASSUME o \in Clients PROVE ClientInv(u)'
  BY <1>1, SparesClient DEF DataInv
<1>2. ASSUME o = Worker PROVE WorkerInv(u)'
  <2>1. WorkerInv(u)
    BY <1>2 DEF DataInv
  <2>2. CASE u.req.op = "settle"
    <3>1. DueAuctions(u.t)' \subseteq DueAuctions(u.t)
      BY <2>1, <2>2 DEF WorkerInv, NoNewDue
    <3> QED  BY <2>1, <2>2, <3>1, SparesWorker
  <2>3. CASE u.req.op # "settle"
    BY <2>3 DEF WorkerInv
  <2> QED  BY <2>2, <2>3
<1> QED  BY <1>1, <1>2

(* One session moves on, the others are spared.                            *)
LEMMA MovesKeepData ==
    ASSUME ControlInv, DataInv, NEW s \in Sessions, NEW v, Moves(s, v),
           s \in Clients => ClientInv(v)', s = Worker => WorkerInv(v)',
           \A o \in Sessions : o # s => DOMAIN v.rows \cap DOMAIN unit[o].rows = {},
           \A o \in Sessions : o # s => Spares(unit[o]),
           \A t \in 0..now : NoNewDue(t)
    PROVE  DataInv'
<1>1. Exclusive'
  <2>1. SUFFICES ASSUME NEW a \in Sessions, NEW o \in Sessions, a # o
                 PROVE  DOMAIN unit'[a].rows \cap DOMAIN unit'[o].rows = {}
    BY DEF Exclusive
  <2>2. /\ unit'[s] = v /\ \A b \in Sessions : b # s => unit'[b] = unit[b]
        /\ \A b \in Sessions : b # s => DOMAIN v.rows \cap DOMAIN unit[b].rows = {}
    BY DEF Moves
  <2>3. CASE a = s
    BY <2>1, <2>2, <2>3
  <2>4. CASE o = s
    BY <2>1, <2>2, <2>4
  <2>5. CASE a # s /\ o # s
    <3>1. DOMAIN unit[a].rows \cap DOMAIN unit[o].rows = {}
      BY <2>1 DEF DataInv, Exclusive
    <3> QED  BY <2>2, <2>5, <3>1
  <2> QED  BY <2>3, <2>4, <2>5
<1>2. ASSUME NEW o \in Clients, NEW u, u = unit'[o]
      PROVE  ClientInv(u)'
  <2>1. CASE o = s
    BY <1>2, <2>1 DEF Moves
  <2>2. CASE o # s
    <3>1. o \in Sessions /\ u = unit[o]
      BY <1>2, <2>2 DEF Moves, Sessions
    <3>2. Spares(u)
      BY <2>2, <3>1
    <3> QED  BY <3>1, <3>2, SparedKeeps
  <2> QED  BY <2>1, <2>2
<1>3. ASSUME NEW u, u = unit'[Worker]
      PROVE  WorkerInv(u)'
  <2>1. CASE Worker = s
    BY <1>3, <2>1 DEF Moves
  <2>2. CASE Worker # s
    <3>1. Worker \in Sessions /\ u = unit[Worker]
      BY <1>3, <2>2 DEF Moves, Sessions
    <3>2. Spares(u)
      BY <2>2, <3>1
    <3> QED  BY <3>1, <3>2, SparedKeeps
  <2> QED  BY <2>1, <2>2
<1> QED  BY <1>1, <1>2, <1>3 DEF DataInv

(* The tables change under units that are all spared.                      *)
LEMMA TablesKeepData ==
    ASSUME ControlInv, DataInv, UNCHANGED unit, \A u : Spares(u),
           \A t \in 0..now : NoNewDue(t)
    PROVE  DataInv'
<1>1. Exclusive'
  BY DEF DataInv, Exclusive
<1>2. ASSUME NEW o \in Clients, NEW u, u = unit'[o]
      PROVE  ClientInv(u)'
  BY <1>2, SparedKeeps DEF Sessions
<1>3. ASSUME NEW u, u = unit'[Worker]
      PROVE  WorkerInv(u)'
  BY <1>3, SparedKeeps DEF Sessions
<1> QED  BY <1>1, <1>2, <1>3 DEF DataInv

-----------------------------------------------------------------------------
(* Every step of the store is a step of Market, or none.                   *)

(* Both kinds of inductive invariant together: Market's on the tables, and *)
(* what the open units know of them.                                       *)
PgInv == IInv /\ AuctionsMatchItems /\ ControlInv /\ DataInv

(* A step is Market's or leaves the tables alone.                          *)
MarketStep == UNCHANGED vars \/ Next

(* Closed units, after a step.                                             *)
LEMMA NoUnitDataNext == ClientInv(NoUnit)' /\ WorkerInv(NoUnit)'
BY NoUnitData, PTL

(* A statement that leaves the tables alone.                               *)
LEMMA QuietKeeps ==
    ASSUME PgInv, NEW s \in Sessions, NEW v, Moves(s, v), UNCHANGED vars,
           s \in Clients => ClientInv(v), s = Worker => WorkerInv(v),
           \A o \in Sessions : o # s => DOMAIN v.rows \cap DOMAIN unit[o].rows = {}
    PROVE  DataInv'
<1>1. \A u : Spares(u) /\ \A t : NoNewDue(t)
  BY StillSpares DEF PgInv, IInv
<1>2. s \in Clients => ClientInv(v)'
  BY <1>1, SparesClient
<1>3. s = Worker => WorkerInv(v)'
  <2>1. SUFFICES ASSUME s = Worker PROVE WorkerInv(v)'
    OBVIOUS
  <2>2. CASE v.req.op = "settle"
    BY <1>1, <2>1, <2>2, SparesWorker DEF NoNewDue
  <2>3. CASE v.req.op # "settle"
    BY <2>3 DEF WorkerInv
  <2> QED  BY <2>2, <2>3
<1> QED  BY <1>1, <1>2, <1>3, MovesKeepData DEF PgInv

(* A unit ends without a trace.                                            *)
LEMMA EndKeeps ==
    ASSUME PgInv, NEW s \in Sessions, Moves(s, NoUnit), UNCHANGED vars
    PROVE  DataInv'
BY QuietKeeps, NoUnitData, NoUnitInControl

(* A unit commits.                                                         *)
LEMMA CommitKeeps ==
    ASSUME PgInv, NEW s \in Sessions, CommitsOwn(s), Next
    PROVE  DataInv'
<1>1. Moves(s, NoUnit)
  BY EndMoves DEF PgInv, CommitsOwn
<1>2. ASSUME NEW o \in Sessions, o # s
      PROVE  Spares(unit[o])
  <2>1. PICK rows, posts, t :
          /\ Commit(s, rows, posts, t)
          /\ DOMAIN rows = DOMAIN unit[s].rows
          /\ \A n \in DOMAIN posts : WalletRow(posts[n].guild) \in DOMAIN rows
    BY DEF CommitsOwn
  <2>2. TypeOK /\ Exclusive
    BY DEF PgInv, IInv, DataInv
  <2> QED  BY <1>2, <2>1, <2>2, CommitSpares
<1>3. \A t \in 0..now : NoNewDue(t)
  BY CommitNoNewDue DEF PgInv
<1> QED  BY <1>1, <1>2, <1>3, MovesKeepData, NoUnitDataNext, NoUnitInControl DEF PgInv

(* A locking read of one row.                                              *)
LEMMA GetForUpdateKeeps ==
    ASSUME PgInv, NEW s \in Sessions, GetForUpdate(s)
    PROVE  DataInv' /\ UNCHANGED vars
<1>1. UNCHANGED vars /\ unit[s].pc \in LockingReads
  BY GetForUpdateGrants DEF PgInv
<1>2. PICK row \in Wants(unit[s]) \cap Rows : \E v :
        Free(s, row) /\ Moves(s, v) /\ Grants(unit[s], row, v)
  BY GetForUpdateGrants DEF PgInv
<1>3. PICK v : Free(s, row) /\ Moves(s, v) /\ Grants(unit[s], row, v)
  BY <1>2
<1>4. DOMAIN v.rows = DOMAIN unit[s].rows \cup {row}
  BY <1>3 DEF Grants, Put
<1>5. ASSUME NEW o \in Sessions, o # s
      PROVE  DOMAIN v.rows \cap DOMAIN unit[o].rows = {}
  <2>1. row \notin DOMAIN unit[o].rows
    BY <1>3, <1>5 DEF Free
  <2>2. DOMAIN unit[s].rows \cap DOMAIN unit[o].rows = {}
    BY <1>5 DEF PgInv, DataInv, Exclusive
  <2> QED  BY <1>4, <2>1, <2>2
<1>6. ASSUME s \in Clients PROVE ClientInv(v)
  <2>1. ClientInv(unit[s])
    BY <1>6 DEF PgInv, DataInv
  <2> QED  BY <1>1, <1>3, <1>6, <2>1, ClientGrant DEF PgInv
<1>7. ASSUME s = Worker PROVE WorkerInv(v)
  <2>1. PICK u : u = unit[s]
    OBVIOUS
  <2>2. WorkerInv(u)
    BY <1>7, <2>1 DEF PgInv, DataInv
  <2>3. u.pc \in {"lot", "leader", "payee"}
    BY <1>1, <1>7, <2>1, OpAt DEF PgInv, LockingReads
  <2>4. u.req.op = "settle"
    BY <1>7, <2>1, <2>3, OpAt, NoUnitInControl DEF PgInv
  <2>5. row \in Wants(u) \cap Rows /\ Grants(u, row, v)
    BY <1>2, <1>3, <2>1
  <2> QED  BY <2>2, <2>3, <2>4, <2>5, LotLocks DEF PgInv
<1> QED  BY <1>1, <1>3, <1>5, <1>6, <1>7, QuietKeeps

(* The locking read of the due auctions.                                   *)
LEMMA DueForUpdateKeeps ==
    ASSUME PgInv, NEW s \in Sessions, DueForUpdate(s)
    PROVE  DataInv' /\ UNCHANGED vars
<1>1. PICK u : u = unit[s]
  OBVIOUS
<1>2. /\ UNCHANGED vars /\ u.pc = "due"
      /\ \E v : /\ Moves(s, v) /\ SameUnit(u, v)
                /\ v.t = u.t /\ v.lot = u.lot
                /\ \/ \E x \in u.todo :
                        /\ Free(s, AuctionRow(x))
                        /\ v.rows = Put(u.rows, AuctionRow(x), auctions[x])
                        /\ v.todo = u.todo \ {x} /\ v.pc = "due"
                        /\ v.due = IF StillDue(x, u.t) THEN u.due \cup {x} ELSE u.due
                   \/ /\ u.todo = {} /\ v.todo = {} /\ v.due = u.due
                      /\ v.rows = u.rows /\ v.pc = "next"
  BY <1>1, DueForUpdateGrants DEF PgInv
<1>3. s = Worker /\ s \notin Clients /\ u.req.op = "settle"
  BY <1>1, <1>2, OpAt, PostgresAssumption DEF PgInv
<1>4. WorkerInv(u) /\ AuctionsFirst(u)
  BY <1>1, <1>3 DEF PgInv, DataInv, ControlInv, InControl
<1>5. PICK v : /\ Moves(s, v) /\ SameUnit(u, v)
               /\ v.t = u.t /\ v.lot = u.lot
               /\ \/ \E x \in u.todo :
                       /\ Free(s, AuctionRow(x))
                       /\ v.rows = Put(u.rows, AuctionRow(x), auctions[x])
                       /\ v.todo = u.todo \ {x} /\ v.pc = "due"
                       /\ v.due = IF StillDue(x, u.t) THEN u.due \cup {x} ELSE u.due
                  \/ /\ u.todo = {} /\ v.todo = {} /\ v.due = u.due
                     /\ v.rows = u.rows /\ v.pc = "next"
  BY <1>2
<1>6. ASSUME NEW o \in Sessions, o # s
      PROVE  DOMAIN u.rows \cap DOMAIN unit[o].rows = {}
  BY <1>1, <1>6 DEF PgInv, DataInv, Exclusive
<1>7. ASSUME NEW x \in u.todo, Free(s, AuctionRow(x)),
             v.rows = Put(u.rows, AuctionRow(x), auctions[x]),
             v.todo = u.todo \ {x}, v.pc = "due",
             v.due = IF StillDue(x, u.t) THEN u.due \cup {x} ELSE u.due
      PROVE  DataInv'
  <2>1. WorkerInv(v)
    BY <1>2, <1>3, <1>4, <1>5, <1>7, DueLocks
  <2>2. DOMAIN v.rows = DOMAIN u.rows \cup {AuctionRow(x)}
    BY <1>7 DEF Put
  <2>3. \A o \in Sessions : o # s => DOMAIN v.rows \cap DOMAIN unit[o].rows = {}
    BY <1>6, <1>7, <2>2 DEF Free
  <2> QED  BY <1>2, <1>3, <1>5, <2>1, <2>3, QuietKeeps
<1>8. CASE u.todo = {} /\ v.todo = {} /\ v.due = u.due /\ v.rows = u.rows /\ v.pc = "next"
  <2>1. WorkerInv(v)
    BY <1>2, <1>3, <1>4, <1>5, <1>8, DueCollected DEF PgInv
  <2> QED  BY <1>2, <1>3, <1>5, <1>6, <1>8, <2>1, QuietKeeps
<1> QED  BY <1>2, <1>5, <1>7, <1>8

(* The check of a bid.                                                     *)
LEMMA PlaceKeeps ==
    ASSUME PgInv, NEW s \in Sessions, Place(s)
    PROVE  DataInv' /\ UNCHANGED vars
<1>1. unit[s].pc = "place" /\ (Rollback(s) \/ \E v : PassesCheck(s, v))
  BY PlaceMoves DEF PgInv
<1>2. CASE Rollback(s)
  BY <1>2, EndMoves, EndKeeps DEF PgInv
<1>3. ASSUME NEW v, PassesCheck(s, v)
      PROVE  DataInv' /\ UNCHANGED vars
  <2>1. s \in Clients /\ s # Worker
    BY <1>1, OpAt, PostgresAssumption DEF PgInv
  <2>2. ClientInv(unit[s])
    BY <2>1 DEF PgInv, DataInv
  <2>3. ClientInv(v)
    BY <1>1, <1>3, <2>1, <2>2, ClientChecks DEF PgInv, IInv
  <2>4. UNCHANGED vars /\ Moves(s, v) /\ v.rows = unit[s].rows
    BY <1>3 DEF PassesCheck
  <2>5. \A o \in Sessions : o # s => DOMAIN v.rows \cap DOMAIN unit[o].rows = {}
    BY <2>4 DEF PgInv, DataInv, Exclusive
  <2> QED  BY <2>1, <2>3, <2>4, <2>5, QuietKeeps
<1> QED  BY <1>1, <1>2, <1>3

(* The loop over the due auctions.                                         *)
LEMMA NextLotKeeps ==
    ASSUME PgInv, NEW s \in Sessions, NextLot(s)
    PROVE  DataInv' /\ MarketStep
<1>1. PICK u : u = unit[s]
  OBVIOUS
<1>2. /\ u.pc = "next"
      /\ \/ u.due = {} /\ Commit(s, u.rows, u.posts, u.t)
         \/ \E x \in u.due : \E v : TurnsTo(s, x, v)
  BY <1>1, NextLotMoves DEF PgInv
<1>3. s = Worker /\ s \notin Clients /\ u.req.op = "settle"
  BY <1>1, <1>2, OpAt, PostgresAssumption DEF PgInv
<1>4. CASE u.due = {} /\ Commit(s, u.rows, u.posts, u.t)
  <2>1. CommitsOwn(s) /\ Next
    BY <1>1, <1>2, <1>4, SettlementImplements DEF PgInv
  <2> QED  BY <2>1, CommitKeeps DEF MarketStep
<1>5. ASSUME NEW x \in u.due, NEW v, TurnsTo(s, x, v)
      PROVE  DataInv' /\ MarketStep
  <2>1. /\ UNCHANGED vars /\ Moves(s, v) /\ SameUnit(u, v) /\ v.t = u.t
        /\ v.rows = u.rows /\ v.due = u.due /\ v.lot = x /\ v.pc = "lot"
    BY <1>1, <1>5 DEF TurnsTo
  <2>2. WorkerInv(u)
    BY <1>1, <1>3 DEF PgInv, DataInv
  <2>3. WorkerInv(v)
    BY <1>2, <1>3, <2>1, <2>2, LotChosen
  <2>4. \A o \in Sessions : o # s => DOMAIN v.rows \cap DOMAIN unit[o].rows = {}
    BY <1>1, <2>1 DEF PgInv, DataInv, Exclusive
  <2> QED  BY <1>3, <2>1, <2>3, <2>4, QuietKeeps DEF MarketStep
<1> QED  BY <1>2, <1>4, <1>5

(* The settlement of one auction.                                          *)
LEMMA SettleOneKeeps ==
    ASSUME PgInv, NEW s \in Sessions, SettleOne(s)
    PROVE  DataInv' /\ UNCHANGED vars
<1>1. unit[s].pc = "settle" /\ (Rollback(s) \/ \E v : Settles(s, v))
  BY SettleOneMoves DEF PgInv
<1>2. CASE Rollback(s)
  BY <1>2, EndMoves, EndKeeps DEF PgInv
<1>3. ASSUME NEW v, Settles(s, v)
      PROVE  DataInv' /\ UNCHANGED vars
  <2>1. s = Worker /\ s \notin Clients /\ unit[s].req.op = "settle"
    BY <1>1, OpAt, PostgresAssumption DEF PgInv
  <2>2. WorkerInv(unit[s])
    BY <2>1 DEF PgInv, DataInv
  <2>3. WorkerInv(v)
    BY <1>1, <1>3, <2>1, <2>2, LotSettled DEF PgInv
  <2>4. /\ UNCHANGED vars /\ Moves(s, v)
        /\ v.rows \in {ClosedRows(unit[s]), PaidRows(unit[s])}
    BY <1>3, Zenon DEF Settles, LotDone
  <2>5. DOMAIN v.rows = DOMAIN unit[s].rows
    <3>1. DOMAIN ClosedRows(unit[s]) = DOMAIN unit[s].rows
      BY DEF ClosedRows
    <3>2. PICK c : c = ClosedRows(unit[s])
      OBVIOUS
    <3>3. DOMAIN PaidRows(unit[s]) = DOMAIN c
      BY <3>2 DEF PaidRows
    <3> QED  BY <2>4, <3>1, <3>2, <3>3
  <2>6. \A o \in Sessions : o # s => DOMAIN v.rows \cap DOMAIN unit[o].rows = {}
    BY <2>5 DEF PgInv, DataInv, Exclusive
  <2> QED  BY <2>1, <2>3, <2>4, <2>6, QuietKeeps
<1> QED  BY <1>1, <1>2, <1>3

(* Every statement of a unit.                                              *)
LEMMA AdvanceKeepsData ==
    ASSUME PgInv, NEW s \in Sessions, Advance(s)
    PROVE  DataInv' /\ MarketStep
<1>0. IInv /\ ControlInv /\ DataInv
  BY DEF PgInv
<1>1. ASSUME Rollback(s) \/ (CommitsOwn(s) /\ Next)
      PROVE  DataInv' /\ MarketStep
  BY <1>0, <1>1, EndMoves, EndKeeps, CommitKeeps DEF MarketStep
<1>2. CASE NotFound(s)
  BY <1>1, <1>2 DEF NotFound
<1>3. CASE Sell(s)
  BY <1>0, <1>1, <1>3, SellImplements
<1>4. CASE ReserveBid(s)
  BY <1>0, <1>1, <1>4, ReserveImplements
<1>5. CASE Cancel(s)
  BY <1>0, <1>1, <1>5, CancelImplements
<1>6. CASE ReadWallet(s)
  BY <1>0, <1>6, ReadImplements, EndKeeps DEF MarketStep
<1>7. CASE GetForUpdate(s)
  BY <1>7, GetForUpdateKeeps DEF MarketStep
<1>8. CASE DueForUpdate(s)
  BY <1>8, DueForUpdateKeeps DEF MarketStep
<1>9. CASE Place(s)
  BY <1>9, PlaceKeeps DEF MarketStep
<1>10. CASE SettleOne(s)
  BY <1>10, SettleOneKeeps DEF MarketStep
<1>11. CASE NextLot(s)
  BY <1>11, NextLotKeeps
<1> QED  BY <1>2, <1>3, <1>4, <1>5, <1>6, <1>7, <1>8, <1>9, <1>10, <1>11 DEF Advance

(* Every step of the store is one of Market or none, and leaves the units  *)
(* with what they know.                                                    *)
LEMMA StepImplements ==
    ASSUME PgInv, [PgNext]_pgVars
    PROVE  DataInv' /\ MarketStep
<1>0. TypeOK /\ ControlInv /\ DataInv
  BY DEF PgInv, IInv
<1>1. ASSUME NEW s \in Sessions, Rollback(s)
      PROVE  DataInv' /\ MarketStep
  BY <1>0, <1>1, EndMoves, EndKeeps DEF MarketStep
<1>2. CASE UNCHANGED pgVars
  <2>1. UNCHANGED vars /\ UNCHANGED unit
    BY <1>2 DEF pgVars
  <2>2. \A u : Spares(u) /\ \A t : NoNewDue(t)
    BY <1>0, <2>1, StillSpares
  <2> QED  BY <1>0, <2>1, <2>2, TablesKeepData DEF MarketStep
<1>3. ASSUME NEW in \in Listings, NEW i \in ItemIDs, CreateItem(in, i, now), UNCHANGED unit
      PROVE  DataInv' /\ MarketStep
  <2>1. \A u : Spares(u) /\ \A t \in 0..now : NoNewDue(t)
    BY <1>0, <1>3, CreateItemSpares
  <2>2. now \in Readings
    <3>1. now \in 0..now
      BY <1>0 DEF TypeOK
    <3> QED  BY <1>0, <3>1, AnyReading
  <2>3. Next
    BY <1>3, <2>2, Zenon DEF Next
  <2> QED  BY <1>0, <1>3, <2>1, <2>3, TablesKeepData DEF MarketStep
<1>4. ASSUME NEW s \in Clients, NEW req \in Requests, Begin(s, req)
      PROVE  DataInv' /\ MarketStep
  <2>1. PICK v : v = Opened(req)
    OBVIOUS
  <2>2. /\ s \in Sessions /\ s # Worker /\ Admitted(req) /\ UNCHANGED vars
        /\ unit' = [unit EXCEPT ![s] = v]
    BY <1>4, <2>1, PostgresAssumption DEF Begin, Admitted, Sessions
  <2>3. Moves(s, v)
    BY <1>0, <2>2, ExceptMoves
  <2>4. DOMAIN v.rows = {} /\ ClientInv(v)
    BY <2>1, <2>2, OpenedIs, OpenedData
  <2> QED  BY <2>2, <2>3, <2>4, QuietKeeps DEF MarketStep
<1>5. CASE BeginSettlement
  <2>1. PICK w : w = Opened([op |-> "settle"])
    OBVIOUS
  <2>2. PICK v : v = [w EXCEPT !.t = now, !.todo = DueAuctions(now)]
    OBVIOUS
  <2>3. unit' = [unit EXCEPT ![Worker] = v] /\ UNCHANGED vars
    BY <1>5, <2>1, <2>2, Zenon DEF BeginSettlement
  <2>4. Head(Program["settle"]) = "due"
    BY DEF Program
  <2>5. /\ DOMAIN w = Fields /\ w.req.op = "settle" /\ w.pc = "due"
        /\ DOMAIN w.rows = {} /\ w.due = {} /\ w.posts = <<>>
    BY <2>1, <2>4, OpenedIs
  <2>6. /\ v.req.op = "settle" /\ v.pc = "due" /\ v.t = now /\ v.todo = DueAuctions(now)
        /\ DOMAIN v.rows = {} /\ v.due = {} /\ v.posts = <<>>
    BY <2>2, <2>5 DEF Fields
  <2>7. WorkerInv(v)
    BY <1>0, <2>6, SettlementOpens
  <2>8. Worker \in Sessions /\ Worker \notin Clients
    BY PostgresAssumption DEF Sessions
  <2>9. Moves(Worker, v)
    BY <1>0, <2>3, <2>8, ExceptMoves
  <2> QED  BY <2>3, <2>6, <2>7, <2>8, <2>9, QuietKeeps DEF MarketStep
<1>6. CASE BreakDeadlock
  <2>1. \E s \in Sessions : Rollback(s)
    BY <1>6 DEF BreakDeadlock
  <2> QED  BY <1>1, <2>1
<1>7. ASSUME NEW s \in Clients, Interrupt(s)
      PROVE  DataInv' /\ MarketStep
  BY <1>1, <1>7 DEF Interrupt, Sessions
<1>8. CASE Tick /\ UNCHANGED <<unit, sent>>
  <2>1. \A u : Spares(u) /\ \A t : NoNewDue(t)
    BY <1>0, <1>8, TickSpares
  <2>2. Next
    BY <1>8 DEF Next
  <2> QED  BY <1>0, <1>8, <2>1, <2>2, TablesKeepData DEF MarketStep
<1> QED  BY <1>2, <1>3, <1>4, <1>5, <1>6, <1>7, <1>8, AdvanceKeepsData DEF PgNext

(* The inductive invariant: Market's on what is committed, together with   *)
(* what every open unit knows of it.                                       *)
THEOREM PostgresInvariant == PgSpec => []PgInv
<1>1. PgInit => PgInv
  <2>1. SUFFICES ASSUME PgInit PROVE PgInv
    OBVIOUS
  <2>2. Init /\ unit = [s \in Sessions |-> NoUnit]
    BY <2>1 DEF PgInit
  <2>3. IInv
    BY <2>2, InitKeeps
  <2>4. AuctionsMatchItems
    BY <2>2 DEF Init, AuctionsMatchItems
  <2>5. ControlInv
    BY <2>2, NoUnitInControl DEF ControlInv
  <2>6. DataInv
    BY <2>2, NoUnitInControl, NoUnitData DEF DataInv, Exclusive, Sessions
  <2> QED  BY <2>3, <2>4, <2>5, <2>6 DEF PgInv
<1>2. PgInv /\ [PgNext]_pgVars => PgInv'
  <2>1. SUFFICES ASSUME PgInv, [PgNext]_pgVars PROVE PgInv'
    OBVIOUS
  <2>2. DataInv' /\ [Next]_vars
    BY <2>1, StepImplements DEF MarketStep
  <2>3. IInv' /\ AuctionsMatchItems'
    BY <2>1, <2>2, NextKeeps, NextKeepsMatch DEF PgInv
  <2>4. ControlInv'
    BY <2>1, NextKeepsControl DEF PgInv
  <2> QED  BY <2>2, <2>3, <2>4 DEF PgInv
<1> QED  BY <1>1, <1>2, PTL DEF PgSpec

(* "SELECT ... FOR UPDATE row locks so the money-safety and                *)
(* single-fulfilment guarantees hold under concurrency" (store.go:3): what *)
(* the interleaved units of any number of sessions commit is a behaviour   *)
(* of Market, whose units are atomic.                                      *)
THEOREM UnitsAreAtomic == PgSpec => MarketImplemented
<1>1. PgInit => Init
  BY DEF PgInit
<1>2. PgInv /\ [PgNext]_pgVars => [UNCHANGED vars \/ Next]_vars
  BY StepImplements DEF MarketStep
<1> QED  BY <1>1, <1>2, PostgresInvariant, PTL DEF PgSpec, MarketImplemented

(* So the Postgres store has every safety property of Market: guilds stay  *)
(* solvent, reservations are exactly the leading bids, the two tables      *)
(* agree, no gold is made or lost, the ledger explains every total and     *)
(* every winner pays once.                                                 *)
THEOREM PostgresKeepsTheMoney ==
    PgSpec => [](/\ Solvent /\ ReservedBacksLeads /\ ItemAuctionAgree
                 /\ GoldConserved /\ LedgerReplaysTotal /\ WinnerPaysOnce)
<1>1. [UNCHANGED vars \/ Next]_vars => [Next]_vars
  OBVIOUS
<1>2. MarketImplemented => Spec
  BY <1>1, PTL DEF MarketImplemented, Spec
<1> QED  BY <1>2, UnitsAreAtomic, GuildsStaySolvent, ReservationsAreLeads, ItemsFollowAuctions,
            GoldIsConserved, LedgerExplainsTotals, WinnersPayOnce, PTL

-----------------------------------------------------------------------------
(* The extension a bid grants.                                             *)

(* Every auction runs with the extension that was stored for it.           *)
Extended ==
    \A x \in DOMAIN auctions :
        auctions[x].extension = AuctionExtension /\ Answerable(auctions[x])

(* Nothing that happens to a row changes its extension.                    *)
LEMMA RowStepExtension ==
    ASSUME IInv, NEW x \in DOMAIN auctions, RowStep(x)
    PROVE  auctions'[x].extension = auctions[x].extension
<1>1. auctions[x] \in Auction
  BY DEF IInv, TypeOK
<1>2. CASE BidTaken(x)
  <2>1. PICK guild \in Registered, amount \in Nat, t \in Nat :
          /\ CanPlaceBid(auctions[x], guild, amount, t)
          /\ auctions'[x] = PlaceBid(auctions[x], guild, amount, t)
    BY <1>2 DEF BidTaken
  <2>2. PICK a \in Auction : a = auctions[x]
    BY <1>1
  <2>3. PlaceBid(a, guild, amount, t).extension = a.extension
    BY <2>2 DEF PlaceBid, Auction
  <2> QED  BY <2>1, <2>2, <2>3, Zenon
<1>3. CASE BidWithdrawn(x)
  BY <1>1, <1>3 DEF BidWithdrawn, CancelBid, Auction
<1>4. CASE Closed(x)
  BY <1>1, <1>4 DEF Closed, Auction
<1> QED  BY <1>2, <1>3, <1>4 DEF RowStep

(* A new row has the extension the server was started with.                *)
LEMMA NewRowExtension ==
    ASSUME Next, NEW x \in DOMAIN auctions' \ DOMAIN auctions
    PROVE  auctions'[x].extension = AuctionExtension
<1>1. ASSUME NEW in, NEW i, NEW t, CreateItem(in, i, t)
      PROVE  auctions'[x].extension = AuctionExtension
  <2>1. PICK y : auctions' = Put(auctions, y, NewAuction(i, in, t))
    BY <1>1 DEF CreateItem
  <2>2. PICK a : a = NewAuction(i, in, t)
    OBVIOUS
  <2>3. auctions'[x] = a
    BY <2>1, <2>2 DEF Put
  <2> QED  BY <2>2, <2>3 DEF NewAuction
<1>2. ASSUME DOMAIN auctions' = DOMAIN auctions
      PROVE  FALSE
  BY <1>2
<1>3. ASSUME NEW i, NEW buyer, NEW qty, NEW t, Purchase(i, buyer, qty, t)
      PROVE  FALSE
  BY <1>2, <1>3 DEF Purchase
<1>4. ASSUME NEW i, NEW bidder, NEW amount, NEW t, BidOnItem(i, bidder, amount, t)
      PROVE  FALSE
  <2>1. \E y, a : auctions' = [auctions EXCEPT ![y] = a]
    BY <1>4, Zenon DEF BidOnItem
  <2> QED  BY <1>2, <2>1
<1>5. ASSUME NEW i, NEW b, NEW guild, CancelBidOnItem(i, b, guild)
      PROVE  FALSE
  <2>1. \E y, a : auctions' = [auctions EXCEPT ![y] = a]
    BY <1>5, Zenon DEF CancelBidOnItem
  <2> QED  BY <1>2, <2>1
<1>6. ASSUME NEW t, SettleDueAuctions(t)
      PROVE  FALSE
  BY <1>2, <1>6 DEF SettleDueAuctions, vars
<1>7. CASE Tick
  BY <1>2, <1>7 DEF Tick
<1> QED  BY <1>1, <1>3, <1>4, <1>5, <1>6, <1>7, Zenon DEF Next, RunSettlementWorker

(* The extension is kept and honoured.                                     *)
LEMMA StepExtends ==
    ASSUME IInv, Extended, [Next]_vars
    PROVE  Extended'
<1>1. CASE UNCHANGED vars
  BY <1>1 DEF vars, Extended, Answerable
<1>2. CASE Next
  <2>1. RowSteps
    BY <1>2, NextIsAnyUnit, OnlyRowSteps
  <2>2. ASSUME NEW x \in DOMAIN auctions'
        PROVE  auctions'[x].extension = AuctionExtension /\ Answerable(auctions'[x])
    <3>1. CASE x \in DOMAIN auctions
      BY <2>1, <3>1, RowStepAnswerable, RowStepExtension DEF RowSteps, Extended
    <3>2. CASE x \notin DOMAIN auctions
      BY <1>2, <2>1, <3>2, NewRowExtension DEF RowSteps, Answerable
    <3> QED  BY <3>1, <3>2
  <2> QED  BY <2>2 DEF Extended, Answerable
<1> QED  BY <1>1, <1>2

(* What the whole seconds of a duration leave out.                         *)
LEMMA WholeSeconds ==
    ASSUME NEW d \in Nat, NEW s \in Nat \ {0}
    PROVE  /\ (d \div s) * s \in Nat
           /\ d - (d \div s) * s < s
           /\ d % s = 0 => (d \div s) * s = d
<1>1. PICK q \in Nat, r \in Nat : q = d \div s /\ r = d % s /\ d = s * q + r /\ r < s
  BY Z3
<1>2. q * s = s * q /\ q * s \in Nat
  BY <1>1, Z3
<1> QED  BY <1>1, <1>2

(* "Anti-snipe: guarantee at least Extension remains after a late bid"     *)
(* (auction.go:95) for the extension that is configured, however long a    *)
(* bid waits between its check and its commit: the extension goes through  *)
(* the table in whole seconds (store.go:215), and less than one second of  *)
(* it is lost.                                                             *)
THEOREM ConfiguredExtensionHolds == PgSpec => []ConfiguredAnswerTime
<1>1. PgInit => Extended
  BY DEF PgInit, Init, Extended
<1>2. PgInv /\ Extended /\ [PgNext]_pgVars => Extended'
  <2>1. SUFFICES ASSUME PgInv, Extended, [PgNext]_pgVars PROVE Extended'
    OBVIOUS
  <2>2. [Next]_vars
    BY <2>1, StepImplements DEF MarketStep
  <2> QED  BY <2>1, <2>2, StepExtends DEF PgInv
<1>3. PgInv /\ Extended => ConfiguredAnswerTime
  <2>1. SUFFICES ASSUME PgInv, Extended PROVE ConfiguredAnswerTime
    OBVIOUS
  <2>2. /\ AuctionExtension \in Nat
        /\ ConfiguredExtension - AuctionExtension < Second
        /\ ConfiguredExtension % Second = 0 => AuctionExtension = ConfiguredExtension
    BY PostgresAssumption, WholeSeconds DEF StoredExtension
  <2>3. ASSUME NEW x \in DOMAIN auctions, NEW b \in DOMAIN auctions[x].bids,
               NEW left, left = auctions[x].endsAt - auctions[x].bids[b].placedAt
        PROVE  /\ ConfiguredExtension - left < Second
               /\ ConfiguredExtension % Second = 0 => ConfiguredExtension <= left
    <3>1. auctions[x].endsAt \in Nat /\ auctions[x].bids[b].placedAt \in Nat
      <4>1. auctions[x] \in Auction
        BY <2>1, <2>3 DEF PgInv, IInv, TypeOK
      <4>2. auctions[x].bids \in Seq(Bid) /\ auctions[x].endsAt \in Nat
        BY <4>1 DEF Auction
      <4>3. auctions[x].bids[b] \in Bid
        BY <2>3, <4>2
      <4> QED  BY <4>2, <4>3 DEF Bid
    <3>2. auctions[x].bids[b].placedAt + AuctionExtension <= auctions[x].endsAt
      BY <2>1, <2>3 DEF Extended, Answerable
    <3>3. left \in Int /\ AuctionExtension <= left
      BY <2>2, <2>3, <3>1, <3>2
    <3>4. ConfiguredExtension \in Nat /\ Second \in Nat
      BY PostgresAssumption
    <3> QED  BY <2>2, <3>3, <3>4
  <2> QED  BY <2>3 DEF ConfiguredAnswerTime
<1> QED  BY <1>1, <1>2, <1>3, PostgresInvariant, PTL DEF PgSpec
=============================================================================
