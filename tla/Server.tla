------------------------------- MODULE Server -------------------------------
(***************************************************************************)
(* The life of the server process (cmd/server/main.go) around the market:  *)
(* it connects, seeds guilds and starter listings with one statement or    *)
(* unit of work each, starts the settlement worker and serves.  It may be  *)
(* stopped or crash between any two of these, and is started again over    *)
(* the same Postgres tables; a unit that was open is rolled back.          *)
(*                                                                         *)
(* seed also gives the price oracle an advisory price per item, which no   *)
(* trade reads (see OraclePrice).                                          *)
(*                                                                         *)
(* UpsertFresh, FirstBootAlways and RunWorkerOnce are seeded faults of the *)
(* definitions they precede, used by none.                                 *)
(***************************************************************************)
EXTENDS MarketProperties

CONSTANTS
    Demo,               \* the demo guilds, in the order they are seeded
    Starters,           \* the starter listings, in order
    SeedingMayFail,     \* may the database refuse a statement of seed?
    MaxBoots            \* bound: how often the server is started

ASSUME ServerAssumption ==
    /\ Demo \in Seq(Registered)
    /\ Starters \in Seq([rarity : STRING, seller : Guilds, price : Int, quantity : Int])
    /\ SeedingMayFail \in BOOLEAN
    /\ MaxBoots \in Nat

VARIABLES
    phase,  \* what the process is doing
    left,   \* what the current loop of seed has left to do
    boots

serverVars == <<phase, left, boots>>
allVars == <<vars, serverVars>>

ServerInit ==
    /\ items = [i \in {} |-> i]
    /\ wallets = [g \in {} |-> g]
    /\ auctions = [x \in {} |-> x]
    /\ ledger = [k \in LedgerKeys |-> 0]
    /\ now = 0
    /\ phase = "down"
    /\ left = <<>>
    /\ boots = 0

(* connectWithRetry succeeded.  If it gives up, the process exits.         *)
Boot ==
    /\ phase = "down"
    /\ boots < MaxBoots
    /\ phase' = "guilds"
    /\ left' = Demo
    /\ boots' = boots + 1
    /\ UNCHANGED vars

UpsertFresh(g) == [total |-> SeedGold[g], reserved |-> 0]

(* INSERT ... ON CONFLICT (id) DO UPDATE SET total, daily_cap.             *)
Upsert(g) ==
    [total |-> SeedGold[g],
     reserved |-> IF g \in DOMAIN wallets THEN wallets[g].reserved ELSE 0]

(* An error is logged and the loop goes on.                                *)
SeedGuild ==
    /\ phase = "guilds"
    /\ left # <<>>
    /\ left' = Tail(left)
    /\ \/ wallets' = Put(wallets, Head(left), Upsert(Head(left)))
       \/ SeedingMayFail /\ UNCHANGED wallets
    /\ UNCHANGED <<items, auctions, ledger, now, phase, boots>>

FirstBootAlways == TRUE

(* ListItems found nothing.                                                *)
FirstBoot == DOMAIN items = {}

SeedGuildsDone ==
    /\ phase = "guilds"
    /\ left = <<>>
    /\ \/ FirstBoot /\ phase' = "items" /\ left' = Starters
       \/ ~FirstBoot /\ phase' = "up" /\ UNCHANGED left
       \/ SeedingMayFail /\ phase' = "up" /\ UNCHANGED left
    /\ UNCHANGED <<vars, boots>>

SeedItem ==
    /\ phase = "items"
    /\ left # <<>>
    /\ left' = Tail(left)
    /\ \/ \E i \in ItemIDs : CreateItem(Head(left), i, now)
       \/ SeedingMayFail /\ UNCHANGED vars
    /\ UNCHANGED <<phase, boots>>

SeedItemsDone ==
    /\ phase = "items"
    /\ left = <<>>
    /\ phase' = "up"
    /\ UNCHANGED <<vars, left, boots>>

(* Requests come in, the worker's timer ticks, time passes.                *)
Serve == phase = "up" /\ Next /\ UNCHANGED serverVars

RunWorkerOnce ==
    /\ phase = "up" /\ boots = 1
    /\ RunSettlementWorker
    /\ UNCHANGED serverVars

(* What Serve does when the timer ticks.                                   *)
RunWorker ==
    /\ phase = "up"
    /\ RunSettlementWorker
    /\ UNCHANGED serverVars

(* A signal or a crash, while seeding or serving.                          *)
Stop ==
    /\ phase # "down"
    /\ phase' = "down"
    /\ left' = <<>>
    /\ UNCHANGED <<vars, boots>>

TimePasses == Tick /\ UNCHANGED serverVars

ServerNext ==
    \/ Boot \/ SeedGuild \/ SeedGuildsDone \/ SeedItem \/ SeedItemsDone
    \/ Serve \/ Stop \/ TimePasses

ServerSpec == ServerInit /\ [][ServerNext]_allVars

(* A server that is down is started again, and start-up goes on.           *)
ServerFairSpec ==
    /\ ServerSpec
    /\ WF_allVars(Boot) /\ WF_allVars(SeedGuild \/ SeedGuildsDone)
    /\ WF_allVars(SeedItem \/ SeedItemsDone)
    /\ WF_allVars(RunWorker) /\ WF_allVars(TimePasses)

-----------------------------------------------------------------------------
(* A restart keeps every open auction backed: what a guild has reserved is *)
(* still what it leads with, although SeedGuild rewrites its row           *)
(* (store.go:50), so the auctions of the old process can settle.           *)
ReservationsSurvive ==
    \A g \in DOMAIN wallets : wallets[g].reserved = GoldIn(Leads, LedBy(g))

(* "items are only seeded when none exist, so restarts don't duplicate     *)
(* them" (main.go:98), wherever the last start was cut off.  Starters are  *)
(* told apart by seller and rarity, which no other listing shares.         *)
StartersOnce ==
    \A n \in DOMAIN Starters :
        Cardinality({i \in DOMAIN items : /\ items[i].seller = Starters[n].seller
                                          /\ items[i].rarity = Starters[n].rarity}) <= 1

(* "Invariant: 0 <= Reserved <= Total, therefore Available() >= 0"         *)
(* (wallet.go:6), for every row of the guilds table.                       *)
RowsSolvent ==
    \A g \in DOMAIN wallets : /\ 0 <= wallets[g].reserved
                              /\ wallets[g].reserved <= wallets[g].total

(* Once every guild has its row, an auction that is due is settled, also   *)
(* one that fell due while the server was down or that an older process    *)
(* opened (worker.go:9).  The last of MaxBoots starts is not followed by a stop   *)
(* for ever, so a server that is down for good is the only exception.      *)
DueSettledAfterRestart ==
    \A x \in AuctionIDs :
        (/\ Registered \subseteq DOMAIN wallets
         /\ x \in DOMAIN auctions /\ Due(auctions[x], now))
            ~> \/ x \in DOMAIN auctions /\ auctions[x].status = "settled"
               \/ phase = "down" /\ boots = MaxBoots
=============================================================================
