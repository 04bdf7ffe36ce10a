----------------------------- MODULE OraclePrice -----------------------------
(***************************************************************************)
(* Advisory prices on item pages: OraclePrice (internal/service/           *)
(* pricing.go), the mock oracle behind it (internal/adapters/oracle/       *)
(* mock.go) and the handlers that call it once per item of a page, one     *)
(* item after the other (withOraclePrice, httpapi/items.go).  Pages are    *)
(* served concurrently and share the oracle and the cache lastGoodPrice.   *)
(*                                                                         *)
(* A price is the number of the refresh that advertised it, so that an     *)
(* older one can be told from a newer one; 0 stands for everything that is *)
(* no price: an unknown item, a non-positive reading, an empty cache.      *)
(*                                                                         *)
(* TimeOutNever and StoreGoodSkips are seeded faults of the definitions    *)
(* they precede, used by none.                                             *)
(***************************************************************************)
EXTENDS Naturals, Sequences

CONSTANTS
    Items,
    Pages,
    Layout,         \* the items of each page, in the order they are listed
    MaxRefresh,     \* bound: how often the oracle refreshes a price
    Slow,           \* is Latency set?
    Faulty          \* is FaultRate set?

ASSUME OracleAssumption ==
    /\ Layout \in [Pages -> Seq(Items)]
    /\ MaxRefresh \in Nat
    /\ Slow \in BOOLEAN
    /\ Faulty \in BOOLEAN

VARIABLES
    prices,         \* Mock.Prices
    lastGoodPrice,  \* the service's cache
    page,           \* where each page is: what is left, and its last reading
    shown           \* the prices it has so far, 0 for an omitted one

vars == <<prices, lastGoodPrice, page, shown>>

Init ==
    /\ prices = [i \in Items |-> 0]
    /\ lastGoodPrice = [i \in Items |-> 0]
    /\ page = [p \in Pages |-> [pc |-> "idle", left |-> <<>>, reading |-> 0]]
    /\ shown = [p \in Pages |-> [i \in {} |-> i]]

-----------------------------------------------------------------------------
(* The oracle refreshes the price of an item.                              *)
SetPrice(i) ==
    /\ prices[i] < MaxRefresh
    /\ prices' = [prices EXCEPT ![i] = @ + 1]
    /\ UNCHANGED <<lastGoodPrice, page, shown>>

(* A handler has its items and asks for the price of the first.            *)
Request(p) ==
    /\ page[p].pc = "idle"
    /\ page' = [page EXCEPT ![p].pc = IF Layout[p] = <<>> THEN "done" ELSE "ask",
                            ![p].left = Layout[p]]
    /\ UNCHANGED <<prices, lastGoodPrice, shown>>

Answer(p, reading) ==
    /\ page' = [page EXCEPT ![p].pc = "read", ![p].reading = reading]
    /\ UNCHANGED <<prices, lastGoodPrice, shown>>

(* BasePrice, once its latency is over: the current price, or a bad one.   *)
BasePrice(p) ==
    /\ page[p].pc = "ask"
    /\ \/ Answer(p, prices[Head(page[p].left)])
       \/ Faulty /\ Answer(p, 0)

(* Calls hold only the read lock while they draw from the rng, which is no *)
(* source for concurrent use: it may give any number, which BasePrice      *)
(* covers, or panic, which ends the page (middleware.Recoverer).           *)
Panic(p) ==
    /\ Faulty
    /\ page[p].pc = "ask"
    /\ \E q \in Pages \ {p} : page[q].pc = "ask"
    /\ page' = [page EXCEPT ![p].pc = "done", ![p].left = <<>>]
    /\ UNCHANGED <<prices, lastGoodPrice, shown>>

TimeOutNever(p) == FALSE /\ UNCHANGED vars

(* The 500ms are over while BasePrice still sleeps.                        *)
TimeOut(p) ==
    /\ Slow
    /\ page[p].pc = "ask"
    /\ Answer(p, 0)

(* The page gets a price, or omits it, and goes on to its next item.       *)
Show(p, price) ==
    /\ shown' = [shown EXCEPT ![p] =
          [i \in DOMAIN @ \cup {Head(page[p].left)} |->
              IF i = Head(page[p].left) THEN price ELSE @[i]]]
    /\ page' = [page EXCEPT ![p].left = Tail(@),
                            ![p].pc = IF Len(page[p].left) = 1 THEN "done" ELSE "ask"]

StoreGoodSkips(p) ==
    /\ page[p].pc = "read"
    /\ page[p].reading > 0
    /\ Show(p, page[p].reading)
    /\ UNCHANGED <<prices, lastGoodPrice>>

(* A good reading is cached, over whatever is cached by now, and shown.    *)
StoreGood(p) ==
    /\ page[p].pc = "read"
    /\ page[p].reading > 0
    /\ lastGoodPrice' = [lastGoodPrice EXCEPT ![Head(page[p].left)] = page[p].reading]
    /\ Show(p, page[p].reading)
    /\ UNCHANGED prices

(* After a bad reading or a timeout the last good price is shown, if any.  *)
FallBack(p) ==
    /\ page[p].pc = "read"
    /\ page[p].reading = 0
    /\ Show(p, lastGoodPrice[Head(page[p].left)])
    /\ UNCHANGED <<prices, lastGoodPrice>>

(* Everything was served and the oracle refreshes no more.                 *)
Finished ==
    /\ \A p \in Pages : page[p].pc = "done"
    /\ \A i \in Items : prices[i] = MaxRefresh
    /\ UNCHANGED vars

Next ==
    \/ \E i \in Items : SetPrice(i)
    \/ \E p \in Pages : \/ Request(p) \/ BasePrice(p) \/ Panic(p) \/ TimeOut(p)
                        \/ StoreGood(p) \/ FallBack(p)
    \/ Finished

Spec == Init /\ [][Next]_vars

(* A handler goes on and a timer fires.  The oracle owes nobody an answer. *)
FairSpec ==
    /\ Spec
    /\ \A p \in Pages : /\ WF_vars(TimeOut(p))
                        /\ WF_vars(StoreGood(p) \/ FallBack(p))

-----------------------------------------------------------------------------
(* Display degrades gracefully (pricing.go:15, R15): once any page has     *)
(* shown a price for an item, no page omits it again, however the readings *)
(* of concurrent pages fail or interleave.                                 *)
KnownPriceShown ==
    [][\A p \in Pages : \A i \in DOMAIN shown'[p] \ DOMAIN shown[p] :
         (\E q \in Pages : i \in DOMAIN shown[q] /\ shown[q][i] > 0)
            => shown'[p][i] > 0]_vars

(* "a slow oracle never blocks a page" (pricing.go:13): every page is      *)
(* answered, though the oracle may never be.                               *)
PagesEnd == \A p \in Pages : page[p].pc = "ask" ~> page[p].pc = "done"
=============================================================================
