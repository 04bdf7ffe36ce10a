---------------------------- MODULE OracleProofs ----------------------------
(***************************************************************************)
(* Item pages degrade gracefully, for any number of pages and items, any   *)
(* layout of the pages and any interleaving of their readings.             *)
(*                                                                         *)
(* KnownPriceShown compares one page with all the others.  What they share *)
(* is the cache: a price that any page shows was cached by the time it was *)
(* shown, and a cached price is only ever replaced by another one.         *)
(***************************************************************************)
EXTENDS OraclePrice, TLAPS

PageState == [pc : {"idle", "ask", "read", "done"}, left : Seq(Items), reading : Nat]

PagesTyped ==
    /\ prices \in [Items -> Nat]
    /\ lastGoodPrice \in [Items -> Nat]
    /\ page \in [Pages -> PageState]
    /\ shown \in [Pages -> UNION {[S -> Nat] : S \in SUBSET Items}]

(* A page that asks or has read has an item to ask for.                    *)
AskersHaveItems == \A p \in Pages : page[p].pc \in {"ask", "read"} => page[p].left # <<>>

(* A price that a page shows is one the cache can fall back on.            *)
ShownIsCached ==
    \A q \in Pages : \A i \in DOMAIN shown[q] : shown[q][i] > 0 => lastGoodPrice[i] > 0

OInv == PagesTyped /\ AskersHaveItems /\ ShownIsCached

(* No page has started and nothing is cached.                              *)
LEMMA InitKeeps ==
    ASSUME Init
    PROVE  OInv
<1>1. PagesTyped
  <2>1. [i \in {} |-> i] \in [{} -> Nat]
    OBVIOUS
  <2>2. [i \in {} |-> i] \in UNION {[S -> Nat] : S \in SUBSET Items}
    BY <2>1
  <2> DEFINE e == [i \in {} |-> i]
  <2> HIDE DEF e
  <2>3. shown = [p \in Pages |-> e]
    BY DEF Init, e
  <2>4. shown \in [Pages -> UNION {[S -> Nat] : S \in SUBSET Items}]
    BY <2>2, <2>3 DEF e
  <2>5. page \in [Pages -> PageState]
    BY DEF Init, PageState
  <2>6. prices \in [Items -> Nat] /\ lastGoodPrice \in [Items -> Nat]
    BY DEF Init
  <2> QED  BY <2>4, <2>5, <2>6 DEF PagesTyped
<1>2. AskersHaveItems /\ ShownIsCached
  BY DEF Init, AskersHaveItems, ShownIsCached
<1> QED  BY <1>1, <1>2 DEF OInv

(* The item a page is at, and what is left behind it.                      *)
LEMMA ItemAtHand ==
    ASSUME OInv, NEW p \in Pages, page[p].pc \in {"ask", "read"}
    PROVE  /\ Head(page[p].left) \in Items
           /\ Tail(page[p].left) \in Seq(Items)
           /\ Len(page[p].left) # 1 => Tail(page[p].left) # <<>>
<1>1. page[p].left \in Seq(Items) /\ page[p].left # <<>>
  BY DEF OInv, PagesTyped, AskersHaveItems, PageState
<1> DEFINE s == page[p].left
<1> HIDE DEF s
<1>2. s \in Seq(Items) /\ s # <<>>
  BY <1>1 DEF s
<1>3. Head(s) \in Items /\ Tail(s) \in Seq(Items) /\ Len(Tail(s)) = Len(s) - 1 /\ Len(s) \in Nat
      /\ Len(s) # 0
  BY <1>2
<1>4. Len(s) # 1 => Tail(s) # <<>>
  BY <1>3
<1> QED  BY <1>3, <1>4 DEF s

(* A step of one page that shows nothing.                                  *)
LEMMA PageStepKeeps ==
    ASSUME OInv, NEW p \in Pages, NEW s \in PageState,
           s.pc \in {"ask", "read"} => s.left # <<>>,
           page' = [page EXCEPT ![p] = s], UNCHANGED <<prices, lastGoodPrice, shown>>
    PROVE  OInv'
<1>1. PagesTyped'
  BY DEF OInv, PagesTyped
<1>2. AskersHaveItems'
  BY DEF OInv, PagesTyped, AskersHaveItems
<1>3. ShownIsCached'
  BY DEF OInv, ShownIsCached
<1> QED  BY <1>1, <1>2, <1>3 DEF OInv

(* What a page that shows a price shows, and to whom.                      *)
LEMMA ShowAdds ==
    ASSUME OInv, NEW p \in Pages, page[p].pc = "read", NEW price \in Nat, Show(p, price)
    PROVE  /\ page' \in [Pages -> PageState]
           /\ AskersHaveItems'
           /\ shown' \in [Pages -> UNION {[S -> Nat] : S \in SUBSET Items}]
           /\ \A q \in Pages : q # p => shown'[q] = shown[q]
           /\ DOMAIN shown'[p] = DOMAIN shown[p] \cup {Head(page[p].left)}
           /\ shown'[p][Head(page[p].left)] = price
           /\ \A i \in DOMAIN shown[p] : i # Head(page[p].left) =>
                shown'[p][i] = shown[p][i]
<1> DEFINE h == Head(page[p].left)
           s == [page[p] EXCEPT !.left = Tail(page[p].left),
                                !.pc = IF Len(page[p].left) = 1 THEN "done" ELSE "ask"]
           f == [i \in DOMAIN shown[p] \cup {h} |-> IF i = h THEN price ELSE shown[p][i]]
<1>1. /\ h \in Items /\ Tail(page[p].left) \in Seq(Items)
      /\ Len(page[p].left) # 1 => Tail(page[p].left) # <<>>
  BY ItemAtHand
<1>2. page[p] \in PageState /\ page \in [Pages -> PageState]
  BY DEF OInv, PagesTyped
<1>3. s \in PageState /\ (s.pc \in {"ask", "read"} => s.left # <<>>)
  BY <1>1, <1>2 DEF PageState
<1>4. page' = [page EXCEPT ![p] = s]
  BY <1>2 DEF Show, PageState
<1>5. page' \in [Pages -> PageState] /\ AskersHaveItems'
  <2> HIDE DEF s
  <2> QED  BY <1>2, <1>3, <1>4 DEF OInv, AskersHaveItems
<1>6. PICK S \in SUBSET Items : shown[p] \in [S -> Nat]
  BY DEF OInv, PagesTyped
<1>7. f \in [S \cup {h} -> Nat] /\ S \cup {h} \in SUBSET Items
  BY <1>1, <1>6
<1>8. f \in UNION {[T -> Nat] : T \in SUBSET Items}
  <2> HIDE DEF f, h
  <2> QED  BY <1>7
<1>9. shown' = [shown EXCEPT ![p] = f]
  BY DEF Show
<1>10. DOMAIN f = DOMAIN shown[p] \cup {h} /\ f[h] = price
       /\ \A i \in DOMAIN shown[p] : i # h => f[i] = shown[p][i]
  OBVIOUS
<1>11. shown \in [Pages -> UNION {[T -> Nat] : T \in SUBSET Items}]
  BY DEF OInv, PagesTyped
<1>12. /\ shown' \in [Pages -> UNION {[T -> Nat] : T \in SUBSET Items}]
       /\ \A q \in Pages : q # p => shown'[q] = shown[q]
       /\ shown'[p] = f
  <2> HIDE DEF f, h
  <2> QED  BY <1>8, <1>9, <1>11
<1> HIDE DEF f, h
<1> QED  BY <1>5, <1>10, <1>12 DEF h


(* Every step of the oracle and of the pages keeps the invariant.          *)
LEMMA NextKeeps ==
    ASSUME OInv, [Next]_vars
    PROVE  OInv'
<1>1. ASSUME NEW i \in Items, SetPrice(i) PROVE OInv'
  <2>1. PagesTyped'
    BY <1>1 DEF SetPrice, OInv, PagesTyped
  <2>2. AskersHaveItems' /\ ShownIsCached'
    BY <1>1 DEF SetPrice, OInv, AskersHaveItems, ShownIsCached
  <2> QED  BY <2>1, <2>2 DEF OInv
<1>2. ASSUME NEW p \in Pages, Request(p) PROVE OInv'
  <2> DEFINE s == [page[p] EXCEPT !.pc = IF Layout[p] = <<>> THEN "done" ELSE "ask",
                                  !.left = Layout[p]]
  <2>1. page[p] \in PageState /\ Layout[p] \in Seq(Items)
    BY OracleAssumption DEF OInv, PagesTyped
  <2>2. s \in PageState /\ (s.pc \in {"ask", "read"} => s.left # <<>>)
    BY <2>1 DEF PageState
  <2>3. page' = [page EXCEPT ![p] = s] /\ UNCHANGED <<prices, lastGoodPrice, shown>>
    BY <1>2 DEF Request
  <2> HIDE DEF s
  <2> QED  BY <2>2, <2>3, PageStepKeeps
<1>3. ASSUME NEW p \in Pages, NEW reading \in Nat, page[p].pc = "ask", Answer(p, reading)
      PROVE  OInv'
  <2> DEFINE s == [page[p] EXCEPT !.pc = "read", !.reading = reading]
  <2>1. page[p] \in PageState /\ page[p].left # <<>>
    BY <1>3 DEF OInv, PagesTyped, AskersHaveItems
  <2>2. s \in PageState /\ (s.pc \in {"ask", "read"} => s.left # <<>>)
    BY <1>3, <2>1 DEF PageState
  <2>3. page' = [page EXCEPT ![p] = s] /\ UNCHANGED <<prices, lastGoodPrice, shown>>
    BY <1>3 DEF Answer
  <2> HIDE DEF s
  <2> QED  BY <2>2, <2>3, PageStepKeeps
<1>4. ASSUME NEW p \in Pages, BasePrice(p) \/ TimeOut(p) PROVE OInv'
  <2>1. page[p].pc = "ask"
    BY <1>4 DEF BasePrice, TimeOut
  <2>2. prices[Head(page[p].left)] \in Nat
    BY <2>1, ItemAtHand DEF OInv, PagesTyped
  <2>3. \E reading \in Nat : Answer(p, reading)
    BY <1>4, <2>2 DEF BasePrice, TimeOut
  <2> QED  BY <1>3, <2>1, <2>3
<1>5. ASSUME NEW p \in Pages, Panic(p) PROVE OInv'
  <2> DEFINE s == [page[p] EXCEPT !.pc = "done", !.left = <<>>]
  <2>1. page[p] \in PageState
    BY DEF OInv, PagesTyped
  <2>2. s \in PageState /\ s.pc = "done"
    <3>1. <<>> \in Seq(Items)
      OBVIOUS
    <3> QED  BY <2>1, <3>1 DEF PageState
  <2>3. page' = [page EXCEPT ![p] = s] /\ UNCHANGED <<prices, lastGoodPrice, shown>>
    BY <1>5 DEF Panic
  <2> HIDE DEF s
  <2> QED  BY <2>2, <2>3, PageStepKeeps
<1>6. ASSUME NEW p \in Pages, StoreGood(p) PROVE OInv'
  <2> DEFINE h == Head(page[p].left)
             r == page[p].reading
  <2>1. page[p].pc = "read" /\ r > 0 /\ Show(p, r) /\ UNCHANGED prices
        /\ lastGoodPrice' = [lastGoodPrice EXCEPT ![h] = r]
    BY <1>6 DEF StoreGood
  <2>2. h \in Items /\ r \in Nat
    BY <2>1, ItemAtHand DEF OInv, PagesTyped, PageState
  <2>3. /\ page' \in [Pages -> PageState] /\ AskersHaveItems'
        /\ shown' \in [Pages -> UNION {[S -> Nat] : S \in SUBSET Items}]
        /\ \A q \in Pages : q # p => shown'[q] = shown[q]
        /\ DOMAIN shown'[p] = DOMAIN shown[p] \cup {h}
        /\ \A i \in DOMAIN shown[p] : i # h => shown'[p][i] = shown[p][i]
    BY <2>1, <2>2, ShowAdds
  <2>4. lastGoodPrice \in [Items -> Nat]
    BY DEF OInv, PagesTyped
  <2> HIDE DEF h, r
  <2>5. /\ lastGoodPrice' \in [Items -> Nat] /\ lastGoodPrice'[h] > 0
        /\ \A i \in Items : i # h => lastGoodPrice'[i] = lastGoodPrice[i]
    BY <2>1, <2>2, <2>4
  <2>6. PagesTyped'
    BY <2>1, <2>3, <2>5 DEF OInv, PagesTyped
  <2>7. ShownIsCached'
    <3> SUFFICES ASSUME NEW q \in Pages, NEW i \in DOMAIN shown'[q], shown'[q][i] > 0
                 PROVE  lastGoodPrice'[i] > 0
      BY DEF ShownIsCached
    <3>1. CASE i = h
      BY <2>5, <3>1
    <3>2. CASE i # h
      <4>1. i \in DOMAIN shown[q] /\ shown[q][i] = shown'[q][i]
        BY <2>3, <3>2
      <4>2. PICK S \in SUBSET Items : shown[q] \in [S -> Nat]
        BY DEF OInv, PagesTyped
      <4>3. i \in Items
        BY <4>1, <4>2
      <4>4. lastGoodPrice[i] > 0
        BY <4>1 DEF OInv, ShownIsCached
      <4> QED  BY <2>5, <3>2, <4>3, <4>4
    <3> QED  BY <3>1, <3>2
  <2> QED  BY <2>3, <2>6, <2>7 DEF OInv
<1>7. ASSUME NEW p \in Pages, FallBack(p) PROVE OInv'
  <2> DEFINE h == Head(page[p].left)
             r == lastGoodPrice[h]
  <2>1. page[p].pc = "read" /\ Show(p, r) /\ UNCHANGED <<prices, lastGoodPrice>>
    BY <1>7 DEF FallBack
  <2>2. h \in Items /\ r \in Nat
    BY <2>1, ItemAtHand DEF OInv, PagesTyped
  <2>3. /\ page' \in [Pages -> PageState] /\ AskersHaveItems'
        /\ shown' \in [Pages -> UNION {[S -> Nat] : S \in SUBSET Items}]
        /\ \A q \in Pages : q # p => shown'[q] = shown[q]
        /\ DOMAIN shown'[p] = DOMAIN shown[p] \cup {h}
        /\ shown'[p][h] = lastGoodPrice[h]
        /\ \A i \in DOMAIN shown[p] : i # h => shown'[p][i] = shown[p][i]
    BY <2>1, <2>2, ShowAdds
  <2> HIDE DEF h, r
  <2>4. PagesTyped'
    BY <2>1, <2>3 DEF OInv, PagesTyped
  <2>5. ShownIsCached'
    <3> SUFFICES ASSUME NEW q \in Pages, NEW i \in DOMAIN shown'[q], shown'[q][i] > 0
                 PROVE  lastGoodPrice[i] > 0
      BY <2>1 DEF ShownIsCached
    <3>1. CASE i = h /\ q = p
      BY <2>3, <3>1
    <3>2. CASE i # h \/ q # p
      <4>1. i \in DOMAIN shown[q] /\ shown[q][i] = shown'[q][i]
        BY <2>3, <3>2
      <4> QED  BY <4>1 DEF OInv, ShownIsCached
    <3> QED  BY <3>1, <3>2
  <2> QED  BY <2>3, <2>4, <2>5 DEF OInv
<1>8. CASE UNCHANGED vars
  BY <1>8 DEF vars, OInv, PagesTyped, AskersHaveItems, ShownIsCached
<1> QED  BY <1>1, <1>2, <1>4, <1>5, <1>6, <1>7, <1>8 DEF Next, Finished

(* What is shown is always cached, throughout every behaviour.             *)
THEOREM OracleInvariant == Spec => []OInv
<1>1. Init => OInv
  BY InitKeeps
<1>2. OInv /\ [Next]_vars => OInv'
  BY NextKeeps
<1> QED  BY <1>1, <1>2, PTL DEF Spec

(* OraclePrice never takes back that an item has a price: once any page    *)
(* has shown one, every page shows one, whatever readings fail, time out   *)
(* or are stored late (R15).                                               *)
THEOREM PricesStayKnown == Spec => KnownPriceShown
<1> DEFINE Kept ==
      \A p \in Pages : \A i \in DOMAIN shown'[p] \ DOMAIN shown[p] :
         (\E q \in Pages : i \in DOMAIN shown[q] /\ shown[q][i] > 0)
            => shown'[p][i] > 0
<1>1. ASSUME OInv, [Next]_vars PROVE [Kept]_vars
  <2> SUFFICES ASSUME NEW p \in Pages, NEW i \in DOMAIN shown'[p] \ DOMAIN shown[p],
                      NEW q \in Pages, i \in DOMAIN shown[q], shown[q][i] > 0
               PROVE  shown'[p][i] > 0
    OBVIOUS
  <2>1. lastGoodPrice[i] > 0
    BY <1>1 DEF OInv, ShownIsCached
  <2>2. ASSUME NEW r \in Pages, StoreGood(r) PROVE shown'[p][i] > 0
    <3>1. page[r].pc = "read" /\ page[r].reading > 0 /\ Show(r, page[r].reading)
          /\ page[r].reading \in Nat
      BY <1>1, <2>2 DEF StoreGood, OInv, PagesTyped, PageState
    <3>2. /\ \A s \in Pages : s # r => shown'[s] = shown[s]
          /\ DOMAIN shown'[r] = DOMAIN shown[r] \cup {Head(page[r].left)}
          /\ shown'[r][Head(page[r].left)] = page[r].reading
      BY <1>1, <3>1, ShowAdds
    <3> QED  BY <3>1, <3>2
  <2>3. ASSUME NEW r \in Pages, FallBack(r) PROVE shown'[p][i] > 0
    <3>1. page[r].pc = "read" /\ Show(r, lastGoodPrice[Head(page[r].left)])
      BY <2>3 DEF FallBack
    <3>2. lastGoodPrice[Head(page[r].left)] \in Nat
      BY <1>1, <3>1, ItemAtHand DEF OInv, PagesTyped
    <3>3. /\ \A s \in Pages : s # r => shown'[s] = shown[s]
          /\ DOMAIN shown'[r] = DOMAIN shown[r] \cup {Head(page[r].left)}
          /\ shown'[r][Head(page[r].left)] = lastGoodPrice[Head(page[r].left)]
      BY <1>1, <3>1, <3>2, ShowAdds
    <3> QED  BY <2>1, <3>3
  <2>4. UNCHANGED shown => shown'[p][i] > 0
    OBVIOUS
  <2> QED  BY <1>1, <2>2, <2>3, <2>4 DEF Next, SetPrice, Request, BasePrice, Answer,
                                     Panic, TimeOut, Finished, vars
<1> QED  BY <1>1, OracleInvariant, PTL DEF Spec, KnownPriceShown
=============================================================================
