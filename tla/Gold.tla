-------------------------------- MODULE Gold --------------------------------
(***************************************************************************)
(* The market's currency (internal/domain/money.go) and sums of it.        *)
(*                                                                         *)
(* Gold is an int64.  Sums of amounts that a treasury already holds stay   *)
(* far inside that range and are plain integers here; the one product the  *)
(* code takes of two request fields (price and quantity) is not bounded by *)
(* any treasury and goes through Int64, which wraps as Go's * does.        *)
(***************************************************************************)
EXTENDS Integers, FiniteSets

CONSTANT GoldModulus    \* 2^64 in the code; small in the runs that wrap

ASSUME GoldModulusAssumption == GoldModulus \in Nat \ {0}

(* The value a signed integer of GoldModulus representable values takes    *)
(* when arithmetic yields x.                                               *)
Int64(x) == ((x + (GoldModulus \div 2)) % GoldModulus) - (GoldModulus \div 2)

IsPositive(g) == g > 0

(* The gold f assigns to the members of S: Sum_{x \in S} f[x] for natural  *)
(* f[x].  Every unit of it is a coin <<x, k>>, and a sum is the number of  *)
(* coins, so that facts about sums are facts about finite sets.            *)
Coins(f, S) == UNION {{x} \X (1..f[x]) : x \in S}

GoldIn(f, S) == Cardinality(Coins(f, S))
=============================================================================
