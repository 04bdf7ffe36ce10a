------------------------------ MODULE MCOracle ------------------------------
(***************************************************************************)
(* Instances of OraclePrice for TLC.                                       *)
(***************************************************************************)
EXTENDS OraclePrice, TLC

CONSTANTS i1, i2, p1, p2, p3

\* A list page, and item pages of one of its items.
ListAndItems == p1 :> <<i1, i2>> @@ p2 :> <<i1>> @@ p3 :> <<i2, i1>>
=============================================================================
