------------------------------- MODULE MCMarket -------------------------------
(***************************************************************************)
(* Instances of Market for TLC: ann has two items, twice what a parcel     *)
(* takes, and the fee for an offer; bob has the money for both.            *)
(***************************************************************************)
EXTENDS Market

CONSTANTS ann, bob

Goods2 == [p \in Players |-> IF p = ann THEN 2 ELSE 0]
Coins40 == [p \in Players |-> IF p = bob THEN 40 ELSE 2]
=============================================================================
