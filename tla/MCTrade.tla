------------------------------ MODULE MCTrade -------------------------------
(***************************************************************************)
(* Instances of Trade for TLC.                                             *)
(***************************************************************************)
EXTENDS Trade, TLC

CONSTANTS ann, bob, cid, bag, pouch, coins

\* A bag with a pouch in it, and a stack of coins in another player's slot.
Start == [i \in Items |->
            CASE i = pouch -> bag [] i = coins -> bob [] OTHER -> ann]

\* Three tiles in a row, one and two and three apart, or only one.
Line == {0, 2, 3}
Point == {0}

StartPlacements == {Start}

\* Two players walk about while the third is away; with him all stand still.
ThreeOnOneSpot == cid \in online => \A p \in Players : position[p] = 0
=============================================================================
