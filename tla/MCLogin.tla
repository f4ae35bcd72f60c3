------------------------------- MODULE MCLogin -------------------------------
(***************************************************************************)
(* Instance of Login for TLC.                                              *)
(***************************************************************************)
EXTENDS Login, TLC

CONSTANTS ann, bob, cid, p1, p2, p3, p4, home, away

\* Three connections from one address, and one from another.
MCAddress == [p \in Protocols |-> IF p = p4 THEN away ELSE home]

\* As many connections are in use at once.
ThreeAtATime ==
  Cardinality({p \in Protocols : protocol[p].state \notin {"unused", "deleted"}}) <= 3

Symm == Permutations({p1, p2, p3})
=============================================================================
