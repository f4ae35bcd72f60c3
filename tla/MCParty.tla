------------------------------ MODULE MCParty -------------------------------
(***************************************************************************)
(* Instance of Party for TLC.                                              *)
(***************************************************************************)
EXTENDS Party, TLC

CONSTANTS ann, bob, cid, dan, g1, g2

\* Only one of the two channels is used, one player invites himself, and one is
\* in the game without a client.
FewAtATime ==
  /\ Cardinality(online \ linked) <= 1
  /\ \E g \in Parties : group.users[g] = {}
  /\ Cardinality(ownInvites) <= 1

Symm == Permutations(Players) \cup Permutations(Parties)
=============================================================================
