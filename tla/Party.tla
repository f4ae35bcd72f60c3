-------------------------------- MODULE Party --------------------------------
(***************************************************************************)
(* Parties of players, of src/src/party.cpp and the handlers of game.cpp   *)
(* and player.cpp that call it.  A Party points at its leader, members and *)
(* invited players, and they point back at it, all with raw pointers: each *)
(* operation has to keep both ends, and a party that is deleted must be    *)
(* forgotten by everybody.                                                 *)
(*                                                                         *)
(* All of it runs in tasks of the dispatcher, so a handler is one step.    *)
(* What a handler does to the pointers is an operator on the record of     *)
(* all of them, as handlers call each other.  Shared experience and icons  *)
(* are left out.                                                           *)
(*                                                                         *)
(* The party channel of src/src/chat.cpp is kept under the address of the  *)
(* party.  It is made when a member asks for the list of channels, and it  *)
(* is never deleted: here every address has one, with its users.           *)
(***************************************************************************)
EXTENDS FiniteSets, Naturals, Sequences, SequencesExt

CONSTANTS
  Players,
  Parties,     \* addresses a Party may be allocated at, reused when freed
  None         \* a null Party or Player pointer

ASSUME PartyAssumption == None \notin Players \cup Parties /\ IsFiniteSet(Parties)

VARIABLES
  online,      \* players in the game
  linked,      \* those of them with a client
  group,       \* every pointer between players and parties, see Groups
  ownInvites,  \* players who have invited themselves to a party, and to which
  strays,      \* players on the channel of a party they left, and which
  undefined    \* a deleted party was used

vars == <<online, linked, group, ownInvites, strays, undefined>>

Groups ==
  [party   : [Players -> Parties \cup {None}],   \* Player::party
   asked   : [Players -> SUBSET Parties],        \* Player::invitePartyList
   leader  : [Parties -> Players \cup {None}],   \* Party::leader, None if freed
   members : [Parties -> Seq(Players)],          \* Party::memberList
   invited : [Parties -> SUBSET Players],        \* Party::inviteList
   users   : [Parties -> SUBSET Players]]        \* ChatChannel::m_users

Init ==
  /\ online = {} /\ linked = {} /\ ownInvites = {} /\ strays = {}
  /\ undefined = FALSE
  /\ group = [party   |-> [p \in Players |-> None],
              asked   |-> [p \in Players |-> {}],
              leader  |-> [g \in Parties |-> None],
              members |-> [g \in Parties |-> <<>>],
              invited |-> [g \in Parties |-> {}],
              users   |-> [g \in Parties |-> {}]]

Live(w, g) == w.leader[g] # None
IsMember(w, g, p) == \E i \in DOMAIN w.members[g] : w.members[g][i] = p

\* Mutant: the entry is nulled instead of erased.
Blanked(s, p) == [i \in DOMAIN s |-> IF s[i] = p THEN None ELSE s[i]]
Without(s, p) == RemoveFirst(s, p)

-----------------------------------------------------------------------------
(* Party: what its methods do to the pointers w *)

\* Mutant: a party is never given up.
NeverDisbanded(w, g) == FALSE
CanDisband(w, g) == w.members[g] = <<>> /\ w.invited[g] = {}

\* Mutants: the leader keeps his pointer; the invited keep theirs.
DismissMembers(w, g) == {p \in Players : IsMember(w, g, p)}
InvitationsKept(w, g) == w.asked
\* disband: everybody forgets the party.
Dismissed(w, g) == {p \in Players : IsMember(w, g, p)} \cup {w.leader[g]}
InvitationsForgotten(w, g) ==
  [p \in Players |-> IF p \in w.invited[g] THEN w.asked[p] \ {g} ELSE w.asked[p]]

\* Mutant: the players are told after their pointer is gone.
NobodyClosed(w, g) == {}
\* sendClosePrivate(CHANNEL_PARTY) takes a player off the channel if he has a
\* client, and if he still points at the party, by which chat.cpp finds it.
Closed(w, g) == {p \in Dismissed(w, g) \cap linked : w.party[p] = g}

Disband(w, g) ==
  [w EXCEPT !.users[g] = @ \ Closed(w, g),
            !.party = [p \in Players |-> IF p \in Dismissed(w, g) THEN None ELSE @[p]],
            !.asked = InvitationsForgotten(w, g),
            !.leader[g] = None, !.members[g] = <<>>, !.invited[g] = {}]

\* The old leader becomes the first member.
PassLeadership(w, g, p) ==
  IF IsMember(w, g, p) /\ p # w.leader[g]
  THEN [w EXCEPT !.leader[g] = p,
                 !.members[g] = <<w.leader[g]>> \o Without(w.members[g], p)]
  ELSE w

\* Mutant: the youngest member succeeds.
LastMember(w, g) == w.members[g][Len(w.members[g])]
Successor(w, g) == Head(w.members[g])

\* Mutant: a party does not outlive its leader.
LeaderMissed(w, g, p) == w.leader[g] = p
\* leave: a leader who leaves nobody to lead.
MissingLeader(w, g, p) ==
  /\ w.leader[g] = p
  /\ w.members[g] = <<>> \/ (Len(w.members[g]) = 1 /\ w.invited[g] = {})

\* leave takes the player off the invitations too, but leaves him his own; it
\* forgets the party before it closes the channel, so he stays on that.
Leave(w, p) ==
  LET g == w.party[p]
      missing == MissingLeader(w, g, p)
      led == IF w.leader[g] = p /\ ~missing THEN PassLeadership(w, g, Successor(w, g))
                                            ELSE w
      left == [led EXCEPT !.members[g] = Without(@, p), !.invited[g] = @ \ {p},
                          !.party[p] = None]
  IN  IF missing \/ CanDisband(left, g) THEN Disband(left, g) ELSE left

LeaveIfIn(w, p) == IF w.party[p] = None THEN w ELSE Leave(w, p)

Joined(w, g, p) ==
  [w EXCEPT !.members[g] = Append(@, p), !.party[p] = g,
            !.asked[p] = @ \ {g}, !.invited[g] = @ \ {p}]

RemoveInvite(w, g, p) ==
  LET v == [w EXCEPT !.invited[g] = @ \ {p}, !.asked[p] = @ \ {g}]
  IN  IF p \notin w.invited[g] THEN w
      ELSE IF CanDisband(v, g) THEN Disband(v, g) ELSE v

\* Mutant: whoever leaves the game stays invited.
NothingCleared(w, p) == w
\* clearPartyInvitations empties the list and has every party in it forget the
\* player; the parties are distinct, so the order does not matter.
InvitationsCleared(w, p) ==
  LET clear[S \in SUBSET w.asked[p]] ==
        IF S = {} THEN [w EXCEPT !.asked[p] = {}]
        ELSE LET g == CHOOSE x \in S : TRUE IN RemoveInvite(clear[S \ {g}], g, p)
  IN  clear[w.asked[p]]

\* removeUserFromAllChannels
OffAllChannels(w, p) == [w EXCEPT !.users = [g \in Parties |-> @[g] \ {p}]]

-----------------------------------------------------------------------------
(* The handlers *)

\* The group is now w.  A player has just strayed from the parties of added, or
\* invited himself to those of own; what is over with is forgotten.
Becomes(w, added, own) ==
  /\ group' = w
  /\ strays' = {s \in strays \cup added : s[1] \in w.users[s[2]]}
  /\ ownInvites' = {s \in ownInvites \cup own : s[2] \in w.asked[s[1]]}

IsInviting(p, q) ==
  /\ group.party[p] # None /\ group.leader[group.party[p]] = p
  /\ q \in group.invited[group.party[p]]

Leads(p, g) == group.party[p] = g /\ group.leader[g] = p

\* playerInviteToParty: the first invitation founds the party.
Invite(p, q, g) ==
  /\ ~undefined /\ {p, q} \subseteq online
  /\ ~IsInviting(q, p) /\ group.party[q] = None
  /\ \/ group.party[p] = None /\ ~Live(group, g)
     \/ Leads(p, g) /\ q \notin group.invited[g]
  /\ Becomes([group EXCEPT !.party[p] = g, !.leader[g] = p,
                            !.invited[g] = @ \cup {q}, !.asked[q] = @ \cup {g}],
             {}, {r \in {<<p, g>>} : p = q})
  /\ UNCHANGED <<online, linked, undefined>>

\* playerJoinParty
Join(p, q) ==
  /\ ~undefined /\ {p, q} \subseteq online
  /\ IsInviting(q, p) /\ group.party[p] = None
  /\ Becomes(Joined(group, group.party[q], p), {}, {})
  /\ UNCHANGED <<online, linked, undefined>>

\* playerRevokePartyInvitation
Revoke(p, q) ==
  /\ ~undefined /\ {p, q} \subseteq online
  /\ IsInviting(p, q)
  /\ Becomes(RemoveInvite(group, group.party[p], q), {}, {})
  /\ UNCHANGED <<online, linked, undefined>>

\* playerPassPartyLeadership
Pass(p, q) ==
  /\ ~undefined /\ {p, q} \subseteq online
  /\ \E g \in Parties : /\ Leads(p, g) /\ group.party[q] = g
                        /\ Becomes(PassLeadership(group, g, q), {}, {})
  /\ UNCHANGED <<online, linked, undefined>>

\* playerLeaveParty, when the player is not in a fight
LeaveParty(p) ==
  /\ ~undefined /\ p \in online
  /\ group.party[p] # None
  /\ Becomes(Leave(group, p), {<<p, group.party[p]>>}, {})
  /\ UNCHANGED <<online, linked, undefined>>

\* What a player who leaves the game, becomes invisible or watches another one
\* does: a deleted party among his invitations is used all the same.
UsesDeleted(p) == \E g \in group.asked[p] : ~Live(group, g)
GoAway(w, p) == LeaveIfIn(InvitationsCleared(w, p), p)

Undefined ==
  /\ undefined' = TRUE
  /\ UNCHANGED <<online, linked, group, ownInvites, strays>>

Logout(p) ==
  /\ ~undefined /\ p \in online
  /\ \/ UsesDeleted(p) /\ Undefined
     \/ /\ ~UsesDeleted(p)
        /\ Becomes(OffAllChannels(GoAway(group, p), p), {}, {})
        /\ online' = online \ {p} /\ linked' = linked \ {p}
        /\ UNCHANGED undefined

Hide(p) ==
  /\ ~undefined /\ p \in online
  /\ \/ UsesDeleted(p) /\ Undefined
     \/ /\ ~UsesDeleted(p)
        /\ Becomes(GoAway(group, p), {<<p, g>> : g \in {group.party[p]} \ {None}}, {})
        /\ UNCHANGED <<online, linked, undefined>>

\* ProtocolGame::login: of a character out of the game, and of one in it that
\* has no client; one that has is taken off all channels, and loses it first.
Login(p) ==
  /\ ~undefined /\ p \notin linked
  /\ online' = online \cup {p} /\ linked' = linked \cup {p}
  /\ UNCHANGED <<group, ownInvites, strays, undefined>>

TakeOver(p) ==
  /\ ~undefined /\ p \in linked
  /\ Becomes(OffAllChannels(group, p), {}, {})
  /\ UNCHANGED <<online, linked, undefined>>

\* releaseProtocol: the connection of a player is gone, the player is not.
LoseClient(p) ==
  /\ ~undefined /\ p \in linked
  /\ linked' = linked \ {p}
  /\ strays' = strays \cup {<<p, g>> : g \in {h \in Parties : p \in group.users[h]}}
  /\ UNCHANGED <<online, group, ownInvites, undefined>>

\* playerOpenChannel and playerCloseChannel, of the party channel
OpenChannel(p, g) ==
  /\ ~undefined /\ p \in online
  /\ group.party[p] = g /\ p \notin group.users[g]
  /\ Becomes([group EXCEPT !.users[g] = @ \cup {p}], {<<p, g>>} \ (linked \X {g}), {})
  /\ UNCHANGED <<online, linked, undefined>>

CloseChannel(p, g) ==
  /\ ~undefined /\ p \in online
  /\ group.party[p] = g /\ p \in group.users[g]
  /\ Becomes([group EXCEPT !.users[g] = @ \ {p}], {}, {})
  /\ UNCHANGED <<online, linked, undefined>>

Next ==
  \/ \E p, q \in Players :
       \/ \E g \in Parties : Invite(p, q, g)
       \/ Join(p, q) \/ Revoke(p, q) \/ Pass(p, q)
  \/ \E p \in Players :
       \/ LeaveParty(p) \/ Logout(p) \/ Hide(p)
       \/ Login(p) \/ TakeOver(p) \/ LoseClient(p)
       \/ \E g \in Parties : OpenChannel(p, g) \/ CloseChannel(p, g)

Spec == Init /\ [][Next]_vars

-----------------------------------------------------------------------------
(* Properties *)

\* The type of every variable.
TypeOK ==
  /\ linked \subseteq online /\ online \subseteq Players
  /\ group \in Groups
  /\ ownInvites \subseteq Players \X Parties
  /\ strays \subseteq Players \X Parties
  /\ undefined \in BOOLEAN

\* Both ends of a membership agree: a player points at the party that has him
\* as its leader or, once, as a member, and at no other, least of all at a
\* deleted one.
MembershipMirrored ==
  \A p \in Players, g \in Parties :
    /\ group.party[p] = g <=> group.leader[g] = p \/ IsMember(group, g, p)
    /\ ~(group.leader[g] = p /\ IsMember(group, g, p))
    /\ Cardinality({i \in DOMAIN group.members[g] : group.members[g][i] = p}) <= 1

\* Both ends of an invitation agree, but for one a player sent to himself and
\* left the party with.
InvitationsMirrored ==
  \A p \in Players, g \in Parties :
    /\ p \in group.invited[g] => g \in group.asked[p]
    /\ g \in group.asked[p] => p \in group.invited[g] \/ <<p, g>> \in ownInvites

\* No party, and no party channel, keeps a pointer to a player who has left the
\* game.
OnlyOnline ==
  \A g \in Parties :
    /\ group.users[g] \subseteq online
    /\ group.leader[g] \in online \cup {None}
    /\ group.invited[g] \subseteq online
    /\ \A i \in DOMAIN group.members[g] : group.members[g][i] \in online

\* A party with nobody in it but its leader, and nobody asked, is given up.
NoEmptyParty ==
  \A g \in Parties :
    Live(group, g) => group.members[g] # <<>> \/ group.invited[g] # {}

\* Players and parties point at each other with plain pointers, and parties
\* delete themselves: after any sequence of calls all of these pointers agree.
PointersAgree ==
  MembershipMirrored /\ InvitationsMirrored /\ OnlyOnline /\ NoEmptyParty

\* Who is on the channel of a party without being in the party, and so hears
\* also the next party at its address, has left the party himself, or has been
\* without a client while on it: a party that disbands closes it for all
\* others.
OutsidersAreStrays ==
  \A g \in Parties : \A p \in group.users[g] :
    group.party[p] = g \/ <<p, g>> \in strays

\* A party of three or more outlives whatever one of them does, and the others
\* all stay in it.
PartySurvives(g) ==
  Len(group.members[g]) >= 2 =>
    \E p \in Players :
      \A q \in Players \ {p} : group.party[q] = g => group'.party[q] = g

\* When the leader goes, the leadership falls to the first of the members, and
\* the others keep their places.
SeniorSucceeds(g) ==
  /\ Live(group, g) /\ Live(group', g)
  /\ group'.party[group.leader[g]] # g
  => /\ group'.leader[g] = Head(group.members[g])
     /\ group'.members[g] = Tail(group.members[g])

\* Nobody's going breaks up the party of the others, nor the order in which
\* they lead it.
Succession == [][\A g \in Parties : PartySurvives(g) /\ SeniorSucceeds(g)]_vars
=============================================================================
