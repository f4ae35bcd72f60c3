---------------------------- MODULE PartyProofs -----------------------------
(***************************************************************************)
(* Theorems about Party, for any players and any number of parties: the    *)
(* pointers between them agree after any sequence of calls.                *)
(*                                                                         *)
(* The methods of a party take all pointers w to new ones, and call each   *)
(* other, so what they preserve is stated about such a w.                  *)
(***************************************************************************)
EXTENDS Party, SumLemmas

Occurs(s, p) == \E i \in DOMAIN s : s[i] = p
Distinct(s) == \A i, j \in DOMAIN s : s[i] = s[j] => i = j

-----------------------------------------------------------------------------
(* Lists of members *)

\* What the two searches and erasures of the code leave of a list.
LEMMA WithoutIs ==
  ASSUME NEW s \in Seq(Players), NEW p
  PROVE  \/ Without(s, p) = s /\ ~Occurs(s, p)
         \/ \E n \in DOMAIN s : s[n] = p /\ Without(s, p) = RemoveAt(s, n)
<1> DEFINE I == {i \in 1..Len(s) : s[i] = p}
           n == SelectInSeq(s, LAMBDA v : v = p)
<1>1. CASE \E i \in 1..Len(s) : s[i] = p
  <2>1. I \subseteq Nat /\ I # {}
    BY <1>1
  <2>2. n = Min(I)
    BY <2>1 DEF SelectInSeq
  <2>3. Min(I) \in I
    <3>1. \E x \in I : \A y \in I : x <= y
      BY <2>1, LeastOf
    <3> HIDE DEF I
    <3> QED BY <3>1 DEF Min
  <2>4. Without(s, p) = RemoveAt(s, n)
    BY <1>1 DEF Without, RemoveFirst
  <2>5. Min(I) \in DOMAIN s /\ s[Min(I)] = p
    BY <2>3
  <2> HIDE DEF n, I
  <2> QED BY <2>2, <2>4, <2>5
<1>2. CASE ~\E i \in 1..Len(s) : s[i] = p
  BY <1>2 DEF Without, RemoveFirst, Occurs
<1> QED BY <1>1, <1>2

LEMMA WithoutMembers ==
  ASSUME NEW s \in Seq(Players), Distinct(s), NEW p
  PROVE  /\ Without(s, p) \in Seq(Players) /\ Distinct(Without(s, p))
         /\ \A q : Occurs(Without(s, p), q) <=> Occurs(s, q) /\ q # p
<1> DEFINE r == Without(s, p)
<1>1. CASE r = s /\ ~Occurs(s, p)
  BY <1>1
<1>2. CASE \E n \in DOMAIN s : s[n] = p /\ r = RemoveAt(s, n)
  <2>1. PICK n \in DOMAIN s : s[n] = p /\ r = RemoveAt(s, n)
    BY <1>2
  <2> HIDE DEF r
  <2>2. /\ r \in Seq(Players) /\ n \in Nat
        /\ \A i \in DOMAIN r :
             /\ i \in Nat
             /\ i < n => i \in DOMAIN s /\ r[i] = s[i]
             /\ i >= n => i + 1 \in DOMAIN s /\ r[i] = s[i + 1]
        /\ \A j \in DOMAIN s :
             /\ j \in Nat
             /\ j < n => j \in DOMAIN r /\ r[j] = s[j]
             /\ j > n => j - 1 \in DOMAIN r /\ r[j - 1] = s[j]
    BY <2>1, Removed
  <2>3. Distinct(r)
    <3> SUFFICES ASSUME NEW i \in DOMAIN r, NEW j \in DOMAIN r, r[i] = r[j] PROVE i = j
      BY DEF Distinct
    <3> DEFINE From(k) == IF k < n THEN k ELSE k + 1
    <3>1. /\ i \in Nat /\ From(i) \in DOMAIN s /\ r[i] = s[From(i)]
          /\ j \in Nat /\ From(j) \in DOMAIN s /\ r[j] = s[From(j)]
      BY <2>2
    <3>2. From(i) = From(j)
      <4> HIDE DEF From
      <4> QED BY <3>1 DEF Distinct
    <3> QED BY <2>2, <3>1, <3>2
  <2>4. ASSUME NEW q, Occurs(r, q) PROVE Occurs(s, q) /\ q # p
    <3>1. PICK i \in DOMAIN r : r[i] = q
      BY <2>4 DEF Occurs
    <3>2. CASE i < n
      BY <2>1, <2>2, <3>1, <3>2 DEF Occurs, Distinct
    <3>3. CASE i >= n
      BY <2>1, <2>2, <3>1, <3>3 DEF Occurs, Distinct
    <3> QED BY <2>2, <3>2, <3>3
  <2>5. ASSUME NEW q, Occurs(s, q), q # p PROVE Occurs(r, q)
    <3>1. PICK j \in DOMAIN s : s[j] = q
      BY <2>5 DEF Occurs
    <3>2. j < n \/ j > n
      BY <2>1, <2>2, <2>5, <3>1
    <3> QED BY <2>2, <3>1, <3>2 DEF Occurs
  <2> QED BY <2>2, <2>3, <2>4, <2>5 DEF r
<1> QED BY <1>1, <1>2, WithoutIs DEF r

LEMMA MembersAppended ==
  ASSUME NEW s \in Seq(Players), Distinct(s), NEW p \in Players, ~Occurs(s, p)
  PROVE  /\ Append(s, p) \in Seq(Players) /\ Distinct(Append(s, p)) /\ Append(s, p) # <<>>
         /\ \A q : Occurs(Append(s, p), q) <=> Occurs(s, q) \/ q = p
<1> DEFINE r == Append(s, p)
<1>1. /\ r \in Seq(Players) /\ r # <<>> /\ Len(s) \in Nat
      /\ DOMAIN r = DOMAIN s \cup {Len(s) + 1} /\ r[Len(s) + 1] = p
      /\ \A i \in DOMAIN s : r[i] = s[i] /\ i \in Nat /\ i < Len(s) + 1
  OBVIOUS
<1> HIDE DEF r
<1> QED BY <1>1 DEF Occurs, Distinct, r

LEMMA MembersLed ==
  ASSUME NEW s \in Seq(Players), Distinct(s), NEW p \in Players, ~Occurs(s, p)
  PROVE  /\ <<p>> \o s \in Seq(Players) /\ Distinct(<<p>> \o s) /\ <<p>> \o s # <<>>
         /\ \A q : Occurs(<<p>> \o s, q) <=> Occurs(s, q) \/ q = p
<1> DEFINE r == <<p>> \o s
<1>1. /\ r \in Seq(Players) /\ r # <<>> /\ 1 \in DOMAIN r /\ r[1] = p
      /\ \A i \in DOMAIN r : i \in Nat /\ (i = 1 \/ (i - 1 \in DOMAIN s /\ r[i] = s[i - 1]))
      /\ \A i \in DOMAIN s : i \in Nat /\ i + 1 \in DOMAIN r /\ r[i + 1] = s[i]
  OBVIOUS
<1> HIDE DEF r
<1>2. \A q : Occurs(r, q) <=> Occurs(s, q) \/ q = p
  BY <1>1, ZenonT(60) DEF Occurs
<1>3. Distinct(r)
  BY <1>1 DEF Occurs, Distinct
<1> QED BY <1>1, <1>2, <1>3 DEF r

-----------------------------------------------------------------------------
(* What holds of all pointers at all times, but for the invitations of a      *)
(* player x who is just clearing them; st are the strays and own the players  *)
(* who invited themselves.                                                    *)

\* Both ends of a membership agree, in the party g.
Mirrored(w, g) ==
  \A p \in Players : /\ w.party[p] = g <=> w.leader[g] = p \/ IsMember(w, g, p)
                     /\ ~(w.leader[g] = p /\ IsMember(w, g, p))

\* A list names nobody twice, and a party that was freed names nobody.
Orderly(w, g) ==
  /\ Distinct(w.members[g])
  /\ w.leader[g] = None => w.members[g] = <<>> /\ w.invited[g] = {}

\* Both ends of an invitation agree.
Invitations(w, x, own) ==
  \A p \in Players, g \in Parties :
    p # x => /\ p \in w.invited[g] => g \in w.asked[p]
             /\ g \in w.asked[p] => p \in w.invited[g] \/ <<p, g>> \in own

\* Only who invited himself is invited to the party he is in.
SelfInvited(w, own) ==
  \A p \in Players, g \in Parties :
    p \in w.invited[g] /\ w.party[p] = g => <<p, g>> \in own

Needed(w, g) == w.leader[g] # None => w.members[g] # <<>> \/ w.invited[g] # {}

\* Who is on a channel is in the party with a client, or is a stray.
Heard(w, st) ==
  \A g \in Parties : \A p \in w.users[g] :
    <<p, g>> \in st \/ (w.party[p] = g /\ p \in linked)

\* Nothing points at a player who is not in the game.
Inside(w) ==
  \A p \in Players \ online :
    w.party[p] = None /\ \A g \in Parties : p \notin w.invited[g] /\ p \notin w.users[g]

Sound(w, x, own, st) ==
  /\ w \in Groups
  /\ \A g \in Parties : Mirrored(w, g) /\ Orderly(w, g) /\ Needed(w, g)
  /\ Invitations(w, x, own) /\ SelfInvited(w, own)
  /\ Heard(w, st) /\ Inside(w)

LEMMA GroupFields ==
  ASSUME NEW w \in Groups
  PROVE  /\ w.party \in [Players -> Parties \cup {None}]
         /\ w.asked \in [Players -> SUBSET Parties]
         /\ w.leader \in [Parties -> Players \cup {None}]
         /\ w.members \in [Parties -> Seq(Players)]
         /\ w.invited \in [Parties -> SUBSET Players]
         /\ w.users \in [Parties -> SUBSET Players]
BY DEF Groups

LEMMA DisbandIs ==
  ASSUME NEW w \in Groups, NEW g \in Parties
  PROVE  /\ Disband(w, g) \in Groups
         /\ \A p \in Players :
              /\ Disband(w, g).party[p] = IF p \in Dismissed(w, g) THEN None ELSE w.party[p]
              /\ Disband(w, g).asked[p] = IF p \in w.invited[g] THEN w.asked[p] \ {g}
                                                                ELSE w.asked[p]
         /\ Disband(w, g).leader = [w.leader EXCEPT ![g] = None]
         /\ Disband(w, g).members = [w.members EXCEPT ![g] = <<>>]
         /\ Disband(w, g).invited = [w.invited EXCEPT ![g] = {}]
         /\ Disband(w, g).users = [w.users EXCEPT ![g] = w.users[g] \ Closed(w, g)]
<1> DEFINE party == [p \in Players |-> IF p \in Dismissed(w, g) THEN None ELSE w.party[p]]
           asked == InvitationsForgotten(w, g)
           closed == w.users[g] \ Closed(w, g)
           v == Disband(w, g)
           m == <<>>
           i == {}
<1>1. v = [w EXCEPT !.users[g] = closed, !.party = party, !.asked = asked,
                    !.leader[g] = None, !.members[g] = m, !.invited[g] = i]
  <2> HIDE DEF asked
  <2> QED BY DEF Disband, asked, Groups
<1>2. /\ party \in [Players -> Parties \cup {None}]
      /\ \A p \in Players : party[p] = IF p \in Dismissed(w, g) THEN None ELSE w.party[p]
      /\ asked \in [Players -> SUBSET Parties]
      /\ \A p \in Players : asked[p] = IF p \in w.invited[g] THEN w.asked[p] \ {g}
                                                             ELSE w.asked[p]
  BY GroupFields DEF InvitationsForgotten
<1>3. /\ m \in Seq(Players) /\ i \in SUBSET Players /\ closed \in SUBSET Players
      /\ None \in Players \cup {None}
  BY GroupFields
<1> DEFINE T == Seq(Players)
<1> HIDE DEF v, party, asked, closed, m, i, T
<1>4. v.party = party /\ v.asked = asked
  BY <1>1 DEF Groups
<1>5. v.leader = [w.leader EXCEPT ![g] = None]
  BY <1>1 DEF Groups
<1>6. v.members = [w.members EXCEPT ![g] = m]
  BY <1>1 DEF Groups
<1>7. v.invited = [w.invited EXCEPT ![g] = i]
  BY <1>1 DEF Groups
<1>8. v.users = [w.users EXCEPT ![g] = closed]
  BY <1>1 DEF Groups
<1>9. v \in Groups
  BY <1>1, <1>2, <1>3 DEF Groups
<1> QED BY <1>2, <1>4, <1>5, <1>6, <1>7, <1>8, <1>9 DEF v, closed, m, i

-----------------------------------------------------------------------------
(* Disbanding *)

\* What holds of w when g is about to be disbanded: who is in it may have left
\* it already.
Falling(w, g, x, own, st) ==
  /\ w \in Groups
  /\ \A h \in Parties \ {g} : Mirrored(w, h) /\ Orderly(w, h) /\ Needed(w, h)
  /\ \A p \in Players : /\ w.party[p] = g => p \in Dismissed(w, g)
                        /\ p \in Dismissed(w, g) => w.party[p] \in {g, None}
  /\ Invitations(w, x, own) /\ SelfInvited(w, own)
  /\ Heard(w, st) /\ Inside(w)

LEMMA DisbandSound ==
  ASSUME NEW w, NEW g \in Parties, NEW x, NEW own, NEW st, Falling(w, g, x, own, st)
  PROVE  Sound(Disband(w, g), x, own, st)
<1> DEFINE v == Disband(w, g)
<1>1. w \in Groups /\ None \notin Players \cup Parties
  BY PartyAssumption DEF Falling
<1>2. /\ v \in Groups
      /\ \A p \in Players :
           /\ v.party[p] = IF p \in Dismissed(w, g) THEN None ELSE w.party[p]
           /\ v.asked[p] = IF p \in w.invited[g] THEN w.asked[p] \ {g} ELSE w.asked[p]
      /\ v.leader = [w.leader EXCEPT ![g] = None]
      /\ v.members = [w.members EXCEPT ![g] = <<>>]
      /\ v.invited = [w.invited EXCEPT ![g] = {}]
      /\ v.users = [w.users EXCEPT ![g] = w.users[g] \ Closed(w, g)]
  BY <1>1, DisbandIs
<1> HIDE DEF v
<1>3. /\ v.leader[g] = None /\ v.members[g] = <<>> /\ v.invited[g] = {}
      /\ v.users[g] = w.users[g] \ Closed(w, g)
      /\ \A h \in Parties \ {g} : /\ v.leader[h] = w.leader[h] /\ v.members[h] = w.members[h]
                                  /\ v.invited[h] = w.invited[h] /\ v.users[h] = w.users[h]
  BY <1>1, <1>2, GroupFields
<1>4. \A p \in Players : /\ w.party[p] = g => p \in Dismissed(w, g)
                         /\ p \in Dismissed(w, g) => w.party[p] \in {g, None}
  BY DEF Falling
<1>5. \A p \in Players : v.party[p] = w.party[p] \/ (w.party[p] = g /\ v.party[p] = None)
  BY <1>2, <1>4
<1>6. ASSUME NEW h \in Parties PROVE Mirrored(v, h) /\ Orderly(v, h) /\ Needed(v, h)
  <2>1. CASE h = g
    <3>1. \A p \in Players : v.party[p] # g
      BY <1>1, <1>2, <1>4
    <3>2. DOMAIN v.members[g] = {}
      BY <1>3
    <3> QED BY <1>1, <1>3, <2>1, <3>1, <3>2 DEF Mirrored, Orderly, Needed, IsMember, Distinct
  <2>2. CASE h # g
    <3>1. Mirrored(w, h) /\ Orderly(w, h) /\ Needed(w, h)
      BY <2>2 DEF Falling
    <3>2. \A p \in Players : v.party[p] = h <=> w.party[p] = h
      BY <1>1, <1>5, <2>2
    <3> QED BY <1>3, <2>2, <3>1, <3>2 DEF Mirrored, Orderly, Needed, IsMember
  <2> QED BY <2>1, <2>2
<1>7. Invitations(v, x, own)
  <2>1. Invitations(w, x, own)
    BY DEF Falling
  <2> QED BY <1>2, <1>3, <2>1 DEF Invitations
<1>8. SelfInvited(v, own)
  <2>1. SelfInvited(w, own)
    BY DEF Falling
  <2> QED BY <1>1, <1>3, <1>5, <2>1 DEF SelfInvited
<1>9. Heard(v, st)
  <2> SUFFICES ASSUME NEW h \in Parties, NEW p \in v.users[h], <<p, h>> \notin st
               PROVE  v.party[p] = h /\ p \in linked
    BY DEF Heard
  <2>1. p \in Players /\ p \in w.users[h] /\ (h = g => p \notin Closed(w, g))
    BY <1>1, <1>2, <1>3, GroupFields
  <2>2. w.party[p] = h /\ p \in linked
    BY <2>1 DEF Falling, Heard
  <2>3. h # g
    BY <1>4, <2>1, <2>2 DEF Closed
  <2> QED BY <1>5, <2>1, <2>2, <2>3
<1>10. Inside(v)
  <2>1. Inside(w)
    BY DEF Falling
  <2> QED BY <1>1, <1>3, <1>5, <2>1 DEF Inside
<1> QED BY <1>2, <1>6, <1>7, <1>8, <1>9, <1>10 DEF Sound, v

-----------------------------------------------------------------------------
(* Passing the leadership *)

\* The members after p has been made the leader of g.
Following(w, g, p) == <<w.leader[g]>> \o Without(w.members[g], p)

Passed(w, v, g, p) ==
  /\ v \in Groups
  /\ v.party = w.party /\ v.asked = w.asked /\ v.invited = w.invited /\ v.users = w.users
  /\ v.leader = [w.leader EXCEPT ![g] = p]
  /\ v.members = [w.members EXCEPT ![g] = Following(w, g, p)]

LEMMA FollowingIs ==
  ASSUME NEW w, NEW g \in Parties, NEW p \in Players, w \in Groups,
         Mirrored(w, g), Orderly(w, g), IsMember(w, g, p)
  PROVE  /\ w.leader[g] \in Players /\ p # w.leader[g]
         /\ Following(w, g, p) \in Seq(Players) /\ Distinct(Following(w, g, p))
         /\ Following(w, g, p) # <<>>
         /\ \A q : Occurs(Following(w, g, p), q)
                     <=> q = w.leader[g] \/ (IsMember(w, g, q) /\ q # p)
<1> DEFINE s == w.members[g]
           l == w.leader[g]
           r == Without(s, p)
<1>1. s \in Seq(Players) /\ Distinct(s) /\ l \in Players \cup {None}
  BY GroupFields DEF Orderly
<1>2. \A q : IsMember(w, g, q) <=> Occurs(s, q)
  BY DEF IsMember, Occurs
<1>3. l \in Players /\ p # l /\ ~Occurs(s, l)
  <2>1. l # None
    BY DEF Orderly, IsMember
  <2>2. l \in Players
    BY <1>1, <2>1
  <2> QED BY <1>2, <2>2 DEF Mirrored
<1> HIDE DEF s, l
<1>4. r \in Seq(Players) /\ Distinct(r) /\ \A q : Occurs(r, q) <=> Occurs(s, q) /\ q # p
  BY <1>1, WithoutMembers
<1> HIDE DEF r
<1>5. /\ <<l>> \o r \in Seq(Players) /\ Distinct(<<l>> \o r) /\ <<l>> \o r # <<>>
      /\ \A q : Occurs(<<l>> \o r, q) <=> Occurs(r, q) \/ q = l
  BY <1>3, <1>4, MembersLed
<1>6. Following(w, g, p) = <<l>> \o r
  BY DEF Following, s, l, r
<1> QED BY <1>2, <1>3, <1>4, <1>5, <1>6 DEF l

LEMMA PassIs ==
  ASSUME NEW w, NEW g \in Parties, NEW p \in Players, w \in Groups,
         Mirrored(w, g), Orderly(w, g), IsMember(w, g, p)
  PROVE  Passed(w, PassLeadership(w, g, p), g, p)
<1> DEFINE f == Following(w, g, p)
           v == PassLeadership(w, g, p)
           T == Seq(Players)
<1>1. p # w.leader[g] /\ f \in T
  BY FollowingIs
<1>2. v = [w EXCEPT !.leader[g] = p, !.members[g] = f]
  BY <1>1 DEF PassLeadership, Following
<1> HIDE DEF f, v, T
<1>3. v.party = w.party /\ v.asked = w.asked /\ v.invited = w.invited /\ v.users = w.users
  BY <1>2 DEF Groups
<1>4. v.leader = [w.leader EXCEPT ![g] = p]
  BY <1>2 DEF Groups
<1>5. v.members = [w.members EXCEPT ![g] = f]
  BY <1>2 DEF Groups
<1>6. v \in Groups
  BY <1>1, <1>2 DEF Groups, T
<1> QED BY <1>3, <1>4, <1>5, <1>6 DEF Passed, f, v

LEMMA PassedSound ==
  ASSUME NEW w, NEW v, NEW g \in Parties, NEW p \in Players, NEW x, NEW own, NEW st,
         Sound(w, x, own, st), IsMember(w, g, p), Passed(w, v, g, p)
  PROVE  Sound(v, x, own, st)
<1>1. w \in Groups /\ \A h \in Parties : Mirrored(w, h) /\ Orderly(w, h) /\ Needed(w, h)
  BY DEF Sound
<1>2. /\ v.party = w.party /\ v.asked = w.asked /\ v.invited = w.invited /\ v.users = w.users
      /\ v.leader[g] = p /\ v.members[g] = Following(w, g, p)
      /\ \A h \in Parties \ {g} : v.leader[h] = w.leader[h] /\ v.members[h] = w.members[h]
  BY <1>1, GroupFields DEF Passed
<1>3. None \notin Players
  BY PartyAssumption
<1>4. ASSUME NEW h \in Parties PROVE Mirrored(v, h) /\ Orderly(v, h) /\ Needed(v, h)
  <2>1. CASE h = g
    <3>1. \A q : IsMember(v, g, q) <=> q = w.leader[g] \/ (IsMember(w, g, q) /\ q # p)
      <4>1. \A q : IsMember(v, g, q) <=> Occurs(Following(w, g, p), q)
        BY <1>2 DEF IsMember, Occurs
      <4> QED BY <1>1, <4>1, FollowingIs
    <3>2. p # w.leader[g] /\ Distinct(v.members[g]) /\ v.members[g] # <<>>
      BY <1>1, <1>2, FollowingIs
    <3>3. Mirrored(w, g) /\ Orderly(w, g)
      BY <1>1
    <3>4. Mirrored(v, g)
      BY <1>2, <3>1, <3>2, <3>3 DEF Mirrored
    <3> QED BY <1>2, <1>3, <2>1, <3>2, <3>4 DEF Orderly, Needed
  <2>2. CASE h # g
    BY <1>1, <1>2, <2>2 DEF Mirrored, Orderly, Needed, IsMember
  <2> QED BY <2>1, <2>2
<1> QED BY <1>2, <1>4 DEF Sound, Passed, Invitations, SelfInvited, Heard, Inside

LEMMA PassSound ==
  ASSUME NEW w, NEW g \in Parties, NEW p \in Players, NEW x, NEW own, NEW st,
         Sound(w, x, own, st)
  PROVE  Sound(PassLeadership(w, g, p), x, own, st)
<1>1. CASE IsMember(w, g, p)
  BY <1>1, PassIs, PassedSound DEF Sound
<1>2. CASE ~IsMember(w, g, p)
  BY <1>2 DEF PassLeadership
<1> QED BY <1>1, <1>2

-----------------------------------------------------------------------------
(* Leaving *)

LeftWorld(u, g, p) ==
  [u EXCEPT !.members[g] = Without(@, p), !.invited[g] = @ \ {p}, !.party[p] = None]

Gone(u, v, g, p) ==
  /\ v \in Groups
  /\ v.party = [u.party EXCEPT ![p] = None]
  /\ v.asked = u.asked /\ v.leader = u.leader /\ v.users = u.users
  /\ v.members = [u.members EXCEPT ![g] = Without(u.members[g], p)]
  /\ v.invited = [u.invited EXCEPT ![g] = u.invited[g] \ {p}]

LEMMA LeftIs ==
  ASSUME NEW u \in Groups, NEW g \in Parties, NEW p \in Players, Orderly(u, g)
  PROVE  Gone(u, LeftWorld(u, g, p), g, p)
<1> DEFINE m == Without(u.members[g], p)
           i == u.invited[g] \ {p}
           v == LeftWorld(u, g, p)
           T == Seq(Players)
<1>1. m \in T /\ i \in SUBSET Players
  BY WithoutMembers, GroupFields DEF Orderly
<1>2. v = [u EXCEPT !.members[g] = m, !.invited[g] = i, !.party[p] = None]
  BY DEF LeftWorld
<1> HIDE DEF m, i, v, T
<1>3. v.asked = u.asked /\ v.leader = u.leader /\ v.users = u.users
  BY <1>2 DEF Groups
<1>4. v.party = [u.party EXCEPT ![p] = None]
  BY <1>2 DEF Groups
<1>5. v.members = [u.members EXCEPT ![g] = m]
  BY <1>2 DEF Groups
<1>6. v.invited = [u.invited EXCEPT ![g] = i]
  BY <1>2 DEF Groups
<1>7. v \in Groups
  BY <1>1, <1>2 DEF Groups, T
<1> QED BY <1>3, <1>4, <1>5, <1>6, <1>7 DEF Gone, m, i, v

LEMMA GoneIs ==
  ASSUME NEW u \in Groups, NEW v, NEW g \in Parties, NEW p \in Players,
         Orderly(u, g), Gone(u, v, g, p)
  PROVE  /\ v.party[p] = None /\ \A q \in Players \ {p} : v.party[q] = u.party[q]
         /\ v.invited[g] = u.invited[g] \ {p} /\ Distinct(v.members[g])
         /\ \A q : IsMember(v, g, q) <=> IsMember(u, g, q) /\ q # p
         /\ \A h \in Parties \ {g} : v.invited[h] = u.invited[h] /\ v.members[h] = u.members[h]
<1> DEFINE s == u.members[g]
           r == Without(s, p)
<1>1. /\ v.party[p] = None /\ \A q \in Players \ {p} : v.party[q] = u.party[q]
      /\ v.invited[g] = u.invited[g] \ {p} /\ v.members[g] = r
      /\ \A h \in Parties \ {g} : v.invited[h] = u.invited[h] /\ v.members[h] = u.members[h]
  BY GroupFields DEF Gone
<1>2. s \in Seq(Players) /\ Distinct(s)
  BY GroupFields DEF Orderly
<1>3. \A q : (IsMember(v, g, q) <=> Occurs(r, q)) /\ (IsMember(u, g, q) <=> Occurs(s, q))
  BY <1>1 DEF IsMember, Occurs
<1> HIDE DEF s
<1>4. Distinct(r) /\ \A q : Occurs(r, q) <=> Occurs(s, q) /\ q # p
  BY <1>2, WithoutMembers
<1> HIDE DEF r
<1> QED BY <1>1, <1>3, <1>4

LEMMA GoneFalls ==
  ASSUME NEW u, NEW v, NEW g \in Parties, NEW p \in Players, NEW x, NEW own, NEW st,
         Sound(u, x, own, st), u.party[p] = g, Gone(u, v, g, p)
  PROVE  /\ Falling(v, g, x, own, st \cup {<<p, g>>})
         /\ u.leader[g] # p /\ ~CanDisband(v, g) => Sound(v, x, own, st \cup {<<p, g>>})
<1>1. /\ u \in Groups /\ \A h \in Parties : Mirrored(u, h) /\ Orderly(u, h) /\ Needed(u, h)
      /\ Invitations(u, x, own) /\ SelfInvited(u, own) /\ Heard(u, st) /\ Inside(u)
      /\ None \notin Players \cup Parties
  BY PartyAssumption DEF Sound
<1>2. /\ v.party[p] = None /\ \A q \in Players \ {p} : v.party[q] = u.party[q]
      /\ v.invited[g] = u.invited[g] \ {p} /\ Distinct(v.members[g])
      /\ \A q : IsMember(v, g, q) <=> IsMember(u, g, q) /\ q # p
      /\ \A h \in Parties \ {g} : v.invited[h] = u.invited[h] /\ v.members[h] = u.members[h]
  <2>1. u \in Groups /\ Orderly(u, g) /\ Gone(u, v, g, p)
    BY <1>1
  <2> QED BY ONLY <2>1, GoneIs
<1>3. v \in Groups /\ v.asked = u.asked /\ v.leader = u.leader /\ v.users = u.users
  BY DEF Gone
<1>4. ASSUME NEW h \in Parties \ {g} PROVE Mirrored(v, h) /\ Orderly(v, h) /\ Needed(v, h)
  BY <1>1, <1>2, <1>3 DEF Mirrored, Orderly, Needed, IsMember
<1>5. Mirrored(u, g) /\ Orderly(u, g)
  BY <1>1
<1>6. \A q \in Players : /\ v.party[q] = g => q \in Dismissed(v, g)
                         /\ q \in Dismissed(v, g) => v.party[q] \in {g, None}
  BY <1>1, <1>2, <1>3, <1>5 DEF Mirrored, Dismissed
<1>7. Invitations(v, x, own) /\ SelfInvited(v, own)
  BY <1>1, <1>2, <1>3 DEF Invitations, SelfInvited
<1>8. Heard(v, st \cup {<<p, g>>})
  <2> SUFFICES ASSUME NEW h \in Parties, NEW q \in v.users[h], <<q, h>> \notin st,
                      <<q, h>> # <<p, g>>
               PROVE  v.party[q] = h /\ q \in linked
    BY DEF Heard
  <2>1. q \in Players /\ q \in u.users[h]
    BY <1>1, <1>3, GroupFields
  <2>2. u.party[q] = h /\ q \in linked
    BY <1>1, <2>1 DEF Heard
  <2> QED BY <1>2, <2>1, <2>2
<1>9. Inside(v)
  BY <1>1, <1>2, <1>3 DEF Inside
<1>10. ASSUME u.leader[g] # p, ~CanDisband(v, g)
       PROVE  Mirrored(v, g) /\ Orderly(v, g) /\ Needed(v, g)
  <2>1. Mirrored(v, g)
    BY <1>1, <1>2, <1>3, <1>5, <1>10 DEF Mirrored
  <2>2. u.leader[g] # None
    BY <1>1, <1>5, <1>10 DEF Mirrored, Orderly, IsMember
  <2> QED BY <1>2, <1>3, <1>10, <2>1, <2>2 DEF Orderly, Needed, CanDisband
<1> QED BY <1>3, <1>4, <1>6, <1>7, <1>8, <1>9, <1>10 DEF Falling, Sound

\* v has no invitation, no member and nobody on a channel that w has not.
Fewer(w, v) ==
  /\ \A g \in Parties : v.invited[g] \subseteq w.invited[g] /\ v.users[g] \subseteq w.users[g]
  /\ \A p \in Players : v.asked[p] \subseteq w.asked[p] /\ v.party[p] \in {w.party[p], None}

LEMMA DisbandFewer ==
  ASSUME NEW w \in Groups, NEW g \in Parties
  PROVE  /\ Fewer(w, Disband(w, g))
         /\ \A p \in Players : w.party[p] = None => Disband(w, g).party[p] = None
<1> DEFINE v == Disband(w, g)
<1>1. /\ v \in Groups
      /\ \A p \in Players :
           /\ v.party[p] = IF p \in Dismissed(w, g) THEN None ELSE w.party[p]
           /\ v.asked[p] = IF p \in w.invited[g] THEN w.asked[p] \ {g} ELSE w.asked[p]
      /\ v.leader = [w.leader EXCEPT ![g] = None]
      /\ v.members = [w.members EXCEPT ![g] = <<>>]
      /\ v.invited = [w.invited EXCEPT ![g] = {}]
      /\ v.users = [w.users EXCEPT ![g] = w.users[g] \ Closed(w, g)]
  BY DisbandIs
<1> HIDE DEF v
<1>2. \A h \in Parties : v.invited[h] \subseteq w.invited[h] /\ v.users[h] \subseteq w.users[h]
  BY <1>1, GroupFields
<1> QED BY <1>1, <1>2 DEF Fewer, v

LEMMA GoneFewer ==
  ASSUME NEW u \in Groups, NEW v, NEW g \in Parties, NEW p \in Players, Gone(u, v, g, p)
  PROVE  Fewer(u, v)
<1>1. \A h \in Parties : v.invited[h] \subseteq u.invited[h] /\ v.users[h] = u.users[h]
  BY GroupFields DEF Gone
<1>2. \A q \in Players : v.party[q] \in {u.party[q], None} /\ v.asked[q] = u.asked[q]
  BY GroupFields DEF Gone
<1> QED BY <1>1, <1>2 DEF Fewer

\* p leaves: what led is before that, and what it leaves.
LEMMA LeaveFrom ==
  ASSUME NEW u, NEW g \in Parties, NEW p \in Players, NEW x, NEW own, NEW st,
         Sound(u, x, own, st), u.party[p] = g, NEW missing \in BOOLEAN,
         missing \/ u.leader[g] # p
  PROVE  LET left == LeftWorld(u, g, p)
             v == IF missing \/ CanDisband(left, g) THEN Disband(left, g) ELSE left
         IN  /\ Sound(v, x, own, st \cup {<<p, g>>})
             /\ v.party[p] = None /\ Fewer(u, v)
<1> DEFINE left == LeftWorld(u, g, p)
           fallen == Disband(left, g)
           added == st \cup {<<p, g>>}
<1>1. u \in Groups /\ Orderly(u, g)
  BY DEF Sound
<1>2. Gone(u, left, g, p)
  BY <1>1, LeftIs
<1> HIDE DEF left
<1>3. left \in Groups /\ left.party[p] = None /\ Fewer(u, left)
  <2>1. Fewer(u, left)
    BY <1>1, <1>2, GoneFewer
  <2> QED BY <1>1, <1>2, <2>1, GroupFields DEF Gone
<1>4. /\ Falling(left, g, x, own, added)
      /\ u.leader[g] # p /\ ~CanDisband(left, g) => Sound(left, x, own, added)
  BY <1>2, GoneFalls
<1>5. Sound(fallen, x, own, added) /\ fallen.party[p] = None /\ Fewer(left, fallen)
  <2>1. Sound(fallen, x, own, added)
    BY <1>4, DisbandSound
  <2>2. /\ Fewer(left, fallen)
        /\ \A q \in Players : left.party[q] = None => fallen.party[q] = None
    BY <1>3, DisbandFewer
  <2> HIDE DEF fallen
  <2> QED BY <1>3, <2>1, <2>2
<1> HIDE DEF fallen, added
<1>6. Fewer(u, fallen)
  BY <1>3, <1>5 DEF Fewer
<1> QED BY <1>3, <1>4, <1>5, <1>6 DEF left, fallen, added

LEMMA LeaveSound ==
  ASSUME NEW w, NEW p \in Players, NEW x, NEW own, NEW st,
         Sound(w, x, own, st), w.party[p] # None
  PROVE  /\ Sound(Leave(w, p), x, own, st \cup {<<p, w.party[p]>>})
         /\ Leave(w, p).party[p] = None /\ Fewer(w, Leave(w, p))
<1> DEFINE g == w.party[p]
           missing == MissingLeader(w, g, p)
           led == IF w.leader[g] = p /\ ~missing THEN PassLeadership(w, g, Successor(w, g))
                                                 ELSE w
           left == LeftWorld(led, g, p)
<1>1. Leave(w, p) = IF missing \/ CanDisband(left, g) THEN Disband(left, g) ELSE left
  BY DEF Leave, LeftWorld
<1>2. w \in Groups /\ g \in Parties /\ missing \in BOOLEAN
  BY GroupFields DEF Sound, MissingLeader
<1>3. /\ Sound(led, x, own, st) /\ led.party[p] = g /\ Fewer(w, led)
      /\ missing \/ led.leader[g] # p
  <2>1. CASE w.leader[g] = p /\ ~missing
    <3> DEFINE q == Successor(w, g)
    <3>1. w.members[g] # <<>> /\ w.members[g] \in Seq(Players)
      BY <1>2, <2>1, GroupFields DEF MissingLeader
    <3>2. q \in Players /\ IsMember(w, g, q)
      BY <3>1 DEF Successor, IsMember
    <3>3. Mirrored(w, g) /\ Orderly(w, g)
      BY <1>2 DEF Sound
    <3> HIDE DEF q, g
    <3>4. q # p
      BY <2>1, <3>2, <3>3 DEF Mirrored
    <3>5. Passed(w, PassLeadership(w, g, q), g, q)
      BY <1>2, <3>2, <3>3, PassIs
    <3> DEFINE u == PassLeadership(w, g, q)
    <3>6. Sound(u, x, own, st)
      BY <1>2, <3>2, PassSound
    <3> HIDE DEF u
    <3>7. u.party = w.party /\ u.leader[g] = q /\ Fewer(w, u)
      BY <1>2, <3>5, GroupFields DEF Passed, Fewer, u
    <3>8. led = u
      BY <2>1 DEF u, q, g
    <3> QED BY <3>4, <3>6, <3>7, <3>8 DEF g
  <2>2. CASE ~(w.leader[g] = p /\ ~missing)
    BY <2>2 DEF Fewer
  <2> QED BY <2>1, <2>2
<1> DEFINE v == IF missing \/ CanDisband(left, g) THEN Disband(left, g) ELSE left
<1> HIDE DEF g, missing, led
<1>4. Sound(v, x, own, st \cup {<<p, g>>}) /\ v.party[p] = None /\ Fewer(led, v)
  BY <1>2, <1>3, LeaveFrom
<1> HIDE DEF v
<1>5. Fewer(w, v)
  BY <1>3, <1>4 DEF Fewer
<1>6. Leave(w, p) = v
  BY <1>1 DEF v
<1> QED BY <1>4, <1>5, <1>6 DEF g

-----------------------------------------------------------------------------
(* Joining and invitations *)

LEMMA JoinedSound ==
  ASSUME NEW w, NEW g \in Parties, NEW p \in Players, NEW x, NEW own, NEW st,
         Sound(w, x, own, st), p \in w.invited[g], w.party[p] = None, p \in online
  PROVE  Sound(Joined(w, g, p), x, own, st)
<1> DEFINE m == Append(w.members[g], p)
           v == Joined(w, g, p)
           T == Seq(Players)
<1>1. /\ w \in Groups /\ \A h \in Parties : Mirrored(w, h) /\ Orderly(w, h) /\ Needed(w, h)
      /\ Invitations(w, x, own) /\ SelfInvited(w, own) /\ Heard(w, st) /\ Inside(w)
      /\ None \notin Players \cup Parties
  BY PartyAssumption DEF Sound
<1>2. w.members[g] \in T /\ Distinct(w.members[g]) /\ ~IsMember(w, g, p)
  BY <1>1, GroupFields DEF Orderly, Mirrored
<1>3. /\ m \in T /\ Distinct(m) /\ m # <<>>
      /\ \A q : Occurs(m, q) <=> IsMember(w, g, q) \/ q = p
  <2> DEFINE s == w.members[g]
  <2>1. \A q : IsMember(w, g, q) <=> Occurs(s, q)
    BY DEF IsMember, Occurs
  <2>2. s \in Seq(Players) /\ Distinct(s) /\ ~Occurs(s, p)
    BY <1>2, <2>1
  <2> HIDE DEF s
  <2>3. /\ Append(s, p) \in Seq(Players) /\ Distinct(Append(s, p)) /\ Append(s, p) # <<>>
        /\ \A q : Occurs(Append(s, p), q) <=> Occurs(s, q) \/ q = p
    BY <2>2, MembersAppended
  <2> QED BY <2>1, <2>3 DEF s
<1>4. v = [w EXCEPT !.members[g] = m, !.party[p] = g, !.asked[p] = @ \ {g},
                    !.invited[g] = @ \ {p}]
  BY DEF Joined
<1> HIDE DEF m, v, T
<1>5. /\ v.leader = w.leader /\ v.users = w.users
      /\ v.asked = [w.asked EXCEPT ![p] = w.asked[p] \ {g}]
  BY <1>4 DEF Groups
<1>6. v.party = [w.party EXCEPT ![p] = g]
  BY <1>4 DEF Groups
<1>7. v.members = [w.members EXCEPT ![g] = m]
  BY <1>4 DEF Groups
<1>8. v.invited = [w.invited EXCEPT ![g] = w.invited[g] \ {p}]
  BY <1>4 DEF Groups
<1>9. v \in Groups
  BY <1>1, <1>3, <1>4 DEF Groups, T
<1>10. /\ v.party[p] = g /\ \A q \in Players \ {p} : v.party[q] = w.party[q]
       /\ v.asked[p] = w.asked[p] \ {g} /\ \A q \in Players \ {p} : v.asked[q] = w.asked[q]
       /\ v.members[g] = m /\ v.invited[g] = w.invited[g] \ {p}
       /\ \A h \in Parties \ {g} : v.members[h] = w.members[h] /\ v.invited[h] = w.invited[h]
  BY <1>1, <1>5, <1>6, <1>7, <1>8, GroupFields
<1>11. \A q : IsMember(v, g, q) <=> IsMember(w, g, q) \/ q = p
  <2>1. \A q : IsMember(v, g, q) <=> Occurs(m, q)
    BY <1>10 DEF IsMember, Occurs
  <2> QED BY <1>3, <2>1
<1>12. w.leader[g] # None /\ w.leader[g] # p
  BY <1>1 DEF Orderly, Mirrored
<1>13. ASSUME NEW h \in Parties PROVE Mirrored(v, h) /\ Orderly(v, h) /\ Needed(v, h)
  <2>1. CASE h = g
    <3>1. Mirrored(w, g)
      BY <1>1
    <3>2. Mirrored(v, g)
      BY <1>5, <1>10, <1>11, <1>12, <3>1 DEF Mirrored
    <3> QED BY <1>3, <1>5, <1>10, <1>12, <2>1, <3>2 DEF Orderly, Needed
  <2>2. CASE h # g
    BY <1>1, <1>5, <1>10, <2>2 DEF Mirrored, Orderly, Needed, IsMember
  <2> QED BY <2>1, <2>2
<1>14. Invitations(v, x, own) /\ SelfInvited(v, own)
  BY <1>1, <1>10 DEF Invitations, SelfInvited
<1>15. Heard(v, st)
  <2> SUFFICES ASSUME NEW h \in Parties, NEW q \in v.users[h], <<q, h>> \notin st
               PROVE  v.party[q] = h /\ q \in linked
    BY DEF Heard
  <2>1. q \in Players /\ q \in w.users[h]
    BY <1>1, <1>5, GroupFields
  <2>2. w.party[q] = h /\ q \in linked
    BY <1>1, <2>1 DEF Heard
  <2> QED BY <1>1, <1>10, <2>1, <2>2
<1>16. Inside(v)
  BY <1>1, <1>5, <1>10 DEF Inside
<1> QED BY <1>9, <1>13, <1>14, <1>15, <1>16 DEF Sound, v

UnaskedWorld(w, g, p) == [w EXCEPT !.invited[g] = @ \ {p}, !.asked[p] = @ \ {g}]

LEMMA UnaskedIs ==
  ASSUME NEW w \in Groups, NEW g \in Parties, NEW p \in Players
  PROVE  LET v == UnaskedWorld(w, g, p)
         IN  /\ v \in Groups
             /\ v.party = w.party /\ v.leader = w.leader
             /\ v.members = w.members /\ v.users = w.users
             /\ v.asked[p] = w.asked[p] \ {g} /\ v.invited[g] = w.invited[g] \ {p}
             /\ \A q \in Players \ {p} : v.asked[q] = w.asked[q]
             /\ \A h \in Parties \ {g} : v.invited[h] = w.invited[h]
<1> DEFINE v == UnaskedWorld(w, g, p)
<1>1. /\ v.party = w.party /\ v.leader = w.leader
      /\ v.members = w.members /\ v.users = w.users
  BY DEF Groups, UnaskedWorld
<1>2. v.asked = [w.asked EXCEPT ![p] = w.asked[p] \ {g}]
  BY DEF Groups, UnaskedWorld
<1>3. v.invited = [w.invited EXCEPT ![g] = w.invited[g] \ {p}]
  BY DEF Groups, UnaskedWorld
<1>4. v \in Groups
  BY DEF Groups, UnaskedWorld
<1> HIDE DEF v
<1>5. /\ v.asked[p] = w.asked[p] \ {g} /\ v.invited[g] = w.invited[g] \ {p}
      /\ \A q \in Players \ {p} : v.asked[q] = w.asked[q]
      /\ \A h \in Parties \ {g} : v.invited[h] = w.invited[h]
  BY <1>2, <1>3, GroupFields
<1> QED BY <1>1, <1>4, <1>5 DEF v

LEMMA RemoveInviteSound ==
  ASSUME NEW w, NEW g \in Parties, NEW p \in Players, NEW x, NEW own, NEW st,
         Sound(w, x, own, st)
  PROVE  /\ Sound(RemoveInvite(w, g, p), x, own, st) /\ Fewer(w, RemoveInvite(w, g, p))
         /\ p \notin RemoveInvite(w, g, p).invited[g]
<1> DEFINE v == UnaskedWorld(w, g, p)
           fallen == Disband(v, g)
           r == RemoveInvite(w, g, p)
<1>1. r = IF p \notin w.invited[g] THEN w ELSE IF CanDisband(v, g) THEN fallen ELSE v
  BY DEF RemoveInvite, UnaskedWorld
<1> HIDE DEF r
<1>2. /\ w \in Groups /\ \A h \in Parties : Mirrored(w, h) /\ Orderly(w, h) /\ Needed(w, h)
      /\ Invitations(w, x, own) /\ SelfInvited(w, own) /\ Heard(w, st) /\ Inside(w)
      /\ None \notin Players \cup Parties
  BY PartyAssumption DEF Sound
<1>3. CASE p \notin w.invited[g]
  BY <1>1, <1>3 DEF r, Fewer
<1>4. CASE p \in w.invited[g]
  <2>1. /\ v \in Groups
        /\ v.party = w.party /\ v.leader = w.leader
        /\ v.members = w.members /\ v.users = w.users
        /\ v.asked[p] = w.asked[p] \ {g} /\ v.invited[g] = w.invited[g] \ {p}
        /\ \A q \in Players \ {p} : v.asked[q] = w.asked[q]
        /\ \A h \in Parties \ {g} : v.invited[h] = w.invited[h]
    BY <1>2, UnaskedIs
  <2> HIDE DEF v
  <2>2. w.leader[g] # None
    BY <1>2, <1>4 DEF Orderly
  <2>3. ASSUME NEW h \in Parties PROVE Mirrored(v, h) /\ Orderly(v, h)
    BY <1>2, <2>1, <2>2 DEF Mirrored, Orderly, IsMember
  <2>4. ASSUME NEW h \in Parties \ {g} PROVE Needed(v, h)
    BY <1>2, <2>1 DEF Needed
  <2>5. Invitations(v, x, own) /\ SelfInvited(v, own) /\ Heard(v, st) /\ Inside(v)
    BY <1>2, <2>1 DEF Invitations, SelfInvited, Heard, Inside
  <2>6. \A q \in Players : /\ v.party[q] = g => q \in Dismissed(v, g)
                           /\ q \in Dismissed(v, g) => v.party[q] \in {g, None}
    BY <2>3 DEF Mirrored, Dismissed
  <2>7. Falling(v, g, x, own, st)
    BY <2>1, <2>3, <2>4, <2>5, <2>6 DEF Falling
  <2>8. Fewer(w, v)
    BY <2>1 DEF Fewer
  <2>9. Sound(fallen, x, own, st) /\ Fewer(v, fallen)
    BY <2>1, <2>7, DisbandSound, DisbandFewer
  <2>10. ~CanDisband(v, g) => Sound(v, x, own, st)
    BY <2>1, <2>3, <2>4, <2>5 DEF Sound, Needed, CanDisband
  <2> HIDE DEF fallen
  <2>11. Fewer(w, fallen) /\ p \notin v.invited[g] /\ p \notin fallen.invited[g]
    BY <2>1, <2>8, <2>9 DEF Fewer
  <2> QED BY <1>1, <1>4, <2>8, <2>9, <2>10, <2>11 DEF r
<1> QED BY <1>3, <1>4

\* The party g of w has the same leader and members in v, who all are in it; or
\* it had no members, and has been deleted.
Steady(w, v, g) ==
  /\ v.leader[g] = w.leader[g] /\ v.members[g] = w.members[g]
  /\ \A q \in Players : w.party[q] = g => v.party[q] = g
Ended(w, v, g) == w.members[g] = <<>> /\ v.members[g] = <<>> /\ v.leader[g] = None
Spared(w, v) == \A g \in Parties : Steady(w, v, g) \/ Ended(w, v, g)

LEMMA SparedTwice ==
  ASSUME NEW w, NEW v, NEW r, Spared(w, v), Spared(v, r),
         \A g \in Parties : v.leader[g] = None => v.members[g] = <<>>
  PROVE  Spared(w, r)
BY DEF Spared, Steady, Ended

LEMMA RemoveInviteSpares ==
  ASSUME NEW w, NEW g \in Parties, NEW p \in Players, NEW x, NEW own, NEW st,
         Sound(w, x, own, st)
  PROVE  Spared(w, RemoveInvite(w, g, p))
<1> DEFINE v == UnaskedWorld(w, g, p)
           fallen == Disband(v, g)
           r == RemoveInvite(w, g, p)
<1>1. r = IF p \notin w.invited[g] THEN w ELSE IF CanDisband(v, g) THEN fallen ELSE v
  BY DEF RemoveInvite, UnaskedWorld
<1> HIDE DEF r
<1>2. w \in Groups /\ Mirrored(w, g) /\ None \notin Players \cup Parties
  BY PartyAssumption DEF Sound
<1>3. v \in Groups /\ v.party = w.party /\ v.leader = w.leader /\ v.members = w.members
  BY <1>2, UnaskedIs
<1> HIDE DEF v
<1>4. CASE p \notin w.invited[g] \/ ~CanDisband(v, g)
  BY <1>1, <1>3, <1>4 DEF Spared, Steady, r
<1>5. CASE p \in w.invited[g] /\ CanDisband(v, g)
  <2>1. /\ fallen \in Groups
        /\ \A q \in Players :
             /\ fallen.party[q] = IF q \in Dismissed(v, g) THEN None ELSE v.party[q]
             /\ fallen.asked[q] = IF q \in v.invited[g] THEN v.asked[q] \ {g} ELSE v.asked[q]
        /\ fallen.leader = [v.leader EXCEPT ![g] = None]
        /\ fallen.members = [v.members EXCEPT ![g] = <<>>]
        /\ fallen.invited = [v.invited EXCEPT ![g] = {}]
        /\ fallen.users = [v.users EXCEPT ![g] = v.users[g] \ Closed(v, g)]
    BY <1>3, DisbandIs
  <2> HIDE DEF fallen
  <2>2. Ended(w, fallen, g)
    BY <1>3, <1>5, <2>1, GroupFields DEF Ended, CanDisband
  <2>3. ASSUME NEW q \in Players, q \in Dismissed(v, g) PROVE w.party[q] = g
    BY <1>2, <1>3, <1>5, <2>3 DEF Dismissed, Mirrored, CanDisband, IsMember
  <2>4. ASSUME NEW h \in Parties \ {g} PROVE Steady(w, fallen, h)
    <3>1. fallen.leader[h] = w.leader[h] /\ fallen.members[h] = w.members[h]
      BY <1>3, <2>1, GroupFields
    <3>2. ASSUME NEW q \in Players, w.party[q] = h PROVE fallen.party[q] = h
      BY <1>3, <2>1, <2>3, <3>2
    <3> QED BY <3>1, <3>2 DEF Steady
  <2> QED BY <1>1, <1>5, <2>2, <2>4 DEF Spared, r
<1> QED BY <1>4, <1>5

-----------------------------------------------------------------------------
(* Clearing all invitations of a player *)

UnaskedAll(w, p) == [w EXCEPT !.asked[p] = {}]

\* The loop of clearPartyInvitations, over the parties of any set of D.
ClearRec(w, p, D, f) ==
  f = [S \in D |-> IF S = {} THEN UnaskedAll(w, p)
                             ELSE RemoveInvite(f[S \ {First(S)}], First(S), p)]

LEMMA ClearRecExists ==
  ASSUME NEW A, IsFiniteSet(A), NEW w, NEW p
  PROVE  \E f : ClearRec(w, p, SUBSET A, f)
<1> DEFINE D(n) == {s \in SUBSET A : Cardinality(s) <= n}
           N == {n \in Nat : \E f : ClearRec(w, p, D(n), f)}
           Next0(f, s) == RemoveInvite(f[s \ {First(s)}], First(s), p)
<1>1. \A n \in Nat : \A s \in D(n + 1) : s # {} => s \ {First(s)} \in D(n)
  BY FirstOf
<1>2. ASSUME NEW n \in Nat, NEW s \in D(n) PROVE s \in D(n + 1)
  <2>1. Cardinality(s) <= n /\ Cardinality(s) \in Nat /\ s \in SUBSET A
    BY FirstOf
  <2>2. Cardinality(s) <= n + 1
    BY <2>1
  <2> QED BY <2>1, <2>2
<1>3. 0 \in N
  <2>1. ASSUME NEW s \in D(0) PROVE s = {}
    <3>1. Cardinality(s) <= 0 /\ Cardinality(s) \in Nat /\ s \in SUBSET A
      BY FirstOf
    <3>2. Cardinality(s) = 0
      BY <3>1
    <3> QED BY <3>1, <3>2, FirstOf
  <2> DEFINE f == [s \in D(0) |-> UnaskedAll(w, p)]
  <2>2. f = [s \in D(0) |-> IF s = {} THEN UnaskedAll(w, p) ELSE Next0(f, s)]
    BY <2>1
  <2>3. ClearRec(w, p, D(0), f)
    <3> HIDE DEF f, D
    <3> QED BY <2>2 DEF ClearRec
  <2> QED BY <2>3
<1>4. ASSUME NEW n \in N PROVE n + 1 \in N
  <2>1. PICK f : ClearRec(w, p, D(n), f)
    OBVIOUS
  <2> DEFINE h == [s \in D(n + 1) |-> IF s = {} THEN UnaskedAll(w, p) ELSE Next0(f, s)]
  <2>2. \A s \in D(n) : h[s] = f[s]
    <3>1. \A s \in D(n) : h[s] = IF s = {} THEN UnaskedAll(w, p) ELSE Next0(f, s)
      BY <1>2
    <3>2. \A s \in D(n) : f[s] = IF s = {} THEN UnaskedAll(w, p) ELSE Next0(f, s)
      BY <2>1 DEF ClearRec
    <3> QED BY <3>1, <3>2
  <2>3. \A s \in D(n + 1) : s # {} => h[s \ {First(s)}] = f[s \ {First(s)}]
    BY <1>1, <2>2
  <2>4. ClearRec(w, p, D(n + 1), h)
    <3> HIDE DEF D
    <3> QED BY <2>3 DEF ClearRec
  <2>5. n + 1 \in Nat
    OBVIOUS
  <2> HIDE DEF h, D
  <2> QED BY <2>4, <2>5
<1>5. N = Nat
  <2> HIDE DEF D
  <2> QED BY <1>3, <1>4, SetOfNaturals
<1>6. Cardinality(A) \in Nat /\ D(Cardinality(A)) = SUBSET A
  BY FS_CardinalityType, FS_Subset
<1>7. PICK f : ClearRec(w, p, D(Cardinality(A)), f)
  <2> HIDE DEF D
  <2> QED BY <1>5, <1>6
<1> QED BY <1>6, <1>7

LEMMA ClearedBy ==
  ASSUME NEW w, NEW p, IsFiniteSet(w.asked[p])
  PROVE  \E f : /\ ClearRec(w, p, SUBSET w.asked[p], f)
                /\ InvitationsCleared(w, p) = f[w.asked[p]]
<1> DEFINE A == w.asked[p]
           f == CHOOSE f : ClearRec(w, p, SUBSET A, f)
<1>1. ClearRec(w, p, SUBSET A, f)
  BY ClearRecExists
<1>2. InvitationsCleared(w, p) = f[A]
  BY DEF InvitationsCleared, ClearRec, UnaskedAll, First
<1> QED BY <1>1, <1>2

LEMMA UnaskedAllSound ==
  ASSUME NEW w, NEW p \in Players, NEW own, NEW st, Sound(w, None, own, st)
  PROVE  /\ Sound(UnaskedAll(w, p), p, own, st) /\ Fewer(w, UnaskedAll(w, p))
         /\ UnaskedAll(w, p).asked[p] = {}
<1> DEFINE v == UnaskedAll(w, p)
<1>1. /\ w \in Groups /\ \A h \in Parties : Mirrored(w, h) /\ Orderly(w, h) /\ Needed(w, h)
      /\ Invitations(w, None, own) /\ SelfInvited(w, own) /\ Heard(w, st) /\ Inside(w)
      /\ None \notin Players \cup Parties
  BY PartyAssumption DEF Sound
<1>2. /\ v.party = w.party /\ v.leader = w.leader /\ v.invited = w.invited
      /\ v.members = w.members /\ v.users = w.users
  BY <1>1 DEF Groups, UnaskedAll
<1>3. v.asked = [w.asked EXCEPT ![p] = {}]
  BY <1>1 DEF Groups, UnaskedAll
<1>4. v \in Groups
  BY <1>1 DEF Groups, UnaskedAll
<1> HIDE DEF v
<1>5. v.asked[p] = {} /\ \A q \in Players \ {p} : v.asked[q] = w.asked[q]
  BY <1>1, <1>3, GroupFields
<1>6. Invitations(v, p, own)
  BY <1>1, <1>2, <1>5 DEF Invitations
<1>7. \A h \in Parties : Mirrored(v, h) /\ Orderly(v, h) /\ Needed(v, h)
  BY <1>1, <1>2 DEF Mirrored, Orderly, Needed, IsMember
<1>8. SelfInvited(v, own) /\ Heard(v, st) /\ Inside(v)
  BY <1>1, <1>2 DEF SelfInvited, Heard, Inside
<1>9. Fewer(w, v)
  BY <1>2, <1>5 DEF Fewer
<1> QED BY <1>4, <1>5, <1>6, <1>7, <1>8, <1>9 DEF Sound, v

\* The parties of S have forgotten p, whose own list is empty.
ClearedOf(w, v, p, S, own, st) ==
  /\ Sound(v, p, own, st) /\ Fewer(w, v)
  /\ v.asked[p] = {} /\ \A g \in S : p \notin v.invited[g]
  /\ Spared(w, v)

LEMMA ClearedStep ==
  ASSUME NEW w, NEW v, NEW p \in Players, NEW S \in SUBSET Parties, NEW own, NEW st,
         NEW g \in Parties,
         ClearedOf(w, v, p, S, own, st)
  PROVE  ClearedOf(w, RemoveInvite(v, g, p), p, S \cup {g}, own, st)
<1> DEFINE r == RemoveInvite(v, g, p)
<1>1. Sound(r, p, own, st) /\ Fewer(v, r) /\ p \notin r.invited[g]
  BY RemoveInviteSound DEF ClearedOf
<1>2. Spared(v, r) /\ \A h \in Parties : v.leader[h] = None => v.members[h] = <<>>
  BY RemoveInviteSpares DEF ClearedOf, Sound, Orderly
<1> HIDE DEF r
<1>3. Fewer(w, r)
  BY <1>1 DEF ClearedOf, Fewer
<1>4. r.asked[p] = {}
  BY <1>1 DEF ClearedOf, Fewer
<1>5. \A h \in S \cup {g} : p \notin r.invited[h]
  BY <1>1 DEF ClearedOf, Fewer
<1>6. Spared(w, r)
  BY <1>2, SparedTwice DEF ClearedOf
<1> QED BY <1>1, <1>3, <1>4, <1>5, <1>6 DEF ClearedOf, r

LEMMA ClearedSound ==
  ASSUME NEW w, NEW p \in Players, NEW own, NEW st, Sound(w, None, own, st)
  PROVE  LET v == InvitationsCleared(w, p)
         IN  /\ Sound(v, None, own, st) /\ Fewer(w, v)
             /\ v.asked[p] = {} /\ \A g \in Parties : p \notin v.invited[g]
             /\ Spared(w, v)
<1> DEFINE A == w.asked[p]
<1>1. w \in Groups /\ A \subseteq Parties /\ IsFiniteSet(A)
  BY GroupFields, PartyAssumption, FS_Subset DEF Sound
<1>2. PICK f : ClearRec(w, p, SUBSET A, f) /\ InvitationsCleared(w, p) = f[A]
  BY <1>1, ClearedBy
<1>3. \A S \in SUBSET A : f[S] = IF S = {} THEN UnaskedAll(w, p)
                                           ELSE RemoveInvite(f[S \ {First(S)}], First(S), p)
  BY <1>2 DEF ClearRec
<1> HIDE DEF A
<1> DEFINE N == {n \in Nat : \A S \in SUBSET A :
                   Cardinality(S) = n => ClearedOf(w, f[S], p, S, own, st)}
<1>4. ClearedOf(w, f[{}], p, {}, own, st)
  <2>1. Spared(w, UnaskedAll(w, p))
    BY <1>1 DEF UnaskedAll, Spared, Steady, Groups
  <2> QED BY <1>3, <2>1, UnaskedAllSound DEF ClearedOf
<1>5. 0 \in N
  <2> SUFFICES ASSUME NEW S \in SUBSET A, Cardinality(S) = 0
               PROVE  ClearedOf(w, f[S], p, S, own, st)
    OBVIOUS
  <2>1. S = {}
    BY <1>1, FirstOf
  <2> QED BY <1>4, <2>1
<1>6. ASSUME NEW n \in N PROVE n + 1 \in N
  <2>1. n \in Nat /\ \A S \in SUBSET A :
                       Cardinality(S) = n => ClearedOf(w, f[S], p, S, own, st)
    OBVIOUS
  <2> SUFFICES ASSUME NEW S \in SUBSET A, Cardinality(S) = n + 1
               PROVE  ClearedOf(w, f[S], p, S, own, st)
    BY <2>1
  <2> HIDE DEF N
  <2> DEFINE g == First(S)
             T == S \ {g}
  <2>2. S # {} /\ g \in S /\ Cardinality(T) = n /\ T \in SUBSET A
    <3>1. /\ Cardinality(S) \in Nat /\ (S = {} <=> Cardinality(S) = 0)
          /\ S # {} => g \in S /\ Cardinality(T) = Cardinality(S) - 1
      BY <1>1, FirstOf
    <3> HIDE DEF g, T
    <3>2. S # {}
      BY <2>1, <3>1
    <3>3. Cardinality(T) = n
      BY <2>1, <3>1, <3>2
    <3> QED BY <3>1, <3>2, <3>3 DEF T
  <2>3. f[S] = RemoveInvite(f[T], g, p)
    BY <1>3, <2>2
  <2>4. S = T \cup {g} /\ g \in Parties /\ T \in SUBSET Parties
    BY <1>1, <2>2
  <2> HIDE DEF g, T
  <2>5. ClearedOf(w, f[T], p, T, own, st)
    BY <2>1, <2>2
  <2>6. ClearedOf(w, RemoveInvite(f[T], g, p), p, T \cup {g}, own, st)
    BY <2>4, <2>5, ClearedStep
  <2> QED BY <2>3, <2>4, <2>6
<1>7. N = Nat
  BY <1>5, <1>6, SetOfNaturals
<1> DEFINE v == f[A]
<1>8. ClearedOf(w, v, p, A, own, st)
  <2>1. Cardinality(A) \in N
    BY <1>1, <1>7, FS_CardinalityType
  <2> QED BY <2>1
<1> HIDE DEF v, N
<1>9. \A g \in Parties : p \notin v.invited[g]
  <2>1. \A g \in Parties : p \in w.invited[g] => g \in A
    BY PartyAssumption DEF Sound, Invitations, A
  <2> QED BY <1>8, <2>1 DEF ClearedOf, Fewer
<1>10. Invitations(v, None, own)
  BY <1>8, <1>9 DEF ClearedOf, Sound, Invitations
<1>11. Sound(v, None, own, st)
  BY <1>8, <1>10 DEF ClearedOf, Sound
<1> QED BY <1>2, <1>8, <1>9, <1>11 DEF ClearedOf, v

-----------------------------------------------------------------------------
(* Going away *)

LEMMA GoAwaySound ==
  ASSUME NEW w, NEW p \in Players, NEW own, NEW st, NEW added,
         Sound(w, None, own, st), \A g \in Parties : w.party[p] = g => <<p, g>> \in added
  PROVE  LET v == GoAway(w, p)
         IN  /\ Sound(v, None, own, st \cup added) /\ Fewer(w, v)
             /\ v.party[p] = None /\ v.asked[p] = {}
             /\ \A g \in Parties : p \notin v.invited[g]
<1> DEFINE u == InvitationsCleared(w, p)
           v == GoAway(w, p)
<1>1. /\ Sound(u, None, own, st) /\ Fewer(w, u)
      /\ u.asked[p] = {} /\ \A g \in Parties : p \notin u.invited[g]
  BY ClearedSound
<1>2. v = IF u.party[p] = None THEN u ELSE Leave(u, p)
  BY DEF GoAway, LeaveIfIn
<1> HIDE DEF u, v
<1>3. CASE u.party[p] = None
  <2>1. Sound(u, None, own, st \cup added)
    BY <1>1 DEF Sound, Heard
  <2> QED BY <1>1, <1>2, <1>3, <2>1 DEF v
<1>4. CASE u.party[p] # None
  <2> DEFINE g == u.party[p]
             t == st \cup {<<p, g>>}
  <2>1. Sound(v, None, own, t) /\ v.party[p] = None /\ Fewer(u, v)
    BY <1>1, <1>2, <1>4, LeaveSound
  <2>2. g \in Parties /\ g = w.party[p]
    BY <1>1, <1>4, GroupFields DEF Sound, Fewer
  <2>3. t \subseteq st \cup added
    BY <2>2
  <2> HIDE DEF g, t
  <2>4. Sound(v, None, own, st \cup added)
    BY <2>1, <2>3 DEF Sound, Heard
  <2>5. /\ Fewer(w, v) /\ v.asked[p] = {} /\ \A h \in Parties : p \notin v.invited[h]
    BY <1>1, <2>1 DEF Fewer
  <2> QED BY <2>1, <2>4, <2>5 DEF v
<1> QED BY <1>3, <1>4

LEMMA OffChannelsIs ==
  ASSUME NEW w \in Groups, NEW p \in Players
  PROVE  LET v == OffAllChannels(w, p)
         IN  /\ v \in Groups /\ v.party = w.party /\ v.asked = w.asked
             /\ v.leader = w.leader /\ v.members = w.members /\ v.invited = w.invited
             /\ \A g \in Parties : v.users[g] = w.users[g] \ {p}
<1> DEFINE u == [g \in Parties |-> w.users[g] \ {p}]
           v == OffAllChannels(w, p)
           T == Seq(Players)
<1>1. u \in [Parties -> SUBSET Players] /\ \A g \in Parties : u[g] = w.users[g] \ {p}
  BY GroupFields
<1>2. v = [w EXCEPT !.users = u]
  BY DEF OffAllChannels, Groups
<1> HIDE DEF u, v, T
<1>3. /\ v.party = w.party /\ v.asked = w.asked /\ v.users = u
      /\ v.leader = w.leader /\ v.members = w.members /\ v.invited = w.invited
  BY <1>2 DEF Groups
<1>4. v \in Groups
  BY <1>1, <1>2 DEF Groups, T
<1> QED BY <1>1, <1>3, <1>4 DEF v

LEMMA OffChannelsSound ==
  ASSUME NEW w, NEW p \in Players, NEW own, NEW st, Sound(w, None, own, st)
  PROVE  Sound(OffAllChannels(w, p), None, own, st)
<1> DEFINE v == OffAllChannels(w, p)
<1>1. w \in Groups
  BY DEF Sound
<1>2. /\ v \in Groups /\ v.party = w.party /\ v.asked = w.asked
      /\ v.leader = w.leader /\ v.members = w.members /\ v.invited = w.invited
      /\ \A g \in Parties : v.users[g] = w.users[g] \ {p}
  BY <1>1, OffChannelsIs
<1> HIDE DEF v
<1>3. Sound(v, None, own, st)
  BY <1>2 DEF Sound, Mirrored, Orderly, Needed, Invitations, SelfInvited, Heard, Inside, IsMember
<1> QED BY <1>3 DEF v

-----------------------------------------------------------------------------
(* The handlers *)

SoundNow == Sound(group, None, ownInvites, strays)

\* What is over with may be forgotten.
LEMMA BecomesSound ==
  ASSUME NEW w, NEW added, NEW own, Becomes(w, added, own),
         Sound(w, None, ownInvites \cup own, strays \cup added), UNCHANGED <<online, linked>>
  PROVE  SoundNow'
<1>1. /\ group' = w
      /\ strays' = {s \in strays \cup added : s[1] \in w.users[s[2]]}
      /\ ownInvites' = {s \in ownInvites \cup own : s[2] \in w.asked[s[1]]}
      /\ online' = online /\ linked' = linked /\ None \notin Players
  BY PartyAssumption DEF Becomes
<1>2. \A p, g : /\ <<p, g>> \in strays \cup added /\ p \in w.users[g] => <<p, g>> \in strays'
                /\ <<p, g>> \in ownInvites \cup own /\ g \in w.asked[p]
                     => <<p, g>> \in ownInvites'
  BY <1>1
<1>3. Invitations(w, None, ownInvites') /\ SelfInvited(w, ownInvites')
  BY <1>1, <1>2 DEF Sound, Invitations, SelfInvited
<1>4. Heard(w, strays')
  BY <1>2 DEF Sound, Heard
<1>5. Sound(w, None, ownInvites', strays')
  BY <1>3, <1>4 DEF Sound
<1> QED BY <1>1, <1>5
       DEF SoundNow, Sound, Heard, Inside, Mirrored, Orderly, Needed, Invitations, SelfInvited,
           IsMember

\* The pointers after p has invited q to g.
Invited(w, p, q, g) ==
  [w EXCEPT !.party[p] = g, !.leader[g] = p,
            !.invited[g] = @ \cup {q}, !.asked[q] = @ \cup {g}]

LEMMA InvitedIs ==
  ASSUME NEW w \in Groups, NEW p \in Players, NEW q \in Players, NEW g \in Parties
  PROVE  LET v == Invited(w, p, q, g)
         IN  /\ v \in Groups /\ v.members = w.members /\ v.users = w.users
             /\ v.party[p] = g /\ \A r \in Players \ {p} : v.party[r] = w.party[r]
             /\ v.leader[g] = p /\ \A h \in Parties \ {g} : v.leader[h] = w.leader[h]
             /\ v.invited[g] = w.invited[g] \cup {q}
             /\ \A h \in Parties \ {g} : v.invited[h] = w.invited[h]
             /\ v.asked[q] = w.asked[q] \cup {g}
             /\ \A r \in Players \ {q} : v.asked[r] = w.asked[r]
<1> DEFINE i == w.invited[g] \cup {q}
           a == w.asked[q] \cup {g}
           v == Invited(w, p, q, g)
           T == Seq(Players)
<1>1. i \in SUBSET Players /\ a \in SUBSET Parties
  BY GroupFields
<1>2. v = [w EXCEPT !.party[p] = g, !.leader[g] = p, !.invited[g] = i, !.asked[q] = a]
  BY DEF Invited, Groups
<1> HIDE DEF i, a, v, T
<1>3. v.members = w.members /\ v.users = w.users
  BY <1>2 DEF Groups
<1>4. v.party = [w.party EXCEPT ![p] = g]
  BY <1>2 DEF Groups
<1>5. v.leader = [w.leader EXCEPT ![g] = p]
  BY <1>2 DEF Groups
<1>6. v.invited = [w.invited EXCEPT ![g] = i]
  BY <1>2 DEF Groups
<1>7. v.asked = [w.asked EXCEPT ![q] = a]
  BY <1>2 DEF Groups
<1>8. v \in Groups
  BY <1>1, <1>2 DEF Groups, T
<1> QED BY <1>3, <1>4, <1>5, <1>6, <1>7, <1>8, GroupFields DEF v, i, a

LEMMA InvitedSound ==
  ASSUME NEW w, NEW p \in online, NEW q \in online, NEW g \in Parties, NEW own, NEW st,
         Sound(w, None, own, st), online \subseteq Players, w.party[q] = None,
         \/ w.party[p] = None /\ w.leader[g] = None
         \/ w.party[p] = g /\ w.leader[g] = p
  PROVE  Sound(Invited(w, p, q, g), None, own \cup {r \in {<<p, g>>} : p = q}, st)
<1> DEFINE v == Invited(w, p, q, g)
           more == own \cup {r \in {<<p, g>>} : p = q}
<1>1. /\ w \in Groups /\ \A h \in Parties : Mirrored(w, h) /\ Orderly(w, h) /\ Needed(w, h)
      /\ Invitations(w, None, own) /\ SelfInvited(w, own) /\ Heard(w, st) /\ Inside(w)
      /\ None \notin Players \cup Parties /\ p \in Players /\ q \in Players
  BY PartyAssumption DEF Sound
<1>2. /\ v \in Groups /\ v.members = w.members /\ v.users = w.users
      /\ v.party[p] = g /\ \A r \in Players \ {p} : v.party[r] = w.party[r]
      /\ v.leader[g] = p /\ \A h \in Parties \ {g} : v.leader[h] = w.leader[h]
      /\ v.invited[g] = w.invited[g] \cup {q}
      /\ \A h \in Parties \ {g} : v.invited[h] = w.invited[h]
      /\ v.asked[q] = w.asked[q] \cup {g}
      /\ \A r \in Players \ {q} : v.asked[r] = w.asked[r]
  BY <1>1, InvitedIs
<1>3. own \subseteq more /\ (p = q => <<p, g>> \in more)
  OBVIOUS
<1> HIDE DEF v, more
<1>4. w.leader[g] = None => w.members[g] = <<>> /\ w.invited[g] = {}
  BY <1>1 DEF Orderly
<1>5. \A r : IsMember(v, g, r) <=> IsMember(w, g, r)
  BY <1>2 DEF IsMember
<1>6. w.leader[g] = None => \A r : ~IsMember(w, g, r)
  BY <1>4 DEF IsMember
<1>7. ASSUME NEW h \in Parties PROVE Mirrored(v, h) /\ Orderly(v, h) /\ Needed(v, h)
  <2>1. Distinct(v.members[h])
    BY <1>1, <1>2 DEF Orderly
  <2>2. CASE h = g
    BY <1>1, <1>2, <1>5, <1>6, <2>1, <2>2 DEF Mirrored, Orderly, Needed
  <2>3. CASE h # g
    <3>1. \A r : IsMember(v, h, r) <=> IsMember(w, h, r)
      BY <1>2 DEF IsMember
    <3>2. Mirrored(v, h)
      BY <1>1, <1>2, <2>3, <3>1 DEF Mirrored
    <3> QED BY <1>1, <1>2, <2>1, <2>3, <3>2 DEF Orderly, Needed
  <2> QED BY <2>2, <2>3
<1>8. Invitations(v, None, more)
  BY <1>1, <1>3, <1>2 DEF Invitations
<1>9. SelfInvited(v, more)
  BY <1>1, <1>3, <1>2, <1>4 DEF SelfInvited
<1>10. Heard(v, st)
  <2> SUFFICES ASSUME NEW h \in Parties, NEW r \in v.users[h], <<r, h>> \notin st
               PROVE  v.party[r] = h /\ r \in linked
    BY DEF Heard
  <2>1. w.party[r] = h /\ r \in linked /\ r \in Players
    BY <1>1, <1>2, GroupFields DEF Heard
  <2> QED BY <1>1, <1>2, <2>1
<1>11. Inside(v)
  BY <1>1, <1>2 DEF Inside
<1>12. Sound(v, None, more, st)
  BY <1>2, <1>7, <1>8, <1>9, <1>10, <1>11 DEF Sound
<1> QED BY <1>12 DEF v, more

LEMMA InviteStep ==
  ASSUME TypeOK, SoundNow, NEW p \in Players, NEW q \in Players, NEW g \in Parties,
         Invite(p, q, g)
  PROVE  SoundNow'
<1> DEFINE w == Invited(group, p, q, g)
           own == {r \in {<<p, g>>} : p = q}
<1>1. Becomes(w, {}, own) /\ UNCHANGED <<online, linked>>
  BY DEF Invite, Invited
<1>2. /\ p \in online /\ q \in online /\ online \subseteq Players
      /\ Sound(group, None, ownInvites, strays) /\ group.party[q] = None
  BY DEF TypeOK, SoundNow, Invite
<1>3. \/ group.party[p] = None /\ group.leader[g] = None
      \/ group.party[p] = g /\ group.leader[g] = p
  BY DEF Invite, Live, Leads
<1>4. Sound(w, None, ownInvites \cup own, strays)
  BY <1>2, <1>3, InvitedSound
<1> HIDE DEF w, own
<1>5. strays \cup {} = strays
  OBVIOUS
<1> QED BY <1>1, <1>4, <1>5, BecomesSound

LEMMA JoinStep ==
  ASSUME TypeOK, SoundNow, NEW p \in Players, NEW q \in Players, Join(p, q)
  PROVE  SoundNow'
<1> DEFINE g == group.party[q]
           w == Joined(group, g, p)
<1>1. Becomes(w, {}, {}) /\ UNCHANGED <<online, linked>>
  BY DEF Join
<1>2. /\ p \in online /\ g \in Parties /\ p \in group.invited[g] /\ group.party[p] = None
      /\ Sound(group, None, ownInvites, strays)
  BY GroupFields DEF TypeOK, SoundNow, Join, IsInviting
<1> HIDE DEF g
<1>3. Sound(w, None, ownInvites, strays)
  BY <1>2, JoinedSound
<1> HIDE DEF w
<1>4. strays \cup {} = strays /\ ownInvites \cup {} = ownInvites
  OBVIOUS
<1> QED BY <1>1, <1>3, <1>4, BecomesSound

LEMMA RevokeStep ==
  ASSUME TypeOK, SoundNow, NEW p \in Players, NEW q \in Players, Revoke(p, q)
  PROVE  SoundNow'
<1> DEFINE g == group.party[p]
           w == RemoveInvite(group, g, q)
<1>1. Becomes(w, {}, {}) /\ UNCHANGED <<online, linked>>
  BY DEF Revoke
<1>2. g \in Parties /\ Sound(group, None, ownInvites, strays)
  BY GroupFields DEF TypeOK, SoundNow, Revoke, IsInviting
<1> HIDE DEF g
<1>3. Sound(w, None, ownInvites, strays)
  BY <1>2, RemoveInviteSound
<1> HIDE DEF w
<1>4. strays \cup {} = strays /\ ownInvites \cup {} = ownInvites
  OBVIOUS
<1> QED BY <1>1, <1>3, <1>4, BecomesSound

LEMMA PassStep ==
  ASSUME TypeOK, SoundNow, NEW p \in Players, NEW q \in Players, Pass(p, q)
  PROVE  SoundNow'
<1>1. PICK g \in Parties : Becomes(PassLeadership(group, g, q), {}, {})
  BY DEF Pass
<1> DEFINE w == PassLeadership(group, g, q)
<1>2. Sound(w, None, ownInvites, strays)
  BY PassSound DEF SoundNow
<1>3. Becomes(w, {}, {}) /\ UNCHANGED <<online, linked>>
  BY <1>1 DEF Pass
<1> HIDE DEF w
<1>4. strays \cup {} = strays /\ ownInvites \cup {} = ownInvites
  OBVIOUS
<1> QED BY <1>2, <1>3, <1>4, BecomesSound

LEMMA LeaveStep ==
  ASSUME TypeOK, SoundNow, NEW p \in Players, LeaveParty(p)
  PROVE  SoundNow'
<1> DEFINE w == Leave(group, p)
           added == {<<p, group.party[p]>>}
<1>1. Becomes(w, added, {}) /\ UNCHANGED <<online, linked>>
  BY DEF LeaveParty
<1>2. Sound(w, None, ownInvites, strays \cup added)
  BY LeaveSound DEF SoundNow, LeaveParty
<1> HIDE DEF w, added
<1>3. ownInvites \cup {} = ownInvites
  OBVIOUS
<1> QED BY <1>1, <1>2, <1>3, BecomesSound

LEMMA NothingMoves ==
  ASSUME SoundNow, UNCHANGED <<online, linked, group, ownInvites, strays>>
  PROVE  SoundNow'
BY DEF SoundNow, Sound, Heard, Inside, Mirrored, Orderly, Needed, Invitations, SelfInvited,
       IsMember

LEMMA HideStep ==
  ASSUME TypeOK, SoundNow, NEW p \in Players, Hide(p)
  PROVE  SoundNow'
<1>1. CASE Undefined
  BY <1>1, NothingMoves DEF Undefined
<1>2. CASE ~Undefined
  <2> DEFINE w == GoAway(group, p)
             added == {<<p, g>> : g \in {group.party[p]} \ {None}}
  <2>1. Becomes(w, added, {}) /\ UNCHANGED <<online, linked>>
    BY <1>2 DEF Hide
  <2>2. \A g \in Parties : group.party[p] = g => <<p, g>> \in added
    BY PartyAssumption
  <2> HIDE DEF added
  <2>3. Sound(w, None, ownInvites, strays \cup added)
    BY <2>2, GoAwaySound DEF SoundNow
  <2> HIDE DEF w
  <2>4. ownInvites \cup {} = ownInvites
    OBVIOUS
  <2> QED BY <2>1, <2>3, <2>4, BecomesSound
<1> QED BY <1>1, <1>2

LEMMA LogoutStep ==
  ASSUME TypeOK, SoundNow, NEW p \in Players, Logout(p)
  PROVE  SoundNow'
<1>1. CASE Undefined
  BY <1>1, NothingMoves DEF Undefined
<1>2. CASE ~Undefined
  <2> DEFINE u == GoAway(group, p)
             w == OffAllChannels(u, p)
             added == {<<p, g>> : g \in Parties}
  <2>1. Sound(u, None, ownInvites, strays \cup added)
    BY GoAwaySound DEF SoundNow
  <2>2. u.party[p] = None /\ \A g \in Parties : p \notin u.invited[g]
    <3>1. \A g \in Parties : group.party[p] = g => <<p, g>> \in added
      OBVIOUS
    <3> HIDE DEF added
    <3> QED BY <3>1, GoAwaySound DEF SoundNow
  <2>3. Becomes(w, {}, {}) /\ online' = online \ {p} /\ linked' = linked \ {p}
    BY <1>2 DEF Logout
  <2> HIDE DEF u
  <2>4. Sound(w, None, ownInvites, strays \cup added)
    BY <2>1, OffChannelsSound
  <2>5. u \in Groups
    BY <2>1 DEF Sound
  <2>6. /\ w.party = u.party /\ w.invited = u.invited
        /\ \A g \in Parties : w.users[g] = u.users[g] \ {p}
    BY <2>5, OffChannelsIs
  <2> HIDE DEF w
  <2>7. /\ group' = w
        /\ strays' = {s \in strays : s[1] \in w.users[s[2]]}
        /\ ownInvites' = {s \in ownInvites : s[2] \in w.asked[s[1]]}
    BY <2>3 DEF Becomes
  <2>8. /\ w \in Groups /\ \A h \in Parties : Mirrored(w, h) /\ Orderly(w, h) /\ Needed(w, h)
        /\ Invitations(w, None, ownInvites) /\ SelfInvited(w, ownInvites)
        /\ Heard(w, strays \cup added) /\ Inside(w) /\ None \notin Players
    BY <2>4, PartyAssumption DEF Sound
  <2>9. \A q, g : <<q, g>> \in ownInvites /\ g \in w.asked[q] => <<q, g>> \in ownInvites'
    BY <2>7
  <2>10. Invitations(w, None, ownInvites') /\ SelfInvited(w, ownInvites')
    BY <2>8, <2>9 DEF Invitations, SelfInvited
  <2>11. ASSUME NEW g \in Parties, NEW q \in w.users[g]
         PROVE  <<q, g>> \in strays' \/ (w.party[q] = g /\ q \in linked')
    <3>1. q # p /\ q \in Players
      BY <2>6, <2>8, GroupFields
    <3>2. <<q, g>> \in strays \cup added \/ (w.party[q] = g /\ q \in linked)
      BY <2>8 DEF Heard
    <3>3. <<q, g>> \notin added
      BY <3>1
    <3> QED BY <2>3, <2>7, <3>1, <3>2, <3>3
  <2>12. ASSUME NEW q \in Players \ online'
         PROVE  w.party[q] = None /\ \A g \in Parties : q \notin w.invited[g] /\ q \notin w.users[g]
    BY <2>2, <2>3, <2>6, <2>8 DEF Inside
  <2> QED BY <2>7, <2>8, <2>10, <2>11, <2>12 DEF SoundNow, Sound, Heard, Inside, Mirrored,
             Orderly, Needed, Invitations, SelfInvited, IsMember
<1> QED BY <1>1, <1>2

LEMMA LoginStep ==
  ASSUME TypeOK, SoundNow, NEW p \in Players, Login(p)
  PROVE  SoundNow'
BY DEF Login, SoundNow, Sound, Heard, Inside, Mirrored, Orderly, Needed, Invitations,
       SelfInvited, IsMember

LEMMA TakeOverStep ==
  ASSUME TypeOK, SoundNow, NEW p \in Players, TakeOver(p)
  PROVE  SoundNow'
<1> DEFINE w == OffAllChannels(group, p)
<1>1. Becomes(w, {}, {}) /\ UNCHANGED <<online, linked>>
  BY DEF TakeOver
<1>2. Sound(w, None, ownInvites, strays)
  BY OffChannelsSound DEF SoundNow
<1> HIDE DEF w
<1>3. strays \cup {} = strays /\ ownInvites \cup {} = ownInvites
  OBVIOUS
<1> QED BY <1>1, <1>2, <1>3, BecomesSound

LEMMA LoseClientStep ==
  ASSUME TypeOK, SoundNow, NEW p \in Players, LoseClient(p)
  PROVE  SoundNow'
<1> DEFINE added == {<<p, g>> : g \in {h \in Parties : p \in group.users[h]}}
<1>1. /\ linked' = linked \ {p} /\ strays' = strays \cup added
      /\ online' = online /\ group' = group /\ ownInvites' = ownInvites
  BY DEF LoseClient
<1>2. \A g \in Parties : p \in group.users[g] => <<p, g>> \in added
  OBVIOUS
<1> HIDE DEF added
<1>3. Heard(group, strays)
  BY DEF SoundNow, Sound
<1>4. ASSUME NEW g \in Parties, NEW q \in group.users[g]
      PROVE  <<q, g>> \in strays' \/ (group.party[q] = g /\ q \in linked')
  BY <1>1, <1>2, <1>3 DEF Heard
<1> QED BY <1>1, <1>4 DEF SoundNow, Sound, Heard, Inside, Mirrored, Orderly, Needed,
           Invitations, SelfInvited, IsMember

\* A change to who is on one channel.
LEMMA UsersIs ==
  ASSUME NEW w \in Groups, NEW g \in Parties, NEW s \in SUBSET Players
  PROVE  LET v == [w EXCEPT !.users[g] = s]
         IN  /\ v \in Groups /\ v.party = w.party /\ v.asked = w.asked
             /\ v.leader = w.leader /\ v.members = w.members /\ v.invited = w.invited
             /\ v.users[g] = s /\ \A h \in Parties \ {g} : v.users[h] = w.users[h]
<1> DEFINE v == [w EXCEPT !.users[g] = s]
           T == Seq(Players)
<1> HIDE DEF T
<1>1. /\ v.party = w.party /\ v.asked = w.asked /\ v.leader = w.leader
      /\ v.members = w.members /\ v.invited = w.invited
      /\ v.users = [w.users EXCEPT ![g] = s]
  BY DEF Groups
<1>2. v \in Groups
  BY DEF Groups, T
<1> HIDE DEF v
<1>3. v.users[g] = s /\ \A h \in Parties \ {g} : v.users[h] = w.users[h]
  BY <1>1, GroupFields
<1> QED BY <1>1, <1>2, <1>3 DEF v

LEMMA UsersSound ==
  ASSUME NEW w, NEW g \in Parties, NEW s \in SUBSET online, NEW own, NEW st, NEW added,
         Sound(w, None, own, st), online \subseteq Players,
         \A p \in s : \/ p \in w.users[g] \/ <<p, g>> \in added
                      \/ (w.party[p] = g /\ p \in linked)
  PROVE  Sound([w EXCEPT !.users[g] = s], None, own, st \cup added)
<1> DEFINE v == [w EXCEPT !.users[g] = s]
<1>1. w \in Groups /\ s \in SUBSET Players
  BY DEF Sound
<1>2. /\ v \in Groups /\ v.party = w.party /\ v.asked = w.asked
      /\ v.leader = w.leader /\ v.members = w.members /\ v.invited = w.invited
      /\ v.users[g] = s /\ \A h \in Parties \ {g} : v.users[h] = w.users[h]
  BY <1>1, UsersIs
<1> HIDE DEF v
<1>3. Heard(v, st \cup added)
  BY <1>2, ZenonT(60) DEF Sound, Heard
<1>4. Inside(v)
  BY <1>2 DEF Sound, Inside
<1>5. Sound(v, None, own, st \cup added)
  BY <1>2, <1>3, <1>4 DEF Sound, Mirrored, Orderly, Needed, Invitations, SelfInvited, IsMember
<1> QED BY <1>5 DEF v

LEMMA OpenChannelStep ==
  ASSUME TypeOK, SoundNow, NEW p \in Players, NEW g \in Parties, OpenChannel(p, g)
  PROVE  SoundNow'
<1> DEFINE s == group.users[g] \cup {p}
           w == [group EXCEPT !.users[g] = s]
           added == {<<p, g>>} \ (linked \X {g})
<1>1. Becomes(w, added, {}) /\ UNCHANGED <<online, linked>>
  BY DEF OpenChannel
<1>2. Sound(group, None, ownInvites, strays) /\ online \subseteq Players
  BY DEF TypeOK, SoundNow
<1>3. s \in SUBSET online
  BY <1>2, GroupFields DEF OpenChannel, Sound, Inside
<1>4. \A q \in s : \/ q \in group.users[g] \/ <<q, g>> \in added
                   \/ (group.party[q] = g /\ q \in linked)
  BY DEF OpenChannel
<1> HIDE DEF added, s
<1>5. Sound(w, None, ownInvites, strays \cup added)
  BY <1>2, <1>3, <1>4, UsersSound
<1> HIDE DEF w
<1>6. ownInvites \cup {} = ownInvites
  OBVIOUS
<1> QED BY <1>1, <1>5, <1>6, BecomesSound

LEMMA CloseChannelStep ==
  ASSUME TypeOK, SoundNow, NEW p \in Players, NEW g \in Parties, CloseChannel(p, g)
  PROVE  SoundNow'
<1> DEFINE s == group.users[g] \ {p}
           w == [group EXCEPT !.users[g] = s]
<1>1. Becomes(w, {}, {}) /\ UNCHANGED <<online, linked>>
  BY DEF CloseChannel
<1>2. Sound(group, None, ownInvites, strays) /\ online \subseteq Players
  BY DEF TypeOK, SoundNow
<1>3. s \in SUBSET online
  BY <1>2, GroupFields DEF Sound, Inside
<1>4. \A q \in s : q \in group.users[g]
  OBVIOUS
<1> HIDE DEF s
<1>5. Sound(w, None, ownInvites, strays \cup {})
  BY <1>2, <1>3, <1>4, UsersSound
<1> HIDE DEF w
<1>6. ownInvites \cup {} = ownInvites
  OBVIOUS
<1> QED BY <1>1, <1>5, <1>6, BecomesSound

-----------------------------------------------------------------------------
(* The invariants *)

PartyInv == TypeOK /\ SoundNow

LEMMA InvInit == Init => PartyInv
<1> SUFFICES ASSUME Init PROVE PartyInv
  OBVIOUS
<1>1. <<>> \in Seq(Players) /\ None \notin Players \cup Parties
  BY PartyAssumption
<1>2. TypeOK
  <2> DEFINE T == Seq(Players)
             e == <<>>
  <2>1. e \in T
    BY <1>1
  <2> HIDE DEF T, e
  <2>2. group \in Groups
    BY <2>1 DEF Init, Groups, T, e
  <2> QED BY <2>2 DEF Init, TypeOK
<1>3. SoundNow
  <2>1. group \in Groups
    BY <1>2 DEF TypeOK
  <2>2. \A g \in Parties : Mirrored(group, g) /\ Orderly(group, g) /\ Needed(group, g)
    BY <1>1 DEF Init, Mirrored, Orderly, Needed, IsMember, Distinct
  <2>3. Invitations(group, None, ownInvites) /\ SelfInvited(group, ownInvites)
    BY DEF Init, Invitations, SelfInvited
  <2>4. Heard(group, strays) /\ Inside(group)
    BY DEF Init, Heard, Inside
  <2> QED BY <2>1, <2>2, <2>3, <2>4 DEF SoundNow, Sound
<1> QED BY <1>2, <1>3 DEF PartyInv

LEMMA BecomesTyped ==
  ASSUME TypeOK, NEW w, NEW added, NEW own, Becomes(w, added, own),
         added \subseteq Players \X Parties, own \subseteq Players \X Parties
  PROVE  ownInvites' \subseteq Players \X Parties /\ strays' \subseteq Players \X Parties
BY DEF Becomes, TypeOK

LEMMA InvNext == PartyInv /\ [Next]_vars => PartyInv'
<1> SUFFICES ASSUME PartyInv, [Next]_vars PROVE PartyInv'
  OBVIOUS
<1>1. TypeOK /\ SoundNow
  BY DEF PartyInv
<1>2. SoundNow' => group' \in Groups
  BY DEF SoundNow, Sound
<1>3. group \in Groups
  BY <1>1 DEF TypeOK
<1>4. ASSUME NEW p \in Players, NEW q \in Players, NEW g \in Parties, Invite(p, q, g)
      PROVE  PartyInv'
  <2>1. {r \in {<<p, g>>} : p = q} \subseteq Players \X Parties
    OBVIOUS
  <2>2. SoundNow'
    BY <1>1, <1>4, InviteStep
  <2>3. Becomes(Invited(group, p, q, g), {}, {r \in {<<p, g>>} : p = q})
    BY <1>4 DEF Invite, Invited
  <2>4. ownInvites' \subseteq Players \X Parties /\ strays' \subseteq Players \X Parties
    BY <1>1, <2>1, <2>3, BecomesTyped
  <2> QED BY <1>1, <1>2, <1>4, <2>2, <2>4 DEF PartyInv, TypeOK, Invite
<1>5. ASSUME NEW p \in Players, NEW q \in Players, Join(p, q)
      PROVE  PartyInv'
  <2>1. SoundNow'
    BY <1>1, <1>5, JoinStep
  <2>2. ownInvites' \subseteq Players \X Parties /\ strays' \subseteq Players \X Parties
    BY <1>1, <1>5 DEF Join, Becomes, TypeOK
  <2> QED BY <1>1, <1>2, <1>5, <2>1, <2>2 DEF PartyInv, TypeOK, Join
<1>6. ASSUME NEW p \in Players, NEW q \in Players, Revoke(p, q)
      PROVE  PartyInv'
  <2>1. SoundNow'
    BY <1>1, <1>6, RevokeStep
  <2>2. ownInvites' \subseteq Players \X Parties /\ strays' \subseteq Players \X Parties
    BY <1>1, <1>6 DEF Revoke, Becomes, TypeOK
  <2> QED BY <1>1, <1>2, <1>6, <2>1, <2>2 DEF PartyInv, TypeOK, Revoke
<1>7. ASSUME NEW p \in Players, NEW q \in Players, Pass(p, q)
      PROVE  PartyInv'
  <2>1. SoundNow'
    BY <1>1, <1>7, PassStep
  <2>2. ownInvites' \subseteq Players \X Parties /\ strays' \subseteq Players \X Parties
    BY <1>1, <1>7 DEF Pass, Becomes, TypeOK
  <2> QED BY <1>1, <1>2, <1>7, <2>1, <2>2 DEF PartyInv, TypeOK, Pass
<1>8. ASSUME NEW p \in Players, LeaveParty(p)
      PROVE  PartyInv'
  <2>1. SoundNow'
    BY <1>1, <1>8, LeaveStep
  <2>2. {<<p, group.party[p]>>} \subseteq Players \X Parties
    BY <1>3, <1>8, GroupFields DEF LeaveParty
  <2>3. ownInvites' \subseteq Players \X Parties /\ strays' \subseteq Players \X Parties
    BY <1>1, <1>8, <2>2, BecomesTyped DEF LeaveParty
  <2> QED BY <1>1, <1>2, <1>8, <2>1, <2>3 DEF PartyInv, TypeOK, LeaveParty
<1>9. ASSUME NEW p \in Players, Logout(p)
      PROVE  PartyInv'
  <2>1. SoundNow'
    BY <1>1, <1>9, LogoutStep
  <2>2. ownInvites' \subseteq Players \X Parties /\ strays' \subseteq Players \X Parties
    BY <1>1, <1>9 DEF Logout, Undefined, Becomes, TypeOK
  <2> QED BY <1>1, <1>2, <1>9, <2>1, <2>2 DEF PartyInv, TypeOK, Logout, Undefined
<1>10. ASSUME NEW p \in Players, Hide(p)
       PROVE  PartyInv'
  <2> DEFINE added == {<<p, g>> : g \in {group.party[p]} \ {None}}
  <2>1. SoundNow'
    BY <1>1, <1>10, HideStep
  <2>2. added \subseteq Players \X Parties
    BY <1>3, GroupFields
  <2>3. CASE Undefined
    BY <1>1, <1>2, <2>1, <2>3 DEF PartyInv, TypeOK, Undefined
  <2>4. CASE ~Undefined
    <3>1. Becomes(GoAway(group, p), added, {}) /\ UNCHANGED <<online, linked, undefined>>
      BY <1>10, <2>4 DEF Hide
    <3> HIDE DEF added
    <3>2. ownInvites' \subseteq Players \X Parties /\ strays' \subseteq Players \X Parties
      BY <1>1, <2>2, <3>1, BecomesTyped
    <3> QED BY <1>1, <1>2, <2>1, <3>1, <3>2 DEF PartyInv, TypeOK
  <2> QED BY <2>3, <2>4
<1>11. ASSUME NEW p \in Players, Login(p)
       PROVE  PartyInv'
  BY <1>1, <1>11, LoginStep DEF PartyInv, TypeOK, Login
<1>12. ASSUME NEW p \in Players, TakeOver(p)
       PROVE  PartyInv'
  <2>1. SoundNow'
    BY <1>1, <1>12, TakeOverStep
  <2>2. ownInvites' \subseteq Players \X Parties /\ strays' \subseteq Players \X Parties
    BY <1>1, <1>12 DEF TakeOver, Becomes, TypeOK
  <2> QED BY <1>1, <1>2, <1>12, <2>1, <2>2 DEF PartyInv, TypeOK, TakeOver
<1>13. ASSUME NEW p \in Players, LoseClient(p)
       PROVE  PartyInv'
  BY <1>1, <1>13, LoseClientStep DEF PartyInv, TypeOK, LoseClient
<1>14. ASSUME NEW p \in Players, NEW g \in Parties, OpenChannel(p, g) \/ CloseChannel(p, g)
       PROVE  PartyInv'
  <2>1. SoundNow'
    BY <1>1, <1>14, OpenChannelStep, CloseChannelStep
  <2>2. ownInvites' \subseteq Players \X Parties /\ strays' \subseteq Players \X Parties
    BY <1>1, <1>14 DEF OpenChannel, CloseChannel, Becomes, TypeOK
  <2> QED BY <1>1, <1>2, <1>14, <2>1, <2>2 DEF PartyInv, TypeOK, OpenChannel, CloseChannel
<1>15. CASE UNCHANGED vars
  BY <1>1, <1>15, NothingMoves DEF PartyInv, TypeOK, vars
<1> QED BY <1>4, <1>5, <1>6, <1>7, <1>8, <1>9, <1>10, <1>11, <1>12, <1>13, <1>14, <1>15 DEF Next

LEMMA InvAlways == Spec => []PartyInv
BY InvInit, InvNext, PTL DEF Spec

\* Every variable of Party always has its type: in particular the leaders and
\* members of every party are players, in a sequence of them, whatever order
\* party.cpp's methods call each other in.
THEOREM TypeCorrect == Spec => []TypeOK
<1>1. PartyInv => TypeOK
  BY DEF PartyInv
<1> QED BY <1>1, InvAlways, PTL

\* The pointers between players and parties agree at both ends, point at nobody
\* who has left the game, and no party is kept that nobody needs, after any
\* sequence of the handlers that call party.cpp.
THEOREM PointersMirror == Spec => []PointersAgree
<1>1. PartyInv => PointersAgree
  <2> SUFFICES ASSUME PartyInv PROVE PointersAgree
    OBVIOUS
  <2>1. /\ group \in Groups
        /\ \A h \in Parties : Mirrored(group, h) /\ Orderly(group, h) /\ Needed(group, h)
        /\ Invitations(group, None, ownInvites) /\ Inside(group)
        /\ None \notin Players
    BY PartyAssumption DEF PartyInv, SoundNow, Sound
  <2>2. MembershipMirrored
    <3> SUFFICES ASSUME NEW p \in Players, NEW g \in Parties
                 PROVE  Cardinality({i \in DOMAIN group.members[g] :
                                       group.members[g][i] = p}) <= 1
      BY <2>1 DEF MembershipMirrored, Mirrored
    <3> DEFINE S == {i \in DOMAIN group.members[g] : group.members[g][i] = p}
    <3>1. \A i, j \in S : i = j
      BY <2>1 DEF Orderly, Distinct
    <3>2. S = {} \/ \E i : S = {i}
      BY <3>1
    <3> HIDE DEF S
    <3>3. Cardinality(S) = 0 \/ Cardinality(S) = 1
      BY <3>2, FS_EmptySet, FS_Singleton
    <3> QED BY <3>3 DEF S
  <2>3. InvitationsMirrored
    BY <2>1 DEF InvitationsMirrored, Invitations
  <2>4. OnlyOnline
    <3> SUFFICES ASSUME NEW g \in Parties
                 PROVE  /\ group.users[g] \subseteq online
                        /\ group.leader[g] \in online \cup {None}
                        /\ group.invited[g] \subseteq online
                        /\ \A i \in DOMAIN group.members[g] : group.members[g][i] \in online
      BY DEF OnlyOnline
    <3>1. group.users[g] \subseteq online /\ group.invited[g] \subseteq online
      BY <2>1, GroupFields DEF Inside
    <3>2. group.leader[g] \in online \cup {None}
      BY <2>1, GroupFields, PartyAssumption DEF Inside, Mirrored
    <3>3. ASSUME NEW i \in DOMAIN group.members[g] PROVE group.members[g][i] \in online
      <4>1. group.members[g][i] \in Players /\ IsMember(group, g, group.members[g][i])
        BY <2>1, GroupFields DEF IsMember
      <4> QED BY <2>1, <4>1, PartyAssumption DEF Inside, Mirrored
    <3> QED BY <3>1, <3>2, <3>3
  <2>5. NoEmptyParty
    BY <2>1 DEF NoEmptyParty, Needed, Live
  <2> QED BY <2>2, <2>3, <2>4, <2>5 DEF PointersAgree
<1> QED BY <1>1, InvAlways, PTL

\* Whoever hears a party's channel without being in the party has left it
\* himself, or was without a client while on it: chat.cpp finds the channel of
\* a party by the party's address, which a disbanding closes for all others.
THEOREM OnlyStraysHear == Spec => []OutsidersAreStrays
<1>1. PartyInv => OutsidersAreStrays
  BY DEF PartyInv, SoundNow, Sound, Heard, OutsidersAreStrays
<1> QED BY <1>1, InvAlways, PTL

-----------------------------------------------------------------------------
(* The succession *)

LEMMA WithoutHead ==
  ASSUME NEW s \in Seq(Players), Distinct(s), s # <<>>
  PROVE  Without(s, Head(s)) = Tail(s)
<1> DEFINE p == Head(s)
           r == Without(s, p)
           t == Tail(s)
<1>1. Len(s) \in Nat /\ 1 \in DOMAIN s /\ s[1] = p
  OBVIOUS
<1>2. PICK n \in DOMAIN s : s[n] = p /\ r = RemoveAt(s, n)
  BY <1>1, WithoutIs DEF Occurs
<1>3. n = 1
  BY <1>1, <1>2 DEF Distinct
<1>4. r = RemoveAt(s, 1)
  BY <1>2, <1>3
<1> QED BY <1>1, <1>4 DEF RemoveAt

LEMMA WithoutLen ==
  ASSUME NEW s \in Seq(Players), NEW p
  PROVE  Without(s, p) = <<>> => Len(s) < 2
<1>1. CASE Without(s, p) = s
  BY <1>1
<1>2. CASE \E n \in DOMAIN s : s[n] = p /\ Without(s, p) = RemoveAt(s, n)
  <2>1. PICK n \in DOMAIN s : Without(s, p) = RemoveAt(s, n)
    BY <1>2
  <2> DEFINE r == RemoveAt(s, n)
  <2>2. Len(r) = Len(s) - 1
    BY Removed
  <2>3. r = <<>> => Len(r) = 0
    OBVIOUS
  <2> HIDE DEF r
  <2>4. Len(s) \in Nat
    OBVIOUS
  <2> QED BY <2>1, <2>2, <2>3, <2>4 DEF r
<1> QED BY <1>1, <1>2, WithoutIs

LEMMA LedAway ==
  ASSUME NEW t \in Seq(Players), NEW p \in Players, Distinct(<<p>> \o t)
  PROVE  Without(<<p>> \o t, p) = t
<1> DEFINE s == <<p>> \o t
<1>1. s \in Seq(Players) /\ s # <<>> /\ Head(s) = p /\ Tail(s) = t
  OBVIOUS
<1> HIDE DEF s
<1>2. Without(s, Head(s)) = Tail(s)
  BY <1>1, WithoutHead DEF s
<1> QED BY <1>1, <1>2 DEF s

\* p has left the party g of w, and that is v.
Departed(w, v, g, p) ==
  /\ \A h \in Parties \ {g} : v.leader[h] = w.leader[h]
  /\ \A q \in Players \ {p}, h \in Parties \ {g} : w.party[q] = h => v.party[q] = h
  /\ \/ v.leader[g] = None /\ Len(w.members[g]) < 2
     \/ /\ \A q \in Players \ {p} : w.party[q] = g => v.party[q] = g
        /\ w.leader[g] = p => /\ v.leader[g] = Head(w.members[g])
                              /\ v.members[g] = Tail(w.members[g])

LEMMA LeftMembers ==
  ASSUME NEW u \in Groups, NEW g \in Parties, NEW p \in Players, Orderly(u, g)
  PROVE  LeftWorld(u, g, p).members[g] = Without(u.members[g], p)
<1> DEFINE v == LeftWorld(u, g, p)
<1>1. Gone(u, v, g, p)
  BY LeftIs
<1> HIDE DEF v
<1>2. v.members = [u.members EXCEPT ![g] = Without(u.members[g], p)]
  BY <1>1 DEF Gone
<1> QED BY <1>2, GroupFields DEF v

LEMMA DepartedFrom ==
  ASSUME NEW w, NEW u \in Groups, NEW g \in Parties, NEW p \in Players, NEW falls \in BOOLEAN,
         Orderly(u, g), Mirrored(u, g), u.leader[g] # None, u.party = w.party,
         \A h \in Parties \ {g} : u.leader[h] = w.leader[h],
         falls => Len(w.members[g]) < 2,
         w.leader[g] = p => /\ u.leader[g] = Head(w.members[g]) \/ falls
                            /\ Without(u.members[g], p) = Tail(w.members[g]) \/ falls
  PROVE  LET left == LeftWorld(u, g, p)
             v == IF falls THEN Disband(left, g) ELSE left
         IN  Departed(w, v, g, p)
<1> DEFINE left == LeftWorld(u, g, p)
           fallen == Disband(left, g)
<1>1. Gone(u, left, g, p)
  BY LeftIs
<1> HIDE DEF left
<1>2. /\ left \in Groups
      /\ left.party = [u.party EXCEPT ![p] = None]
      /\ left.asked = u.asked /\ left.leader = u.leader /\ left.users = u.users
      /\ left.members = [u.members EXCEPT ![g] = Without(u.members[g], p)]
      /\ left.invited = [u.invited EXCEPT ![g] = u.invited[g] \ {p}]
  BY <1>1 DEF Gone
<1>3. \A q : IsMember(left, g, q) <=> IsMember(u, g, q) /\ q # p
  <2>1. /\ left.party[p] = None /\ \A q \in Players \ {p} : left.party[q] = u.party[q]
        /\ left.invited[g] = u.invited[g] \ {p} /\ Distinct(left.members[g])
        /\ \A q : IsMember(left, g, q) <=> IsMember(u, g, q) /\ q # p
        /\ \A h \in Parties \ {g} : /\ left.invited[h] = u.invited[h]
                                    /\ left.members[h] = u.members[h]
    BY <1>1, GoneIs
  <2> QED BY <2>1
<1>4. \A q \in Players \ {p} : left.party[q] = w.party[q]
  BY <1>2, GroupFields
<1>5. left.members[g] = Without(u.members[g], p)
  BY <1>2, GroupFields
<1>6. CASE ~falls
  BY <1>2, <1>4, <1>5, <1>6 DEF Departed, left
<1>7. CASE falls
  <2>1. /\ fallen \in Groups
        /\ \A q \in Players :
             /\ fallen.party[q] = IF q \in Dismissed(left, g) THEN None ELSE left.party[q]
             /\ fallen.asked[q] = IF q \in left.invited[g] THEN left.asked[q] \ {g}
                                                           ELSE left.asked[q]
        /\ fallen.leader = [left.leader EXCEPT ![g] = None]
        /\ fallen.members = [left.members EXCEPT ![g] = <<>>]
        /\ fallen.invited = [left.invited EXCEPT ![g] = {}]
        /\ fallen.users = [left.users EXCEPT ![g] = left.users[g] \ Closed(left, g)]
    BY <1>2, DisbandIs
  <2> HIDE DEF fallen
  <2>2. \A q \in Players : q \in Dismissed(left, g) => w.party[q] = g
    BY <1>2, <1>3 DEF Dismissed, Mirrored
  <2>3. \A h \in Parties \ {g} : fallen.leader[h] = w.leader[h]
    BY <1>2, <2>1, GroupFields
  <2>4. fallen.leader[g] = None
    BY <1>2, <2>1, GroupFields
  <2>5. ASSUME NEW q \in Players \ {p}, NEW h \in Parties \ {g}, w.party[q] = h
        PROVE  fallen.party[q] = h
    BY <1>4, <2>1, <2>2, <2>5
  <2>6. Departed(w, fallen, g, p)
    BY <1>7, <2>3, <2>4, <2>5 DEF Departed
  <2> QED BY <1>7, <2>6 DEF fallen, left
<1> QED BY <1>6, <1>7

LEMMA LeaveDeparts ==
  ASSUME NEW w, NEW p \in Players, NEW x, NEW own, NEW st,
         Sound(w, x, own, st), w.party[p] # None
  PROVE  Departed(w, Leave(w, p), w.party[p], p)
<1> DEFINE g == w.party[p]
           ms == w.members[g]
           missing == MissingLeader(w, g, p)
           led == IF w.leader[g] = p /\ ~missing THEN PassLeadership(w, g, Successor(w, g))
                                                 ELSE w
           left == LeftWorld(led, g, p)
           falls == missing \/ CanDisband(left, g)
<1>1. Leave(w, p) = IF falls THEN Disband(left, g) ELSE left
  BY DEF Leave, LeftWorld
<1>2. /\ w \in Groups /\ g \in Parties /\ missing \in BOOLEAN /\ falls \in BOOLEAN
      /\ ms \in Seq(Players)
  BY GroupFields DEF Sound, MissingLeader, CanDisband
<1> HIDE DEF led, falls, left
<1>3. Mirrored(w, g) /\ Orderly(w, g)
  BY <1>2 DEF Sound
<1>4. w.leader[g] # None
  <2>1. w.leader[g] = p \/ ms # <<>>
    BY <1>3 DEF Mirrored, IsMember
  <2> QED BY <1>3, <2>1, PartyAssumption DEF Orderly
<1>5. missing => Len(ms) < 2
  <2>1. ms = <<>> => Len(ms) = 0
    OBVIOUS
  <2> DEFINE n == Len(ms)
  <2>2. n \in Nat
    BY <1>2
  <2>3. n = 0 \/ n = 1 => n < 2
    <3> HIDE DEF n
    <3> QED BY <2>2
  <2> QED BY <2>1, <2>3 DEF MissingLeader
<1>6. /\ led \in Groups /\ Orderly(led, g) /\ Mirrored(led, g) /\ led.leader[g] # None
      /\ led.party = w.party /\ \A h \in Parties \ {g} : led.leader[h] = w.leader[h]
      /\ CanDisband(left, g) => Len(ms) < 2
      /\ w.leader[g] = p /\ ~missing => /\ led.leader[g] = Head(ms)
                                        /\ Without(led.members[g], p) = Tail(ms)
  <2>1. CASE w.leader[g] = p /\ ~missing
    <3> DEFINE q == Successor(w, g)
               u == PassLeadership(w, g, q)
    <3>1. ms # <<>>
      BY <2>1 DEF MissingLeader
    <3>2. q = Head(ms) /\ q \in Players /\ IsMember(w, g, q)
      BY <1>2, <3>1 DEF Successor, IsMember
    <3> HIDE DEF q, g
    <3>3. Passed(w, u, g, q) /\ Sound(u, x, own, st)
      BY <1>2, <1>3, <3>2, PassIs, PassSound
    <3> HIDE DEF u
    <3>4. /\ u.party = w.party /\ u.leader[g] = q /\ u.members[g] = <<p>> \o Without(ms, q)
          /\ \A h \in Parties \ {g} : u.leader[h] = w.leader[h]
      BY <1>2, <2>1, <3>3, GroupFields DEF Passed, Following
    <3>5. Without(ms, q) = Tail(ms)
      BY <1>2, <1>3, <3>1, <3>2, WithoutHead DEF Orderly
    <3>6. u \in Groups /\ Mirrored(u, g) /\ Orderly(u, g)
      BY <1>2, <3>3 DEF Sound
    <3>7. Tail(ms) \in Seq(Players)
      BY <1>2, <3>1
    <3> DEFINE t == Tail(ms)
    <3>8. Distinct(<<p>> \o t)
      BY <3>4, <3>5, <3>6 DEF Orderly
    <3> HIDE DEF t
    <3>9. Without(<<p>> \o t, p) = t
      BY <3>7, <3>8, LedAway DEF t
    <3>10. Without(u.members[g], p) = Tail(ms)
      BY <3>4, <3>5, <3>9 DEF t
    <3>11. led = u
      BY <2>1 DEF led, u, q, g
    <3>12. LeftWorld(u, g, p).members[g] = Without(u.members[g], p)
      BY <1>2, <3>6, LeftMembers
    <3>13. CanDisband(left, g) => Tail(ms) = <<>>
      BY <3>10, <3>11, <3>12 DEF CanDisband, left
    <3>14. Tail(ms) = <<>> => Len(ms) < 2
      <4> DEFINE n == Len(ms)
                 m == Len(t)
      <4>1. m = n - 1 /\ n \in Nat
        BY <1>2, <3>1 DEF t
      <4>2. t = <<>> => m = 0
        OBVIOUS
      <4> HIDE DEF n, m
      <4>3. t = <<>> => n < 2
        BY <4>1, <4>2
      <4> QED BY <4>3 DEF t, n
    <3>15. q # None
      BY <3>2, PartyAssumption
    <3> QED BY <3>2, <3>4, <3>6, <3>10, <3>11, <3>13, <3>14, <3>15
  <2>2. CASE ~(w.leader[g] = p /\ ~missing)
    <3>1. led = w
      BY <2>2 DEF led
    <3>2. LeftWorld(w, g, p).members[g] = Without(ms, p)
      BY <1>2, <1>3, LeftMembers
    <3>3. CanDisband(left, g) => Len(ms) < 2
      BY <1>2, <3>1, <3>2, WithoutLen DEF CanDisband, left
    <3> QED BY <1>2, <1>3, <1>4, <2>2, <3>1, <3>3
  <2> QED BY <2>1, <2>2
<1> HIDE DEF g, ms, missing
<1>7. Departed(w, IF falls THEN Disband(left, g) ELSE left, g, p)
  BY <1>2, <1>5, <1>6, DepartedFrom DEF falls, ms, left
<1> QED BY <1>1, <1>7 DEF g

\* The two parts of Succession, of a step from w to v.
Survives(w, v, g) ==
  Len(w.members[g]) >= 2 =>
    \E p \in Players : \A q \in Players \ {p} : w.party[q] = g => v.party[q] = g

Senior(w, v, g) ==
  /\ Live(w, g) /\ Live(v, g)
  /\ v.party[w.leader[g]] # g
  => v.leader[g] = Head(w.members[g]) /\ v.members[g] = Tail(w.members[g])

Succeeds(w, v) == \A g \in Parties : Survives(w, v, g) /\ Senior(w, v, g)

LEMMA KeptSurvives ==
  ASSUME NEW w \in Groups, NEW v, NEW g \in Parties,
         \A q \in Players : w.party[q] = g => v.party[q] = g
  PROVE  Survives(w, v, g)
<1> SUFFICES ASSUME Len(w.members[g]) >= 2 PROVE Players # {}
  BY DEF Survives
<1> DEFINE s == w.members[g]
<1>1. s \in Seq(Players)
  BY GroupFields
<1> HIDE DEF s
<1>2. 1 \in DOMAIN s /\ s[1] \in Players
  BY <1>1 DEF s
<1> QED BY <1>2

LEMMA KeptSucceeds ==
  ASSUME NEW w, NEW own, NEW st, Sound(w, None, own, st), NEW v, NEW g \in Parties,
         \A q \in Players : w.party[q] = g => v.party[q] = g
  PROVE  Survives(w, v, g) /\ Senior(w, v, g)
<1>1. w \in Groups /\ Mirrored(w, g)
  BY DEF Sound
<1>2. Survives(w, v, g)
  BY <1>1, KeptSurvives
<1>3. Senior(w, v, g)
  BY <1>1, GroupFields DEF Mirrored, Senior, Live
<1> QED BY <1>2, <1>3

LEMMA SparedSucceeds ==
  ASSUME NEW w, NEW own, NEW st, Sound(w, None, own, st), NEW v, Spared(w, v)
  PROVE  Succeeds(w, v)
<1> SUFFICES ASSUME NEW g \in Parties PROVE Survives(w, v, g) /\ Senior(w, v, g)
  BY DEF Succeeds
<1>1. CASE Steady(w, v, g)
  BY <1>1, KeptSucceeds DEF Steady
<1>2. CASE Ended(w, v, g)
  <2> DEFINE n == Len(w.members[g])
  <2>1. n = 0
    BY <1>2 DEF Ended
  <2> HIDE DEF n
  <2>2. ~(n >= 2)
    BY <2>1
  <2> QED BY <1>2, <2>2 DEF Survives, Senior, Ended, Live, n
<1> QED BY <1>1, <1>2 DEF Spared

LEMMA DepartedSucceeds ==
  ASSUME NEW w, NEW own, NEW st, Sound(w, None, own, st), NEW v,
         NEW g \in Parties, NEW p \in Players, w.party[p] = g, Departed(w, v, g, p)
  PROVE  Succeeds(w, v)
<1> SUFFICES ASSUME NEW h \in Parties PROVE Survives(w, v, h) /\ Senior(w, v, h)
  BY DEF Succeeds
<1>1. w \in Groups /\ Mirrored(w, h)
  BY DEF Sound
<1>2. CASE h # g
  <2>1. \A q \in Players : w.party[q] = h => v.party[q] = h
    BY <1>2 DEF Departed
  <2> QED BY <2>1, KeptSucceeds
<1>3. CASE h = g /\ v.leader[g] = None /\ Len(w.members[g]) < 2
  <2> DEFINE n == Len(w.members[g])
  <2>1. n \in Nat
    BY <1>1, GroupFields
  <2>2. n < 2
    BY <1>3
  <2> HIDE DEF n
  <2>3. ~(n >= 2)
    BY <2>1, <2>2
  <2> QED BY <1>3, <2>3 DEF Survives, Senior, Live, n
<1>4. CASE /\ h = g /\ \A q \in Players \ {p} : w.party[q] = g => v.party[q] = g
           /\ w.leader[g] = p => /\ v.leader[g] = Head(w.members[g])
                                 /\ v.members[g] = Tail(w.members[g])
  <2>1. Survives(w, v, h)
    BY <1>4 DEF Survives
  <2>2. Senior(w, v, h)
    <3> SUFFICES ASSUME Live(w, h), v.party[w.leader[h]] # h PROVE w.leader[g] = p
      BY <1>4 DEF Senior
    <3> QED BY <1>1, <1>4, GroupFields DEF Live, Mirrored
  <2> QED BY <2>1, <2>2
<1> QED BY <1>2, <1>3, <1>4 DEF Departed

LEMMA SparedThenSucceeds ==
  ASSUME NEW w, NEW own, NEW st, Sound(w, None, own, st), NEW u, NEW v,
         Spared(w, u), Succeeds(u, v),
         \A g \in Parties : u.leader[g] = None => v.leader[g] = None
  PROVE  Succeeds(w, v)
<1> SUFFICES ASSUME NEW g \in Parties PROVE Survives(w, v, g) /\ Senior(w, v, g)
  BY DEF Succeeds
<1>1. CASE Steady(w, u, g)
  BY <1>1 DEF Steady, Succeeds, Survives, Senior, Live
<1>2. CASE Ended(w, u, g)
  <2> DEFINE n == Len(w.members[g])
  <2>1. n = 0
    BY <1>2 DEF Ended
  <2> HIDE DEF n
  <2>2. ~(n >= 2)
    BY <2>1
  <2> QED BY <1>2, <2>2 DEF Survives, Senior, Ended, Live, n
<1> QED BY <1>1, <1>2 DEF Spared

LEMMA GoAwaySucceeds ==
  ASSUME NEW w, NEW p \in Players, NEW own, NEW st, Sound(w, None, own, st)
  PROVE  Succeeds(w, GoAway(w, p))
<1> DEFINE u == InvitationsCleared(w, p)
           g == u.party[p]
           v == GoAway(w, p)
<1>1. /\ Sound(u, None, own, st) /\ Fewer(w, u)
      /\ u.asked[p] = {} /\ \A h \in Parties : p \notin u.invited[h]
      /\ Spared(w, u)
  BY ClearedSound
<1>2. v = IF u.party[p] = None THEN u ELSE Leave(u, p)
  BY DEF GoAway, LeaveIfIn
<1> HIDE DEF u, v
<1>3. CASE g = None
  BY <1>1, <1>2, <1>3, SparedSucceeds DEF v
<1>4. CASE g # None
  <2>1. g \in Parties /\ Departed(u, v, g, p)
    BY <1>1, <1>2, <1>4, LeaveDeparts, GroupFields DEF Sound
  <2>2. u.leader[g] # None
    <3>1. Mirrored(u, g) /\ Orderly(u, g) /\ g = u.party[p] /\ g \in Parties
      BY <1>1, <2>1 DEF Sound
    <3> HIDE DEF g
    <3>2. u.leader[g] = p \/ u.members[g] # <<>>
      BY <3>1 DEF Mirrored, IsMember
    <3> QED BY <3>1, <3>2, PartyAssumption DEF Orderly
  <2>3. \A h \in Parties : u.leader[h] = None => v.leader[h] = None
    BY <2>1, <2>2 DEF Departed
  <2>4. Succeeds(u, v)
    BY <1>1, <2>1, DepartedSucceeds
  <2> QED BY <1>1, <2>3, <2>4, SparedThenSucceeds DEF v
<1> QED BY <1>3, <1>4

LEMMA SucceedsNext == PartyInv /\ [Next]_vars => Succeeds(group, group')
<1> SUFFICES ASSUME PartyInv, [Next]_vars PROVE Succeeds(group, group')
  OBVIOUS
<1>1. /\ Sound(group, None, ownInvites, strays) /\ group \in Groups
      /\ None \notin Players \cup Parties
  BY PartyAssumption DEF PartyInv, SoundNow, Sound
<1>2. ASSUME \A q \in Players : group.party[q] # None => group'.party[q] = group.party[q]
      PROVE  Succeeds(group, group')
  BY <1>1, <1>2, KeptSucceeds DEF Succeeds
<1>3. ASSUME NEW p \in Players, NEW q \in Players, NEW g \in Parties, Invite(p, q, g)
      PROVE  Succeeds(group, group')
  <2> DEFINE v == Invited(group, p, q, g)
  <2>1. v = group'
    BY <1>3 DEF Invite, Becomes, Invited
  <2>2. /\ v \in Groups /\ v.members = group.members /\ v.users = group.users
        /\ v.party[p] = g /\ \A r \in Players \ {p} : v.party[r] = group.party[r]
        /\ v.leader[g] = p /\ \A h \in Parties \ {g} : v.leader[h] = group.leader[h]
        /\ v.invited[g] = group.invited[g] \cup {q}
        /\ \A h \in Parties \ {g} : v.invited[h] = group.invited[h]
        /\ v.asked[q] = group.asked[q] \cup {g}
        /\ \A r \in Players \ {q} : v.asked[r] = group.asked[r]
    BY <1>1, InvitedIs
  <2> HIDE DEF v
  <2> QED BY <1>2, <1>3, <2>1, <2>2 DEF Invite, Leads
<1>4. ASSUME NEW p \in Players, NEW q \in Players, Join(p, q)
      PROVE  Succeeds(group, group')
  <2>1. \A r \in Players \ {p} : group'.party[r] = group.party[r]
    BY <1>1, <1>4 DEF Join, Becomes, Joined, Groups
  <2> QED BY <1>2, <1>4, <2>1 DEF Join
<1>5. ASSUME NEW p \in Players, NEW q \in Players, Revoke(p, q)
      PROVE  Succeeds(group, group')
  <2> DEFINE g == group.party[p]
             w == RemoveInvite(group, g, q)
  <2>1. g \in Parties /\ group' = w
    BY <1>1, <1>5, GroupFields DEF Revoke, IsInviting, Becomes
  <2>2. Spared(group, w)
    BY <1>1, <2>1, RemoveInviteSpares
  <2> HIDE DEF w
  <2> QED BY <1>1, <2>1, <2>2, SparedSucceeds
<1>6. ASSUME NEW p \in Players, NEW q \in Players, Pass(p, q)
      PROVE  Succeeds(group, group')
  <2>1. PICK g \in Parties : group' = PassLeadership(group, g, q)
    BY <1>6 DEF Pass, Becomes
  <2>2. group'.party = group.party
    BY <1>1, <2>1 DEF PassLeadership, Groups
  <2> QED BY <1>2, <2>2
<1>7. ASSUME NEW p \in Players, LeaveParty(p)
      PROVE  Succeeds(group, group')
  <2>1. group' = Leave(group, p) /\ group.party[p] # None /\ group.party[p] \in Parties
    BY <1>1, <1>7, GroupFields DEF LeaveParty, Becomes
  <2>2. Departed(group, group', group.party[p], p)
    BY <1>1, <2>1, LeaveDeparts
  <2> QED BY <1>1, <2>1, <2>2, DepartedSucceeds
<1>8. ASSUME NEW p \in Players, Logout(p)
      PROVE  Succeeds(group, group')
  <2>1. CASE Undefined
    BY <1>2, <2>1 DEF Undefined
  <2>2. CASE ~Undefined
    <3> DEFINE u == GoAway(group, p)
               w == OffAllChannels(u, p)
               added == {<<p, g>> : g \in Parties}
    <3>1. group' = w
      BY <1>8, <2>2 DEF Logout, Becomes
    <3>2. Succeeds(group, u)
      BY <1>1, GoAwaySucceeds
    <3>3. u \in Groups
      <4>1. \A g \in Parties : group.party[p] = g => <<p, g>> \in added
        OBVIOUS
      <4> HIDE DEF added
      <4>2. Sound(u, None, ownInvites, strays \cup added)
        BY <1>1, <4>1, GoAwaySound
      <4> QED BY <4>2 DEF Sound
    <3> HIDE DEF u
    <3>4. w.party = u.party /\ w.leader = u.leader /\ w.members = u.members
      BY <3>3, OffChannelsIs
    <3> HIDE DEF w
    <3> QED BY <3>1, <3>2, <3>4 DEF Succeeds, Survives, Senior, Live
  <2> QED BY <2>1, <2>2
<1>9. ASSUME NEW p \in Players, Hide(p)
      PROVE  Succeeds(group, group')
  <2>1. CASE Undefined
    BY <1>2, <2>1 DEF Undefined
  <2>2. CASE ~Undefined
    <3>1. group' = GoAway(group, p)
      BY <1>9, <2>2 DEF Hide, Becomes
    <3> QED BY <1>1, <3>1, GoAwaySucceeds
  <2> QED BY <2>1, <2>2
<1>10. ASSUME NEW p \in Players, Login(p) \/ LoseClient(p)
       PROVE  Succeeds(group, group')
  BY <1>2, <1>10 DEF Login, LoseClient
<1>11. ASSUME NEW p \in Players, TakeOver(p)
       PROVE  Succeeds(group, group')
  <2> DEFINE w == OffAllChannels(group, p)
  <2>1. group' = w
    BY <1>11 DEF TakeOver, Becomes
  <2>2. w.party = group.party
    BY <1>1, OffChannelsIs
  <2> HIDE DEF w
  <2> QED BY <1>2, <2>1, <2>2
<1>12. ASSUME NEW p \in Players, NEW g \in Parties, OpenChannel(p, g) \/ CloseChannel(p, g)
       PROVE  Succeeds(group, group')
  <2>1. group'.party = group.party
    BY <1>1, <1>12 DEF OpenChannel, CloseChannel, Becomes, Groups
  <2> QED BY <1>2, <2>1
<1>13. CASE UNCHANGED vars
  BY <1>2, <1>13 DEF vars
<1> QED BY <1>3, <1>4, <1>5, <1>6, <1>7, <1>8, <1>9, <1>10, <1>11, <1>12, <1>13 DEF Next

\* Succession, of one step.
Succeeding == \A g \in Parties : PartySurvives(g) /\ SeniorSucceeds(g)

\* No step breaks up a party of three or more, but for the one who goes; and
\* when the leader goes, the first of the members leads and the others keep
\* their order, also when he goes by logging out with invitations of his own.
THEOREM LeadersSucceeded == Spec => Succession
<1>1. PartyInv /\ [Next]_vars => [Succeeding]_vars
  <2> SUFFICES ASSUME PartyInv, [Next]_vars PROVE Succeeding
    OBVIOUS
  <2>1. Succeeds(group, group')
    BY SucceedsNext
  <2> QED BY <2>1 DEF Succeeds, Survives, Senior, Succeeding, PartySurvives, SeniorSucceeds, Live
<1> QED BY <1>1, InvAlways, PTL DEF Spec, Succession, Succeeding

=============================================================================
