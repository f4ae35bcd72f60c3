---------------------------- MODULE TradeProofs -----------------------------
(***************************************************************************)
(* Proofs about Trade, for every number of players, items and positions.   *)
(***************************************************************************)
EXTENDS Trade, SumLemmas

\* A player who has made no offer has no item in a trade; so an offer, when it
\* is made, replaces nothing in Game::tradeItems.
NoOfferYet ==
  \A p \in Players : tradeState[p] \in {"NONE", "ACKNOWLEDGE"} => tradeItem[p] = None

TradeInv == TypeOK /\ PartnersMutual /\ OffersTracked /\ NoOfferYet

-----------------------------------------------------------------------------
(* Lemmas *)

\* Being in range does not depend on the order.
LEMMA NearSymmetric ==
  ASSUME NEW x \in Int, NEW y \in Int, NEW n \in Nat
  PROVE  Near(x, y, n) <=> Near(y, x, n)
  BY DEF Near

\* Closing trades keeps the types of the trade variables.
LEMMA CloseType ==
  ASSUME TypeOK, NEW S, S \subseteq Players, CloseTrades(S)
  PROVE  /\ tradeState' \in [Players -> States]
         /\ tradePartner' \in [Players -> Players \cup {None}]
         /\ tradeItem' \in [Players -> Items \cup {None}]
         /\ tradeItems' \subseteq Items
  BY DEF TypeOK, CloseTrades, AfterTrade, States

\* The item that moves in a swap ends in a place an item may be in.
LEMMA DestinationType ==
  ASSUME TradeAssumption, NEW par, NEW i, NEW q \in Players,
         NEW d \in Destinations(par, i, q)
  PROVE  d \in Players \cup Positions \cup Items
  BY DEF Destinations, TradeAssumption

\* A completed acceptance leaves every item in a place.
LEMMA SwapType ==
  ASSUME TradeAssumption, TypeOK, NEW p \in Players, CompleteAccept(p)
  PROVE  parent' \in [Items -> Players \cup Positions \cup Items]
<1> DEFINE q == tradePartner[p]
           T == Players \cup Positions \cup Items
<1>1. q \in Players
  BY DEF CompleteAccept, SecondAccept, TypeOK
<1>2. CASE UNCHANGED parent
  BY <1>2 DEF TypeOK
<1>3. CASE ~crashed' /\ Swapped(p, q)
  <2>1. PICK d1 \in Destinations(parent, tradeItem[p], q) :
          \E d2 \in Destinations([parent EXCEPT ![tradeItem[p]] = d1], tradeItem[q], p) :
            parent' = [[parent EXCEPT ![tradeItem[p]] = d1] EXCEPT ![tradeItem[q]] = d2]
    BY <1>3 DEF Swapped
  <2> DEFINE halfway == [parent EXCEPT ![tradeItem[p]] = d1]
  <2>2. PICK d2 \in Destinations(halfway, tradeItem[q], p) :
          parent' = [halfway EXCEPT ![tradeItem[q]] = d2]
    BY <2>1
  <2>3. d1 \in T
    BY <1>1, DestinationType
  <2>4. d2 \in T
    BY DestinationType
  <2>5. halfway \in [Items -> T]
    BY <2>3 DEF TypeOK
  <2> QED
    BY <2>2, <2>4, <2>5
<1> QED
  BY <1>2, <1>3 DEF CompleteAccept

\* Closing trades of some players where partners are mutual leaves the rest of
\* the trades whole: whoever keeps his trade has a partner who keeps it too.
LEMMA CloseMutual ==
  ASSUME TradeAssumption, TypeOK, PartnersMutual,
         NEW S, S \subseteq Players, CloseTrades(S)
  PROVE  \A p \in Players :
           /\ p \in S => tradePartner'[p] = None
           /\ tradePartner'[p] = None <=> tradeState'[p] = "NONE"
           /\ tradePartner'[p] # None =>
                /\ tradePartner[p] = tradePartner'[p]
                /\ tradePartner'[p] # p
                /\ tradePartner'[tradePartner'[p]] = p
                /\ p \notin S /\ tradePartner[p] \notin S
<1> DEFINE hit == BothSides(S)
<1> SUFFICES ASSUME NEW p \in Players
    PROVE /\ p \in S => tradePartner'[p] = None
          /\ tradePartner'[p] = None <=> tradeState'[p] = "NONE"
          /\ tradePartner'[p] # None =>
                /\ tradePartner[p] = tradePartner'[p]
                /\ tradePartner'[p] # p
                /\ tradePartner'[tradePartner'[p]] = p
                /\ p \notin S /\ tradePartner[p] \notin S
  OBVIOUS
<1>1. \A r \in Players :
        /\ tradePartner'[r] = IF r \in hit THEN None ELSE tradePartner[r]
        /\ tradeState'[r] = IF r \in hit THEN "NONE" ELSE tradeState[r]
  BY DEF CloseTrades, AfterTrade
<1>2. CASE p \in hit
  BY <1>1, <1>2
<1>3. CASE p \notin hit
  <2>1. p \notin S
    BY <1>3 DEF BothSides
  <2>2. /\ tradePartner'[p] = tradePartner[p]
        /\ tradeState'[p] = tradeState[p]
    BY <1>1, <1>3
  <2>3. ASSUME tradePartner[p] # None
        PROVE  tradePartner[p] \notin hit
    <3>1. /\ tradePartner[p] \in Players
          /\ tradePartner[tradePartner[p]] = p
      BY <2>3 DEF TypeOK, PartnersMutual
    <3>2. tradePartner[p] \notin S
      BY <1>3, <3>1, p \in Players DEF BothSides, TradeAssumption
    <3>3. ASSUME NEW s \in S, tradePartner[s] = tradePartner[p] PROVE FALSE
      BY <2>1, <2>3, <3>1, <3>3 DEF PartnersMutual
    <3> QED
      BY <3>2, <3>3 DEF BothSides
  <2>4. tradePartner[p] = None <=> tradeState[p] = "NONE"
    BY DEF PartnersMutual
  <2>5. ASSUME tradePartner[p] # None
        PROVE  /\ tradePartner[p] # p
               /\ tradePartner'[tradePartner[p]] = p
               /\ tradePartner[p] \notin S
    BY <1>1, <2>3, <2>5 DEF TypeOK, PartnersMutual, BothSides
  <2> QED
    BY <2>1, <2>2, <2>4, <2>5
<1> QED
  BY <1>2, <1>3

\* Closing trades keeps the table of offers exact.
LEMMA CloseOffers ==
  ASSUME TradeAssumption, TypeOK, OffersTracked, NoOfferYet,
         NEW S, S \subseteq Players, CloseTrades(S)
  PROVE  OffersTracked' /\ NoOfferYet'
<1> DEFINE hit == BothSides(S)
<1>1. \A r \in Players :
        /\ tradeItem'[r] = IF r \in hit THEN None ELSE tradeItem[r]
        /\ tradeState'[r] = IF r \in hit THEN "NONE" ELSE tradeState[r]
  BY DEF CloseTrades, AfterTrade
<1>2. tradeItems' = tradeItems \ {tradeItem[r] : r \in hit}
  BY DEF CloseTrades, FreedItems
<1>3. NoOfferYet'
  BY <1>1 DEF NoOfferYet
<1>4. ASSUME NEW p \in Players, NEW q \in Players, p # q, tradeItem'[p] # None
      PROVE  tradeItem'[p] # tradeItem'[q]
  BY <1>1, <1>4 DEF OffersTracked
<1>5. hit \cap Players = hit
  BY DEF BothSides, TypeOK
<1>6. tradeItems' = {tradeItem'[p] : p \in Players} \ {None}
  <2>1. ASSUME NEW i \in tradeItems'
        PROVE  i \in {tradeItem'[p] : p \in Players} \ {None}
    <3>1. PICK p \in Players : tradeItem[p] = i /\ i # None
      BY <1>2 DEF OffersTracked
    <3>2. p \notin hit
      BY <1>2, <3>1
    <3> QED
      BY <1>1, <3>1, <3>2
  <2>2. ASSUME NEW p \in Players, tradeItem'[p] # None
        PROVE  tradeItem'[p] \in tradeItems'
    <3>1. p \notin hit /\ tradeItem'[p] = tradeItem[p]
      BY <1>1, <2>2
    <3>2. tradeItem[p] \in tradeItems
      BY <2>2, <3>1 DEF OffersTracked
    <3>3. ASSUME NEW r \in hit, tradeItem[r] = tradeItem[p] PROVE FALSE
      BY <1>5, <2>2, <3>1, <3>3 DEF OffersTracked
    <3> QED
      BY <1>2, <3>1, <3>2, <3>3
  <2> QED
    BY <2>1, <2>2
<1> QED
  BY <1>3, <1>4, <1>6 DEF OffersTracked

-----------------------------------------------------------------------------
(* One lemma per action *)

\* The actions that end trades of some players and move nobody.
LEMMA CloseStep ==
  ASSUME TradeAssumption, TradeInv, NEW S, S \subseteq Players, CloseTrades(S),
         UNCHANGED <<online, position>>,
         parent' \in [Items -> Players \cup Positions \cup Items],
         crashed' \in BOOLEAN
  PROVE  TradeInv'
<1>1. TypeOK'
  BY CloseType DEF TradeInv, TypeOK
<1>2. PartnersMutual'
  BY CloseMutual DEF TradeInv, PartnersMutual
<1>3. OffersTracked' /\ NoOfferYet'
  BY CloseOffers DEF TradeInv
<1> QED
  BY <1>1, <1>2, <1>3 DEF TradeInv

LEMMA RequestStep ==
  ASSUME TradeAssumption, TradeInv,
         NEW p \in Players, NEW q \in Players, NEW i \in Items, RequestTrade(p, q, i)
  PROVE  TradeInv'
<1> USE DEF TradeInv
<1>1. TypeOK'
  BY DEF TypeOK, RequestTrade, States
<1>2. PartnersMutual'
  <2>1. \A r \in Players : (r \notin {p, q} /\ tradePartner[r] # None) =>
          tradePartner[r] \notin {p, q}
    BY DEF PartnersMutual, RequestTrade, MayStart, TypeOK
  <2>2. /\ tradePartner'[p] = q /\ tradeState'[p] = "INITIATED"
        /\ tradePartner'[q] = p /\ tradeState'[q] # "NONE"
        /\ \A r \in Players : r \notin {p, q} =>
             tradePartner'[r] = tradePartner[r] /\ tradeState'[r] = tradeState[r]
    BY DEF RequestTrade, MayStart, TypeOK, PartnersMutual
  <2>3. Near(position[p], position[q], 2) /\ Near(position[q], position[p], 2)
    BY NearSymmetric DEF RequestTrade, TypeOK, TradeAssumption
  <2>4. ASSUME NEW r \in Players, r \in {p, q}
        PROVE  /\ tradePartner'[r] = None <=> tradeState'[r] = "NONE"
               /\ tradePartner'[r] # None =>
                    /\ tradePartner'[r] # r
                    /\ tradePartner'[tradePartner'[r]] = r
                    /\ {r, tradePartner'[r]} \subseteq online'
                    /\ Near(position'[r], position'[tradePartner'[r]], 2)
    BY <2>2, <2>3, <2>4 DEF RequestTrade, TradeAssumption
  <2>5. ASSUME NEW r \in Players, r \notin {p, q}
        PROVE  /\ tradePartner'[r] = None <=> tradeState'[r] = "NONE"
               /\ tradePartner'[r] # None =>
                    /\ tradePartner'[r] # r
                    /\ tradePartner'[tradePartner'[r]] = r
                    /\ {r, tradePartner'[r]} \subseteq online'
                    /\ Near(position'[r], position'[tradePartner'[r]], 2)
    BY <2>1, <2>2, <2>5 DEF RequestTrade, PartnersMutual, TypeOK
  <2> QED
    BY <2>4, <2>5 DEF PartnersMutual
<1>3. tradeItem[p] = None
  BY DEF RequestTrade, MayStart, NoOfferYet
<1>4. i \notin tradeItems
  BY DEF RequestTrade, AlreadyOffered, Related
<1>5. OffersTracked'
  <2>1. \A r \in Players : tradeItem'[r] = IF r = p THEN i ELSE tradeItem[r]
    BY DEF RequestTrade, TypeOK
  <2>2. tradeItems' = tradeItems \cup {i} /\ i # None
    BY DEF RequestTrade, TradeAssumption
  <2>3. \A r \in Players : tradeItem[r] # i
    BY <1>4, <2>2 DEF OffersTracked
  <2>4. tradeItems' = {tradeItem'[r] : r \in Players} \ {None}
    BY <1>3, <2>1, <2>2 DEF OffersTracked
  <2> QED
    BY <2>1, <2>3, <2>4 DEF OffersTracked
<1>6. NoOfferYet'
  BY DEF RequestTrade, NoOfferYet, TypeOK, States
<1> QED
  BY <1>1, <1>2, <1>5, <1>6

\* An acceptance that is not followed by the swap, first or refused.
LEMMA AcceptStep ==
  ASSUME TradeAssumption, TradeInv, NEW p \in Players, FirstAccept(p) \/ DenyAccept(p)
  PROVE  TradeInv'
<1> USE DEF TradeInv
<1>1. /\ tradeState' = [tradeState EXCEPT ![p] = "ACCEPT"]
      /\ UNCHANGED <<online, position, parent, tradePartner, tradeItem, tradeItems, crashed>>
      /\ tradeState[p] # "NONE"
  BY DEF FirstAccept, DenyAccept, SecondAccept, MayAccept
<1>2. TypeOK'
  BY <1>1 DEF TypeOK, States
<1>3. PartnersMutual'
  BY <1>1 DEF PartnersMutual, TypeOK
<1>4. OffersTracked'
  BY <1>1 DEF OffersTracked
<1>5. NoOfferYet'
  BY <1>1 DEF NoOfferYet, TypeOK
<1> QED
  BY <1>2, <1>3, <1>4, <1>5

LEMMA MoveStep ==
  ASSUME TradeAssumption, TradeInv, NEW p \in Players, NEW x \in Positions, Move(p, x)
  PROVE  TradeInv'
<1> USE DEF TradeInv
<1> DEFINE S == IF TooFar(p, x) THEN {p} ELSE {}
<1>1. S \subseteq Players /\ CloseTrades(S)
  BY DEF Move
<1>2. TypeOK'
  BY <1>1, CloseType DEF TypeOK, Move
<1>3. OffersTracked' /\ NoOfferYet'
  BY <1>1, CloseOffers
<1>4. PartnersMutual'
  <2> SUFFICES ASSUME NEW r \in Players, tradePartner'[r] # None
      PROVE /\ {r, tradePartner[r]} \subseteq online'
            /\ Near(position'[r], position'[tradePartner[r]], 2)
    BY <1>1, CloseMutual DEF PartnersMutual
  <2>1. /\ tradePartner[r] = tradePartner'[r] /\ tradePartner[r] # r
        /\ r \notin S /\ tradePartner[r] \notin S
    BY <1>1, CloseMutual
  <2>2. /\ tradePartner[r] \in Players /\ tradePartner[tradePartner[r]] = r
        /\ {r, tradePartner[r]} \subseteq online
        /\ Near(position[r], position[tradePartner[r]], 2)
    BY <2>1 DEF PartnersMutual, TypeOK
  <2>3. CASE p \notin {r, tradePartner[r]}
    BY <2>2, <2>3 DEF Move, TypeOK
  <2>4. CASE p = r
    <3>1. Near(position[tradePartner[r]], x, 2)
      BY <2>1, <2>4 DEF TooFar, PartnerTooFar
    <3>2. /\ position'[r] = x /\ position'[tradePartner[r]] = position[tradePartner[r]]
          /\ x \in Int /\ position[tradePartner[r]] \in Int
      BY <2>1, <2>2, <2>4 DEF Move, TypeOK, TradeAssumption
    <3> QED
      BY <2>2, <3>1, <3>2, NearSymmetric DEF Move
  <2>5. CASE p = tradePartner[r]
    <3>1. Near(position[r], x, 2)
      BY <2>1, <2>2, <2>5 DEF TooFar, PartnerTooFar, TradeAssumption
    <3>2. position'[tradePartner[r]] = x /\ position'[r] = position[r]
      BY <2>1, <2>2, <2>5 DEF Move, TypeOK
    <3> QED
      BY <2>2, <3>1, <3>2 DEF Move
  <2> QED
    BY <2>3, <2>4, <2>5
<1> QED
  BY <1>2, <1>3, <1>4

LEMMA LogoutStep ==
  ASSUME TradeAssumption, TradeInv, NEW p \in Players, Logout(p)
  PROVE  TradeInv'
<1> USE DEF TradeInv
<1>1. LeavesTrade(p) \subseteq Players /\ CloseTrades(LeavesTrade(p))
  BY DEF Logout, LeavesTrade
<1>2. TypeOK'
  BY <1>1, CloseType DEF TypeOK, Logout
<1>3. OffersTracked' /\ NoOfferYet'
  BY <1>1, CloseOffers
<1>4. PartnersMutual'
  <2> SUFFICES ASSUME NEW r \in Players, tradePartner'[r] # None
      PROVE /\ {r, tradePartner[r]} \subseteq online'
            /\ Near(position'[r], position'[tradePartner[r]], 2)
    BY <1>1, CloseMutual DEF PartnersMutual
  <2>1. /\ tradePartner[r] # None
        /\ r \notin LeavesTrade(p) /\ tradePartner[r] \notin LeavesTrade(p)
    BY <1>1, CloseMutual
  <2>2. tradePartner[tradePartner[r]] = r /\ {r, tradePartner[r]} \subseteq online
    BY <2>1 DEF PartnersMutual
  <2>3. p \notin {r, tradePartner[r]}
    BY <2>1, <2>2 DEF LeavesTrade, TradeAssumption
  <2> QED
    BY <2>1, <2>2, <2>3 DEF Logout, PartnersMutual
<1> QED
  BY <1>2, <1>3, <1>4

LEMMA LoginStep ==
  ASSUME TradeInv, NEW p \in Players, Login(p)
  PROVE  TradeInv'
  BY DEF TradeInv, Login, tvars, TypeOK, PartnersMutual, OffersTracked, NoOfferYet

-----------------------------------------------------------------------------
(* What lies in what *)

\* S has what i lies in, and with an item what that lies in.
Goes(par, i, S) == par[i] \in S /\ \A j \in S \cap Items : par[j] \in S

\* Above is the least such set: as many rounds as there are items are enough,
\* for a round that does not yet complete it adds an item.
LEMMA AboveIsLeast ==
  ASSUME NEW par, NEW i \in Items
  PROVE  /\ Goes(par, i, Above(par, i))
         /\ \A S : Goes(par, i, S) => Above(par, i) \subseteq S
<1> DEFINE T == SUBSET {par[j] : j \in Items}
           F == [s \in T |-> s \cup {par[j] : j \in s \cap Items}]
           Up(g) == g = [n \in Nat |->
                      IF n = 0 THEN {par[i]}
                      ELSE LET below == g[n - 1]
                           IN  below \cup {par[j] : j \in below \cap Items}]
           up == CHOOSE g : Up(g)
           N == Cardinality(Items)
<1>0. IsFiniteSet(Items) /\ N \in Nat
  BY TradeAssumption, FS_CardinalityType
<1>1. Above(par, i) = up[N]
  BY DEF Above
<1>2. {par[i]} \in T /\ F \in [T -> T]
  OBVIOUS
<1>3. PICK g \in [Nat -> T] : g[0] = {par[i]} /\ \A n \in Nat : g[n + 1] = F[g[n]]
  <2> HIDE DEF T, F
  <2> QED BY <1>2, FunctionByRecursion
<1>4. Up(g)
  <2>1. ASSUME NEW n \in Nat, n # 0
        PROVE  g[n] = g[n - 1] \cup {par[j] : j \in g[n - 1] \cap Items}
    <3>1. n - 1 \in Nat /\ (n - 1) + 1 = n
      BY <2>1
    <3>2. g[n] = F[g[n - 1]] /\ g[n - 1] \in T
      BY <1>3, <3>1
    <3> QED BY <3>2
  <2> QED BY <1>3, <2>1
<1>5. Up(up)
  <2> HIDE DEF Up
  <2> QED BY <1>4
<1> HIDE DEF up
<1>6. up[0] = {par[i]}
  BY <1>5
<1>7. ASSUME NEW n \in Nat
      PROVE  up[n + 1] = up[n] \cup {par[j] : j \in up[n] \cap Items}
  <2>1. n + 1 \in Nat /\ n + 1 # 0 /\ (n + 1) - 1 = n
    OBVIOUS
  <2> QED BY <1>5, <2>1
<1> DEFINE Whole(s) == \A j \in s \cap Items : par[j] \in s
           Grows == {n \in Nat : /\ par[i] \in up[n]
                                 /\ Whole(up[n]) \/ Cardinality(up[n] \cap Items) > n}
<1>8. \A n \in Nat : IsFiniteSet(up[n] \cap Items) /\ Cardinality(up[n] \cap Items) \in Nat
  BY <1>0, FS_Subset, FS_CardinalityType
<1>9. 0 \in Grows
  <2>1. CASE par[i] \in Items
    <3>1. up[0] \cap Items = {par[i]}
      BY <1>6, <2>1
    <3>2. Cardinality(up[0] \cap Items) = 1
      BY <3>1, FS_Singleton
    <3> QED BY <1>6, <3>2
  <2>2. CASE par[i] \notin Items
    BY <1>6, <2>2
  <2> QED BY <2>1, <2>2
<1>10. ASSUME NEW n \in Grows PROVE n + 1 \in Grows
  <2>0. n \in Nat /\ n + 1 \in Nat /\ par[i] \in up[n]
    OBVIOUS
  <2>1. up[n + 1] = up[n] \cup {par[j] : j \in up[n] \cap Items}
    BY <1>7, <2>0
  <2>2. CASE Whole(up[n])
    <3>1. up[n + 1] = up[n]
      BY <2>1, <2>2
    <3> QED BY <2>0, <2>2, <3>1
  <2>3. CASE ~Whole(up[n]) /\ ~Whole(up[n + 1])
    <3>1. PICK j \in up[n + 1] \cap Items : par[j] \notin up[n + 1]
      BY <2>3
    <3>2. j \notin up[n]
      BY <2>1, <3>1
    <3> DEFINE old == up[n] \cap Items
               new == up[n + 1] \cap Items
    <3>3. old \cup {j} \subseteq new /\ j \notin old /\ j \in new
      BY <2>1, <3>1, <3>2
    <3>4. /\ IsFiniteSet(old) /\ IsFiniteSet(new)
          /\ Cardinality(old) \in Nat /\ Cardinality(new) \in Nat
          /\ Cardinality(old) > n
      BY <1>8, <2>0, <2>3
    <3> HIDE DEF old, new
    <3>5. Cardinality(old \cup {j}) = Cardinality(old) + 1
      BY <3>3, <3>4, FS_AddElement
    <3>6. Cardinality(old \cup {j}) <= Cardinality(new)
      BY <3>3, <3>4, FS_Subset
    <3>7. Cardinality(new) > n + 1
      BY <2>0, <3>4, <3>5, <3>6
    <3> QED BY <2>0, <2>1, <3>7 DEF new
  <2>4. CASE Whole(up[n + 1])
    BY <2>0, <2>1, <2>4
  <2> QED BY <2>2, <2>3, <2>4
<1>11. Grows = Nat
  <2>1. Grows \subseteq Nat
    OBVIOUS
  <2> HIDE DEF Grows
  <2> QED BY <1>9, <1>10, <2>1, SetOfNaturals
<1>12. par[i] \in up[N] /\ Whole(up[N])
  <2>1. par[i] \in up[N] /\ (Whole(up[N]) \/ Cardinality(up[N] \cap Items) > N)
    BY <1>0, <1>11
  <2>2. Cardinality(up[N] \cap Items) <= N /\ Cardinality(up[N] \cap Items) \in Nat
    <3>1. up[N] \cap Items \subseteq Items
      OBVIOUS
    <3> QED BY <1>0, <1>8, <3>1, FS_Subset
  <2> QED BY <1>0, <2>1, <2>2
<1>13. ASSUME NEW S, Goes(par, i, S) PROVE up[N] \subseteq S
  <2> DEFINE Inside == {n \in Nat : up[n] \subseteq S}
  <2>1. 0 \in Inside
    BY <1>6, <1>13 DEF Goes
  <2>2. ASSUME NEW n \in Inside PROVE n + 1 \in Inside
    <3>1. n \in Nat /\ n + 1 \in Nat /\ up[n] \subseteq S
      OBVIOUS
    <3> QED BY <1>7, <1>13, <3>1 DEF Goes
  <2>3. Inside \subseteq Nat
    OBVIOUS
  <2>4. Inside = Nat
    <3> HIDE DEF Inside
    <3> QED BY <2>1, <2>2, <2>3, SetOfNaturals
  <2> QED BY <1>0, <2>4
<1> QED BY <1>1, <1>12, <1>13 DEF Goes

\* One step up, and then what is above that.
LEMMA AboveStep ==
  ASSUME NEW par, NEW i \in Items
  PROVE  Above(par, i) = {par[i]} \cup (IF par[i] \in Items THEN Above(par, par[i]) ELSE {})
<1> DEFINE S == {par[i]} \cup (IF par[i] \in Items THEN Above(par, par[i]) ELSE {})
<1>1. Goes(par, i, S)
  BY AboveIsLeast DEF Goes
<1>2. Above(par, i) \subseteq S
  BY <1>1, AboveIsLeast
<1>3. par[i] \in Items => Goes(par, par[i], Above(par, i))
  BY AboveIsLeast DEF Goes
<1>4. par[i] \in Items => Above(par, par[i]) \subseteq Above(par, i)
  BY <1>3, AboveIsLeast
<1>5. par[i] \in Above(par, i)
  BY AboveIsLeast DEF Goes
<1> QED BY <1>2, <1>4, <1>5

\* What is above something that is above i is above i.
LEMMA AboveTransitive ==
  ASSUME NEW par, NEW i \in Items, NEW j \in Above(par, i) \cap Items
  PROVE  Above(par, j) \subseteq Above(par, i)
<1>1. Goes(par, j, Above(par, i))
  BY AboveIsLeast DEF Goes
<1> QED BY <1>1, AboveIsLeast

\* Of two places above an item one is above the other.
LEMMA AboveChain ==
  ASSUME NEW par, NEW i \in Items,
         NEW a \in Above(par, i), NEW b \in Above(par, i), a # b, a \in Items
  PROVE  b \in Above(par, a) \/ (b \in Items /\ a \in Above(par, b))
<1> DEFINE S == {c \in Above(par, i) : \/ c = a \/ c \in Above(par, a)
                                       \/ c \in Items /\ a \in Above(par, c)}
<1>1. ASSUME NEW k \in Items, par[k] \in Above(par, i),
             k = a \/ k \in Above(par, a) \/ a \in Above(par, k)
      PROVE  par[k] \in S
  <2>1. CASE k = a
    BY <1>1, <2>1, AboveIsLeast DEF Goes
  <2>2. CASE k \in Above(par, a)
    BY <1>1, <2>2, AboveIsLeast DEF Goes
  <2>3. CASE a \in Above(par, k)
    <3>1. a = par[k] \/ (par[k] \in Items /\ a \in Above(par, par[k]))
      BY <2>3, AboveStep
    <3> QED BY <1>1, <3>1
  <2> QED BY <1>1, <2>1, <2>2, <2>3
<1>2. Goes(par, i, Above(par, i))
  BY AboveIsLeast
<1>3. par[i] \in S
  BY <1>1, <1>2 DEF Goes
<1>4. \A k \in S \cap Items : par[k] \in S
  BY <1>1, <1>2 DEF Goes
<1>5. Above(par, i) \subseteq S
  <2>1. Goes(par, i, S)
    BY <1>3, <1>4 DEF Goes
  <2> QED BY <2>1, AboveIsLeast
<1> QED BY <1>5

\* At most one place above an item is none.
LEMMA OneRoot ==
  ASSUME NEW par, NEW i \in Items,
         NEW r \in Above(par, i), NEW q \in Above(par, i), r \notin Items, q \notin Items
  PROVE  r = q
<1> DEFINE S == {c \in Above(par, i) : c = r \/ (c \in Items /\ r \in Above(par, c))}
<1>1. ASSUME NEW k \in Items, par[k] \in Above(par, i), r \in Above(par, k)
      PROVE  par[k] \in S
  <2>1. r = par[k] \/ (par[k] \in Items /\ r \in Above(par, par[k]))
    BY <1>1, AboveStep
  <2> QED BY <1>1, <2>1
<1>2. Goes(par, i, Above(par, i))
  BY AboveIsLeast
<1>3. par[i] \in S /\ \A k \in S \cap Items : par[k] \in S
  BY <1>1, <1>2 DEF Goes
<1>4. Above(par, i) \subseteq S
  <2>1. Goes(par, i, S)
    BY <1>3 DEF Goes
  <2> QED BY <2>1, AboveIsLeast
<1> QED BY <1>4

\* No item lies in itself: then every item is at a player or on the floor.
Forest(par) == \A i \in Items : ~Holds(par, i, i)

LEMMA Rooted ==
  ASSUME NEW par, Forest(par), NEW i \in Items
  PROVE  RootIn(par, i) \in Above(par, i) /\ RootIn(par, i) \notin Items
<1> SUFFICES ASSUME Above(par, i) \subseteq Items PROVE FALSE
  BY DEF RootIn
<1> DEFINE A == Above(par, i)
           Sizes == {Cardinality(Above(par, j)) : j \in A}
<1>1. A # {}
  BY AboveIsLeast DEF Goes
<1>2. \A j \in A : j \in Items /\ Above(par, j) \subseteq A
  BY AboveTransitive
<1>3. \A s \in SUBSET A : IsFiniteSet(s) /\ Cardinality(s) \in Nat
  BY TradeAssumption, FS_Subset, FS_CardinalityType
<1>4. Sizes \subseteq Nat /\ Sizes # {}
  BY <1>1, <1>2, <1>3
<1>5. \E x \in Sizes : \A y \in Sizes : ~ (<<y, x>> \in OpToRel(<, Nat))
  <2> HIDE DEF Sizes
  <2> QED BY <1>4, NatLessThanWellFounded, WFMin
<1>6. PICK j \in A : \A k \in A : ~ (Cardinality(Above(par, k)) < Cardinality(Above(par, j)))
  <2>1. \E x \in Sizes : \A y \in Sizes : ~ (y < x)
    BY <1>4, <1>5 DEF OpToRel
  <2> QED BY <2>1
<1> HIDE DEF A, Sizes
<1>7. par[j] \in Above(par, j) /\ par[j] \in A /\ par[j] \in Items /\ j \in Items
  BY <1>2, AboveIsLeast DEF Goes
<1>8. Above(par, par[j]) \subseteq Above(par, j) \ {par[j]}
  BY <1>7, AboveTransitive DEF Forest, Holds
<1> DEFINE all == Above(par, j)
           fewer == Above(par, par[j])
<1>9. /\ all \in SUBSET A /\ fewer \in SUBSET A /\ par[j] \in all /\ par[j] \in A
      /\ fewer \subseteq all \ {par[j]}
  BY <1>2, <1>7, <1>8
<1>10. ~ (Cardinality(fewer) < Cardinality(all))
  BY <1>6, <1>7
<1> HIDE DEF all, fewer
<1>11. /\ IsFiniteSet(all) /\ Cardinality(all) \in Nat /\ Cardinality(fewer) \in Nat
       /\ IsFiniteSet(all \ {par[j]})
  BY <1>3, <1>9, FS_RemoveElement
<1>12. Cardinality(all \ {par[j]}) = Cardinality(all) - 1
  BY <1>9, <1>11, FS_RemoveElement
<1>13. Cardinality(fewer) <= Cardinality(all \ {par[j]})
  BY <1>9, <1>11, FS_Subset
<1> QED BY <1>10, <1>11, <1>12, <1>13

\* Where an item may be said to be, if it lies in d under the map par.
RootOf(par, d) == IF d \in Items THEN RootIn(par, d) ELSE d

LEMMA RootIs ==
  ASSUME NEW par, NEW i \in Items, NEW r \in Above(par, i), r \notin Items
  PROVE  RootIn(par, i) = r
<1>1. RootIn(par, i) \in Above(par, i) /\ RootIn(par, i) \notin Items
  BY DEF RootIn
<1> QED BY <1>1, OneRoot

LEMMA RootAbove ==
  ASSUME NEW par, Forest(par), NEW i \in Items, NEW j \in Above(par, i) \cap Items
  PROVE  RootIn(par, i) = RootIn(par, j)
<1>1. RootIn(par, j) \in Above(par, j) /\ RootIn(par, j) \notin Items
  BY Rooted
<1>2. RootIn(par, j) \in Above(par, i)
  BY <1>1, AboveTransitive
<1> QED BY <1>1, <1>2, RootIs

\* Moving an item changes nothing above those that do not lie in it.
LEMMA MovedAbove ==
  ASSUME NEW par, NEW new, NEW i \in Items, \A j \in Items \ {i} : new[j] = par[j],
         NEW k \in Items, k # i, ~Holds(par, i, k)
  PROVE  Above(new, k) = Above(par, k)
<1>1. \A j \in Items : j # i => new[j] = par[j]
  OBVIOUS
<1>2. Goes(par, k, Above(par, k)) /\ i \notin Above(par, k)
  BY AboveIsLeast DEF Holds
<1>3. Goes(new, k, Above(par, k))
  BY <1>1, <1>2 DEF Goes
<1>4. Above(new, k) \subseteq Above(par, k)
  BY <1>3, AboveIsLeast
<1>5. Goes(new, k, Above(new, k)) /\ i \notin Above(new, k)
  BY <1>2, <1>4, AboveIsLeast
<1>6. Goes(par, k, Above(new, k))
  BY <1>1, <1>5 DEF Goes
<1>7. Above(par, k) \subseteq Above(new, k)
  BY <1>6, AboveIsLeast
<1> QED BY <1>4, <1>7

\* Those that lie in it still do.
LEMMA MovedHolds ==
  ASSUME NEW par, NEW new, NEW i \in Items, \A j \in Items \ {i} : new[j] = par[j],
         NEW k \in Items, k # i
  PROVE  Holds(new, i, k) <=> Holds(par, i, k)
<1>1. ~Holds(par, i, k) => Above(new, k) = Above(par, k)
  BY MovedAbove
<1>2. \A j \in Items \ {i} : par[j] = new[j]
  OBVIOUS
<1>3. ~Holds(new, i, k) => Above(par, k) = Above(new, k)
  BY <1>2, MovedAbove
<1> QED BY <1>1, <1>3 DEF Holds

\* A move that does not put an item into itself keeps the forest, and takes
\* all that lies in the item to where it goes.
LEMMA MovedForest ==
  ASSUME NEW par, NEW new, NEW i \in Items, NEW d,
         \A j \in Items \ {i} : new[j] = par[j], new[i] = d, Forest(par),
         d \in Items => d # i /\ ~Holds(par, i, d)
  PROVE  /\ Forest(new)
         /\ \A k \in Items :
              RootIn(new, k)
                = IF k = i \/ Holds(par, i, k) THEN RootOf(par, d) ELSE RootIn(par, k)
<1> DEFINE S == {d} \cup (IF d \in Items THEN Above(par, d) ELSE {})
<1>1. /\ \A j \in Items : j # i => new[j] = par[j]
      /\ \A k \in Items : k # i /\ ~Holds(par, i, k) => Above(new, k) = Above(par, k)
      /\ \A k \in Items : k # i => (Holds(new, i, k) <=> Holds(par, i, k))
  BY MovedAbove, MovedHolds
<1>2. Above(new, i) = S
  BY <1>1, AboveStep
<1>3. i \notin S
  BY DEF Holds
<1>4. ASSUME NEW k \in Items PROVE ~Holds(new, k, k)
  <2>1. CASE k = i
    BY <1>2, <1>3, <2>1 DEF Holds
  <2>2. CASE k # i /\ ~Holds(par, i, k)
    BY <1>1, <2>2 DEF Forest, Holds
  <2>3. CASE k # i /\ Holds(par, i, k)
    <3> DEFINE R == Above(par, k) \cup S
    <3>1. \A j \in S \cap Items : par[j] \in S
      BY AboveIsLeast DEF Goes
    <3>2. Goes(par, k, Above(par, k))
      BY AboveIsLeast
    <3>3. d \in S
      OBVIOUS
    <3> HIDE DEF S
    <3>4. ASSUME NEW j \in R \cap Items PROVE new[j] \in R
      <4>1. CASE j = i
        BY <1>1, <3>3, <4>1
      <4>2. CASE j # i
        BY <1>1, <3>1, <3>2, <4>2 DEF Goes
      <4> QED BY <4>1, <4>2
    <3>5. new[k] \in R
      BY <1>1, <2>3, <3>2 DEF Goes
    <3>6. Above(new, k) \subseteq R
      <4>1. Goes(new, k, R)
        BY <3>4, <3>5 DEF Goes
      <4> QED BY <4>1, AboveIsLeast
    <3>7. k \notin Above(par, k)
      BY DEF Forest, Holds
    <3>8. k \notin S
      <4> SUFFICES ASSUME k \in S PROVE FALSE
        OBVIOUS
      <4>1. k # d
        BY <2>3
      <4>2. d \in Items /\ k \in Above(par, d)
        BY <4>1 DEF S
      <4>3. Above(par, k) \subseteq Above(par, d)
        BY <4>2, AboveTransitive
      <4> QED BY <2>3, <4>2, <4>3 DEF Holds
    <3> QED BY <3>6, <3>7, <3>8 DEF Holds
  <2> QED BY <2>1, <2>2, <2>3
<1>5. Forest(new)
  BY <1>4 DEF Forest
<1>6. ASSUME NEW k \in Items, k = i \/ Holds(par, i, k)
      PROVE  RootIn(new, k) = RootOf(par, d)
  <2>1. k = i \/ i \in Above(new, k)
    BY <1>1, <1>6 DEF Holds
  <2>2. S \subseteq Above(new, k)
    <3>1. i \in Above(new, k) => Above(new, i) \subseteq Above(new, k)
      BY AboveTransitive
    <3> QED BY <1>2, <2>1, <3>1
  <2>3. RootOf(par, d) \in S /\ RootOf(par, d) \notin Items
    BY Rooted DEF RootOf
  <2> HIDE DEF S
  <2> QED BY <2>2, <2>3, RootIs
<1>7. ASSUME NEW k \in Items, ~(k = i \/ Holds(par, i, k))
      PROVE  RootIn(new, k) = RootIn(par, k)
  BY <1>1, <1>7 DEF RootIn
<1> QED BY <1>5, <1>6, <1>7

-----------------------------------------------------------------------------
(* The invariant about places *)

Homes == Players \cup Positions \cup Containers \cup Stacks

\* Items lie at players, on the floor and in each other, none in itself.
Placed == parent \in [Items -> Homes] /\ Forest(parent)

\* No offered item is part of a stack that took it in.
Unmerged == \A p \in Players : tradeItem[p] # None => parent[tradeItem[p]] \notin Stacks

PlaceInv == Placed /\ Unmerged /\ OffersInPlace

\* An item is put where it can be put: at the player, or in something else of his.
LEMMA DestinationApart ==
  ASSUME NEW par \in [Items -> Homes], NEW i \in Items, NEW q \in Players,
         NEW d \in Destinations(par, i, q)
  PROVE  /\ d \in Homes /\ RootOf(par, d) = q
         /\ d \in Items => d # i /\ ~Holds(par, i, d)
<1>1. /\ Containers \subseteq Items /\ Stacks \subseteq Items
      /\ q \notin Items
  BY TradeAssumption
<1>2. CASE d = q
  BY <1>1, <1>2 DEF Homes, RootOf
<1>3. CASE d \in Containers /\ RootIn(par, d) = q /\ d # i /\ ~Holds(par, i, d)
  BY <1>1, <1>3 DEF Homes, RootOf
<1>4. CASE /\ d \in Stacks /\ d # i /\ RootIn(par, d) = q
           /\ par[d] = q \/ (par[d] \in Containers /\ par[d] # i /\ ~Holds(par, i, d))
  <2>1. par[d] = q => Above(par, d) = {q}
    BY <1>1, <1>4, AboveStep
  <2> QED BY <1>1, <1>4, <2>1 DEF Homes, RootOf, Holds
<1> QED BY <1>2, <1>3, <1>4 DEF Destinations

\* Where the search for room at q finds it in what q offers, the offer lies in
\* a container, not in a slot.
LEMMA DestinationInOffer ==
  ASSUME Placed, Unmerged, NEW i \in Items, NEW q \in Players, NEW b \in Items,
         tradeItem[q] = b, NEW d \in Destinations(parent, i, q) \cap Items,
         d = b \/ Holds(parent, b, d)
  PROVE  parent[b] \in Containers
<1>1. /\ Containers \subseteq Items /\ Stacks \subseteq Items
      /\ q \notin Items /\ (Players \cup Positions) \cap Items = {} /\ b # None
  BY TradeAssumption
<1>2. RootIn(parent, d) = q
  BY <1>1 DEF Destinations
<1>3. ASSUME parent[b] # q PROVE parent[b] \in Containers
  <2>1. RootIn(parent, b) = q
    BY <1>2, RootAbove DEF Placed, Holds
  <2>2. parent[b] \in Items
    <3>1. parent[b] \in Above(parent, b)
      BY AboveIsLeast DEF Goes
    <3> QED BY <1>3, <2>1, <3>1, RootIs
  <2> QED BY <1>1, <2>2 DEF Placed, Homes, Unmerged
<1>4. CASE d \in Containers /\ Spared(parent, q, d)
  BY <1>3, <1>4 DEF Spared
<1>5. CASE d \in Stacks /\ parent[d] = q /\ d # b
  <2>1. Above(parent, d) = {q}
    BY <1>1, <1>5, AboveStep
  <2> QED BY <1>1, <1>5, <2>1 DEF Holds
<1>6. CASE d \in Stacks /\ parent[d] \in Containers /\ Spared(parent, q, parent[d])
  <2>1. CASE d = b
    BY <1>6, <2>1
  <2>2. CASE d # b
    <3>1. Above(parent, d) = {parent[d]} \cup Above(parent, parent[d])
      BY <1>1, <1>6, AboveStep
    <3>2. Holds(parent, b, parent[d]) /\ parent[d] # b
      BY <1>6, <2>2, <3>1 DEF Holds, Spared
    <3> QED BY <1>3, <1>6, <3>2 DEF Spared
  <2> QED BY <2>1, <2>2
<1> QED BY <1>1, <1>4, <1>5, <1>6 DEF Destinations

\* What the two moves of a completed trade do.
LEMMA SwapMoves ==
  ASSUME Placed, Unmerged, NEW p \in Players, NEW q \in Players,
         NEW a \in Items, NEW b \in Items, tradeItem[p] = a, tradeItem[q] = b,
         ~Related(parent, a, b), Swapped(p, q)
  PROVE  /\ Placed'
         /\ RootIn(parent', b) = p
         /\ RootIn(parent', a) = q \/ (Holds(parent', b, a) /\ parent[b] \in Containers)
         /\ \A k \in Items :
              /\ k = a \/ Holds(parent, a, k) => RootIn(parent', k) \in {p, q}
              /\ k = b \/ Holds(parent, b, k) => RootIn(parent', k) = p
              /\ k \notin {a, b} => parent'[k] = parent[k]
              /\ k \notin {a, b} /\ ~Holds(parent, a, k) /\ ~Holds(parent, b, k)
                   => Above(parent', k) = Above(parent, k)
<1>0. /\ parent \in [Items -> Homes] /\ Forest(parent)
      /\ a # b /\ ~Holds(parent, a, b) /\ ~Holds(parent, b, a)
  BY DEF Placed, Related
<1>1. PICK d1 \in Destinations(parent, a, q) :
        \E d2 \in Destinations([parent EXCEPT ![a] = d1], b, p) :
          parent' = [[parent EXCEPT ![a] = d1] EXCEPT ![b] = d2]
  BY DEF Swapped
<1> DEFINE halfway == [parent EXCEPT ![a] = d1]
<1>2. PICK d2 \in Destinations(halfway, b, p) : parent' = [halfway EXCEPT ![b] = d2]
  BY <1>1
<1>3. /\ d1 \in Homes /\ RootOf(parent, d1) = q
      /\ d1 \in Items => d1 # a /\ ~Holds(parent, a, d1)
  BY <1>0, DestinationApart
<1>4. /\ halfway \in [Items -> Homes] /\ halfway[a] = d1
      /\ \A j \in Items \ {a} : halfway[j] = parent[j]
  BY <1>0, <1>3
<1> DEFINE final == parent'
<1>5. final = [halfway EXCEPT ![b] = d2]
  BY <1>2
<1> HIDE DEF halfway, final
<1>6. /\ d2 \in Homes /\ RootOf(halfway, d2) = p
      /\ d2 \in Items => d2 # b /\ ~Holds(halfway, b, d2)
  BY <1>2, <1>4, DestinationApart
<1>7. /\ final \in [Items -> Homes] /\ final[b] = d2
      /\ \A j \in Items \ {b} : final[j] = halfway[j]
  BY <1>4, <1>5, <1>6
<1>8. /\ Forest(halfway)
      /\ \A k \in Items : RootIn(halfway, k)
                            = IF k = a \/ Holds(parent, a, k) THEN q ELSE RootIn(parent, k)
  BY <1>0, <1>3, <1>4, MovedForest
<1>9. /\ Forest(final)
      /\ \A k \in Items : RootIn(final, k)
                            = IF k = b \/ Holds(halfway, b, k) THEN p ELSE RootIn(halfway, k)
  BY <1>6, <1>7, <1>8, MovedForest
<1>10. \A k \in Items : k # a /\ ~Holds(parent, a, k) => Above(halfway, k) = Above(parent, k)
  BY <1>4, MovedAbove
<1>11. \A k \in Items : k # b /\ ~Holds(halfway, b, k) => Above(final, k) = Above(halfway, k)
  BY <1>7, MovedAbove
<1>12. \A k \in Items : k = b \/ Holds(parent, b, k) => k = b \/ Holds(halfway, b, k)
  <2> SUFFICES ASSUME NEW k \in Items, Holds(parent, b, k) PROVE Holds(halfway, b, k)
    OBVIOUS
  <2>1. k # a
    BY <1>0
  <2>2. ~Holds(parent, a, k)
    <3> SUFFICES ASSUME Holds(parent, a, k) PROVE FALSE
      OBVIOUS
    <3> QED BY <1>0, AboveChain DEF Holds
  <2> QED BY <1>10, <2>1, <2>2 DEF Holds
<1>13. RootIn(final, a) = q \/ (Holds(final, b, a) /\ parent[b] \in Containers)
  <2>1. CASE ~Holds(halfway, b, a)
    BY <1>0, <1>8, <1>9, <2>1
  <2>2. CASE Holds(halfway, b, a)
    <3>1. Holds(final, b, a)
      BY <1>0, <1>7, <2>2, MovedHolds
    <3>2. b = d1 \/ (d1 \in Items /\ b \in Above(halfway, d1))
      BY <1>4, <2>2, AboveStep DEF Holds
    <3>3. d1 \in Items /\ (b = d1 \/ Holds(parent, b, d1))
      BY <1>3, <1>10, <3>2 DEF Holds
    <3>4. parent[b] \in Containers
      BY <3>3, DestinationInOffer
    <3> QED BY <3>1, <3>4
  <2> QED BY <2>1, <2>2
<1>14. \A k \in Items : k \notin {a, b} => final[k] = parent[k]
  BY <1>4, <1>7
<1>15. \A k \in Items : k \notin {a, b} /\ ~Holds(parent, a, k) /\ ~Holds(parent, b, k)
                          => Above(final, k) = Above(parent, k)
  BY <1>10, <1>11 DEF Holds
<1>16. \A k \in Items : /\ k = a \/ Holds(parent, a, k) => RootIn(final, k) \in {p, q}
                        /\ k = b \/ Holds(parent, b, k) => RootIn(final, k) = p
  BY <1>8, <1>9, <1>12
<1>17. RootIn(final, b) = p
  BY <1>9
<1> QED BY <1>7, <1>9, <1>13, <1>14, <1>15, <1>16, <1>17 DEF Placed, final

\* Whose trade goes on after some were closed, has his offer still, and so has
\* his partner; who closed one has none.
LEMMA KeptOffers ==
  ASSUME TradeInv, NEW S, S \subseteq Players, CloseTrades(S), NEW p \in Players
  PROVE  /\ tradeItem'[p] # None => tradeItem'[p] = tradeItem[p] /\ p \notin BothSides(S)
         /\ tradePartner'[p] # None =>
              /\ tradePartner[p] = tradePartner'[p] /\ p \notin BothSides(S)
              /\ tradePartner[p] \in Players /\ tradePartner[p] \notin BothSides(S)
              /\ tradePartner'[tradePartner[p]] = p
              /\ tradeItem'[tradePartner[p]] = tradeItem[tradePartner[p]]
<1>1. \A r \in Players :
        /\ tradePartner'[r] = IF r \in BothSides(S) THEN None ELSE tradePartner[r]
        /\ tradeItem'[r] = IF r \in BothSides(S) THEN None ELSE tradeItem[r]
  BY DEF CloseTrades
<1>2. ASSUME tradePartner'[p] # None
      PROVE  /\ tradePartner[p] = tradePartner'[p] /\ p \notin BothSides(S)
             /\ tradePartner[p] \in Players /\ tradePartner[p] \notin BothSides(S)
             /\ tradePartner'[tradePartner[p]] = p
             /\ tradeItem'[tradePartner[p]] = tradeItem[tradePartner[p]]
  <2>1. p \notin BothSides(S) /\ tradePartner[p] = tradePartner'[p]
    BY <1>1, <1>2
  <2>2. tradePartner[p] \in Players
    BY <1>2, <2>1 DEF TradeInv, TypeOK
  <2>3. tradePartner'[tradePartner[p]] = p
    BY <1>2, <2>1, CloseMutual, TradeAssumption DEF TradeInv
  <2>4. tradePartner[p] \notin BothSides(S)
    <3>1. p # None
      BY TradeAssumption
    <3> QED BY <1>1, <2>2, <2>3, <3>1
  <2> QED BY <1>1, <2>1, <2>2, <2>3, <2>4
<1> QED BY <1>1, <1>2

\* Steps in which nobody moves and every open offer stays where it is.
LEMMA OffersStay ==
  ASSUME PlaceInv, Placed', position' = position,
         \A p \in Players : tradeItem'[p] # None =>
           /\ tradeItem'[p] = tradeItem[p] /\ tradeItem[p] \in Items
           /\ parent'[tradeItem[p]] = parent[tradeItem[p]]
           /\ Above(parent', tradeItem[p]) = Above(parent, tradeItem[p])
  PROVE  PlaceInv'
<1>1. Unmerged'
  BY DEF PlaceInv, Unmerged
<1>2. OffersDisjoint'
  BY DEF PlaceInv, OffersInPlace, OffersDisjoint, Related, Holds
<1>3. OfferReachable'
  BY DEF PlaceInv, OffersInPlace, OfferReachable, Reachable, RootIn
<1> QED BY <1>1, <1>2, <1>3 DEF PlaceInv, OffersInPlace

LEMMA OfferTypes ==
  ASSUME TradeInv
  PROVE  \A p \in Players : tradeItem[p] # None => tradeItem[p] \in Items
  BY DEF TradeInv, TypeOK

LEMMA RequestPlaces ==
  ASSUME TradeInv, PlaceInv,
         NEW p \in Players, NEW q \in Players, NEW i \in Items, RequestTrade(p, q, i)
  PROVE  PlaceInv'
<1>1. /\ \A r \in Players : tradeItem'[r] = IF r = p THEN i ELSE tradeItem[r]
      /\ UNCHANGED <<position, parent>>
      /\ parent[i] \notin Stacks /\ Reachable(p, i)
      /\ \A j \in tradeItems : ~Related(parent, i, j)
  BY DEF RequestTrade, TradeInv, TypeOK, AlreadyOffered
<1>2. \A r \in Players : tradeItem[r] # None => tradeItem[r] \in tradeItems
  BY DEF TradeInv, OffersTracked
<1>3. Placed' /\ Unmerged'
  BY <1>1 DEF PlaceInv, Placed, Unmerged
<1>4. OffersDisjoint'
  <2> SUFFICES ASSUME NEW r \in Players, NEW s \in Players, r # s,
                      None \notin {tradeItem'[r], tradeItem'[s]}
               PROVE  ~Related(parent, tradeItem'[r], tradeItem'[s])
    BY <1>1 DEF OffersDisjoint, Related, Holds
  <2>1. CASE r = p
    BY <1>1, <1>2, <2>1
  <2>2. CASE s = p
    BY <1>1, <1>2, <2>2 DEF Related
  <2>3. CASE p \notin {r, s}
    BY <1>1, <2>3 DEF PlaceInv, OffersInPlace, OffersDisjoint
  <2> QED BY <2>1, <2>2, <2>3
<1>5. OfferReachable'
  BY <1>1 DEF PlaceInv, OffersInPlace, OfferReachable, Reachable
<1> QED BY <1>3, <1>4, <1>5 DEF PlaceInv, OffersInPlace

LEMMA MovePlaces ==
  ASSUME TradeInv, PlaceInv, NEW p \in Players, NEW x \in Positions, Move(p, x)
  PROVE  PlaceInv'
<1> DEFINE S == IF TooFar(p, x) THEN {p} ELSE {}
<1>1. /\ S \subseteq Players /\ CloseTrades(S) /\ parent' = parent
      /\ \A r \in Players : position'[r] = IF r = p THEN x ELSE position[r]
  BY DEF Move, TradeInv, TypeOK
<1>2. \A r \in Players : tradeItem'[r] # None =>
        tradeItem'[r] = tradeItem[r] /\ r \notin BothSides(S)
  BY <1>1, KeptOffers
<1>3. Placed' /\ Unmerged' /\ OffersDisjoint'
  BY <1>1, <1>2 DEF PlaceInv, Placed, Unmerged, OffersInPlace, OffersDisjoint
<1>4. OfferReachable'
  <2> SUFFICES ASSUME NEW r \in Players, tradeItem'[r] # None
               PROVE  Reachable(r, tradeItem[r])'
    BY <1>2 DEF OfferReachable, Reachable
  <2> DEFINE t == tradeItem[r]
             root == RootIn(parent, t)
  <2>1. t # None /\ (root = r \/ (root \in Positions /\ Near(root, position[r], 1)))
    BY <1>2 DEF PlaceInv, OffersInPlace, OfferReachable, Reachable
  <2>2. CASE r # p
    BY <1>1, <1>2, <2>1, <2>2 DEF Reachable
  <2>3. CASE r = p
    <3>1. ~TooFar(p, x)
      BY <1>2, <2>3 DEF BothSides
    <3>2. root = p \/ Near(root, x, 1)
      BY <2>1, <2>3, <3>1 DEF TooFar
    <3> QED BY <1>1, <1>2, <2>1, <2>3, <3>2 DEF Reachable
  <2> QED BY <2>2, <2>3
<1> QED BY <1>3, <1>4 DEF PlaceInv, OffersInPlace

\* Where an item may be put, a forest stays one; and it stays with the player
\* who puts it there, or comes to lie on the floor.
LEMMA PutApart ==
  ASSUME Placed, NEW p \in Players, NEW i \in Items,
         NEW to \in Players \cup Positions \cup Items, MoveItem(p, i, to)
  PROVE  /\ Placed'
         /\ \A k \in Items \ {i} : parent'[k] = parent[k]
         /\ RootOf(parent, to) \in {p} \cup Positions
         /\ \A k \in Items :
              RootIn(parent', k) = IF k = i \/ Holds(parent, i, k) THEN RootOf(parent, to)
                                                                  ELSE RootIn(parent, k)
<1>1. /\ Containers \subseteq Items /\ Stacks \subseteq Items
      /\ Items \cap (Players \cup Positions) = {}
  BY TradeAssumption
<1>2. parent \in [Items -> Homes] /\ Forest(parent)
  BY DEF Placed
<1>3. \/ to = p \/ to \in Positions
      \/ /\ to \in Containers \cup Stacks /\ Reachable(p, to)
         /\ to # i /\ ~Holds(parent, i, to)
  BY DEF MoveItem, MayPut
<1>4. to \in Homes /\ (to \in Items => to # i /\ ~Holds(parent, i, to))
  BY <1>1, <1>3 DEF Homes
<1>5. RootOf(parent, to) \in {p} \cup Positions
  BY <1>1, <1>3 DEF RootOf, Reachable
<1> DEFINE new == parent'
<1>6. new = [parent EXCEPT ![i] = to]
  BY DEF MoveItem
<1> HIDE DEF new
<1>7. new \in [Items -> Homes] /\ new[i] = to /\ \A k \in Items \ {i} : new[k] = parent[k]
  BY <1>2, <1>4, <1>6
<1>8. /\ Forest(new)
      /\ \A k \in Items : RootIn(new, k)
                            = IF k = i \/ Holds(parent, i, k) THEN RootOf(parent, to)
                                                             ELSE RootIn(parent, k)
  BY <1>2, <1>4, <1>7, MovedForest
<1> QED BY <1>5, <1>7, <1>8 DEF new, Placed

\* The offers of trades that go on do not lie in the moved item, nor it in them.
LEMMA PutAside ==
  ASSUME TradeInv, PlaceInv, NEW p \in Players, NEW i \in Items,
         NEW to \in Players \cup Positions \cup Items, MoveItem(p, i, to),
         NEW r \in Players, tradeItem'[r] # None
  PROVE  /\ tradeItem'[r] = tradeItem[r] /\ tradeItem[r] \in Items
         /\ ~Related(parent, i, tradeItem[r]) /\ ~Related(parent', i, tradeItem[r])
         /\ parent'[tradeItem[r]] = parent[tradeItem[r]]
         /\ Above(parent', tradeItem[r]) = Above(parent, tradeItem[r])
<1> DEFINE S == {q \in Players : /\ tradeItem[q] # None
                                 /\ \/ Touches(parent, i, tradeItem[q])
                                    \/ Touches(parent', i, tradeItem[q])
                                    \/ TakenAbove(i, tradeItem[q])}
           t == tradeItem[r]
<1>1. S \subseteq Players /\ CloseTrades(S)
  BY DEF MoveItem
<1>2. tradeItem'[r] = t /\ r \notin S
  <2> HIDE DEF S
  <2> QED BY <1>1, KeptOffers DEF BothSides
<1>3. t \in Items /\ ~Related(parent, i, t) /\ ~Related(parent', i, t)
  BY <1>2, OfferTypes DEF Touches
<1>4. t # i /\ ~Holds(parent, i, t)
  BY <1>3 DEF Related
<1>5. \A k \in Items \ {i} : parent'[k] = parent[k]
  BY PutApart DEF PlaceInv
<1>6. Above(parent', t) = Above(parent, t) /\ parent'[t] = parent[t]
  <2> DEFINE new == parent'
  <2>1. \A k \in Items \ {i} : new[k] = parent[k]
    BY <1>5
  <2> HIDE DEF new, t
  <2>2. Above(new, t) = Above(parent, t) /\ new[t] = parent[t]
    BY <1>3, <1>4, <2>1, MovedAbove
  <2> QED BY <2>2 DEF new
<1> QED BY <1>2, <1>3, <1>6

LEMMA MoveItemPlaces ==
  ASSUME TradeInv, PlaceInv, NEW p \in Players, NEW i \in Items,
         NEW to \in Players \cup Positions \cup Items, MoveItem(p, i, to)
  PROVE  PlaceInv'
<1>1. Placed' /\ position' = position
  BY PutApart DEF PlaceInv, MoveItem
<1> QED BY <1>1, PutAside, OffersStay

\* What a completed acceptance moves: nothing, or what SwapMoves says of the
\* offers of the two players.
LEMMA Completed ==
  ASSUME TradeInv, PlaceInv, NEW p \in Players, CompleteAccept(p)
  PROVE  /\ tradePartner[p] \in Players /\ tradePartner[p] # p
         /\ tradePartner[tradePartner[p]] = p
         /\ tradeState[tradePartner[p]] = "ACCEPT"
         /\ {p, tradePartner[p]} \subseteq BothSides({p})
         /\ \/ parent' = parent
            \/ /\ tradeItem[p] \in Items /\ tradeItem[tradePartner[p]] \in Items
               /\ ~Related(parent, tradeItem[p], tradeItem[tradePartner[p]])
               /\ Swapped(p, tradePartner[p])
<1> DEFINE q == tradePartner[p]
<1>1. q # None /\ tradeState[q] = "ACCEPT"
  BY DEF CompleteAccept, SecondAccept
<1>2. q \in Players /\ q # p /\ tradePartner[q] = p
  BY <1>1 DEF TradeInv, TypeOK, PartnersMutual
<1>3. {p, q} \subseteq BothSides({p})
  BY <1>1 DEF BothSides
<1>4. ASSUME parent' # parent
      PROVE  /\ tradeItem[p] \in Items /\ tradeItem[q] \in Items
             /\ ~Related(parent, tradeItem[p], tradeItem[q])
             /\ Swapped(p, q)
  <2>1. ~crashed' /\ Swapped(p, q) /\ crashed' = (None \in {tradeItem[p], tradeItem[q]})
    BY <1>4 DEF CompleteAccept
  <2>2. None \notin {tradeItem[p], tradeItem[q]}
    BY <2>1
  <2>3. tradeItem[p] \in Items /\ tradeItem[q] \in Items
    BY <1>2, <2>2, OfferTypes
  <2>4. ~Related(parent, tradeItem[p], tradeItem[q])
    BY <1>2, <2>2 DEF PlaceInv, OffersInPlace, OffersDisjoint
  <2> QED BY <2>1, <2>3, <2>4
<1> QED BY <1>1, <1>2, <1>3, <1>4

\* The offers of all other trades stay apart from what was swapped.
LEMMA CompletedAside ==
  ASSUME TradeInv, PlaceInv, NEW p \in Players, CompleteAccept(p),
         NEW r \in Players, tradeItem'[r] # None
  PROVE  /\ tradeItem'[r] = tradeItem[r] /\ tradeItem[r] \in Items
         /\ r # p /\ r # tradePartner[p]
         /\ parent'[tradeItem[r]] = parent[tradeItem[r]]
         /\ Above(parent', tradeItem[r]) = Above(parent, tradeItem[r])
<1> DEFINE q == tradePartner[p]
           t == tradeItem[r]
           a == tradeItem[p]
           b == tradeItem[q]
<1>1. /\ q \in Players /\ q # p /\ {p, q} \subseteq BothSides({p})
      /\ \/ parent' = parent
         \/ /\ a \in Items /\ b \in Items /\ ~Related(parent, a, b) /\ Swapped(p, q)
  BY Completed
<1>2. CloseTrades({p})
  BY DEF CompleteAccept
<1>3. tradeItem'[r] = t /\ r \notin {p, q} /\ t \in Items
  BY <1>1, <1>2, KeptOffers, OfferTypes
<1>4. CASE parent' = parent
  BY <1>1, <1>3, <1>4
<1>5. CASE /\ a \in Items /\ b \in Items /\ ~Related(parent, a, b) /\ Swapped(p, q)
  <2>1. a # None /\ b # None /\ t # None
    BY <1>3, <1>5, TradeAssumption
  <2>2. ~Related(parent, t, a) /\ ~Related(parent, t, b)
    BY <1>1, <1>3, <2>1 DEF PlaceInv, OffersInPlace, OffersDisjoint
  <2>3. t \notin {a, b} /\ ~Holds(parent, a, t) /\ ~Holds(parent, b, t)
    BY <2>2 DEF Related
  <2> DEFINE new == parent'
  <2>4. \A k \in Items :
          /\ k \notin {a, b} => new[k] = parent[k]
          /\ k \notin {a, b} /\ ~Holds(parent, a, k) /\ ~Holds(parent, b, k)
               => Above(new, k) = Above(parent, k)
    BY <1>1, <1>5, SwapMoves DEF PlaceInv
  <2> HIDE DEF new, t, a, b
  <2>5. new[t] = parent[t] /\ Above(new, t) = Above(parent, t)
    BY <1>3, <2>3, <2>4
  <2> QED BY <1>1, <1>3, <2>5 DEF new, t
<1> QED BY <1>1, <1>4, <1>5

LEMMA CompletePlaces ==
  ASSUME TradeInv, PlaceInv, NEW p \in Players, CompleteAccept(p)
  PROVE  PlaceInv'
<1>1. Placed'
  <2>1. CASE parent' = parent
    BY <2>1 DEF PlaceInv, Placed
  <2>2. CASE parent' # parent
    BY <2>2, Completed, SwapMoves DEF PlaceInv
  <2> QED BY <2>1, <2>2
<1>2. position' = position
  BY DEF CompleteAccept
<1> QED BY <1>1, <1>2, CompletedAside, OffersStay

\* Steps that close trades, or nothing, and move nothing.
LEMMA ClosePlaces ==
  ASSUME TradeInv, PlaceInv, NEW S, S \subseteq Players, CloseTrades(S),
         UNCHANGED <<position, parent>>
  PROVE  PlaceInv'
<1>1. Placed'
  BY DEF PlaceInv, Placed
<1>2. \A p \in Players : tradeItem'[p] # None =>
        tradeItem'[p] = tradeItem[p] /\ tradeItem[p] \in Items
  BY KeptOffers, OfferTypes
<1> QED BY <1>1, <1>2, OffersStay

LEMMA StillPlaces ==
  ASSUME TradeInv, PlaceInv, UNCHANGED <<position, parent, tradeItem>>
  PROVE  PlaceInv'
  BY DEF PlaceInv, Placed, Unmerged, OffersInPlace, OffersDisjoint, OfferReachable,
         Related, Holds, Reachable

-----------------------------------------------------------------------------
(* Theorems *)

LEMMA InvInit ==
  ASSUME TradeAssumption, Init
  PROVE  TradeInv
<1>a. /\ Placements \subseteq [Items -> Players \cup Positions \cup Containers]
      /\ Containers \subseteq Items
  BY DEF TradeAssumption
<1>b. parent \in [Items -> Players \cup Positions \cup Items]
  BY <1>a DEF Init
<1>1. TypeOK
  BY <1>b DEF Init, TypeOK, States
<1>2. PartnersMutual /\ OffersTracked /\ NoOfferYet
  BY DEF Init, PartnersMutual, OffersTracked, NoOfferYet
<1> QED
  BY <1>1, <1>2 DEF TradeInv

LEMMA InvStep ==
  ASSUME TradeAssumption, TradeInv, [Next]_vars
  PROVE  TradeInv'
<1>1. CASE UNCHANGED vars
  BY <1>1 DEF vars, tvars, TradeInv, TypeOK, PartnersMutual, OffersTracked, NoOfferYet
<1>2. ASSUME NEW p \in Players, NEW q \in Players, NEW i \in Items, RequestTrade(p, q, i)
      PROVE  TradeInv'
  BY <1>2, RequestStep
<1>3. ASSUME NEW p \in Players, FirstAccept(p) \/ DenyAccept(p)
      PROVE  TradeInv'
  BY <1>3, AcceptStep
<1>4. ASSUME NEW p \in Players, CompleteAccept(p)
      PROVE  TradeInv'
  <2>1. crashed' \in BOOLEAN
    BY <1>4 DEF CompleteAccept
  <2>2. CloseTrades({p}) /\ UNCHANGED <<online, position>>
    BY <1>4 DEF CompleteAccept
  <2>3. parent' \in [Items -> Players \cup Positions \cup Items]
    BY <1>4, SwapType DEF TradeInv
  <2> QED
    BY <2>1, <2>2, <2>3, CloseStep
<1>5. ASSUME NEW p \in Players, CloseTrade(p)
      PROVE  TradeInv'
  <2>1. CloseTrades({p}) /\ UNCHANGED <<online, position, parent, crashed>>
    BY <1>5 DEF CloseTrade
  <2> QED
    BY <2>1, CloseStep DEF TradeInv, TypeOK
<1>6. ASSUME NEW p \in Players, Logout(p) \/ Login(p)
      PROVE  TradeInv'
  BY <1>6, LogoutStep, LoginStep
<1>7. ASSUME NEW p \in Players, NEW x \in Positions, Move(p, x)
      PROVE  TradeInv'
  BY <1>7, MoveStep
<1>8. ASSUME NEW p \in Players, NEW i \in Items,
             NEW to \in Players \cup Positions \cup Items, MoveItem(p, i, to)
      PROVE  TradeInv'
  <2>1. PICK S : S \subseteq Players /\ CloseTrades(S)
    BY <1>8 DEF MoveItem
  <2>2. parent' \in [Items -> Players \cup Positions \cup Items]
    BY <1>8 DEF MoveItem, TradeInv, TypeOK
  <2>3. UNCHANGED <<online, position, crashed>>
    BY <1>8 DEF MoveItem
  <2> QED
    BY <2>1, <2>2, <2>3, CloseStep DEF TradeInv, TypeOK
<1> QED
  BY <1>1, <1>2, <1>3, <1>4, <1>5, <1>6, <1>7, <1>8 DEF Next

LEMMA InvHolds == Spec => []TradeInv
<1>1. Init => TradeInv
  BY InvInit, TradeAssumption
<1>2. TradeInv /\ [Next]_vars => TradeInv'
  BY InvStep, TradeAssumption
<1> QED
  BY <1>1, <1>2, PTL DEF Spec

\* Every variable of the trade keeps its type; in particular no player is left
\* in the state TRADE_TRANSFER, in which nothing could close his trade.
THEOREM TypeCorrect == Spec => []TypeOK
<1>1. TradeInv => TypeOK
  BY DEF TradeInv
<1> QED
  BY <1>1, InvHolds, PTL

\* The raw pointers tradePartner of two players always name each other, and
\* never a player who has left or is out of range.
THEOREM PartnersAreMutual == Spec => []PartnersMutual
<1>1. TradeInv => PartnersMutual
  BY DEF TradeInv
<1> QED
  BY <1>1, InvHolds, PTL

\* Game::tradeItems holds the items of the open trades and nothing else, so no
\* reference taken by a trade outlives it and no item is offered twice.
THEOREM OffersAreTracked == Spec => []OffersTracked
<1>1. TradeInv => OffersTracked
  BY DEF TradeInv
<1> QED
  BY <1>1, InvHolds, PTL
LEMMA PlaceInit ==
  ASSUME Init
  PROVE  PlaceInv
<1>1. /\ parent \in [Items -> Players \cup Positions \cup Containers]
      /\ \A S \in SUBSET Items : S # {} => \E i \in S : parent[i] \notin S
      /\ tradeItem = [p \in Players |-> None]
  BY TradeAssumption DEF Init
<1>2. parent \in [Items -> Homes]
  BY <1>1 DEF Homes
<1>3. ASSUME NEW i \in Items, Holds(parent, i, i) PROVE FALSE
  <2> DEFINE S == {k \in Items : k \in Above(parent, i) /\ i \in Above(parent, k)}
  <2>1. i \in S
    BY <1>3 DEF Holds
  <2>2. PICK k \in S : parent[k] \notin S
    BY <1>1, <2>1
  <2>3. parent[k] \in Above(parent, i)
    BY AboveIsLeast DEF Goes
  <2>4. i = parent[k] \/ (parent[k] \in Items /\ i \in Above(parent, parent[k]))
    BY AboveStep
  <2> QED BY <1>3, <2>2, <2>3, <2>4 DEF Holds
<1>4. Unmerged /\ OffersInPlace
  BY <1>1 DEF Unmerged, OffersInPlace, OffersDisjoint, OfferReachable
<1> QED BY <1>2, <1>3, <1>4 DEF PlaceInv, Placed, Forest

LEMMA PlaceStep ==
  ASSUME TradeInv, PlaceInv, [Next]_vars
  PROVE  PlaceInv'
<1>1. ASSUME NEW p \in Players, NEW q \in Players, NEW i \in Items, RequestTrade(p, q, i)
      PROVE  PlaceInv'
  BY <1>1, RequestPlaces
<1>2. ASSUME NEW p \in Players, FirstAccept(p) \/ DenyAccept(p) \/ Login(p)
      PROVE  PlaceInv'
  BY <1>2, StillPlaces DEF FirstAccept, DenyAccept, Login, tvars
<1>3. ASSUME NEW p \in Players, CompleteAccept(p)
      PROVE  PlaceInv'
  BY <1>3, CompletePlaces
<1>4. ASSUME NEW p \in Players, CloseTrade(p)
      PROVE  PlaceInv'
  <2>1. {p} \subseteq Players /\ CloseTrades({p}) /\ UNCHANGED <<position, parent>>
    BY <1>4 DEF CloseTrade
  <2> QED BY <2>1, ClosePlaces
<1>5. ASSUME NEW p \in Players, Logout(p)
      PROVE  PlaceInv'
  <2> DEFINE S == LeavesTrade(p)
  <2>1. S \subseteq Players /\ CloseTrades(S) /\ UNCHANGED <<position, parent>>
    BY <1>5 DEF Logout, LeavesTrade
  <2> HIDE DEF S
  <2> QED BY <2>1, ClosePlaces
<1>6. ASSUME NEW p \in Players, NEW x \in Positions, Move(p, x)
      PROVE  PlaceInv'
  BY <1>6, MovePlaces
<1>7. ASSUME NEW p \in Players, NEW i \in Items,
             NEW to \in Players \cup Positions \cup Items, MoveItem(p, i, to)
      PROVE  PlaceInv'
  BY <1>7, MoveItemPlaces
<1>8. CASE UNCHANGED vars
  BY <1>8, StillPlaces DEF vars, tvars
<1> QED
  BY <1>1, <1>2, <1>3, <1>4, <1>5, <1>6, <1>7, <1>8 DEF Next

LEMMA BothInvariants == Spec => [](TradeInv /\ PlaceInv)
<1>1. Init => TradeInv /\ PlaceInv
  BY InvInit, PlaceInit, TradeAssumption
<1>2. TradeInv /\ PlaceInv /\ [Next]_vars => TradeInv' /\ PlaceInv'
  BY InvStep, PlaceStep, TradeAssumption
<1> QED
  BY <1>1, <1>2, PTL DEF Spec

\* Whatever players move around, the offers of all open trades lie apart from
\* each other, none inside another, and within reach of who made them.
THEOREM OffersStayInPlace == Spec => []OffersInPlace
<1>1. TradeInv /\ PlaceInv => OffersInPlace
  BY DEF PlaceInv
<1> QED
  BY <1>1, BothInvariants, PTL

-----------------------------------------------------------------------------
(* What a step may not do *)

\* The steps that change where an item lies.
LEMMA WhoMoves ==
  ASSUME [Next]_vars
  PROVE  \/ parent' = parent
         \/ \E p \in Players : CompleteAccept(p)
         \/ \E p \in Players, i \in Items, to \in Players \cup Positions \cup Items :
              MoveItem(p, i, to)
  BY DEF Next, vars, tvars, RequestTrade, FirstAccept, DenyAccept, CloseTrade, Move,
         Logout, Login

\* The steps that change what a player with a trade offers in it.
LEMMA WhoOffers ==
  ASSUME TradeInv, [Next]_vars, NEW p \in Players, NEW q \in Players,
         tradePartner[p] = q, tradePartner'[p] = q, tradeItem[q] # None
  PROVE  tradeItem'[q] = tradeItem[q]
<1>0. /\ tradePartner[q] = p /\ tradeState[q] # "NONE" /\ q # None /\ p # None
      /\ tradeState[q] # "ACKNOWLEDGE"
  BY TradeAssumption DEF TradeInv, PartnersMutual, NoOfferYet
<1>1. ASSUME NEW r \in Players, NEW s \in Players, NEW i \in Items, RequestTrade(r, s, i)
      PROVE  tradeItem'[q] = tradeItem[q]
  <2>1. q # r
    BY <1>0, <1>1 DEF RequestTrade, MayStart
  <2> QED BY <1>1, <2>1 DEF RequestTrade, TradeInv, TypeOK
<1>2. ASSUME NEW S, S \subseteq Players, CloseTrades(S)
      PROVE  tradeItem'[q] = tradeItem[q]
  BY <1>0, <1>2, KeptOffers
<1>3. ASSUME NEW r \in Players,
             \/ CompleteAccept(r) \/ CloseTrade(r) \/ Logout(r)
             \/ \E x \in Positions : Move(r, x)
             \/ \E i \in Items, to \in Players \cup Positions \cup Items : MoveItem(r, i, to)
      PROVE  \E S : S \subseteq Players /\ CloseTrades(S)
  BY <1>3 DEF CompleteAccept, CloseTrade, Logout, LeavesTrade, Move, MoveItem
<1>4. ASSUME NEW r \in Players, FirstAccept(r) \/ DenyAccept(r) \/ Login(r)
      PROVE  tradeItem'[q] = tradeItem[q]
  BY <1>4 DEF FirstAccept, DenyAccept, Login, tvars
<1>5. CASE UNCHANGED vars
  BY <1>5 DEF vars, tvars
<1> QED
  BY <1>1, <1>2, <1>3, <1>4, <1>5 DEF Next

\* A place that lies in nothing the move touches holds what it held.
LEMMA ContentKept ==
  ASSUME TradeInv, PlaceInv, PlaceInv', [Next]_vars, NEW q \in Players,
         tradeItem[q] # None, tradeItem'[q] = tradeItem[q], NEW k \in Items
  PROVE  Holds(parent', tradeItem[q], k) <=> Holds(parent, tradeItem[q], k)
<1> DEFINE t == tradeItem[q]
           new == parent'
<1>0. t \in Items /\ t # None /\ tradeItem'[q] # None
  BY OfferTypes
<1>1. ASSUME NEW p \in Players, CompleteAccept(p), parent' # parent
      PROVE  Holds(new, t, k) <=> Holds(parent, t, k)
  <2> DEFINE s == tradePartner[p]
             a == tradeItem[p]
             b == tradeItem[s]
  <2>1. /\ s \in Players /\ a \in Items /\ b \in Items
        /\ ~Related(parent, a, b) /\ Swapped(p, s)
    BY <1>1, Completed
  <2>2. q # p /\ q # s /\ Above(new, t) = Above(parent, t)
    BY <1>0, <1>1, CompletedAside
  <2>3. a # None /\ b # None
    BY <2>1, TradeAssumption
  <2>4. ~Related(parent, t, a) /\ ~Related(parent, t, b)
    BY <1>0, <2>1, <2>2, <2>3 DEF PlaceInv, OffersInPlace, OffersDisjoint
  <2>5. RootIn(new, t) = RootIn(parent, t) /\ RootIn(parent, t) \in {q} \cup Positions
    BY <1>0, <2>2 DEF RootIn, PlaceInv, OffersInPlace, OfferReachable, Reachable
  <2>6. \A j \in Items :
          /\ j = a \/ Holds(parent, a, j) => RootIn(new, j) \in {p, s}
          /\ j = b \/ Holds(parent, b, j) => RootIn(new, j) = p
          /\ j \notin {a, b} /\ ~Holds(parent, a, j) /\ ~Holds(parent, b, j)
               => Above(new, j) = Above(parent, j)
    BY <2>1, SwapMoves DEF PlaceInv
  <2>7. Forest(new)
    BY DEF PlaceInv, Placed
  <2> HIDE DEF new, t, a, b, s
  <2>8. CASE k \notin {a, b} /\ ~Holds(parent, a, k) /\ ~Holds(parent, b, k)
    BY <2>6, <2>8 DEF Holds
  <2>9. ASSUME NEW c \in {a, b}, k = c \/ Holds(parent, c, k)
        PROVE  ~Holds(new, t, k) /\ ~Holds(parent, t, k)
    <3>1. c \in Items /\ c # t /\ ~Holds(parent, c, t) /\ ~Holds(parent, t, c)
      BY <2>1, <2>4 DEF Related
    <3>2. ~Holds(parent, t, k)
      BY <1>0, <2>9, <3>1, AboveChain DEF Holds
    <3>3. RootIn(new, k) \in {p, s}
      BY <2>6, <2>9
    <3>4. Holds(new, t, k) => RootIn(new, k) = RootIn(new, t)
      BY <1>0, <2>7, RootAbove DEF Holds
    <3>5. RootIn(new, t) \notin {p, s}
      BY <2>1, <2>2, <2>5, TradeAssumption
    <3> QED BY <3>2, <3>3, <3>4, <3>5
  <2> QED BY <2>8, <2>9
<1>2. ASSUME NEW p \in Players, NEW i \in Items,
             NEW to \in Players \cup Positions \cup Items, MoveItem(p, i, to)
      PROVE  Holds(new, t, k) <=> Holds(parent, t, k)
  <2>1. ~Related(parent, i, t) /\ ~Related(new, i, t)
    BY <1>0, <1>2, PutAside
  <2>2. \A j \in Items \ {i} : new[j] = parent[j]
    BY <1>2, PutApart DEF PlaceInv
  <2> HIDE DEF new, t
  <2>3. CASE k = i
    BY <2>1, <2>3 DEF Related
  <2>4. CASE k # i /\ ~Holds(parent, i, k)
    BY <2>2, <2>4, MovedAbove DEF Holds
  <2>5. CASE k # i /\ Holds(parent, i, k)
    <3>1. Holds(new, i, k)
      BY <2>2, <2>5, MovedHolds
    <3>2. ~Holds(parent, t, k)
      BY <1>0, <2>1, <2>5, AboveChain DEF Holds, Related
    <3>3. ~Holds(new, t, k)
      BY <1>0, <2>1, <3>1, AboveChain DEF Holds, Related
    <3> QED BY <3>2, <3>3
  <2> QED BY <2>3, <2>4, <2>5
<1>3. CASE parent' = parent
  BY <1>3
<1> QED BY <1>1, <1>2, <1>3, WhoMoves

KeepsAccepted ==
  \A p, q \in Players :
       /\ tradeState[p] = "ACCEPT" /\ tradeState'[p] = "ACCEPT"
       /\ tradePartner[p] = q /\ tradePartner'[p] = q
       /\ tradeItem[q] # None
       => /\ tradeItem'[q] = tradeItem[q]
          /\ {i \in Items : Holds(parent, tradeItem[q], i)}
               = {i \in Items : Holds(parent', tradeItem[q], i)}

\* What a player has accepted, the partner can neither replace nor change the
\* content of: whatever would do so closes the trade.
THEOREM AcceptedOffersKept == Spec => AcceptedOfferFixed
<1>1. TradeInv /\ PlaceInv /\ TradeInv' /\ PlaceInv' /\ [Next]_vars => [KeepsAccepted]_vars
  <2> SUFFICES ASSUME TradeInv, PlaceInv, PlaceInv', [Next]_vars,
                      NEW p \in Players, NEW q \in Players,
                      tradePartner[p] = q, tradePartner'[p] = q, tradeItem[q] # None
               PROVE  /\ tradeItem'[q] = tradeItem[q]
                      /\ {i \in Items : Holds(parent, tradeItem[q], i)}
                           = {i \in Items : Holds(parent', tradeItem[q], i)}
    BY DEF KeepsAccepted
  <2>1. tradeItem'[q] = tradeItem[q]
    BY WhoOffers
  <2>2. \A k \in Items : Holds(parent', tradeItem[q], k) <=> Holds(parent, tradeItem[q], k)
    BY <2>1, ContentKept
  <2> QED BY <2>1, <2>2
<1> QED
  BY <1>1, BothInvariants, PTL DEF Spec, AcceptedOfferFixed, KeepsAccepted

ByConsent ==
  \A i \in Items, p, q \in Players :
       p # q /\ RootIn(parent, i) = p /\ RootIn(parent', i) = q
       => /\ tradePartner[p] = q /\ None \notin {tradeItem[p], tradeItem[q]}
          /\ i = tradeItem[p] \/ Holds(parent, tradeItem[p], i)
          /\ "ACCEPT" \in {tradeState[p], tradeState[q]}

\* What goes from one player to another was offered by the first to the second,
\* who had made an offer as well, and one of them had accepted.
THEOREM ConsentNeeded == Spec => NothingWithoutConsent
<1>1. TradeInv /\ PlaceInv /\ [Next]_vars => [ByConsent]_vars
  <2> SUFFICES ASSUME TradeInv, PlaceInv, [Next]_vars, NEW k \in Items,
                      NEW x \in Players, NEW y \in Players, x # y,
                      RootIn(parent, k) = x, RootIn(parent', k) = y
               PROVE  /\ tradePartner[x] = y /\ None \notin {tradeItem[x], tradeItem[y]}
                      /\ k = tradeItem[x] \/ Holds(parent, tradeItem[x], k)
                      /\ "ACCEPT" \in {tradeState[x], tradeState[y]}
    BY DEF ByConsent
  <2>0. Forest(parent) /\ Players \cap Positions = {}
    BY TradeAssumption DEF PlaceInv, Placed
  <2>1. parent' # parent
    OBVIOUS
  <2>2. ASSUME NEW p \in Players, NEW i \in Items,
               NEW to \in Players \cup Positions \cup Items, MoveItem(p, i, to)
        PROVE  FALSE
    <3>1. /\ RootOf(parent, to) \in {p} \cup Positions
          /\ RootIn(parent', k) = IF k = i \/ Holds(parent, i, k) THEN RootOf(parent, to)
                                                                  ELSE RootIn(parent, k)
      BY <2>2, PutApart DEF PlaceInv
    <3>2. (k = i \/ Holds(parent, i, k)) /\ y = p
      BY <2>0, <3>1
    <3>3. RootIn(parent, i) = x
      BY <2>0, <3>2, RootAbove DEF Holds
    <3>4. RootIn(parent, i) = p \/ RootIn(parent, i) \in Positions
      BY <2>2 DEF MoveItem, Reachable
    <3> QED BY <2>0, <3>2, <3>3, <3>4
  <2>3. ASSUME NEW p \in Players, CompleteAccept(p)
        PROVE  /\ tradePartner[x] = y /\ None \notin {tradeItem[x], tradeItem[y]}
               /\ k = tradeItem[x] \/ Holds(parent, tradeItem[x], k)
               /\ "ACCEPT" \in {tradeState[x], tradeState[y]}
    <3> DEFINE s == tradePartner[p]
               a == tradeItem[p]
               b == tradeItem[s]
    <3>1. /\ s \in Players /\ s # p /\ tradePartner[s] = p /\ tradeState[s] = "ACCEPT"
          /\ a \in Items /\ b \in Items /\ ~Related(parent, a, b) /\ Swapped(p, s)
      BY <2>1, <2>3, Completed
    <3>2. a # None /\ b # None
      BY <3>1, TradeAssumption
    <3>3. /\ k = a \/ Holds(parent, a, k) => RootIn(parent', k) \in {p, s}
          /\ k = b \/ Holds(parent, b, k) => RootIn(parent', k) = p
          /\ k \notin {a, b} /\ ~Holds(parent, a, k) /\ ~Holds(parent, b, k)
               => Above(parent', k) = Above(parent, k)
      BY <3>1, SwapMoves DEF PlaceInv
    <3>4. RootIn(parent, a) \in {p} \cup Positions /\ RootIn(parent, b) \in {s} \cup Positions
      BY <3>1, <3>2 DEF PlaceInv, OffersInPlace, OfferReachable, Reachable
    <3>5. CASE k = a \/ Holds(parent, a, k)
      <4>1. RootIn(parent, a) = x
        BY <2>0, <3>1, <3>5, RootAbove DEF Holds
      <4>2. x = p /\ y = s
        BY <2>0, <3>3, <3>4, <3>5, <4>1
      <4> QED BY <3>1, <3>2, <3>5, <4>2
    <3>6. CASE k = b \/ Holds(parent, b, k)
      <4>1. RootIn(parent, b) = x
        BY <2>0, <3>1, <3>6, RootAbove DEF Holds
      <4>2. x = s /\ y = p
        BY <2>0, <3>3, <3>4, <3>6, <4>1
      <4> QED BY <3>1, <3>2, <3>6, <4>2
    <3>7. CASE k \notin {a, b} /\ ~Holds(parent, a, k) /\ ~Holds(parent, b, k)
      BY <3>3, <3>7 DEF RootIn
    <3> QED BY <3>5, <3>6, <3>7
  <2> QED BY <2>1, <2>2, <2>3, WhoMoves
<1> QED
  BY <1>1, BothInvariants, PTL DEF Spec, NothingWithoutConsent, ByConsent

SwapsBoth ==
  \A p, q \in Players :
       /\ tradePartner[p] = q /\ None \notin {tradeItem[p], tradeItem[q]}
       /\ parent'[tradeItem[p]] # parent[tradeItem[p]]
       /\ parent'[tradeItem[q]] # parent[tradeItem[q]]
       => \/ /\ RootIn(parent', tradeItem[p]) = q
             /\ RootIn(parent', tradeItem[q]) = p
          \/ /\ Holds(parent', tradeItem[q], tradeItem[p])
             /\ parent[tradeItem[q]] \in Containers
          \/ /\ Holds(parent', tradeItem[p], tradeItem[q])
             /\ parent[tradeItem[p]] \in Containers

\* A step that moves both offers of a trade gives each to the other player,
\* unless one goes into the other, which then lay in a container.
THEOREM SwapsAreComplete == Spec => SwapIsComplete
<1>1. TradeInv /\ PlaceInv /\ [Next]_vars => [SwapsBoth]_vars
  <2> SUFFICES ASSUME TradeInv, PlaceInv, [Next]_vars,
                      NEW x \in Players, NEW y \in Players,
                      tradePartner[x] = y, None \notin {tradeItem[x], tradeItem[y]},
                      parent'[tradeItem[x]] # parent[tradeItem[x]],
                      parent'[tradeItem[y]] # parent[tradeItem[y]]
               PROVE  \/ /\ RootIn(parent', tradeItem[x]) = y
                         /\ RootIn(parent', tradeItem[y]) = x
                      \/ /\ Holds(parent', tradeItem[y], tradeItem[x])
                         /\ parent[tradeItem[y]] \in Containers
                      \/ /\ Holds(parent', tradeItem[x], tradeItem[y])
                         /\ parent[tradeItem[x]] \in Containers
    BY DEF SwapsBoth
  <2>0. /\ tradeItem[x] \in Items /\ tradeItem[y] \in Items /\ x # y
        /\ tradeItem[x] # tradeItem[y] /\ tradePartner[y] = x
    BY OfferTypes, TradeAssumption DEF TradeInv, PartnersMutual, OffersTracked
  <2>1. parent' # parent
    OBVIOUS
  <2>2. ASSUME NEW p \in Players, NEW i \in Items,
               NEW to \in Players \cup Positions \cup Items, MoveItem(p, i, to)
        PROVE  FALSE
    <3>1. \A k \in Items \ {i} : parent'[k] = parent[k]
      BY <2>2, PutApart DEF PlaceInv
    <3> QED BY <2>0, <3>1
  <2>3. ASSUME NEW p \in Players, CompleteAccept(p)
        PROVE  \/ /\ RootIn(parent', tradeItem[x]) = y
                  /\ RootIn(parent', tradeItem[y]) = x
               \/ /\ Holds(parent', tradeItem[y], tradeItem[x])
                  /\ parent[tradeItem[y]] \in Containers
               \/ /\ Holds(parent', tradeItem[x], tradeItem[y])
                  /\ parent[tradeItem[x]] \in Containers
    <3> DEFINE s == tradePartner[p]
               a == tradeItem[p]
               b == tradeItem[s]
    <3>1. /\ s \in Players /\ s # p /\ tradePartner[s] = p
          /\ a \in Items /\ b \in Items /\ ~Related(parent, a, b) /\ Swapped(p, s)
      BY <2>1, <2>3, Completed
    <3>2. /\ RootIn(parent', b) = p
          /\ RootIn(parent', a) = s \/ (Holds(parent', b, a) /\ parent[b] \in Containers)
          /\ \A k \in Items : k \notin {a, b} => parent'[k] = parent[k]
      BY <3>1, SwapMoves DEF PlaceInv
    <3>3. tradeItem[x] \in {a, b}
      BY <2>0, <3>2
    <3>4. \A r, t \in Players : r # t /\ tradeItem[r] # None => tradeItem[r] # tradeItem[t]
      BY DEF TradeInv, OffersTracked
    <3>5. x \in {p, s}
      BY <3>1, <3>3, <3>4
    <3>6. (x = p /\ y = s) \/ (x = s /\ y = p)
      BY <3>1, <3>5
    <3> QED BY <3>2, <3>6
  <2> QED BY <2>1, <2>2, <2>3, WhoMoves
<1> QED
  BY <1>1, BothInvariants, PTL DEF Spec, SwapIsComplete, SwapsBoth

=============================================================================
