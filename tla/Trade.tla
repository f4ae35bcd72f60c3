-------------------------------- MODULE Trade --------------------------------
(***************************************************************************)
(* The safe trade between two players, of src/src/game.cpp and player.cpp: *)
(* requests and counter-offers, acceptance, the swap, and everything that  *)
(* closes a trade (moving away, touching an offered item, logging out).    *)
(*                                                                         *)
(* All of it runs in tasks of the dispatcher, so a handler is one step.    *)
(* A position is a point on a line, so that "within 1" and "within 2"      *)
(* differ.  Room and capacity are abstracted to the outcome of the two     *)
(* tests the swap begins with.                                             *)
(***************************************************************************)
EXTENDS FiniteSets, Integers

CONSTANTS
  Players,
  Positions,   \* of players and of items on the floor
  Items,
  Containers,  \* items that hold items
  Stacks,      \* items of one stackable kind, which merge
  Placements,  \* where the items may lie to begin with
  None         \* a null Player or Item pointer

ASSUME TradeAssumption ==
  /\ IsFiniteSet(Items)
  /\ Containers \subseteq Items /\ Stacks \subseteq Items
  /\ Containers \cap Stacks = {}
  /\ Placements \subseteq [Items -> Players \cup Positions \cup Containers]
  /\ \A par \in Placements, S \in SUBSET Items : S # {} => \E i \in S : par[i] \notin S
  /\ Positions \subseteq Int
  /\ Items \cap (Players \cup Positions) = {} /\ Players \cap Positions = {}
  /\ None \notin Players \cup Items

VARIABLES
  online,        \* players in the game
  position,      \* where each player is
  parent,        \* where each item lies: a player, the floor or another item
  tradeState,    \* Player::tradeState
  tradePartner,  \* Player::tradePartner
  tradeItem,     \* Player::tradeItem
  tradeItems,    \* keys of Game::tradeItems, the items being traded
  crashed        \* a null pointer was dereferenced

tvars == <<tradeState, tradePartner, tradeItem, tradeItems>>
vars == <<online, position, parent, tvars, crashed>>

States == {"NONE", "INITIATED", "ACKNOWLEDGE", "ACCEPT"}

\* What an item lies in under the map par, all the way up.
Above(par, i) ==
  LET up[n \in Nat] ==
        IF n = 0 THEN {par[i]}
        ELSE LET below == up[n - 1] IN below \cup {par[j] : j \in below \cap Items}
  IN  up[Cardinality(Items)]

\* Container::isHoldingItem, and the player or floor tile an item is at.
Holds(par, j, i) == j \in Above(par, i)
RootIn(par, i) == CHOOSE c \in Above(par, i) : c \notin Items

\* One of two items is the other, or holds it.
Related(par, i, j) == i = j \/ Holds(par, i, j) \/ Holds(par, j, i)

\* Position::areInRange
Near(x, y, n) == x - y \in -n..n

\* What a player can lay hands on.
Reachable(p, i) ==
  LET root == RootIn(parent, i) IN
  root = p \/ (root \in Positions /\ Near(root, position[p], 1))

Init ==
  /\ online = Players
  /\ position \in [Players -> Positions]
  /\ parent \in Placements
  /\ tradeState = [p \in Players |-> "NONE"]
  /\ tradePartner = [p \in Players |-> None]
  /\ tradeItem = [p \in Players |-> None]
  /\ tradeItems = {}
  /\ crashed = FALSE

-----------------------------------------------------------------------------
(* internalCloseTrade *)

\* Mutant: the partner is forgotten.
OneSided(S) == S
\* Closing the trades of some players closes their partners' as well.
BothSides(S) == S \cup ({tradePartner[p] : p \in S} \ {None})

\* Mutant: only the closing side's item leaves the map.
FreedItemsOf(S, hit) == {tradeItem[p] : p \in S}
FreedItems(S, hit) == {tradeItem[p] : p \in hit}

\* Mutant: who was exchanging items stays in that state.
LeftInTransfer(p) == IF tradeState[p] = "ACCEPT" THEN "TRANSFER" ELSE "NONE"
\* TRADE_TRANSFER is a state only within playerAcceptTrade.
AfterTrade(p) == "NONE"

CloseTrades(S) ==
  LET hit == BothSides(S) IN
  /\ tradeState' = [p \in Players |-> IF p \in hit THEN AfterTrade(p) ELSE tradeState[p]]
  /\ tradePartner' = [p \in Players |-> IF p \in hit THEN None ELSE tradePartner[p]]
  /\ tradeItem' = [p \in Players |-> IF p \in hit THEN None ELSE tradeItem[p]]
  /\ tradeItems' = tradeItems \ FreedItems(S, hit)

-----------------------------------------------------------------------------
(* playerRequestTrade and internalStartTrade *)

\* Mutant: only the item itself is looked up among the traded ones.
SameItemOffered(i) == i \in tradeItems
AlreadyOffered(i) == \E j \in tradeItems : Related(parent, i, j)

\* Mutant: a player may change an offer already made.
MayStartAgain(p, q) ==
  /\ tradeState[p] = "NONE" \/ tradePartner[p] = q
  /\ tradeState[q] = "NONE" \/ tradePartner[q] = p

\* A trade begins between two free players, or with a counter-offer.
MayStart(p, q) ==
  /\ \/ tradeState[p] = "NONE"
     \/ tradeState[p] = "ACKNOWLEDGE" /\ tradePartner[p] = q
  /\ tradeState[q] = "NONE" \/ tradePartner[q] = p

RequestTrade(p, q, i) ==
  /\ ~crashed
  /\ p # q /\ {p, q} \subseteq online
  /\ Near(position[p], position[q], 2)
  /\ parent[i] \notin Stacks /\ Reachable(p, i)
  /\ ~AlreadyOffered(i)
  /\ MayStart(p, q)
  /\ tradeItem' = [tradeItem EXCEPT ![p] = i]
  /\ tradeItems' = tradeItems \cup {i}
  /\ tradeState' = [tradeState EXCEPT
       ![p] = "INITIATED", ![q] = IF @ = "NONE" THEN "ACKNOWLEDGE" ELSE @]
  /\ tradePartner' = [tradePartner EXCEPT
       ![p] = q, ![q] = IF tradeState[q] = "NONE" THEN p ELSE @]
  /\ UNCHANGED <<online, position, parent, crashed>>

-----------------------------------------------------------------------------
(* playerAcceptTrade *)

MayAccept(p) == ~crashed /\ p \in online /\ tradeState[p] \in {"ACKNOWLEDGE", "INITIATED"}

\* Mutant: one acceptance is enough.
AcceptsAlone(p) == MayAccept(p) /\ tradePartner[p] # None
SecondAccept(p) ==
  MayAccept(p) /\ tradePartner[p] # None /\ tradeState[tradePartner[p]] = "ACCEPT"

FirstAccept(p) ==
  /\ MayAccept(p) /\ ~SecondAccept(p)
  /\ tradeState' = [tradeState EXCEPT ![p] = "ACCEPT"]
  /\ UNCHANGED <<online, position, parent, tradePartner, tradeItem, tradeItems, crashed>>

\* A tradeaccept script refuses: the handler returns, the trade stays open.
DenyAccept(p) ==
  /\ SecondAccept(p)
  /\ tradeState' = [tradeState EXCEPT ![p] = "ACCEPT"]
  /\ UNCHANGED <<online, position, parent, tradePartner, tradeItem, tradeItems, crashed>>

\* Mutant: the search does not spare the offered container.
AnyContainer(par, q, c) == TRUE

\* Player::__queryDestination passes over the item q offers; over what is
\* inside it too when it is in a slot of q's, not when it is in a container.
Spared(par, q, c) ==
  LET t == tradeItem[q] IN
  c # t /\ (Holds(par, t, c) => par[t] # q)

\* Where an item that goes to q may end: in a slot, in a container of q's, or
\* merged with a stack that lies in one (an offered stack included).
Destinations(par, i, q) ==
  {q} \cup {c \in Containers : /\ RootIn(par, c) = q
                               /\ c # i /\ ~Holds(par, i, c)
                               /\ Spared(par, q, c)}
      \cup {j \in Stacks : /\ i \in Stacks /\ j # i
                           /\ RootIn(par, j) = q
                           /\ IF par[j] = q THEN j # tradeItem[q]
                              ELSE /\ par[j] \in Containers
                                   /\ par[j] # i /\ ~Holds(par, i, j)
                                   /\ Spared(par, q, par[j])}

\* The two moves, the first partner's item before the second's.
Swapped(p, q) ==
  \E d1 \in Destinations(parent, tradeItem[p], q) :
    LET halfway == [parent EXCEPT ![tradeItem[p]] = d1] IN
    \E d2 \in Destinations(halfway, tradeItem[q], p) :
      parent' = [halfway EXCEPT ![tradeItem[q]] = d2]

\* The rest of the handler: both tests pass and the items change hands, or one
\* fails and nothing moves; the trade is over either way.  Without an item on
\* both sides a test fails and the null item is asked about the cancellation.
CompleteAccept(p) ==
  LET q == tradePartner[p] IN
  /\ SecondAccept(p)
  /\ crashed' = (None \in {tradeItem[p], tradeItem[q]})
  /\ \/ UNCHANGED parent
     \/ ~crashed' /\ Swapped(p, q)
  /\ CloseTrades({p})
  /\ UNCHANGED <<online, position>>

-----------------------------------------------------------------------------
(* What closes a trade *)

\* playerCloseTrade
CloseTrade(p) ==
  /\ ~crashed /\ p \in online
  /\ CloseTrades({p})
  /\ UNCHANGED <<online, position, parent, crashed>>

PartnerTooFar(p, x) ==
  tradePartner[p] # None /\ ~Near(position[tradePartner[p]], x, 2)

\* onCreatureMove: the player's own item, or the partner, is out of range.
TooFar(p, x) ==
  \/ PartnerTooFar(p, x)
  \/ /\ tradeItem[p] # None
     /\ RootIn(parent, tradeItem[p]) # p
     /\ ~Near(RootIn(parent, tradeItem[p]), x, 1)

Move(p, x) ==
  /\ ~crashed /\ p \in online /\ position[p] # x
  /\ position' = [position EXCEPT ![p] = x]
  /\ CloseTrades(IF TooFar(p, x) THEN {p} ELSE {})
  /\ UNCHANGED <<online, parent, crashed>>

\* Mutant: checkTradeState sees only the offered item itself.
TouchesItem(par, i, t) == t = i

\* checkTradeState and its callers: the item taken or put down is offered, or
\* lies in an offered container, or holds an offered item.
Touches(par, i, t) == Related(par, i, t)

\* onRemoveContainerItem closes the trade also when anything is taken from a
\* container that holds the offered item further down.
TakenAbove(i, t) ==
  parent[i] \in Containers /\ parent[i] # parent[t] /\ Holds(parent, parent[i], t)

\* A player puts items in a slot, on the floor, in a container or on a stack.
MayPut(p, i, to) ==
  \/ to = p \/ to \in Positions
  \/ /\ to \in Containers \/ (i \in Stacks /\ to \in Stacks /\ parent[to] \notin Stacks)
     /\ Reachable(p, to) /\ to # i /\ ~Holds(parent, i, to)

\* A player moves an item within reach: everyone near is told.
MoveItem(p, i, to) ==
  /\ ~crashed /\ p \in online
  /\ parent[i] \notin Stacks /\ Reachable(p, i)
  /\ to # parent[i] /\ MayPut(p, i, to)
  /\ parent' = [parent EXCEPT ![i] = to]
  /\ CloseTrades({q \in Players : /\ tradeItem[q] # None
                                  /\ \/ Touches(parent, i, tradeItem[q])
                                     \/ Touches(parent', i, tradeItem[q])
                                     \/ TakenAbove(i, tradeItem[q])})
  /\ UNCHANGED <<online, position, crashed>>

\* Mutant: the trade of a player who leaves stays open.
NobodyLeaves(p) == {}
\* onCreatureDisappear: a player who leaves closes the trade.
LeavesTrade(p) == IF tradePartner[p] # None THEN {p} ELSE {}

Logout(p) ==
  /\ ~crashed /\ p \in online
  /\ online' = online \ {p}
  /\ CloseTrades(LeavesTrade(p))
  /\ UNCHANGED <<position, parent, crashed>>

Login(p) ==
  /\ ~crashed /\ p \notin online
  /\ online' = online \cup {p}
  /\ UNCHANGED <<position, parent, tvars, crashed>>

-----------------------------------------------------------------------------

Next ==
  \/ \E p, q \in Players, i \in Items : RequestTrade(p, q, i)
  \/ \E p \in Players :
       \/ FirstAccept(p) \/ DenyAccept(p) \/ CompleteAccept(p)
       \/ CloseTrade(p) \/ Logout(p) \/ Login(p)
       \/ \E x \in Positions : Move(p, x)
       \/ \E i \in Items, to \in Players \cup Positions \cup Items : MoveItem(p, i, to)

Spec == Init /\ [][Next]_vars

-----------------------------------------------------------------------------
(* Properties *)

\* The type of every variable.
TypeOK ==
  /\ online \subseteq Players
  /\ position \in [Players -> Positions]
  /\ parent \in [Items -> Players \cup Positions \cup Items]
  /\ tradeState \in [Players -> States]
  /\ tradePartner \in [Players -> Players \cup {None}]
  /\ tradeItem \in [Players -> Items \cup {None}]
  /\ tradeItems \subseteq Items
  /\ crashed \in BOOLEAN

\* tradePartner is a raw pointer on both sides: the two always name each
\* other, both are in the game and within range, and a player without partner
\* has no trade.
PartnersMutual ==
  \A p \in Players :
    /\ tradePartner[p] = None <=> tradeState[p] = "NONE"
    /\ tradePartner[p] # None =>
         /\ tradePartner[p] # p
         /\ tradePartner[tradePartner[p]] = p
         /\ {p, tradePartner[p]} \subseteq online
         /\ Near(position[p], position[tradePartner[p]], 2)

\* Game::tradeItems holds exactly the offered items, each offered once: no
\* item stays "already being traded" after its trade.
OffersTracked ==
  /\ tradeItems = {tradeItem[p] : p \in Players} \ {None}
  /\ \A p, q \in Players :
       p # q /\ tradeItem[p] # None => tradeItem[p] # tradeItem[q]

\* No item is offered in two trades, not even as the content of another offer,
\* whatever players move around while the trades are open.
OffersDisjoint ==
  \A p, q \in Players :
    p # q /\ None \notin {tradeItem[p], tradeItem[q]}
      => ~Related(parent, tradeItem[p], tradeItem[q])

\* An offered item is one its player still carries or stands next to.
OfferReachable ==
  \A p \in Players : tradeItem[p] # None => Reachable(p, tradeItem[p])

\* Whatever is moved while trades are open, their offers keep apart from each
\* other and within reach of their players.
OffersInPlace == OffersDisjoint /\ OfferReachable

\* What a player has accepted, the partner can neither replace nor change the
\* content of: any such change closes the trade and takes the acceptance back.
AcceptedOfferFixed ==
  [][\A p, q \in Players :
       /\ tradeState[p] = "ACCEPT" /\ tradeState'[p] = "ACCEPT"
       /\ tradePartner[p] = q /\ tradePartner'[p] = q
       /\ tradeItem[q] # None
       => /\ tradeItem'[q] = tradeItem[q]
          /\ {i \in Items : Holds(parent, tradeItem[q], i)}
               = {i \in Items : Holds(parent', tradeItem[q], i)}]_vars

\* A step that moves both offers of a trade gives each to the other player.
\* The exception is the code's: the item that moves first may land in the
\* second one, if that lies in a container and has room in an inner container
\* or is a stack of the same kind; it then comes back with it.
SwapIsComplete ==
  [][\A p, q \in Players :
       /\ tradePartner[p] = q /\ None \notin {tradeItem[p], tradeItem[q]}
       /\ parent'[tradeItem[p]] # parent[tradeItem[p]]
       /\ parent'[tradeItem[q]] # parent[tradeItem[q]]
       => \/ /\ RootIn(parent', tradeItem[p]) = q
             /\ RootIn(parent', tradeItem[q]) = p
          \/ /\ Holds(parent', tradeItem[q], tradeItem[p])
             /\ parent[tradeItem[q]] \in Containers
          \/ /\ Holds(parent', tradeItem[p], tradeItem[q])
             /\ parent[tradeItem[p]] \in Containers]_vars

\* What goes from one player to another was offered by the first to the second,
\* both had an offer in the trade, and one of them had accepted it before.
NothingWithoutConsent ==
  [][\A i \in Items, p, q \in Players :
       p # q /\ RootIn(parent, i) = p /\ RootIn(parent', i) = q
       => /\ tradePartner[p] = q /\ None \notin {tradeItem[p], tradeItem[q]}
          /\ i = tradeItem[p] \/ Holds(parent, tradeItem[p], i)
          /\ "ACCEPT" \in {tradeState[p], tradeState[q]}]_vars

\* The message of the tradeaccept script, "You can't carry more than six
\* pokemons, trade cancelled": two acceptances end the trade, so they are never
\* found side by side once the handler has returned.
DeniedTradeIsCancelled ==
  \A p \in Players :
    tradePartner[p] # None =>
      ~(tradeState[p] = "ACCEPT" /\ tradeState[tradePartner[p]] = "ACCEPT")
=============================================================================
