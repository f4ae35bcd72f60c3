-------------------------------- MODULE Market --------------------------------
(***************************************************************************)
(* The item market of src/src/iomarket.cpp and the saving around it.       *)
(*                                                                         *)
(* Offers are kept in marketMap, in memory.  The dispatcher adds to it     *)
(* (sellMarket) and writes it to the table market_items: the offers of one *)
(* player with that player (savePlayer), all of them with the server       *)
(* (saveGameState) and before it stops.  Purchases and cancellations run   *)
(* on the network thread, beside the dispatcher and without a lock: they   *)
(* are split where the dispatcher may come in between.  Each access to     *)
(* the map is taken to be atomic.                                          *)
(*                                                                         *)
(* The process may crash at any time and is started again from the table.  *)
(* One kind of goods and one currency; what a player owns in the game and  *)
(* in the depot are one.                                                   *)
(***************************************************************************)
EXTENDS Integers, SequencesExt

CONSTANTS
  Players,
  InitialGoods, InitialCoins,   \* what players own at first, [Players -> Nat]
  Counts, Prices,               \* what offers may ask
  MailSize,                     \* items in one parcel, 100 in the code
  IdRange,                      \* ids a request can name, 2^16 in the code
  Lifetime,                     \* two days in the code
  MaxTime, MaxCalls, MaxStarts  \* bounds: clock, calls of players, runs

ASSUME MarketAssumption ==
  /\ IsFiniteSet(Players)
  /\ InitialGoods \in [Players -> Nat] /\ InitialCoins \in [Players -> Nat]
  /\ Counts \subseteq Nat \ {0} /\ Prices \subseteq Nat \ {0}
  /\ MailSize \in Nat \ {0} /\ IdRange \in Nat /\ Lifetime \in Nat
  /\ MaxTime \in Nat /\ MaxCalls \in Nat /\ MaxStarts \in Nat \ {0}

VARIABLES
  task,         \* what the dispatcher is at; "down" if there is no process
  left,         \* players saveGameState has still to save
  closing,      \* the game state is GAME_STATE_SHUTDOWN
  inGame,       \* what players in the game own
  market,       \* marketMap
  nextMarketId,
  net,          \* the request on the network thread
  stored,       \* what players own in the database
  rows,         \* the table market_items
  now,
  starts,       \* runs of the process so far
  calls,        \* calls of players so far
  skipped       \* history: players whose offers were last left unsaved, the
                \* market being empty

process == <<task, left, closing>>
memory == <<inGame, market, nextMarketId>>
database == <<stored, rows, skipped>>
vars == <<process, memory, net, database, now, starts, calls>>

Tasks == {"idle", "save", "kick", "insert", "saved", "down"}
Online == DOMAIN inGame
Up == task # "down"

Idle == [at |-> "idle"]

Init ==
  /\ task = "idle" /\ left = {} /\ closing = FALSE
  /\ inGame = <<>> /\ market = <<>> /\ nextMarketId = 1 /\ net = Idle
  /\ stored = [p \in Players |-> [goods |-> InitialGoods[p], coins |-> InitialCoins[p]]]
  /\ rows = <<>> /\ skipped = {}
  /\ now = 0 /\ starts = 1 /\ calls = 0

\* map[key] = value
With(map, key, value) ==
  [k \in DOMAIN map \cup {key} |-> IF k = key THEN value ELSE map[k]]

-----------------------------------------------------------------------------
(* Saving *)

\* The offers of certain sellers among those numbered up to n, in order: what a
\* loop over the market, or over the rows, comes to list.
Listing(offers, n, sellers) ==
  LET listed[i \in 0..n] ==
        IF i = 0 THEN <<>>
        ELSE IF i \in DOMAIN offers /\ offers[i].seller \in sellers
             THEN Append(listed[i - 1], offers[i])
             ELSE listed[i - 1]
  IN  listed[n]

Offers == Listing(market, nextMarketId - 1, Players)
OffersOf(p) == Listing(market, nextMarketId - 1, {p})
RowsOf(p) == Listing(rows, Len(rows), {p})

\* Mutant: offers that have run out are not saved.
OpenOffers == SelectSeq(Offers, LAMBDA o : now < o.m_Time)
SavedOffers == Offers

\* Mutant: the old rows of the player are kept.
RowsAdded(p) == rows \o OffersOf(p)
RowsReplaced(p) == Listing(rows, Len(rows), Players \ {p}) \o OffersOf(p)

\* savePlayer writes what a player owns and, unless the whole market is
\* empty, his offers, in one transaction.
SavePlayer(p, account) ==
  /\ stored' = [stored EXCEPT ![p] = account]
  /\ IF market = <<>> THEN /\ rows' = rows
                           /\ skipped' = skipped \cup {p}
                      ELSE /\ rows' = RowsReplaced(p)
                           /\ skipped' = skipped \ {p}

\* saveItemsMarket holds the lock of the database from its DELETE to its
\* INSERT, and a query of another thread waits for it.
DatabaseFree == task # "insert"

\* playerNewMail puts a parcel in the depot of a player in the game, or loads
\* a player who is not, and saves him.
Mailed(p, goods, coins) ==
  LET account == IF p \in Online THEN inGame[p] ELSE stored[p]
      more == [goods |-> account.goods + goods, coins |-> account.coins + coins]
  IN  IF p \in Online
      THEN inGame' = [inGame EXCEPT ![p] = more] /\ UNCHANGED database
      ELSE DatabaseFree /\ SavePlayer(p, more) /\ UNCHANGED inGame

-----------------------------------------------------------------------------
(* The dispatcher *)

Login(p) ==
  /\ task = "idle" /\ p \notin Online
  /\ inGame' = With(inGame, p, stored[p])
  /\ UNCHANGED <<process, market, nextMarketId, net, database, now, starts, calls>>

\* A player leaves, or is kicked when the server shuts down.  A request of his
\* that is under way goes on with an object nobody saves any more.
Logout(p) ==
  /\ task \in {"idle", "kick"} /\ p \in Online
  /\ SavePlayer(p, inGame[p])
  /\ inGame' = Restrict(inGame, Online \ {p})
  /\ net' = IF net # Idle /\ net.player = p THEN [net EXCEPT !.here = FALSE] ELSE net
  /\ UNCHANGED <<process, market, nextMarketId, now, starts, calls>>

\* A player spends his coins.
Spend(p) ==
  /\ task = "idle" /\ p \in Online
  /\ inGame' = [inGame EXCEPT ![p].coins = 0]
  /\ UNCHANGED <<process, market, nextMarketId, net, database, now, starts, calls>>

\* Mutant: the id is used again.
SameId == nextMarketId
NextId == nextMarketId + 1

Fee(n, price, all) == ((IF all THEN price ELSE price * n) * 5) \div 100

\* requestSellMarket and acceptSellMarket.
Sell(p, n, price, all) ==
  /\ task = "idle" /\ p \in Online
  /\ calls < MaxCalls /\ calls' = calls + 1
  /\ n <= inGame[p].goods /\ Fee(n, price, all) <= inGame[p].coins
  /\ inGame' = [inGame EXCEPT ![p].goods = @ - n, ![p].coins = @ - Fee(n, price, all)]
  /\ market' = With(market, nextMarketId,
                    [seller |-> p, item_Count |-> n, item_Price |-> price,
                     price_all |-> all, m_Time |-> now + Lifetime])
  /\ nextMarketId' = NextId
  /\ UNCHANGED <<process, net, database, now, starts>>

SaveServer ==
  /\ task = "idle"
  /\ task' = "save" /\ left' = Online
  /\ UNCHANGED <<closing, memory, net, database, now, starts, calls>>

SaveNext(p) ==
  /\ task = "save" /\ p \in left
  /\ left' = left \ {p}
  /\ SavePlayer(p, inGame[p])
  /\ UNCHANGED <<task, closing, memory, net, now, starts, calls>>

\* setGameState(GAME_STATE_SHUTDOWN)
Shutdown ==
  /\ task = "idle"
  /\ task' = "kick" /\ closing' = TRUE
  /\ UNCHANGED <<left, memory, net, database, now, starts, calls>>

AfterSave == IF closing THEN "saved" ELSE "idle"

\* saveItemsMarket: an empty market is not saved; otherwise a DELETE, and then
\* an INSERT of what the market holds by then, each its own transaction.
SaveMarket ==
  /\ \/ task = "save" /\ left = {}
     \/ task = "kick" /\ Online = {}
  /\ IF market = <<>> THEN /\ task' = AfterSave
                           /\ rows' = rows
                           /\ skipped' = Players
                      ELSE /\ task' = "insert"
                           /\ rows' = <<>>
                           /\ skipped' = skipped
  /\ UNCHANGED <<left, closing, memory, net, stored, now, starts, calls>>

InsertRows ==
  /\ task = "insert"
  /\ task' = AfterSave
  /\ rows' = SavedOffers /\ skipped' = {}
  /\ UNCHANGED <<left, closing, memory, net, stored, now, starts, calls>>

-----------------------------------------------------------------------------
(* The network thread *)

\* A request is read while the game runs and its player is in it, and works on
\* a copy of the offer, found by an id of 16 bits.
Request(p, id) ==
  /\ Up /\ ~closing /\ net = Idle /\ p \in Online
  /\ id \in DOMAIN market /\ id < IdRange /\ calls < MaxCalls
  /\ calls' = calls + 1
  /\ UNCHANGED <<process, memory, database, now, starts>>

Price(o, n) == IF o.price_all THEN o.item_Price ELSE o.item_Price * n

\* Mutant: an account is not debited.
NotCharged(account, price) == account
Charged(account, price) == [account EXCEPT !.coins = @ - price]

Buy(p, id, n) ==
  /\ Request(p, id)
  /\ LET o == market[id]
     IN  /\ o.seller # p /\ now < o.m_Time /\ n \in 1..o.item_Count
         /\ o.price_all => n = o.item_Count
         /\ Price(o, n) <= inGame[p].coins
         /\ net' = [at |-> "found", player |-> p, here |-> TRUE, id |-> id,
                    offer |-> o, count |-> n, price |-> Price(o, n)]

\* What is not sold is sent back, and nothing is paid.
CancelSell(p, id) ==
  /\ Request(p, id)
  /\ market[id].seller = p
  /\ net' = [at |-> "found", player |-> p, here |-> TRUE, id |-> id, offer |-> market[id],
             count |-> market[id].item_Count, price |-> 0]

\* Mutant: the count of the offer stays.
Unreduced(o, n) == o
Reduced(o, n) == [o EXCEPT !.item_Count = @ - n]

\* eraseMarket, or setUpdateMarketItem with the copy.
Claim ==
  /\ net.at = "found"
  /\ market' = IF net.count = net.offer.item_Count
               THEN Restrict(market, DOMAIN market \ {net.id})
               ELSE With(market, net.id, Reduced(net.offer, net.count))
  /\ net' = [net EXCEPT !.at = "mail"]
  /\ UNCHANGED <<process, inGame, nextMarketId, database, now, starts, calls>>

\* One parcel; after the last one a purchase is charged.
Mail ==
  /\ net.at = "mail"
  /\ LET parcel == IF net.count < MailSize THEN net.count ELSE MailSize
     IN  /\ Mailed(net.player, parcel, 0)
         /\ net' = IF parcel < net.count THEN [net EXCEPT !.count = @ - parcel]
                   ELSE IF net.price = 0 THEN Idle
                   ELSE [net EXCEPT !.at = "charge", !.count = 0]
  /\ UNCHANGED <<process, market, nextMarketId, now, starts, calls>>

CanPay == net.here /\ net.price <= inGame[net.player].coins

\* The result of removeMoneyMarket is not looked at.
Charge ==
  /\ net.at = "charge"
  /\ inGame' = IF CanPay
               THEN [inGame EXCEPT ![net.player] = Charged(@, net.price)]
               ELSE inGame
  /\ net' = [net EXCEPT !.at = "credit"]
  /\ UNCHANGED <<process, market, nextMarketId, database, now, starts, calls>>

Credit ==
  /\ net.at = "credit"
  /\ Mailed(net.offer.seller, 0, net.price)
  /\ net' = Idle
  /\ UNCHANGED <<process, market, nextMarketId, now, starts, calls>>

-----------------------------------------------------------------------------
(* The process *)

\* The process ends, after Game::shutdown or by itself.
Halt ==
  /\ task' = "down" /\ left' = {} /\ closing' = FALSE
  /\ inGame' = <<>> /\ market' = <<>> /\ nextMarketId' = 1 /\ net' = Idle
  /\ UNCHANGED <<database, now, starts, calls>>

Exit == task = "saved" /\ Halt
Crash == Up /\ Halt

\* setGameState(GAME_STATE_INIT): loadItemsMarket numbers the rows anew.
Start ==
  /\ task = "down" /\ starts < MaxStarts
  /\ task' = "idle" /\ starts' = starts + 1
  /\ market' = rows /\ nextMarketId' = Len(rows) + 1
  /\ skipped' = {}
  /\ UNCHANGED <<left, closing, inGame, net, stored, rows, now, calls>>

Tick ==
  /\ Up /\ now < MaxTime
  /\ now' = now + 1
  /\ UNCHANGED <<process, memory, net, database, starts, calls>>

Dispatcher ==
  \/ \E p \in Players : Login(p) \/ Logout(p) \/ Spend(p) \/ SaveNext(p)
  \/ \E p \in Players, n \in Counts, c \in Prices, all \in BOOLEAN : Sell(p, n, c, all)
  \/ SaveServer \/ Shutdown \/ SaveMarket \/ InsertRows

Network ==
  \/ \E p \in Players, id \in DOMAIN market :
       \/ CancelSell(p, id)
       \/ \E n \in 1..market[id].item_Count : Buy(p, id, n)
  \/ Claim \/ Mail \/ Charge \/ Credit

Next == Dispatcher \/ Network \/ Exit \/ Crash \/ Start \/ Tick

Spec == Init /\ [][Next]_vars
-----------------------------------------------------------------------------
(* Properties *)

Accounts == [goods : Nat, coins : Nat]
OfferType == [seller : Players, item_Count : Nat \ {0}, item_Price : Prices,
              price_all : BOOLEAN, m_Time : 0..(MaxTime + Lifetime)]
RequestType == [at : {"found", "mail", "charge", "credit"}, player : Players,
                here : BOOLEAN, id : Nat, offer : OfferType, count : Nat, price : Nat]

\* Types, and ids below the next one to be given (iomarket.cpp:100-106).
TypeOK ==
  /\ task \in Tasks /\ left \subseteq Online /\ closing \in BOOLEAN
  /\ Online \subseteq Players /\ \A p \in Online : inGame[p] \in Accounts
  /\ nextMarketId \in Nat \ {0} /\ DOMAIN market \subseteq 1..(nextMarketId - 1)
  /\ \A i \in DOMAIN market : market[i] \in OfferType
  /\ net # Idle => net \in RequestType /\ (net.here => net.player \in Online)
  /\ stored \in [Players -> Accounts]
  /\ rows \in Seq(OfferType) /\ skipped \subseteq Players
  /\ now \in 0..MaxTime /\ starts \in 1..MaxStarts /\ calls \in 0..MaxCalls

Owned(p) == IF p \in Online THEN inGame[p] ELSE stored[p]
Claimed == net # Idle /\ net.at # "found"

Goods == SumFunction([p \in Players |-> Owned(p).goods])
       + SumFunction([i \in DOMAIN market |-> market[i].item_Count])
       + (IF Claimed THEN net.count ELSE 0)
Coins == SumFunction([p \in Players |-> Owned(p).coins])
       + (IF Claimed /\ net.at = "credit" THEN net.price ELSE 0)

Running == Up /\ Up'

\* As long as the process runs, goods are neither made nor lost, wherever the
\* dispatcher comes in between the steps of a purchase: the copy of an offer
\* that buyMarket works on (iomarket.cpp:416, 472-479) does not grow stale, as
\* nothing but the one network thread changes or removes offers.
GoodsAccounted == Goods' = Goods

\* Coins go only where the dispatcher spends them, and come only from a purchase whose
\* buyer has spent them, or left the game, since they were counted: what
\* iomarket.cpp:458-463 has checked is not looked at again at line 507.
CoinsAccounted ==
  \/ Coins' = Coins
  \/ Coins' < Coins /\ net' = net
  \/ net # Idle /\ net.at = "charge" /\ ~CanPay

\* Whatever else a step of the running process does, it accounts for both.
Accounted == [][Running => GoodsAccounted /\ CoinsAccounted]_vars

ListedIn(s, p) ==
  SumFunction([i \in DOMAIN s |-> IF s[i].seller = p THEN s[i].item_Count ELSE 0])

\* Nothing that is offered when the server stops in order is missing from the
\* table, though requests under way still change the market while it is being
\* saved (game.cpp:200-217, iomarket.cpp:795-837).
NothingUnsoldLost ==
  task = "saved" => \A p \in Players : ListedIn(rows, p) >= ListedIn(market, p)

\* Whatever the market of a player who is out of the game loses, the table
\* loses with the payment (iologindata.cpp:1377-1426, 1022): a crash brings
\* back no offer of his that was paid for, unless the market was empty.
OfflineOffersCurrent ==
  \A p \in Players \ (Online \cup skipped) :
    (task \notin {"insert", "down"} /\ ~(Claimed /\ net.offer.seller = p))
      => RowsOf(p) = OffersOf(p)

\* What the table must hold of the market, while the process runs and once it
\* has saved.
TableFollowsMarket == NothingUnsoldLost /\ OfflineOffersCurrent

\* savePlayer says it saves the market (iologindata.cpp:1021, "save market"):
\* the table holds the offers of a player who was saved as he left.
MarketSaved ==
  (net = Idle /\ task \notin {"insert", "down"})
    => \A p \in Players \ Online : RowsOf(p) = OffersOf(p)
=============================================================================
