----------------------------- MODULE MarketProofs -----------------------------
(***************************************************************************)
(* Proofs about Market: types, the accounting of goods and coins between   *)
(* the steps of the two threads, and what the table holds of the market.   *)
(***************************************************************************)
EXTENDS Market, SumLemmas

-----------------------------------------------------------------------------
(* Listings *)

\* One step of the loop that lists offers.
Lengthened(listed, offers, i, sellers) ==
  IF i \in DOMAIN offers /\ offers[i].seller \in sellers
  THEN Append(listed, offers[i])
  ELSE listed

Loop(offers, n, sellers) ==
  CHOOSE h : h = [i \in 0..n |-> IF i = 0 THEN <<>>
                                 ELSE Lengthened(h[i - 1], offers, i, sellers)]

LEMMA LoopIs ==
  ASSUME NEW offers, NEW sellers, NEW n \in Nat
  PROVE  /\ Loop(offers, n, sellers)[0] = <<>>
         /\ \A i \in 1..n : Loop(offers, n, sellers)[i]
                              = Lengthened(Loop(offers, n, sellers)[i - 1], offers, i, sellers)
<1> DEFINE F(h, i) == IF i = 0 THEN <<>> ELSE Lengthened(h[i - 1], offers, i, sellers)
           Rec(h, m) == h = [i \in 0..m |-> F(h, i)]
           N == {m \in Nat : \E h : Rec(h, m)}
<1>1. Loop(offers, n, sellers) = CHOOSE h : Rec(h, n)
  BY DEF Loop
<1>2. \A h : F(h, 0) = <<>>
  OBVIOUS
<1>3. ASSUME NEW g, NEW h, NEW i \in Nat, i # 0, g[i - 1] = h[i - 1]
      PROVE  F(g, i) = F(h, i)
  BY <1>3
<1>4. \A h, i : i # 0 => F(h, i) = Lengthened(h[i - 1], offers, i, sellers)
  OBVIOUS
<1> HIDE DEF F
<1>5. 0 \in N
  <2> DEFINE g == [i \in 0..0 |-> <<>>]
  <2>1. Rec(g, 0)
    <3>1. \A i \in 0..0 : i = 0
      OBVIOUS
    <3> QED BY <1>2, <3>1
  <2> QED BY <2>1
<1>6. ASSUME NEW m \in N PROVE m + 1 \in N
  <2>1. PICK h : Rec(h, m)
    OBVIOUS
  <2> DEFINE g == [i \in 0..(m + 1) |-> IF i <= m THEN h[i] ELSE F(h, i)]
  <2>2. ASSUME NEW i \in 0..(m + 1) PROVE g[i] = F(g, i)
    <3>1. \A k \in 0..m : h[k] = F(h, k)
      BY <2>1
    <3>2. i # 0 => i - 1 \in 0..m /\ g[i - 1] = h[i - 1]
      OBVIOUS
    <3>3. F(g, i) = F(h, i)
      <4> HIDE DEF g
      <4> QED BY <1>2, <1>3, <3>2
    <3>4. i <= m => i \in 0..m
      OBVIOUS
    <3> QED BY <3>1, <3>3, <3>4
  <2>3. Rec(g, m + 1)
    <3>1. g = [i \in 0..(m + 1) |-> g[i]]
      OBVIOUS
    <3> HIDE DEF g
    <3> QED BY <2>2, <3>1
  <2>4. m + 1 \in Nat
    OBVIOUS
  <2> HIDE DEF g, Rec
  <2> QED BY <2>3, <2>4
<1> HIDE DEF N
<1>7. N = Nat
  <2>1. N \subseteq Nat
    BY DEF N
  <2> QED BY <1>5, <1>6, <2>1, SetOfNaturals
<1>8. \E h : Rec(h, n)
  <2>1. n \in N
    BY <1>7
  <2> HIDE DEF Rec
  <2> QED BY <2>1 DEF N
<1>9. Rec(Loop(offers, n, sellers), n)
  <2> HIDE DEF Rec
  <2> QED BY <1>1, <1>8
<1> DEFINE f == Loop(offers, n, sellers)
<1> HIDE DEF f
<1>10. \A i \in 0..n : f[i] = F(f, i)
  <2>1. f = [i \in 0..n |-> F(f, i)]
    BY <1>9 DEF f
  <2> QED BY <2>1
<1>11. 0 \in 0..n /\ \A i \in 1..n : i \in 0..n /\ i # 0
  OBVIOUS
<1> QED BY <1>2, <1>4, <1>10, <1>11 DEF f

\* A listing grows with each number by at most the offer of that number.
LEMMA ListingIs ==
  ASSUME NEW offers, NEW sellers
  PROVE  /\ Listing(offers, 0, sellers) = <<>>
         /\ \A n \in Nat : Listing(offers, n + 1, sellers)
                             = Lengthened(Listing(offers, n, sellers), offers, n + 1, sellers)
<1> DEFINE L(n) == Loop(offers, n, sellers)
<1>1. \A n \in Nat : Listing(offers, n, sellers) = L(n)[n]
  BY DEF Listing, Loop, Lengthened
<1>2. \A n \in Nat : L(n)[0] = <<>>
  BY LoopIs
<1>3. \A n \in Nat : \A i \in 1..n : L(n)[i] = Lengthened(L(n)[i - 1], offers, i, sellers)
  BY LoopIs
<1> HIDE DEF L
<1> DEFINE N == {i \in Nat : \A m, n \in Nat : i <= m /\ i <= n => L(m)[i] = L(n)[i]}
<1>4. 0 \in N
  BY <1>2
<1>5. ASSUME NEW i \in N PROVE i + 1 \in N
  <2>1. SUFFICES ASSUME NEW m \in Nat, NEW n \in Nat, i + 1 <= m, i + 1 <= n
                 PROVE  L(m)[i + 1] = L(n)[i + 1]
    OBVIOUS
  <2>2. i + 1 \in 1..m /\ i + 1 \in 1..n /\ (i + 1) - 1 = i /\ i <= m /\ i <= n
    BY <2>1
  <2>3. L(m)[i] = L(n)[i]
    BY <2>2
  <2> HIDE DEF N
  <2> QED BY <1>3, <2>2, <2>3
<1>6. N = Nat
  <2>1. N \subseteq Nat
    OBVIOUS
  <2> HIDE DEF N
  <2> QED BY <1>4, <1>5, <2>1, SetOfNaturals
<1>7. ASSUME NEW n \in Nat
      PROVE  L(n + 1)[n + 1] = Lengthened(L(n)[n], offers, n + 1, sellers)
  <2>1. n + 1 \in Nat /\ n + 1 \in 1..(n + 1) /\ (n + 1) - 1 = n /\ n <= n + 1 /\ n <= n
    OBVIOUS
  <2>2. L(n + 1)[n] = L(n)[n]
    BY <1>6, <2>1
  <2> HIDE DEF N
  <2> QED BY <1>3, <2>1, <2>2
<1>8. 0 \in Nat /\ \A n \in Nat : n + 1 \in Nat
  OBVIOUS
<1> HIDE DEF N
<1> QED BY <1>1, <1>2, <1>7, <1>8

\* A listing of offers is a list of offers.
LEMMA ListingType ==
  ASSUME NEW T, NEW offers, \A i \in DOMAIN offers : offers[i] \in T,
         NEW sellers, NEW n \in Nat
  PROVE  Listing(offers, n, sellers) \in Seq(T)
<1> DEFINE N == {k \in Nat : Listing(offers, k, sellers) \in Seq(T)}
<1>1. 0 \in N
  <2>1. Listing(offers, 0, sellers) = <<>> /\ <<>> \in Seq(T)
    BY ListingIs
  <2> QED BY <2>1
<1>2. ASSUME NEW k \in N PROVE k + 1 \in N
  <2>1. k \in Nat /\ k + 1 \in Nat /\ Listing(offers, k, sellers) \in Seq(T)
    OBVIOUS
  <2>2. Listing(offers, k + 1, sellers)
          = Lengthened(Listing(offers, k, sellers), offers, k + 1, sellers)
    BY <2>1, ListingIs
  <2>3. Lengthened(Listing(offers, k, sellers), offers, k + 1, sellers) \in Seq(T)
    BY <2>1 DEF Lengthened
  <2> QED BY <2>1, <2>2, <2>3
<1>3. N \subseteq Nat
  OBVIOUS
<1> HIDE DEF N
<1>4. N = Nat
  BY <1>1, <1>2, <1>3, SetOfNaturals
<1> QED BY <1>4 DEF N

\* Whom the listings of two maps agree on, they list alike.
LEMMA ListingAlike ==
  ASSUME NEW f, NEW g, NEW a, NEW b, NEW n \in Nat,
         \A i \in 1..n : i \in DOMAIN f /\ f[i].seller \in a
                           <=> i \in DOMAIN g /\ g[i].seller \in b,
         \A i \in 1..n : i \in DOMAIN f /\ f[i].seller \in a => f[i] = g[i]
  PROVE  Listing(f, n, a) = Listing(g, n, b)
<1> DEFINE N == {k \in Nat : k <= n => Listing(f, k, a) = Listing(g, k, b)}
<1>1. 0 \in N
  BY ListingIs
<1>2. ASSUME NEW k \in N PROVE k + 1 \in N
  <2>1. SUFFICES ASSUME k + 1 <= n PROVE Listing(f, k + 1, a) = Listing(g, k + 1, b)
    OBVIOUS
  <2>2. k \in Nat /\ k + 1 \in 1..n /\ k <= n
    BY <2>1
  <2>3. Listing(f, k, a) = Listing(g, k, b)
    BY <2>2
  <2>4. Lengthened(Listing(f, k, a), f, k + 1, a) = Lengthened(Listing(g, k, b), g, k + 1, b)
    BY <2>2, <2>3 DEF Lengthened
  <2> HIDE DEF N
  <2> QED BY <2>2, <2>4, ListingIs
<1>3. N \subseteq Nat
  OBVIOUS
<1> HIDE DEF N
<1>4. N = Nat
  BY <1>1, <1>2, <1>3, SetOfNaturals
<1> QED BY <1>4 DEF N

\* Numbers without an offer to list add nothing.
LEMMA ListingLonger ==
  ASSUME NEW f, NEW a, NEW m \in Nat, NEW n \in Nat, m <= n,
         \A i \in (m + 1)..n : ~(i \in DOMAIN f /\ f[i].seller \in a)
  PROVE  Listing(f, n, a) = Listing(f, m, a)
<1> DEFINE N == {k \in Nat : m <= k /\ k <= n => Listing(f, k, a) = Listing(f, m, a)}
<1>1. 0 \in N
  OBVIOUS
<1>2. ASSUME NEW k \in N PROVE k + 1 \in N
  <2>1. SUFFICES ASSUME m <= k + 1, k + 1 <= n PROVE Listing(f, k + 1, a) = Listing(f, m, a)
    OBVIOUS
  <2>2. CASE m = k + 1
    BY <2>2
  <2>3. CASE m # k + 1
    <3>1. k \in Nat /\ m <= k /\ k <= n /\ k + 1 \in (m + 1)..n
      BY <2>1, <2>3
    <3>2. Listing(f, k, a) = Listing(f, m, a)
      BY <3>1
    <3>3. Lengthened(Listing(f, k, a), f, k + 1, a) = Listing(f, k, a)
      BY <3>1 DEF Lengthened
    <3> HIDE DEF N
    <3> QED BY <3>1, <3>2, <3>3, ListingIs
  <2> QED BY <2>2, <2>3
<1>3. N \subseteq Nat
  OBVIOUS
<1> HIDE DEF N
<1>4. N = Nat
  BY <1>1, <1>2, <1>3, SetOfNaturals
<1> QED BY <1>4 DEF N

\* What a listing lists of a list that grows at its end.
LEMMA ListingAppend ==
  ASSUME NEW T, NEW s \in Seq(T), NEW x \in T, NEW a
  PROVE  Listing(Append(s, x), Len(s) + 1, a)
           = IF x.seller \in a THEN Append(Listing(s, Len(s), a), x) ELSE Listing(s, Len(s), a)
<1> DEFINE t == Append(s, x)
           n == Len(s)
<1>1. /\ n \in Nat /\ DOMAIN t = 1..(n + 1) /\ DOMAIN s = 1..n /\ t[n + 1] = x
      /\ n + 1 \in DOMAIN t /\ \A i \in 1..n : t[i] = s[i] /\ i \in DOMAIN t
  OBVIOUS
<1> HIDE DEF t, n
<1>2. Listing(t, n, a) = Listing(s, n, a)
  BY <1>1, ListingAlike
<1>3. Listing(t, n + 1, a) = Lengthened(Listing(t, n, a), t, n + 1, a)
  BY <1>1, ListingIs
<1> QED BY <1>1, <1>2, <1>3 DEF Lengthened, t, n

\* Listing what was listed before.
LEMMA ListingTwice ==
  ASSUME NEW f, NEW a, NEW b, NEW n \in Nat
  PROVE  Listing(Listing(f, n, a), Len(Listing(f, n, a)), b) = Listing(f, n, a \cap b)
<1> DEFINE T == {f[i] : i \in DOMAIN f}
           S(k) == Listing(f, k, a)
           N == {k \in Nat : Listing(S(k), Len(S(k)), b) = Listing(f, k, a \cap b)}
<1>1. 0 \in N
  <2>1. S(0) = <<>> /\ Listing(f, 0, a \cap b) = <<>> /\ Listing(S(0), 0, b) = <<>>
    BY ListingIs
  <2> QED BY <2>1
<1>2. \A k \in Nat : S(k) \in Seq(T) /\ S(k + 1) = Lengthened(S(k), f, k + 1, a)
  <2>1. \A i \in DOMAIN f : f[i] \in T
    OBVIOUS
  <2> HIDE DEF T
  <2> QED BY <2>1, ListingIs, ListingType
<1> HIDE DEF S
<1>3. ASSUME NEW k \in N PROVE k + 1 \in N
  <2>0. /\ k \in Nat /\ k + 1 \in Nat /\ S(k) \in Seq(T)
        /\ S(k + 1) = Lengthened(S(k), f, k + 1, a)
    BY <1>2
  <2>1. Listing(f, k + 1, a \cap b) = Lengthened(Listing(f, k, a \cap b), f, k + 1, a \cap b)
    BY <2>0, ListingIs
  <2>2. CASE k + 1 \in DOMAIN f /\ f[k + 1].seller \in a
    <3>1. S(k + 1) = Append(S(k), f[k + 1]) /\ Len(S(k + 1)) = Len(S(k)) + 1
      BY <2>0, <2>2 DEF Lengthened
    <3>2. Listing(S(k + 1), Len(S(k)) + 1, b)
            = IF f[k + 1].seller \in b THEN Append(Listing(S(k), Len(S(k)), b), f[k + 1])
                                       ELSE Listing(S(k), Len(S(k)), b)
      <4> HIDE DEF N
      <4>1. f[k + 1] \in T
        BY <2>2
      <4> HIDE DEF T
      <4>2. Listing(Append(S(k), f[k + 1]), Len(S(k)) + 1, b)
              = IF f[k + 1].seller \in b THEN Append(Listing(S(k), Len(S(k)), b), f[k + 1])
                                         ELSE Listing(S(k), Len(S(k)), b)
        BY <2>0, <4>1, ListingAppend
      <4> QED BY <3>1, <4>2
    <3>3. Listing(S(k), Len(S(k)), b) = Listing(f, k, a \cap b)
      OBVIOUS
    <3> HIDE DEF N
    <3>4. Listing(S(k + 1), Len(S(k + 1)), b) = Listing(f, k + 1, a \cap b)
      BY <2>1, <2>2, <3>1, <3>2, <3>3 DEF Lengthened
    <3> QED BY <2>0, <3>4 DEF N
  <2>3. CASE ~(k + 1 \in DOMAIN f /\ f[k + 1].seller \in a)
    BY <2>0, <2>1, <2>3 DEF Lengthened
  <2> QED BY <2>2, <2>3
<1>4. N \subseteq Nat
  OBVIOUS
<1> HIDE DEF N
<1>5. N = Nat
  BY <1>1, <1>3, <1>4, SetOfNaturals
<1> QED BY <1>5 DEF N, S

\* Listing two lists, one after the other.
LEMMA ListingBoth ==
  ASSUME NEW T, NEW s \in Seq(T), NEW t \in Seq(T), NEW a
  PROVE  Listing(s \o t, Len(s \o t), a) = Listing(s, Len(s), a) \o Listing(t, Len(t), a)
<1> DEFINE u == s \o t
           n == Len(s)
           N == {k \in Nat : k <= Len(t)
                               => Listing(u, n + k, a) = Listing(s, n, a) \o Listing(t, k, a)}
<1>1. /\ n \in Nat /\ Len(t) \in Nat /\ Len(u) = n + Len(t)
      /\ DOMAIN u = 1..(n + Len(t)) /\ DOMAIN s = 1..n /\ DOMAIN t = 1..Len(t)
      /\ \A i \in 1..n : u[i] = s[i] /\ i \in DOMAIN u
      /\ \A i \in 1..Len(t) : u[n + i] = t[i] /\ n + i \in DOMAIN u
  OBVIOUS
<1>2. /\ \A i \in 1..n : s[i] \in T
      /\ \A i \in 1..Len(t) : t[i] \in T
  OBVIOUS
<1>3. Listing(s, n, a) \in Seq(T) /\ \A k \in Nat : Listing(t, k, a) \in Seq(T)
  BY <1>1, <1>2, ListingType
<1> HIDE DEF u, n
<1>4. 0 \in N
  <2>1. Listing(u, n, a) = Listing(s, n, a)
    BY <1>1, ListingAlike
  <2>2. Listing(t, 0, a) = <<>>
    BY ListingIs
  <2>3. Listing(s, n, a) \o <<>> = Listing(s, n, a)
    BY <1>3
  <2>4. n + 0 = n
    BY <1>1
  <2> QED BY <2>1, <2>2, <2>3, <2>4
<1>5. ASSUME NEW k \in N PROVE k + 1 \in N
  <2>1. SUFFICES ASSUME k + 1 <= Len(t)
                 PROVE  Listing(u, n + (k + 1), a) = Listing(s, n, a) \o Listing(t, k + 1, a)
    OBVIOUS
  <2>2. /\ k \in Nat /\ k + 1 \in 1..Len(t) /\ k <= Len(t)
        /\ n + k \in Nat /\ n + (k + 1) = (n + k) + 1
    BY <1>1, <2>1
  <2>3. /\ (n + k) + 1 \in DOMAIN u /\ u[(n + k) + 1] = t[k + 1] /\ k + 1 \in DOMAIN t
        /\ t[k + 1] \in T
    BY <1>1, <1>2, <2>2
  <2>4. Listing(u, n + k, a) = Listing(s, n, a) \o Listing(t, k, a)
    BY <2>2
  <2>5. /\ Listing(u, (n + k) + 1, a) = Lengthened(Listing(u, n + k, a), u, (n + k) + 1, a)
        /\ Listing(t, k + 1, a) = Lengthened(Listing(t, k, a), t, k + 1, a)
    BY <2>2, ListingIs
  <2>6. \A v, w \in Seq(T), x \in T : v \o Append(w, x) = Append(v \o w, x)
    OBVIOUS
  <2>7. Listing(s, n, a) \in Seq(T) /\ Listing(t, k, a) \in Seq(T)
    BY <1>3, <2>2
  <2>8. CASE t[k + 1].seller \in a
    <3>1. /\ Listing(u, (n + k) + 1, a) = Append(Listing(u, n + k, a), t[k + 1])
          /\ Listing(t, k + 1, a) = Append(Listing(t, k, a), t[k + 1])
      BY <2>3, <2>5, <2>8 DEF Lengthened
    <3>2. Listing(s, n, a) \o Append(Listing(t, k, a), t[k + 1])
            = Append(Listing(s, n, a) \o Listing(t, k, a), t[k + 1])
      BY <2>3, <2>6, <2>7
    <3> HIDE DEF N
    <3> QED BY <2>2, <2>4, <3>1, <3>2
  <2>9. CASE t[k + 1].seller \notin a
    BY <2>2, <2>3, <2>4, <2>5, <2>9 DEF Lengthened
  <2> QED BY <2>8, <2>9
<1>6. N \subseteq Nat
  OBVIOUS
<1> HIDE DEF N
<1>7. N = Nat
  BY <1>4, <1>5, <1>6, SetOfNaturals
<1> QED BY <1>1, <1>7 DEF N, u, n

-----------------------------------------------------------------------------
(* Types, and the request under way *)

PlayersOK == /\ Online \subseteq Players /\ \A p \in Online : inGame[p] \in Accounts
             /\ stored \in [Players -> Accounts]
MarketOK == /\ nextMarketId \in Nat \ {0} /\ DOMAIN market \subseteq 1..(nextMarketId - 1)
            /\ \A i \in DOMAIN market : market[i] \in OfferType
NetOK == net # Idle => net \in RequestType /\ (net.here => net.player \in Online)
TableOK == rows \in Seq(OfferType) /\ skipped \subseteq Players
ProcessOK == task \in Tasks /\ left \subseteq Online /\ closing \in BOOLEAN
CountsOK == now \in 0..MaxTime /\ starts \in 1..MaxStarts /\ calls \in 0..MaxCalls

LEMMA TypeParts ==
  /\ TypeOK <=> PlayersOK /\ MarketOK /\ NetOK /\ TableOK /\ ProcessOK /\ CountsOK
  /\ TypeOK' <=> PlayersOK' /\ MarketOK' /\ NetOK' /\ TableOK' /\ ProcessOK' /\ CountsOK'
BY DEF TypeOK, PlayersOK, MarketOK, NetOK, TableOK, ProcessOK, CountsOK

\* The copy of an offer that a request works on is the offer until the request
\* claims it; a request that has delivered holds no goods; and what is sent
\* back is sent to the seller.
RequestOK ==
  /\ task = "down" => net = Idle
  /\ net # Idle =>
       /\ net.at = "found" => /\ net.id \in DOMAIN market /\ market[net.id] = net.offer
                              /\ net.count \in 1..net.offer.item_Count
       /\ net.at \in {"charge", "credit"} => net.count = 0
       /\ net.at \in {"found", "mail"} /\ net.price = 0 => net.offer.seller = net.player

\* Only saveGameState keeps a list of whom it has still to save.
LeftOK == task # "save" => left = {}

Inv == TypeOK /\ RequestOK /\ LeftOK

LEMMA IdleIs == Idle.at = "idle" /\ Idle \notin RequestType
BY DEF Idle, RequestType

LEMMA OffersTyped ==
  ASSUME MarketOK, NEW sellers
  PROVE  Listing(market, nextMarketId - 1, sellers) \in Seq(OfferType)
<1>1. nextMarketId - 1 \in Nat
  BY DEF MarketOK
<1> QED BY <1>1, ListingType DEF MarketOK

LEMMA RowsTyped ==
  ASSUME TableOK, NEW sellers
  PROVE  Listing(rows, Len(rows), sellers) \in Seq(OfferType)
<1>1. Len(rows) \in Nat /\ \A i \in DOMAIN rows : rows[i] \in OfferType
  BY DEF TableOK
<1> QED BY <1>1, ListingType

LEMMA SavePlayerTypes ==
  ASSUME PlayersOK, MarketOK, TableOK, NEW p \in Players, NEW account \in Accounts,
         SavePlayer(p, account)
  PROVE  stored' \in [Players -> Accounts] /\ TableOK'
<1>1. stored' \in [Players -> Accounts]
  BY DEF SavePlayer, PlayersOK
<1>2. RowsReplaced(p) \in Seq(OfferType)
  <2>1. OffersOf(p) \in Seq(OfferType) /\ Listing(rows, Len(rows), Players \ {p}) \in Seq(OfferType)
    BY OffersTyped, RowsTyped DEF OffersOf
  <2> QED BY <2>1 DEF RowsReplaced
<1>3. rows' \in Seq(OfferType) /\ skipped' \subseteq Players
  BY <1>2 DEF SavePlayer, TableOK
<1> QED BY <1>1, <1>3 DEF TableOK

\* A parcel, or a payment, reaches the one account it is for.
LEMMA MailedTypes ==
  ASSUME PlayersOK, MarketOK, TableOK, NEW p \in Players, NEW goods \in Nat, NEW coins \in Nat,
         Mailed(p, goods, coins)
  PROVE  /\ PlayersOK' /\ TableOK' /\ Online' = Online
         /\ \A q \in Players \ {p} : Owned(q)' = Owned(q)
         /\ Owned(p)'.goods = Owned(p).goods + goods
         /\ Owned(p)'.coins = Owned(p).coins + coins
<1> DEFINE account == IF p \in Online THEN inGame[p] ELSE stored[p]
           more == [goods |-> account.goods + goods, coins |-> account.coins + coins]
<1>1. account \in Accounts /\ account = Owned(p)
  BY DEF PlayersOK, Owned
<1>2. more \in Accounts /\ more.goods = account.goods + goods /\ more.coins = account.coins + coins
  BY <1>1 DEF Accounts
<1>3. CASE p \in Online
  <2>1. inGame' = [inGame EXCEPT ![p] = more] /\ UNCHANGED database
    BY <1>3 DEF Mailed
  <2> HIDE DEF more, account
  <2>2. /\ Online' = Online /\ inGame'[p] = more
        /\ \A q \in Online \ {p} : inGame'[q] = inGame[q]
    BY <1>3, <2>1 DEF Online
  <2>3. stored' = stored /\ rows' = rows /\ skipped' = skipped
    BY <2>1 DEF database
  <2>4. PlayersOK' /\ TableOK'
    BY <1>2, <2>2, <2>3 DEF PlayersOK, TableOK
  <2>5. /\ Owned(p)' = more
        /\ \A q \in Players \ {p} : Owned(q)' = Owned(q)
    BY <1>3, <2>2, <2>3 DEF Owned
  <2> QED BY <1>1, <1>2, <2>2, <2>4, <2>5
<1>4. CASE p \notin Online
  <2>1. SavePlayer(p, more) /\ inGame' = inGame
    BY <1>4 DEF Mailed
  <2> HIDE DEF more, account
  <2>2. Online' = Online /\ stored' = [stored EXCEPT ![p] = more]
    BY <2>1 DEF Online, SavePlayer
  <2>3. stored' \in [Players -> Accounts] /\ TableOK'
    BY <1>2, <2>1, SavePlayerTypes
  <2>4. PlayersOK'
    BY <2>1, <2>2, <2>3 DEF PlayersOK
  <2>5. /\ Owned(p)' = more
        /\ \A q \in Players \ {p} : Owned(q)' = Owned(q)
    BY <1>4, <2>1, <2>2 DEF Owned, PlayersOK
  <2> QED BY <1>1, <1>2, <2>2, <2>3, <2>4, <2>5
<1> QED BY <1>3, <1>4

\* What a part of the invariant looks at, and what keeps it.
LEMMA PartsKept ==
  /\ PlayersOK /\ inGame' = inGame /\ stored' = stored => PlayersOK'
  /\ MarketOK /\ market' = market /\ nextMarketId' = nextMarketId => MarketOK'
  /\ NetOK /\ net' = net /\ Online' = Online => NetOK'
  /\ TableOK /\ rows' = rows /\ skipped' = skipped => TableOK'
  /\ ProcessOK /\ task' = task /\ left' = left /\ closing' = closing /\ Online' = Online
       => ProcessOK'
  /\ CountsOK /\ now' = now /\ starts' = starts /\ calls' = calls => CountsOK'
  /\ RequestOK /\ task' = task /\ net' = net /\ market' = market => RequestOK'
  /\ LeftOK /\ task' = task /\ left' = left => LeftOK'
BY DEF LeftOK, PlayersOK, MarketOK, NetOK, TableOK, ProcessOK, CountsOK, RequestOK, Online, process

LEMMA LoginStep == ASSUME Inv, NEW p \in Players, Login(p) PROVE Inv'
<1>1. /\ PlayersOK /\ MarketOK /\ NetOK /\ TableOK /\ ProcessOK /\ CountsOK /\ RequestOK /\ LeftOK
  BY TypeParts DEF Inv
<1>2. /\ task = "idle" /\ p \notin Online /\ inGame' = With(inGame, p, stored[p])
      /\ UNCHANGED <<process, market, nextMarketId, net, database, now, starts, calls>>
  BY DEF Login
<1>3. /\ Online' = Online \cup {p} /\ inGame'[p] = stored[p]
      /\ \A q \in Online : inGame'[q] = inGame[q]
  BY <1>2 DEF Online, With
<1>4. /\ task' = task /\ left' = left /\ closing' = closing /\ net' = net
      /\ stored' = stored /\ rows' = rows /\ skipped' = skipped
      /\ market' = market /\ nextMarketId' = nextMarketId
      /\ now' = now /\ starts' = starts /\ calls' = calls
  BY <1>2 DEF process, database
<1>5. PlayersOK'
  BY <1>1, <1>3, <1>4 DEF PlayersOK
<1>6. NetOK' /\ ProcessOK'
  BY <1>1, <1>3, <1>4 DEF NetOK, ProcessOK
<1> QED BY <1>1, <1>4, <1>5, <1>6, PartsKept, TypeParts DEF Inv

LEMMA LogoutStep == ASSUME Inv, NEW p \in Players, Logout(p) PROVE Inv'
<1>1. /\ PlayersOK /\ MarketOK /\ NetOK /\ TableOK /\ ProcessOK /\ CountsOK /\ RequestOK /\ LeftOK
  BY TypeParts DEF Inv
<1>2. /\ task \in {"idle", "kick"} /\ p \in Online /\ SavePlayer(p, inGame[p])
      /\ inGame' = Restrict(inGame, Online \ {p})
      /\ net' = IF net # Idle /\ net.player = p THEN [net EXCEPT !.here = FALSE] ELSE net
      /\ UNCHANGED <<process, market, nextMarketId, now, starts, calls>>
  BY DEF Logout
<1>3. /\ Online' = Online \ {p} /\ \A q \in Online \ {p} : inGame'[q] = inGame[q]
  BY <1>2 DEF Online, Restrict
<1>4. /\ task' = task /\ left' = left /\ closing' = closing
      /\ market' = market /\ nextMarketId' = nextMarketId
      /\ now' = now /\ starts' = starts /\ calls' = calls
  BY <1>2 DEF process
<1>5. stored' \in [Players -> Accounts] /\ TableOK'
  <2>1. inGame[p] \in Accounts
    BY <1>1, <1>2 DEF PlayersOK
  <2> QED BY <1>1, <1>2, <2>1, SavePlayerTypes
<1>6. PlayersOK'
  BY <1>1, <1>3, <1>5 DEF PlayersOK
<1>7. NetOK' /\ RequestOK'
  <2>1. CASE net # Idle /\ net.player = p
    <3>1. net \in RequestType /\ net' = [net EXCEPT !.here = FALSE]
      BY <1>1, <1>2, <2>1 DEF NetOK
    <3>2. /\ net' \in RequestType /\ net'.here = FALSE /\ net'.at = net.at /\ net'.id = net.id
          /\ net'.offer = net.offer /\ net'.count = net.count /\ net'.price = net.price
          /\ net'.player = net.player
      BY <3>1 DEF RequestType
    <3> QED BY <1>1, <1>2, <1>4, <2>1, <3>2 DEF NetOK, RequestOK
  <2>2. CASE ~(net # Idle /\ net.player = p)
    BY <1>1, <1>2, <1>3, <1>4, <2>2 DEF NetOK, RequestOK
  <2> QED BY <2>1, <2>2
<1>8. ProcessOK'
  BY <1>1, <1>2, <1>3, <1>4 DEF ProcessOK, LeftOK
<1> QED BY <1>1, <1>4, <1>5, <1>6, <1>7, <1>8, PartsKept, TypeParts DEF Inv

LEMMA SpendStep == ASSUME Inv, NEW p \in Players, Spend(p) PROVE Inv'
<1>1. /\ PlayersOK /\ MarketOK /\ NetOK /\ TableOK /\ ProcessOK /\ CountsOK /\ RequestOK /\ LeftOK
  BY TypeParts DEF Inv
<1>2. /\ p \in Online /\ inGame' = [inGame EXCEPT ![p].coins = 0]
      /\ task' = task /\ left' = left /\ closing' = closing /\ net' = net
      /\ stored' = stored /\ rows' = rows /\ skipped' = skipped
      /\ market' = market /\ nextMarketId' = nextMarketId
      /\ now' = now /\ starts' = starts /\ calls' = calls
  BY DEF Spend, process, database
<1>3. /\ Online' = Online /\ inGame'[p] = [inGame[p] EXCEPT !.coins = 0]
      /\ \A q \in Online \ {p} : inGame'[q] = inGame[q]
  BY <1>2 DEF Online
<1>4. PlayersOK'
  <2>1. inGame'[p] \in Accounts
    BY <1>1, <1>2, <1>3 DEF PlayersOK, Accounts
  <2> QED BY <1>1, <1>2, <1>3, <2>1 DEF PlayersOK
<1> QED BY <1>1, <1>2, <1>3, <1>4, PartsKept, TypeParts DEF Inv

LEMMA NaturalsMultiply == \A a, b \in Nat : a * b \in Nat /\ (a # 0 /\ b # 0 => a * b # 0)
OBVIOUS

LEMMA FeeIs ==
  ASSUME NEW n \in Nat, NEW price \in Nat, NEW all \in BOOLEAN
  PROVE  Fee(n, price, all) \in Nat
<1>1. (IF all THEN price ELSE price * n) \in Nat
  BY NaturalsMultiply
<1>2. \A a \in Nat : (a * 5) \div 100 \in Nat
  OBVIOUS
<1> QED BY <1>1, <1>2 DEF Fee

LEMMA SellStep ==
  ASSUME Inv, NEW p \in Players, NEW n \in Counts, NEW price \in Prices, NEW all \in BOOLEAN,
         Sell(p, n, price, all)
  PROVE  Inv'
<1> DEFINE fee == Fee(n, price, all)
           offer == [seller |-> p, item_Count |-> n, item_Price |-> price,
                     price_all |-> all, m_Time |-> now + Lifetime]
<1>1. /\ PlayersOK /\ MarketOK /\ NetOK /\ TableOK /\ ProcessOK /\ CountsOK /\ RequestOK /\ LeftOK
  BY TypeParts DEF Inv
<1>2. /\ task = "idle" /\ p \in Online /\ calls < MaxCalls /\ calls' = calls + 1
      /\ n <= inGame[p].goods /\ fee <= inGame[p].coins
      /\ inGame' = [inGame EXCEPT ![p].goods = @ - n, ![p].coins = @ - fee]
      /\ market' = With(market, nextMarketId, offer) /\ nextMarketId' = nextMarketId + 1
      /\ task' = task /\ left' = left /\ closing' = closing /\ net' = net
      /\ stored' = stored /\ rows' = rows /\ skipped' = skipped
      /\ now' = now /\ starts' = starts
  BY DEF Sell, NextId, process, database
<1>3. n \in Nat \ {0} /\ price \in Nat \ {0} /\ fee \in Nat /\ offer \in OfferType
  <2>1. n \in Nat \ {0} /\ price \in Nat \ {0}
    BY MarketAssumption
  <2>2. now + Lifetime \in 0..(MaxTime + Lifetime)
    BY <1>1, MarketAssumption DEF CountsOK
  <2> QED BY <2>1, <2>2, FeeIs DEF OfferType
<1> HIDE DEF fee, offer
<1>4. /\ Online' = Online
      /\ inGame'[p] = [inGame[p] EXCEPT !.goods = @ - n, !.coins = @ - fee]
      /\ \A q \in Online \ {p} : inGame'[q] = inGame[q]
  BY <1>2 DEF Online
<1>5. PlayersOK'
  <2>1. inGame'[p] \in Accounts
    <3>1. /\ inGame[p] \in Accounts /\ inGame[p].goods \in Nat /\ inGame[p].coins \in Nat
      BY <1>1, <1>2 DEF PlayersOK, Accounts
    <3>2. inGame[p].goods - n \in Nat /\ inGame[p].coins - fee \in Nat
      BY <1>2, <1>3, <3>1
    <3> QED BY <1>4, <3>1, <3>2 DEF Accounts
  <2> QED BY <1>1, <1>2, <1>4, <2>1 DEF PlayersOK
<1>6. nextMarketId \notin DOMAIN market /\ nextMarketId \in Nat \ {0}
  BY <1>1 DEF MarketOK
<1>7. /\ DOMAIN market' = DOMAIN market \cup {nextMarketId}
      /\ market'[nextMarketId] = offer
      /\ \A i \in DOMAIN market : market'[i] = market[i]
  BY <1>2, <1>6 DEF With
<1>8. MarketOK'
  BY <1>1, <1>2, <1>3, <1>6, <1>7 DEF MarketOK
<1>9. RequestOK'
  BY <1>1, <1>2, <1>7 DEF RequestOK
<1>10. CountsOK'
  BY <1>1, <1>2, MarketAssumption DEF CountsOK
<1> QED BY <1>1, <1>2, <1>4, <1>5, <1>8, <1>9, <1>10, PartsKept, TypeParts DEF Inv

LEMMA SavingStep ==
  ASSUME Inv, \/ SaveServer \/ Shutdown \/ SaveMarket \/ InsertRows
              \/ \E p \in Players : SaveNext(p)
  PROVE  Inv'
<1>1. /\ PlayersOK /\ MarketOK /\ NetOK /\ TableOK /\ ProcessOK /\ CountsOK /\ RequestOK /\ LeftOK
  BY TypeParts DEF Inv
<1>2. CASE SaveServer \/ Shutdown
  <2>1. /\ task = "idle" /\ task' \in {"save", "kick"} /\ closing' \in {closing, TRUE}
        /\ (task' = "save" => left' = Online) /\ (task' = "kick" => left' = left)
        /\ inGame' = inGame /\ market' = market /\ nextMarketId' = nextMarketId /\ net' = net
        /\ stored' = stored /\ rows' = rows /\ skipped' = skipped
        /\ now' = now /\ starts' = starts /\ calls' = calls
    BY <1>2 DEF SaveServer, Shutdown, memory, database
  <2>2. Online' = Online
    BY <2>1 DEF Online
  <2>3. ProcessOK' /\ LeftOK' /\ RequestOK'
    BY <1>1, <2>1, <2>2 DEF ProcessOK, LeftOK, RequestOK, Tasks
  <2> QED BY <1>1, <2>1, <2>2, <2>3, PartsKept, TypeParts DEF Inv
<1>3. CASE SaveMarket
  <2>1. /\ task \in {"save", "kick"} /\ (task = "save" => left = {})
        /\ task' \in {"idle", "saved", "insert"} /\ left' = left /\ closing' = closing
        /\ inGame' = inGame /\ market' = market /\ nextMarketId' = nextMarketId /\ net' = net
        /\ stored' = stored /\ now' = now /\ starts' = starts /\ calls' = calls
        /\ rows' \in {rows, <<>>} /\ skipped' \in {Players, skipped}
    BY <1>3 DEF SaveMarket, AfterSave, memory
  <2>2. Online' = Online /\ TableOK'
    <3>1. <<>> \in Seq(OfferType)
      OBVIOUS
    <3> QED BY <1>1, <2>1, <3>1 DEF Online, TableOK
  <2>3. ProcessOK' /\ LeftOK' /\ RequestOK'
    BY <1>1, <2>1, <2>2 DEF ProcessOK, LeftOK, RequestOK, Tasks
  <2> QED BY <1>1, <2>1, <2>2, <2>3, PartsKept, TypeParts DEF Inv
<1>4. CASE InsertRows
  <2>1. /\ task = "insert" /\ task' \in {"idle", "saved"} /\ left' = left /\ closing' = closing
        /\ inGame' = inGame /\ market' = market /\ nextMarketId' = nextMarketId /\ net' = net
        /\ stored' = stored /\ now' = now /\ starts' = starts /\ calls' = calls
        /\ rows' = Offers /\ skipped' = {}
    BY <1>4 DEF InsertRows, SavedOffers, AfterSave, memory
  <2>2. Online' = Online /\ TableOK'
    <3>1. Offers \in Seq(OfferType)
      BY <1>1, OffersTyped DEF Offers
    <3> QED BY <2>1, <3>1 DEF Online, TableOK
  <2>3. ProcessOK' /\ LeftOK' /\ RequestOK'
    BY <1>1, <2>1, <2>2 DEF ProcessOK, LeftOK, RequestOK, Tasks
  <2> QED BY <1>1, <2>1, <2>2, <2>3, PartsKept, TypeParts DEF Inv
<1>5. ASSUME NEW p \in Players, SaveNext(p) PROVE Inv'
  <2>1. /\ task = "save" /\ p \in left /\ left' = left \ {p} /\ SavePlayer(p, inGame[p])
        /\ task' = task /\ closing' = closing
        /\ inGame' = inGame /\ market' = market /\ nextMarketId' = nextMarketId /\ net' = net
        /\ now' = now /\ starts' = starts /\ calls' = calls
    BY <1>5 DEF SaveNext, memory
  <2>2. stored' \in [Players -> Accounts] /\ TableOK'
    <3>1. inGame[p] \in Accounts
      BY <1>1, <2>1 DEF PlayersOK, ProcessOK
    <3> QED BY <1>1, <2>1, <3>1, SavePlayerTypes
  <2>3. Online' = Online
    BY <2>1 DEF Online
  <2>4. PlayersOK' /\ ProcessOK' /\ LeftOK'
    BY <1>1, <2>1, <2>2, <2>3 DEF PlayersOK, ProcessOK, LeftOK
  <2> QED BY <1>1, <2>1, <2>2, <2>3, <2>4, PartsKept, TypeParts DEF Inv
<1> QED BY <1>2, <1>3, <1>4, <1>5

\* What a request begins with.
LEMMA BeginStep ==
  ASSUME Inv, NEW p \in Players, NEW id, Request(p, id), market[id].item_Count \in Nat,
         NEW n \in 1..market[id].item_Count, NEW price \in Nat,
         price = 0 => market[id].seller = p,
         net' = [at |-> "found", player |-> p, here |-> TRUE, id |-> id,
                 offer |-> market[id], count |-> n, price |-> price]
  PROVE  Inv'
<1>1. /\ PlayersOK /\ MarketOK /\ NetOK /\ TableOK /\ ProcessOK /\ CountsOK /\ RequestOK /\ LeftOK
  BY TypeParts DEF Inv
<1>2. /\ task # "down" /\ p \in Online /\ id \in DOMAIN market
      /\ calls < MaxCalls /\ calls' = calls + 1
      /\ task' = task /\ left' = left /\ closing' = closing
      /\ inGame' = inGame /\ market' = market /\ nextMarketId' = nextMarketId
      /\ stored' = stored /\ rows' = rows /\ skipped' = skipped
      /\ now' = now /\ starts' = starts
  BY DEF Request, Up, process, memory, database
<1>3. /\ net' \in RequestType /\ net'.at = "found" /\ net'.player = p /\ net'.id = id
      /\ net'.offer = market[id] /\ net'.count = n /\ net'.price = price
  <2>1. id \in Nat /\ market[id] \in OfferType /\ n \in Nat
    BY <1>1, <1>2 DEF MarketOK
  <2> QED BY <2>1 DEF RequestType
<1>4. Online' = Online
  BY <1>2 DEF Online
<1>5. NetOK' /\ RequestOK'
  BY <1>2, <1>3, <1>4 DEF NetOK, RequestOK
<1>6. CountsOK'
  BY <1>1, <1>2, MarketAssumption DEF CountsOK
<1> QED BY <1>1, <1>2, <1>4, <1>5, <1>6, PartsKept, TypeParts DEF Inv

LEMMA PriceIs ==
  ASSUME NEW o \in OfferType, NEW n \in Nat \ {0}
  PROVE  Price(o, n) \in Nat \ {0}
<1>1. o.item_Price \in Nat \ {0}
  BY MarketAssumption DEF OfferType
<1> QED BY <1>1, NaturalsMultiply DEF Price

LEMMA BuyStep ==
  ASSUME Inv, NEW p \in Players, NEW id, NEW n, Buy(p, id, n)
  PROVE  Inv'
<1>1. /\ Request(p, id) /\ n \in 1..market[id].item_Count
      /\ net' = [at |-> "found", player |-> p, here |-> TRUE, id |-> id,
                 offer |-> market[id], count |-> n, price |-> Price(market[id], n)]
  BY DEF Buy
<1>2. market[id] \in OfferType /\ market[id].item_Count \in Nat
  BY <1>1, TypeParts DEF Inv, Request, MarketOK, OfferType
<1>3. Price(market[id], n) \in Nat \ {0}
  BY <1>1, <1>2, PriceIs
<1> HIDE DEF Price
<1> QED BY <1>1, <1>2, <1>3, BeginStep

LEMMA CancelStep == ASSUME Inv, NEW p \in Players, NEW id, CancelSell(p, id) PROVE Inv'
<1> DEFINE n == market[id].item_Count
<1>1. /\ Request(p, id) /\ market[id].seller = p
      /\ net' = [at |-> "found", player |-> p, here |-> TRUE, id |-> id,
                 offer |-> market[id], count |-> n, price |-> 0]
  BY DEF CancelSell
<1>2. n \in Nat \ {0}
  BY <1>1, TypeParts DEF Inv, Request, MarketOK, OfferType
<1>3. n \in 1..n /\ n \in Nat /\ 0 \in Nat
  BY <1>2
<1> HIDE DEF n
<1> QED BY <1>1, <1>2, <1>3, BeginStep DEF n

\* What a claim does to the market and to the request.
LEMMA ClaimIs ==
  ASSUME Inv, Claim
  PROVE  /\ net \in RequestType /\ net' = [net EXCEPT !.at = "mail"] /\ net' \in RequestType
         /\ net'.at = "mail" /\ net'.count = net.count /\ net'.price = net.price
         /\ net'.offer = net.offer /\ net'.player = net.player /\ net'.here = net.here
         /\ net.at = "found" /\ net.id \in DOMAIN market /\ net.offer = market[net.id]
         /\ net.offer \in OfferType /\ net.count \in 1..net.offer.item_Count
         /\ \A i \in DOMAIN market \ {net.id} : i \in DOMAIN market' /\ market'[i] = market[i]
         /\ \/ /\ net.count = net.offer.item_Count
               /\ DOMAIN market' = DOMAIN market \ {net.id}
            \/ /\ net.count # net.offer.item_Count /\ DOMAIN market' = DOMAIN market
               /\ market'[net.id] \in OfferType /\ market'[net.id].seller = net.offer.seller
               /\ market'[net.id].item_Count = net.offer.item_Count - net.count
<1>1. net.at = "found" /\ net' = [net EXCEPT !.at = "mail"]
  BY DEF Claim
<1>2. /\ NetOK /\ RequestOK /\ net # Idle
  BY <1>1, IdleIs, TypeParts DEF Inv
<1>3. /\ net \in RequestType /\ net.id \in DOMAIN market /\ net.offer = market[net.id]
      /\ net.count \in 1..net.offer.item_Count /\ net.offer \in OfferType
  BY <1>1, <1>2 DEF NetOK, RequestOK, RequestType
<1>4. /\ net' \in RequestType
      /\ net'.at = "mail" /\ net'.count = net.count /\ net'.price = net.price
      /\ net'.offer = net.offer /\ net'.player = net.player /\ net'.here = net.here
  BY <1>1, <1>3 DEF RequestType
<1>5. CASE net.count = net.offer.item_Count
  <2>1. market' = Restrict(market, DOMAIN market \ {net.id})
    BY <1>5 DEF Claim
  <2>2. /\ DOMAIN market' = DOMAIN market \ {net.id}
        /\ \A i \in DOMAIN market \ {net.id} : market'[i] = market[i]
    BY <2>1 DEF Restrict
  <2> QED BY <1>1, <1>3, <1>4, <1>5, <2>2
<1>6. CASE net.count # net.offer.item_Count
  <2> DEFINE rest == Reduced(net.offer, net.count)
  <2>1. market' = With(market, net.id, rest)
    BY <1>6 DEF Claim
  <2>2. /\ rest \in OfferType /\ rest.seller = net.offer.seller
        /\ rest.item_Count = net.offer.item_Count - net.count
    <3>1. net.offer.item_Count - net.count \in Nat \ {0}
      BY <1>3, <1>6 DEF OfferType
    <3> QED BY <1>3, <3>1 DEF Reduced, OfferType
  <2> HIDE DEF rest
  <2>3. /\ DOMAIN market' = DOMAIN market /\ market'[net.id] = rest
        /\ \A i \in DOMAIN market \ {net.id} : market'[i] = market[i]
    BY <1>3, <2>1 DEF With
  <2> QED BY <1>1, <1>3, <1>4, <1>6, <2>2, <2>3
<1> QED BY <1>5, <1>6

LEMMA ClaimStep == ASSUME Inv, Claim PROVE Inv'
<1>1. /\ PlayersOK /\ MarketOK /\ NetOK /\ TableOK /\ ProcessOK /\ CountsOK /\ RequestOK /\ LeftOK
  BY TypeParts DEF Inv
<1>2. /\ task' = task /\ left' = left /\ closing' = closing
      /\ inGame' = inGame /\ nextMarketId' = nextMarketId
      /\ stored' = stored /\ rows' = rows /\ skipped' = skipped
      /\ now' = now /\ starts' = starts /\ calls' = calls
  BY DEF Claim, process, database
<1>3. MarketOK'
  <2>1. DOMAIN market' \subseteq DOMAIN market /\ \A i \in DOMAIN market' : market'[i] \in OfferType
    BY <1>1, ClaimIs DEF MarketOK
  <2> QED BY <1>1, <1>2, <2>1 DEF MarketOK
<1>4. Online' = Online
  BY <1>2 DEF Online
<1>5. net # Idle /\ net' # Idle
  BY ClaimIs, IdleIs
<1>6. NetOK'
  BY <1>1, <1>4, <1>5, ClaimIs DEF NetOK
<1>7. RequestOK'
  BY <1>1, <1>2, <1>5, ClaimIs DEF RequestOK
<1> QED BY <1>1, <1>2, <1>3, <1>4, <1>6, <1>7, PartsKept, TypeParts DEF Inv

\* What a parcel does to the request.
LEMMA MailIs ==
  ASSUME Inv, Mail
  PROVE  \E parcel \in Nat :
           /\ net \in RequestType /\ net.at = "mail" /\ Mailed(net.player, parcel, 0)
           /\ parcel <= net.count
           /\ \/ /\ parcel < net.count /\ net' = [net EXCEPT !.count = @ - parcel]
              \/ parcel = net.count /\ net.price = 0 /\ net' = Idle
              \/ /\ parcel = net.count /\ net.price # 0
                 /\ net' = [net EXCEPT !.at = "charge", !.count = 0]
<1>1. net.at = "mail" /\ net # Idle /\ net \in RequestType
  BY IdleIs, TypeParts DEF Mail, Inv, NetOK
<1> DEFINE parcel == IF net.count < MailSize THEN net.count ELSE MailSize
<1>2. net.count \in Nat /\ parcel \in Nat /\ parcel <= net.count
  BY <1>1, MarketAssumption DEF RequestType
<1>3. /\ Mailed(net.player, parcel, 0)
      /\ net' = IF parcel < net.count THEN [net EXCEPT !.count = @ - parcel]
                ELSE IF net.price = 0 THEN Idle
                ELSE [net EXCEPT !.at = "charge", !.count = 0]
  BY DEF Mail
<1> HIDE DEF parcel
<1> QED BY <1>1, <1>2, <1>3

LEMMA MailStep == ASSUME Inv, Mail PROVE Inv'
<1>1. /\ PlayersOK /\ MarketOK /\ NetOK /\ TableOK /\ ProcessOK /\ CountsOK /\ RequestOK /\ LeftOK
  BY TypeParts DEF Inv
<1>2. /\ task' = task /\ left' = left /\ closing' = closing
      /\ market' = market /\ nextMarketId' = nextMarketId
      /\ now' = now /\ starts' = starts /\ calls' = calls
  BY DEF Mail, process
<1>3. PICK parcel \in Nat :
        /\ net \in RequestType /\ net.at = "mail" /\ Mailed(net.player, parcel, 0)
        /\ parcel <= net.count
        /\ \/ /\ parcel < net.count /\ net' = [net EXCEPT !.count = @ - parcel]
           \/ parcel = net.count /\ net.price = 0 /\ net' = Idle
           \/ /\ parcel = net.count /\ net.price # 0
              /\ net' = [net EXCEPT !.at = "charge", !.count = 0]
  BY MailIs
<1>4. net.player \in Players /\ net.count \in Nat /\ net # Idle
  BY <1>3, IdleIs DEF RequestType
<1>5. PlayersOK' /\ TableOK' /\ Online' = Online
  BY <1>1, <1>3, <1>4, MailedTypes
<1>6. NetOK' /\ RequestOK'
  <2>1. CASE parcel < net.count /\ net' = [net EXCEPT !.count = @ - parcel]
    <3>1. /\ net' \in RequestType /\ net'.at = "mail" /\ net'.here = net.here
          /\ net'.player = net.player /\ net'.offer = net.offer /\ net'.price = net.price
      <4>1. net.count - parcel \in Nat
        BY <1>4, <2>1
      <4> QED BY <1>3, <2>1, <4>1 DEF RequestType
    <3> QED BY <1>1, <1>2, <1>3, <1>4, <1>5, <3>1 DEF NetOK, RequestOK
  <2>2. CASE net' = Idle
    BY <2>2 DEF NetOK, RequestOK
  <2>3. CASE net' = [net EXCEPT !.at = "charge", !.count = 0]
    <3>1. /\ net' \in RequestType /\ net'.at = "charge" /\ net'.here = net.here
          /\ net'.player = net.player /\ net'.count = 0
      BY <1>3, <2>3 DEF RequestType
    <3> QED BY <1>1, <1>2, <1>3, <1>4, <1>5, <3>1 DEF NetOK, RequestOK
  <2> QED BY <1>3, <2>1, <2>2, <2>3
<1> QED BY <1>1, <1>2, <1>5, <1>6, PartsKept, TypeParts DEF Inv

LEMMA ChargeIs ==
  ASSUME Inv, Charge
  PROVE  /\ net # Idle /\ net \in RequestType /\ net.at = "charge" /\ net.count = 0
         /\ net' \in RequestType /\ net'.at = "credit" /\ net'.here = net.here
         /\ net'.player = net.player /\ net'.count = 0 /\ net'.price = net.price
         /\ net'.offer = net.offer /\ Online' = Online
         /\ \/ inGame' = inGame /\ ~CanPay
            \/ /\ CanPay /\ net.player \in Online
               /\ inGame'[net.player] \in Accounts
               /\ inGame'[net.player].goods = inGame[net.player].goods
               /\ inGame'[net.player].coins = inGame[net.player].coins - net.price
               /\ \A q \in Online \ {net.player} : inGame'[q] = inGame[q]
<1>1. /\ net.at = "charge" /\ net' = [net EXCEPT !.at = "credit"] /\ net # Idle
      /\ PlayersOK /\ NetOK /\ RequestOK
  BY IdleIs, TypeParts DEF Charge, Inv
<1>2. /\ net \in RequestType /\ net.count = 0 /\ (net.here => net.player \in Online)
  BY <1>1 DEF NetOK, RequestOK
<1>3. /\ net' \in RequestType /\ net'.at = "credit" /\ net'.here = net.here
      /\ net'.player = net.player /\ net'.count = 0 /\ net'.price = net.price
      /\ net'.offer = net.offer
  BY <1>1, <1>2 DEF RequestType
<1>4. CASE CanPay
  <2>1. inGame' = [inGame EXCEPT ![net.player] = Charged(@, net.price)] /\ net.player \in Online
    BY <1>2, <1>4 DEF Charge, CanPay
  <2>2. /\ Online' = Online /\ inGame'[net.player] = Charged(inGame[net.player], net.price)
        /\ \A q \in Online \ {net.player} : inGame'[q] = inGame[q]
    BY <2>1 DEF Online
  <2>3. /\ inGame[net.player] \in Accounts /\ net.price <= inGame[net.player].coins
        /\ net.price \in Nat
    BY <1>1, <1>2, <1>4, <2>1 DEF PlayersOK, CanPay, RequestType
  <2>4. inGame[net.player].coins - net.price \in Nat
    BY <2>3 DEF Accounts
  <2>5. /\ inGame'[net.player] \in Accounts
        /\ inGame'[net.player].goods = inGame[net.player].goods
        /\ inGame'[net.player].coins = inGame[net.player].coins - net.price
    BY <2>2, <2>3, <2>4 DEF Charged, Accounts
  <2> QED BY <1>1, <1>2, <1>3, <1>4, <2>1, <2>2, <2>5
<1>5. CASE ~CanPay
  <2>1. inGame' = inGame
    BY <1>5 DEF Charge
  <2> QED BY <1>1, <1>2, <1>3, <1>5, <2>1 DEF Online
<1> QED BY <1>4, <1>5

LEMMA ChargeStep == ASSUME Inv, Charge PROVE Inv'
<1>1. /\ PlayersOK /\ MarketOK /\ NetOK /\ TableOK /\ ProcessOK /\ CountsOK /\ RequestOK /\ LeftOK
  BY TypeParts DEF Inv
<1>2. /\ task' = task /\ left' = left /\ closing' = closing
      /\ market' = market /\ nextMarketId' = nextMarketId
      /\ stored' = stored /\ rows' = rows /\ skipped' = skipped
      /\ now' = now /\ starts' = starts /\ calls' = calls
  BY DEF Charge, process, database
<1>3. PlayersOK' /\ Online' = Online
  BY <1>1, <1>2, ChargeIs DEF PlayersOK
<1>4. NetOK' /\ RequestOK'
  BY <1>1, <1>2, <1>3, ChargeIs DEF NetOK, RequestOK
<1> QED BY <1>1, <1>2, <1>3, <1>4, PartsKept, TypeParts DEF Inv

LEMMA CreditIs ==
  ASSUME Inv, Credit
  PROVE  /\ net # Idle /\ net \in RequestType /\ net.at = "credit" /\ net.count = 0
         /\ net.offer.seller \in Players /\ net.price \in Nat /\ net' = Idle
         /\ Mailed(net.offer.seller, 0, net.price)
<1>1. /\ net.at = "credit" /\ net # Idle /\ NetOK /\ RequestOK /\ net' = Idle
      /\ Mailed(net.offer.seller, 0, net.price)
  BY IdleIs, TypeParts DEF Credit, Inv
<1> QED BY <1>1 DEF NetOK, RequestOK, RequestType, OfferType

LEMMA CreditStep == ASSUME Inv, Credit PROVE Inv'
<1>1. /\ PlayersOK /\ MarketOK /\ NetOK /\ TableOK /\ ProcessOK /\ CountsOK /\ RequestOK /\ LeftOK
  BY TypeParts DEF Inv
<1>2. /\ task' = task /\ left' = left /\ closing' = closing
      /\ market' = market /\ nextMarketId' = nextMarketId
      /\ now' = now /\ starts' = starts /\ calls' = calls
  BY DEF Credit, process
<1>3. PlayersOK' /\ TableOK' /\ Online' = Online
  BY <1>1, CreditIs, MailedTypes
<1>4. NetOK' /\ RequestOK'
  BY CreditIs DEF NetOK, RequestOK
<1> QED BY <1>1, <1>2, <1>3, <1>4, PartsKept, TypeParts DEF Inv

LEMMA HaltStep == ASSUME Inv, Halt PROVE Inv'
<1>1. /\ PlayersOK /\ TableOK /\ CountsOK
  BY TypeParts DEF Inv
<1>2. /\ task' = "down" /\ left' = {} /\ closing' = FALSE
      /\ inGame' = <<>> /\ market' = <<>> /\ nextMarketId' = 1 /\ net' = Idle
      /\ stored' = stored /\ rows' = rows /\ skipped' = skipped
      /\ now' = now /\ starts' = starts /\ calls' = calls
  BY DEF Halt, database
<1>3. Online' = {} /\ DOMAIN market' = {}
  BY <1>2 DEF Online
<1>4. PlayersOK' /\ MarketOK'
  BY <1>1, <1>2, <1>3 DEF PlayersOK, MarketOK
<1>5. NetOK' /\ ProcessOK' /\ RequestOK' /\ LeftOK'
  BY <1>2, <1>3 DEF NetOK, ProcessOK, RequestOK, LeftOK, Tasks
<1> QED BY <1>1, <1>2, <1>4, <1>5, PartsKept, TypeParts DEF Inv

LEMMA StartStep == ASSUME Inv, Start PROVE Inv'
<1>1. /\ PlayersOK /\ MarketOK /\ NetOK /\ TableOK /\ ProcessOK /\ CountsOK /\ RequestOK /\ LeftOK
  BY TypeParts DEF Inv
<1>2. /\ task = "down" /\ starts < MaxStarts /\ task' = "idle" /\ starts' = starts + 1
      /\ market' = rows /\ nextMarketId' = Len(rows) + 1 /\ skipped' = {}
      /\ left' = left /\ closing' = closing /\ inGame' = inGame /\ net' = net
      /\ stored' = stored /\ rows' = rows /\ now' = now /\ calls' = calls
  BY DEF Start
<1>3. Online' = Online
  BY <1>2 DEF Online
<1>4. MarketOK'
  <2>1. /\ Len(rows) \in Nat /\ DOMAIN rows = 1..Len(rows)
        /\ \A i \in DOMAIN rows : rows[i] \in OfferType
    BY <1>1 DEF TableOK
  <2> QED BY <1>2, <2>1 DEF MarketOK
<1>5. TableOK' /\ ProcessOK' /\ CountsOK' /\ RequestOK' /\ LeftOK'
  BY <1>1, <1>2, <1>3, MarketAssumption
  DEF TableOK, ProcessOK, CountsOK, RequestOK, LeftOK, Tasks
<1> QED BY <1>1, <1>2, <1>3, <1>4, <1>5, PartsKept, TypeParts DEF Inv

LEMMA TickStep == ASSUME Inv, Tick PROVE Inv'
<1>1. /\ PlayersOK /\ MarketOK /\ NetOK /\ TableOK /\ ProcessOK /\ CountsOK /\ RequestOK /\ LeftOK
  BY TypeParts DEF Inv
<1>2. /\ now < MaxTime /\ now' = now + 1
      /\ task' = task /\ left' = left /\ closing' = closing
      /\ inGame' = inGame /\ market' = market /\ nextMarketId' = nextMarketId /\ net' = net
      /\ stored' = stored /\ rows' = rows /\ skipped' = skipped
      /\ starts' = starts /\ calls' = calls
  BY DEF Tick, process, memory, database
<1>3. CountsOK' /\ Online' = Online
  BY <1>1, <1>2, MarketAssumption DEF CountsOK, Online
<1> QED BY <1>1, <1>2, <1>3, PartsKept, TypeParts DEF Inv

LEMMA InvStep == Inv /\ [Next]_vars => Inv'
<1> SUFFICES ASSUME Inv, [Next]_vars PROVE Inv'
  OBVIOUS
<1>1. ASSUME NEW p \in Players, Login(p) \/ Logout(p) \/ Spend(p) \/ SaveNext(p) PROVE Inv'
  BY <1>1, LoginStep, LogoutStep, SpendStep, SavingStep
<1>2. ASSUME NEW p \in Players, NEW n \in Counts, NEW c \in Prices, NEW all \in BOOLEAN,
             Sell(p, n, c, all)
      PROVE  Inv'
  BY <1>2, SellStep
<1>3. CASE SaveServer \/ Shutdown \/ SaveMarket \/ InsertRows
  BY <1>3, SavingStep
<1>4. CASE Network
  BY <1>4, CancelStep, BuyStep, ClaimStep, MailStep, ChargeStep, CreditStep DEF Network
<1>5. CASE Exit \/ Crash
  BY <1>5, HaltStep DEF Exit, Crash
<1>6. CASE Start \/ Tick
  BY <1>6, StartStep, TickStep
<1>7. CASE UNCHANGED vars
  BY <1>7, PartsKept, TypeParts DEF Inv, vars, process, memory, database, Online
<1> QED BY <1>1, <1>2, <1>3, <1>4, <1>5, <1>6, <1>7 DEF Next, Dispatcher

LEMMA InvInit == Init => Inv
<1> SUFFICES ASSUME Init PROVE Inv
  OBVIOUS
<1>1. Online = {} /\ DOMAIN market = {}
  BY DEF Init, Online
<1>2. PlayersOK
  <2>1. stored \in [Players -> Accounts]
    BY MarketAssumption DEF Init, Accounts
  <2> QED BY <1>1, <2>1 DEF PlayersOK
<1>3. TableOK
  <2>1. <<>> \in Seq(OfferType)
    OBVIOUS
  <2> QED BY <2>1 DEF Init, TableOK
<1>4. MarketOK /\ CountsOK
  BY <1>1, MarketAssumption DEF Init, MarketOK, CountsOK
<1>5. NetOK /\ ProcessOK /\ RequestOK /\ LeftOK
  BY <1>1 DEF Init, NetOK, ProcessOK, RequestOK, LeftOK, Tasks
<1> QED BY <1>2, <1>3, <1>4, <1>5, TypeParts DEF Inv

LEMMA Invariant == Spec => []Inv
BY InvInit, InvStep, PTL DEF Spec

\* The types of the market hold in every run, and with them that every offer has
\* an id below the next one to be given, whatever is sold, bought, cancelled,
\* saved, lost in a crash and loaded again.
THEOREM TypeCorrect == Spec => []TypeOK
<1>1. Inv => TypeOK
  BY DEF Inv
<1> QED BY <1>1, Invariant, PTL

-----------------------------------------------------------------------------
(* The table *)

LEMMA NobodyListed ==
  ASSUME NEW f, NEW n \in Nat
  PROVE  Listing(f, n, {}) = <<>>
<1>1. 0 \in Nat /\ 0 <= n
  OBVIOUS
<1>2. Listing(f, n, {}) = Listing(f, 0, {})
  BY <1>1, ListingLonger
<1> QED BY <1>2, ListingIs

\* Saving a player replaces his rows and leaves those of the others alone.
LEMMA SavedRows ==
  ASSUME MarketOK, TableOK, NEW p \in Players, NEW account, SavePlayer(p, account),
         NEW q \in Players
  PROVE  /\ RowsOf(q)' = IF q = p /\ market # <<>> THEN OffersOf(p) ELSE RowsOf(q)
         /\ skipped' = IF market = <<>> THEN skipped \cup {p} ELSE skipped \ {p}
<1>1. CASE market = <<>>
  BY <1>1 DEF SavePlayer, RowsOf
<1>2. CASE market # <<>>
  <2> DEFINE others == Listing(rows, Len(rows), Players \ {p})
             new == others \o OffersOf(p)
  <2>1. rows' = new /\ skipped' = skipped \ {p}
    BY <1>2 DEF SavePlayer, RowsReplaced
  <2>2. Len(rows) \in Nat /\ nextMarketId - 1 \in Nat
    BY DEF TableOK, MarketOK
  <2>3. others \in Seq(OfferType) /\ OffersOf(p) \in Seq(OfferType) /\ RowsOf(q) \in Seq(OfferType)
    BY OffersTyped, RowsTyped DEF OffersOf, RowsOf
  <2>4. Listing(others, Len(others), {q}) = Listing(rows, Len(rows), (Players \ {p}) \cap {q})
    BY <2>2, ListingTwice
  <2> HIDE DEF others
  <2>5. Listing(OffersOf(p), Len(OffersOf(p)), {q})
          = Listing(market, nextMarketId - 1, {p} \cap {q})
    <3> DEFINE n == nextMarketId - 1
    <3>1. n \in Nat
      BY <2>2
    <3>2. OffersOf(p) = Listing(market, n, {p})
      BY DEF OffersOf
    <3> HIDE DEF n
    <3>3. \A a, b : Listing(Listing(market, n, a), Len(Listing(market, n, a)), b)
                      = Listing(market, n, a \cap b)
      BY <3>1, ListingTwice
    <3> QED BY <3>2, <3>3 DEF n
  <2>6. Listing(new, Len(new), {q}) = Listing(others, Len(others), {q})
                                        \o Listing(OffersOf(p), Len(OffersOf(p)), {q})
    <3> DEFINE t == OffersOf(p)
    <3>1. t \in Seq(OfferType)
      BY <2>3
    <3> HIDE DEF t
    <3>2. others \in Seq(OfferType)
      BY <2>3
    <3>3. \A a : Listing(others \o t, Len(others \o t), a)
                   = Listing(others, Len(others), a) \o Listing(t, Len(t), a)
      BY <3>1, <3>2, ListingBoth
    <3> QED BY <3>3 DEF t
  <2> HIDE DEF new
  <2>7. RowsOf(q)' = Listing(others, Len(others), {q})
                       \o Listing(OffersOf(p), Len(OffersOf(p)), {q})
    BY <2>1, <2>6 DEF RowsOf
  <2>8. CASE q = p
    <3>1. (Players \ {p}) \cap {q} = {} /\ {p} \cap {q} = {p}
      BY <2>8
    <3>2. Listing(others, Len(others), {q}) = <<>>
      BY <2>2, <2>4, <3>1, NobodyListed
    <3>3. Listing(OffersOf(p), Len(OffersOf(p)), {q}) = OffersOf(p)
      BY <2>5, <3>1 DEF OffersOf
    <3>4. <<>> \o OffersOf(p) = OffersOf(p)
      BY <2>3
    <3> QED BY <1>2, <2>1, <2>7, <2>8, <3>2, <3>3, <3>4
  <2>9. CASE q # p
    <3>1. (Players \ {p}) \cap {q} = {q} /\ {p} \cap {q} = {}
      BY <2>9
    <3>2. Listing(others, Len(others), {q}) = RowsOf(q)
      BY <2>4, <3>1 DEF RowsOf
    <3>3. Listing(OffersOf(p), Len(OffersOf(p)), {q}) = <<>>
      BY <2>2, <2>5, <3>1, NobodyListed
    <3>4. RowsOf(q) \o <<>> = RowsOf(q)
      BY <2>3
    <3> QED BY <1>2, <2>1, <2>7, <2>9, <3>2, <3>3, <3>4
  <2> QED BY <2>8, <2>9
<1> QED BY <1>1, <1>2

\* The offers of a player are the same as long as no step touches them.
LEMMA OffersKept ==
  ASSUME MarketOK, MarketOK', nextMarketId <= nextMarketId', NEW p,
         \A i : i \in DOMAIN market /\ market[i].seller = p
                  <=> i \in DOMAIN market' /\ market'[i].seller = p,
         \A i \in DOMAIN market : market[i].seller = p => market'[i] = market[i]
  PROVE  OffersOf(p)' = OffersOf(p)
<1> DEFINE m == nextMarketId - 1
           n == nextMarketId' - 1
<1>1. m \in Nat /\ n \in Nat /\ m <= n /\ DOMAIN market \subseteq 1..m
  <2>1. nextMarketId \in Nat \ {0} /\ DOMAIN market \subseteq 1..(nextMarketId - 1)
    BY DEF MarketOK
  <2>2. nextMarketId' \in Nat \ {0}
    BY DEF MarketOK
  <2>3. \A a, b \in Nat \ {0} : /\ a - 1 \in Nat /\ b - 1 \in Nat
                                /\ (a <= b => a - 1 <= b - 1)
    OBVIOUS
  <2> QED BY <2>1, <2>2, <2>3
<1> HIDE DEF m, n
<1>2. \A i \in (m + 1)..n : i \notin DOMAIN market
  BY <1>1
<1>3. Listing(market, n, {p}) = Listing(market, m, {p})
  BY <1>1, <1>2, ListingLonger
<1>4. Listing(market', n, {p}) = Listing(market, n, {p})
  <2>1. \A i : i \in DOMAIN market /\ market[i].seller \in {p}
                 <=> i \in DOMAIN market' /\ market'[i].seller \in {p}
    OBVIOUS
  <2>2. \A i : i \in DOMAIN market /\ market[i].seller \in {p} => market[i] = market'[i]
    OBVIOUS
  <2>3. Listing(market, n, {p}) = Listing(market', n, {p})
    BY <1>1, <2>1, <2>2, ListingAlike
  <2> QED BY <2>3
<1> QED BY <1>3, <1>4 DEF OffersOf, m, n

\* What saveItemsMarket writes of a player is what he offers.
LEMMA InsertedRows ==
  ASSUME MarketOK, rows' = Offers, NEW p \in Players
  PROVE  RowsOf(p)' = OffersOf(p)
<1> DEFINE all == Listing(market, nextMarketId - 1, Players)
<1>1. nextMarketId - 1 \in Nat
  BY DEF MarketOK
<1>2. Listing(all, Len(all), {p}) = Listing(market, nextMarketId - 1, Players \cap {p})
  BY <1>1, ListingTwice
<1>3. Players \cap {p} = {p} /\ rows' = all
  BY DEF Offers
<1> HIDE DEF all
<1>4. RowsOf(p)' = Listing(all, Len(all), {p})
  BY <1>3 DEF RowsOf
<1> QED BY <1>2, <1>3, <1>4 DEF OffersOf

\* Whose rows OfflineOffersCurrent leaves open for now.
Open(q) == task \in {"insert", "down"} \/ (Claimed /\ net.offer.seller = q)

LEMMA OfflineIs ==
  /\ OfflineOffersCurrent
       <=> \A q \in Players : q \in Online \/ q \in skipped \/ Open(q) \/ RowsOf(q) = OffersOf(q)
  /\ OfflineOffersCurrent'
       <=> \A q \in Players : \/ q \in Online' \/ q \in skipped' \/ Open(q)'
                              \/ RowsOf(q)' = OffersOf(q)'
BY DEF OfflineOffersCurrent, Open

\* Steps that leave market and table alone.
LEMMA OfflineQuiet ==
  ASSUME OfflineOffersCurrent, market' = market, nextMarketId' = nextMarketId, rows' = rows,
         skipped' = skipped, Online \subseteq Online',
         \A q \in Players : Open(q) => Open(q)'
  PROVE  OfflineOffersCurrent'
<1>1. \A q \in Players : RowsOf(q)' = RowsOf(q) /\ OffersOf(q)' = OffersOf(q)
  BY DEF RowsOf, OffersOf
<1> QED BY <1>1, OfflineIs

\* Steps that save a player, who goes or stays.
LEMMA OfflineSaved ==
  ASSUME OfflineOffersCurrent, MarketOK, TableOK, NEW p \in Players, NEW account,
         SavePlayer(p, account), market' = market, nextMarketId' = nextMarketId,
         Online \subseteq Online' \cup {p},
         \A q \in Players \ {p} : Open(q) => Open(q)'
  PROVE  OfflineOffersCurrent'
<1>1. \A q \in Players : OffersOf(q)' = OffersOf(q)
  BY DEF OffersOf
<1>2. SUFFICES ASSUME NEW q \in Players, q \notin Online', q \notin skipped', ~Open(q)'
               PROVE  RowsOf(q)' = OffersOf(q)'
  BY OfflineIs
<1>3. CASE q = p
  <2>1. market # <<>>
    BY <1>2, <1>3, SavedRows
  <2> QED BY <1>1, <1>3, <2>1, SavedRows
<1>4. CASE q # p
  <2>1. q \notin Online /\ q \notin skipped /\ ~Open(q)
    BY <1>2, <1>4, SavedRows
  <2>2. RowsOf(q) = OffersOf(q)
    BY <2>1, OfflineIs
  <2> QED BY <1>1, <1>4, <2>2, SavedRows
<1> QED BY <1>3, <1>4

LEMMA OfflineDispatcher ==
  ASSUME Inv, OfflineOffersCurrent,
         \E p \in Players : Login(p) \/ Logout(p) \/ Spend(p) \/ SaveNext(p)
  PROVE  OfflineOffersCurrent'
<1>1. PlayersOK /\ MarketOK /\ NetOK /\ TableOK /\ ProcessOK
  BY TypeParts DEF Inv
<1>2. ASSUME NEW p \in Players, Login(p) \/ Spend(p) PROVE OfflineOffersCurrent'
  <2>1. /\ market' = market /\ nextMarketId' = nextMarketId /\ rows' = rows /\ skipped' = skipped
        /\ task' = task /\ net' = net
    BY <1>2 DEF Login, Spend, process, database
  <2>2. Online \subseteq Online'
    BY <1>2 DEF Login, Spend, Online, With
  <2>3. \A q \in Players : Open(q) => Open(q)'
    BY <2>1 DEF Open, Claimed
  <2> QED BY <2>1, <2>2, <2>3, OfflineQuiet
<1>3. ASSUME NEW p \in Players, Logout(p) PROVE OfflineOffersCurrent'
  <2>1. /\ p \in Online /\ SavePlayer(p, inGame[p]) /\ market' = market
        /\ nextMarketId' = nextMarketId /\ task' = task
        /\ net' = IF net # Idle /\ net.player = p THEN [net EXCEPT !.here = FALSE] ELSE net
    BY <1>3 DEF Logout, process
  <2>2. Online \subseteq Online' \cup {p}
    BY <1>3 DEF Logout, Online, Restrict
  <2>3. \A q \in Players : Open(q) => Open(q)'
    <3>1. CASE net # Idle /\ net.player = p
      <4>1. net \in RequestType /\ net' = [net EXCEPT !.here = FALSE]
        BY <1>1, <2>1, <3>1 DEF NetOK
      <4>2. net' \in RequestType /\ net'.at = net.at /\ net'.offer = net.offer
        BY <4>1 DEF RequestType
      <4> QED BY <2>1, <3>1, <4>2, IdleIs DEF Open, Claimed
    <3>2. CASE ~(net # Idle /\ net.player = p)
      BY <2>1, <3>2 DEF Open, Claimed
    <3> QED BY <3>1, <3>2
  <2> QED BY <1>1, <2>1, <2>2, <2>3, OfflineSaved
<1>4. ASSUME NEW p \in Players, SaveNext(p) PROVE OfflineOffersCurrent'
  <2>1. /\ SavePlayer(p, inGame[p]) /\ market' = market /\ nextMarketId' = nextMarketId
        /\ task' = task /\ net' = net /\ inGame' = inGame
    BY <1>4 DEF SaveNext, memory
  <2>2. Online \subseteq Online' \cup {p} /\ \A q \in Players : Open(q) => Open(q)'
    BY <2>1 DEF Online, Open, Claimed
  <2> QED BY <1>1, <2>1, <2>2, OfflineSaved
<1> QED BY <1>2, <1>3, <1>4

LEMMA OfflineSell ==
  ASSUME Inv, Inv', OfflineOffersCurrent, NEW p \in Players, NEW n, NEW price, NEW all,
         Sell(p, n, price, all)
  PROVE  OfflineOffersCurrent'
<1>1. MarketOK /\ MarketOK'
  BY TypeParts DEF Inv
<1> DEFINE offer == [seller |-> p, item_Count |-> n, item_Price |-> price,
                     price_all |-> all, m_Time |-> now + Lifetime]
<1>2. /\ p \in Online /\ market' = With(market, nextMarketId, offer)
      /\ nextMarketId' = nextMarketId + 1 /\ rows' = rows /\ skipped' = skipped
      /\ task' = task /\ net' = net
  BY DEF Sell, NextId, process, database
<1>3. offer.seller = p
  OBVIOUS
<1> HIDE DEF offer
<1>4. Online' = Online
  BY DEF Sell, Online
<1>5. nextMarketId \in Nat /\ nextMarketId \notin DOMAIN market /\ nextMarketId <= nextMarketId'
  BY <1>1, <1>2 DEF MarketOK
<1>6. /\ DOMAIN market' = DOMAIN market \cup {nextMarketId} /\ market'[nextMarketId] = offer
      /\ \A i \in DOMAIN market : market'[i] = market[i]
  BY <1>2, <1>5 DEF With
<1>7. SUFFICES ASSUME NEW q \in Players, q \notin Online', q \notin skipped', ~Open(q)'
               PROVE  RowsOf(q)' = OffersOf(q)'
  BY OfflineIs
<1>8. q # p /\ q \notin Online /\ q \notin skipped /\ ~Open(q)
  BY <1>2, <1>4, <1>7 DEF Open, Claimed
<1>9. \A i : i \in DOMAIN market /\ market[i].seller = q
               <=> i \in DOMAIN market' /\ market'[i].seller = q
  BY <1>3, <1>5, <1>6, <1>8
<1>10. OffersOf(q)' = OffersOf(q)
  BY <1>1, <1>5, <1>6, <1>9, OffersKept
<1>11. RowsOf(q)' = RowsOf(q)
  BY <1>2 DEF RowsOf
<1> QED BY <1>8, <1>10, <1>11, OfflineIs

LEMMA OfflineSaving ==
  ASSUME Inv, OfflineOffersCurrent, SaveServer \/ Shutdown \/ SaveMarket \/ InsertRows
  PROVE  OfflineOffersCurrent'
<1>1. MarketOK /\ TableOK
  BY TypeParts DEF Inv
<1>2. CASE SaveServer \/ Shutdown
  <2>1. /\ task = "idle" /\ inGame' = inGame /\ market' = market /\ nextMarketId' = nextMarketId
        /\ rows' = rows /\ skipped' = skipped /\ net' = net
    BY <1>2 DEF SaveServer, Shutdown, memory, database
  <2>2. Online \subseteq Online' /\ \A q \in Players : Open(q) => Open(q)'
    BY <2>1 DEF Online, Open, Claimed
  <2> QED BY <2>1, <2>2, OfflineQuiet
<1>3. CASE SaveMarket
  <2>1. CASE market = <<>>
    <3>1. skipped' = Players
      BY <1>3, <2>1 DEF SaveMarket
    <3> QED BY <3>1, OfflineIs
  <2>2. CASE market # <<>>
    <3>1. task' = "insert"
      BY <1>3, <2>2 DEF SaveMarket
    <3> QED BY <3>1, OfflineIs DEF Open
  <2> QED BY <2>1, <2>2
<1>4. CASE InsertRows
  <2>1. rows' = Offers /\ market' = market /\ nextMarketId' = nextMarketId
    BY <1>4 DEF InsertRows, SavedOffers, memory
  <2>2. \A q \in Players : RowsOf(q)' = OffersOf(q) /\ OffersOf(q)' = OffersOf(q)
    BY <1>1, <2>1, InsertedRows DEF OffersOf
  <2> QED BY <2>2, OfflineIs
<1> QED BY <1>2, <1>3, <1>4

LEMMA OfflineRequest ==
  ASSUME Inv, OfflineOffersCurrent, Charge \/ \E p, id : Request(p, id)
  PROVE  OfflineOffersCurrent'
<1>1. /\ market' = market /\ nextMarketId' = nextMarketId /\ rows' = rows /\ skipped' = skipped
      /\ task' = task
  BY DEF Charge, Request, process, memory, database
<1>2. CASE Charge
  <2>1. Online' = Online
    BY <1>2, ChargeIs
  <2>2. \A q \in Players : Open(q) => Open(q)'
    BY <1>1, <1>2, ChargeIs, IdleIs DEF Open, Claimed
  <2> QED BY <1>1, <2>1, <2>2, OfflineQuiet
<1>3. CASE \E p, id : Request(p, id)
  <2>1. net = Idle /\ inGame' = inGame
    BY <1>3 DEF Request, memory
  <2>2. Online \subseteq Online' /\ \A q \in Players : Open(q) => Open(q)'
    BY <1>1, <2>1 DEF Online, Open, Claimed
  <2> QED BY <1>1, <2>2, OfflineQuiet
<1> QED BY <1>2, <1>3

LEMMA OfflineClaim ==
  ASSUME Inv, Inv', OfflineOffersCurrent, Claim
  PROVE  OfflineOffersCurrent'
<1>1. MarketOK /\ MarketOK'
  BY TypeParts DEF Inv
<1>2. /\ nextMarketId' = nextMarketId /\ rows' = rows /\ skipped' = skipped /\ task' = task
      /\ inGame' = inGame
  BY DEF Claim, process, database
<1>3. Online' = Online
  BY <1>2 DEF Online
<1>4. SUFFICES ASSUME NEW q \in Players, q \notin Online', q \notin skipped', ~Open(q)'
               PROVE  RowsOf(q)' = OffersOf(q)'
  BY OfflineIs
<1>5. net.offer.seller # q /\ ~Open(q)
  BY <1>2, <1>4, ClaimIs, IdleIs DEF Open, Claimed
<1>6. \A i : i \in DOMAIN market /\ market[i].seller = q
               <=> i \in DOMAIN market' /\ market'[i].seller = q
  BY <1>5, ClaimIs
<1>7. \A i \in DOMAIN market : market[i].seller = q => market'[i] = market[i]
  BY <1>5, ClaimIs
<1>8. nextMarketId <= nextMarketId'
  BY <1>1, <1>2 DEF MarketOK
<1>9. OffersOf(q)' = OffersOf(q)
  BY <1>1, <1>6, <1>7, <1>8, OffersKept
<1>10. RowsOf(q)' = RowsOf(q) /\ q \notin Online /\ q \notin skipped
  BY <1>2, <1>3, <1>4 DEF RowsOf
<1> QED BY <1>5, <1>9, <1>10, OfflineIs

\* A parcel or a payment saves a player who is out of the game.
LEMMA OfflineMailed ==
  ASSUME Inv, OfflineOffersCurrent, NEW p \in Players, NEW goods \in Nat, NEW coins \in Nat,
         Mailed(p, goods, coins), market' = market, nextMarketId' = nextMarketId,
         \A q \in Players \ {p} : Open(q) => Open(q)'
  PROVE  OfflineOffersCurrent'
<1>1. PlayersOK /\ MarketOK /\ TableOK
  BY TypeParts DEF Inv
<1>2. Online' = Online
  BY <1>1, MailedTypes
<1>3. CASE p \in Online
  <2>1. rows' = rows /\ skipped' = skipped
    BY <1>3 DEF Mailed, database
  <2>2. ASSUME NEW q \in Players, q \notin Online', q \notin skipped', ~Open(q)'
        PROVE  RowsOf(q)' = OffersOf(q)'
    <3>1. q # p /\ q \notin Online /\ q \notin skipped /\ ~Open(q)
      BY <1>2, <1>3, <2>1, <2>2
    <3>2. RowsOf(q) = OffersOf(q)
      BY <3>1, OfflineIs
    <3> QED BY <2>1, <3>2 DEF RowsOf, OffersOf
  <2> QED BY <2>2, OfflineIs
<1>4. CASE p \notin Online
  <2>1. PICK account : SavePlayer(p, account)
    BY <1>4 DEF Mailed
  <2>2. Online \subseteq Online' \cup {p}
    BY <1>2
  <2> QED BY <1>1, <2>1, <2>2, OfflineSaved
<1> QED BY <1>3, <1>4

LEMMA OfflineDelivery ==
  ASSUME Inv, OfflineOffersCurrent, Mail \/ Credit
  PROVE  OfflineOffersCurrent'
<1>1. NetOK /\ RequestOK
  BY TypeParts DEF Inv
<1>2. market' = market /\ nextMarketId' = nextMarketId /\ task' = task
  BY DEF Mail, Credit, process
<1>3. CASE Mail
  <2>1. PICK parcel \in Nat :
          /\ net \in RequestType /\ net.at = "mail" /\ Mailed(net.player, parcel, 0)
          /\ parcel <= net.count
          /\ \/ /\ parcel < net.count /\ net' = [net EXCEPT !.count = @ - parcel]
             \/ parcel = net.count /\ net.price = 0 /\ net' = Idle
             \/ /\ parcel = net.count /\ net.price # 0
                /\ net' = [net EXCEPT !.at = "charge", !.count = 0]
    BY <1>3, MailIs
  <2>2. net.player \in Players /\ net # Idle /\ 0 \in Nat
    BY <2>1, IdleIs DEF RequestType
  <2>3. CASE net' = Idle /\ net.price = 0
    <3>1. net.offer.seller = net.player
      BY <1>1, <2>1, <2>2, <2>3 DEF RequestOK
    <3>2. \A q \in Players \ {net.player} : Open(q) => Open(q)'
      BY <1>2, <3>1 DEF Open
    <3> QED BY <1>2, <2>1, <2>2, <3>2, OfflineMailed
  <2>4. CASE net' # Idle
    <3>1. net'.offer = net.offer /\ net'.at # "found"
      BY <2>1, <2>4 DEF RequestType
    <3>2. \A q \in Players : Open(q) => Open(q)'
      BY <1>2, <2>4, <3>1 DEF Open, Claimed
    <3> QED BY <1>2, <2>1, <2>2, <3>2, OfflineMailed
  <2>5. (net' = Idle /\ net.price = 0) \/ net' # Idle
    <3>1. CASE parcel < net.count /\ net' = [net EXCEPT !.count = @ - parcel]
      <4>1. net'.at = "mail"
        BY <2>1, <3>1 DEF RequestType
      <4> QED BY <4>1, IdleIs
    <3>2. CASE net' = [net EXCEPT !.at = "charge", !.count = 0]
      <4>1. net'.at = "charge"
        BY <2>1, <3>2 DEF RequestType
      <4> QED BY <4>1, IdleIs
    <3> QED BY <2>1, <3>1, <3>2
  <2> QED BY <2>3, <2>4, <2>5
<1>4. CASE Credit
  <2> DEFINE s == net.offer.seller
  <2>1. /\ net # Idle /\ s \in Players /\ net.price \in Nat /\ net' = Idle /\ 0 \in Nat
        /\ Mailed(s, 0, net.price)
    BY <1>4, CreditIs
  <2>2. \A q \in Players \ {s} : Open(q) => Open(q)'
    BY <1>2 DEF Open
  <2> QED BY <1>2, <2>1, <2>2, OfflineMailed
<1> QED BY <1>3, <1>4

LEMMA OfflineProcess ==
  ASSUME Inv, OfflineOffersCurrent, Halt \/ Start \/ Tick
  PROVE  OfflineOffersCurrent'
<1>1. CASE Halt
  BY <1>1, OfflineIs DEF Halt, Open
<1>2. CASE Start
  <2>1. market' = rows /\ rows' = rows /\ nextMarketId' = Len(rows) + 1
    BY <1>2 DEF Start
  <2>2. nextMarketId' - 1 = Len(rows)
    <3>1. Len(rows) \in Nat
      BY TypeParts DEF Inv, TableOK
    <3> QED BY <2>1, <3>1
  <2>3. \A q \in Players : RowsOf(q)' = OffersOf(q)'
    BY <2>1, <2>2 DEF RowsOf, OffersOf
  <2> QED BY <2>3, OfflineIs
<1>3. CASE Tick
  <2>1. /\ inGame' = inGame /\ market' = market /\ nextMarketId' = nextMarketId
        /\ rows' = rows /\ skipped' = skipped /\ net' = net /\ task' = task
    BY <1>3 DEF Tick, process, memory, database
  <2>2. Online \subseteq Online' /\ \A q \in Players : Open(q) => Open(q)'
    BY <2>1 DEF Online, Open, Claimed
  <2> QED BY <2>1, <2>2, OfflineQuiet
<1> QED BY <1>1, <1>2, <1>3

LEMMA OfflineStep == Inv /\ OfflineOffersCurrent /\ [Next]_vars => OfflineOffersCurrent'
<1> SUFFICES ASSUME Inv, OfflineOffersCurrent, [Next]_vars PROVE OfflineOffersCurrent'
  OBVIOUS
<1>0. Inv'
  BY InvStep
<1>1. CASE \E p \in Players : Login(p) \/ Logout(p) \/ Spend(p) \/ SaveNext(p)
  BY <1>1, OfflineDispatcher
<1>2. ASSUME NEW p \in Players, NEW n \in Counts, NEW c \in Prices, NEW all \in BOOLEAN,
             Sell(p, n, c, all)
      PROVE  OfflineOffersCurrent'
  BY <1>0, <1>2, OfflineSell
<1>3. CASE SaveServer \/ Shutdown \/ SaveMarket \/ InsertRows
  BY <1>3, OfflineSaving
<1>4. CASE Network
  <2>1. ASSUME NEW p, NEW id, CancelSell(p, id) \/ \E n : Buy(p, id, n)
        PROVE  OfflineOffersCurrent'
    <3>1. Request(p, id)
      BY <2>1 DEF CancelSell, Buy
    <3> QED BY <3>1, OfflineRequest
  <2> QED BY <1>0, <1>4, <2>1, OfflineRequest, OfflineClaim, OfflineDelivery DEF Network
<1>5. CASE Exit \/ Crash \/ Start \/ Tick
  BY <1>5, OfflineProcess DEF Exit, Crash
<1>6. CASE UNCHANGED vars
  <2>1. /\ inGame' = inGame /\ market' = market /\ nextMarketId' = nextMarketId
        /\ rows' = rows /\ skipped' = skipped /\ net' = net /\ task' = task
    BY <1>6 DEF vars, process, memory, database
  <2>2. Online \subseteq Online' /\ \A q \in Players : Open(q) => Open(q)'
    BY <2>1 DEF Online, Open, Claimed
  <2> QED BY <2>1, <2>2, OfflineQuiet
<1> QED BY <1>1, <1>2, <1>3, <1>4, <1>5, <1>6 DEF Next, Dispatcher

-----------------------------------------------------------------------------
(* Counting what is listed *)

LEMMA FiniteRange == \A n \in Nat : IsFiniteSet(1..n)
BY FS_Interval

\* What is counted of a list that grows at its end.
LEMMA ListedAppend ==
  ASSUME NEW s \in Seq(OfferType), NEW x \in OfferType, NEW p
  PROVE  ListedIn(Append(s, x), p)
           = ListedIn(s, p) + (IF x.seller = p THEN x.item_Count ELSE 0)
<1> DEFINE t == Append(s, x)
           n == Len(s)
           f == [i \in DOMAIN s |-> IF s[i].seller = p THEN s[i].item_Count ELSE 0]
           g == [i \in DOMAIN t |-> IF t[i].seller = p THEN t[i].item_Count ELSE 0]
<1>1. /\ n \in Nat /\ n + 1 \notin 1..n /\ DOMAIN s = 1..n /\ DOMAIN t = 1..(n + 1)
      /\ 1..(n + 1) = 1..n \cup {n + 1}
      /\ t[n + 1] = x /\ \A i \in 1..n : t[i] = s[i] /\ s[i] \in OfferType
  OBVIOUS
<1>2. \A o \in OfferType : o.item_Count \in Int
  BY DEF OfferType
<1>3. IsFiniteSet(1..n)
  BY <1>1, FiniteRange
<1> HIDE DEF t, n
<1>4. /\ DOMAIN f = 1..n /\ DOMAIN g = 1..n \cup {n + 1}
      /\ g[n + 1] = (IF x.seller = p THEN x.item_Count ELSE 0) /\ g[n + 1] \in Int
      /\ \A i \in 1..n : g[i] = f[i] /\ f[i] \in Int
  BY <1>1, <1>2
<1>5. ListedIn(s, p) = SumFunction(f) /\ ListedIn(t, p) = SumFunction(g)
  BY DEF ListedIn
<1> HIDE DEF f, g
<1>6. SumFunction(g) = SumFunction(f) + g[n + 1]
  <2>1. /\ IsFiniteSet(DOMAIN f) /\ n + 1 \notin DOMAIN f
        /\ DOMAIN g = DOMAIN f \cup {n + 1} /\ g[n + 1] \in Int
        /\ \A i \in DOMAIN f : f[i] \in Int /\ g[i] = f[i]
    BY <1>1, <1>3, <1>4
  <2> QED BY <2>1, SumExtended
<1> QED BY <1>4, <1>5, <1>6 DEF t

\* A listing of one player's offers counts as much of them as the whole.
LEMMA ListedSum ==
  ASSUME NEW f, NEW n \in Nat, DOMAIN f \subseteq 1..n,
         \A i \in DOMAIN f : f[i] \in OfferType, NEW p
  PROVE  ListedIn(Listing(f, n, {p}), p) = ListedIn(f, p)
<1> DEFINE D(k) == DOMAIN f \cap 1..k
           W(k) == [i \in D(k) |-> IF f[i].seller = p THEN f[i].item_Count ELSE 0]
           N == {k \in Nat : ListedIn(Listing(f, k, {p}), p) = SumFunction(W(k))}
<1>1. \A o \in OfferType : o.item_Count \in Int
  BY DEF OfferType
<1>2. \A k \in Nat : IsFiniteSet(D(k))
  BY FiniteRange, FS_Intersection
<1>3. 0 \in N
  <2>1. Listing(f, 0, {p}) = <<>>
    BY ListingIs
  <2>2. D(0) = {} /\ DOMAIN <<>> = {}
    OBVIOUS
  <2>3. ListedIn(<<>>, p) = SumFunction(W(0))
    BY <2>2 DEF ListedIn
  <2> QED BY <2>1, <2>3
<1>4. ASSUME NEW k \in N PROVE k + 1 \in N
  <2>1. /\ k \in Nat /\ k + 1 \in Nat
        /\ ListedIn(Listing(f, k, {p}), p) = SumFunction(W(k))
    OBVIOUS
  <2>2. /\ Listing(f, k, {p}) \in Seq(OfferType)
        /\ Listing(f, k + 1, {p}) = Lengthened(Listing(f, k, {p}), f, k + 1, {p})
    BY <2>1, ListingIs, ListingType
  <2>3. CASE k + 1 \notin DOMAIN f
    <3>1. D(k + 1) = D(k)
      BY <2>1, <2>3
    <3>2. W(k + 1) = W(k)
      BY <3>1
    <3>3. Listing(f, k + 1, {p}) = Listing(f, k, {p})
      BY <2>2, <2>3 DEF Lengthened
    <3> QED BY <2>1, <3>2, <3>3
  <2>4. CASE k + 1 \in DOMAIN f
    <3> DEFINE x == f[k + 1]
               v == IF x.seller = p THEN x.item_Count ELSE 0
    <3>1. D(k + 1) = D(k) \cup {k + 1} /\ k + 1 \notin D(k)
      BY <2>1, <2>4
    <3>2. x \in OfferType /\ v \in Int
      BY <1>1, <2>4
    <3>3. SumFunction(W(k + 1)) = SumFunction(W(k)) + v
      <4>1. /\ DOMAIN W(k) = D(k) /\ DOMAIN W(k + 1) = D(k) \cup {k + 1}
            /\ W(k + 1)[k + 1] = v
            /\ \A i \in D(k) : W(k)[i] \in Int /\ W(k + 1)[i] = W(k)[i]
        BY <1>1, <3>1
      <4>2. IsFiniteSet(D(k))
        BY <1>2, <2>1
      <4> HIDE DEF W, D, v
      <4> QED BY <3>1, <3>2, <4>1, <4>2, SumExtended
    <3>4. ListedIn(Listing(f, k + 1, {p}), p) = ListedIn(Listing(f, k, {p}), p) + v
      <4>1. CASE x.seller = p
        <5>1. Listing(f, k + 1, {p}) = Append(Listing(f, k, {p}), x)
          BY <2>2, <2>4, <4>1 DEF Lengthened
        <5>2. v = IF x.seller = p THEN x.item_Count ELSE 0
          OBVIOUS
        <5> DEFINE s == Listing(f, k, {p})
        <5>3. s \in Seq(OfferType)
          BY <2>2
        <5> HIDE DEF x, v, s
        <5>4. ListedIn(Append(s, x), p)
                = ListedIn(s, p) + (IF x.seller = p THEN x.item_Count ELSE 0)
          BY <3>2, <5>3, ListedAppend
        <5> QED BY <5>1, <5>2, <5>4 DEF s
      <4>2. CASE x.seller # p
        <5>1. Listing(f, k + 1, {p}) = Listing(f, k, {p}) /\ v = 0
          BY <2>2, <4>2 DEF Lengthened
        <5>2. SumFunction(W(k)) \in Int
          <6>1. \A i \in D(k) : W(k)[i] \in Int
            BY <1>1
          <6>2. IsFiniteSet(D(k)) /\ DOMAIN W(k) = D(k)
            BY <1>2, <2>1
          <6> HIDE DEF W, D
          <6> QED BY <6>1, <6>2, SumSplit DEF SumFunction
        <5> QED BY <2>1, <5>1, <5>2
      <4> QED BY <4>1, <4>2
    <3> HIDE DEF W, D, v
    <3>5. ListedIn(Listing(f, k + 1, {p}), p) = SumFunction(W(k + 1))
      BY <2>1, <3>3, <3>4
    <3> QED BY <2>1, <3>5
  <2> QED BY <2>3, <2>4
<1>5. N \subseteq Nat
  OBVIOUS
<1>6. D(n) = DOMAIN f
  OBVIOUS
<1>7. SumFunction(W(n)) = ListedIn(f, p)
  BY <1>6 DEF ListedIn
<1> HIDE DEF W, D
<1>8. N = Nat
  <2> HIDE DEF N
  <2> QED BY <1>3, <1>4, <1>5, SetOfNaturals
<1> QED BY <1>7, <1>8

LEMMA FiniteMarket ==
  /\ MarketOK => IsFiniteSet(DOMAIN market)
  /\ MarketOK' => IsFiniteSet(DOMAIN market')
<1>1. /\ MarketOK => /\ nextMarketId \in Nat \ {0}
                     /\ DOMAIN market \subseteq 1..(nextMarketId - 1)
      /\ MarketOK' => /\ nextMarketId' \in Nat \ {0}
                      /\ DOMAIN market' \subseteq 1..(nextMarketId' - 1)
  BY DEF MarketOK
<1>2. \A k \in Nat \ {0} : IsFiniteSet(1..(k - 1))
  BY FiniteRange
<1> QED BY <1>1, <1>2, FS_Subset

\* A sum over the market after a claim, which changes one offer or removes it.
LEMMA SumClaimed ==
  ASSUME NEW f, NEW g, NEW x \in DOMAIN f, IsFiniteSet(DOMAIN f),
         \A y \in DOMAIN f : f[y] \in Int,
         \A y \in DOMAIN f \ {x} : y \in DOMAIN g /\ g[y] = f[y],
         \/ DOMAIN g = DOMAIN f \ {x}
         \/ DOMAIN g = DOMAIN f /\ g[x] \in Int
  PROVE  /\ SumFunction(f) \in Int
         /\ SumFunction(g) = SumFunction(f) - f[x] + (IF x \in DOMAIN g THEN g[x] ELSE 0)
<1>1. SumFunction(f) \in Int
  BY SumSplit DEF SumFunction
<1>2. CASE DOMAIN g = DOMAIN f \ {x}
  <2>1. /\ IsFiniteSet(DOMAIN g) /\ x \notin DOMAIN g /\ DOMAIN f = DOMAIN g \cup {x}
        /\ f[x] \in Int /\ \A y \in DOMAIN g : g[y] \in Int /\ f[y] = g[y]
    BY <1>2, FS_RemoveElement
  <2>2. SumFunction(f) = SumFunction(g) + f[x] /\ SumFunction(g) \in Int
    BY <2>1, SumExtended
  <2> QED BY <1>1, <2>1, <2>2
<1>3. CASE DOMAIN g = DOMAIN f /\ g[x] \in Int
  <2>1. \A y \in DOMAIN f : f[y] \in Int /\ g[y] \in Int
    BY <1>3
  <2>2. SumFunctionOnSet(g, DOMAIN f) = SumFunctionOnSet(f, DOMAIN f) + (g[x] - f[x])
    BY <2>1, SumChanged
  <2> QED BY <1>1, <1>3, <2>1, <2>2 DEF SumFunction
<1> QED BY <1>2, <1>3

\* No player is listed with more after a claim.
LEMMA ClaimLists ==
  ASSUME Inv, Claim, NEW p
  PROVE  /\ ListedIn(market, p) \in Int /\ ListedIn(market, p)' \in Int
         /\ ListedIn(market, p)' <= ListedIn(market, p)
<1> DEFINE f == [i \in DOMAIN market |-> IF market[i].seller = p THEN market[i].item_Count ELSE 0]
           g == [i \in DOMAIN market' |->
                   IF market'[i].seller = p THEN market'[i].item_Count ELSE 0]
           x == net.id
<1>1. MarketOK
  BY TypeParts DEF Inv
<1>2. /\ \A o \in OfferType : o.item_Count \in Nat \ {0}
      /\ \A i \in DOMAIN market : market[i] \in OfferType
  BY <1>1 DEF MarketOK, OfferType
<1>3. DOMAIN f = DOMAIN market /\ DOMAIN g = DOMAIN market'
  OBVIOUS
<1>4. \A y \in DOMAIN f : f[y] \in Int
  BY <1>2
<1>5. x \in DOMAIN f /\ \A y \in DOMAIN f \ {x} : y \in DOMAIN g /\ g[y] = f[y]
  BY ClaimIs
<1>6. \/ DOMAIN g = DOMAIN f \ {x}
      \/ DOMAIN g = DOMAIN f /\ g[x] \in Int /\ g[x] <= f[x] /\ x \in DOMAIN g
  <2>1. CASE DOMAIN market' = DOMAIN market \ {x}
    BY <2>1
  <2>2. CASE /\ DOMAIN market' = DOMAIN market
             /\ market'[x] \in OfferType /\ market'[x].seller = net.offer.seller
             /\ market'[x].item_Count = net.offer.item_Count - net.count
    <3>1. /\ x \in DOMAIN market /\ market[x] = net.offer /\ net.offer \in OfferType
          /\ net.count \in 1..net.offer.item_Count
      BY ClaimIs
    <3>2. /\ f[x] = IF market[x].seller = p THEN market[x].item_Count ELSE 0
          /\ g[x] = IF market'[x].seller = p THEN market'[x].item_Count ELSE 0
      BY <2>2, <3>1
    <3>3. /\ market[x].item_Count \in Nat /\ market'[x].item_Count \in Nat
          /\ market'[x].item_Count <= market[x].item_Count
          /\ market'[x].seller = market[x].seller
      BY <1>2, <2>2, <3>1
    <3> HIDE DEF f, g, x
    <3> QED BY <1>3, <2>2, <3>1, <3>2, <3>3
  <2> QED BY <2>1, <2>2, ClaimIs
<1>7. f[x] \in Nat
  BY <1>2, <1>5
<1>8. IsFiniteSet(DOMAIN f)
  BY <1>1, <1>3, FiniteMarket
<1>9. ListedIn(market, p) = SumFunction(f) /\ ListedIn(market, p)' = SumFunction(g)
  BY DEF ListedIn
<1> HIDE DEF f, g, x
<1>10. /\ SumFunction(f) \in Int
       /\ SumFunction(g) = SumFunction(f) - f[x] + (IF x \in DOMAIN g THEN g[x] ELSE 0)
  BY <1>4, <1>5, <1>6, <1>8, SumClaimed
<1> QED BY <1>5, <1>6, <1>7, <1>9, <1>10

\* The table lists at least what the market lists of a player whose rows are his offers.
LEMMA ListedAlike ==
  ASSUME MarketOK, MarketOK', TableOK, TableOK', NEW p
  PROVE  /\ ListedIn(RowsOf(p), p) = ListedIn(rows, p)
         /\ ListedIn(RowsOf(p)', p) = ListedIn(rows', p)
         /\ ListedIn(OffersOf(p), p) = ListedIn(market, p)
         /\ ListedIn(OffersOf(p)', p) = ListedIn(market', p)
<1>1. \A r \in Seq(OfferType) : ListedIn(Listing(r, Len(r), {p}), p) = ListedIn(r, p)
  <2> TAKE r \in Seq(OfferType)
  <2>1. Len(r) \in Nat /\ DOMAIN r \subseteq 1..Len(r) /\ \A i \in DOMAIN r : r[i] \in OfferType
    OBVIOUS
  <2> QED BY <2>1, ListedSum
<1>2. rows \in Seq(OfferType) /\ rows' \in Seq(OfferType)
  BY DEF TableOK
<1>3. ListedIn(OffersOf(p), p) = ListedIn(market, p)
  <2> DEFINE n == nextMarketId - 1
  <2>1. /\ n \in Nat /\ DOMAIN market \subseteq 1..n
        /\ \A i \in DOMAIN market : market[i] \in OfferType
    BY DEF MarketOK
  <2> HIDE DEF n
  <2>2. ListedIn(Listing(market, n, {p}), p) = ListedIn(market, p)
    BY <2>1, ListedSum
  <2> QED BY <2>2 DEF OffersOf, n
<1>4. ListedIn(OffersOf(p)', p) = ListedIn(market', p)
  <2> DEFINE n == nextMarketId' - 1
  <2>0. /\ nextMarketId' \in Nat \ {0} /\ DOMAIN market' \subseteq 1..(nextMarketId' - 1)
        /\ \A i \in DOMAIN market' : market'[i] \in OfferType
    BY DEF MarketOK
  <2>1. \A k \in Nat \ {0} : k - 1 \in Nat
    OBVIOUS
  <2>2. n \in Nat
    BY <2>0, <2>1
  <2>3. /\ n \in Nat /\ DOMAIN market' \subseteq 1..n
        /\ \A i \in DOMAIN market' : market'[i] \in OfferType
    BY <2>0, <2>2
  <2> HIDE DEF n
  <2>4. ListedIn(Listing(market', n, {p}), p) = ListedIn(market', p)
    BY <2>3, ListedSum
  <2> QED BY <2>4 DEF OffersOf, n
<1> QED BY <1>1, <1>2, <1>3, <1>4 DEF RowsOf

LEMMA ListedNaturals ==
  /\ MarketOK => \A p : ListedIn(market, p) \in Nat
  /\ TableOK => \A p : ListedIn(rows, p) \in Nat
  /\ MarketOK' => \A p : ListedIn(market', p) \in Nat
  /\ TableOK' => \A p : ListedIn(rows', p) \in Nat
<1>1. ASSUME NEW f, IsFiniteSet(DOMAIN f), \A i \in DOMAIN f : f[i] \in OfferType, NEW p
      PROVE  ListedIn(f, p) \in Nat
  <2> DEFINE g == [i \in DOMAIN f |-> IF f[i].seller = p THEN f[i].item_Count ELSE 0]
  <2>1. \A o \in OfferType : o.item_Count \in Nat
    BY DEF OfferType
  <2>2. DOMAIN g = DOMAIN f /\ \A i \in DOMAIN f : g[i] \in Nat
    BY <1>1, <2>1
  <2>3. ListedIn(f, p) = SumFunctionOnSet(g, DOMAIN g)
    BY DEF ListedIn, SumFunction
  <2> HIDE DEF g
  <2> QED BY <1>1, <2>2, <2>3, SumOfNaturals
<1>2. \A r \in Seq(OfferType) : IsFiniteSet(DOMAIN r) /\ \A i \in DOMAIN r : r[i] \in OfferType
  <2> TAKE r \in Seq(OfferType)
  <2>1. Len(r) \in Nat /\ DOMAIN r = 1..Len(r) /\ \A i \in DOMAIN r : r[i] \in OfferType
    OBVIOUS
  <2> QED BY <2>1, FiniteRange
<1>3. /\ TableOK => rows \in Seq(OfferType)
      /\ TableOK' => rows' \in Seq(OfferType)
  BY DEF TableOK
<1>4. MarketOK => IsFiniteSet(DOMAIN market) /\ \A i \in DOMAIN market : market[i] \in OfferType
  BY FiniteMarket DEF MarketOK
<1>5. MarketOK' => /\ IsFiniteSet(DOMAIN market')
                   /\ \A i \in DOMAIN market' : market'[i] \in OfferType
  BY FiniteMarket DEF MarketOK
<1> QED BY <1>1, <1>2, <1>3, <1>4, <1>5

\* The table lists as much as the market of every player.
Unsold == \A p \in Players : ListedIn(rows, p) >= ListedIn(market, p)

\* A parcel or a payment may save the player it is for, and his offers.
LEMMA UnsoldMailed ==
  ASSUME Inv, Inv', Unsold, NEW p \in Players, NEW goods \in Nat, NEW coins \in Nat,
         Mailed(p, goods, coins), market' = market, nextMarketId' = nextMarketId
  PROVE  Unsold'
<1>1. MarketOK /\ MarketOK' /\ TableOK /\ TableOK'
  BY TypeParts DEF Inv
<1>2. SUFFICES ASSUME NEW q \in Players PROVE ListedIn(rows', q) >= ListedIn(market', q)
  BY DEF Unsold
<1>3. ListedIn(rows, q) >= ListedIn(market, q) /\ ListedIn(market', q) = ListedIn(market, q)
  BY DEF Unsold
<1>4. CASE p \in Online
  BY <1>3, <1>4 DEF Mailed, database
<1>5. CASE p \notin Online
  <2>1. PICK account : SavePlayer(p, account)
    BY <1>5 DEF Mailed
  <2>2. RowsOf(q)' = IF q = p /\ market # <<>> THEN OffersOf(p) ELSE RowsOf(q)
    BY <1>1, <2>1, SavedRows
  <2>3. CASE q = p /\ market # <<>>
    <3>1. RowsOf(q)' = OffersOf(q)'
      BY <2>2, <2>3 DEF OffersOf
    <3>2. ListedIn(rows', q) = ListedIn(market', q)
      BY <1>1, <3>1, ListedAlike
    <3> QED BY <1>1, <3>2, ListedNaturals
  <2>4. CASE ~(q = p /\ market # <<>>)
    <3>1. ListedIn(rows', q) = ListedIn(rows, q)
      BY <1>1, <2>2, <2>4, ListedAlike
    <3> QED BY <1>3, <3>1
  <2> QED BY <2>3, <2>4
<1> QED BY <1>4, <1>5

\* The market is saved last: it is empty, or the table holds all of it.
LEMMA UnsoldSaved ==
  ASSUME Inv, Inv', SaveMarket \/ InsertRows, task' = "saved"
  PROVE  Unsold'
<1>1. MarketOK /\ MarketOK' /\ TableOK /\ TableOK'
  BY TypeParts DEF Inv
<1>2. SUFFICES ASSUME NEW q \in Players PROVE ListedIn(rows', q) >= ListedIn(market', q)
  BY DEF Unsold
<1>3. ListedIn(rows', q) \in Nat /\ ListedIn(market', q) \in Nat
  BY <1>1, ListedNaturals
<1>4. CASE SaveMarket
  <2>1. market' = <<>>
    BY <1>4 DEF SaveMarket, memory
  <2>2. ListedIn(market', q) = 0
    <3> DEFINE g == [i \in DOMAIN market' |->
                       IF market'[i].seller = q THEN market'[i].item_Count ELSE 0]
    <3>1. DOMAIN g = {}
      BY <2>1
    <3>2. ListedIn(market', q) = SumFunctionOnSet(g, DOMAIN g)
      BY DEF ListedIn, SumFunction
    <3> HIDE DEF g
    <3>3. IsFiniteSet({}) /\ \A x \in {} : g[x] = 0
      BY FS_EmptySet
    <3> QED BY <3>1, <3>2, <3>3, SumOfZeros
  <2> QED BY <1>3, <2>2
<1>5. CASE InsertRows
  <2>1. rows' = Offers /\ market' = market /\ nextMarketId' = nextMarketId
    BY <1>5 DEF InsertRows, SavedOffers, memory
  <2>2. RowsOf(q)' = OffersOf(q)'
    BY <1>1, <2>1, InsertedRows DEF OffersOf
  <2>3. ListedIn(rows', q) = ListedIn(market', q)
    BY <1>1, <2>2, ListedAlike
  <2> QED BY <1>3, <2>3
<1> QED BY <1>4, <1>5

\* What still goes on while the server stops.
LEMMA UnsoldRequests ==
  ASSUME Inv, Inv', Unsold, Network
  PROVE  Unsold'
<1>1. CASE Charge \/ \E p, id : Request(p, id)
  <2>1. market' = market /\ rows' = rows
    BY <1>1 DEF Charge, Request, memory, database
  <2> QED BY <2>1 DEF Unsold
<1>2. CASE Claim
  <2>1. SUFFICES ASSUME NEW q \in Players PROVE ListedIn(rows', q) >= ListedIn(market', q)
    BY DEF Unsold
  <2>2. /\ ListedIn(market, q) \in Int /\ ListedIn(market', q) \in Int
        /\ ListedIn(market', q) <= ListedIn(market, q)
    BY <1>2, ClaimLists
  <2>3. rows' = rows /\ ListedIn(rows, q) >= ListedIn(market, q) /\ ListedIn(rows, q) \in Nat
    BY <1>2, TypeParts, ListedNaturals DEF Claim, database, Unsold, Inv
  <2>4. ListedIn(rows', q) = ListedIn(rows, q)
    BY <2>3
  <2> QED BY <2>2, <2>3, <2>4
<1>3. CASE Mail
  <2>1. market' = market /\ nextMarketId' = nextMarketId
    BY <1>3 DEF Mail
  <2>2. \E parcel \in Nat : net \in RequestType /\ Mailed(net.player, parcel, 0)
    BY <1>3, MailIs
  <2>3. net.player \in Players /\ 0 \in Nat
    BY <2>2 DEF RequestType
  <2> QED BY <2>1, <2>2, <2>3, UnsoldMailed
<1>4. CASE Credit
  <2>1. market' = market /\ nextMarketId' = nextMarketId
    BY <1>4 DEF Credit
  <2>2. /\ net.offer.seller \in Players /\ net.price \in Nat /\ 0 \in Nat
        /\ Mailed(net.offer.seller, 0, net.price)
    BY <1>4, CreditIs
  <2> QED BY <2>1, <2>2, UnsoldMailed
<1>5. ASSUME NEW p, NEW id, CancelSell(p, id) \/ \E n : Buy(p, id, n)
      PROVE  Request(p, id)
  BY <1>5 DEF CancelSell, Buy
<1> QED BY <1>1, <1>2, <1>3, <1>4, <1>5 DEF Network

LEMMA UnsoldStep == Inv /\ NothingUnsoldLost /\ [Next]_vars => NothingUnsoldLost'
<1> SUFFICES ASSUME Inv, NothingUnsoldLost, [Next]_vars, task' = "saved" PROVE Unsold'
  BY DEF NothingUnsoldLost, Unsold
<1>0. Inv' /\ (task = "saved" => Unsold)
  BY InvStep DEF NothingUnsoldLost, Unsold
<1>1. CASE SaveMarket \/ InsertRows
  BY <1>0, <1>1, UnsoldSaved
<1>2. CASE Network
  <2>1. task' = task
    BY <1>2 DEF Network, CancelSell, Buy, Request, Claim, Mail, Charge, Credit, process
  <2> QED BY <1>0, <1>2, <2>1, UnsoldRequests
<1>3. CASE Tick \/ UNCHANGED vars
  <2>1. task' = task /\ market' = market /\ rows' = rows
    BY <1>3 DEF Tick, vars, process, memory, database
  <2> QED BY <1>0, <2>1 DEF Unsold
<1>4. CASE \/ \E p \in Players : Login(p) \/ Logout(p) \/ Spend(p) \/ SaveNext(p)
           \/ \E p \in Players, n \in Counts, c \in Prices, all \in BOOLEAN : Sell(p, n, c, all)
           \/ SaveServer \/ Shutdown \/ Exit \/ Crash \/ Start
  <2>1. task' # "saved"
    BY <1>4
    DEF Login, Logout, Spend, SaveNext, Sell, SaveServer, Shutdown, Exit, Crash, Halt, Start,
        process
  <2> QED BY <2>1
<1> QED BY <1>1, <1>2, <1>3, <1>4 DEF Next, Dispatcher

\* At every moment of every run, also after crashes and restarts and with a
\* request under way, the rows of a player who is out of the game are the offers
\* the market has of him, unless the market was empty when they were to be
\* saved; and once the server has saved, nothing that is offered is missing.
THEOREM TableFollows == Spec => []TableFollowsMarket
<1>1. Init => NothingUnsoldLost /\ OfflineOffersCurrent
  <2> SUFFICES ASSUME Init PROVE NothingUnsoldLost /\ OfflineOffersCurrent
    OBVIOUS
  <2>1. task = "idle"
    BY DEF Init
  <2>2. \A q \in Players : RowsOf(q) = OffersOf(q)
    BY DEF Init, RowsOf, OffersOf
  <2> QED BY <2>1, <2>2, OfflineIs DEF NothingUnsoldLost
<1>2. Inv /\ NothingUnsoldLost /\ [Next]_vars => NothingUnsoldLost'
  BY UnsoldStep
<1>3. Inv /\ OfflineOffersCurrent /\ [Next]_vars => OfflineOffersCurrent'
  BY OfflineStep
<1>4. NothingUnsoldLost /\ OfflineOffersCurrent => TableFollowsMarket
  BY DEF TableFollowsMarket
<1> QED BY <1>1, <1>2, <1>3, <1>4, Invariant, PTL DEF Spec

-----------------------------------------------------------------------------
(* Goods and coins *)

OwnedGoods == [p \in Players |-> Owned(p).goods]
OwnedCoins == [p \in Players |-> Owned(p).coins]
Counted == [i \in DOMAIN market |-> market[i].item_Count]
ClaimedGoods == IF Claimed THEN net.count ELSE 0
ClaimedCoins == IF Claimed /\ net.at = "credit" THEN net.price ELSE 0

LEMMA SumsAre ==
  /\ Goods = SumFunction(OwnedGoods) + SumFunction(Counted) + ClaimedGoods
  /\ Goods' = SumFunction(OwnedGoods)' + SumFunction(Counted)' + ClaimedGoods'
  /\ Coins = SumFunction(OwnedCoins) + ClaimedCoins
  /\ Coins' = SumFunction(OwnedCoins)' + ClaimedCoins'
BY DEF Goods, Coins, OwnedGoods, OwnedCoins, Counted, ClaimedGoods, ClaimedCoins

LEMMA OwnedTypes ==
  /\ PlayersOK => \A p \in Players :
       Owned(p) \in Accounts /\ Owned(p).goods \in Nat /\ Owned(p).coins \in Nat
  /\ PlayersOK' => \A p \in Players :
       Owned(p)' \in Accounts /\ Owned(p)'.goods \in Nat /\ Owned(p)'.coins \in Nat
BY DEF PlayersOK, Owned, Accounts

LEMMA SumsTyped ==
  ASSUME Inv
  PROVE  SumFunction(OwnedGoods) \in Int /\ SumFunction(OwnedCoins) \in Int
<1>1. PlayersOK /\ IsFiniteSet(Players)
  BY TypeParts, MarketAssumption DEF Inv
<1>2. /\ DOMAIN OwnedGoods = Players /\ DOMAIN OwnedCoins = Players
      /\ \A q \in Players : OwnedGoods[q] \in Int /\ OwnedCoins[q] \in Int
  BY <1>1, OwnedTypes DEF OwnedGoods, OwnedCoins
<1> QED BY <1>1, <1>2, SumSplit DEF SumFunction

\* Nobody owns more or less.
LEMMA SameOwned ==
  ASSUME \A p \in Players : Owned(p)' = Owned(p)
  PROVE  /\ SumFunction(OwnedGoods)' = SumFunction(OwnedGoods)
         /\ SumFunction(OwnedCoins)' = SumFunction(OwnedCoins)
<1>1. OwnedGoods' = OwnedGoods /\ OwnedCoins' = OwnedCoins
  BY DEF OwnedGoods, OwnedCoins
<1> QED BY <1>1

\* One player owns more or less.
LEMMA OneOwns ==
  ASSUME Inv, Inv', NEW p \in Players, \A q \in Players \ {p} : Owned(q)' = Owned(q)
  PROVE  /\ SumFunction(OwnedGoods) \in Int /\ SumFunction(OwnedCoins) \in Int
         /\ SumFunction(OwnedGoods)'
              = SumFunction(OwnedGoods) + (Owned(p)'.goods - Owned(p).goods)
         /\ SumFunction(OwnedCoins)'
              = SumFunction(OwnedCoins) + (Owned(p)'.coins - Owned(p).coins)
<1>1. PlayersOK /\ PlayersOK' /\ IsFiniteSet(Players)
  BY TypeParts, MarketAssumption DEF Inv
<1>2. ASSUME NEW f \in [Players -> Nat], NEW g \in [Players -> Nat],
             \A q \in Players \ {p} : f[q] = g[q]
      PROVE  SumFunction(f) \in Int /\ SumFunction(g) = SumFunction(f) + (g[p] - f[p])
  <2>1. /\ \A q \in Players : f[q] \in Int /\ g[q] \in Int
        /\ DOMAIN f = Players /\ DOMAIN g = Players
    OBVIOUS
  <2>2. SumFunctionOnSet(f, Players) \in Int
    BY <1>1, <2>1, SumSplit
  <2>3. SumFunctionOnSet(g, Players) = SumFunctionOnSet(f, Players) + (g[p] - f[p])
    BY <1>1, <1>2, <2>1, SumChanged
  <2> QED BY <2>1, <2>2, <2>3 DEF SumFunction
<1>3. /\ OwnedGoods \in [Players -> Nat] /\ OwnedGoods' \in [Players -> Nat]
      /\ OwnedCoins \in [Players -> Nat] /\ OwnedCoins' \in [Players -> Nat]
  BY <1>1, OwnedTypes DEF OwnedGoods, OwnedCoins
<1>4. \A q \in Players : /\ OwnedGoods[q] = Owned(q).goods /\ OwnedGoods'[q] = Owned(q)'.goods
                         /\ OwnedCoins[q] = Owned(q).coins /\ OwnedCoins'[q] = Owned(q)'.coins
  BY DEF OwnedGoods, OwnedCoins
<1>5. \A q \in Players \ {p} : OwnedGoods[q] = OwnedGoods'[q] /\ OwnedCoins[q] = OwnedCoins'[q]
  BY <1>4
<1>6. /\ SumFunction(OwnedGoods) \in Int
      /\ SumFunction(OwnedGoods') = SumFunction(OwnedGoods) + (OwnedGoods'[p] - OwnedGoods[p])
  BY <1>2, <1>3, <1>5
<1>7. /\ SumFunction(OwnedCoins) \in Int
      /\ SumFunction(OwnedCoins') = SumFunction(OwnedCoins) + (OwnedCoins'[p] - OwnedCoins[p])
  BY <1>2, <1>3, <1>5
<1> QED BY <1>4, <1>6, <1>7

\* What the accounting needs of the market and of the request.
LEMMA CountedTypes ==
  ASSUME Inv
  PROVE  /\ IsFiniteSet(DOMAIN Counted) /\ DOMAIN Counted = DOMAIN market
         /\ \A i \in DOMAIN market : Counted[i] \in Nat /\ Counted[i] = market[i].item_Count
         /\ SumFunction(Counted) \in Int /\ ClaimedGoods \in Nat /\ ClaimedCoins \in Nat
<1>1. MarketOK /\ NetOK
  BY TypeParts DEF Inv
<1>2. \A i \in DOMAIN market : market[i].item_Count \in Nat
  BY <1>1 DEF MarketOK, OfferType
<1>3. /\ DOMAIN Counted = DOMAIN market
      /\ \A i \in DOMAIN market : Counted[i] \in Nat /\ Counted[i] = market[i].item_Count
  BY <1>2 DEF Counted
<1>4. IsFiniteSet(DOMAIN Counted)
  BY <1>1, <1>3, FiniteMarket
<1>5. SumFunction(Counted) \in Int
  BY <1>3, <1>4, SumSplit DEF SumFunction
<1>6. ClaimedGoods \in Nat /\ ClaimedCoins \in Nat
  BY <1>1 DEF NetOK, Claimed, ClaimedGoods, ClaimedCoins, RequestType
<1> QED BY <1>3, <1>4, <1>5, <1>6

\* Steps that move nothing.
LEMMA NothingMoved ==
  ASSUME \A p \in Players : Owned(p)' = Owned(p), market' = market,
         ClaimedGoods' = ClaimedGoods, ClaimedCoins' = ClaimedCoins
  PROVE  GoodsAccounted /\ CoinsAccounted
<1>1. Counted' = Counted
  BY DEF Counted
<1>2. Goods' = Goods /\ Coins' = Coins
  BY <1>1, SameOwned, SumsAre
<1> QED BY <1>2 DEF GoodsAccounted, CoinsAccounted

LEMMA AccountedQuiet ==
  ASSUME Inv, Running,
         \/ \E p \in Players : Login(p) \/ Logout(p) \/ SaveNext(p)
         \/ SaveServer \/ Shutdown \/ SaveMarket \/ InsertRows
         \/ \E p, id : CancelSell(p, id) \/ \E n : Buy(p, id, n)
         \/ Tick \/ UNCHANGED vars
  PROVE  GoodsAccounted /\ CoinsAccounted
<1>1. PlayersOK /\ NetOK /\ ProcessOK
  BY TypeParts DEF Inv
<1>2. ASSUME NEW p \in Players, Login(p) PROVE GoodsAccounted /\ CoinsAccounted
  <2>1. /\ p \notin Online /\ inGame' = With(inGame, p, stored[p])
        /\ market' = market /\ net' = net /\ stored' = stored
    BY <1>2 DEF Login, database
  <2>2. /\ Online' = Online \cup {p} /\ inGame'[p] = stored[p]
        /\ \A q \in Online : inGame'[q] = inGame[q]
    BY <2>1 DEF Online, With
  <2>3. \A q \in Players : Owned(q)' = Owned(q)
    BY <2>1, <2>2 DEF Owned
  <2> QED BY <2>1, <2>3, NothingMoved DEF Claimed, ClaimedGoods, ClaimedCoins
<1>3. ASSUME NEW p \in Players, Logout(p) PROVE GoodsAccounted /\ CoinsAccounted
  <2>1. /\ p \in Online /\ stored' = [stored EXCEPT ![p] = inGame[p]]
        /\ inGame' = Restrict(inGame, Online \ {p}) /\ market' = market
        /\ net' = IF net # Idle /\ net.player = p THEN [net EXCEPT !.here = FALSE] ELSE net
    BY <1>3 DEF Logout, SavePlayer
  <2>2. /\ Online' = Online \ {p} /\ \A q \in Online \ {p} : inGame'[q] = inGame[q]
        /\ stored'[p] = inGame[p] /\ \A q \in Players \ {p} : stored'[q] = stored[q]
    BY <1>1, <2>1 DEF Online, Restrict, PlayersOK
  <2>3. \A q \in Players : Owned(q)' = Owned(q)
    BY <2>1, <2>2 DEF Owned
  <2>4. ClaimedGoods' = ClaimedGoods /\ ClaimedCoins' = ClaimedCoins
    <3>1. CASE net # Idle /\ net.player = p
      <4>1. net \in RequestType /\ net' = [net EXCEPT !.here = FALSE]
        BY <1>1, <2>1, <3>1 DEF NetOK
      <4>2. /\ net' \in RequestType /\ net'.at = net.at /\ net'.count = net.count
            /\ net'.price = net.price
        BY <4>1 DEF RequestType
      <4> QED BY <3>1, <4>2, IdleIs DEF Claimed, ClaimedGoods, ClaimedCoins
    <3>2. CASE ~(net # Idle /\ net.player = p)
      BY <2>1, <3>2 DEF Claimed, ClaimedGoods, ClaimedCoins
    <3> QED BY <3>1, <3>2
  <2> QED BY <2>1, <2>3, <2>4, NothingMoved
<1>4. ASSUME NEW p \in Players, SaveNext(p) PROVE GoodsAccounted /\ CoinsAccounted
  <2>1. /\ p \in Online /\ stored' = [stored EXCEPT ![p] = inGame[p]]
        /\ inGame' = inGame /\ market' = market /\ net' = net
    BY <1>1, <1>4 DEF SaveNext, SavePlayer, ProcessOK, memory
  <2>2. Online' = Online /\ \A q \in Players \ {p} : stored'[q] = stored[q]
    BY <1>1, <2>1 DEF Online, PlayersOK
  <2>3. \A q \in Players : Owned(q)' = Owned(q)
    BY <2>1, <2>2 DEF Owned
  <2> QED BY <2>1, <2>3, NothingMoved DEF Claimed, ClaimedGoods, ClaimedCoins
<1>5. CASE SaveServer \/ Shutdown \/ SaveMarket \/ InsertRows \/ Tick \/ UNCHANGED vars
  <2>1. inGame' = inGame /\ stored' = stored /\ market' = market /\ net' = net
    BY <1>5
    DEF SaveServer, Shutdown, SaveMarket, InsertRows, Tick, vars, process, memory, database
  <2>2. \A q \in Players : Owned(q)' = Owned(q)
    BY <2>1 DEF Owned, Online
  <2> QED BY <2>1, <2>2, NothingMoved DEF Claimed, ClaimedGoods, ClaimedCoins
<1>6. ASSUME NEW p, NEW id, CancelSell(p, id) \/ \E n : Buy(p, id, n)
      PROVE  GoodsAccounted /\ CoinsAccounted
  <2>1. Request(p, id) /\ net'.at = "found"
    BY <1>6 DEF CancelSell, Buy
  <2>2. inGame' = inGame /\ stored' = stored /\ market' = market /\ net = Idle
    BY <2>1 DEF Request, memory, database
  <2>3. \A q \in Players : Owned(q)' = Owned(q)
    BY <2>2 DEF Owned, Online
  <2>4. ~Claimed /\ ~Claimed'
    BY <2>1, <2>2 DEF Claimed
  <2> QED BY <2>2, <2>3, <2>4, NothingMoved DEF ClaimedGoods, ClaimedCoins
<1> QED BY <1>2, <1>3, <1>4, <1>5, <1>6

LEMMA AccountedSpend ==
  ASSUME Inv, Inv', NEW p \in Players, Spend(p)
  PROVE  GoodsAccounted /\ CoinsAccounted
<1>1. PlayersOK /\ PlayersOK'
  BY TypeParts DEF Inv
<1>2. /\ p \in Online /\ inGame' = [inGame EXCEPT ![p].coins = 0]
      /\ market' = market /\ net' = net /\ stored' = stored
  BY DEF Spend, database
<1>3. /\ Online' = Online /\ inGame'[p] = [inGame[p] EXCEPT !.coins = 0]
      /\ \A q \in Online \ {p} : inGame'[q] = inGame[q]
  BY <1>2 DEF Online
<1>4. /\ \A q \in Players \ {p} : Owned(q)' = Owned(q)
      /\ Owned(p) = inGame[p] /\ Owned(p)' = [inGame[p] EXCEPT !.coins = 0]
  BY <1>2, <1>3 DEF Owned
<1>5. inGame[p] \in Accounts
  BY <1>1, <1>2 DEF PlayersOK
<1>6. /\ Owned(p)'.goods = Owned(p).goods /\ Owned(p)'.coins = 0
      /\ Owned(p).goods \in Nat /\ Owned(p).coins \in Nat
  BY <1>4, <1>5 DEF Accounts
<1>7. Counted' = Counted /\ ClaimedGoods' = ClaimedGoods /\ ClaimedCoins' = ClaimedCoins
  BY <1>2 DEF Counted, Claimed, ClaimedGoods, ClaimedCoins
<1>8. /\ SumFunction(OwnedGoods)' = SumFunction(OwnedGoods)
      /\ SumFunction(OwnedCoins)' = SumFunction(OwnedCoins) - Owned(p).coins
      /\ SumFunction(OwnedCoins) \in Int
  <2>1. /\ SumFunction(OwnedGoods) \in Int /\ SumFunction(OwnedCoins) \in Int
        /\ SumFunction(OwnedGoods)'
             = SumFunction(OwnedGoods) + (Owned(p)'.goods - Owned(p).goods)
        /\ SumFunction(OwnedCoins)'
             = SumFunction(OwnedCoins) + (Owned(p)'.coins - Owned(p).coins)
    BY <1>4, OneOwns
  <2> QED BY <1>6, <2>1
<1>9. Goods' = Goods
  BY <1>7, <1>8, SumsAre
<1>10. Coins' = Coins - Owned(p).coins /\ Coins \in Int
  BY <1>7, <1>8, <1>6, CountedTypes, SumsAre
<1> QED BY <1>2, <1>6, <1>9, <1>10 DEF GoodsAccounted, CoinsAccounted

\* The goods go from the seller to the market, and the fee is gone.
LEMMA AccountedSell ==
  ASSUME Inv, Inv', NEW p \in Players, NEW n \in Counts, NEW price \in Prices,
         NEW all \in BOOLEAN, Sell(p, n, price, all)
  PROVE  GoodsAccounted /\ CoinsAccounted
<1> DEFINE fee == Fee(n, price, all)
           offer == [seller |-> p, item_Count |-> n, item_Price |-> price,
                     price_all |-> all, m_Time |-> now + Lifetime]
<1>1. PlayersOK /\ MarketOK
  BY TypeParts DEF Inv
<1>2. /\ p \in Online
      /\ inGame' = [inGame EXCEPT ![p].goods = @ - n, ![p].coins = @ - fee]
      /\ market' = With(market, nextMarketId, offer)
      /\ net' = net /\ stored' = stored
  BY DEF Sell, database
<1>3. n \in Nat /\ fee \in Nat /\ offer.item_Count = n
  BY MarketAssumption, FeeIs
<1> HIDE DEF fee, offer
<1>4. /\ Online' = Online
      /\ inGame'[p] = [inGame[p] EXCEPT !.goods = @ - n, !.coins = @ - fee]
      /\ \A q \in Online \ {p} : inGame'[q] = inGame[q]
  BY <1>2 DEF Online
<1>5. /\ \A q \in Players \ {p} : Owned(q)' = Owned(q)
      /\ Owned(p) = inGame[p] /\ Owned(p)' = inGame'[p]
  BY <1>2, <1>4 DEF Owned
<1>6. inGame[p] \in Accounts
  BY <1>1, <1>2 DEF PlayersOK
<1>7. /\ Owned(p)'.goods = Owned(p).goods - n /\ Owned(p)'.coins = Owned(p).coins - fee
      /\ Owned(p).goods \in Nat /\ Owned(p).coins \in Nat
  BY <1>4, <1>5, <1>6 DEF Accounts
<1>8. /\ SumFunction(OwnedGoods)' = SumFunction(OwnedGoods) - n
      /\ SumFunction(OwnedCoins)' = SumFunction(OwnedCoins) - fee
      /\ SumFunction(OwnedGoods) \in Int /\ SumFunction(OwnedCoins) \in Int
  <2>1. /\ SumFunction(OwnedGoods) \in Int /\ SumFunction(OwnedCoins) \in Int
        /\ SumFunction(OwnedGoods)'
             = SumFunction(OwnedGoods) + (Owned(p)'.goods - Owned(p).goods)
        /\ SumFunction(OwnedCoins)'
             = SumFunction(OwnedCoins) + (Owned(p)'.coins - Owned(p).coins)
    BY <1>5, OneOwns
  <2> QED BY <1>3, <1>7, <2>1
<1>9. SumFunction(Counted)' = SumFunction(Counted) + n
  <2>1. nextMarketId \notin DOMAIN market
    BY <1>1 DEF MarketOK
  <2>2. /\ DOMAIN market' = DOMAIN market \cup {nextMarketId}
        /\ market'[nextMarketId] = offer
        /\ \A i \in DOMAIN market : market'[i] = market[i]
    BY <1>2, <2>1 DEF With
  <2> DEFINE g == [i \in DOMAIN market' |-> market'[i].item_Count]
             x == nextMarketId
  <2>3. Counted' = g
    BY DEF Counted
  <2>4. /\ DOMAIN g = DOMAIN Counted \cup {x} /\ x \notin DOMAIN Counted /\ g[x] = n
        /\ \A i \in DOMAIN Counted : Counted[i] \in Int /\ g[i] = Counted[i]
    BY <1>3, <2>1, <2>2, CountedTypes
  <2> HIDE DEF g, x
  <2>5. SumFunction(g) = SumFunction(Counted) + g[x]
    BY <1>3, <2>4, CountedTypes, SumExtended
  <2> QED BY <2>3, <2>4, <2>5
<1>10. ClaimedGoods' = ClaimedGoods /\ ClaimedCoins' = ClaimedCoins
  BY <1>2 DEF Claimed, ClaimedGoods, ClaimedCoins
<1>11. Goods' = Goods
  BY <1>3, <1>8, <1>9, <1>10, CountedTypes, SumsAre
<1>12. Coins' = Coins - fee /\ Coins \in Int
  BY <1>3, <1>8, <1>10, CountedTypes, SumsAre
<1> QED BY <1>2, <1>3, <1>11, <1>12 DEF GoodsAccounted, CoinsAccounted

\* What is claimed leaves the market with the request.
LEMMA AccountedClaim ==
  ASSUME Inv, Inv', Claim
  PROVE  GoodsAccounted /\ CoinsAccounted
<1> DEFINE g == [i \in DOMAIN market' |-> market'[i].item_Count]
           x == net.id
<1>1. inGame' = inGame /\ stored' = stored
  BY DEF Claim, database
<1>2. \A q \in Players : Owned(q)' = Owned(q)
  BY <1>1 DEF Owned, Online
<1>3. /\ ClaimedGoods = 0 /\ ClaimedGoods' = net.count
      /\ ClaimedCoins = 0 /\ ClaimedCoins' = 0
  BY ClaimIs, IdleIs DEF Claimed, ClaimedGoods, ClaimedCoins
<1>4. /\ x \in DOMAIN market /\ net.count \in Nat
      /\ market[x].item_Count \in Nat /\ net.count <= market[x].item_Count
      /\ net.offer.item_Count = market[x].item_Count
  <2>1. /\ x \in DOMAIN market /\ net.offer = market[x] /\ net.offer \in OfferType
        /\ net.count \in 1..net.offer.item_Count
    BY ClaimIs
  <2>2. net.offer.item_Count \in Nat
    BY <2>1 DEF OfferType
  <2> QED BY <2>1, <2>2
<1>5. Counted' = g
  BY DEF Counted
<1>6. /\ DOMAIN g = DOMAIN market' /\ DOMAIN Counted = DOMAIN market
      /\ \A i \in DOMAIN market' : g[i] = market'[i].item_Count
      /\ \A i \in DOMAIN market : Counted[i] \in Int /\ Counted[i] = market[i].item_Count
      /\ IsFiniteSet(DOMAIN Counted)
  BY CountedTypes
<1> HIDE DEF g, x
<1>7. \A i \in DOMAIN Counted \ {x} : i \in DOMAIN g /\ g[i] = Counted[i]
  BY <1>6, ClaimIs DEF x
<1>8. ASSUME net.count = net.offer.item_Count, DOMAIN market' = DOMAIN market \ {x}
      PROVE  SumFunction(g) = SumFunction(Counted) - net.count
  <2>1. DOMAIN g = DOMAIN Counted \ {x} /\ x \in DOMAIN Counted /\ x \notin DOMAIN g
    BY <1>4, <1>6, <1>8
  <2>2. SumFunction(g) = SumFunction(Counted) - Counted[x] + (IF x \in DOMAIN g THEN g[x] ELSE 0)
    BY <1>6, <1>7, <2>1, SumClaimed
  <2> QED BY <1>4, <1>6, <1>8, <2>1, <2>2, CountedTypes
<1>9. ASSUME DOMAIN market' = DOMAIN market,
             market'[x].item_Count = net.offer.item_Count - net.count
      PROVE  SumFunction(g) = SumFunction(Counted) - net.count
  <2>1. /\ DOMAIN g = DOMAIN Counted /\ x \in DOMAIN Counted /\ x \in DOMAIN g
        /\ Counted[x] = market[x].item_Count /\ g[x] = market[x].item_Count - net.count
    BY <1>4, <1>6, <1>9
  <2>2. g[x] \in Int
    BY <1>4, <2>1
  <2>3. SumFunction(g) = SumFunction(Counted) - Counted[x] + (IF x \in DOMAIN g THEN g[x] ELSE 0)
    BY <1>6, <1>7, <2>1, <2>2, SumClaimed
  <2> QED BY <1>4, <2>1, <2>3, CountedTypes
<1>10. SumFunction(g) = SumFunction(Counted) - net.count
  BY <1>8, <1>9, ClaimIs DEF x
<1>11. SumFunction(Counted)' = SumFunction(g)
  BY <1>5
<1>12. /\ SumFunction(OwnedGoods)' = SumFunction(OwnedGoods)
       /\ SumFunction(OwnedCoins)' = SumFunction(OwnedCoins)
  BY <1>2, SameOwned
<1>13. Coins' = Coins
  BY <1>3, <1>12, SumsAre
<1>14. Goods' = Goods
  <2>1. SumFunction(OwnedGoods) \in Int
    BY SumsTyped
  <2> QED BY <1>3, <1>4, <1>10, <1>11, <1>12, <2>1, CountedTypes, SumsAre
<1> QED BY <1>13, <1>14 DEF GoodsAccounted, CoinsAccounted

\* A parcel goes from the request to its player.
LEMMA AccountedMail ==
  ASSUME Inv, Inv', Mail
  PROVE  GoodsAccounted /\ CoinsAccounted
<1>0. PICK p : p = net.player
  OBVIOUS
<1>1. PICK parcel \in Nat :
        /\ net \in RequestType /\ net.at = "mail" /\ Mailed(p, parcel, 0)
        /\ parcel <= net.count
        /\ \/ /\ parcel < net.count /\ net' = [net EXCEPT !.count = @ - parcel]
           \/ parcel = net.count /\ net.price = 0 /\ net' = Idle
           \/ /\ parcel = net.count /\ net.price # 0
              /\ net' = [net EXCEPT !.at = "charge", !.count = 0]
  BY <1>0, MailIs
<1>2. p \in Players /\ net.count \in Nat /\ net # Idle /\ 0 \in Nat /\ market' = market
  BY <1>0, <1>1, IdleIs DEF RequestType, Mail
<1>3. PlayersOK /\ MarketOK /\ TableOK
  BY TypeParts DEF Inv
<1>4. /\ \A q \in Players \ {p} : Owned(q)' = Owned(q)
      /\ Owned(p)'.goods = Owned(p).goods + parcel
      /\ Owned(p)'.coins = Owned(p).coins + 0
      /\ Owned(p).goods \in Nat /\ Owned(p).coins \in Nat
  BY <1>1, <1>2, <1>3, MailedTypes, OwnedTypes
<1>5. /\ SumFunction(OwnedGoods)' = SumFunction(OwnedGoods) + parcel
      /\ SumFunction(OwnedCoins)' = SumFunction(OwnedCoins)
      /\ SumFunction(OwnedGoods) \in Int /\ SumFunction(OwnedCoins) \in Int
  <2>1. /\ SumFunction(OwnedGoods) \in Int /\ SumFunction(OwnedCoins) \in Int
        /\ SumFunction(OwnedGoods)'
             = SumFunction(OwnedGoods) + (Owned(p)'.goods - Owned(p).goods)
        /\ SumFunction(OwnedCoins)'
             = SumFunction(OwnedCoins) + (Owned(p)'.coins - Owned(p).coins)
    BY <1>2, <1>4, OneOwns
  <2> QED BY <1>4, <2>1
<1>6. ClaimedGoods' = ClaimedGoods - parcel /\ ClaimedCoins' = ClaimedCoins
  <2>1. ClaimedGoods = net.count /\ ClaimedCoins = 0
    BY <1>1, <1>2 DEF Claimed, ClaimedGoods, ClaimedCoins
  <2>2. CASE parcel < net.count /\ net' = [net EXCEPT !.count = @ - parcel]
    <3>1. net'.at = "mail" /\ net'.count = net.count - parcel
      BY <1>1, <2>2 DEF RequestType
    <3> QED BY <2>1, <3>1, IdleIs DEF Claimed, ClaimedGoods, ClaimedCoins
  <2>3. CASE parcel = net.count /\ net' = Idle
    <3>1. ClaimedGoods' = 0 /\ ClaimedCoins' = 0
      BY <2>3 DEF Claimed, ClaimedGoods, ClaimedCoins
    <3> QED BY <1>2, <2>1, <2>3, <3>1
  <2>4. CASE parcel = net.count /\ net' = [net EXCEPT !.at = "charge", !.count = 0]
    <3>1. net'.at = "charge" /\ net'.count = 0
      BY <1>1, <2>4 DEF RequestType
    <3>2. ClaimedGoods' = 0 /\ ClaimedCoins' = 0
      BY <3>1, IdleIs DEF Claimed, ClaimedGoods, ClaimedCoins
    <3> QED BY <1>2, <2>1, <2>4, <3>2
  <2> QED BY <1>1, <2>2, <2>3, <2>4
<1>7. Counted' = Counted
  BY <1>2 DEF Counted
<1>8. Goods' = Goods /\ Coins' = Coins
  BY <1>5, <1>6, <1>7, CountedTypes, SumsAre
<1> QED BY <1>8 DEF GoodsAccounted, CoinsAccounted

\* The buyer's coins go to the request, if he can pay.
LEMMA AccountedCharge ==
  ASSUME Inv, Inv', Charge
  PROVE  GoodsAccounted /\ CoinsAccounted
<1>0. PICK p : p = net.player
  OBVIOUS
<1>1. /\ net # Idle /\ net' # Idle /\ net.at = "charge" /\ net'.at = "credit"
      /\ net.count = 0 /\ net'.count = 0 /\ net'.price = net.price /\ net.price \in Nat
  BY ChargeIs, IdleIs DEF RequestType
<1>2. market' = market /\ stored' = stored /\ PlayersOK
  BY TypeParts DEF Charge, database, Inv
<1>3. /\ ClaimedGoods = 0 /\ ClaimedGoods' = 0
      /\ ClaimedCoins = 0 /\ ClaimedCoins' = net.price
  BY <1>1 DEF Claimed, ClaimedGoods, ClaimedCoins
<1>4. Counted' = Counted
  BY <1>2 DEF Counted
<1>5. CASE ~CanPay
  <2>1. inGame' = inGame
    BY <1>5, ChargeIs
  <2>2. \A q \in Players : Owned(q)' = Owned(q)
    BY <1>2, <2>1 DEF Owned, Online
  <2>3. Goods' = Goods
    BY <1>3, <1>4, <2>2, SameOwned, SumsAre
  <2> QED BY <1>1, <1>5, <2>3 DEF GoodsAccounted, CoinsAccounted
<1>6. CASE CanPay
  <2>1. /\ p \in Online /\ Online' = Online
        /\ inGame'[p].goods = inGame[p].goods
        /\ inGame'[p].coins = inGame[p].coins - net.price
        /\ \A q \in Online \ {p} : inGame'[q] = inGame[q]
    BY <1>0, <1>6, ChargeIs
  <2>2. /\ p \in Players /\ \A q \in Players \ {p} : Owned(q)' = Owned(q)
        /\ Owned(p) = inGame[p] /\ Owned(p)' = inGame'[p]
    BY <1>2, <2>1 DEF Owned, PlayersOK
  <2>3. Owned(p).goods \in Nat /\ Owned(p).coins \in Nat
    BY <1>2, <2>2, OwnedTypes
  <2>4. /\ SumFunction(OwnedGoods) \in Int /\ SumFunction(OwnedCoins) \in Int
        /\ SumFunction(OwnedGoods)'
             = SumFunction(OwnedGoods) + (Owned(p)'.goods - Owned(p).goods)
        /\ SumFunction(OwnedCoins)'
             = SumFunction(OwnedCoins) + (Owned(p)'.coins - Owned(p).coins)
    BY <2>2, OneOwns
  <2>5. /\ SumFunction(OwnedGoods)' = SumFunction(OwnedGoods)
        /\ SumFunction(OwnedCoins)' = SumFunction(OwnedCoins) - net.price
    BY <1>1, <2>1, <2>2, <2>3, <2>4
  <2>6. Goods' = Goods /\ Coins' = Coins
    BY <1>1, <1>3, <1>4, <2>4, <2>5, SumsAre
  <2> QED BY <2>6 DEF GoodsAccounted, CoinsAccounted
<1> QED BY <1>5, <1>6

\* The payment goes from the request to the seller.
LEMMA AccountedCredit ==
  ASSUME Inv, Inv', Credit
  PROVE  GoodsAccounted /\ CoinsAccounted
<1>0. PICK p : p = net.offer.seller
  OBVIOUS
<1>1. /\ net # Idle /\ net.at = "credit" /\ net.count = 0 /\ net' = Idle
      /\ p \in Players /\ net.price \in Nat /\ 0 \in Nat /\ Mailed(p, 0, net.price)
  BY <1>0, CreditIs
<1>2. market' = market /\ PlayersOK /\ MarketOK /\ TableOK
  BY TypeParts DEF Credit, Inv
<1>3. /\ \A q \in Players \ {p} : Owned(q)' = Owned(q)
      /\ Owned(p)'.goods = Owned(p).goods + 0
      /\ Owned(p)'.coins = Owned(p).coins + net.price
      /\ Owned(p).goods \in Nat /\ Owned(p).coins \in Nat
  BY <1>1, <1>2, MailedTypes, OwnedTypes
<1>4. /\ SumFunction(OwnedGoods) \in Int /\ SumFunction(OwnedCoins) \in Int
      /\ SumFunction(OwnedGoods)'
           = SumFunction(OwnedGoods) + (Owned(p)'.goods - Owned(p).goods)
      /\ SumFunction(OwnedCoins)'
           = SumFunction(OwnedCoins) + (Owned(p)'.coins - Owned(p).coins)
  BY <1>1, <1>3, OneOwns
<1>5. /\ SumFunction(OwnedGoods)' = SumFunction(OwnedGoods)
      /\ SumFunction(OwnedCoins)' = SumFunction(OwnedCoins) + net.price
  BY <1>1, <1>3, <1>4
<1>6. /\ ClaimedGoods = 0 /\ ClaimedGoods' = 0
      /\ ClaimedCoins = net.price /\ ClaimedCoins' = 0
  BY <1>1 DEF Claimed, ClaimedGoods, ClaimedCoins
<1>7. Counted' = Counted
  BY <1>2 DEF Counted
<1>8. Goods' = Goods /\ Coins' = Coins
  BY <1>1, <1>4, <1>5, <1>6, <1>7, SumsAre
<1> QED BY <1>8 DEF GoodsAccounted, CoinsAccounted

Accounting == Running => GoodsAccounted /\ CoinsAccounted

\* However the steps of purchases and of the dispatcher interleave, as long as
\* the process runs no goods are made or lost, and coins only as a player spends
\* them, or as a purchase pays the seller what its buyer no longer has.
THEOREM NothingLostOrMade == Spec => Accounted
<1>1. Inv /\ Inv' /\ [Next]_vars => [Accounting]_vars
  <2> SUFFICES ASSUME Inv, Inv', [Next]_vars, Running PROVE GoodsAccounted /\ CoinsAccounted
    BY DEF Accounting
  <2>1. CASE \E p \in Players : Login(p) \/ Logout(p) \/ SaveNext(p)
    BY <2>1, AccountedQuiet
  <2>2. CASE \E p \in Players : Spend(p)
    BY <2>2, AccountedSpend
  <2>3. CASE \E p \in Players, n \in Counts, c \in Prices, all \in BOOLEAN : Sell(p, n, c, all)
    BY <2>3, AccountedSell
  <2>4. CASE SaveServer \/ Shutdown \/ SaveMarket \/ InsertRows \/ Tick \/ UNCHANGED vars
    BY <2>4, AccountedQuiet
  <2>5. CASE Network
    <3>1. ASSUME NEW p, NEW id, CancelSell(p, id) \/ \E n : Buy(p, id, n)
          PROVE  GoodsAccounted /\ CoinsAccounted
      BY <3>1, AccountedQuiet
    <3> QED BY <2>5, <3>1, AccountedClaim, AccountedMail, AccountedCharge, AccountedCredit
        DEF Network
  <2>6. CASE Exit \/ Crash \/ Start
    BY <2>6 DEF Exit, Crash, Halt, Start, Running, Up
  <2> QED BY <2>1, <2>2, <2>3, <2>4, <2>5, <2>6 DEF Next, Dispatcher
<1> QED BY <1>1, Invariant, PTL DEF Spec, Accounted, Accounting
=============================================================================
