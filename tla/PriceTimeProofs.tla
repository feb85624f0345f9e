---------------------------- MODULE PriceTimeProofs ----------------------------
(***************************************************************************)
(* Proofs about OrderBook: when the two sides share no level, the ring of  *)
(* levels is all the ask levels, sorted, and the search in it passes       *)
(* exactly the better ones.  Whether they share levels or not, the book    *)
(* takes the steps of PriceTimeBook for arriving BUY orders as long as     *)
(* matching can reach every resting SELL order at its price: every level   *)
(* that asks_at_price_ leads to is one of the sorted ring R of RingInv,    *)
(* which may hold fewer levels than there are.                             *)
(***************************************************************************)
EXTENDS OrderBookProofs

-------------------------------------------------------------------------------
(* The ring of levels, when BUY and SELL orders share none.                    *)

\* While the sides share no level, nothing is ever lost from the ring.
LEMMA AsksAreTheRing ==
  ASSUME OneSided, IInv
  PROVE  /\ Sorted(AskLevels) /\ LinkedOn(AskLevels)
         /\ SellsOnly(AskLevels) /\ SearchIn(AskLevels)
         /\ asks_at_price_ \in OrNull(AskLevels) /\ AskLevels \subseteq Prices
<1>1. PICK R \in SUBSET Levels : Ring(R) /\ SellsOnly(R) /\ SearchIn(R)
  BY DEF IInv, RingInv
<1>2. R = AskLevels
  BY <1>1 DEF Ring
<1>3. LinkedOn(R) /\ R \subseteq Prices
  BY <1>1, RingIsLinked DEF IInv, Book
<1> QED
  BY <1>1, <1>2, <1>3 DEF Ring

LEMMA SortedIsRingOK ==
  ASSUME OneSided, IInv
  PROVE  RingOK
<1> USE NullFacts
<1>0. AskLevels \subseteq Int
  BY DEF AskLevels, Levels
<1>a. /\ Sorted(AskLevels) /\ LinkedOn(AskLevels) /\ Linked
      /\ asks_at_price_ \in OrNull(AskLevels)
  BY AsksAreTheRing DEF IInv, Book
<1>1. bids_at_price_ = Null /\ (asks_at_price_ = Null <=> AskLevels = {})
  <2>1. asks_at_price_ # Null => asks_at_price_ \in AskLevels
    BY <1>a DEF OrNull, LinkedOn, Linked
  <2> QED
    BY <1>a, <2>1 DEF LinkedOn, Linked, Sorted
<1>2. \A p \in Levels \ SellPrices : prev_entry_[p] = p /\ next_entry_[p] = p
  BY <1>a DEF LinkedOn, Linked, Sorted
<1>3. ASSUME NEW p \in AskLevels
      PROVE  LET above == {q \in AskLevels : q > p}
                 below == {q \in AskLevels : q < p}
             IN  /\ below = {} <=> p = asks_at_price_
                 /\ prev_entry_[p] \in
                      IF below = {}
                      THEN {q \in AskLevels : \A r \in AskLevels : r <= q}
                      ELSE {q \in below : \A r \in below : r <= q}
                 /\ next_entry_[p] \in
                      IF above = {}
                      THEN {asks_at_price_} \cup (IF below = {} THEN {} ELSE {Null})
                      ELSE {q \in above : \A r \in above : q <= r}
  <2> DEFINE above == {q \in AskLevels : q > p}
             below == {q \in AskLevels : q < p}
             n     == next_entry_[p]
  <2>0. p \in Int /\ \A q \in AskLevels : q \in Int /\ asks_at_price_ <= q
    BY <1>a, <1>0 DEF Sorted
  <2>1. asks_at_price_ \in AskLevels /\ asks_at_price_ <= p
    BY <1>a, <1>1, <2>0 DEF OrNull, LinkedOn, Linked
  <2>2. below = {} <=> p = asks_at_price_
    <3>1. p # asks_at_price_ => asks_at_price_ \in below
      BY <1>0, <2>1
    <3>2. p = asks_at_price_ => \A q \in AskLevels : ~(q < p)
      BY <2>0
    <3> QED
      BY <3>1, <3>2
  <2>3. prev_entry_[p] \in AskLevels
    BY <1>a DEF LinkedOn, Linked
  <2>4. prev_entry_[p] \in IF below = {}
                           THEN {q \in AskLevels : \A r \in AskLevels : r <= q}
                           ELSE {q \in below : \A r \in below : r <= q}
    <3>1. CASE p = asks_at_price_
      BY <1>a, <2>2, <2>3, <3>1 DEF Sorted
    <3>2. CASE p # asks_at_price_
      <4>1. prev_entry_[p] \in below /\ \A r \in below : r <= prev_entry_[p]
        BY <1>a, <2>3, <3>2 DEF Sorted
      <4> QED
        BY <2>2, <3>2, <4>1
    <3> QED
      BY <3>1, <3>2
  <2>5. n \in IF above = {}
              THEN {asks_at_price_} \cup (IF below = {} THEN {} ELSE {Null})
              ELSE {q \in above : \A r \in above : q <= r}
    <3>1. CASE above = {}
      <4>1. n # Null => n = asks_at_price_
        <5> SUFFICES ASSUME n # Null, n # asks_at_price_
                     PROVE  FALSE
          OBVIOUS
        <5>1. n \in AskLevels /\ prev_entry_[n] = p
          BY <1>a DEF LinkedOn, Linked
        <5>2. p < n
          BY <1>a, <5>1 DEF Sorted
        <5> QED
          BY <3>1, <5>1, <5>2
      <4>2. n = Null => below # {}
        BY <1>a, <2>2 DEF Sorted
      <4> QED
        BY <3>1, <4>1, <4>2
    <3>2. CASE above # {}
      <4>1. PICK a \in AskLevels : a > p
        BY <3>2
      <4>2. n # Null
        <5>1. n = Null => a <= p
          BY <1>a DEF Sorted
        <5> QED
          BY <2>0, <4>1, <5>1
      <4>3. n \in AskLevels /\ prev_entry_[n] = p
        BY <1>a, <4>2 DEF LinkedOn, Linked
      <4>4. n # asks_at_price_
        <5>1. n = asks_at_price_ => a <= p
          BY <1>a, <4>1, <4>3 DEF Sorted
        <5> QED
          BY <2>0, <4>1, <5>1
      <4>5. p < n /\ \A r \in AskLevels : r < n => r <= p
        BY <1>a, <4>3, <4>4 DEF Sorted
      <4>6. \A r \in above : n <= r
        <5> SUFFICES ASSUME NEW r \in AskLevels, p < r PROVE n <= r
          OBVIOUS
        <5>1. r < n => r <= p
          BY <4>5
        <5>2. n \in Int /\ r \in Int /\ p \in Int
          BY <2>0, <4>3
        <5> HIDE DEF n
        <5> QED
          BY <5>1, <5>2
      <4> QED
        BY <3>2, <4>3, <4>5, <4>6
    <3> QED
      BY <3>1, <3>2
  <2> QED
    BY <2>2, <2>4, <2>5
<1> QED
  BY <1>1, <1>2, <1>3 DEF RingOK

\* Whatever is added, filled and cancelled, the ring of ask levels is the sorted
\* list of the levels in use, asks_at_price_ its lowest, and at most the worst
\* level lacks its next_entry_ (me_order_book.h:64-145).
THEOREM RingIsSorted == OneSided /\ SidesKnown => (Spec => []RingOK)
<1> SUFFICES ASSUME OneSided, SidesKnown PROVE Spec => []RingOK
  OBVIOUS
<1>1. IInv => RingOK
  BY SortedIsRingOK
<1>2. Spec => []IInv
  BY Invariance DEF LimitsApart
<1> QED
  BY <1>1, <1>2, PTL

\* The search of addOrdersAtPrice() passes the better levels, all of them and no
\* other (me_order_book.h:79-88).
THEOREM SearchFindsThePlace == OneSided /\ SidesKnown => (Spec => []SearchOK)
<1> SUFFICES ASSUME OneSided, SidesKnown PROVE Spec => []SearchOK
  OBVIOUS
<1>1. IInv => SearchOK
  BY AsksAreTheRing DEF IInv, JobOK, HasNoLevel, SearchIn, SearchOK
<1>2. Spec => []IInv
  BY Invariance DEF LimitsApart
<1> QED
  BY <1>1, <1>2, PTL

-------------------------------------------------------------------------------
(* Price-time priority.                                                        *)

Entry(m) == [moid |-> m, side |-> order_pool_[m].side,
             price |-> order_pool_[m].price, qty |-> order_pool_[m].qty]

LEMMA RestingEntries == Resting = {Entry(m) : m \in Pooled}
BY DEF Resting, Entry

LEMMA SameResting ==
  ASSUME UNCHANGED order_pool_
  PROVE  UNCHANGED Resting
BY DEF Resting, Pooled

\* One order leaves.
LEMMA RestingWithout ==
  ASSUME NEW m \in Pooled, Pooled' = Pooled \ {m},
         \A n \in Pooled' : order_pool_'[n] = order_pool_[n]
  PROVE  Resting' = Resting \ {Entry(m)}
<1>1. \A n \in Pooled' : Entry(n)' = Entry(n)
  BY DEF Entry
<1>2. Resting' = {Entry(n) : n \in Pooled'}
  <2>1. Resting' = {Entry(n)' : n \in Pooled'}
    BY DEF Resting, Entry
  <2> QED
    BY <1>1, <2>1
<1>3. \A n \in Pooled : Entry(n) = Entry(m) => n = m
  BY DEF Entry
<1> QED
  BY <1>2, <1>3, RestingEntries

\* One order loses quantity.
LEMMA RestingWithLess ==
  ASSUME PoolTypes, NEW m \in Pooled, order_pool_[m] \in MEOrder, m \in MOids,
         NEW fill \in Nat, order_pool_[m].qty - fill \in Nat \ {0},
         order_pool_' = [order_pool_ EXCEPT ![m].qty = @ - fill]
  PROVE  Resting' = (Resting \ {Entry(m)}) \cup {[Entry(m) EXCEPT !.qty = @ - fill]}
<1> USE NullFacts
<1>1. /\ order_pool_'[m] = [order_pool_[m] EXCEPT !.qty = @ - fill]
      /\ \A n \in MOids \ {m} : order_pool_'[n] = order_pool_[n]
  BY DEF PoolTypes
<1>2. order_pool_'[m] \in MEOrder
  BY <1>1 DEF MEOrder
<1>3. Pooled' = Pooled
  BY <1>1, <1>2 DEF Pooled
<1>4. Entry(m)' = [Entry(m) EXCEPT !.qty = @ - fill]
  BY <1>1 DEF Entry, MEOrder
<1>5. \A n \in Pooled \ {m} : Entry(n)' = Entry(n)
  BY <1>1 DEF Entry, Pooled
<1>6. Resting' = {Entry(n)' : n \in Pooled}
  BY <1>3 DEF Resting, Entry
<1>7. \A n \in Pooled : Entry(n) = Entry(m) => n = m
  BY DEF Entry
<1> QED
  BY <1>4, <1>5, <1>6, <1>7, RestingEntries

\* What is left of the incoming order rests.
LEMMA RestingWithMore ==
  ASSUME PoolTypes, NEW m \in MOids, m \notin Pooled, NEW o, o # Null,
         order_pool_' = [order_pool_ EXCEPT ![m] = o]
  PROVE  Resting' = Resting \cup
           {[moid |-> m, side |-> o.side, price |-> o.price, qty |-> o.qty]}
<1>1. /\ order_pool_'[m] = o /\ Pooled' = Pooled \cup {m}
      /\ \A n \in Pooled : order_pool_'[n] = order_pool_[n]
  BY DEF PoolTypes, Pooled
<1>2. \A n \in Pooled : Entry(n)' = Entry(n)
  BY <1>1 DEF Entry
<1>3. Entry(m)' = [moid |-> m, side |-> o.side, price |-> o.price, qty |-> o.qty]
  BY <1>1 DEF Entry
<1>4. Resting' = {Entry(n)' : n \in Pooled'}
  BY DEF Resting, Entry
<1> QED
  BY <1>1, <1>2, <1>3, <1>4, RestingEntries

\* removeOrder() frees exactly its order, unless the process dies in it.
LEMMA RemoveOrderFrees ==
  ASSUME Book, NEW m \in Pooled, removeOrder(m)
  PROVE  \/ /\ Len(orders_at_price[LevelAt(order_pool_[m].price)]) = 1
            /\ next_entry_[LevelAt(order_pool_[m].price)] = Null
            /\ UNCHANGED order_pool_
         \/ /\ status' = status /\ Pooled' = Pooled \ {m}
            /\ \A n \in Pooled' : order_pool_'[n] = order_pool_[n]
<1>1. CASE /\ status' = status /\ order_pool_' = [order_pool_ EXCEPT ![m] = Null]
  <2>1. m \in MOids
    BY DEF Pooled
  <2> QED
    BY <1>1, <2>1 DEF Book, PoolTypes, Pooled
<1>2. CASE /\ Len(orders_at_price[LevelAt(order_pool_[m].price)]) = 1
           /\ next_entry_[LevelAt(order_pool_[m].price)] = Null
           /\ Die("segv")
  BY <1>2 DEF Die, bookVars
<1> QED
  BY <1>1, <1>2 DEF removeOrder

\* The ring that the code keeps sorted.
LEMMA TheRing ==
  ASSUME IInv
  PROVE  \E R \in SUBSET Levels :
           /\ Ring(R) /\ Sorted(R) /\ SellsOnly(R) /\ LinkedOn(R)
           /\ R \subseteq Prices /\ R \subseteq Int
           /\ asks_at_price_ \in OrNull(R)
<1>1. PICK R \in SUBSET Levels : Ring(R) /\ SellsOnly(R)
  BY DEF IInv, RingInv
<1>2. LinkedOn(R) /\ R \subseteq Prices /\ R \subseteq Int
  BY <1>1, RingIsLinked DEF IInv, Book
<1> QED
  BY <1>1, <1>2 DEF Ring

\* asks_at_price_ leads nowhere else.
LEMMA RingHoldsAskRing ==
  ASSUME NEW R \in SUBSET Prices, LinkedOn(R), asks_at_price_ \in OrNull(R)
  PROVE  AskRing \subseteq R
<1>1. \A q \in R : next_entry_[q] \in OrNull(R)
  BY DEF LinkedOn, OrNull
<1> QED
  BY <1>1 DEF AskRing

\* A SELL order that is linked stands in the ring, in the level of its own price.
LEMMA AskAtItsPrice ==
  ASSUME AsksLinked, NEW R \in SUBSET Prices, LinkedOn(R), asks_at_price_ \in OrNull(R),
         NEW n \in Pooled, order_pool_[n].side = "SELL"
  PROVE  /\ order_pool_[n].price \in R
         /\ \E i \in 1 .. Len(orders_at_price[order_pool_[n].price]) :
              orders_at_price[order_pool_[n].price][i] = n
BY RingHoldsAskRing DEF AsksLinked

\* The best order stands at the best price.
LEMMA BestAsk ==
  ASSUME AsksLinked, IInv, job.side = "BUY", asks_at_price_ # Null,
         NEW R \in SUBSET Levels, SellsOnly(R), LinkedOn(R), R \subseteq Prices,
         asks_at_price_ \in OrNull(R)
  PROVE  LET m == BestOrder
             q == orders_at_price[asks_at_price_]
         IN  /\ m \in Pooled /\ m = q[1] /\ q \in Seq(MOids) /\ 1 \in 1 .. Len(q)
             /\ asks_at_price_ \in R
             /\ order_pool_[m].price = asks_at_price_ /\ order_pool_[m].side = "SELL"
<1> DEFINE m == BestOrder
           a == asks_at_price_
           q == orders_at_price[a]
<1>1. a \in R /\ a \in Levels /\ a \in Prices /\ q \in Seq(MOids) /\ q # <<>>
  BY DEF IInv, Book, OrNull, Levels, PoolTypes
<1>2. 1 \in 1 .. Len(q) /\ m = q[1]
  BY <1>1 DEF BestOrder, Opposite
<1> HIDE DEF m
<1>3. m \in Pooled /\ priceToIndex(order_pool_[m].price) = priceToIndex(a)
  BY <1>1, <1>2 DEF IInv, Book, LevelsAndOrdersAgree
<1>4. order_pool_[m].side = "SELL"
  BY <1>1, <1>2 DEF SellsOnly
<1>5. order_pool_[m].price = a
  <2>1. order_pool_[m].price \in Levels
    BY <1>3, <1>4, AskAtItsPrice
  <2> QED
    BY <1>1, <1>3, <2>1 DEF IInv, Book, LevelsAndOrdersAgree
<1> QED
  BY <1>1, <1>2, <1>3, <1>4, <1>5 DEF m

\* checkForMatch() finds the first of the orders the incoming one crosses: the best
\* price, and the oldest there.
LEMMA BestOrderIsFirst ==
  ASSUME AsksLinked, IInv, PriorityOrder,
         job \in Job, job.phase = "match", Marketable
  PROVE  LET m == BestOrder
         IN  /\ job.side = "BUY" /\ m \in Pooled
             /\ order_pool_[m].side = "SELL" /\ order_pool_[m].price <= job.price
             /\ LevelAt(order_pool_[m].price) = asks_at_price_
             /\ next_entry_[asks_at_price_] # Null
             /\ \A n \in Pooled \ {m} : order_pool_[n].side = "SELL" =>
                  \/ order_pool_[m].price < order_pool_[n].price
                  \/ order_pool_[m].price = order_pool_[n].price /\ m < n
<1> USE NullFacts
<1> DEFINE m == BestOrder
           a == asks_at_price_
           q == orders_at_price[a]
<1>1. job.side = "BUY" /\ a # Null
  BY DEF IInv, Book, Linked, Marketable, Opposite
<1>2. PICK R \in SUBSET Levels :
        /\ Sorted(R) /\ SellsOnly(R) /\ LinkedOn(R)
        /\ R \subseteq Prices /\ R \subseteq Int /\ a \in OrNull(R)
  BY TheRing
<1>3. /\ 1 \in 1 .. Len(q) /\ m = q[1] /\ m \in Pooled /\ q \in Seq(MOids)
      /\ order_pool_[m].price = a /\ order_pool_[m].side = "SELL"
      /\ a \in R /\ a \in Levels /\ a \in Prices
  BY <1>1, <1>2, BestAsk
<1>5. job.price >= order_pool_[m].price
  BY <1>1 DEF Marketable
<1> HIDE DEF m
<1>4. order_pool_[m] \in MEOrder /\ m \in MOids /\ order_pool_[m].price \in Prices
  BY <1>3, PooledFacts DEF IInv, Book, MEOrder
<1>7. LevelAt(order_pool_[m].price) = a
  BY <1>3, LevelAtIsTheLevel DEF IInv, Book
<1>8. next_entry_[a] # Null /\ \A r \in R : a <= r
  BY <1>2, <1>3 DEF Sorted
<1>9. order_pool_[m].price <= job.price
  BY <1>4, <1>5 DEF Job, Prices
<1>10. ASSUME NEW n \in Pooled \ {m}, order_pool_[n].side = "SELL"
       PROVE  \/ order_pool_[m].price < order_pool_[n].price
              \/ order_pool_[m].price = order_pool_[n].price /\ m < n
  <2>1. /\ order_pool_[n].price \in R
        /\ \E i \in 1 .. Len(orders_at_price[order_pool_[n].price]) :
             orders_at_price[order_pool_[n].price][i] = n
    BY <1>2, <1>10, AskAtItsPrice
  <2>2. a <= order_pool_[n].price
    BY <1>8, <2>1
  <2>3. CASE order_pool_[n].price = a
    <3>1. PICK i \in 1 .. Len(q) : q[i] = n
      BY <2>1, <2>3
    <3>2. 1 < i
      BY <1>3, <3>1
    <3>3. q[1] < q[i]
      BY <1>3, <3>1, <3>2 DEF PriorityOrder
    <3> QED
      BY <1>3, <2>3, <3>1, <3>3
  <2>4. CASE order_pool_[n].price # a
    <3>1. order_pool_[n].price \in Int /\ a \in Int
      BY <1>2, <1>3, <2>1
    <3> QED
      BY <1>3, <2>2, <2>4, <3>1
  <2> QED
    BY <2>3, <2>4
<1> QED
  BY <1>1, <1>3, <1>7, <1>8, <1>9, <1>10 DEF m

\* An order that is about to rest crosses none that rests already.
LEMMA RestsCrossingNothing ==
  ASSUME AsksLinked, IInv, job \in Job, job.leaves > 0,
         job.phase = "link" \/ ~Marketable,
         NEW n \in Pooled
  PROVE  ~BuysAreMatched!Crosses(Entry(n))
<1> USE NullFacts
<1> SUFFICES ASSUME BuysAreMatched!Crosses(Entry(n)) PROVE FALSE
  OBVIOUS
<1>1. Incoming.side = job.side /\ Incoming.price = job.price
  BY DEF Incoming
<1>2. /\ job.side = "BUY" /\ order_pool_[n].side = "SELL"
      /\ order_pool_[n].price <= job.price
  BY <1>1 DEF BuysAreMatched!Crosses, Entry
<1>3. PICK R \in SUBSET Levels :
        /\ Sorted(R) /\ SellsOnly(R) /\ LinkedOn(R)
        /\ R \subseteq Prices /\ R \subseteq Int /\ asks_at_price_ \in OrNull(R)
  BY TheRing
<1>5. order_pool_[n].price \in R /\ order_pool_[n].price \in Int
  BY <1>2, <1>3, AskAtItsPrice
<1>6. asks_at_price_ # Null /\ asks_at_price_ <= order_pool_[n].price
  BY <1>3, <1>5 DEF Sorted
<1>7. asks_at_price_ \in Int
  BY <1>3, <1>6 DEF OrNull
<1>8. job.phase # "link"
  BY <1>2 DEF IInv, JobOK
<1>9. BestOrder \in Pooled /\ order_pool_[BestOrder].price = asks_at_price_
  BY <1>2, <1>3, <1>6, BestAsk
<1>10. job.price >= order_pool_[BestOrder].price
  BY <1>2, <1>5, <1>6, <1>7, <1>9 DEF Job, Prices
<1> QED
  BY <1>2, <1>6, <1>8, <1>10 DEF Marketable, Opposite

LEMMA InitMaps == Init => BuysAreMatched!Init
BY DEF Init, BuysAreMatched!Init, Resting, Incoming, Pooled, NoOrders

LEMMA AcceptArrives ==
  ASSUME IInv, NEW c \in Clients, NEW o \in OrderIds, NEW side \in Sides,
         NEW p \in Limits(side), NEW q \in Qtys, Accept(c, o, side, p, q)
  PROVE  BuysAreMatched!Arrive(side, p, q)
<1> USE NullFacts
<1>1. /\ next_market_order_id_ \in MOids /\ p \in Prices /\ q \in Nat
      /\ next_market_order_id_ \in Nat /\ MaxOrders \in Nat
  BY BookConstants DEF Accept, Limits, Prices, MOids
<1>2. job' \in Job
  BY <1>1 DEF Accept, Job, OrNull
<1>3. Incoming = Null
  BY DEF Accept, Incoming
<1>4. Incoming' = [moid |-> next_market_order_id_, side |-> side, price |-> p,
                   qty |-> q]
  BY <1>2 DEF Accept, Incoming
<1>5. next_market_order_id_ - 1 < MaxOrders
  BY <1>1 DEF MOids
<1>6. /\ next_market_order_id_' - 1 = (next_market_order_id_ - 1) + 1
      /\ (next_market_order_id_ - 1) + 1 = next_market_order_id_
  BY <1>1 DEF Accept
<1>7. UNCHANGED Resting
  BY SameResting DEF Accept, bookVars
<1> QED
  BY <1>3, <1>4, <1>5, <1>6, <1>7 DEF BuysAreMatched!Arrive

\* One iteration of match() is one trade with the first of the orders crossed.
LEMMA MatchTrades ==
  ASSUME AsksLinked, IInv, PriorityOrder, match
  PROVE  BuysAreMatched!Trade
<1> USE NullFacts
<1> DEFINE m == BestOrder
           fill == FillQty(job.leaves, order_pool_[m].qty)
<1>1. job \in Job /\ job.phase = "match" /\ Marketable /\ job.leaves > 0
  BY DEF match, Marketable, IInv, CallTypes, OrNull
<1>2. /\ job.side = "BUY" /\ m \in Pooled
      /\ order_pool_[m].side = "SELL" /\ order_pool_[m].price <= job.price
      /\ LevelAt(order_pool_[m].price) = asks_at_price_
      /\ next_entry_[asks_at_price_] # Null
      /\ \A n \in Pooled \ {m} : order_pool_[n].side = "SELL" =>
           \/ order_pool_[m].price < order_pool_[n].price
           \/ order_pool_[m].price = order_pool_[n].price /\ m < n
  BY <1>1, BestOrderIsFirst
<1>3. /\ job' = [job EXCEPT !.leaves = @ - fill]
      /\ UNCHANGED next_market_order_id_
      /\ IF fill = order_pool_[m].qty
         THEN removeOrder(m)
         ELSE order_pool_' = [order_pool_ EXCEPT ![m].qty = @ - fill]
  BY DEF match
<1> HIDE DEF m
<1>4. order_pool_[m] \in MEOrder /\ m \in MOids
  BY <1>2, PooledFacts DEF IInv, Book
<1>5. order_pool_[m].qty \in Nat \ {0} /\ job.leaves \in Nat
  BY <1>1, <1>4 DEF MEOrder, Job
<1>6. /\ fill \in Nat /\ job.leaves - fill \in Nat
      /\ fill = (IF order_pool_[m].qty < job.leaves THEN order_pool_[m].qty
                                                    ELSE job.leaves)
      /\ fill # order_pool_[m].qty => order_pool_[m].qty - fill \in Nat \ {0}
  BY <1>5 DEF FillQty
<1> HIDE DEF fill
<1>7. /\ Incoming = [moid |-> job.moid, side |-> "BUY", price |-> job.price,
                     qty |-> job.leaves]
      /\ Incoming # Null
  <2>1. Incoming = [moid |-> job.moid, side |-> "BUY", price |-> job.price,
                    qty |-> job.leaves]
    BY <1>1, <1>2 DEF Incoming
  <2>2. Incoming \in BuysAreMatched!Order
    BY <1>1, <2>1, BookConstants DEF Job, MOids, BuysAreMatched!Order, BuysAreMatched!OrderSides
  <2> QED
    BY <2>1, <2>2, NullIsNoOrder
<1>8. Incoming' = [Incoming EXCEPT !.qty = @ - fill]
  <2>1. job' \in Job
    BY <1>1, <1>3, <1>6 DEF Job
  <2> QED
    BY <1>1, <1>2, <1>3, <1>7, <2>1 DEF Incoming, Job
<1>9. Resting' = (Resting \ {Entry(m)}) \cup
        (IF fill = order_pool_[m].qty THEN {}
         ELSE {[Entry(m) EXCEPT !.qty = @ - fill]})
  <2>1. CASE fill = order_pool_[m].qty
    <3>1. Pooled' = Pooled \ {m} /\ \A n \in Pooled' : order_pool_'[n] = order_pool_[n]
      BY <1>2, <1>3, <2>1, RemoveOrderFrees DEF IInv
    <3> QED
      BY <1>2, <2>1, <3>1, RestingWithout
  <2>2. CASE fill # order_pool_[m].qty
    BY <1>2, <1>3, <1>4, <1>6, <2>2, RestingWithLess DEF IInv, Book
  <2> QED
    BY <2>1, <2>2
<1>10. Entry(m) \in Resting /\ BuysAreMatched!Crosses(Entry(m))
  BY <1>2, <1>7, RestingEntries DEF Entry, BuysAreMatched!Crosses
<1>11. ASSUME NEW s \in Resting \ {Entry(m)}, BuysAreMatched!Crosses(s)
       PROVE  BuysAreMatched!Precedes(Entry(m), s)
  <2>1. PICK n \in Pooled \ {m} : s = Entry(n)
    BY RestingEntries
  <2>2. order_pool_[n].side \in Sides
    BY PooledFacts DEF IInv, Book, MEOrder
  <2>3. order_pool_[n].side = "SELL"
    BY <1>7, <1>11, <2>1, <2>2 DEF Entry, BuysAreMatched!Crosses
  <2> QED
    BY <1>2, <2>1, <2>3 DEF Entry, BuysAreMatched!Precedes
<1>12. Entry(m).qty = order_pool_[m].qty /\ Incoming.qty = job.leaves
  BY <1>7 DEF Entry
<1> QED
  BY <1>1, <1>3, <1>6, <1>7, <1>8, <1>9, <1>10, <1>11, <1>12
     DEF BuysAreMatched!Trade

\* The three ways of resting are one.
LEMMA RestRests ==
  ASSUME AsksLinked, IInv,
         RestAtLevel \/ RestAtNewLevel \/ LinkFound
  PROVE  BuysAreMatched!Rest
<1> USE NullFacts
<1>1. /\ job # Null /\ job \in Job /\ job.leaves > 0
      /\ job.phase = "link" \/ ~Marketable
  BY DEF RestAtLevel, RestAtNewLevel, LinkFound, Unmatched, Searching, IInv, CallTypes,
     JobOK, OrNull
<1>2. Rest
  BY DEF RestAtLevel, RestAtNewLevel, LinkFound
<1>3. PICK o : /\ order_pool_' = [order_pool_ EXCEPT ![job.moid] = o]
               /\ o = [client |-> job.client, oid |-> job.oid, side |-> job.side,
                       price |-> job.price, qty |-> job.leaves,
                       priority |-> getNextPriority(job.price)]
  BY <1>2 DEF Rest
<1>4. o # Null
  <2>1. getNextPriority(job.price) \in Nat \ {0}
    BY <1>1, PriorityIsPositive DEF IInv, Book, Job
  <2> QED
    BY <1>1, <1>3, <2>1 DEF MEOrder, Job
<1>5. /\ Incoming = [moid |-> job.moid, side |-> job.side, price |-> job.price,
                     qty |-> job.leaves]
      /\ Incoming # Null
  <2>1. Incoming = [moid |-> job.moid, side |-> job.side, price |-> job.price,
                    qty |-> job.leaves]
    BY <1>1 DEF Incoming
  <2>2. Incoming \in BuysAreMatched!Order
    BY <1>1, <2>1, BookConstants DEF Job, MOids, BuysAreMatched!Order, BuysAreMatched!OrderSides
  <2> QED
    BY <2>1, <2>2, NullIsNoOrder
<1>6. Resting' = Resting \cup {Incoming}
  <2>1. job.moid \in MOids /\ job.moid \notin Pooled
    BY <1>1 DEF IInv, JobOK, Job
  <2>2. Resting' = Resting \cup
          {[moid |-> job.moid, side |-> o.side, price |-> o.price, qty |-> o.qty]}
    BY <1>3, <1>4, <2>1, RestingWithMore DEF IInv, Book
  <2> QED
    BY <1>3, <1>5, <2>2
<1>7. \A r \in Resting : ~BuysAreMatched!Crosses(r)
  BY <1>1, RestsCrossingNothing, RestingEntries
<1>8. Incoming' = Null /\ UNCHANGED next_market_order_id_
  BY <1>2 DEF Rest, Incoming
<1>9. Incoming.qty # 0
  BY <1>1, <1>5 DEF Job
<1> QED
  BY <1>5, <1>6, <1>7, <1>8, <1>9 DEF BuysAreMatched!Rest

LEMMA CompleteRests ==
  ASSUME IInv, Complete
  PROVE  BuysAreMatched!Rest
<1> USE NullFacts
<1>1. job \in Job /\ job # Null /\ job.leaves = 0 /\ job' = Null
      /\ UNCHANGED <<bookVars, next_market_order_id_>>
  BY DEF Complete, Unmatched, IInv, CallTypes, OrNull
<1>2. Incoming = [moid |-> job.moid, side |-> job.side, price |-> job.price, qty |-> 0]
  BY <1>1 DEF Incoming
<1>3. Incoming \in BuysAreMatched!Order
  BY <1>1, <1>2, BookConstants DEF Job, MOids, BuysAreMatched!Order, BuysAreMatched!OrderSides
<1>4. Incoming # Null /\ Incoming.qty = 0 /\ Incoming' = Null
  BY <1>1, <1>2, <1>3, NullIsNoOrder DEF Incoming
<1>5. UNCHANGED Resting
  BY <1>1, SameResting DEF bookVars
<1> QED
  BY <1>1, <1>4, <1>5 DEF BuysAreMatched!Rest

\* The search for a level is invisible.
LEMMA SearchStutters ==
  ASSUME IInv, SearchLevel \/ SearchNext
  PROVE  UNCHANGED <<Resting, Incoming, next_market_order_id_>>
<1> USE NullFacts
<1>1. job \in Job /\ job # Null
  BY DEF SearchLevel, SearchNext, Unmatched, Searching, IInv, CallTypes, OrNull
<1>2. PICK t \in OrNull(Prices) : job' = [job EXCEPT !.phase = "link", !.target = t]
  <2>1. CASE SearchLevel
    <3>1. Best(job.side) \in Prices
      BY <2>1 DEF SearchLevel, Best, IInv, Book, PointerTypes, OrNull
    <3> QED
      BY <2>1, <3>1 DEF SearchLevel, IInv, Book, PointerTypes
  <2>2. CASE SearchNext
    <3>1. job.target \in Prices /\ job.phase = "link"
      BY <1>1, <2>2 DEF SearchNext, Searching, Job
    <3>2. job' = [job EXCEPT !.phase = "link", !.target = next_entry_[job.target]]
      BY <1>1, <2>2, <3>1 DEF SearchNext, Job
    <3> QED
      BY <3>1, <3>2 DEF IInv, Book, PointerTypes
  <2> QED
    BY <2>1, <2>2
<1>3. job' \in Job
  BY <1>1, <1>2 DEF Job, OrNull
<1>4. UNCHANGED Incoming
  BY <1>1, <1>2, <1>3 DEF Incoming, Job
<1>5. UNCHANGED order_pool_ /\ UNCHANGED next_market_order_id_
  BY DEF SearchLevel, SearchNext, bookVars
<1> QED
  BY <1>4, <1>5, SameResting

\* A cancel takes out the order it was asked to, unless the process dies in it.
LEMMA CancelCancels ==
  ASSUME IInv, NEW c \in Clients, NEW o \in OrderIds, Cancel(c, o)
  PROVE  \/ BuysAreMatched!Cancel
         \/ UNCHANGED <<Resting, Incoming, next_market_order_id_>>
<1> DEFINE m == cid_oid_to_order_[c][o]
<1>1. /\ m \in Pooled /\ removeOrder(m) /\ job = Null
      /\ UNCHANGED job /\ UNCHANGED next_market_order_id_
  BY DEF Cancel, IInv, Book, CidMapSound
<1> HIDE DEF m
<1>2. Incoming = Null /\ Incoming' = Null
  BY <1>1 DEF Incoming
<1>3. CASE Pooled' = Pooled \ {m} /\ \A n \in Pooled' : order_pool_'[n] = order_pool_[n]
  <2>1. Resting' = Resting \ {Entry(m)} /\ Entry(m) \in Resting
    BY <1>1, <1>3, RestingWithout, RestingEntries
  <2> QED
    BY <1>1, <1>2, <2>1 DEF BuysAreMatched!Cancel
<1>4. CASE UNCHANGED order_pool_
  BY <1>1, <1>2, <1>4, SameResting
<1> QED
  BY <1>1, <1>3, <1>4, RemoveOrderFrees DEF IInv

LEMMA DestroyCloses ==
  ASSUME SidesKnown, Destroy
  PROVE  \/ BuysAreMatched!Close
         \/ UNCHANGED <<Resting, Incoming, next_market_order_id_>>
<1>1. /\ Incoming = Null /\ Incoming' = Null /\ UNCHANGED next_market_order_id_
  BY DestroyCases DEF Incoming
<1>2. CASE Close
  <2>1. Resting' = {}
    BY <1>2, CloseEmpties DEF Resting
  <2> QED
    BY <1>1, <2>1 DEF BuysAreMatched!Close
<1>3. CASE UNCHANGED bookVars
  BY <1>1, <1>3, SameResting DEF bookVars
<1> QED
  BY <1>2, <1>3, DestroyCases

\* A step of the book is a step of PriceTimeBook, or none.
LEMMA LinkedStep ==
  ASSUME AsksLinked, IInv, PriorityOrder, [Next]_vars
  PROVE  \/ BuysAreMatched!Next
         \/ UNCHANGED <<Resting, Incoming, next_market_order_id_>>
<1>1. ASSUME NEW c \in Clients, NEW o \in OrderIds, NEW side \in Sides,
             NEW p \in Limits(side), NEW q \in Qtys, Accept(c, o, side, p, q)
      PROVE  BuysAreMatched!Next
  <2>1. p \in Prices /\ side \in BuysAreMatched!OrderSides
    BY BookConstants DEF Limits, Prices, BuysAreMatched!OrderSides
  <2> QED
    BY <1>1, <2>1, AcceptArrives DEF BuysAreMatched!Next
<1>2. ASSUME NEW c \in Clients, NEW o \in OrderIds, Cancel(c, o)
      PROVE  \/ BuysAreMatched!Next
             \/ UNCHANGED <<Resting, Incoming, next_market_order_id_>>
  BY <1>2, CancelCancels DEF BuysAreMatched!Next
<1>3. CASE match
  BY <1>3, MatchTrades DEF BuysAreMatched!Next
<1>4. CASE RestAtLevel \/ RestAtNewLevel \/ LinkFound
  BY <1>4, RestRests DEF BuysAreMatched!Next
<1>5. CASE Complete
  BY <1>5, CompleteRests DEF BuysAreMatched!Next
<1>6. CASE SearchLevel \/ SearchNext
  BY <1>6, SearchStutters
<1>7. CASE Destroy
  BY <1>7, DestroyCloses DEF IInv, Book, BuysAreMatched!Next
<1>8. CASE \/ \E c \in Clients, o \in OrderIds : CancelReject(c, o)
           \/ Crash \/ UNCHANGED vars
  <2>1. UNCHANGED <<job, order_pool_, next_market_order_id_>>
    BY <1>8 DEF CancelReject, Crash, Die, vars, bookVars
  <2> QED
    BY <2>1, SameResting DEF Incoming
<1> QED
  BY <1>1, <1>2, <1>3, <1>4, <1>5, <1>6, <1>7, <1>8 DEF Next, Step

\* While every resting SELL order can be reached at its price, what the book does is
\* what PriceTimeBook does: every arriving BUY order trades with the lowest price first
\* and there with the order accepted first, a limit equal to the price included, fills
\* are min(leaves, qty), what is left rests only when it crosses nothing, and cancel()
\* takes out one order (checkForMatch(), match(), removeOrder(), addOrder()).
THEOREM PriceTimePriority == LimitsApart => (Spec => PriceTimeWhileLinked)
<1> SUFFICES ASSUME LimitsApart PROVE Spec => PriceTimeWhileLinked
  OBVIOUS
<1>1. IInv /\ PriorityOrder /\ [Next]_vars =>
        [AsksLinked => BuysAreMatched!Next]_(BuysAreMatched!vars)
  BY LinkedStep DEF BuysAreMatched!vars
<1>2. Spec => []IInv /\ []PriorityOrder
  BY Invariance, TimePriority
<1> QED
  BY <1>1, <1>2, PTL DEF Spec, PriceTimeWhileLinked

\* So a book that never loses an ask implements PriceTimeBook for arriving BUY orders.
THEOREM LinkedBookKeepsPriceTime ==
  LimitsApart => (Spec /\ []AsksLinked => ImplementsPriceTimeBook)
<1> SUFFICES ASSUME LimitsApart PROVE Spec /\ []AsksLinked => ImplementsPriceTimeBook
  OBVIOUS
<1>1. Init => BuysAreMatched!Init
  BY InitMaps
<1>2. Spec => PriceTimeWhileLinked
  BY PriceTimePriority
<1>3. AsksLinked /\ [AsksLinked => BuysAreMatched!Next]_(BuysAreMatched!vars)
        => [BuysAreMatched!Next]_(BuysAreMatched!vars)
  OBVIOUS
<1> QED
  BY <1>1, <1>2, <1>3, PTL
     DEF Spec, PriceTimeWhileLinked, ImplementsPriceTimeBook, BuysAreMatched!Spec

\* From the best level on, next_entry_ leads to every ask level when they are all in
\* the sorted ring.
LEMMA RingIsReached ==
  ASSUME NEW R \in SUBSET Prices, R \subseteq Int, Sorted(R), LinkedOn(R),
         asks_at_price_ \in OrNull(R)
  PROVE  R \subseteq AskRing
<1> USE NullFacts
<1> DEFINE a == asks_at_price_
<1> SUFFICES ASSUME NEW S \in SUBSET Prices, a \in OrNull(S),
                    \A q \in S : next_entry_[q] \in OrNull(S), ~(R \subseteq S)
             PROVE  FALSE
  BY DEF AskRing
<1>1. a \in R /\ a \in S /\ a \in Int /\ \A p \in R : p \in Int /\ a <= p
  BY DEF Sorted, OrNull
<1> DEFINE missed == R \ S
           far == {n \in Nat : \E p \in missed : n = p - a}
<1>2. far # {} /\ far \subseteq Nat
  <2>1. PICK p \in missed : TRUE
    OBVIOUS
  <2>2. p - a \in Nat
    BY <1>1, <2>1
  <2> QED
    BY <2>1, <2>2
<1>3. PICK x \in far : \A y \in far : ~(<<y, x>> \in OpToRel(<, Nat))
  BY <1>2, NatLessThanWellFounded, WFMin
<1>4. \A y \in far : ~(y < x)
  BY <1>2, <1>3 DEF OpToRel
<1>5. PICK p \in missed : x = p - a
  OBVIOUS
<1>6. p \in R /\ p \notin S /\ p # a
  BY <1>1, <1>5
<1> DEFINE b == prev_entry_[p]
<1>7. b \in R /\ b < p /\ next_entry_[b] \in {p, Null} /\ b \in Int /\ p \in Int
  BY <1>1, <1>6 DEF Sorted, LinkedOn
<1>8. b \in S
  <2> SUFFICES ASSUME b \in missed PROVE FALSE
    BY <1>7
  <2>1. b - a \in Nat /\ b - a < x
    BY <1>1, <1>5, <1>7
  <2> QED
    BY <1>4, <2>1
<1>9. next_entry_[b] # Null
  <2>1. next_entry_[b] = Null => p <= b
    BY <1>6, <1>7 DEF Sorted
  <2> QED
    BY <1>7, <2>1
<1>10. next_entry_[b] = p
  BY <1>7, <1>9
<1>11. p \in S
  BY <1>6, <1>8, <1>10 DEF OrNull
<1> QED
  BY <1>6, <1>11

\* When BUY orders share no level with SELL orders and no two SELL limits share one,
\* no ask is ever lost to matching (me_order_book.h:63-134,149-169).
THEOREM AsksStayLinked ==
  OneSided /\ SellsApart /\ SidesKnown => (Spec => []AsksLinked)
<1> SUFFICES ASSUME OneSided, SellsApart, SidesKnown PROVE Spec => []AsksLinked
  OBVIOUS
<1>1. ASSUME IInv PROVE AsksLinked
  <2> USE <1>1
  <2>1. AskLevels \subseteq AskRing
    <3>1. AskLevels \subseteq Int
      BY NullFacts DEF AskLevels, Levels
    <3> QED
      BY <3>1, AsksAreTheRing, RingIsReached
  <2> SUFFICES ASSUME NEW m \in Pooled, order_pool_[m].side # "BUY"
               PROVE  LET p == order_pool_[m].price
                      IN  /\ order_pool_[m].side = "SELL"
                          /\ p \in AskRing
                          /\ \E i \in 1 .. Len(orders_at_price[p]) :
                               orders_at_price[p][i] = m
    BY DEF AsksLinked
  <2> DEFINE p == LevelAt(order_pool_[m].price)
  <2>2. /\ order_pool_[m] \in MEOrder /\ p \in Levels
        /\ priceToIndex(order_pool_[m].price) = priceToIndex(p)
        /\ \E i \in 1 .. Len(orders_at_price[p]) : orders_at_price[p][i] = m
    BY PooledFacts DEF IInv, Book
  <2> HIDE DEF p
  <2>3. order_pool_[m].side = "SELL"
    BY <2>2 DEF MEOrder, SidesKnown
  <2>4. order_pool_[m].price \in SellPrices /\ p \in SellPrices
    BY <2>3, LevelOfSide DEF IInv, Book, SidesApart, Limits, p
  <2>5. p = order_pool_[m].price
    BY <2>2, <2>4 DEF SellsApart
  <2> QED
    BY <2>1, <2>2, <2>3, <2>4, <2>5 DEF AskLevels
<1>2. Spec => []IInv
  BY Invariance DEF LimitsApart
<1> QED
  BY <1>1, <1>2, PTL
===============================================================================
