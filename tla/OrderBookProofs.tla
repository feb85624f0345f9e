--------------------------- MODULE OrderBookProofs ---------------------------
(***************************************************************************)
(* Proofs about OrderBook, for every set of clients, ids, prices and       *)
(* quantities, every number of orders and every size of the two pools.     *)
(*                                                                         *)
(* The types, the agreement of pool and levels, and the soundness of the   *)
(* clients' map cannot be proved apart from one another, nor without what  *)
(* the code assumes of the ring of levels whenever it follows one of its   *)
(* pointers: IInv is their conjunction.  The code assumes most when a BUY  *)
(* order and a SELL order share a level: removeOrdersAtPrice() looks at    *)
(* the side of the last order that leaves, so asks_at_price_ would keep    *)
(* pointing at a level of the ring that a BUY order left last.  That no    *)
(* BUY order ever rests in the ring follows from its being sorted, and     *)
(* from LimitsApart.                                                       *)
(***************************************************************************)
EXTENDS OrderBook, TLAPS, WellFoundedInduction, FiniteSetTheorems

\* No two SELL limits share an index, as when all of them lie within
\* ME_MAX_PRICE_LEVELS of each other.
SellsApart == \A p, q \in SellPrices : priceToIndex(p) = priceToIndex(q) => p = q

\* No client sends Side::INVALID, whose levels add() links unsorted.
SidesKnown == Sides \subseteq {"BUY", "SELL"}

\* What the orders of the clients have to be like: no level is ever shared by the
\* two sides, or none by two SELL limits.
LimitsApart == (OneSided \/ SellsApart) /\ SidesKnown

\* The sides keep to their own prices.
SidesApart == \A m \in Pooled : order_pool_[m].price \in Limits(order_pool_[m].side)

\* Market order ids are handed out once.
FreshIds == \A m \in Pooled : m < next_market_order_id_

\* The pointers of the levels in S lead to levels in S, no two of them have one
\* prev_entry_, and it is the inverse of next_entry_ wherever that is not null.
LinkedOn(S) ==
  \A p \in S :
    /\ prev_entry_[p] \in S
    /\ next_entry_[prev_entry_[p]] \in {p, Null}
    /\ next_entry_[p] # Null => next_entry_[p] \in S /\ prev_entry_[next_entry_[p]] = p
    /\ \A q \in S : prev_entry_[p] = prev_entry_[q] => p = q

\* That holds of all levels in use, whichever ring they are in.
Linked ==
  /\ bids_at_price_ = Null
  /\ LinkedOn(Levels)
  /\ \A p \in Levels \ SellPrices : prev_entry_[p] = p /\ next_entry_[p] = p

\* What prev_entry_ is in the ring R of asks_at_price_: of the best level the
\* worst, of any other the next better one.  A level without a next_entry_ is
\* the worst and not the best.
Sorted(R) ==
  /\ asks_at_price_ = Null => R = {}
  /\ \A p \in R :
       /\ asks_at_price_ <= p
       /\ p # asks_at_price_ =>
            prev_entry_[p] < p /\ \A q \in R : q < p => q <= prev_entry_[p]
       /\ p = asks_at_price_ => \A q \in R : q <= prev_entry_[p]
       /\ next_entry_[p] = Null => p # asks_at_price_ /\ \A q \in R : q <= p

\* R is the ring that asks_at_price_ leads to.  Besides it there are the levels
\* that BUY orders made, each a ring of its own, and the levels that
\* asks_at_price_ has lost when a SELL order was the last to leave one of those.
Ring(R) ==
  /\ R \subseteq AskLevels
  /\ asks_at_price_ \in OrNull(R)
  /\ \A p \in Levels : prev_entry_[p] \in R <=> p \in R
  /\ Sorted(R)
  /\ OneSided => R = AskLevels

\* No BUY order rests in the ring.
SellsOnly(R) ==
  \A p \in R : \A i \in 1 .. Len(orders_at_price[p]) :
    order_pool_[orders_at_price[p][i]].side = "SELL"

\* The search of addOrdersAtPrice() stands in the ring, and has passed only levels
\* that are better than the new one, and all of them once it is round or off the
\* open end.
SearchIn(R) ==
  (job # Null /\ job.phase = "link") =>
    /\ job.target \in OrNull(R)
    /\ \A p \in R :
         (job.target \in {Null, asks_at_price_} \/ p < job.target) => p < job.price

RingInv == \E R \in SUBSET Levels : Ring(R) /\ SellsOnly(R) /\ SearchIn(R)

\* No level is found under the index of p.
HasNoLevel(p) == \A q \in Levels : priceToIndex(q) # priceToIndex(p)

\* Between two steps of add(): the new order is not in the book yet, and the
\* search stands at a level it reached through that level's predecessor.
JobOK ==
  job # Null =>
    /\ job.price \in Limits(job.side)
    /\ job.moid < next_market_order_id_ /\ job.moid \notin Pooled
    /\ job.phase = "link" =>
         /\ job.leaves > 0 /\ job.side = "SELL" /\ HasNoLevel(job.price)
         /\ asks_at_price_ # Null /\ job.price > asks_at_price_
         /\ job.target # Null => next_entry_[prev_entry_[job.target]] = job.target

PointerTypes ==
  /\ prev_entry_ \in [Prices -> OrNull(Prices)]
  /\ next_entry_ \in [Prices -> OrNull(Prices)]
  /\ bids_at_price_ \in OrNull(Prices)
  /\ asks_at_price_ \in OrNull(Prices)

PoolTypes ==
  /\ status \in Statuses
  /\ order_pool_ \in [MOids -> OrNull(MEOrder)]
  /\ orders_at_price \in [Prices -> Seq(MOids)]
  /\ cid_oid_to_order_ \in [Clients -> [OrderIds -> OrNull(MOids)]]

Book ==
  /\ SidesKnown
  /\ PoolTypes /\ PointerTypes
  /\ LevelsAndOrdersAgree
  /\ CidMapSound
  /\ SidesApart
  /\ Linked

CallTypes ==
  /\ job \in OrNull(Job)
  /\ next_market_order_id_ \in 1 .. MaxOrders + 1

MessageTypes == resp \in Seq(ClientResponses) /\ upd \in Seq(MarketUpdates)

IInv == CallTypes /\ MessageTypes /\ Book /\ FreshIds /\ JobOK /\ RingInv

(* Constants.                                                                  *)

\* nullptr is no price, no market order id, no order and no call in progress.
LEMMA NullFacts ==
  /\ Prices \subseteq Int /\ Null \notin Prices
  /\ MOids \subseteq Nat /\ Null \notin MOids
  /\ Null \notin MEOrder /\ Null \notin Job
<1>1. Null \notin Int /\ Null \notin MEOrder /\ Null \notin Job
  BY NullIsNoValue
<1>2. Prices \subseteq Int
  BY BookConstants DEF Prices
<1>3. MOids \subseteq Nat /\ MOids \subseteq Int
  BY BookConstants DEF MOids
<1> QED
  BY <1>1, <1>2, <1>3

\* The level of a price belongs to the side the price belongs to.
LEMMA SidesDisjoint ==
  ASSUME OneSided, NEW side \in Sides, NEW p \in Limits(side),
         NEW q \in Prices, priceToIndex(q) = priceToIndex(p)
  PROVE  q \in Limits(side) /\ (side = "BUY" => q \notin SellPrices)
<1>1. CASE side = "BUY"
  <2>1. p \in BuyPrices
    BY <1>1 DEF Limits
  <2>2. q \notin SellPrices
    BY <2>1 DEF OneSided
  <2> QED
    BY <1>1, <2>2 DEF Limits, Prices
<1>2. CASE side # "BUY"
  <2>1. p \in SellPrices
    BY <1>2 DEF Limits
  <2>2. q \notin BuyPrices
    BY <2>1 DEF OneSided
  <2> QED
    BY <1>2, <2>2 DEF Limits, Prices
<1> QED
  BY <1>1, <1>2

-------------------------------------------------------------------------------
(* The queue of a level.                                                       *)

\* getOrdersAtPrice() finds a level with the index of p, or there is none.
LEMMA LevelAtFacts ==
  ASSUME NEW p \in Prices
  PROVE  /\ LevelAt(p) \in Prices /\ priceToIndex(LevelAt(p)) = priceToIndex(p)
         /\ LevelAt(p) \notin Levels => LevelAt(p) = p /\ HasNoLevel(p)
<1> DEFINE found == {q \in Prices : /\ priceToIndex(q) = priceToIndex(p)
                                    /\ orders_at_price[q] # <<>>}
<1>1. LevelAt(p) = IF found = {} THEN p ELSE CHOOSE q \in found : TRUE
  BY DEF LevelAt
<1>2. CASE found = {}
  <2>1. LevelAt(p) = p /\ \A q \in Prices :
          priceToIndex(q) = priceToIndex(p) => orders_at_price[q] = <<>>
    BY <1>1, <1>2
  <2> QED
    BY <2>1 DEF HasNoLevel, Levels
<1>3. CASE found # {}
  <2>1. LevelAt(p) \in found
    BY <1>1, <1>3
  <2> QED
    BY <2>1 DEF Levels
<1> QED
  BY <1>2, <1>3

\* It finds the only one.
LEMMA LevelAtIsTheLevel ==
  ASSUME LevelsAndOrdersAgree, NEW p \in Prices, NEW q \in Levels,
         priceToIndex(q) = priceToIndex(p)
  PROVE  LevelAt(p) = q
<1>1. LevelAt(p) \in Levels /\ priceToIndex(LevelAt(p)) = priceToIndex(q)
  BY LevelAtFacts DEF HasNoLevel
<1> QED
  BY <1>1 DEF LevelsAndOrdersAgree

\* What Unlink returns for a queue that holds m once, at place k.
LEMMA UnlinkAt ==
  ASSUME NEW q \in Seq(MOids), NEW k \in 1 .. Len(q),
         \A i \in 1 .. Len(q) : q[i] = q[k] => i = k
  PROVE  /\ Unlink(q, q[k]) \in Seq(MOids)
         /\ Len(Unlink(q, q[k])) = Len(q) - 1
         /\ \A i \in 1 .. Len(q) - 1 :
              Unlink(q, q[k])[i] = IF i < k THEN q[i] ELSE q[i + 1]
<1> DEFINE u == [i \in 1 .. Len(q) - 1 |-> IF i < k THEN q[i] ELSE q[i + 1]]
<1>1. (CHOOSE i \in 1 .. Len(q) : q[i] = q[k]) = k
  OBVIOUS
<1>2. Unlink(q, q[k]) = u
  BY <1>1 DEF Unlink
<1>3. u \in Seq(MOids) /\ Len(u) = Len(q) - 1
  OBVIOUS
<1> QED
  BY <1>2, <1>3

\* removeOrder() takes m out of its level and leaves the others there, once each.
LEMMA UnlinkKeepsOthers ==
  ASSUME NEW q \in Seq(MOids), NEW m \in MOids,
         \E k \in 1 .. Len(q) : q[k] = m,
         \A i, j \in 1 .. Len(q) : q[i] = q[j] => i = j
  PROVE  LET u == Unlink(q, m)
         IN  /\ u \in Seq(MOids)
             /\ u = <<>> <=> Len(q) = 1
             /\ \A i \in 1 .. Len(u) :
                  u[i] # m /\ \E j \in 1 .. Len(q) : q[j] = u[i]
             /\ \A i, j \in 1 .. Len(u) : u[i] = u[j] => i = j
             /\ \A j \in 1 .. Len(q) :
                  q[j] # m => \E i \in 1 .. Len(u) : u[i] = q[j]
<1> PICK k \in 1 .. Len(q) : q[k] = m
  OBVIOUS
<1> DEFINE u == Unlink(q, m)
<1>1. /\ u \in Seq(MOids) /\ Len(u) = Len(q) - 1
      /\ \A i \in 1 .. Len(q) - 1 : i < k => u[i] = q[i]
      /\ \A i \in 1 .. Len(q) - 1 : ~(i < k) => u[i] = q[i + 1]
      /\ Len(q) \in Nat /\ k \in 1 .. Len(q)
  BY UnlinkAt
<1> HIDE DEF u
<1>2. u = <<>> <=> Len(q) = 1
  BY <1>1
<1>3. \A i \in 1 .. Len(u) : u[i] # m /\ \E j \in 1 .. Len(q) : q[j] = u[i]
  <2> TAKE i \in 1 .. Len(u)
  <2>1. CASE i < k
    BY <1>1, <2>1
  <2>2. CASE ~(i < k)
    <3>1. u[i] = q[i + 1] /\ i + 1 \in 1 .. Len(q) /\ i + 1 # k
      BY <1>1, <2>2
    <3> QED
      BY <3>1
  <2> QED
    BY <2>1, <2>2
<1>4. \A i, j \in 1 .. Len(u) : u[i] = u[j] => i = j
  <2> TAKE i, j \in 1 .. Len(u)
  <2>1. CASE i < k /\ j < k
    <3>1. i \in 1 .. Len(q) /\ u[i] = q[i]
      BY <1>1, <2>1
    <3>2. j \in 1 .. Len(q) /\ u[j] = q[j]
      BY <1>1, <2>1
    <3> QED
      BY <3>1, <3>2
  <2>2. CASE i < k /\ ~(j < k)
    BY <1>1, <2>2
  <2>3. CASE ~(i < k) /\ j < k
    BY <1>1, <2>3
  <2>4. CASE ~(i < k) /\ ~(j < k)
    <3>1. u[i] = q[i + 1] /\ i + 1 \in 1 .. Len(q)
      BY <1>1, <2>4
    <3>2. u[j] = q[j + 1] /\ j + 1 \in 1 .. Len(q)
      BY <1>1, <2>4
    <3>3. u[i] = u[j] => i + 1 = j + 1
      BY <3>1, <3>2
    <3> QED
      BY <3>3
  <2> QED
    BY <2>1, <2>2, <2>3, <2>4
<1>5. \A j \in 1 .. Len(q) : q[j] # m => \E i \in 1 .. Len(u) : u[i] = q[j]
  <2> SUFFICES ASSUME NEW j \in 1 .. Len(q), q[j] # m
               PROVE  \E i \in 1 .. Len(u) : u[i] = q[j]
    OBVIOUS
  <2>1. CASE j < k
    BY <1>1, <2>1
  <2>2. CASE j > k
    <3>1. j - 1 \in 1 .. Len(u) /\ ~(j - 1 < k) /\ (j - 1) + 1 = j
      BY <1>1, <2>2
    <3>2. u[j - 1] = q[j]
      BY <1>1, <3>1
    <3> QED
      BY <3>1, <3>2
  <2> QED
    BY <2>1, <2>2
<1> QED
  BY <1>1, <1>2, <1>3, <1>4, <1>5 DEF u

\* removeOrder() does not change the order of those it leaves.
LEMMA UnlinkKeepsOrder ==
  ASSUME NEW q \in Seq(MOids), NEW m \in MOids,
         \E k \in 1 .. Len(q) : q[k] = m,
         \A i, j \in 1 .. Len(q) : q[i] = q[j] => i = j
  PROVE  LET u == Unlink(q, m)
         IN  \A i, j \in 1 .. Len(u) : i < j =>
               \E a, b \in 1 .. Len(q) : a < b /\ q[a] = u[i] /\ q[b] = u[j]
<1> PICK k \in 1 .. Len(q) : q[k] = m
  OBVIOUS
<1> DEFINE u == Unlink(q, m)
<1>1. /\ u \in Seq(MOids) /\ Len(u) = Len(q) - 1
      /\ \A i \in 1 .. Len(q) - 1 : i < k => u[i] = q[i]
      /\ \A i \in 1 .. Len(q) - 1 : ~(i < k) => u[i] = q[i + 1]
      /\ Len(q) \in Nat /\ k \in 1 .. Len(q)
  BY UnlinkAt
<1> HIDE DEF u
<1> SUFFICES ASSUME NEW i \in 1 .. Len(u), NEW j \in 1 .. Len(u), i < j
             PROVE  \E a, b \in 1 .. Len(q) : a < b /\ q[a] = u[i] /\ q[b] = u[j]
  BY DEF u
<1>2. CASE j < k
  <2>1. i \in 1 .. Len(q) /\ q[i] = u[i]
    BY <1>1, <1>2
  <2>2. j \in 1 .. Len(q) /\ q[j] = u[j]
    BY <1>1, <1>2
  <2> QED
    BY <2>1, <2>2
<1>3. CASE i < k /\ ~(j < k)
  <2>1. /\ i \in 1 .. Len(q) /\ j + 1 \in 1 .. Len(q) /\ i < j + 1
        /\ q[i] = u[i] /\ q[j + 1] = u[j]
    BY <1>1, <1>3
  <2> QED
    BY <2>1
<1>4. CASE ~(i < k)
  <2>1. /\ i + 1 \in 1 .. Len(q) /\ j + 1 \in 1 .. Len(q) /\ i + 1 < j + 1
        /\ q[i + 1] = u[i] /\ q[j + 1] = u[j]
    BY <1>1, <1>4
  <2> QED
    BY <2>1
<1> QED
  BY <1>2, <1>3, <1>4

-------------------------------------------------------------------------------
(* The ring of levels.                                                         *)
-------------------------------------------------------------------------------
(* The pointers of the levels.                                                 *)

\* removeOrdersAtPrice(): the levels stay linked when one of them goes.
LEMMA RemoveLevelKeepsLinked ==
  ASSUME SidesKnown, PointerTypes, Linked, NEW side \in Sides, NEW p \in Levels,
         next_entry_[p] # Null,
         removeOrdersAtPrice(side, p), Levels' = Levels \ {p}
  PROVE  PointerTypes' /\ Linked'
<1> DEFINE before == prev_entry_[p]
           after  == next_entry_[p]
<1> USE NullFacts DEF PointerTypes, OrNull
<1>0. /\ Levels \subseteq Prices /\ p \in Prices /\ side \in {"BUY", "SELL"}
      /\ before \in Levels /\ after \in Levels /\ prev_entry_[after] = p
      /\ bids_at_price_' = Null
  BY DEF SidesKnown, Levels, Linked, LinkedOn, removeOrdersAtPrice, SetBest
<1>1. CASE after = p
  <2>1. /\ prev_entry_' = [prev_entry_ EXCEPT ![p] = Null]
        /\ next_entry_' = [next_entry_ EXCEPT ![p] = Null]
        /\ asks_at_price_' \in {Null, asks_at_price_}
    BY <1>1 DEF removeOrdersAtPrice, SetBest
  <2>2. \A q \in Levels' : /\ q \in Levels /\ q # p
                           /\ prev_entry_[q] # p /\ next_entry_[q] # p
                           /\ prev_entry_'[q] = prev_entry_[q]
                           /\ next_entry_'[q] = next_entry_[q]
    BY <1>0, <1>1, <2>1 DEF Linked, LinkedOn
  <2>3. PointerTypes'
    BY <1>0, <2>1
  <2>4. \A q \in Levels' : prev_entry_[q] \in Levels'
    BY <1>0, <2>2 DEF Linked, LinkedOn
  <2>5. \A q \in Levels' : next_entry_[q] # Null => next_entry_[q] \in Levels'
    BY <1>0, <2>2 DEF Linked, LinkedOn
  <2>6. LinkedOn(Levels)'
    BY <2>2, <2>4, <2>5 DEF Linked, LinkedOn
  <2>7. \A q \in (Levels \ SellPrices)' : prev_entry_'[q] = q /\ next_entry_'[q] = q
    BY <1>0, <2>2 DEF Linked
  <2> QED
    BY <1>0, <2>3, <2>6, <2>7 DEF Linked
<1>2. CASE after # p
  <2>1. before # p
    BY <1>0, <1>2 DEF Linked, LinkedOn
  <2>2. /\ next_entry_' = [next_entry_ EXCEPT ![before] = after, ![p] = Null]
        /\ prev_entry_' = [prev_entry_ EXCEPT ![after] = before, ![p] = Null]
        /\ asks_at_price_' \in {after, asks_at_price_}
    BY <1>2 DEF removeOrdersAtPrice, SetBest
  <2>3. PointerTypes'
    BY <1>0, <2>2
  <2>4. ASSUME NEW q \in Levels'
        PROVE  /\ prev_entry_'[q] = IF q = after THEN before ELSE prev_entry_[q]
               /\ next_entry_'[q] = IF q = before THEN after ELSE next_entry_[q]
               /\ q # after => prev_entry_[q] # p /\ prev_entry_[q] # before
               /\ q # before => next_entry_[q] # p
    BY <1>0, <2>1, <2>2 DEF Linked, LinkedOn
  <2>5. ASSUME NEW q \in Levels'
        PROVE  /\ prev_entry_'[q] \in Levels'
               /\ next_entry_'[prev_entry_'[q]] \in {q, Null}
               /\ next_entry_'[q] # Null =>
                    /\ next_entry_'[q] \in Levels'
                    /\ prev_entry_'[next_entry_'[q]] = q
               /\ \A r \in Levels' : prev_entry_'[q] = prev_entry_'[r] => q = r
    <3>1. prev_entry_'[q] \in Levels'
      BY <1>0, <2>1, <2>4 DEF Linked, LinkedOn
    <3>2. next_entry_'[prev_entry_'[q]] \in {q, Null}
      BY <1>0, <2>1, <2>4, <3>1 DEF Linked, LinkedOn
    <3>3. next_entry_'[q] # Null => /\ next_entry_'[q] \in Levels'
                                    /\ prev_entry_'[next_entry_'[q]] = q
      <4>1. CASE q = before
        BY <1>0, <1>2, <2>1, <2>4, <4>1 DEF Linked, LinkedOn
      <4>2. CASE q # before
        <5> SUFFICES ASSUME next_entry_[q] # Null
                     PROVE  /\ next_entry_[q] \in Levels'
                            /\ prev_entry_'[next_entry_[q]] = q
          BY <2>4, <4>2
        <5>1. next_entry_[q] \in Levels /\ prev_entry_[next_entry_[q]] = q
          BY <1>0 DEF Linked, LinkedOn
        <5>2. next_entry_[q] # p /\ next_entry_[q] # after
          BY <1>0, <2>1, <2>4, <4>2, <5>1
        <5> QED
          BY <1>0, <2>4, <5>1, <5>2
      <4> QED
        BY <4>1, <4>2
    <3>4. \A r \in Levels' : prev_entry_'[q] = prev_entry_'[r] => q = r
      BY <1>0, <2>1, <2>4 DEF Linked, LinkedOn
    <3> QED
      BY <3>1, <3>2, <3>3, <3>4
  <2>6. LinkedOn(Levels)'
    BY <2>5 DEF LinkedOn
  <2>7. \A q \in (Levels \ SellPrices)' : prev_entry_'[q] = q /\ next_entry_'[q] = q
    <3> SUFFICES ASSUME NEW q \in Levels', q \notin SellPrices
                 PROVE  prev_entry_'[q] = q /\ next_entry_'[q] = q
      OBVIOUS
    <3>1. q \in Levels /\ q # p /\ prev_entry_[q] = q /\ next_entry_[q] = q
      BY DEF Linked
    <3>2. q # after
      BY <1>0, <3>1
    <3>3. q # before
      BY <1>0, <3>1 DEF Linked, LinkedOn
    <3> QED
      BY <2>4, <3>1, <3>2, <3>3
  <2> QED
    BY <1>0, <2>3, <2>6, <2>7 DEF Linked
<1> QED
  BY <1>1, <1>2

\* addOrdersAtPrice() on an empty side.
LEMMA LinkAloneKeepsLinked ==
  ASSUME PointerTypes, Linked, NEW side \in Sides, NEW p \in Prices, p \notin Levels,
         LinkAlone(side, p), Levels' = Levels \cup {p}
  PROVE  PointerTypes' /\ Linked'
<1> USE NullFacts DEF PointerTypes, OrNull
<1>0. Levels \subseteq Prices
  BY DEF Levels
<1>1. /\ prev_entry_' = [prev_entry_ EXCEPT ![p] = p]
      /\ next_entry_' = [next_entry_ EXCEPT ![p] = p]
      /\ bids_at_price_' = Null /\ asks_at_price_' \in {p, asks_at_price_}
  BY DEF LinkAlone, SetBest, Linked
<1>2. /\ prev_entry_'[p] = p /\ next_entry_'[p] = p
      /\ \A q \in Levels : /\ prev_entry_'[q] = prev_entry_[q]
                           /\ next_entry_'[q] = next_entry_[q]
                           /\ prev_entry_[q] \in Levels
                           /\ next_entry_[q] # Null => next_entry_[q] \in Levels
  BY <1>0, <1>1 DEF Linked, LinkedOn
<1>3. PointerTypes'
  BY <1>1
<1>4. LinkedOn(Levels)'
  BY <1>2 DEF Linked, LinkedOn
<1>5. \A q \in (Levels \ SellPrices)' : prev_entry_'[q] = q /\ next_entry_'[q] = q
  BY <1>2 DEF Linked
<1> QED
  BY <1>1, <1>3, <1>4, <1>5 DEF Linked

\* addOrdersAtPrice(), before target t: t is the best level, or the new level is
\* worse than the best.
LEMMA LinkBeforeKeepsLinked ==
  ASSUME PointerTypes, Linked,
         NEW p \in SellPrices, p \notin Levels, NEW t \in AskLevels,
         asks_at_price_ \in Levels, t = asks_at_price_ \/ p > asks_at_price_,
         LinkBefore("SELL", p, t), Levels' = Levels \cup {p}
  PROVE  PointerTypes' /\ Linked'
<1> DEFINE before == prev_entry_[t]
           linked == [next_entry_ EXCEPT ![p] = t, ![before] = p]
<1> USE NullFacts DEF PointerTypes, OrNull
<1>0. /\ p \in Prices /\ Levels \subseteq Prices
      /\ t \in Levels /\ t # p /\ before \in Levels /\ before # p
  BY DEF Prices, AskLevels, Levels, Linked, LinkedOn
<1>1. /\ prev_entry_' = [prev_entry_ EXCEPT ![p] = before, ![t] = p]
      /\ UNCHANGED bids_at_price_
      /\ asks_at_price_' \in {p, asks_at_price_}
  BY DEF LinkBefore, SetBest
<1>2. next_entry_' = linked
  <2>1. CASE t = asks_at_price_
    <3>1. linked[t] # asks_at_price_
      BY <1>0, <2>1 DEF Linked, LinkedOn
    <3> QED
      BY <3>1 DEF LinkBefore, Best
  <2>2. CASE t # asks_at_price_
    <3>1. ~Better("SELL", p, asks_at_price_)
      BY <1>0, <2>2 DEF Better
    <3> QED
      BY <3>1 DEF LinkBefore, Best
  <2> QED
    BY <2>1, <2>2
<1>3. PointerTypes'
  BY <1>0, <1>1, <1>2
<1>4. /\ prev_entry_'[p] = before /\ next_entry_'[p] = t
      /\ prev_entry_'[t] = p /\ next_entry_'[before] = p
      /\ \A q \in Levels :
           /\ q # t => prev_entry_'[q] = prev_entry_[q] /\ prev_entry_[q] # before
           /\ q # before => next_entry_'[q] = next_entry_[q] /\ next_entry_[q] # t
           /\ prev_entry_[q] # p /\ next_entry_[q] # p
  BY <1>0, <1>1, <1>2 DEF Linked, LinkedOn
<1>5. ASSUME NEW q \in Levels'
      PROVE  /\ prev_entry_'[q] \in Levels'
             /\ next_entry_'[prev_entry_'[q]] \in {q, Null}
             /\ next_entry_'[q] # Null =>
                  /\ next_entry_'[q] \in Levels'
                  /\ prev_entry_'[next_entry_'[q]] = q
             /\ \A r \in Levels' : prev_entry_'[q] = prev_entry_'[r] => q = r
  <2>1. CASE q = p
    BY <1>0, <1>4, <2>1
  <2>2. CASE q \in Levels
    <3>1. prev_entry_'[q] \in Levels'
      BY <1>0, <1>4, <2>2 DEF Linked, LinkedOn
    <3>2. next_entry_'[prev_entry_'[q]] \in {q, Null}
      <4>1. CASE q = t
        BY <1>4, <4>1
      <4>2. CASE q # t
        BY <1>4, <2>2, <4>2 DEF Linked, LinkedOn
      <4> QED
        BY <4>1, <4>2
    <3>3. next_entry_'[q] # Null => /\ next_entry_'[q] \in Levels'
                                    /\ prev_entry_'[next_entry_'[q]] = q
      <4>1. CASE q = before
        BY <1>0, <1>4, <4>1
      <4>2. CASE q # before
        <5> SUFFICES ASSUME next_entry_[q] # Null
                     PROVE  /\ next_entry_[q] \in Levels'
                            /\ prev_entry_'[next_entry_[q]] = q
          BY <1>4, <2>2, <4>2
        <5>1. next_entry_[q] \in Levels /\ prev_entry_[next_entry_[q]] = q
          BY <2>2 DEF Linked, LinkedOn
        <5>2. next_entry_[q] # t
          BY <1>4, <2>2, <4>2
        <5> QED
          BY <1>0, <1>4, <5>1, <5>2
      <4> QED
        BY <4>1, <4>2
    <3>4. \A r \in Levels' : prev_entry_'[q] = prev_entry_'[r] => q = r
      BY <1>0, <1>4, <2>2 DEF Linked, LinkedOn
    <3> QED
      BY <3>1, <3>2, <3>3, <3>4
  <2> QED
    BY <1>0, <2>1, <2>2
<1>6. LinkedOn(Levels)'
  BY <1>5 DEF LinkedOn
<1>7. \A q \in (Levels \ SellPrices)' : prev_entry_'[q] = q /\ next_entry_'[q] = q
  <2> SUFFICES ASSUME NEW q \in Levels, q \notin SellPrices
               PROVE  prev_entry_'[q] = q /\ next_entry_'[q] = q
    OBVIOUS
  <2>1. prev_entry_[q] = q /\ next_entry_[q] = q /\ q # t
    BY DEF Linked, AskLevels
  <2> QED
    BY <1>4, <2>1
<1> QED
  BY <1>1, <1>3, <1>6, <1>7 DEF Linked

\* addOrdersAtPrice(), after the last level.
LEMMA LinkLastKeepsLinked ==
  ASSUME PointerTypes, Linked,
         NEW p \in SellPrices, p \notin Levels, asks_at_price_ \in AskLevels,
         next_entry_[prev_entry_[asks_at_price_]] = asks_at_price_,
         LinkLast("SELL", p), Levels' = Levels \cup {p}
  PROVE  PointerTypes' /\ Linked'
<1> DEFINE best == asks_at_price_
           last == prev_entry_[best]
<1> USE NullFacts DEF PointerTypes, OrNull
<1>0. /\ p \in Prices /\ Levels \subseteq Prices
      /\ best \in Levels /\ best # p /\ last \in Levels /\ last # p
  BY DEF Prices, AskLevels, Levels, Linked, LinkedOn
<1>1. /\ prev_entry_' = [prev_entry_ EXCEPT ![p] = last, ![best] = p]
      /\ next_entry_' = [next_entry_ EXCEPT ![p] = Null, ![last] = p]
      /\ UNCHANGED <<bids_at_price_, asks_at_price_>>
  BY DEF LinkLast, Best
<1>2. PointerTypes'
  BY <1>0, <1>1
<1>3. /\ prev_entry_'[p] = last /\ next_entry_'[p] = Null
      /\ prev_entry_'[best] = p /\ next_entry_'[last] = p
      /\ \A q \in Levels :
           /\ q # best => prev_entry_'[q] = prev_entry_[q] /\ prev_entry_[q] # last
           /\ q # last => next_entry_'[q] = next_entry_[q] /\ next_entry_[q] # best
           /\ prev_entry_[q] # p /\ next_entry_[q] # p
  BY <1>0, <1>1 DEF Linked, LinkedOn
<1>4. ASSUME NEW q \in Levels'
      PROVE  /\ prev_entry_'[q] \in Levels'
             /\ next_entry_'[prev_entry_'[q]] \in {q, Null}
             /\ next_entry_'[q] # Null =>
                  /\ next_entry_'[q] \in Levels'
                  /\ prev_entry_'[next_entry_'[q]] = q
             /\ \A r \in Levels' : prev_entry_'[q] = prev_entry_'[r] => q = r
  <2>1. CASE q = p
    BY <1>0, <1>3, <2>1
  <2>2. CASE q \in Levels
    <3>1. prev_entry_'[q] \in Levels'
      BY <1>0, <1>3, <2>2 DEF Linked, LinkedOn
    <3>2. next_entry_'[prev_entry_'[q]] \in {q, Null}
      <4>1. CASE q = best
        BY <1>3, <4>1
      <4>2. CASE q # best
        BY <1>3, <2>2, <4>2 DEF Linked, LinkedOn
      <4> QED
        BY <4>1, <4>2
    <3>3. next_entry_'[q] # Null => /\ next_entry_'[q] \in Levels'
                                    /\ prev_entry_'[next_entry_'[q]] = q
      <4>1. CASE q = last
        BY <1>0, <1>3, <4>1
      <4>2. CASE q # last
        <5> SUFFICES ASSUME next_entry_[q] # Null
                     PROVE  /\ next_entry_[q] \in Levels'
                            /\ prev_entry_'[next_entry_[q]] = q
          BY <1>3, <2>2, <4>2
        <5>1. next_entry_[q] \in Levels /\ prev_entry_[next_entry_[q]] = q
          BY <2>2 DEF Linked, LinkedOn
        <5>2. next_entry_[q] # best
          BY <1>3, <2>2, <4>2
        <5> QED
          BY <1>0, <1>3, <5>1, <5>2
      <4> QED
        BY <4>1, <4>2
    <3>4. \A r \in Levels' : prev_entry_'[q] = prev_entry_'[r] => q = r
      BY <1>0, <1>3, <2>2 DEF Linked, LinkedOn
    <3> QED
      BY <3>1, <3>2, <3>3, <3>4
  <2> QED
    BY <1>0, <2>1, <2>2
<1>5. LinkedOn(Levels)'
  BY <1>4 DEF LinkedOn
<1>6. \A q \in (Levels \ SellPrices)' : prev_entry_'[q] = q /\ next_entry_'[q] = q
  <2> SUFFICES ASSUME NEW q \in Levels, q \notin SellPrices
               PROVE  prev_entry_'[q] = q /\ next_entry_'[q] = q
    OBVIOUS
  <2>1. prev_entry_[q] = q /\ next_entry_[q] = q /\ q # best
    BY DEF Linked, AskLevels
  <2> QED
    BY <1>3, <2>1
<1> QED
  BY <1>1, <1>2, <1>5, <1>6 DEF Linked

-------------------------------------------------------------------------------
(* The ring of asks_at_price_.                                                 *)

\* No pointer leads into the ring or out of it.
LEMMA RingIsLinked ==
  ASSUME Linked, NEW R, Ring(R)
  PROVE  R \subseteq Levels /\ R \subseteq Prices /\ R \subseteq Int /\ LinkedOn(R)
<1>1. R \subseteq Levels /\ R \subseteq Prices
  BY DEF Ring, AskLevels, Levels
<1>2. R \subseteq Int
  BY <1>1, NullFacts
<1>3. ASSUME NEW p \in R
      PROVE  /\ prev_entry_[p] \in R
             /\ next_entry_[p] # Null => next_entry_[p] \in R
  BY <1>1 DEF Ring, Linked, LinkedOn
<1> QED
  BY <1>1, <1>2, <1>3 DEF Linked, LinkedOn

\* A step that leaves the pointers of the levels alone.
LEMMA SameRing ==
  ASSUME NEW R, Ring(R), UNCHANGED levelVars, UNCHANGED Levels
  PROVE  Ring(R)'
BY DEF Ring, Sorted, levelVars, AskLevels

\* removeOrdersAtPrice(), for a level of the ring that is not alone.
LEMMA RemoveLevelKeepsSorted ==
  ASSUME PointerTypes, Linked, NEW R, Ring(R), NEW p \in R,
         next_entry_[p] \notin {p, Null}, removeOrdersAtPrice("SELL", p),
         NEW S, S = R \ {p}
  PROVE  asks_at_price_' \in S /\ Sorted(S)'
<1> DEFINE before == prev_entry_[p]
           after  == next_entry_[p]
           best   == asks_at_price_
<1> USE NullFacts DEF PointerTypes, OrNull
<1>a. /\ R \subseteq Prices /\ R \subseteq Int /\ LinkedOn(R) /\ Sorted(R)
      /\ p \in Prices /\ best \in R /\ after # p
  BY RingIsLinked DEF Ring, Sorted
<1>1. /\ p \in R /\ before \in R /\ after \in R
      /\ before # p /\ prev_entry_[after] = p /\ best \in R
  BY <1>a DEF LinkedOn
<1>2. /\ next_entry_' = [next_entry_ EXCEPT ![before] = after, ![p] = Null]
      /\ prev_entry_' = [prev_entry_ EXCEPT ![after] = before, ![p] = Null]
      /\ asks_at_price_' = IF p = best THEN after ELSE best
  BY DEF removeOrdersAtPrice, SetBest, Best
<1>3. ASSUME NEW q \in S
      PROVE  /\ q \in R /\ q # p
             /\ prev_entry_'[q] = IF q = after THEN before ELSE prev_entry_[q]
             /\ next_entry_'[q] = IF q = before THEN after ELSE next_entry_[q]
  BY <1>1, <1>2, <1>a DEF LinkedOn
<1>4. /\ p = best => after # best /\ p < after /\ \A q \in R : q < after => q <= p
      /\ p # best => before < p /\ \A q \in R : q < p => q <= before
      /\ p = best => \A q \in R : q <= before
      /\ after = best => \A q \in R : q <= p
      /\ after # best => p < after /\ \A q \in R : q < after => q <= p
  BY <1>a, <1>1 DEF Sorted
<1>5. asks_at_price_' \in S /\ \A q \in S : asks_at_price_' <= q
  <2>1. CASE p = best
    BY <1>a, <1>1, <1>2, <1>4, <2>1 DEF Sorted
  <2>2. CASE p # best
    BY <1>a, <1>1, <1>2, <2>2 DEF Sorted
  <2> QED
    BY <2>1, <2>2
<1>6. ASSUME NEW q \in S
      PROVE  /\ q # asks_at_price_' =>
                  /\ prev_entry_'[q] < q
                  /\ \A r \in S : r < q => r <= prev_entry_'[q]
             /\ q = asks_at_price_' => \A r \in S : r <= prev_entry_'[q]
  <2>1. CASE q = after /\ p = best
    BY <1>a, <1>2, <1>3, <1>4, <2>1
  <2>2. CASE q = after /\ p # best /\ after = best
    <3>1. \A r \in S : r < p
      BY <1>a, <1>1, <1>4, <2>2
    <3> QED
      BY <1>a, <1>2, <1>3, <1>4, <2>2, <3>1
  <2>3. CASE q = after /\ p # best /\ after # best
    <3>1. \A r \in S : r < after => r < p
      BY <1>a, <1>1, <1>4, <2>3
    <3>2. q # asks_at_price_' /\ prev_entry_'[q] = before
      BY <1>2, <1>3, <2>3
    <3>3. before < p /\ p < after /\ \A r \in R : r < p => r <= before
      BY <1>4, <2>3
    <3>4. before < q
      <4>1. before \in Int /\ p \in Int /\ q \in Int /\ before < p /\ p < q
        BY <1>a, <1>1, <2>3, <3>3
      <4> HIDE DEF before
      <4> QED
        BY <4>1
    <3>5. \A r \in S : r < q => r <= before
      BY <1>a, <2>3, <3>1, <3>3
    <3> QED
      BY <3>2, <3>4, <3>5
  <2>4. CASE q # after
    <3>1. prev_entry_'[q] = prev_entry_[q] /\ q \in R
      BY <1>3, <2>4
    <3>2. CASE q = best
      BY <1>a, <1>2, <1>3, <2>4, <3>1, <3>2 DEF Sorted
    <3>3. CASE q # best
      <4>1. q # asks_at_price_'
        BY <1>2, <2>4, <3>3
      <4> QED
        BY <1>a, <3>1, <3>3, <4>1 DEF Sorted
    <3> QED
      BY <3>2, <3>3
  <2> QED
    BY <2>1, <2>2, <2>3, <2>4
<1>7. ASSUME NEW q \in S, next_entry_'[q] = Null
      PROVE  q # asks_at_price_' /\ \A r \in S : r <= q
  <2>1. q # before /\ next_entry_[q] = Null
    BY <1>a, <1>1, <1>3, <1>7
  <2>2. q # best /\ \A r \in R : r <= q
    BY <1>a, <1>3, <2>1 DEF Sorted
  <2>3. q # asks_at_price_'
    <3> SUFFICES ASSUME p = best, q = after PROVE FALSE
      BY <1>2, <2>2
    <3>1. before <= q /\ q <= before
      BY <1>1, <1>3, <1>4, <2>2
    <3>2. before \in Int /\ q \in Int /\ q # before
      BY <1>a, <1>1, <1>3, <2>1
    <3> HIDE DEF before
    <3> QED
      BY <3>1, <3>2
  <2> QED
    BY <1>a, <2>2, <2>3
<1>8. asks_at_price_' # Null
  BY <1>a, <1>5
<1> QED
  BY <1>5, <1>6, <1>7, <1>8 DEF Sorted

\* addOrdersAtPrice(), before target t.  Every level before t is better than the
\* new one.
LEMMA LinkBeforeKeepsSorted ==
  ASSUME PointerTypes, Linked, NEW R, Ring(R),
         NEW p \in SellPrices, p \notin Levels, NEW t \in R, p < t,
         t # asks_at_price_ => \A q \in R : q < t => q < p,
         LinkBefore("SELL", p, t), NEW S, S = R \cup {p}
  PROVE  asks_at_price_' = (IF t = asks_at_price_ THEN p ELSE asks_at_price_) /\ Sorted(S)'
<1> DEFINE before == prev_entry_[t]
           best   == asks_at_price_
           linked == [next_entry_ EXCEPT ![p] = t, ![before] = p]
<1> USE NullFacts DEF PointerTypes, OrNull
<1>0. /\ R \subseteq Levels /\ R \subseteq Prices /\ R \subseteq Int
      /\ LinkedOn(R) /\ Sorted(R)
      /\ p \in Prices /\ best \in R /\ p \notin R /\ S = R \cup {p}
      /\ before \in R /\ before # p /\ t # p
  BY RingIsLinked DEF Ring, Sorted, LinkedOn, Prices
<1>a. p \in Int /\ t \in Int /\ before \in Int /\ best \in Int /\ R \subseteq Int
  BY <1>0
<1>b. t # best => best < p
  <2>1. best <= t /\ (t # best => (best < t => best < p))
    BY <1>0 DEF Sorted
  <2> QED
    BY <1>a, <2>1
<1>1. /\ prev_entry_' = [prev_entry_ EXCEPT ![p] = before, ![t] = p]
      /\ asks_at_price_' = IF t = best THEN p ELSE best
  <2>1. Better("SELL", p, best) <=> t = best
    BY <1>a, <1>b DEF Better
  <2> QED
    BY <2>1 DEF LinkBefore, SetBest, Best
<1>2. next_entry_' = linked
  <2>1. CASE t = best
    <3>1. linked[t] # best
      BY <1>0, <2>1 DEF LinkedOn
    <3> QED
      BY <3>1 DEF LinkBefore, Best
  <2>2. CASE t # best
    <3>1. ~Better("SELL", p, best)
      BY <1>a, <1>b, <2>2 DEF Better
    <3> QED
      BY <3>1 DEF LinkBefore, Best
  <2> QED
    BY <2>1, <2>2
<1>3. /\ prev_entry_'[p] = before /\ next_entry_'[p] = t /\ prev_entry_'[t] = p
      /\ next_entry_'[before] = p
      /\ \A q \in R : /\ q # t => prev_entry_'[q] = prev_entry_[q]
                      /\ q # before => next_entry_'[q] = next_entry_[q]
  BY <1>0, <1>1, <1>2
<1> HIDE DEF before, best, linked
\* What the ring was.
<1>5. /\ \A q \in R : best <= q
      /\ t = best => \A q \in R : q <= before
      /\ t # best => before < t /\ \A q \in R : q < t => q <= before
      /\ t # best => \A q \in R : q < t => q < p
      /\ \A q \in R : q # best =>
           prev_entry_[q] < q /\ \A r \in R : r < q => r <= prev_entry_[q]
      /\ \A q \in R : prev_entry_[q] \in R
      /\ \A q \in R : best = q => \A r \in R : r <= prev_entry_[q]
      /\ \A q \in R : next_entry_[q] = Null =>
           q # best /\ \A r \in R : r <= q
  BY <1>0 DEF Sorted, LinkedOn, before, best
<1>6. ASSUME NEW q \in S
      PROVE  asks_at_price_' <= q
  <2>1. q = p \/ (q \in R /\ best <= q /\ q \in Int)
    BY <1>0, <1>a, <1>5
  <2> QED
    BY <1>a, <1>b, <1>1, <2>1
<1>7. t # best => before < p
  BY <1>0, <1>5
<1>8. t = best => p < before
  <2>1. t = best => t <= before
    BY <1>5
  <2> QED
    BY <1>a, <2>1
<1>9. ASSUME NEW q \in S
      PROVE  /\ q # asks_at_price_' =>
                  /\ prev_entry_'[q] < q
                  /\ \A r \in S : r < q => r <= prev_entry_'[q]
             /\ q = asks_at_price_' => \A r \in S : r <= prev_entry_'[q]
  <2>1. CASE q = p
    <3>1. t = best => \A r \in S : r <= before
      BY <1>0, <1>a, <1>5, <1>8
    <3>2. t # best => q # asks_at_price_' /\ before < q
      BY <1>1, <1>7, <1>b, <1>a, <2>1
    <3>3. t # best => \A r \in S : r < q => r <= before
      <4> SUFFICES ASSUME t # best, NEW r \in S, r < p PROVE r <= before
        BY <2>1
      <4>1. r \in R /\ r \in Int
        BY <1>0, <1>a
      <4>2. r < t
        BY <1>a, <4>1
      <4> QED
        BY <1>5, <4>1, <4>2
    <3>4. prev_entry_'[q] = before
      BY <1>3, <2>1
    <3>5. CASE t = best
      BY <1>1, <2>1, <3>1, <3>4, <3>5
    <3>6. CASE t # best
      BY <3>2, <3>3, <3>4, <3>6
    <3> QED
      BY <3>5, <3>6
  <2>2. CASE q = t
    <3>1. q # asks_at_price_'
      BY <1>1, <1>0, <2>2
    <3>2. \A r \in S : r < t => r <= p
      <4> SUFFICES ASSUME NEW r \in S, r < t, r # p PROVE r <= p
        BY <1>a
      <4>1. r \in R /\ r \in Int /\ best <= r
        BY <1>0, <1>a, <1>5
      <4>2. t # best
        BY <1>a, <4>1
      <4> QED
        BY <1>5, <1>a, <4>1, <4>2
    <3> QED
      BY <1>3, <2>2, <3>1, <3>2
  <2>3. CASE q # p /\ q # t
    <3>1. /\ q \in R /\ q \in Int /\ prev_entry_'[q] = prev_entry_[q]
          /\ prev_entry_[q] \in R /\ prev_entry_[q] \in Int
      BY <1>0, <1>a, <1>3, <1>5, <2>3
    <3>2. CASE q = best
      <4>1. q # p /\ t # best /\ asks_at_price_' = best
        BY <1>1, <2>3, <3>2
      <4>2. t <= prev_entry_[q]
        BY <1>5, <3>1, <3>2
      <4>3. p <= prev_entry_[q]
        BY <1>a, <3>1, <4>2
      <4> QED
        BY <1>0, <1>5, <3>1, <3>2, <4>1, <4>3
    <3>3. CASE q # best
      <4>1. /\ q # asks_at_price_' /\ prev_entry_[q] < q
            /\ \A r \in R : r < q => r <= prev_entry_[q]
        BY <1>1, <1>5, <2>3, <3>1, <3>3
      <4>2. p < q => p <= prev_entry_[q]
        <5> SUFFICES ASSUME p < q PROVE p <= prev_entry_[q]
          OBVIOUS
        <5>1. t < q
          <6>1. t # best => (q < t => q < p)
            BY <1>5, <3>1
          <6>2. t = best => t <= q
            BY <1>5, <3>1
          <6> QED
            BY <1>a, <2>3, <3>1, <6>1, <6>2
        <5>2. t <= prev_entry_[q]
          BY <4>1, <5>1
        <5> QED
          BY <1>a, <3>1, <5>2
      <4> QED
        BY <1>0, <3>1, <4>1, <4>2
    <3> QED
      BY <3>2, <3>3
  <2> QED
    BY <2>1, <2>2, <2>3
<1>10. ASSUME NEW q \in S, next_entry_'[q] = Null
       PROVE  q # asks_at_price_' /\ \A r \in S : r <= q
  <2>1. q # p /\ q # before /\ q \in R /\ next_entry_[q] = Null /\ q \in Int
    BY <1>0, <1>a, <1>3, <1>10
  <2>2. q # best /\ \A r \in R : r <= q
    BY <1>5, <2>1
  <2>3. p <= q
    <3>1. t <= q
      BY <2>2
    <3> QED
      BY <1>a, <2>1, <3>1
  <2> QED
    BY <1>0, <1>1, <2>1, <2>2, <2>3
<1>11. asks_at_price_' # Null
  BY <1>0, <1>1, <1>a
<1> QED
  BY <1>1, <1>6, <1>9, <1>10, <1>11 DEF Sorted, best

\* addOrdersAtPrice(), after the last level.
LEMMA LinkLastKeepsSorted ==
  ASSUME PointerTypes, Linked, NEW R, Ring(R),
         NEW p \in SellPrices, p \notin Levels, asks_at_price_ # Null,
         \A q \in R : q < p,
         next_entry_[prev_entry_[asks_at_price_]] = asks_at_price_,
         LinkLast("SELL", p), NEW S, S = R \cup {p}
  PROVE  asks_at_price_' = asks_at_price_ /\ Sorted(S)'
<1> DEFINE best == asks_at_price_
           last == prev_entry_[best]
<1> USE NullFacts DEF PointerTypes, OrNull
<1>0. /\ R \subseteq Levels /\ R \subseteq Prices /\ R \subseteq Int
      /\ LinkedOn(R) /\ Sorted(R)
      /\ p \in Prices /\ best \in R /\ p \notin R /\ S = R \cup {p}
      /\ last \in R /\ last # p /\ best # p
  BY RingIsLinked DEF Ring, LinkedOn, Prices
<1>a. p \in Int /\ last \in Int /\ best \in Int /\ R \subseteq Int
  BY <1>0
<1>1. /\ prev_entry_' = [prev_entry_ EXCEPT ![p] = last, ![best] = p]
      /\ next_entry_' = [next_entry_ EXCEPT ![p] = Null, ![last] = p]
      /\ asks_at_price_' = best
  BY DEF LinkLast, Best
<1>2. /\ prev_entry_'[p] = last /\ prev_entry_'[best] = p /\ next_entry_'[last] = p
      /\ \A q \in R : /\ q # best => prev_entry_'[q] = prev_entry_[q]
                      /\ q # last => next_entry_'[q] = next_entry_[q]
  <2>1. prev_entry_'[p] = last /\ prev_entry_'[best] = p /\ next_entry_'[last] = p
    BY <1>0, <1>1
  <2>2. \A q \in R : q \in Prices /\ q # p
    BY <1>0
  <2>3. \A q \in R : q # best => prev_entry_'[q] = prev_entry_[q]
    BY <1>1, <2>2
  <2>4. \A q \in R : q # last => next_entry_'[q] = next_entry_[q]
    BY <1>1, <2>2
  <2> QED
    BY <2>1, <2>3, <2>4
<1> HIDE DEF best, last
<1>3. /\ \A q \in R : best <= q /\ q <= last /\ q < p
      /\ \A q \in R : q # best =>
           prev_entry_[q] < q /\ \A r \in R : r < q => r <= prev_entry_[q]
      /\ \A q \in R : next_entry_[q] = Null => \A r \in R : r <= q
  BY <1>0 DEF Sorted, best, last
<1>4. ASSUME NEW q \in S
      PROVE  asks_at_price_' <= q
  BY <1>0, <1>a, <1>1, <1>3
<1>5. ASSUME NEW q \in S
      PROVE  /\ q # asks_at_price_' =>
                  /\ prev_entry_'[q] < q
                  /\ \A r \in S : r < q => r <= prev_entry_'[q]
             /\ q = asks_at_price_' => \A r \in S : r <= prev_entry_'[q]
  <2>1. CASE q = p
    <3>1. \A r \in S : r < p => r <= last
      BY <1>0, <1>a, <1>3
    <3> QED
      BY <1>0, <1>1, <1>2, <1>3, <2>1, <3>1
  <2>2. CASE q = best
    <3>1. \A r \in S : r <= p
      BY <1>0, <1>a, <1>3
    <3> QED
      BY <1>1, <1>2, <2>2, <3>1
  <2>3. CASE q # p /\ q # best
    <3>1. q \in R /\ q < p /\ q \in Int /\ prev_entry_'[q] = prev_entry_[q]
      BY <1>0, <1>a, <1>2, <1>3, <2>3
    <3>2. prev_entry_[q] < q /\ \A r \in R : r < q => r <= prev_entry_[q]
      BY <1>3, <2>3, <3>1
    <3>3. ~(p < q)
      BY <1>a, <3>1
    <3> QED
      BY <1>0, <1>1, <2>3, <3>1, <3>2, <3>3
  <2> QED
    BY <2>1, <2>2, <2>3
<1>6. ASSUME NEW q \in S, next_entry_'[q] = Null
      PROVE  q # asks_at_price_' /\ \A r \in S : r <= q
  <2>1. q = p
    <3> SUFFICES ASSUME q # p PROVE FALSE
      OBVIOUS
    <3>1. q \in R /\ q # last
      BY <1>0, <1>2, <1>6
    <3>2. next_entry_[q] = Null
      BY <1>2, <1>6, <3>1
    <3>3. last <= q /\ q <= last
      BY <1>0, <1>3, <3>1, <3>2
    <3> QED
      BY <1>a, <3>1, <3>3
  <2>2. \A r \in S : r <= p
    BY <1>0, <1>a, <1>3
  <2> QED
    BY <1>0, <1>1, <2>1, <2>2
<1>8. asks_at_price_' # Null
  BY <1>0, <1>1, <1>a
<1> QED
  BY <1>1, <1>4, <1>5, <1>6, <1>8 DEF Sorted, best

\* removeOrdersAtPrice(): the ring loses p if p is in it, and asks_at_price_ loses
\* the ring if p was a ring of its own and a SELL order was the last to leave.
LEMMA RemoveLevelKeepsRing ==
  ASSUME SidesKnown, PointerTypes, Linked,
         NEW R, Ring(R), NEW side \in Sides, NEW p \in Levels,
         p \in R => side = "SELL", OneSided => p \in Limits(side),
         next_entry_[p] # Null,
         removeOrdersAtPrice(side, p), Levels' = Levels \ {p}
  PROVE  \E S \in SUBSET (R \ {p}) : Ring(S)'
<1> DEFINE before == prev_entry_[p]
           after  == next_entry_[p]
<1> USE NullFacts DEF PointerTypes, OrNull
<1>0. /\ Levels \subseteq Prices /\ p \in Prices /\ side \in {"BUY", "SELL"}
      /\ before \in Levels /\ after \in Levels /\ prev_entry_[after] = p
      /\ \A q \in Levels : prev_entry_[q] = p => q = after
      /\ AskLevels' = AskLevels \ {p} /\ R \subseteq AskLevels /\ R \subseteq Prices
      /\ asks_at_price_ \in OrNull(R) /\ Null \notin R /\ R \subseteq Int
  BY DEF SidesKnown, Levels, Linked, LinkedOn, AskLevels, Ring
<1>1. CASE after = p /\ side = "SELL"
  <2>1. asks_at_price_' = Null
    BY <1>1 DEF removeOrdersAtPrice, SetBest
  <2>2. OneSided => AskLevels' = {}
    <3> SUFFICES ASSUME OneSided PROVE R = {p}
      BY <1>0 DEF Ring
    <3>1. p \in R /\ prev_entry_[p] = p
      BY <1>0, <1>1 DEF Ring, AskLevels, Limits
    <3>2. p = asks_at_price_ /\ \A q \in R : p <= q /\ q <= p
      BY <1>0, <3>1 DEF Ring, Sorted
    <3>3. p \in Int /\ \A q \in R : q \in Int /\ q = p
      BY <1>0, <3>1, <3>2
    <3> QED
      BY <3>1, <3>3
  <2>3. Ring({})'
    BY <2>1, <2>2 DEF Ring, Sorted
  <2> QED
    BY <2>3
<1>2. CASE after = p /\ side = "BUY"
  <2>1. /\ asks_at_price_' = asks_at_price_
        /\ prev_entry_' = [prev_entry_ EXCEPT ![p] = Null]
        /\ next_entry_' = [next_entry_ EXCEPT ![p] = Null]
    BY <1>2 DEF removeOrdersAtPrice, SetBest
  <2>2. \A q \in Levels' : prev_entry_'[q] = prev_entry_[q] /\ next_entry_'[q] = next_entry_[q]
    BY <1>0, <2>1
  <2>3. R \subseteq Levels' /\ p \notin R
    BY <1>0, <1>2 DEF AskLevels
  <2>4. Sorted(R)'
    BY <2>1, <2>2, <2>3 DEF Ring, Sorted
  <2>5. Ring(R)'
    BY <1>0, <2>1, <2>2, <2>3, <2>4 DEF Ring
  <2> QED
    BY <2>3, <2>5
<1>3. CASE after # p /\ p \notin R
  <2>1. /\ next_entry_' = [next_entry_ EXCEPT ![before] = after, ![p] = Null]
        /\ prev_entry_' = [prev_entry_ EXCEPT ![after] = before, ![p] = Null]
        /\ asks_at_price_' = asks_at_price_
    BY <1>0, <1>3 DEF removeOrdersAtPrice, SetBest, Best, Linked
  <2>2. before \notin R /\ after \notin R
    <3>1. \A q \in Levels : prev_entry_[q] \in R <=> q \in R
      BY DEF Ring
    <3>2. prev_entry_[p] \notin R
      BY ONLY p \in Levels, <1>3, <3>1
    <3>3. prev_entry_[after] \notin R
      BY ONLY <1>0, <1>3
    <3> QED
      BY ONLY <1>0, <3>1, <3>2, <3>3
  <2>3. \A q \in R : prev_entry_'[q] = prev_entry_[q] /\ next_entry_'[q] = next_entry_[q]
    BY <1>0, <1>3, <2>1, <2>2
  <2>4. \A q \in Levels' : prev_entry_'[q] \in R <=> q \in R
    <3> TAKE q \in Levels'
    <3>1. CASE q = after
      BY <1>0, <1>3, <2>1, <2>2, <3>1
    <3>2. CASE q # after
      BY <1>0, <2>1, <3>2 DEF Ring
    <3> QED
      BY <3>1, <3>2
  <2>5. Sorted(R)'
    BY <2>1, <2>3 DEF Ring, Sorted
  <2>6. Ring(R)'
    BY <1>0, <1>3, <2>1, <2>4, <2>5 DEF Ring
  <2> QED
    BY <1>3, <2>6
<1>4. CASE after # p /\ p \in R
  <2> DEFINE S == R \ {p}
  <2>1. removeOrdersAtPrice("SELL", p) /\ next_entry_[p] \notin {p, Null}
    BY <1>4
  <2>2. PICK T : T = R \ {p}
    OBVIOUS
  <2>3. asks_at_price_' \in T /\ Sorted(T)'
    BY <1>4, <2>1, <2>2, RemoveLevelKeepsSorted
  <2>4. before \in R /\ before # p
    BY <1>0, <1>4 DEF Ring
  <2>5. prev_entry_' = [prev_entry_ EXCEPT ![after] = before, ![p] = Null]
    BY <1>4 DEF removeOrdersAtPrice
  <2>6. \A q \in Levels' : prev_entry_'[q] \in T <=> q \in T
    <3> TAKE q \in Levels'
    <3>1. CASE q = after
      <4>1. prev_entry_'[q] = before /\ after \in R
        BY <1>0, <1>4, <2>5, <3>1 DEF Ring
      <4> QED
        BY <1>4, <2>2, <2>4, <3>1, <4>1
    <3>2. CASE q # after
      <4>1. prev_entry_'[q] = prev_entry_[q] /\ prev_entry_[q] # p /\ q # p
        BY <1>0, <2>5, <3>2
      <4> QED
        BY <2>2, <4>1 DEF Ring
    <3> QED
      BY <3>1, <3>2
  <2>7. T \subseteq AskLevels' /\ (OneSided => T = AskLevels')
    BY <1>0, <2>2 DEF Ring
  <2>8. Ring(T)'
    BY <2>3, <2>6, <2>7 DEF Ring
  <2> QED
    BY <2>2, <2>8
<1> QED
  BY <1>0, <1>1, <1>2, <1>3, <1>4

\* addOrdersAtPrice() on an empty side: a SELL level starts the ring.
LEMMA LinkAloneKeepsRing ==
  ASSUME SidesKnown, PointerTypes, Linked, NEW R, Ring(R),
         NEW side \in Sides, NEW p \in Limits(side), p \notin Levels,
         Best(side) = Null, LinkAlone(side, p), Levels' = Levels \cup {p},
         NEW S, S = IF side = "SELL" THEN {p} ELSE R
  PROVE  Ring(S)'
<1> USE NullFacts DEF PointerTypes, OrNull
<1>0. /\ p \in Prices /\ p \in Int /\ Levels \subseteq Prices /\ side \in {"BUY", "SELL"}
      /\ AskLevels' = Levels' \cap SellPrices /\ R \subseteq AskLevels
      /\ AskLevels \subseteq Levels
  BY DEF SidesKnown, Limits, Levels, Prices, AskLevels, Ring
<1>1. /\ prev_entry_' = [prev_entry_ EXCEPT ![p] = p]
      /\ next_entry_' = [next_entry_ EXCEPT ![p] = p]
      /\ asks_at_price_' = IF side = "BUY" THEN asks_at_price_ ELSE p
  BY DEF LinkAlone, SetBest
<1>2. /\ prev_entry_'[p] = p /\ next_entry_'[p] = p
      /\ \A q \in Levels : prev_entry_'[q] = prev_entry_[q] /\ next_entry_'[q] = next_entry_[q]
  BY <1>0, <1>1
<1>3. CASE side = "BUY"
  <2>1. S = R /\ p \notin R /\ asks_at_price_' = asks_at_price_
    BY <1>0, <1>1, <1>3
  <2>2. OneSided => AskLevels' = AskLevels
    BY <1>0, <1>3, SidesDisjoint DEF AskLevels
  <2>3. Sorted(R)'
    BY <1>0, <1>2, <2>1 DEF Ring, Sorted
  <2>4. \A q \in Levels' : prev_entry_'[q] \in R <=> q \in R
    BY <1>2, <2>1 DEF Ring
  <2>5. R \subseteq AskLevels'
    BY <1>0 DEF AskLevels
  <2> QED
    BY <2>1, <2>2, <2>3, <2>4, <2>5 DEF Ring
<1>4. CASE side = "SELL"
  <2>1. R = {} /\ S = {p} /\ asks_at_price_' = p /\ p \in SellPrices
    BY <1>0, <1>1, <1>4 DEF Ring, Sorted, Best, Limits
  <2>2. Sorted(S)'
    <3>1. p <= p /\ p # Null
      BY <1>0
    <3>2. asks_at_price_' # Null /\ next_entry_'[p] # Null
      BY <1>0, <1>2, <2>1
    <3> QED
      BY <1>2, <2>1, <3>1, <3>2 DEF Sorted
  <2>3. \A q \in Levels' : prev_entry_'[q] \in S <=> q \in S
    <3>1. \A q \in Levels : prev_entry_[q] \in Levels
      BY DEF Linked, LinkedOn
    <3> QED
      BY <1>2, <2>1, <3>1
  <2>4. S \subseteq AskLevels' /\ (OneSided => S = AskLevels')
    <3>1. AskLevels' = AskLevels \cup {p}
      BY <1>0, <2>1 DEF AskLevels
    <3>2. OneSided => AskLevels = {}
      BY <2>1 DEF Ring
    <3> QED
      BY <2>1, <3>1, <3>2
  <2> QED
    BY <2>1, <2>2, <2>3, <2>4 DEF Ring
<1> QED
  BY <1>0, <1>3, <1>4

\* addOrdersAtPrice(), before target t.
LEMMA LinkBeforeKeepsRing ==
  ASSUME PointerTypes, Linked, NEW R, Ring(R),
         NEW p \in SellPrices, p \notin Levels, NEW t \in R, p < t,
         t # asks_at_price_ => \A q \in R : q < t => q < p,
         LinkBefore("SELL", p, t), Levels' = Levels \cup {p}, NEW S, S = R \cup {p}
  PROVE  Ring(S)'
<1> USE NullFacts DEF PointerTypes, OrNull
<1>0. /\ Levels \subseteq Prices /\ p \in Prices /\ R \subseteq Levels
      /\ AskLevels' = AskLevels \cup {p} /\ R \subseteq AskLevels /\ p \notin R
      /\ asks_at_price_ \in R
  BY DEF Levels, Prices, AskLevels, Ring, Sorted
<1>1. asks_at_price_' \in S /\ Sorted(S)'
  BY <1>0, LinkBeforeKeepsSorted
<1>2. prev_entry_' = [prev_entry_ EXCEPT ![p] = prev_entry_[t], ![t] = p]
  BY DEF LinkBefore
<1>3. \A q \in Levels' : prev_entry_'[q] \in S <=> q \in S
  <2> TAKE q \in Levels'
  <2>1. CASE q = p \/ q = t
    <3>1. prev_entry_[t] \in R
      BY <1>0 DEF Ring
    <3> QED
      BY <1>0, <1>2, <2>1, <3>1
  <2>2. CASE q # p /\ q # t
    <3>1. prev_entry_'[q] = prev_entry_[q] /\ prev_entry_[q] \in Levels
      BY <1>0, <1>2, <2>2 DEF Linked, LinkedOn
    <3> QED
      BY <2>2, <3>1 DEF Ring
  <2> QED
    BY <2>1, <2>2
<1>4. S \subseteq AskLevels' /\ (OneSided => S = AskLevels')
  BY <1>0 DEF Ring
<1> QED
  BY <1>1, <1>3, <1>4 DEF Ring

\* addOrdersAtPrice(), after the last level.
LEMMA LinkLastKeepsRing ==
  ASSUME PointerTypes, Linked, NEW R, Ring(R),
         NEW p \in SellPrices, p \notin Levels, asks_at_price_ # Null,
         \A q \in R : q < p,
         next_entry_[prev_entry_[asks_at_price_]] = asks_at_price_,
         LinkLast("SELL", p), Levels' = Levels \cup {p}, NEW S, S = R \cup {p}
  PROVE  Ring(S)'
<1> DEFINE best == asks_at_price_
<1> USE NullFacts DEF PointerTypes, OrNull
<1>0. /\ Levels \subseteq Prices /\ p \in Prices /\ R \subseteq Levels
      /\ AskLevels' = AskLevels \cup {p} /\ R \subseteq AskLevels /\ p \notin R
      /\ best \in R
  BY DEF Levels, Prices, AskLevels, Ring
<1>1. asks_at_price_' \in S /\ Sorted(S)'
  BY <1>0, LinkLastKeepsSorted
<1>2. prev_entry_' = [prev_entry_ EXCEPT ![p] = prev_entry_[best], ![best] = p]
  BY DEF LinkLast, Best
<1>3. \A q \in Levels' : prev_entry_'[q] \in S <=> q \in S
  <2> TAKE q \in Levels'
  <2>1. CASE q = p \/ q = best
    <3>1. prev_entry_[best] \in R
      BY <1>0 DEF Ring
    <3> QED
      BY <1>0, <1>2, <2>1, <3>1
  <2>2. CASE q # p /\ q # best
    <3>1. prev_entry_'[q] = prev_entry_[q] /\ prev_entry_[q] \in Levels
      BY <1>0, <1>2, <2>2 DEF Linked, LinkedOn
    <3> QED
      BY <2>2, <3>1 DEF Ring
  <2> QED
    BY <2>1, <2>2
<1>4. S \subseteq AskLevels' /\ (OneSided => S = AskLevels')
  BY <1>0 DEF Ring
<1> QED
  BY <1>1, <1>3, <1>4 DEF Ring

-------------------------------------------------------------------------------
(* Pool, levels and client map.                                                *)

\* A block in use holds an order, and that is in the queue of its level.
LEMMA PooledFacts ==
  ASSUME PoolTypes, LevelsAndOrdersAgree, NEW m \in Pooled
  PROVE  LET p == LevelAt(order_pool_[m].price)
         IN  /\ m \in MOids /\ order_pool_[m] \in MEOrder
             /\ p \in Levels /\ priceToIndex(order_pool_[m].price) = priceToIndex(p)
             /\ \E i \in 1 .. Len(orders_at_price[p]) : orders_at_price[p][i] = m
<1>1. m \in MOids /\ order_pool_[m] \in MEOrder
  BY DEF PoolTypes, Pooled, OrNull
<1>2. order_pool_[m].price \in Prices
  BY <1>1 DEF MEOrder
<1>3. PICK p \in Prices : \E i \in 1 .. Len(orders_at_price[p]) :
                              orders_at_price[p][i] = m
  BY DEF LevelsAndOrdersAgree
<1>4. p \in Levels
  BY <1>3 DEF Levels
<1>5. priceToIndex(order_pool_[m].price) = priceToIndex(p)
  BY <1>3 DEF LevelsAndOrdersAgree
<1>6. LevelAt(order_pool_[m].price) = p
  BY <1>2, <1>4, <1>5, LevelAtIsTheLevel
<1> QED
  BY <1>1, <1>3, <1>4, <1>5, <1>6

\* A step that leaves the book alone.
LEMMA SameBook ==
  ASSUME Book, UNCHANGED bookVars, status' \in Statuses
  PROVE  /\ Book'
         /\ UNCHANGED <<Pooled, Levels, AskLevels, prev_entry_, next_entry_,
                        asks_at_price_>>
<1>1. UNCHANGED <<order_pool_, orders_at_price, cid_oid_to_order_, prev_entry_,
                  next_entry_, bids_at_price_, asks_at_price_>>
  BY DEF bookVars, levelVars
<1>2. UNCHANGED <<Pooled, Levels, AskLevels>>
  BY <1>1 DEF Pooled, Levels, AskLevels
<1>3. PoolTypes' /\ PointerTypes'
  BY <1>1 DEF Book, PoolTypes, PointerTypes
<1>4. LevelsAndOrdersAgree'
  BY <1>1, <1>2 DEF Book, LevelsAndOrdersAgree
<1>5. CidMapSound' /\ SidesApart'
  BY <1>1, <1>2 DEF Book, CidMapSound, SidesApart
<1>6. Linked'
  BY <1>1, <1>2 DEF Book, Linked, LinkedOn
<1> QED
  BY <1>1, <1>2, <1>3, <1>4, <1>5, <1>6 DEF Book

\* removeOrder(), for a fill or a cancel, and when the process dies in it.
LEMMA RemoveOrderKeepsBook ==
  ASSUME Book, NEW m \in Pooled, removeOrder(m)
  PROVE  Book' /\ Pooled' \subseteq Pooled
<1> DEFINE o == order_pool_[m]
           p == LevelAt(o.price)
           q == orders_at_price[p]
           u == Unlink(q, m)
<1> USE NullFacts
<1>0. /\ m \in MOids /\ o \in MEOrder /\ p \in Levels /\ p \in Prices
      /\ priceToIndex(o.price) = priceToIndex(p)
      /\ \E i \in 1 .. Len(q) : q[i] = m
      /\ q \in Seq(MOids)
      /\ \A i, j \in 1 .. Len(q) : q[i] = q[j] => i = j
  BY PooledFacts DEF Book, PoolTypes, Levels, LevelsAndOrdersAgree
<1>d. CASE Die("segv")
  BY <1>d, SameBook DEF Die, Statuses
<1>u. CASE ~(Len(q) = 1 /\ next_entry_[p] = Null)
  <2>1. /\ UNCHANGED status
        /\ IF Len(q) = 1 THEN removeOrdersAtPrice(o.side, p) ELSE UNCHANGED levelVars
        /\ orders_at_price' = [orders_at_price EXCEPT ![p] = u]
        /\ Forget(o)
        /\ order_pool_' = [order_pool_ EXCEPT ![m] = Null]
    BY <1>u DEF removeOrder
  <2>2. /\ u \in Seq(MOids)
        /\ u = <<>> <=> Len(q) = 1
        /\ \A i \in 1 .. Len(u) : u[i] # m /\ \E j \in 1 .. Len(q) : q[j] = u[i]
        /\ \A i, j \in 1 .. Len(u) : u[i] = u[j] => i = j
        /\ \A j \in 1 .. Len(q) : q[j] # m => \E i \in 1 .. Len(u) : u[i] = q[j]
    BY <1>0, UnlinkKeepsOthers
  <2> HIDE DEF p, u
  <2>3. /\ Pooled' = Pooled \ {m}
        /\ \A n \in Pooled \ {m} : order_pool_'[n] = order_pool_[n]
    BY <2>1, <1>0 DEF Pooled, Book, PoolTypes
  <2>4. /\ orders_at_price'[p] = u
        /\ \A r \in Prices \ {p} : orders_at_price'[r] = orders_at_price[r]
        /\ Levels' = IF Len(q) = 1 THEN Levels \ {p} ELSE Levels
    BY <2>1, <2>2, <1>0 DEF Levels, Book, PoolTypes
  <2>5. PoolTypes'
    <3>1. order_pool_' \in [MOids -> OrNull(MEOrder)]
      BY <2>1, <1>0 DEF Book, PoolTypes, OrNull
    <3>2. orders_at_price' \in [Prices -> Seq(MOids)]
      BY <2>1, <2>2, <1>0 DEF Book, PoolTypes
    <3>3. cid_oid_to_order_' \in [Clients -> [OrderIds -> OrNull(MOids)]]
      BY <2>1, <1>0 DEF Book, PoolTypes, OrNull, Forget, MEOrder
    <3> QED
      BY <3>1, <3>2, <3>3, <2>1 DEF Book, PoolTypes
  <2>6. LevelsAndOrdersAgree'
    <3>1. ASSUME NEW r \in Prices, NEW i \in 1 .. Len(orders_at_price'[r])
          PROVE  LET n == orders_at_price'[r][i]
                 IN  /\ n \in Pooled'
                     /\ priceToIndex(order_pool_'[n].price) = priceToIndex(r)
                     /\ \A j \in 1 .. Len(orders_at_price'[r]) :
                          orders_at_price'[r][j] = n => j = i
      <4>1. CASE r = p
        <5>1. PICK j \in 1 .. Len(q) : q[j] = u[i]
          BY <2>2, <2>4, <4>1
        <5>2. /\ u[i] # m /\ u[i] \in Pooled
              /\ priceToIndex(order_pool_[u[i]].price) = priceToIndex(p)
          <6>1. u[i] # m
            BY <2>2, <2>4, <4>1
          <6>2. q[j] \in Pooled /\ priceToIndex(order_pool_[q[j]].price) = priceToIndex(p)
            BY <1>0 DEF Book, LevelsAndOrdersAgree
          <6> QED
            BY <5>1, <6>1, <6>2
        <5> QED
          BY <2>2, <2>3, <2>4, <4>1, <5>2
      <4>2. CASE r # p
        <5>1. /\ orders_at_price[r][i] \in Pooled
              /\ priceToIndex(order_pool_[orders_at_price[r][i]].price) = priceToIndex(r)
              /\ \A j \in 1 .. Len(orders_at_price[r]) :
                   orders_at_price[r][j] = orders_at_price[r][i] => j = i
          BY <2>4, <4>2 DEF Book, LevelsAndOrdersAgree
        <5>2. orders_at_price[r][i] # m
          <6>1. CASE orders_at_price[r][i] = m
            <7>1. priceToIndex(r) = priceToIndex(p) /\ r \in Levels
              BY <1>0, <2>4, <4>2, <5>1, <6>1 DEF Levels
            <7> QED
              BY <1>0, <4>2, <7>1 DEF Book, LevelsAndOrdersAgree
          <6> QED
            BY <6>1
        <5> QED
          BY <2>3, <2>4, <4>2, <5>1, <5>2
      <4> QED
        BY <4>1, <4>2
    <3>2. ASSUME NEW n \in Pooled'
          PROVE  \E r \in Prices : \E i \in 1 .. Len(orders_at_price'[r]) :
                   orders_at_price'[r][i] = n
      <4>1. n \in Pooled /\ n # m
        BY <2>3
      <4>2. PICK r \in Prices : \E i \in 1 .. Len(orders_at_price[r]) :
                                   orders_at_price[r][i] = n
        BY <4>1 DEF Book, LevelsAndOrdersAgree
      <4>3. CASE r = p
        <5>1. PICK j \in 1 .. Len(q) : q[j] = n
          BY <4>2, <4>3
        <5>2. PICK k \in 1 .. Len(u) : u[k] = n
          BY <2>2, <4>1, <5>1
        <5>3. p \in Prices
          BY <1>0
        <5> QED
          BY <2>4, <5>2, <5>3
      <4>4. CASE r # p
        BY <2>4, <4>1, <4>2, <4>4
      <4> QED
        BY <4>3, <4>4
    <3>3. Levels' \subseteq Levels
      BY <2>4
    <3>4. \A a, b \in Levels' : priceToIndex(a) = priceToIndex(b) => a = b
      BY <3>3 DEF Book, LevelsAndOrdersAgree
    <3> QED
      BY <3>1, <3>2, <3>4 DEF LevelsAndOrdersAgree
  <2>7. CidMapSound'
    <3> SUFFICES ASSUME NEW c \in Clients, NEW x \in OrderIds,
                        cid_oid_to_order_'[c][x] # Null
                 PROVE  LET n == cid_oid_to_order_'[c][x]
                        IN  /\ n \in Pooled'
                            /\ order_pool_'[n].client = c /\ order_pool_'[n].oid = x
      BY DEF CidMapSound
    <3>1. /\ ~(c = o.client /\ x = o.oid)
          /\ cid_oid_to_order_'[c][x] = cid_oid_to_order_[c][x]
      BY <2>1, <1>0 DEF Forget, Book, PoolTypes, MEOrder
    <3>2. /\ cid_oid_to_order_[c][x] \in Pooled
          /\ order_pool_[cid_oid_to_order_[c][x]].client = c
          /\ order_pool_[cid_oid_to_order_[c][x]].oid = x
      BY <3>1 DEF Book, CidMapSound
    <3> QED
      BY <3>1, <3>2, <2>3
  <2>8. SidesApart'
    BY <2>3 DEF Book, SidesApart, Limits
  <2>9. PointerTypes' /\ Linked'
    <3>1. CASE Len(q) = 1
      <4>1. o.side \in Sides /\ next_entry_[p] # Null
        BY <1>0, <1>u, <3>1 DEF MEOrder
      <4>2. removeOrdersAtPrice(o.side, p) /\ Levels' = Levels \ {p}
        BY <2>1, <2>4, <3>1
      <4> QED
        BY <1>0, <4>1, <4>2, RemoveLevelKeepsLinked DEF Book
    <3>2. CASE Len(q) # 1
      <4>1. UNCHANGED levelVars /\ Levels' = Levels
        BY <2>1, <2>4, <3>2
      <4> QED
        BY <4>1 DEF Book, levelVars, PointerTypes, Linked, LinkedOn
    <3> QED
      BY <3>1, <3>2
  <2> QED
    BY <2>3, <2>5, <2>6, <2>7, <2>8, <2>9 DEF Book
<1> QED
  BY <1>d, <1>u DEF removeOrder

\* A level that two sides' orders may share is found under the price of any of them.
LEMMA LevelOfSide ==
  ASSUME OneSided, Book, NEW m \in Pooled
  PROVE  LevelAt(order_pool_[m].price) \in Limits(order_pool_[m].side)
<1>1. /\ order_pool_[m].side \in Sides
      /\ order_pool_[m].price \in Limits(order_pool_[m].side)
      /\ LevelAt(order_pool_[m].price) \in Prices
      /\ priceToIndex(LevelAt(order_pool_[m].price)) = priceToIndex(order_pool_[m].price)
  BY PooledFacts DEF Book, SidesApart, MEOrder, Levels
<1> QED
  BY <1>1, SidesDisjoint

\* The order that leaves a level of the ring is a SELL order.
LEMMA RemoveOrderKeepsRing ==
  ASSUME Book, NEW R, Ring(R), SellsOnly(R), NEW m \in Pooled, removeOrder(m)
  PROVE  \E S \in SUBSET R : Ring(S)' /\ SellsOnly(S)'
<1> DEFINE o == order_pool_[m]
           p == LevelAt(o.price)
           q == orders_at_price[p]
           u == Unlink(q, m)
<1> USE NullFacts
<1>0. /\ m \in MOids /\ o \in MEOrder /\ p \in Levels /\ p \in Prices
      /\ \E i \in 1 .. Len(q) : q[i] = m
      /\ q \in Seq(MOids)
      /\ \A i, j \in 1 .. Len(q) : q[i] = q[j] => i = j
  BY PooledFacts DEF Book, PoolTypes, Levels, LevelsAndOrdersAgree
<1>1. CASE Die("segv")
  <2>1. /\ UNCHANGED <<orders_at_price, order_pool_, levelVars>> /\ UNCHANGED Levels
    BY <1>1 DEF Die, bookVars, Levels
  <2>2. Ring(R)' /\ SellsOnly(R)'
    BY <2>1, SameRing DEF SellsOnly
  <2> QED
    BY <2>2
<1>2. CASE ~(Len(q) = 1 /\ next_entry_[p] = Null)
  <2>1. /\ IF Len(q) = 1 THEN removeOrdersAtPrice(o.side, p) ELSE UNCHANGED levelVars
        /\ orders_at_price' = [orders_at_price EXCEPT ![p] = u]
        /\ order_pool_' = [order_pool_ EXCEPT ![m] = Null]
    BY <1>2 DEF removeOrder
  <2>2. /\ u = <<>> <=> Len(q) = 1
        /\ \A i \in 1 .. Len(u) : u[i] # m /\ \E j \in 1 .. Len(q) : q[j] = u[i]
    BY <1>0, UnlinkKeepsOthers
  <2>3. OneSided => p \in Limits(o.side)
    BY LevelOfSide
  <2>4. p \in R => o.side = "SELL"
    BY <1>0 DEF SellsOnly
  <2> HIDE DEF p, u
  <2>5. /\ orders_at_price'[p] = u
        /\ \A r \in Prices \ {p} : orders_at_price'[r] = orders_at_price[r]
        /\ Levels' = IF Len(q) = 1 THEN Levels \ {p} ELSE Levels
    BY <2>1, <2>2, <1>0 DEF Levels, Book, PoolTypes
  <2>6. ASSUME NEW S \in SUBSET R, p \in S => Len(q) # 1
        PROVE  SellsOnly(S)'
    <3> SUFFICES ASSUME NEW r \in S, NEW i \in 1 .. Len(orders_at_price'[r])
                 PROVE  order_pool_'[orders_at_price'[r][i]].side = "SELL"
      BY DEF SellsOnly
    <3>1. r \in R /\ r \in Prices
      BY DEF Ring, AskLevels, Levels
    <3>2. PICK j \in 1 .. Len(orders_at_price[r]) :
            orders_at_price[r][j] = orders_at_price'[r][i] /\ orders_at_price[r][j] # m
      <4>1. CASE r = p
        BY <2>2, <2>5, <4>1
      <4>2. CASE r # p
        <5>1. orders_at_price'[r] = orders_at_price[r]
          BY <2>5, <3>1, <4>2
        <5>2. orders_at_price[r][i] # m
          <6>1. CASE orders_at_price[r][i] = m
            <7>1. priceToIndex(r) = priceToIndex(o.price) /\ r \in Levels
              BY <3>1, <5>1, <6>1 DEF Book, LevelsAndOrdersAgree, Ring, AskLevels
            <7>2. LevelAt(o.price) = r
              BY <1>0, <7>1, LevelAtIsTheLevel DEF Book, MEOrder
            <7> QED
              BY <4>2, <7>2 DEF p
          <6> QED
            BY <6>1
        <5> QED
          BY <5>1, <5>2
      <4> QED
        BY <4>1, <4>2
    <3>3. /\ order_pool_[orders_at_price[r][j]].side = "SELL"
          /\ orders_at_price[r][j] \in MOids
      BY <3>1 DEF SellsOnly, Book, LevelsAndOrdersAgree, Pooled
    <3> QED
      BY <2>1, <3>2, <3>3, <1>0 DEF Book, PoolTypes
  <2>7. CASE Len(q) = 1
    <3>1. o.side \in Sides /\ next_entry_[p] # Null
      BY <1>0, <1>2, <2>7 DEF MEOrder
    <3>2. removeOrdersAtPrice(o.side, p) /\ Levels' = Levels \ {p}
      BY <2>1, <2>5, <2>7
    <3>4. SidesKnown /\ PointerTypes /\ Linked
      BY DEF Book
    <3>3. PICK S \in SUBSET (R \ {p}) : Ring(S)'
      BY <1>0, <2>3, <2>4, <3>1, <3>2, <3>4, RemoveLevelKeepsRing
    <3> QED
      BY <2>6, <3>3
  <2>8. CASE Len(q) # 1
    <3>1. UNCHANGED levelVars /\ UNCHANGED Levels
      BY <2>1, <2>5, <2>8
    <3>2. Ring(R)'
      BY <3>1, SameRing
    <3>3. SellsOnly(R)'
      BY <2>6, <2>8
    <3> QED
      BY <3>2, <3>3
  <2> QED
    BY <2>7, <2>8
<1> QED
  BY <1>1, <1>2 DEF removeOrder

\* getNextPriority()
LEMMA PriorityIsPositive ==
  ASSUME Book, NEW p \in Prices
  PROVE  getNextPriority(p) \in Nat \ {0}
<1> DEFINE q == orders_at_price[LevelAt(p)]
<1>1. CASE q = <<>>
  BY <1>1 DEF getNextPriority
<1>2. CASE q # <<>>
  <2>1. q \in Seq(MOids) /\ Len(q) \in 1 .. Len(q)
    BY <1>2, LevelAtFacts DEF Book, PoolTypes
  <2>2. q[Len(q)] \in Pooled
    BY <2>1, LevelAtFacts DEF Book, LevelsAndOrdersAgree
  <2>3. order_pool_[q[Len(q)]].priority \in Nat \ {0}
    BY <2>2, PooledFacts DEF Book, MEOrder
  <2> QED
    BY <1>2, <2>3 DEF getNextPriority
<1> QED
  BY <1>1, <1>2

\* The tail of add(), whatever it does to the ring: the new order is pooled, last
\* in its level and in the client's map.
LEMMA RestKeepsBook ==
  ASSUME Book, FreshIds, JobOK, job \in Job, job.leaves > 0, Rest
  PROVE  /\ PoolTypes' /\ LevelsAndOrdersAgree' /\ CidMapSound' /\ SidesApart'
         /\ FreshIds' /\ Levels' = Levels \cup {LevelAt(job.price)}
<1> DEFINE m == job.moid
           p == LevelAt(job.price)
           q == orders_at_price[p]
           o == [client |-> job.client, oid |-> job.oid, side |-> job.side,
                 price |-> job.price, qty |-> job.leaves,
                 priority |-> getNextPriority(job.price)]
<1> USE NullFacts
<1>14. job.price \in Prices
  BY DEF Job
<1>13. p \in Prices /\ priceToIndex(p) = priceToIndex(job.price)
  BY <1>14, LevelAtFacts
<1>0. /\ m \in MOids /\ p \in Prices /\ job.client \in Clients /\ job.oid \in OrderIds
      /\ job.side \in Sides /\ job.leaves \in Nat \ {0}
      /\ m \notin Pooled /\ m < next_market_order_id_
      /\ job.price \in Prices /\ job.price \in Limits(job.side)
      /\ priceToIndex(p) = priceToIndex(job.price)
  BY <1>13 DEF Job, JobOK
<1>15. getNextPriority(job.price) \in Nat \ {0}
  BY <1>14, PriorityIsPositive
<1>1. o \in MEOrder /\ o # Null
  BY <1>0, <1>15 DEF MEOrder
<1>2. /\ order_pool_' = [order_pool_ EXCEPT ![m] = o]
      /\ orders_at_price' = [orders_at_price EXCEPT ![p] = Append(q, m)]
      /\ cid_oid_to_order_' =
           [cid_oid_to_order_ EXCEPT ![job.client][job.oid] = m]
      /\ UNCHANGED <<status, next_market_order_id_>>
  BY DEF Rest
<1> HIDE DEF o, p
<1>3. /\ q \in Seq(MOids) /\ \A i \in 1 .. Len(q) : q[i] # m /\ q[i] \in Pooled
  BY <1>0 DEF Book, PoolTypes, LevelsAndOrdersAgree
<1>12. \A i \in 1 .. Len(q) : /\ priceToIndex(order_pool_[q[i]].price) = priceToIndex(p)
                              /\ \A j \in 1 .. Len(q) : q[j] = q[i] => j = i
  BY <1>0 DEF Book, LevelsAndOrdersAgree
<1>4. /\ orders_at_price'[p] = Append(q, m)
      /\ Len(Append(q, m)) = Len(q) + 1
      /\ Append(q, m)[Len(q) + 1] = m
      /\ \A i \in 1 .. Len(q) : Append(q, m)[i] = q[i]
      /\ \A r \in Prices \ {p} : orders_at_price'[r] = orders_at_price[r]
  BY <1>0, <1>2, <1>3 DEF Book, PoolTypes
<1>5. Levels' = Levels \cup {p}
  <2>1. orders_at_price'[p] # <<>>
    BY <1>3, <1>4
  <2> QED
    BY <1>0, <1>4, <2>1 DEF Levels
<1>6. /\ Pooled' = Pooled \cup {m} /\ order_pool_'[m] = o
      /\ \A n \in Pooled : n # m /\ order_pool_'[n] = order_pool_[n]
  BY <1>0, <1>1, <1>2 DEF Pooled, Book, PoolTypes
<1>7. PoolTypes'
  <2>1. order_pool_' \in [MOids -> OrNull(MEOrder)]
    BY <1>0, <1>1, <1>2 DEF Book, PoolTypes, OrNull
  <2>2. orders_at_price' \in [Prices -> Seq(MOids)]
    BY <1>0, <1>2, <1>3 DEF Book, PoolTypes
  <2>3. cid_oid_to_order_' \in [Clients -> [OrderIds -> OrNull(MOids)]]
    BY <1>0, <1>2 DEF Book, PoolTypes, OrNull
  <2> QED
    BY <1>2, <2>1, <2>2, <2>3 DEF Book, PoolTypes
<1>8. LevelsAndOrdersAgree'
  <2>1. ASSUME NEW r \in Prices, NEW i \in 1 .. Len(orders_at_price'[r])
        PROVE  LET n == orders_at_price'[r][i]
               IN  /\ n \in Pooled'
                   /\ priceToIndex(order_pool_'[n].price) = priceToIndex(r)
                   /\ \A j \in 1 .. Len(orders_at_price'[r]) :
                        orders_at_price'[r][j] = n => j = i
    <3>1. CASE r = p /\ i = Len(q) + 1
      <4>1. /\ orders_at_price'[r][i] = m
            /\ priceToIndex(order_pool_'[m].price) = priceToIndex(r)
        BY <1>0, <1>4, <1>6, <3>1 DEF o
      <4>2. \A j \in 1 .. Len(orders_at_price'[r]) : orders_at_price'[r][j] = m => j = i
        BY <1>3, <1>4, <3>1
      <4> QED
        BY <1>6, <4>1, <4>2
    <3>2. CASE r = p /\ i # Len(q) + 1
      <4>1. i \in 1 .. Len(q) /\ orders_at_price'[r][i] = q[i]
        BY <1>3, <1>4, <3>2
      <4>2. /\ q[i] \in Pooled /\ q[i] # m
            /\ priceToIndex(order_pool_[q[i]].price) = priceToIndex(p)
            /\ \A j \in 1 .. Len(q) : q[j] = q[i] => j = i
        BY <1>3, <1>12, <4>1
      <4>3. ASSUME NEW j \in 1 .. Len(orders_at_price'[r]), orders_at_price'[r][j] = q[i]
            PROVE  j = i
        <5>1. orders_at_price'[r] = Append(q, m) /\ j \in 1 .. Len(q) + 1
          BY <1>4, <3>2
        <5>2. j # Len(q) + 1
          BY <1>4, <4>2, <4>3, <5>1
        <5>3. j \in 1 .. Len(q) /\ q[j] = q[i]
          BY <1>3, <1>4, <4>3, <5>1, <5>2
        <5> QED
          BY <4>2, <5>3
      <4> QED
        BY <1>6, <3>2, <4>1, <4>2, <4>3
    <3>3. CASE r # p
      <4>1. /\ orders_at_price[r][i] \in Pooled
            /\ priceToIndex(order_pool_[orders_at_price[r][i]].price) = priceToIndex(r)
            /\ \A j \in 1 .. Len(orders_at_price[r]) :
                 orders_at_price[r][j] = orders_at_price[r][i] => j = i
        BY <1>4, <3>3 DEF Book, LevelsAndOrdersAgree
      <4> QED
        BY <1>4, <1>6, <3>3, <4>1
    <3> QED
      BY <3>1, <3>2, <3>3
  <2>2. ASSUME NEW n \in Pooled'
        PROVE  \E r \in Prices : \E i \in 1 .. Len(orders_at_price'[r]) :
                 orders_at_price'[r][i] = n
    <3>1. CASE n = m
      <4>1. /\ Len(q) + 1 \in 1 .. Len(orders_at_price'[p])
            /\ orders_at_price'[p][Len(q) + 1] = n
        BY <1>3, <1>4, <3>1
      <4> QED
        BY <1>0, <4>1
    <3>2. CASE n \in Pooled
      <4>1. PICK r \in Prices : \E i \in 1 .. Len(orders_at_price[r]) :
                                   orders_at_price[r][i] = n
        BY <3>2 DEF Book, LevelsAndOrdersAgree
      <4>2. CASE r = p
        <5>1. PICK i \in 1 .. Len(q) : q[i] = n
          BY <4>1, <4>2
        <5>2. i \in 1 .. Len(orders_at_price'[p]) /\ orders_at_price'[p][i] = n
          BY <1>3, <1>4, <5>1
        <5> QED
          BY <1>0, <5>2
      <4>3. CASE r # p
        BY <1>4, <4>1, <4>3
      <4> QED
        BY <4>2, <4>3
    <3> QED
      BY <1>6, <3>1, <3>2
  <2>3. \A a, b \in Levels' : priceToIndex(a) = priceToIndex(b) => a = b
    <3>1. \A a \in Levels : priceToIndex(a) = priceToIndex(p) => a = p
      BY <1>14, <1>13, LevelAtIsTheLevel DEF Book, p
    <3> QED
      BY <1>5, <3>1 DEF Book, LevelsAndOrdersAgree
  <2> QED
    BY <2>1, <2>2, <2>3 DEF LevelsAndOrdersAgree
<1>9. CidMapSound'
  <2> SUFFICES ASSUME NEW c \in Clients, NEW x \in OrderIds,
                      cid_oid_to_order_'[c][x] # Null
               PROVE  LET n == cid_oid_to_order_'[c][x]
                      IN  /\ n \in Pooled'
                          /\ order_pool_'[n].client = c /\ order_pool_'[n].oid = x
    BY DEF CidMapSound
  <2>1. CASE c = job.client /\ x = job.oid
    <3>1. cid_oid_to_order_'[c][x] = m
      BY <1>0, <1>2, <2>1 DEF Book, PoolTypes
    <3> QED
      BY <1>6, <2>1, <3>1 DEF o
  <2>2. CASE ~(c = job.client /\ x = job.oid)
    <3>1. cid_oid_to_order_'[c][x] = cid_oid_to_order_[c][x]
      BY <1>0, <1>2, <2>2 DEF Book, PoolTypes
    <3>2. /\ cid_oid_to_order_[c][x] \in Pooled
          /\ order_pool_[cid_oid_to_order_[c][x]].client = c
          /\ order_pool_[cid_oid_to_order_[c][x]].oid = x
      BY <3>1 DEF Book, CidMapSound
    <3> QED
      BY <1>6, <3>1, <3>2
  <2> QED
    BY <2>1, <2>2
<1>10. SidesApart'
  <2>1. order_pool_'[m].price \in Limits(order_pool_'[m].side)
    BY <1>0, <1>6 DEF o
  <2> QED
    BY <1>6, <2>1 DEF Book, SidesApart, Limits
<1>11. FreshIds'
  BY <1>0, <1>2, <1>6 DEF FreshIds
<1> QED
  BY <1>5, <1>7, <1>8, <1>9, <1>10, <1>11 DEF p

-------------------------------------------------------------------------------
(* The steps.                                                                  *)

\* A message has the fields of its struct, with values of their types.
LEMMA ResponseTypes ==
  ASSUME NEW type \in {"ACCEPTED", "FILLED", "CANCELED", "CANCEL_REJECTED"},
         NEW c \in Clients, NEW o \in OrderIds, NEW m \in OrNull(MOids),
         NEW side \in OrNull(Sides), NEW p \in OrNull(Prices),
         NEW exec \in OrNull(Nat), NEW leaves \in OrNull(Nat)
  PROVE  MEClientResponse(type, c, o, m, side, p, exec, leaves) \in ClientResponses
BY DEF MEClientResponse, ClientResponses

LEMMA UpdateTypes ==
  ASSUME NEW type \in {"ADD", "MODIFY", "CANCEL", "TRADE"},
         NEW m \in OrNull(MOids), NEW side \in Sides, NEW p \in Prices,
         NEW q \in Nat, NEW priority \in OrNull(Nat)
  PROVE  MEMarketUpdate(type, m, side, p, q, priority) \in MarketUpdates
BY DEF MEMarketUpdate, MarketUpdates

\* The messages of a step are no more than two on each queue.
LEMMA ShortSeqs ==
  ASSUME NEW S, NEW a \in S, NEW b \in S
  PROVE  <<>> \in Seq(S) /\ <<a>> \in Seq(S) /\ <<a, b>> \in Seq(S)
OBVIOUS

\* The ring and what rests in it stay, and no search is going on that was not.
LEMMA SameRingInv ==
  ASSUME RingInv, UNCHANGED <<order_pool_, orders_at_price, levelVars>>,
         job' \in {job, Null} \/ job'.phase = "match"
  PROVE  RingInv'
<1>1. PICK R \in SUBSET Levels : Ring(R) /\ SellsOnly(R) /\ SearchIn(R)
  BY DEF RingInv
<1>2. UNCHANGED Levels
  BY DEF Levels
<1>3. Ring(R)' /\ SellsOnly(R)'
  BY <1>1, <1>2, SameRing DEF SellsOnly
<1>4. SearchIn(R)'
  BY <1>1 DEF SearchIn, levelVars
<1> QED
  BY <1>1, <1>2, <1>3, <1>4 DEF RingInv

\* The ring at the end of a call, or before its search.
LEMMA NoSearchInRing ==
  ASSUME NEW R, Ring(R)', SellsOnly(R)', job' = Null \/ job'.phase = "match"
  PROVE  RingInv'
BY DEF RingInv, SearchIn, Ring, AskLevels

\* A BUY order that is to rest shares no level with the ring: had the level a SELL
\* order, of that same price, the best one would be no dearer and the two matched.
LEMMA BuyRestsOutsideTheRing ==
  ASSUME LimitsApart, Book, JobOK, job \in Job, Unmatched, job.leaves > 0,
         job.side = "BUY", NEW R, Ring(R), SellsOnly(R)
  PROVE  LevelAt(job.price) \notin R
<1> DEFINE p == LevelAt(job.price)
           best == asks_at_price_
<1> USE NullFacts
<1>1. SUFFICES ASSUME p \in R PROVE FALSE
  OBVIOUS
<1>2. /\ p \in SellPrices /\ job.price \in BuyPrices /\ job # Null
      /\ priceToIndex(p) = priceToIndex(job.price)
  BY <1>1, LevelAtFacts DEF Ring, AskLevels, JobOK, Limits, Job, Unmatched
<1>3. ~OneSided
  BY <1>2 DEF OneSided
<1>4. job.price = p /\ SellsApart
  BY <1>2, <1>3, SidesCollideAtOnePriceOnly DEF LimitsApart
<1>5. best \in R /\ best <= p /\ best \in AskLevels /\ best \in SellPrices /\ best \in Prices
  BY <1>1, Zenon DEF Ring, Sorted, OrNull, AskLevels, Levels
<1> DEFINE q == orders_at_price[best]
<1>6. q \in Seq(MOids) /\ q # <<>>
  BY <1>5 DEF AskLevels, Levels, Book, PoolTypes
<1>7. 1 \in 1 .. Len(q) /\ Head(q) = q[1]
  BY <1>6
<1>8. /\ q[1] \in Pooled /\ order_pool_[q[1]].side = "SELL"
      /\ priceToIndex(order_pool_[q[1]].price) = priceToIndex(best)
  BY <1>5, <1>7 DEF SellsOnly, Book, LevelsAndOrdersAgree, Levels, AskLevels
<1>9. order_pool_[q[1]].price = best
  BY <1>4, <1>5, <1>8 DEF SellsApart, Book, SidesApart, Limits
<1>10. Opposite(job.side) = best /\ best # Null /\ BestOrder = q[1]
  BY <1>5, <1>7 DEF Opposite, BestOrder
<1>11. Marketable
  <2>1. job.price >= best
    BY <1>4, <1>5
  <2> QED
    BY <1>9, <1>10, <2>1 DEF Marketable
<1> QED
  BY <1>11 DEF Unmatched

\* The tail of add() puts no BUY order into the ring, S, that R has become.
LEMMA RestKeepsSellsOnly ==
  ASSUME Book, job \in Job, job.moid \notin Pooled, Rest, NEW R, Ring(R), SellsOnly(R),
         NEW S \in SUBSET Prices, S \ R \subseteq {LevelAt(job.price)} \ Levels,
         LevelAt(job.price) \in S => job.side = "SELL"
  PROVE  SellsOnly(S)'
<1> DEFINE m == job.moid
           p == LevelAt(job.price)
           q == orders_at_price[p]
<1>1. /\ m \in MOids /\ p \in Prices /\ q \in Seq(MOids)
      /\ orders_at_price' = [orders_at_price EXCEPT ![p] = Append(q, m)]
      /\ order_pool_'[m].side = job.side
      /\ \A n \in Pooled : n # m /\ order_pool_'[n] = order_pool_[n]
  BY LevelAtFacts DEF Rest, Job, Book, PoolTypes, Pooled
<1> HIDE DEF p
<1>2. /\ orders_at_price'[p] = Append(q, m)
      /\ \A r \in Prices \ {p} : orders_at_price'[r] = orders_at_price[r]
  BY <1>1 DEF Book, PoolTypes
<1>3. /\ Len(Append(q, m)) = Len(q) + 1
      /\ Append(q, m)[Len(q) + 1] = m
      /\ \A i \in 1 .. Len(q) : Append(q, m)[i] = q[i]
  BY <1>1
<1> SUFFICES ASSUME NEW r \in S, NEW i \in 1 .. Len(orders_at_price'[r])
             PROVE  order_pool_'[orders_at_price'[r][i]].side = "SELL"
  BY DEF SellsOnly
<1>4. CASE r = p /\ i = Len(q) + 1
  BY <1>1, <1>2, <1>3, <1>4 DEF p
<1>5. CASE ~(r = p /\ i = Len(q) + 1)
  <2>1. i \in 1 .. Len(orders_at_price[r]) /\ orders_at_price'[r][i] = orders_at_price[r][i]
    <3>1. CASE r = p
      BY <1>1, <1>2, <1>3, <1>5, <3>1
    <3>2. CASE r # p
      BY <1>2, <3>2
    <3> QED
      BY <3>1, <3>2
  <2>2. r \in R
    <3>1. orders_at_price[r] # <<>>
      BY <2>1
    <3>2. r \in Levels
      BY <3>1 DEF Levels
    <3> QED
      BY <3>2 DEF p
  <2>3. /\ order_pool_[orders_at_price[r][i]].side = "SELL"
        /\ orders_at_price[r][i] \in Pooled
    BY <2>1, <2>2 DEF SellsOnly, Book, LevelsAndOrdersAgree
  <2> QED
    BY <1>1, <2>1, <2>3
<1> QED
  BY <1>4, <1>5

\* The head of add(): the new id is one that no order in the book has.
LEMMA AcceptKeepsIInv ==
  ASSUME IInv, NEW c \in Clients, NEW o \in OrderIds, NEW side \in Sides,
         NEW p \in Limits(side), NEW q \in Qtys, Accept(c, o, side, p, q)
  PROVE  IInv'
<1> USE NullFacts
<1>1. p \in Prices /\ q \in Nat
  BY BookConstants DEF Limits, Prices
<1>2. /\ next_market_order_id_ \in MOids /\ next_market_order_id_ \in Nat
      /\ next_market_order_id_' = next_market_order_id_ + 1
      /\ status' = status /\ UNCHANGED bookVars
      /\ job' = [moid |-> next_market_order_id_, client |-> c, oid |-> o,
                 side |-> side, price |-> p, leaves |-> q,
                 phase |-> "match", target |-> Null]
      /\ resp' = <<MEClientResponse("ACCEPTED", c, o, next_market_order_id_,
                                    side, p, 0, q)>>
      /\ upd' = <<>>
  BY DEF Accept, Emit
<1>3. Book' /\ UNCHANGED Pooled
  BY <1>2, SameBook DEF IInv, Book, PoolTypes
<1>4. CallTypes'
  <2>1. job' \in Job
    BY <1>1, <1>2 DEF Job
  <2>2. next_market_order_id_' \in 1 .. MaxOrders + 1
    BY <1>2, BookConstants DEF MOids
  <2> QED
    BY <2>1, <2>2 DEF CallTypes, OrNull
<1>5. MessageTypes'
  <2>1. MEClientResponse("ACCEPTED", c, o, next_market_order_id_, side, p, 0, q)
          \in ClientResponses
    BY <1>1, <1>2, ResponseTypes DEF OrNull
  <2> QED
    BY <1>2, <2>1 DEF MessageTypes
<1>6. FreshIds'
  BY <1>2, <1>3 DEF IInv, FreshIds, Pooled
<1>7. JobOK'
  BY <1>2, <1>3 DEF IInv, JobOK, FreshIds, Limits
<1>8. RingInv'
  BY <1>2, SameRingInv DEF IInv, bookVars
<1> QED
  BY <1>3, <1>4, <1>5, <1>6, <1>7, <1>8 DEF IInv

LEMMA CancelRejectKeepsIInv ==
  ASSUME IInv, NEW c \in Clients, NEW o \in OrderIds, CancelReject(c, o)
  PROVE  IInv'
<1>1. /\ UNCHANGED <<status, job, next_market_order_id_>> /\ UNCHANGED bookVars
      /\ job = Null /\ upd' = <<>>
      /\ resp' = <<MEClientResponse("CANCEL_REJECTED", c, o, Null, Null, Null,
                                    Null, Null)>>
  BY DEF CancelReject, Emit
<1>2. Book' /\ UNCHANGED Pooled
  BY <1>1, SameBook DEF IInv, Book, PoolTypes
<1>3. MessageTypes'
  <2>1. MEClientResponse("CANCEL_REJECTED", c, o, Null, Null, Null, Null, Null)
          \in ClientResponses
    BY ResponseTypes DEF OrNull
  <2> QED
    BY <1>1, <2>1 DEF MessageTypes
<1>4. RingInv'
  BY <1>1, SameRingInv DEF IInv, bookVars
<1> QED
  BY <1>1, <1>2, <1>3, <1>4 DEF IInv, CallTypes, FreshIds, JobOK

\* cancel(): the client's map led to a block in use.
LEMMA CancelKeepsIInv ==
  ASSUME IInv, NEW c \in Clients, NEW o \in OrderIds, Cancel(c, o)
  PROVE  IInv'
<1> DEFINE m == cid_oid_to_order_[c][o]
           x == order_pool_[m]
<1>1. m \in Pooled /\ x \in MEOrder /\ m \in MOids
  BY PooledFacts DEF Cancel, IInv, Book, CidMapSound
<1>2. /\ removeOrder(m) /\ job = Null
      /\ UNCHANGED <<job, next_market_order_id_>>
      /\ \/ Emit(<<MEClientResponse("CANCELED", c, o, m, x.side, x.price,
                                    Null, x.qty)>>,
                 <<MEMarketUpdate("CANCEL", m, x.side, x.price, 0, x.priority)>>)
         \/ Emit(<<>>, <<>>)
  BY DEF Cancel
<1>3. Book' /\ Pooled' \subseteq Pooled
  BY <1>1, <1>2, RemoveOrderKeepsBook DEF IInv
<1>4. MessageTypes'
  <2>1. MEClientResponse("CANCELED", c, o, m, x.side, x.price, Null, x.qty)
          \in ClientResponses
    BY <1>1, ResponseTypes DEF MEOrder, OrNull
  <2>2. MEMarketUpdate("CANCEL", m, x.side, x.price, 0, x.priority)
          \in MarketUpdates
    BY <1>1, UpdateTypes DEF MEOrder, OrNull
  <2> QED
    BY <1>2, <2>1, <2>2, ShortSeqs DEF MessageTypes, Emit
<1>5. RingInv'
  <2>1. PICK R \in SUBSET Levels : Ring(R) /\ SellsOnly(R)
    BY DEF IInv, RingInv
  <2>2. PICK S \in SUBSET R : Ring(S)' /\ SellsOnly(S)'
    BY <1>1, <1>2, <2>1, RemoveOrderKeepsRing DEF IInv
  <2> QED
    BY <1>2, <2>2, NoSearchInRing
<1> QED
  BY <1>2, <1>3, <1>4, <1>5 DEF IInv, CallTypes, FreshIds, JobOK

\* A fill that leaves part of the resting order: it keeps its place.
LEMMA PartialFillKeepsBook ==
  ASSUME Book, NEW m \in Pooled, NEW fill \in Nat, fill < order_pool_[m].qty,
         order_pool_' = [order_pool_ EXCEPT ![m].qty = @ - fill],
         UNCHANGED <<status, orders_at_price, cid_oid_to_order_, levelVars>>
  PROVE  /\ Book' /\ UNCHANGED Pooled
         /\ \A n \in Pooled : order_pool_'[n].side = order_pool_[n].side
<1> USE NullFacts
<1>0. m \in MOids /\ order_pool_[m] \in MEOrder
  BY PooledFacts DEF Book
<1>1. UNCHANGED <<status, orders_at_price, cid_oid_to_order_, prev_entry_,
                  next_entry_, bids_at_price_, asks_at_price_, Levels, AskLevels>>
  BY DEF levelVars, Levels, AskLevels
<1>2. [order_pool_[m] EXCEPT !.qty = @ - fill] \in MEOrder
  BY <1>0 DEF MEOrder
<1>3. /\ order_pool_'[m] = [order_pool_[m] EXCEPT !.qty = @ - fill]
      /\ \A n \in MOids \ {m} : order_pool_'[n] = order_pool_[n]
      /\ order_pool_' \in [MOids -> OrNull(MEOrder)]
  BY <1>0, <1>2 DEF Book, PoolTypes, OrNull
<1>4. Pooled' = Pooled
  BY <1>0, <1>2, <1>3 DEF Pooled
<1>5. \A n \in Pooled : /\ order_pool_'[n].client = order_pool_[n].client
                        /\ order_pool_'[n].oid = order_pool_[n].oid
                        /\ order_pool_'[n].side = order_pool_[n].side
                        /\ order_pool_'[n].price = order_pool_[n].price
  <2> TAKE n \in Pooled
  <2>1. CASE n = m
    BY <1>0, <1>3, <2>1 DEF MEOrder
  <2>2. CASE n # m
    BY <1>3, <2>2 DEF Pooled
  <2> QED
    BY <2>1, <2>2
<1>6. PoolTypes' /\ PointerTypes'
  BY <1>1, <1>3 DEF Book, PoolTypes, PointerTypes
<1>7. LevelsAndOrdersAgree'
  <2>1. ASSUME NEW p \in Prices, NEW i \in 1 .. Len(orders_at_price[p])
        PROVE  LET n == orders_at_price[p][i]
               IN  /\ n \in Pooled'
                   /\ priceToIndex(order_pool_'[n].price) = priceToIndex(p)
                   /\ \A j \in 1 .. Len(orders_at_price[p]) :
                        orders_at_price[p][j] = n => j = i
    BY <1>4, <1>5 DEF Book, LevelsAndOrdersAgree
  <2> QED
    BY <1>1, <1>4, <2>1 DEF Book, LevelsAndOrdersAgree
<1>8. CidMapSound' /\ SidesApart'
  BY <1>1, <1>4, <1>5 DEF Book, CidMapSound, SidesApart, Limits
<1>9. Linked'
  BY <1>1 DEF Book, Linked, LinkedOn
<1> QED
  BY <1>4, <1>5, <1>6, <1>7, <1>8, <1>9 DEF Book

\* checkForMatch() finds an order in use: the head of the ring is a level in use,
\* and only a BUY order finds a head that is not null.
LEMMA BestOrderIsPooled ==
  ASSUME IInv, job \in Job, job.phase = "match", Marketable
  PROVE  BestOrder \in Pooled
<1>1. job.side = "BUY"
  BY DEF IInv, Book, Linked, Marketable, Opposite, Job
<1>2. asks_at_price_ \in Levels /\ Opposite(job.side) = asks_at_price_
  <2>1. PICK R \in SUBSET Levels : Ring(R)
    BY DEF IInv, RingInv
  <2> QED
    BY <1>1, <2>1 DEF Ring, Marketable, Opposite, OrNull
<1> DEFINE q == orders_at_price[asks_at_price_]
<1>3. q \in Seq(MOids) /\ q # <<>> /\ asks_at_price_ \in Prices
  BY <1>2 DEF Levels, IInv, Book, PoolTypes
<1>4. 1 \in 1 .. Len(q) /\ Head(q) = q[1]
  BY <1>3
<1>5. q[1] \in Pooled
  BY <1>3, <1>4 DEF IInv, Book, LevelsAndOrdersAgree
<1> QED
  BY <1>2, <1>4, <1>5 DEF BestOrder

LEMMA MatchKeepsIInv ==
  ASSUME IInv, match
  PROVE  IInv'
<1> DEFINE m == BestOrder
           o == order_pool_[m]
           fill == FillQty(job.leaves, o.qty)
<1> USE NullFacts
<1>1. job \in Job /\ job.phase = "match" /\ Marketable /\ job.leaves > 0
  BY DEF match, Marketable, IInv, CallTypes, OrNull
<1>2. m \in Pooled /\ m \in MOids /\ o \in MEOrder
  BY <1>1, BestOrderIsPooled, PooledFacts DEF IInv, Book
<1>3. job.leaves \in Nat /\ o.qty \in Nat \ {0}
  BY <1>1, <1>2 DEF Job, MEOrder
<1>4. fill \in Nat /\ fill <= job.leaves /\ fill <= o.qty
  BY <1>3 DEF FillQty
<1>5. /\ job' = [job EXCEPT !.leaves = @ - fill]
      /\ Emit(FillResponses(m, o, fill), <<Trade(o, fill), BookChange(m, o, fill)>>)
      /\ IF fill = o.qty
         THEN removeOrder(m)
         ELSE /\ order_pool_' = [order_pool_ EXCEPT ![m].qty = @ - fill]
              /\ UNCHANGED <<status, orders_at_price, cid_oid_to_order_, levelVars>>
      /\ UNCHANGED next_market_order_id_
  BY DEF match
<1> HIDE DEF m, o, fill
<1>6. Book' /\ Pooled' \subseteq Pooled
  <2>1. CASE fill = o.qty
    BY <1>2, <1>5, <2>1, RemoveOrderKeepsBook DEF IInv
  <2>2. CASE fill # o.qty
    <3>1. fill < o.qty
      BY <1>3, <1>4, <2>2
    <3> QED
      BY <1>2, <1>4, <1>5, <2>2, <3>1, PartialFillKeepsBook DEF IInv, o
  <2> QED
    BY <2>1, <2>2
<1>7. CallTypes'
  <2>1. job' \in Job
    BY <1>1, <1>3, <1>4, <1>5 DEF Job
  <2> QED
    BY <1>5, <2>1 DEF IInv, CallTypes, OrNull
<1>8. FreshIds'
  BY <1>5, <1>6 DEF IInv, FreshIds
<1>9. JobOK'
  <2>1. /\ job'.phase = "match" /\ job'.price = job.price
        /\ job'.side = job.side /\ job'.moid = job.moid
    BY <1>1, <1>5 DEF Job
  <2>2. /\ job.price \in Limits(job.side) /\ job.moid < next_market_order_id_
        /\ job.moid \notin Pooled
    BY <1>1 DEF IInv, JobOK
  <2> QED
    BY <1>5, <1>6, <2>1, <2>2 DEF JobOK, Limits
<1>10. MessageTypes'
  <2>1. /\ job.client \in Clients /\ job.oid \in OrderIds /\ job.moid \in MOids
        /\ job.side \in Sides /\ o.client \in Clients /\ o.oid \in OrderIds
        /\ o.side \in Sides /\ o.price \in Prices /\ o.priority \in Nat
        /\ job.leaves - fill \in Nat /\ o.qty - fill \in Nat
    BY <1>1, <1>2, <1>3, <1>4 DEF Job, MEOrder
  <2>2. MEClientResponse("FILLED", job.client, job.oid, job.moid, job.side,
                         o.price, fill, job.leaves - fill) \in ClientResponses
    BY <1>4, <2>1, ResponseTypes DEF OrNull
  <2>3. MEClientResponse("FILLED", o.client, o.oid, m, o.side,
                         o.price, fill, o.qty - fill) \in ClientResponses
    BY <1>2, <1>4, <2>1, ResponseTypes DEF OrNull
  <2>4. Trade(o, fill) \in MarketUpdates
    BY <1>4, <2>1, UpdateTypes DEF Trade, OrNull
  <2>5. BookChange(m, o, fill) \in MarketUpdates
    BY <1>2, <1>3, <1>4, <2>1, UpdateTypes DEF BookChange, OrNull
  <2>6. FillResponses(m, o, fill) \in Seq(ClientResponses)
    BY <2>2, <2>3, ShortSeqs DEF FillResponses
  <2>7. <<Trade(o, fill), BookChange(m, o, fill)>> \in Seq(MarketUpdates)
    BY <2>4, <2>5, ShortSeqs
  <2> QED
    BY <1>5, <2>6, <2>7 DEF MessageTypes, Emit
<1>11. RingInv'
  <2>1. PICK R \in SUBSET Levels : Ring(R) /\ SellsOnly(R)
    BY DEF IInv, RingInv
  <2>2. job'.phase = "match"
    BY <1>1, <1>5 DEF Job
  <2>3. CASE fill = o.qty
    <3>1. PICK S \in SUBSET R : Ring(S)' /\ SellsOnly(S)'
      BY <1>2, <1>5, <2>1, <2>3, RemoveOrderKeepsRing DEF IInv
    <3> QED
      BY <2>2, <3>1, NoSearchInRing
  <2>4. CASE fill # o.qty
    <3>1. fill < o.qty
      BY <1>3, <1>4, <2>4
    <3>2. \A n \in Pooled : order_pool_'[n].side = order_pool_[n].side
      BY <1>2, <1>4, <1>5, <2>4, <3>1, PartialFillKeepsBook DEF IInv, o
    <3>3. UNCHANGED levelVars /\ UNCHANGED orders_at_price /\ UNCHANGED Levels
      BY <1>5, <2>4 DEF Levels
    <3>4. Ring(R)'
      BY <2>1, <3>3, SameRing
    <3>5. \A p \in R : \A i \in 1 .. Len(orders_at_price[p]) :
            orders_at_price[p][i] \in Pooled
      BY <2>1 DEF IInv, Book, LevelsAndOrdersAgree, Levels
    <3>6. SellsOnly(R)'
      BY <2>1, <3>2, <3>3, <3>5 DEF SellsOnly
    <3> QED
      BY <2>2, <3>4, <3>6, NoSearchInRing
  <2> QED
    BY <2>3, <2>4
<1> QED
  BY <1>6, <1>7, <1>8, <1>9, <1>10, <1>11 DEF IInv

\* The order comes to rest, once its level is linked.
LEMMA RestKeepsIInv ==
  ASSUME IInv, job \in Job, job.leaves > 0, Rest, PointerTypes', Linked',
         RingInv'
  PROVE  IInv'
<1>1. /\ PoolTypes' /\ LevelsAndOrdersAgree' /\ CidMapSound' /\ SidesApart'
      /\ FreshIds'
  BY RestKeepsBook DEF IInv
<1>2. CallTypes' /\ JobOK'
  BY DEF Rest, IInv, CallTypes, JobOK, OrNull
<1>3. MessageTypes'
  <2>1. /\ job.moid \in OrNull(MOids) /\ job.side \in Sides /\ job.price \in Prices
        /\ job.leaves \in Nat /\ getNextPriority(job.price) \in OrNull(Nat)
    BY PriorityIsPositive DEF IInv, Job, OrNull
  <2>2. MEMarketUpdate("ADD", job.moid, job.side, job.price, job.leaves,
                       getNextPriority(job.price)) \in MarketUpdates
    BY <2>1, UpdateTypes
  <2> QED
    BY <2>2, ShortSeqs DEF Rest, Emit, MessageTypes
<1> QED
  BY <1>1, <1>2, <1>3 DEF IInv, Book

LEMMA RestAtLevelKeepsIInv ==
  ASSUME LimitsApart, IInv, RestAtLevel
  PROVE  IInv'
<1>1. /\ job \in Job /\ job # Null /\ job.leaves > 0 /\ Rest /\ ~NewLevel
      /\ UNCHANGED levelVars /\ Unmatched
  BY DEF RestAtLevel, Unmatched, IInv, CallTypes, OrNull
<1>2. LevelAt(job.price) \in Levels
  BY <1>1, LevelAtFacts DEF NewLevel, Levels, Job
<1>3. Levels' = Levels
  BY <1>1, <1>2, RestKeepsBook DEF IInv
<1>4. PointerTypes' /\ Linked'
  BY <1>1, <1>3 DEF IInv, Book, PointerTypes, Linked, LinkedOn, levelVars
<1>5. RingInv'
  <2>1. PICK R \in SUBSET Levels : Ring(R) /\ SellsOnly(R)
    BY DEF IInv, RingInv
  <2>2. Ring(R)'
    BY <1>1, <1>3, <2>1, SameRing
  <2>3. LevelAt(job.price) \in R => job.side = "SELL"
    BY <1>1, <2>1, BuyRestsOutsideTheRing DEF IInv, Book, SidesKnown, Job
  <2>4. R \in SUBSET Prices /\ job.moid \notin Pooled
    BY <1>1 DEF Levels, IInv, JobOK
  <2>5. SellsOnly(R)'
    BY <1>1, <2>1, <2>3, <2>4, RestKeepsSellsOnly DEF IInv
  <2> QED
    BY <1>1, <2>2, <2>5, NoSearchInRing DEF Rest
<1> QED
  BY <1>1, <1>4, <1>5, RestKeepsIInv

LEMMA RestAtNewLevelKeepsIInv ==
  ASSUME IInv, RestAtNewLevel
  PROVE  IInv'
<1> USE NullFacts
<1>1. /\ job \in Job /\ job # Null /\ job.leaves > 0 /\ Rest
      /\ NewLevel /\ job.price \in Limits(job.side) /\ job.price \in Prices
      /\ job.side \in Sides /\ job.side \in {"BUY", "SELL"} /\ job.moid \notin Pooled
  BY DEF RestAtNewLevel, Unmatched, IInv, Book, SidesKnown, CallTypes, OrNull, JobOK, Job
<1>2. job.price \notin Levels /\ LevelAt(job.price) = job.price
  BY <1>1, LevelAtFacts DEF NewLevel, Levels
<1>3. Levels' = Levels \cup {job.price}
  BY <1>1, <1>2, RestKeepsBook DEF IInv
<1>4. PICK R \in SUBSET Levels : Ring(R) /\ SellsOnly(R)
  BY DEF IInv, RingInv
<1>5. ASSUME NEW S \in SUBSET (R \cup {job.price}), Ring(S)', PointerTypes', Linked',
             job.price \in S => job.side = "SELL"
      PROVE  IInv'
  <2>1. S \in SUBSET Prices /\ S \ R \subseteq {LevelAt(job.price)} \ Levels
    BY <1>1, <1>2 DEF Levels
  <2>2. SellsOnly(S)'
    BY <1>1, <1>2, <1>4, <1>5, <2>1, RestKeepsSellsOnly DEF IInv
  <2> QED
    BY <1>1, <1>5, <2>2, NoSearchInRing, RestKeepsIInv DEF Rest
<1>6. CASE Best(job.side) = Null /\ LinkAlone(job.side, job.price)
  <2>1. PICK S : S = IF job.side = "SELL" THEN {job.price} ELSE R
    OBVIOUS
  <2>2. Ring(S)'
    BY <1>1, <1>2, <1>3, <1>4, <1>6, <2>1, LinkAloneKeepsRing DEF IInv, Book
  <2>3. PointerTypes' /\ Linked'
    BY <1>1, <1>2, <1>3, <1>6, LinkAloneKeepsLinked DEF IInv, Book
  <2> QED
    BY <1>2, <1>5, <2>1, <2>2, <2>3
<1>7. CASE /\ Best(job.side) # Null
           /\ ~AddAfter(job.side, job.price, Best(job.side))
           /\ LinkBefore(job.side, job.price, Best(job.side))
  <2>1. job.side = "SELL" /\ Best(job.side) = asks_at_price_
    BY <1>1, <1>7 DEF Best, IInv, Book, Linked
  <2>2. /\ asks_at_price_ \in R /\ asks_at_price_ \in AskLevels
        /\ asks_at_price_ \in Levels /\ job.price \in SellPrices
    BY <1>1, <1>4, <1>7, <2>1 DEF Ring, OrNull, Limits
  <2>3. LinkBefore("SELL", job.price, asks_at_price_)
    BY <1>7, <2>1
  <2>4. job.price < asks_at_price_
    <3>1. job.price # asks_at_price_ /\ asks_at_price_ \in Int /\ job.price \in Int
      BY <1>1, <1>2, <2>2 DEF Levels
    <3>2. ~(job.price > asks_at_price_)
      BY <1>7, <2>1 DEF AddAfter
    <3> QED
      BY <3>1, <3>2
  <2>5. PICK S : S = R \cup {job.price}
    OBVIOUS
  <2>6. Ring(S)'
    BY <1>2, <1>3, <1>4, <2>2, <2>3, <2>4, <2>5, LinkBeforeKeepsRing DEF IInv, Book
  <2>7. PointerTypes' /\ Linked'
    BY <1>2, <1>3, <2>2, <2>3, LinkBeforeKeepsLinked DEF IInv, Book
  <2> QED
    BY <1>5, <2>1, <2>5, <2>6, <2>7
<1> QED
  BY <1>6, <1>7 DEF RestAtNewLevel

\* The search starts at, and moves to, the level after one of the ring.
LEMMA SearchKeepsIInv ==
  ASSUME IInv, SearchLevel \/ SearchNext
  PROVE  IInv'
<1> USE NullFacts
<1>1. /\ job \in Job /\ job # Null /\ status' = status
      /\ UNCHANGED bookVars /\ UNCHANGED next_market_order_id_
      /\ resp' = <<>> /\ upd' = <<>>
  BY DEF SearchLevel, SearchNext, Unmatched, Searching, IInv, CallTypes, OrNull, Emit
<1>0. PICK R \in SUBSET Levels : Ring(R) /\ SellsOnly(R) /\ SearchIn(R)
  BY DEF IInv, RingInv
<1>r. R \subseteq Int /\ R \subseteq Prices /\ LinkedOn(R) /\ Sorted(R)
  BY <1>0, RingIsLinked DEF IInv, Book, Ring
<1>2. PICK from \in R :
        /\ asks_at_price_ # Null /\ from < job.price
        /\ job' = [job EXCEPT !.phase = "link", !.target = next_entry_[from]]
        /\ job.leaves > 0 /\ job.side = "SELL" /\ HasNoLevel(job.price)
        /\ job.price > asks_at_price_
  <2>1. CASE SearchLevel
    <3>1. job.phase = "match" /\ job.leaves > 0 /\ Best(job.side) # Null
          /\ HasNoLevel(job.price)
          /\ AddAfter(job.side, job.price, Best(job.side))
          /\ job' = [job EXCEPT !.phase = "link",
                                !.target = next_entry_[Best(job.side)]]
      BY <1>1, <2>1, LevelAtFacts DEF SearchLevel, Unmatched, NewLevel, Levels, Job
    <3>2. job.side = "SELL" /\ Best(job.side) = asks_at_price_
      BY <1>1, <3>1 DEF Best, IInv, Book, SidesKnown, Linked, Job
    <3>3. asks_at_price_ \in R /\ job.price > asks_at_price_
      BY <1>0, <3>1, <3>2 DEF AddAfter, Ring, OrNull
    <3>4. asks_at_price_ \in Int /\ job.price \in Int
      BY <1>1, <1>r, <3>3 DEF Job
    <3> QED
      BY <3>1, <3>2, <3>3, <3>4
  <2>2. CASE SearchNext
    <3>1. job.phase = "link" /\ job.target # Null
          /\ AddAfter(job.side, job.price, job.target)
          /\ job' = [job EXCEPT !.target = next_entry_[job.target]]
      BY <2>2 DEF SearchNext, Searching
    <3>2. job' = [job EXCEPT !.phase = "link", !.target = next_entry_[job.target]]
      BY <1>1, <3>1 DEF Job
    <3>3. /\ job.side = "SELL" /\ asks_at_price_ # Null /\ job.leaves > 0
          /\ HasNoLevel(job.price) /\ job.price > asks_at_price_
      BY <1>1, <3>1 DEF IInv, JobOK
    <3>4. job.target \in R
      BY <1>0, <1>1, <3>1 DEF SearchIn, OrNull
    <3>5. job.price > job.target /\ job.price \in Int /\ job.target \in Int
      BY <1>1, <1>r, <3>1, <3>3, <3>4 DEF AddAfter, Job
    <3> QED
      BY <3>2, <3>3, <3>4, <3>5
  <2> QED
    BY <2>1, <2>2
<1>3. Book' /\ UNCHANGED <<Pooled, Levels, AskLevels, prev_entry_, next_entry_,
                          asks_at_price_>>
  BY <1>1, SameBook DEF IInv, Book, PoolTypes
<1>4. /\ next_entry_[from] \in OrNull(R)
      /\ next_entry_[from] # Null => prev_entry_[next_entry_[from]] = from
  BY <1>2, <1>r DEF LinkedOn, OrNull
<1>5. job' \in Job
  BY <1>1, <1>2, <1>4, <1>r DEF Job, OrNull
<1>6. CallTypes' /\ FreshIds' /\ MessageTypes'
  BY <1>1, <1>3, <1>5, ShortSeqs DEF IInv, CallTypes, FreshIds, MessageTypes, OrNull
<1>8. /\ job'.moid = job.moid /\ job'.price = job.price /\ job'.side = job.side
      /\ job'.leaves = job.leaves /\ job'.target = next_entry_[from]
  BY <1>1, <1>2 DEF Job
<1>7. JobOK'
  <2>1. /\ job.price \in Limits(job.side) /\ job.moid < next_market_order_id_
        /\ job.moid \notin Pooled
    BY <1>1 DEF IInv, JobOK
  <2> QED
    BY <1>1, <1>2, <1>3, <1>4, <1>8, <2>1 DEF JobOK, HasNoLevel, Limits, OrNull
<1>9. ASSUME NEW p \in R,
             next_entry_[from] \in {Null, asks_at_price_} \/ p < next_entry_[from]
      PROVE  p < job.price
  <2>1. p <= from
    <3>1. CASE next_entry_[from] = Null
      BY <1>r, <3>1 DEF Sorted
    <3>2. CASE next_entry_[from] = asks_at_price_
      <4>1. prev_entry_[asks_at_price_] = from /\ asks_at_price_ \in R
        BY <1>2, <1>4, <3>2 DEF OrNull
      <4> QED
        BY <1>r, <4>1 DEF Sorted
    <3>3. CASE next_entry_[from] \notin {Null, asks_at_price_}
      <4>1. /\ next_entry_[from] \in R
            /\ prev_entry_[next_entry_[from]] = from
        BY <1>4, <3>3 DEF OrNull
      <4> QED
        BY <1>9, <1>r, <3>3, <4>1 DEF Sorted
    <3> QED
      BY <3>1, <3>2, <3>3
  <2>2. job.price \in Int
    BY <1>1 DEF Job
  <2> QED
    BY <1>2, <1>r, <2>1, <2>2
<1>10. RingInv'
  <2>1. UNCHANGED levelVars
    BY <1>1 DEF bookVars
  <2>2. Ring(R)'
    BY <1>0, <1>3, <2>1, SameRing
  <2>3. SellsOnly(R)'
    BY <1>0, <1>1 DEF SellsOnly, bookVars
  <2>4. SearchIn(R)'
    BY <1>3, <1>4, <1>8, <1>9 DEF SearchIn, OrNull
  <2> QED
    BY <1>3, <2>2, <2>3, <2>4 DEF RingInv
<1> QED
  BY <1>3, <1>6, <1>7, <1>10 DEF IInv

LEMMA LinkFoundKeepsIInv ==
  ASSUME IInv, LinkFound
  PROVE  IInv'
<1> USE NullFacts
<1>1. job \in Job /\ job # Null /\ job.phase = "link" /\ Rest /\ job.target # Null
  BY DEF LinkFound, Searching, IInv, CallTypes, OrNull
<1>2. PICK R \in SUBSET Levels : Ring(R) /\ SellsOnly(R) /\ SearchIn(R)
  BY DEF IInv, RingInv
<1>3. /\ job.leaves > 0 /\ job.side = "SELL" /\ job.price \in SellPrices
      /\ job.price \notin Levels /\ asks_at_price_ # Null /\ job.moid \notin Pooled
      /\ job.price > asks_at_price_ /\ job.price \in Prices
      /\ next_entry_[prev_entry_[job.target]] = job.target
      /\ Best(job.side) = asks_at_price_
  BY <1>1 DEF IInv, JobOK, HasNoLevel, Limits, Best, Job
<1>4. /\ job.target \in R
      /\ \A q \in R : job.target = asks_at_price_ \/ q < job.target => q < job.price
  BY <1>1, <1>2 DEF SearchIn, OrNull
<1>5. /\ asks_at_price_ \in AskLevels /\ asks_at_price_ \in Levels
      /\ job.target \in AskLevels /\ job.target \in Int /\ job.price \in Int
  BY <1>2, <1>3, <1>4 DEF Ring, OrNull, AskLevels, Levels
<1>6. LevelAt(job.price) = job.price
  BY <1>1, LevelAtFacts DEF IInv, JobOK, HasNoLevel, Job
<1>7. Levels' = Levels \cup {job.price}
  BY <1>1, <1>3, <1>6, RestKeepsBook DEF IInv
<1>8. PICK S : S = R \cup {job.price}
  OBVIOUS
<1>9. Ring(S)' /\ PointerTypes' /\ Linked'
  <2>1. CASE job.target = asks_at_price_ /\ LinkLast("SELL", job.price)
    <3>1. \A q \in R : q < job.price
      BY <1>4, <2>1
    <3>2. PointerTypes' /\ Linked'
      BY <1>3, <1>5, <1>7, <2>1, LinkLastKeepsLinked DEF IInv, Book
    <3>3. next_entry_[prev_entry_[asks_at_price_]] = asks_at_price_
      BY <1>3, <2>1
    <3>4. Ring(S)'
      BY <1>2, <1>3, <1>7, <1>8, <2>1, <3>1, <3>3, LinkLastKeepsRing DEF IInv, Book
    <3> QED
      BY <3>2, <3>4
  <2>2. CASE /\ job.target # asks_at_price_
             /\ ~AddAfter("SELL", job.price, job.target)
             /\ LinkBefore("SELL", job.price, job.target)
    <3>1. job.price < job.target
      <4>1. job.price # job.target
        BY <1>3, <1>5 DEF AskLevels
      <4>2. ~(job.price > job.target)
        BY <2>2 DEF AddAfter
      <4> QED
        BY <1>5, <4>1, <4>2
    <3>2. PointerTypes' /\ Linked'
      BY <1>3, <1>5, <1>7, <2>2, LinkBeforeKeepsLinked DEF IInv, Book
    <3>3. Ring(S)'
      BY <1>2, <1>3, <1>4, <1>7, <1>8, <2>2, <3>1, LinkBeforeKeepsRing DEF IInv, Book
    <3> QED
      BY <3>2, <3>3
  <2> QED
    BY <1>3, <2>1, <2>2 DEF LinkFound
<1>10. SellsOnly(S)'
  <2>1. S \in SUBSET Prices /\ S \ R \subseteq {LevelAt(job.price)} \ Levels
    BY <1>3, <1>6, <1>8 DEF Levels
  <2> QED
    BY <1>1, <1>2, <1>3, <2>1, RestKeepsSellsOnly DEF IInv
<1> QED
  BY <1>1, <1>3, <1>9, <1>10, NoSearchInRing, RestKeepsIInv DEF Rest

\* add() returns with nothing to rest, or the process ends in it.
LEMMA LastStepsKeepIInv ==
  ASSUME IInv, Complete \/ Crash
  PROVE  IInv'
<1>1. /\ UNCHANGED bookVars /\ UNCHANGED next_market_order_id_
      /\ status' \in Statuses /\ job' \in {job, Null}
      /\ resp' = <<>> /\ upd' = <<>>
  BY DEF Complete, Crash, Die, Unmatched, Emit, Statuses
<1>2. Book' /\ UNCHANGED <<Pooled, Levels, AskLevels, prev_entry_, next_entry_,
                          asks_at_price_>>
  BY <1>1, SameBook DEF IInv
<1>3. CallTypes' /\ MessageTypes' /\ FreshIds'
  BY <1>1, <1>2, ShortSeqs DEF IInv, CallTypes, MessageTypes, FreshIds, OrNull
<1>4. JobOK'
  <2>1. CASE job' = Null
    BY <2>1 DEF JobOK
  <2>2. CASE job' = job
    BY <1>1, <1>2, <2>2 DEF IInv, JobOK, HasNoLevel, OrNull, Limits
  <2> QED
    BY <1>1, <2>1, <2>2
<1>5. RingInv'
  BY <1>1, SameRingInv DEF IInv, bookVars
<1> QED
  BY <1>2, <1>3, <1>4, <1>5 DEF IInv

\* A book that holds nothing, before the first request or after the destructor.
Empty ==
  /\ status \in Statuses
  /\ order_pool_ = NoOrders /\ orders_at_price = NoQueues
  /\ prev_entry_ = NoLinks /\ next_entry_ = NoLinks
  /\ bids_at_price_ = Null /\ asks_at_price_ = Null
  /\ cid_oid_to_order_ = NoClientOrders

LEMMA EmptyIsBook ==
  ASSUME SidesKnown
  PROVE  Empty =>
           /\ Book /\ Pooled = {} /\ PriorityOrder
           /\ Ring({}) /\ SellsOnly({}) /\ Levels = {}
<1> SUFFICES ASSUME Empty
             PROVE  /\ Book /\ Pooled = {} /\ PriorityOrder
                    /\ Ring({}) /\ SellsOnly({}) /\ Levels = {}
  OBVIOUS
<1> USE NullFacts DEF Empty
<1>1. Pooled = {} /\ Levels = {} /\ AskLevels = {}
  BY DEF Pooled, Levels, AskLevels, NoOrders, NoQueues
<1>2. PoolTypes
  <2>1. <<>> \in Seq(MOids)
    OBVIOUS
  <2> QED
    BY <2>1 DEF PoolTypes, OrNull, NoOrders, NoQueues, NoClientOrders
<1>3. PointerTypes /\ Linked
  BY <1>1 DEF PointerTypes, Linked, LinkedOn, OrNull, NoLinks
<1>8. Ring({}) /\ SellsOnly({})
  BY <1>1 DEF Ring, Sorted, SellsOnly, OrNull
<1>4. \A p \in Prices : Len(orders_at_price[p]) = 0
  BY DEF NoQueues
<1>5. LevelsAndOrdersAgree /\ SidesApart
  <2>1. \A p \in Prices : 1 .. Len(orders_at_price[p]) = {}
    BY <1>4
  <2> QED
    BY <1>1, <2>1, Zenon DEF LevelsAndOrdersAgree, SidesApart
<1>7. PriorityOrder
  BY <1>4 DEF PriorityOrder
<1>6. CidMapSound
  BY DEF CidMapSound, NoClientOrders
<1> QED
  BY <1>1, <1>2, <1>3, <1>5, <1>6, <1>7, <1>8 DEF Book

LEMMA CloseEmpties ==
  ASSUME SidesKnown
  PROVE  Close =>
           /\ Book' /\ Pooled' = {} /\ PriorityOrder'
           /\ Ring({})' /\ SellsOnly({})'
<1>1. Close => Empty'
  BY DEF Close, Empty, Statuses
<1>2. Empty' => (/\ Book /\ Pooled = {} /\ PriorityOrder
                 /\ Ring({}) /\ SellsOnly({}))'
  BY EmptyIsBook, PTL
<1> QED
  BY <1>1, <1>2

\* The destructor: the process dies in it, or the book is empty.
LEMMA DestroyCases ==
  ASSUME Destroy
  PROVE  /\ job = Null /\ UNCHANGED <<job, next_market_order_id_>>
         /\ resp' = <<>> /\ upd' = <<>>
         /\ Close \/ (status' \in Statuses /\ UNCHANGED bookVars)
<1>1. Close \/ Die("segv") \/ Die("unsorted")
  BY Zenon DEF Destroy
<1> QED
  BY <1>1 DEF Destroy, Die, Emit, Statuses

LEMMA DestroyKeepsIInv ==
  ASSUME IInv, Destroy
  PROVE  IInv'
<1>1. Book' /\ Pooled' \subseteq Pooled
  BY DestroyCases, CloseEmpties, SameBook DEF IInv, Book
<1>2. CallTypes' /\ MessageTypes' /\ FreshIds' /\ JobOK'
  BY <1>1, DestroyCases, ShortSeqs DEF IInv, CallTypes, MessageTypes, FreshIds, JobOK
<1>3. RingInv'
  <2>1. CASE Close
    BY <2>1, DestroyCases, CloseEmpties, NoSearchInRing DEF IInv, Book
  <2>2. CASE UNCHANGED bookVars
    BY <2>2, DestroyCases, SameRingInv DEF IInv, bookVars
  <2> QED
    BY <2>1, <2>2, DestroyCases
<1> QED
  BY <1>1, <1>2, <1>3 DEF IInv

-------------------------------------------------------------------------------
(* The specification.                                                          *)

LEMMA InitIInv == ASSUME SidesKnown PROVE Init => IInv
<1> SUFFICES ASSUME Init PROVE IInv
  OBVIOUS
<1> USE NullFacts DEF Init
<1>1. /\ Book /\ Pooled = {}
      /\ Ring({}) /\ SellsOnly({}) /\ Levels = {}
  BY EmptyIsBook DEF Empty, Statuses
<1>3. RingInv
  BY <1>1 DEF RingInv, SearchIn
<1>2. CallTypes /\ MessageTypes /\ JobOK /\ FreshIds
  BY <1>1, BookConstants DEF CallTypes, MessageTypes, JobOK, FreshIds, OrNull
<1> QED
  BY <1>1, <1>2, <1>3 DEF IInv

LEMMA NextIInv == ASSUME LimitsApart, IInv, [Next]_vars PROVE IInv'
<1>1. ASSUME NEW c \in Clients, NEW o \in OrderIds, NEW side \in Sides,
             NEW p \in Limits(side), NEW q \in Qtys, Accept(c, o, side, p, q)
      PROVE  IInv'
  BY <1>1, AcceptKeepsIInv
<1>2. ASSUME NEW c \in Clients, NEW o \in OrderIds, CancelReject(c, o)
      PROVE  IInv'
  BY <1>2, CancelRejectKeepsIInv
<1>3. ASSUME NEW c \in Clients, NEW o \in OrderIds, Cancel(c, o)
      PROVE  IInv'
  BY <1>3, CancelKeepsIInv
<1>4. CASE match
  BY <1>4, MatchKeepsIInv
<1>5. CASE RestAtLevel
  BY <1>5, RestAtLevelKeepsIInv
<1>6. CASE RestAtNewLevel
  BY <1>6, RestAtNewLevelKeepsIInv
<1>7. CASE SearchLevel \/ SearchNext
  BY <1>7, SearchKeepsIInv
<1>8. CASE LinkFound
  BY <1>8, LinkFoundKeepsIInv
<1>9. CASE Complete \/ Crash
  BY <1>9, LastStepsKeepIInv
<1>11. CASE Destroy
  BY <1>11, DestroyKeepsIInv
<1>10. CASE UNCHANGED vars
  <2>1. UNCHANGED <<status, job, next_market_order_id_, resp, upd>>
        /\ UNCHANGED bookVars
    BY <1>10 DEF vars
  <2>2. Book' /\ UNCHANGED <<Pooled, Levels, AskLevels, prev_entry_, next_entry_,
                            asks_at_price_>>
    BY <2>1, SameBook DEF IInv, Book, PoolTypes
  <2>3. CallTypes' /\ MessageTypes' /\ FreshIds'
    BY <2>1, <2>2 DEF IInv, CallTypes, MessageTypes, FreshIds
  <2>4. JobOK'
    BY <2>1, <2>2 DEF IInv, JobOK, HasNoLevel, OrNull, Limits
  <2>5. RingInv'
    BY <2>1, SameRingInv DEF IInv, bookVars
  <2> QED
    BY <2>2, <2>3, <2>4, <2>5 DEF IInv
<1> QED
  BY <1>1, <1>2, <1>3, <1>4, <1>5, <1>6, <1>7, <1>8, <1>9, <1>10, <1>11
     DEF Next, Step

THEOREM Invariance == LimitsApart => (Spec => []IInv)
<1> SUFFICES ASSUME LimitsApart PROVE Spec => []IInv
  OBVIOUS
<1>1. Init => IInv
  BY InitIInv DEF LimitsApart
<1>2. IInv /\ [Next]_vars => IInv'
  BY NextIInv
<1> QED
  BY <1>1, <1>2, PTL DEF Spec

\* Every variable keeps the values of its C++ type: no step follows a pointer out
\* of the pools, and no quantity goes below zero.
THEOREM TypeCorrect == LimitsApart => (Spec => []TypeOK)
<1> SUFFICES ASSUME LimitsApart PROVE Spec => []TypeOK
  OBVIOUS
<1>1. IInv => TypeOK
  BY DEF IInv, Book, PoolTypes, PointerTypes, CallTypes, MessageTypes, TypeOK
<1> QED
  BY <1>1, Invariance, PTL

\* addOrder(), match() and removeOrder() keep the pool and the rings of orders in
\* agreement, whatever the sequence of requests: no order in use is lost from its
\* level, none is linked twice, no freed block is still linked.
THEOREM PoolAndLevelsAgree == LimitsApart => (Spec => []LevelsAndOrdersAgree)
<1> SUFFICES ASSUME LimitsApart PROVE Spec => []LevelsAndOrdersAgree
  OBVIOUS
<1>1. IInv => LevelsAndOrdersAgree
  BY DEF IInv, Book
<1> QED
  BY <1>1, Invariance, PTL

\* cancel() never follows the client's map into a block that has been freed, or
\* to the order of another client or of another id.
THEOREM CancelFindsItsOrder == LimitsApart => (Spec => []CidMapSound)
<1> SUFFICES ASSUME LimitsApart PROVE Spec => []CidMapSound
  OBVIOUS
<1>1. IInv => CidMapSound
  BY DEF IInv, Book
<1> QED
  BY <1>1, Invariance, PTL

-------------------------------------------------------------------------------
(* Time priority.                                                              *)

\* The order in progress is newer than every order in the book.
Newest == job # Null => \A m \in Pooled : m < job.moid

TInv == PriorityOrder /\ Newest

\* What ranks the orders of a level does not change while they are in it.
LEMMA SameQueuesSamePriority ==
  ASSUME Book, PriorityOrder, UNCHANGED <<orders_at_price>>,
         \A m \in Pooled : order_pool_'[m].priority = order_pool_[m].priority
  PROVE  PriorityOrder'
<1> SUFFICES ASSUME NEW p \in Prices, NEW i \in 1 .. Len(orders_at_price[p]),
                    NEW j \in 1 .. Len(orders_at_price[p]), i < j
             PROVE  LET m == orders_at_price[p][i]
                        n == orders_at_price[p][j]
                    IN  m < n /\ order_pool_'[m].priority < order_pool_'[n].priority
  BY DEF PriorityOrder
<1>1. orders_at_price[p][i] \in Pooled /\ orders_at_price[p][j] \in Pooled
  BY DEF Book, LevelsAndOrdersAgree
<1> QED
  BY <1>1 DEF PriorityOrder

LEMMA RemoveOrderKeepsPriority ==
  ASSUME Book, PriorityOrder, NEW m \in Pooled, removeOrder(m)
  PROVE  PriorityOrder'
<1> DEFINE p == LevelAt(order_pool_[m].price)
           q == orders_at_price[p]
           u == Unlink(q, m)
<1>0. /\ m \in MOids /\ p \in Prices /\ q \in Seq(MOids) /\ p \in Levels
      /\ priceToIndex(order_pool_[m].price) = priceToIndex(p)
      /\ \E i \in 1 .. Len(q) : q[i] = m
      /\ \A i, j \in 1 .. Len(q) : q[i] = q[j] => i = j
  BY PooledFacts DEF Book, PoolTypes, Levels, LevelsAndOrdersAgree
<1>1. CASE Die("segv")
  BY <1>1, SameQueuesSamePriority DEF Die, bookVars
<1>2. CASE /\ orders_at_price' = [orders_at_price EXCEPT ![p] = u]
           /\ order_pool_' = [order_pool_ EXCEPT ![m] = Null]
  <2>a. /\ u \in Seq(MOids)
        /\ \A i \in 1 .. Len(u) : u[i] # m
    BY <1>0, UnlinkKeepsOthers
  <2>b. \A i, j \in 1 .. Len(u) : i < j =>
          \E a, b \in 1 .. Len(q) : a < b /\ q[a] = u[i] /\ q[b] = u[j]
    BY <1>0, UnlinkKeepsOrder
  <2> HIDE DEF u
  <2>2. /\ orders_at_price'[p] = u
        /\ \A r \in Prices \ {p} : orders_at_price'[r] = orders_at_price[r]
        /\ \A n \in MOids \ {m} : order_pool_'[n] = order_pool_[n]
    BY <1>0, <1>2 DEF Book, PoolTypes
  <2> SUFFICES ASSUME NEW r \in Prices, NEW i \in 1 .. Len(orders_at_price'[r]),
                      NEW j \in 1 .. Len(orders_at_price'[r]), i < j
               PROVE  LET x == orders_at_price'[r][i]
                          y == orders_at_price'[r][j]
                      IN  x < y /\ order_pool_'[x].priority < order_pool_'[y].priority
    BY DEF PriorityOrder
  <2>3. CASE r = p
    <3>1. PICK a \in 1 .. Len(q), b \in 1 .. Len(q) :
                 a < b /\ q[a] = u[i] /\ q[b] = u[j]
      BY <2>a, <2>b, <2>2, <2>3
    <3>2. q[a] < q[b] /\ order_pool_[q[a]].priority < order_pool_[q[b]].priority
      BY <1>0, <3>1 DEF PriorityOrder
    <3>3. u[i] \in MOids \ {m} /\ u[j] \in MOids \ {m}
      BY <2>a, <2>b, <2>2, <2>3
    <3> QED
      BY <2>2, <2>3, <3>1, <3>2, <3>3
  <2>4. CASE r # p
    <3>1. \A k \in {i, j} :
            /\ orders_at_price[r][k] \in Pooled
            /\ priceToIndex(order_pool_[orders_at_price[r][k]].price) = priceToIndex(r)
      BY <2>2, <2>4 DEF Book, LevelsAndOrdersAgree
    <3>4. r \in Levels
      BY <2>2, <2>4 DEF Levels
    <3>2. /\ orders_at_price[r][i] \in MOids \ {m}
          /\ orders_at_price[r][j] \in MOids \ {m}
      BY <1>0, <2>4, <3>1, <3>4 DEF Pooled, Book, LevelsAndOrdersAgree
    <3>3. /\ orders_at_price[r][i] < orders_at_price[r][j]
          /\ order_pool_[orders_at_price[r][i]].priority
               < order_pool_[orders_at_price[r][j]].priority
      BY <2>2, <2>4 DEF PriorityOrder
    <3> QED
      BY <2>2, <2>4, <3>2, <3>3
  <2> QED
    BY <2>3, <2>4
<1> QED
  BY <1>1, <1>2 DEF removeOrder

\* addOrder(): the newest order goes last, with the highest priority.
LEMMA RestKeepsPriority ==
  ASSUME IInv, TInv, job \in Job, job # Null, Rest
  PROVE  PriorityOrder'
<1> DEFINE m == job.moid
           p == LevelAt(job.price)
           q == orders_at_price[p]
<1>0. /\ m \in MOids /\ p \in Prices /\ q \in Seq(MOids)
      /\ m \notin Pooled /\ \A n \in Pooled : n < m
  BY LevelAtFacts DEF Job, IInv, Book, PoolTypes, JobOK, TInv, Newest
<1>1. /\ orders_at_price' = [orders_at_price EXCEPT ![p] = Append(q, m)]
      /\ order_pool_' = [order_pool_ EXCEPT ![m] = order_pool_'[m]]
      /\ order_pool_'[m].priority = getNextPriority(job.price)
  BY <1>0 DEF Rest, IInv, Book, PoolTypes
<1>8. getNextPriority(job.price) =
        IF q = <<>> THEN 1 ELSE order_pool_[q[Len(q)]].priority + 1
  BY DEF getNextPriority
<1> HIDE DEF p
<1>2. /\ orders_at_price'[p] = Append(q, m)
      /\ \A r \in Prices \ {p} : orders_at_price'[r] = orders_at_price[r]
      /\ \A n \in MOids \ {m} : order_pool_'[n] = order_pool_[n]
      /\ Len(Append(q, m)) = Len(q) + 1
      /\ Append(q, m)[Len(q) + 1] = m
      /\ \A i \in 1 .. Len(q) : Append(q, m)[i] = q[i]
  BY <1>0, <1>1 DEF IInv, Book, PoolTypes
<1>3. ASSUME NEW r \in Prices, NEW i \in 1 .. Len(orders_at_price[r])
      PROVE  /\ orders_at_price[r][i] \in MOids \ {m}
             /\ orders_at_price[r][i] < m
             /\ order_pool_[orders_at_price[r][i]].priority \in Nat
  <2>1. orders_at_price[r][i] \in Pooled
    BY DEF IInv, Book, LevelsAndOrdersAgree
  <2> QED
    BY <1>0, <2>1, PooledFacts DEF IInv, Book, MEOrder
<1>4. \A i \in 1 .. Len(q) : order_pool_[q[i]].priority < getNextPriority(job.price)
  <2> TAKE i \in 1 .. Len(q)
  <2>1. getNextPriority(job.price) = order_pool_[q[Len(q)]].priority + 1
    BY <1>0, <1>8
  <2>2. Len(q) \in 1 .. Len(q)
    BY <1>0
  <2>3. CASE i = Len(q)
    BY <1>0, <1>3, <2>1, <2>3
  <2>4. CASE i < Len(q)
    <3>1. order_pool_[q[i]].priority < order_pool_[q[Len(q)]].priority
      BY <1>0, <2>2, <2>4 DEF TInv, PriorityOrder
    <3>2. /\ order_pool_[q[i]].priority \in Nat
          /\ order_pool_[q[Len(q)]].priority \in Nat
      BY <1>0, <1>3, <2>2
    <3> QED
      BY <2>1, <3>1, <3>2
  <2> QED
    BY <1>0, <2>3, <2>4
<1> SUFFICES ASSUME NEW r \in Prices, NEW i \in 1 .. Len(orders_at_price'[r]),
                    NEW j \in 1 .. Len(orders_at_price'[r]), i < j
             PROVE  LET x == orders_at_price'[r][i]
                        y == orders_at_price'[r][j]
                    IN  x < y /\ order_pool_'[x].priority < order_pool_'[y].priority
  BY DEF PriorityOrder
<1>5. CASE r = p /\ j = Len(q) + 1
  <2>1. /\ i \in 1 .. Len(q) /\ orders_at_price'[r][i] = q[i]
        /\ orders_at_price'[r][j] = m
    BY <1>0, <1>2, <1>5
  <2>2. q[i] \in MOids \ {m} /\ q[i] < m
    BY <1>0, <1>3, <2>1
  <2>3. order_pool_'[q[i]].priority < getNextPriority(job.price)
    BY <1>2, <1>4, <2>1, <2>2
  <2> QED
    BY <1>1, <2>1, <2>2, <2>3
<1>6. CASE r = p /\ j # Len(q) + 1
  <2>4. i \in 1 .. Len(q) /\ j \in 1 .. Len(q)
    BY <1>0, <1>2, <1>6
  <2>1. /\ i \in 1 .. Len(q) /\ orders_at_price'[r][i] = q[i]
        /\ j \in 1 .. Len(q) /\ orders_at_price'[r][j] = q[j]
    BY <1>2, <1>6, <2>4
  <2>2. q[i] < q[j] /\ order_pool_[q[i]].priority < order_pool_[q[j]].priority
    BY <1>0, <2>1 DEF TInv, PriorityOrder
  <2>3. q[i] \in MOids \ {m} /\ q[j] \in MOids \ {m}
    BY <1>0, <1>3, <2>1
  <2> QED
    BY <1>2, <2>1, <2>2, <2>3
<1>7. CASE r # p
  <2>1. /\ orders_at_price[r][i] < orders_at_price[r][j]
        /\ order_pool_[orders_at_price[r][i]].priority
             < order_pool_[orders_at_price[r][j]].priority
    BY <1>2, <1>7 DEF TInv, PriorityOrder
  <2>2. /\ orders_at_price[r][i] \in MOids \ {m}
        /\ orders_at_price[r][j] \in MOids \ {m}
    BY <1>2, <1>3, <1>7
  <2> QED
    BY <1>2, <1>7, <2>1, <2>2
<1> QED
  BY <1>5, <1>6, <1>7

LEMMA NextTInv ==
  ASSUME LimitsApart, IInv, IInv', TInv, [Next]_vars
  PROVE  TInv'
<1> USE NullFacts
<1>1. ASSUME NEW c \in Clients, NEW o \in OrderIds, NEW side \in Sides,
             NEW p \in Limits(side), NEW q \in Qtys, Accept(c, o, side, p, q)
      PROVE  TInv'
  <2>1. /\ UNCHANGED <<order_pool_, orders_at_price>> /\ UNCHANGED Pooled
        /\ job'.moid = next_market_order_id_
    BY <1>1 DEF Accept, bookVars, Pooled
  <2>2. PriorityOrder'
    BY <2>1, SameQueuesSamePriority DEF IInv, TInv
  <2>3. Newest'
    BY <2>1 DEF Newest, IInv, FreshIds
  <2> QED
    BY <2>2, <2>3 DEF TInv
<1>2. ASSUME NEW c \in Clients, NEW o \in OrderIds, Cancel(c, o)
      PROVE  TInv'
  <2>1. /\ removeOrder(cid_oid_to_order_[c][o]) /\ job' = Null
        /\ cid_oid_to_order_[c][o] \in Pooled
    BY <1>2 DEF Cancel, IInv, Book, CidMapSound
  <2> QED
    BY <2>1, RemoveOrderKeepsPriority DEF IInv, TInv, Newest
<1>3. CASE match
  <2> DEFINE m == BestOrder
             o == order_pool_[m]
             fill == FillQty(job.leaves, o.qty)
  <2>1. /\ job \in Job /\ job # Null /\ job' = [job EXCEPT !.leaves = @ - fill]
        /\ m \in Pooled /\ o \in MEOrder /\ m \in MOids
    BY <1>3, BestOrderIsPooled, PooledFacts DEF match, IInv, Book, CallTypes, OrNull
  <2>2. \/ removeOrder(m)
        \/ /\ order_pool_' = [order_pool_ EXCEPT ![m].qty = @ - fill]
           /\ UNCHANGED orders_at_price
    BY <1>3 DEF match
  <2> HIDE DEF m
  <2>3. PriorityOrder' /\ Pooled' \subseteq Pooled
    <3>1. CASE removeOrder(m)
      BY <2>1, <3>1, RemoveOrderKeepsPriority, RemoveOrderKeepsBook DEF IInv, TInv
    <3>2. CASE /\ order_pool_' = [order_pool_ EXCEPT ![m].qty = @ - fill]
               /\ UNCHANGED orders_at_price
      <4>1. \A n \in MOids \ {m} : order_pool_'[n] = order_pool_[n]
        BY <3>2 DEF IInv, Book, PoolTypes
      <4>2. order_pool_'[m].priority = o.priority
        BY <2>1, <3>2 DEF IInv, Book, PoolTypes, MEOrder
      <4>3. Pooled' \subseteq Pooled
        BY <2>1, <4>1 DEF Pooled
      <4>4. \A n \in Pooled : order_pool_'[n].priority = order_pool_[n].priority
        BY <4>1, <4>2 DEF Pooled
      <4> QED
        BY <3>2, <4>3, <4>4, SameQueuesSamePriority DEF IInv, TInv
    <3> QED
      BY <2>2, <3>1, <3>2
  <2>4. job'.moid = job.moid
    BY <2>1 DEF Job
  <2> QED
    BY <2>1, <2>3, <2>4 DEF TInv, Newest
<1>4. CASE RestAtLevel \/ RestAtNewLevel \/ LinkFound
  <2>1. Rest /\ job \in Job /\ job # Null /\ job' = Null
    BY <1>4 DEF RestAtLevel, RestAtNewLevel, LinkFound, Rest, Unmatched, Searching,
       IInv, CallTypes, OrNull
  <2> QED
    BY <2>1, RestKeepsPriority DEF TInv, Newest
<1>5. CASE \/ \E c \in Clients, o \in OrderIds : CancelReject(c, o)
           \/ SearchLevel \/ SearchNext \/ Complete \/ Crash \/ UNCHANGED vars
  <2>1. UNCHANGED <<order_pool_, orders_at_price>> /\ UNCHANGED Pooled
    BY <1>5 DEF CancelReject, SearchLevel, SearchNext, Complete, Crash, Die, vars,
       bookVars, Pooled
  <2>2. job' # Null => job # Null /\ job'.moid = job.moid
    BY <1>5 DEF CancelReject, SearchLevel, SearchNext, Complete, Crash, Unmatched,
       Searching, vars, IInv, CallTypes, OrNull, Job
  <2>3. PriorityOrder'
    BY <2>1, SameQueuesSamePriority DEF IInv, TInv
  <2> QED
    BY <2>1, <2>2, <2>3 DEF TInv, Newest
<1>6. CASE Destroy
  <2>1. UNCHANGED bookVars => UNCHANGED <<order_pool_, orders_at_price>> /\ UNCHANGED Pooled
    BY DEF bookVars, Pooled
  <2>2. PriorityOrder'
    BY <1>6, <2>1, DestroyCases, CloseEmpties, SameQueuesSamePriority DEF IInv, Book, TInv
  <2> QED
    BY <1>6, <2>2, DestroyCases DEF TInv, Newest
<1> QED
  BY <1>1, <1>2, <1>3, <1>4, <1>5, <1>6 DEF Next, Step

\* Price-time priority within a level: an order stands behind every order that
\* was accepted before it, and the priorities published with ADD and MODIFY never
\* contradict the place it is matched at (getNextPriority(), addOrder(),
\* removeOrder()).
THEOREM TimePriority == LimitsApart => (Spec => []PriorityOrder)
<1> SUFFICES ASSUME LimitsApart PROVE Spec => []PriorityOrder
  OBVIOUS
<1>1. Init => TInv
  <2> SUFFICES ASSUME Init PROVE TInv
    OBVIOUS
  <2>1. \A p \in Prices : Len(orders_at_price[p]) = 0
    BY DEF Init, NoQueues
  <2> QED
    BY <2>1 DEF Init, TInv, PriorityOrder, Newest
<1>2. IInv /\ IInv' /\ TInv /\ [Next]_vars => TInv'
  BY NextTInv
<1>3. TInv => PriorityOrder
  BY DEF TInv
<1> QED
  BY <1>1, <1>2, <1>3, Invariance, PTL DEF Spec

-------------------------------------------------------------------------------
(* Every resting order can be cancelled.                                       *)

\* A client that does not reuse ids has no order in the book under the id of the
\* order in progress.
IdIsFree ==
  job # Null =>
    \A m \in Pooled :
      ~(order_pool_[m].client = job.client /\ order_pool_[m].oid = job.oid)

RInv == CancelReaches /\ IdIsFree

\* Orders leave the book or lose quantity, and the map is left alone.
LEMMA SameMapReaches ==
  ASSUME CancelReaches, UNCHANGED cid_oid_to_order_, Pooled' \subseteq Pooled,
         \A m \in Pooled' : /\ order_pool_'[m].client = order_pool_[m].client
                            /\ order_pool_'[m].oid = order_pool_[m].oid
  PROVE  CancelReaches'
BY DEF CancelReaches

\* Removing an order takes its own entry out of the map and nobody else's.
LEMMA RemoveOrderReaches ==
  ASSUME Book, CancelReaches, NEW m \in Pooled, removeOrder(m)
  PROVE  /\ CancelReaches' /\ Pooled' \subseteq Pooled
         /\ \A n \in Pooled' : order_pool_'[n] = order_pool_[n]
<1> USE NullFacts
<1>0. m \in MOids /\ order_pool_[m] \in MEOrder /\ Pooled' \subseteq Pooled
  BY PooledFacts, RemoveOrderKeepsBook DEF Book
<1>1. CASE Die("segv")
  BY <1>0, <1>1, SameMapReaches DEF Die, bookVars
<1>2. CASE Forget(order_pool_[m]) /\ order_pool_' = [order_pool_ EXCEPT ![m] = Null]
  <2>1. /\ m \notin Pooled'
        /\ \A n \in Pooled' : order_pool_'[n] = order_pool_[n]
    BY <1>0, <1>2 DEF Book, PoolTypes, Pooled
  <2>2. ASSUME NEW n \in Pooled'
        PROVE  cid_oid_to_order_'[order_pool_[n].client][order_pool_[n].oid] = n
    <3>1. n \in Pooled /\ n # m /\ order_pool_[n] \in MEOrder
      BY <1>0, <2>1, PooledFacts DEF Book
    <3>2. /\ cid_oid_to_order_[order_pool_[n].client][order_pool_[n].oid] = n
          /\ cid_oid_to_order_[order_pool_[m].client][order_pool_[m].oid] = m
      BY <3>1 DEF CancelReaches
    <3> QED
      BY <1>0, <1>2, <3>1, <3>2 DEF Forget, Book, PoolTypes, MEOrder
  <2> QED
    BY <1>0, <2>1, <2>2 DEF CancelReaches
<1> QED
  BY <1>1, <1>2 DEF removeOrder

\* The order that comes to rest is entered under an id nobody else rests under.
LEMMA RestReaches ==
  ASSUME IInv, RInv, job \in Job, job # Null, Rest
  PROVE  CancelReaches'
<1> USE NullFacts
<1> DEFINE m == job.moid
<1>0. m \in MOids /\ m \notin Pooled /\ job.client \in Clients /\ job.oid \in OrderIds
  BY DEF Job, IInv, JobOK
<1>1. /\ order_pool_'[m].client = job.client /\ order_pool_'[m].oid = job.oid
      /\ \A n \in MOids \ {m} : order_pool_'[n] = order_pool_[n]
      /\ cid_oid_to_order_' =
           [cid_oid_to_order_ EXCEPT ![job.client][job.oid] = m]
  BY <1>0 DEF Rest, IInv, Book, PoolTypes
<1>2. ASSUME NEW n \in Pooled'
      PROVE  cid_oid_to_order_'[order_pool_'[n].client][order_pool_'[n].oid] = n
  <2>1. CASE n = m
    BY <1>0, <1>1, <2>1 DEF IInv, Book, PoolTypes
  <2>2. CASE n # m
    <3>1. n \in Pooled /\ order_pool_'[n] = order_pool_[n]
      BY <1>1, <2>2 DEF Pooled
    <3>2. order_pool_[n] \in MEOrder
      BY <3>1, PooledFacts DEF IInv, Book
    <3>3. cid_oid_to_order_[order_pool_[n].client][order_pool_[n].oid] = n
      BY <3>1 DEF RInv, CancelReaches
    <3>4. ~(order_pool_[n].client = job.client /\ order_pool_[n].oid = job.oid)
      BY <3>1 DEF RInv, IdIsFree
    <3> QED
      BY <1>0, <1>1, <3>1, <3>2, <3>3, <3>4 DEF IInv, Book, PoolTypes, MEOrder
  <2> QED
    BY <2>1, <2>2
<1> QED
  BY <1>2 DEF CancelReaches

\* The id of an order that is accepted is not that of one in the book.
IdIsFresh ==
  job = Null /\ job' # Null => cid_oid_to_order_[job'.client][job'.oid] = Null

LEMMA NextRInv ==
  ASSUME LimitsApart, IdIsFresh, IInv, RInv, [Next]_vars
  PROVE  RInv'
<1> USE NullFacts
<1>1. ASSUME NEW c \in Clients, NEW o \in OrderIds, NEW side \in Sides,
             NEW p \in Limits(side), NEW q \in Qtys, Accept(c, o, side, p, q)
      PROVE  RInv'
  <2>0. job' # Null
    <3>1. p \in Prices /\ q \in Nat
      BY BookConstants DEF Limits, Prices
    <3>2. job' \in Job
      BY <1>1, <3>1 DEF Accept, Job
    <3> QED
      BY <3>2
  <2>1. /\ UNCHANGED <<order_pool_, cid_oid_to_order_>> /\ UNCHANGED Pooled
        /\ cid_oid_to_order_[c][o] = Null /\ job'.client = c /\ job'.oid = o
    BY <1>1, <2>0 DEF Accept, bookVars, Pooled, IdIsFresh
  <2>2. \A m \in Pooled : m # Null
    BY DEF Pooled
  <2> QED
    BY <2>1, <2>2 DEF RInv, CancelReaches, IdIsFree
<1>2. ASSUME NEW c \in Clients, NEW o \in OrderIds, Cancel(c, o)
      PROVE  RInv'
  <2>1. /\ removeOrder(cid_oid_to_order_[c][o]) /\ job' = Null
        /\ cid_oid_to_order_[c][o] \in Pooled
    BY <1>2 DEF Cancel, IInv, Book, CidMapSound
  <2> QED
    BY <2>1, RemoveOrderReaches DEF IInv, RInv, IdIsFree
<1>3. CASE match
  <2> DEFINE m == BestOrder
             fill == FillQty(job.leaves, order_pool_[m].qty)
  <2>1. /\ job \in Job /\ job # Null /\ job' = [job EXCEPT !.leaves = @ - fill]
        /\ m \in Pooled /\ order_pool_[m] \in MEOrder /\ m \in MOids
    BY <1>3, BestOrderIsPooled, PooledFacts DEF match, IInv, Book, CallTypes, OrNull
  <2>2. \/ removeOrder(m)
        \/ /\ order_pool_' = [order_pool_ EXCEPT ![m].qty = @ - fill]
           /\ UNCHANGED cid_oid_to_order_
    BY <1>3 DEF match
  <2> HIDE DEF m
  <2>3. /\ CancelReaches' /\ Pooled' \subseteq Pooled
        /\ \A n \in Pooled' : /\ order_pool_'[n].client = order_pool_[n].client
                              /\ order_pool_'[n].oid = order_pool_[n].oid
    <3>1. CASE removeOrder(m)
      BY <2>1, <3>1, RemoveOrderReaches DEF IInv, RInv
    <3>2. CASE /\ order_pool_' = [order_pool_ EXCEPT ![m].qty = @ - fill]
               /\ UNCHANGED cid_oid_to_order_
      <4>1. \A n \in MOids \ {m} : order_pool_'[n] = order_pool_[n]
        BY <3>2 DEF IInv, Book, PoolTypes
      <4>2. /\ order_pool_'[m].client = order_pool_[m].client
            /\ order_pool_'[m].oid = order_pool_[m].oid
        BY <2>1, <3>2 DEF IInv, Book, PoolTypes, MEOrder
      <4>3. Pooled' \subseteq Pooled /\ Pooled' \subseteq MOids
        BY <2>1, <4>1 DEF Pooled
      <4> QED
        BY <3>2, <4>1, <4>2, <4>3, SameMapReaches DEF RInv
    <3> QED
      BY <2>2, <3>1, <3>2
  <2>4. job'.client = job.client /\ job'.oid = job.oid
    BY <2>1 DEF Job
  <2> QED
    BY <2>1, <2>3, <2>4 DEF RInv, IdIsFree
<1>4. CASE RestAtLevel \/ RestAtNewLevel \/ LinkFound
  <2>1. Rest /\ job \in Job /\ job # Null /\ job' = Null
    BY <1>4 DEF RestAtLevel, RestAtNewLevel, LinkFound, Rest, Unmatched, Searching,
       IInv, CallTypes, OrNull
  <2> QED
    BY <2>1, RestReaches DEF RInv, IdIsFree
<1>5. CASE \/ \E c \in Clients, o \in OrderIds : CancelReject(c, o)
           \/ SearchLevel \/ SearchNext \/ Complete \/ Crash \/ UNCHANGED vars
  <2>1. UNCHANGED <<order_pool_, cid_oid_to_order_>> /\ UNCHANGED Pooled
    BY <1>5 DEF CancelReject, SearchLevel, SearchNext, Complete, Crash, Die, vars,
       bookVars, Pooled
  <2>2. job' # Null =>
          job # Null /\ job'.client = job.client /\ job'.oid = job.oid
    BY <1>5 DEF CancelReject, SearchLevel, SearchNext, Complete, Crash, Unmatched,
       Searching, vars, IInv, CallTypes, OrNull, Job
  <2> QED
    BY <2>1, <2>2 DEF RInv, CancelReaches, IdIsFree
<1>6. CASE Destroy
  <2>1. UNCHANGED bookVars => UNCHANGED <<order_pool_, cid_oid_to_order_>> /\ UNCHANGED Pooled
    BY DEF bookVars, Pooled
  <2>2. CancelReaches'
    BY <1>6, <2>1, DestroyCases, CloseEmpties DEF IInv, Book, RInv, CancelReaches
  <2> QED
    BY <1>6, <2>2, DestroyCases DEF RInv, IdIsFree
<1> QED
  BY <1>1, <1>2, <1>3, <1>4, <1>5, <1>6 DEF Next, Step

\* Clients that do not reuse the id of a resting order can cancel every order that
\* rests, whatever has been filled, cancelled and put into freed blocks since
\* (me_order_book.h:169,190, me_order_book.cpp:171-210).
THEOREM RestingCanBeCancelled ==
  ASSUME LimitsApart, ~ReuseIds
  PROVE  Spec => []CancelReaches
<1>1. Init => RInv
  BY DEF Init, NoOrders, Pooled, RInv, CancelReaches, IdIsFree
<1>2. IInv /\ RInv /\ [Next]_vars => RInv'
  <2>1. ASSUME NEW c \in Clients, NEW o \in OrderIds, NEW side \in Sides,
               NEW p \in Limits(side), NEW q \in Qtys, Accept(c, o, side, p, q)
        PROVE  IdIsFresh
    BY <2>1 DEF Accept, IdIsFresh
  <2>2. ASSUME [Next]_vars, job = Null, job' # Null
        PROVE  \E c \in Clients, o \in OrderIds, side \in Sides :
                 \E p \in Limits(side), q \in Qtys : Accept(c, o, side, p, q)
    BY <2>2 DEF Next, vars, CancelReject, Cancel, Step, match, Complete, Unmatched,
       RestAtLevel, RestAtNewLevel, SearchLevel, SearchNext, Searching, LinkFound,
       Crash, Destroy
  <2>3. [Next]_vars => IdIsFresh
    BY <2>1, <2>2 DEF IdIsFresh
  <2> QED
    BY <2>3, NextRInv
<1>3. RInv => CancelReaches
  BY DEF RInv
<1>4. Spec => []IInv
  BY Invariance
<1> QED
  BY <1>1, <1>2, <1>3, <1>4, PTL DEF Spec

-------------------------------------------------------------------------------
(* Paths through the ring.                                                     *)

\* A set of numbers from 0 on that goes on with every number holds them all.
LEMMA Ascent ==
  ASSUME NEW N \in Nat, NEW S, 0 \in S, \A k \in 0 .. N : k \in S /\ k < N => k + 1 \in S
  PROVE  \A k \in 0 .. N : k \in S
<1> DEFINE T == {k \in 0 .. N : k \notin S}
<1>1. SUFFICES ASSUME T # {} PROVE FALSE
  OBVIOUS
<1>2. T \subseteq Nat
  OBVIOUS
<1>3. PICK x \in T : \A y \in T : ~(<<y, x>> \in OpToRel(<, Nat))
  BY <1>1, <1>2, NatLessThanWellFounded, WFMin
<1>4. \A y \in T : ~(y < x)
  BY <1>2, <1>3 DEF OpToRel
<1>5. x \in Nat /\ x # 0 /\ x <= N /\ x \notin S
  OBVIOUS
<1>6. x - 1 \notin T
  BY <1>4, <1>5
<1> QED
  BY <1>5, <1>6

LEMMA AscentToTheEnd ==
  ASSUME NEW N \in Nat
  PROVE  \A S : 0 \in S /\ (\A k \in 0 .. N : k \in S /\ k < N => k + 1 \in S) => N \in S
<1> SUFFICES ASSUME NEW S, 0 \in S, \A k \in 0 .. N : k \in S /\ k < N => k + 1 \in S
             PROVE  N \in S
  OBVIOUS
<1>1. N \in 0 .. N
  OBVIOUS
<1> QED
  BY <1>1, Ascent

LEMMA AscentWithoutEnd ==
  ASSUME NEW S, 0 \in S, \A k \in Nat : k \in S => k + 1 \in S
  PROVE  \A k \in Nat : k \in S
<1> TAKE n \in Nat
<1>1. \A k \in 0 .. n : k \in S /\ k < n => k + 1 \in S
  OBVIOUS
<1> QED
  BY <1>1, AscentToTheEnd

\* Following the pointers s from a defines a path, however long.
LEMMA PathExists ==
  ASSUME NEW V, NEW a \in V, NEW s \in [V -> V]
  PROVE  \E f \in [Nat -> V] : \A k \in Nat : f[k] = IF k = 0 THEN a ELSE s[f[k - 1]]
<1> DEFINE IsPart(g, n) ==
             /\ g \in [0 .. n -> V]
             /\ \A k \in 0 .. n : g[k] = IF k = 0 THEN a ELSE s[g[k - 1]]
           S == {n \in Nat : \E g : IsPart(g, n)}
<1>1. 0 \in S
  <2>1. PICK g : g = [k \in 0 .. 0 |-> a]
    OBVIOUS
  <2>2. IsPart(g, 0)
    BY <2>1
  <2> QED
    BY <2>2
<1>2. ASSUME NEW n \in Nat, n \in S PROVE n + 1 \in S
  <2>1. PICK g : IsPart(g, n)
    BY <1>2
  <2> DEFINE h == [k \in 0 .. n + 1 |-> IF k = n + 1 THEN s[g[n]] ELSE g[k]]
  <2>2. h \in [0 .. n + 1 -> V]
    BY <2>1
  <2>3. ASSUME NEW k \in 0 .. n + 1 PROVE h[k] = IF k = 0 THEN a ELSE s[h[k - 1]]
    <3>1. CASE k = n + 1
      BY <2>1, <3>1
    <3>2. CASE k # n + 1
      <4>1. k \in 0 .. n /\ h[k] = g[k] /\ (k # 0 => h[k - 1] = g[k - 1])
        BY <3>2
      <4> QED
        BY <2>1, <4>1
    <3> QED
      BY <3>1, <3>2
  <2> HIDE DEF h
  <2> QED
    BY <2>2, <2>3
<1>3. \A n \in Nat : \E g : IsPart(g, n)
  <2> HIDE DEF S
  <2>1. \A n \in Nat : n \in S
    BY <1>1, <1>2, AscentWithoutEnd
  <2> QED
    BY <2>1 DEF S
<1>4. ASSUME NEW m \in Nat, NEW n \in Nat, m <= n, NEW g, NEW h, IsPart(g, m), IsPart(h, n)
      PROVE  g[m] = h[m]
  <2> DEFINE T == {k \in 0 .. m : g[k] = h[k]}
  <2>1. 0 \in T
    BY <1>4
  <2>2. \A k \in 0 .. m : k \in T /\ k < m => k + 1 \in T
    <3> TAKE k \in 0 .. m
    <3> HAVE k \in T /\ k < m
    <3>1. k + 1 \in 0 .. m /\ k + 1 \in 0 .. n /\ k + 1 # 0 /\ (k + 1) - 1 = k
      BY <1>4
    <3>2. g[k + 1] = s[g[k]] /\ h[k + 1] = s[h[k]]
      BY <1>4, <3>1
    <3> QED
      BY <3>1, <3>2
  <2>3. m \in T
    <3> HIDE DEF T
    <3> QED
      BY <2>1, <2>2, AscentToTheEnd
  <2> QED
    BY <2>3
<1> DEFINE part(n) == CHOOSE g : IsPart(g, n)
           f == [k \in Nat |-> part(k)[k]]
<1>5. \A n \in Nat : IsPart(part(n), n)
  BY <1>3
<1> HIDE DEF part
<1>6. f \in [Nat -> V]
  BY <1>5
<1> HIDE DEF IsPart
<1>7. ASSUME NEW k \in Nat PROVE f[k] = IF k = 0 THEN a ELSE s[f[k - 1]]
  <2>1. CASE k = 0
    BY <1>5, <2>1 DEF IsPart
  <2>2. CASE k # 0
    <3>1. k - 1 \in Nat /\ k - 1 <= k
      BY <2>2
    <3>2. part(k - 1)[k - 1] = part(k)[k - 1]
      BY <1>4, <1>5, <3>1
    <3>3. part(k)[k] = s[part(k)[k - 1]]
      BY <1>5, <2>2 DEF IsPart
    <3> QED
      BY <2>2, <3>1, <3>2, <3>3
  <2> QED
    BY <2>1, <2>2
<1> QED
  BY <1>6, <1>7

-------------------------------------------------------------------------------
(* The levels the destructor prints.                                           *)

\* What toString() prints: each level after the one before, as long as the ring
\* has not come round or run out.
LEMMA PrintedSteps ==
  ASSUME PointerTypes
  PROVE  \A k \in Nat :
           AskPrinted[k] =
             IF k = 0 THEN asks_at_price_
             ELSE IF \/ AskPrinted[k - 1] = Null
                     \/ next_entry_[AskPrinted[k - 1]] = asks_at_price_
                  THEN Null ELSE next_entry_[AskPrinted[k - 1]]
<1> DEFINE Following(p) == IF p = Null \/ next_entry_[p] = asks_at_price_ THEN Null
                       ELSE next_entry_[p]
           IsPrinted(f) ==
             f = [k \in Nat |-> IF k = 0 THEN asks_at_price_ ELSE Following(f[k - 1])]
           V == OrNull(Prices)
           s == [p \in V |-> Following(p)]
<1>1. asks_at_price_ \in V /\ s \in [V -> V]
  BY DEF PointerTypes, OrNull
<1> HIDE DEF s
<1>2. PICK f \in [Nat -> V] :
             \A k \in Nat : f[k] = IF k = 0 THEN asks_at_price_ ELSE s[f[k - 1]]
  BY <1>1, PathExists
<1>3. IsPrinted(f)
  <2> SUFFICES ASSUME NEW k \in Nat
               PROVE  f[k] = IF k = 0 THEN asks_at_price_ ELSE Following(f[k - 1])
    BY <1>2
  <2>1. k # 0 => f[k - 1] \in V
    BY <1>2
  <2>2. k # 0 => s[f[k - 1]] = Following(f[k - 1])
    BY <2>1 DEF s
  <2> QED
    BY <1>2, <2>2
<1>4. AskPrinted = CHOOSE g : IsPrinted(g)
  BY DEF AskPrinted
<1>5. IsPrinted(AskPrinted)
  <2>1. \E g : IsPrinted(g)
    BY <1>3
  <2> HIDE DEF IsPrinted
  <2> QED
    BY <1>4, <2>1
<1> QED
  BY <1>5

\* toString() stays in the ring, and finds each level worse than the one before.
LEMMA PrintedIsSorted ==
  ASSUME Book, NEW R \in SUBSET Levels, Ring(R)
  PROVE  \A k \in Nat : AskPrinted[k] # Null => SortedAt(k)
<1> USE NullFacts
<1>1. \A k \in Nat :
        AskPrinted[k] =
          IF k = 0 THEN asks_at_price_
          ELSE IF \/ AskPrinted[k - 1] = Null
                  \/ next_entry_[AskPrinted[k - 1]] = asks_at_price_
               THEN Null ELSE next_entry_[AskPrinted[k - 1]]
  BY PrintedSteps DEF Book
<1>2. ASSUME NEW p \in R, next_entry_[p] # Null, next_entry_[p] # asks_at_price_
      PROVE  next_entry_[p] \in R /\ p < next_entry_[p]
  <2> DEFINE q == next_entry_[p]
  <2>1. q \in Levels /\ prev_entry_[q] = p
    BY <1>2 DEF Book, Linked, LinkedOn
  <2>2. q \in R
    BY <2>1 DEF Ring
  <2>3. Sorted(R)
    BY DEF Ring
  <2> QED
    BY <1>2, <2>1, <2>2, <2>3 DEF Sorted
<1> DEFINE S == {k \in Nat : AskPrinted[k] \in OrNull(R)}
<1>3. 0 \in S
  BY <1>1 DEF Ring
<1>4. ASSUME NEW k \in Nat, k \in S PROVE k + 1 \in S
  <2>1. k + 1 \in Nat /\ k + 1 # 0 /\ (k + 1) - 1 = k
    OBVIOUS
  <2>2. AskPrinted[k + 1] =
          IF AskPrinted[k] = Null \/ next_entry_[AskPrinted[k]] = asks_at_price_
          THEN Null ELSE next_entry_[AskPrinted[k]]
    BY <1>1, <2>1
  <2> QED
    BY <1>2, <1>4, <2>2 DEF OrNull
<1>5. \A k \in Nat : AskPrinted[k] \in OrNull(R)
  <2> HIDE DEF S
  <2>1. \A k \in Nat : k \in S
    BY <1>3, <1>4, AscentWithoutEnd
  <2> QED
    BY <2>1 DEF S
<1> TAKE k \in Nat
<1> SUFFICES ASSUME AskPrinted[k] # Null, k > 0
             PROVE  AskPrinted[k - 1] < AskPrinted[k]
  BY DEF SortedAt
<1>6. k - 1 \in Nat /\ k # 0
  OBVIOUS
<1>7. /\ AskPrinted[k - 1] # Null /\ AskPrinted[k] = next_entry_[AskPrinted[k - 1]]
      /\ AskPrinted[k] # asks_at_price_
  BY <1>1, <1>6
<1> QED
  BY <1>2, <1>5, <1>6, <1>7 DEF OrNull

LEMMA DestroyFindsItSorted ==
  ASSUME IInv, Destroy
  PROVE  status' # "unsorted"
<1> DEFINE printed == {k \in 0 .. Cardinality(Prices) : AskPrinted[k] # Null}
           failed  == {k \in printed : ~(HasNeighbours(AskPrinted[k]) /\ SortedAt(k))}
           first   == CHOOSE k \in failed : \A l \in failed : k <= l
<1>1. \/ Close
      \/ /\ failed # {}
         /\ status' = IF HasNeighbours(AskPrinted[first]) THEN "unsorted" ELSE "segv"
  BY DEF Destroy, Die
<1>2. failed \subseteq Nat
  <2>1. Cardinality(Prices) \in Nat
    BY PricesAreFinite, FS_CardinalityType
  <2> QED
    BY <2>1
<1>3. \A k \in failed : ~HasNeighbours(AskPrinted[k])
  <2>1. \A k \in Nat : AskPrinted[k] # Null => SortedAt(k)
    BY PrintedIsSorted DEF IInv, RingInv
  <2> QED
    BY <1>2, <2>1
<1> HIDE DEF failed
<1>4. ASSUME failed # {} PROVE first \in failed
  <2>1. PICK x \in failed : \A y \in failed : ~(<<y, x>> \in OpToRel(<, Nat))
    BY <1>2, <1>4, NatLessThanWellFounded, WFMin
  <2>2. \A y \in failed : ~(y < x)
    BY <1>2, <2>1 DEF OpToRel
  <2>3. \A y \in failed : x <= y
    BY <1>2, <2>2
  <2> QED
    BY <2>3
<1>5. CASE Close
  BY <1>5 DEF Close
<1> QED
  BY <1>1, <1>3, <1>4, <1>5

\* The FATAL of toString() never fires: the levels the destructor gets to print,
\* until the ring comes round or runs out, are in ascending order, however levels
\* were linked before, after, behind and out of the ring
\* (me_order_book.h:55-147, me_order_book.cpp:215-276).
THEOREM NoFatalWhenDestroyed == LimitsApart => (Spec => []NeverUnsorted)
<1> SUFFICES ASSUME LimitsApart PROVE Spec => []NeverUnsorted
  OBVIOUS
<1>1. Init => NeverUnsorted
  BY DEF Init, NeverUnsorted
<1>2. IInv /\ NeverUnsorted /\ [Next]_vars => NeverUnsorted'
  <2> SUFFICES ASSUME IInv, NeverUnsorted, [Next]_vars PROVE NeverUnsorted'
    OBVIOUS
  <2>1. CASE Destroy
    BY <2>1, DestroyFindsItSorted DEF NeverUnsorted
  <2>2. CASE \E c \in Clients, o \in OrderIds : Cancel(c, o)
    BY <2>2 DEF Cancel, removeOrder, Die, NeverUnsorted
  <2>3. CASE match
    BY <2>3 DEF match, removeOrder, Die, NeverUnsorted
  <2>4. CASE RestAtLevel \/ RestAtNewLevel \/ LinkFound
    BY <2>4 DEF RestAtLevel, RestAtNewLevel, LinkFound, Rest, NeverUnsorted
  <2>5. CASE \/ \E c \in Clients, o \in OrderIds :
                  \/ \E side \in Sides : \E p \in Limits(side), q \in Qtys :
                       Accept(c, o, side, p, q)
                  \/ CancelReject(c, o)
             \/ SearchLevel \/ SearchNext \/ Complete \/ Crash \/ UNCHANGED vars
    BY <2>5 DEF Accept, CancelReject, SearchLevel, SearchNext, Complete, Crash, Die,
       vars, NeverUnsorted
  <2> QED
    BY <2>1, <2>2, <2>3, <2>4, <2>5 DEF Next, Step
<1> QED
  BY <1>1, <1>2, Invariance, PTL DEF Spec

-------------------------------------------------------------------------------
(* What the clients are told of their orders.                                  *)

\* What the book still has of the order o of client c, in progress or at rest.
Left(c, o) ==
  IF job # Null /\ job.client = c /\ job.oid = o THEN job.leaves
  ELSE IF cid_oid_to_order_[c][o] = Null THEN 0
  ELSE order_pool_[cid_oid_to_order_[c][o]].qty

About(x, c, o) == x.client = c /\ x.oid = o

\* What is left of an order after a response about it.
Remaining(x) == IF x.type \in {"CANCELED", "CANCEL_REJECTED"} THEN 0 ELSE x.leaves

\* The response says what becomes of its order, as the book had it.
Follows(x) ==
  LET left == Left(x.client, x.oid)
  IN  \/ x.type = "ACCEPTED" /\ left = 0
      \/ x.type = "FILLED" /\ left # 0 /\ x.leaves + x.exec = left
      \/ x.type = "CANCELED" /\ left # 0 /\ x.leaves = left
      \/ x.type = "CANCEL_REJECTED" /\ left = 0

Stays(c, o) == Left(c, o)' = Left(c, o)

\* A step tells the clients all that it does to their orders, once each.
Silent == resp' = <<>> /\ (status' = "up" => \A c \in Clients, o \in OrderIds : Stays(c, o))
TellsOne(x) ==
  /\ resp' = <<x>> /\ x \in ClientResponses /\ Follows(x)
  /\ status' = "up" => /\ Left(x.client, x.oid)' = Remaining(x)
                       /\ \A c \in Clients, o \in OrderIds : About(x, c, o) \/ Stays(c, o)
TellsTwo(x, y) ==
  /\ resp' = <<x, y>> /\ x \in ClientResponses /\ y \in ClientResponses
  /\ Follows(x) /\ Follows(y) /\ ~About(y, x.client, x.oid)
  /\ x.type = "FILLED" /\ y.type = "FILLED"
  /\ status' = "up" => /\ Left(x.client, x.oid)' = Remaining(x)
                       /\ Left(y.client, y.oid)' = Remaining(y)
                       /\ \A c \in Clients, o \in OrderIds :
                            About(x, c, o) \/ About(y, c, o) \/ Stays(c, o)

\* The order in progress is not in the client's map, and a resting one is.
LEMMA LeftOfOrders ==
  ASSUME IInv, RInv
  PROVE  /\ job # Null => /\ job \in Job /\ cid_oid_to_order_[job.client][job.oid] = Null
                          /\ Left(job.client, job.oid) = job.leaves
         /\ \A m \in Pooled :
              LET x == order_pool_[m]
              IN  /\ m \in MOids /\ x \in MEOrder /\ cid_oid_to_order_[x.client][x.oid] = m
                  /\ job # Null => ~(job.client = x.client /\ job.oid = x.oid)
                  /\ Left(x.client, x.oid) = x.qty
         /\ \A c \in Clients, o \in OrderIds :
              LET m == cid_oid_to_order_[c][o]
              IN  m # Null => m \in Pooled /\ order_pool_[m].client = c /\ order_pool_[m].oid = o
<1> USE NullFacts
<1>1. \A c \in Clients, o \in OrderIds :
        LET m == cid_oid_to_order_[c][o]
        IN  m # Null => m \in Pooled /\ order_pool_[m].client = c /\ order_pool_[m].oid = o
  BY DEF IInv, Book, CidMapSound
<1>2. ASSUME job # Null
      PROVE  /\ job \in Job /\ cid_oid_to_order_[job.client][job.oid] = Null
             /\ Left(job.client, job.oid) = job.leaves
  <2>1. job \in Job /\ job.client \in Clients /\ job.oid \in OrderIds
    BY <1>2 DEF IInv, CallTypes, OrNull, Job
  <2>2. cid_oid_to_order_[job.client][job.oid] = Null
    BY <1>1, <1>2, <2>1 DEF RInv, IdIsFree
  <2> QED
    BY <1>2, <2>1, <2>2 DEF Left
<1>3. ASSUME NEW m \in Pooled
      PROVE  LET x == order_pool_[m]
             IN  /\ m \in MOids /\ x \in MEOrder /\ cid_oid_to_order_[x.client][x.oid] = m
                 /\ job # Null => ~(job.client = x.client /\ job.oid = x.oid)
                 /\ Left(x.client, x.oid) = x.qty
  <2>1. m \in MOids /\ order_pool_[m] \in MEOrder
    BY PooledFacts DEF IInv, Book
  <2>2. /\ cid_oid_to_order_[order_pool_[m].client][order_pool_[m].oid] = m
        /\ job # Null => ~(job.client = order_pool_[m].client /\ job.oid = order_pool_[m].oid)
    BY DEF RInv, CancelReaches, IdIsFree
  <2> QED
    BY <2>1, <2>2 DEF Left
<1> QED
  BY <1>1, <1>2, <1>3

LEMMA SameLeft ==
  ASSUME NEW c \in Clients, NEW o \in OrderIds, job = Null, job' = Null,
         cid_oid_to_order_'[c][o] = cid_oid_to_order_[c][o],
         cid_oid_to_order_[c][o] # Null =>
           order_pool_'[cid_oid_to_order_[c][o]] = order_pool_[cid_oid_to_order_[c][o]]
  PROVE  Stays(c, o)
BY DEF Stays, Left

LEMMA AcceptTells ==
  ASSUME IInv, RInv, IdIsFresh, NEW c \in Clients, NEW o \in OrderIds, NEW side \in Sides,
         NEW p \in Limits(side), NEW q \in Qtys, Accept(c, o, side, p, q)
  PROVE  /\ \E x \in ClientResponses : TellsOne(x) /\ x.client = c /\ x.oid = o /\ x.type = "ACCEPTED"
         /\ status' = "up" /\ UNCHANGED order_pool_ /\ job' # Null /\ About(job', c, o)
<1> USE NullFacts
<1>1. /\ job = Null /\ UNCHANGED <<status, order_pool_, cid_oid_to_order_>>
      /\ job'.client = c /\ job'.oid = o /\ job'.leaves = q
      /\ resp' = <<MEClientResponse("ACCEPTED", c, o, next_market_order_id_, side, p, 0, q)>>
      /\ status = "up"
  BY DEF Accept, Emit, bookVars
<1>0. p \in Prices /\ q \in Nat /\ next_market_order_id_ \in MOids
  BY BookConstants DEF Limits, Prices, Accept
<1>2. job' # Null
  <2>1. job' \in Job
    BY <1>0 DEF Accept, Job
  <2> QED
    BY <2>1
<1>3. PICK x \in ClientResponses :
        x = MEClientResponse("ACCEPTED", c, o, next_market_order_id_, side, p, 0, q)
  BY <1>0, ResponseTypes DEF OrNull
<1>8. x.client = c /\ x.oid = o /\ x.leaves = q /\ x.type = "ACCEPTED"
  BY <1>3 DEF MEClientResponse
<1>4. Left(c, o) = 0
  BY <1>1, <1>2 DEF Left, IdIsFresh
<1>5. Left(c, o)' = q
  BY <1>1, <1>2 DEF Left
<1>6. ASSUME NEW d \in Clients, NEW n \in OrderIds, ~About(x, d, n)
      PROVE  Stays(d, n)
  BY <1>1, <1>2, <1>8, <1>6 DEF Stays, Left, About
<1>7. TellsOne(x)
  <2>1. resp' = <<x>>
    BY <1>1, <1>3
  <2>2. Follows(x) /\ Remaining(x) = q
    BY <1>8, <1>4 DEF Follows, Remaining
  <2> QED
    BY <1>8, <1>5, <1>6, <2>1, <2>2 DEF TellsOne
<1> QED
  BY <1>1, <1>2, <1>8, <1>7 DEF About

LEMMA CancelRejectTells ==
  ASSUME IInv, RInv, NEW c \in Clients, NEW o \in OrderIds, CancelReject(c, o)
  PROVE  /\ \E x \in ClientResponses :
              TellsOne(x) /\ x.client = c /\ x.oid = o /\ x.type = "CANCEL_REJECTED"
         /\ status' = "up" /\ UNCHANGED order_pool_ /\ job' = Null
<1>1. /\ job = Null /\ UNCHANGED <<status, job, order_pool_, cid_oid_to_order_>>
      /\ resp' = <<MEClientResponse("CANCEL_REJECTED", c, o, Null, Null, Null, Null, Null)>>
      /\ cid_oid_to_order_[c][o] = Null /\ status = "up"
  BY DEF CancelReject, Emit, bookVars
<1> DEFINE x == MEClientResponse("CANCEL_REJECTED", c, o, Null, Null, Null, Null, Null)
<1>2. /\ x \in ClientResponses /\ x.client = c /\ x.oid = o /\ x.type = "CANCEL_REJECTED"
  BY ResponseTypes DEF OrNull, MEClientResponse
<1> HIDE DEF x
<1>3. Left(c, o) = 0 /\ Left(c, o)' = 0
  BY <1>1 DEF Left
<1>4. \A d \in Clients, n \in OrderIds : Stays(d, n)
  BY <1>1, SameLeft
<1>5. TellsOne(x)
  BY <1>1, <1>2, <1>3, <1>4 DEF TellsOne, Follows, Remaining, x
<1> QED
  BY <1>1, <1>2, <1>5

LEMMA RemoveOrderForgets ==
  ASSUME PoolTypes, NEW m \in MOids, order_pool_[m] \in MEOrder, status = "up", removeOrder(m)
  PROVE  LET x == order_pool_[m]
         IN  \/ status' = "segv" /\ UNCHANGED order_pool_
             \/ /\ status' = "up" /\ cid_oid_to_order_'[x.client][x.oid] = Null
                /\ \A c \in Clients, o \in OrderIds :
                     ~(c = x.client /\ o = x.oid)
                       => cid_oid_to_order_'[c][o] = cid_oid_to_order_[c][o]
                /\ \A n \in MOids \ {m} : order_pool_'[n] = order_pool_[n]
                /\ order_pool_'[m] = Null
<1> DEFINE x == order_pool_[m]
<1>1. CASE Die("segv")
  BY <1>1 DEF Die, bookVars
<1>2. CASE UNCHANGED status /\ Forget(x) /\ order_pool_' = [order_pool_ EXCEPT ![m] = Null]
  <2>1. x.client \in Clients /\ x.oid \in OrderIds
    BY DEF MEOrder
  <2>2. /\ cid_oid_to_order_'[x.client][x.oid] = Null
        /\ \A c \in Clients, o \in OrderIds :
             ~(c = x.client /\ o = x.oid)
               => cid_oid_to_order_'[c][o] = cid_oid_to_order_[c][o]
    BY <1>2, <2>1 DEF Forget, PoolTypes
  <2>3. /\ \A n \in MOids \ {m} : order_pool_'[n] = order_pool_[n]
        /\ order_pool_'[m] = Null
    BY <1>2 DEF PoolTypes
  <2> QED
    BY <1>2, <2>2, <2>3
<1> QED
  BY <1>1, <1>2 DEF removeOrder

LEMMA CancelTells ==
  ASSUME IInv, RInv, NEW c \in Clients, NEW o \in OrderIds, Cancel(c, o)
  PROVE  /\ \/ Silent /\ status' = "segv"
            \/ /\ \E x \in ClientResponses :
                    TellsOne(x) /\ x.client = c /\ x.oid = o /\ x.type = "CANCELED"
               /\ status' = "up"
         /\ job' = Null
         /\ \A n \in Pooled' : n \in Pooled /\ order_pool_'[n] = order_pool_[n]
<1> USE NullFacts
<1>1. PICK m \in MOids : m = cid_oid_to_order_[c][o] /\ m \in Pooled
  BY LeftOfOrders DEF Cancel
<1>2. PICK y \in MEOrder : y = order_pool_[m]
  BY <1>1, LeftOfOrders
<1>3. y.client = c /\ y.oid = o /\ Left(c, o) = y.qty /\ y.qty \in Nat \ {0}
  BY <1>1, <1>2, LeftOfOrders DEF Cancel, MEOrder
<1>4. /\ job = Null /\ job' = Null /\ status = "up" /\ removeOrder(m)
      /\ IF status' = "up"
         THEN resp' = <<MEClientResponse("CANCELED", c, o, m, y.side, y.price, Null, y.qty)>>
         ELSE resp' = <<>>
  BY <1>1, <1>2 DEF Cancel, Emit
<1>5. PICK x \in ClientResponses :
        x = MEClientResponse("CANCELED", c, o, m, y.side, y.price, Null, y.qty)
  BY ResponseTypes DEF OrNull, MEOrder
<1>6. x.client = c /\ x.oid = o /\ x.leaves = y.qty /\ x.type = "CANCELED"
  BY <1>5 DEF MEClientResponse
<1>7. \/ status' = "segv" /\ UNCHANGED order_pool_
      \/ /\ status' = "up" /\ cid_oid_to_order_'[c][o] = Null
         /\ \A d \in Clients, n \in OrderIds :
              ~(d = c /\ n = o) => cid_oid_to_order_'[d][n] = cid_oid_to_order_[d][n]
         /\ \A n \in MOids \ {m} : order_pool_'[n] = order_pool_[n]
         /\ order_pool_'[m] = Null
  BY <1>2, <1>3, <1>4, RemoveOrderForgets DEF IInv, Book
<1>8. ASSUME status' = "segv"
      PROVE  Silent
  BY <1>4, <1>8 DEF Silent
<1>9. ASSUME status' = "up"
      PROVE  TellsOne(x)
  <2>1. Follows(x) /\ Remaining(x) = 0
    BY <1>3, <1>6 DEF Follows, Remaining
  <2>2. Left(c, o)' = 0
    BY <1>4, <1>7, <1>9 DEF Left
  <2>3. ASSUME NEW d \in Clients, NEW n \in OrderIds, ~About(x, d, n)
        PROVE  Stays(d, n)
    <3>1. cid_oid_to_order_'[d][n] = cid_oid_to_order_[d][n]
      BY <1>6, <1>7, <1>9, <2>3 DEF About
    <3>2. ASSUME cid_oid_to_order_[d][n] # Null
          PROVE  order_pool_'[cid_oid_to_order_[d][n]] = order_pool_[cid_oid_to_order_[d][n]]
      <4>1. /\ cid_oid_to_order_[d][n] \in MOids
            /\ order_pool_[cid_oid_to_order_[d][n]].client = d
            /\ order_pool_[cid_oid_to_order_[d][n]].oid = n
        BY <3>2, LeftOfOrders
      <4>2. cid_oid_to_order_[d][n] # m
        BY <1>2, <1>3, <1>6, <2>3, <4>1 DEF About
      <4> QED
        BY <1>7, <1>9, <4>1, <4>2
    <3> QED
      BY <1>4, <3>1, <3>2, SameLeft
  <2> QED
    BY <1>4, <1>5, <1>6, <1>9, <2>1, <2>2, <2>3 DEF TellsOne
<1>10. \A n \in Pooled' : n \in Pooled /\ order_pool_'[n] = order_pool_[n]
  BY <1>7 DEF Pooled
<1> QED
  BY <1>4, <1>6, <1>7, <1>8, <1>9, <1>10

LEMMA MatchTells ==
  ASSUME IInv, RInv, match
  PROVE  /\ \E x, y \in ClientResponses, m \in Pooled :
              TellsTwo(x, y) /\ x.client = job.client /\ y.client = order_pool_[m].client
         /\ status' \in {"up", "segv"} /\ About(job', job.client, job.oid)
         /\ \A n \in Pooled' : /\ n \in Pooled
                                /\ About(order_pool_'[n], order_pool_[n].client, order_pool_[n].oid)
<1> USE NullFacts
<1>1. /\ status = "up" /\ job \in Job /\ job # Null /\ Left(job.client, job.oid) = job.leaves
      /\ cid_oid_to_order_[job.client][job.oid] = Null
  BY LeftOfOrders DEF match
<1>2. PICK m \in MOids : m = BestOrder /\ m \in Pooled
  BY <1>1, BestOrderIsPooled, LeftOfOrders DEF match
<1>3. PICK o \in MEOrder : o = order_pool_[m]
  BY <1>2, LeftOfOrders
<1>4. /\ cid_oid_to_order_[o.client][o.oid] = m /\ Left(o.client, o.oid) = o.qty
      /\ ~(job.client = o.client /\ job.oid = o.oid)
  BY <1>1, <1>2, <1>3, LeftOfOrders
<1>5. PICK fill \in Nat : fill = FillQty(job.leaves, o.qty)
  BY <1>1, <1>3 DEF FillQty, Job, MEOrder
<1>6. /\ job.leaves \in Nat /\ job.leaves > 0 /\ o.qty \in Nat \ {0}
      /\ fill <= job.leaves /\ fill <= o.qty
      /\ job.leaves - fill \in Nat /\ o.qty - fill \in Nat
  BY <1>1, <1>5 DEF FillQty, Job, MEOrder, match, Marketable
<1>7. PICK x \in ClientResponses :
        x = MEClientResponse("FILLED", job.client, job.oid, job.moid, job.side, o.price, fill,
                             job.leaves - fill)
  <2>1. /\ job.client \in Clients /\ job.oid \in OrderIds /\ job.moid \in OrNull(MOids)
        /\ job.side \in OrNull(Sides) /\ o.price \in OrNull(Prices)
    BY <1>1 DEF OrNull, MEOrder, Job
  <2>2. fill \in OrNull(Nat) /\ job.leaves - fill \in OrNull(Nat)
    BY <1>6 DEF OrNull
  <2> QED
    BY <2>1, <2>2, ResponseTypes
<1>8. PICK y \in ClientResponses :
        y = MEClientResponse("FILLED", o.client, o.oid, m, o.side, o.price, fill, o.qty - fill)
  <2>1. /\ o.client \in Clients /\ o.oid \in OrderIds /\ m \in OrNull(MOids)
        /\ o.side \in OrNull(Sides) /\ o.price \in OrNull(Prices)
    BY DEF OrNull, MEOrder
  <2>2. fill \in OrNull(Nat) /\ o.qty - fill \in OrNull(Nat)
    BY <1>6 DEF OrNull
  <2> QED
    BY <2>1, <2>2, ResponseTypes
<1>9. /\ x.client = job.client /\ x.oid = job.oid /\ x.leaves = job.leaves - fill
      /\ x.exec = fill /\ x.type = "FILLED"
      /\ y.client = o.client /\ y.oid = o.oid /\ y.leaves = o.qty - fill
      /\ y.exec = fill /\ y.type = "FILLED"
  BY <1>7, <1>8 DEF MEClientResponse
<1>10. /\ job' = [job EXCEPT !.leaves = @ - fill] /\ resp' = <<x, y>>
       /\ IF fill = o.qty
          THEN removeOrder(m)
          ELSE /\ order_pool_' = [order_pool_ EXCEPT ![m].qty = @ - fill]
               /\ UNCHANGED <<status, cid_oid_to_order_>>
  BY <1>2, <1>3, <1>5, <1>7, <1>8 DEF match, Emit, FillResponses
<1>11. /\ job' # Null /\ job'.client = job.client /\ job'.oid = job.oid
       /\ job'.leaves = job.leaves - fill
  <2>1. job' \in Job
    BY <1>1, <1>6, <1>10 DEF Job
  <2> QED
    BY <1>1, <1>10, <2>1 DEF Job
<1>12. Follows(x) /\ Follows(y) /\ Remaining(x) = x.leaves /\ Remaining(y) = y.leaves
  BY <1>1, <1>4, <1>6, <1>9 DEF Follows, Remaining
<1>13. /\ \A n \in MOids \ {m} : order_pool_'[n] = order_pool_[n]
       /\ \/ status' = "segv" /\ UNCHANGED order_pool_
          \/ /\ status' = "up"
             /\ \A d \in Clients, n \in OrderIds :
                  ~(d = o.client /\ n = o.oid)
                    => cid_oid_to_order_'[d][n] = cid_oid_to_order_[d][n]
             /\ \/ /\ fill = o.qty /\ cid_oid_to_order_'[o.client][o.oid] = Null
                   /\ order_pool_'[m] = Null
                \/ /\ cid_oid_to_order_'[o.client][o.oid] = m
                   /\ order_pool_'[m].client = o.client /\ order_pool_'[m].oid = o.oid
                   /\ order_pool_'[m].qty = o.qty - fill
  <2>1. CASE fill = o.qty
    BY <1>1, <1>3, <1>10, <2>1, RemoveOrderForgets DEF IInv, Book
  <2>2. CASE fill # o.qty
    <3>1. /\ order_pool_' = [order_pool_ EXCEPT ![m].qty = @ - fill]
          /\ UNCHANGED <<status, cid_oid_to_order_>>
      BY <1>10, <2>2
    <3>2. order_pool_' = [order_pool_ EXCEPT ![m] = [o EXCEPT !.qty = @ - fill]]
      BY <1>3, <3>1
    <3>3. /\ \A n \in MOids \ {m} : order_pool_'[n] = order_pool_[n]
          /\ order_pool_'[m].client = o.client /\ order_pool_'[m].oid = o.oid
          /\ order_pool_'[m].qty = o.qty - fill
      BY <3>2 DEF IInv, Book, PoolTypes, MEOrder
    <3> QED
      BY <1>1, <1>4, <3>1, <3>3
  <2> QED
    BY <2>1, <2>2
<1>14. \A n \in Pooled' : /\ n \in Pooled
                           /\ About(order_pool_'[n], order_pool_[n].client, order_pool_[n].oid)
  BY <1>2, <1>3, <1>13 DEF Pooled, About
<1>15. ASSUME status' = "up"
       PROVE  /\ Left(job.client, job.oid)' = x.leaves /\ Left(o.client, o.oid)' = y.leaves
              /\ \A c \in Clients, n \in OrderIds : About(x, c, n) \/ About(y, c, n) \/ Stays(c, n)
  <2>1. Left(job.client, job.oid)' = x.leaves
    BY <1>9, <1>11 DEF Left
  <2>2. Left(o.client, o.oid)' = y.leaves
    <3>1. ~(job'.client = o.client /\ job'.oid = o.oid)
      BY <1>4, <1>11
    <3>2. m # Null
      OBVIOUS
    <3> QED
      BY <1>6, <1>9, <1>13, <1>15, <3>1, <3>2 DEF Left
  <2>3. ASSUME NEW c \in Clients, NEW n \in OrderIds, ~About(x, c, n), ~About(y, c, n)
        PROVE  Stays(c, n)
    <3>1. cid_oid_to_order_'[c][n] = cid_oid_to_order_[c][n]
      BY <1>9, <1>13, <1>15, <2>3 DEF About
    <3>2. ASSUME cid_oid_to_order_[c][n] # Null
          PROVE  order_pool_'[cid_oid_to_order_[c][n]] = order_pool_[cid_oid_to_order_[c][n]]
      <4>1. /\ cid_oid_to_order_[c][n] \in MOids
            /\ order_pool_[cid_oid_to_order_[c][n]].client = c
            /\ order_pool_[cid_oid_to_order_[c][n]].oid = n
        BY <3>2, LeftOfOrders
      <4>2. cid_oid_to_order_[c][n] # m
        BY <1>3, <1>9, <2>3, <4>1 DEF About
      <4> QED
        BY <1>13, <4>1, <4>2
    <3>3. ~(job.client = c /\ job.oid = n) /\ ~(job'.client = c /\ job'.oid = n)
      BY <1>9, <1>11, <2>3 DEF About
    <3> QED
      BY <3>1, <3>2, <3>3 DEF Stays, Left
  <2> QED
    BY <2>1, <2>2, <2>3
<1>16. TellsTwo(x, y)
  <2>1. ~About(y, x.client, x.oid)
    BY <1>4, <1>9 DEF About
  <2>2. x.client = job.client /\ x.oid = job.oid /\ y.client = o.client /\ y.oid = o.oid
    BY <1>9
  <2>3. status' = "up" => Left(x.client, x.oid)' = Remaining(x) /\ Left(y.client, y.oid)' = Remaining(y)
    <3> SUFFICES ASSUME status' = "up"
                 PROVE  Left(x.client, x.oid)' = Remaining(x) /\ Left(y.client, y.oid)' = Remaining(y)
      OBVIOUS
    <3>1. Left(x.client, x.oid)' = Remaining(x)
      BY <1>9, <1>11, <1>12 DEF Left
    <3>2. Left(y.client, y.oid)' = Remaining(y)
      BY <1>12, <1>15, <2>2
    <3> QED
      BY <3>1, <3>2
  <2> QED
    BY <1>9, <1>10, <1>12, <1>15, <2>1, <2>3 DEF TellsTwo
<1>17. status' \in {"up", "segv"}
  BY <1>13
<1> QED
  BY <1>2, <1>3, <1>9, <1>11, <1>14, <1>16, <1>17 DEF About

LEMMA RestTells ==
  ASSUME IInv, RInv, job # Null, status = "up", Rest
  PROVE  /\ Silent /\ status' = "up" /\ job' = Null
         /\ \A n \in Pooled' : \/ About(order_pool_'[n], job.client, job.oid)
                               \/ n \in Pooled /\ order_pool_'[n] = order_pool_[n]
<1> USE NullFacts
<1>1. /\ job \in Job /\ cid_oid_to_order_[job.client][job.oid] = Null
      /\ Left(job.client, job.oid) = job.leaves
  BY LeftOfOrders
<1>2. PICK m \in MOids : m = job.moid /\ m \notin Pooled
  BY <1>1 DEF Job, IInv, JobOK
<1>3. /\ order_pool_'[m].client = job.client /\ order_pool_'[m].oid = job.oid
      /\ order_pool_'[m].qty = job.leaves
      /\ \A n \in MOids \ {m} : order_pool_'[n] = order_pool_[n]
      /\ job' = Null /\ status' = "up" /\ resp' = <<>>
  BY <1>1, <1>2 DEF Rest, Emit, IInv, Book, PoolTypes
<1>4. /\ cid_oid_to_order_'[job.client][job.oid] = m
      /\ \A c \in Clients, o \in OrderIds :
           ~(c = job.client /\ o = job.oid) => cid_oid_to_order_'[c][o] = cid_oid_to_order_[c][o]
  BY <1>1, <1>2 DEF Rest, IInv, Book, PoolTypes, Job
<1>5. ASSUME NEW c \in Clients, NEW o \in OrderIds
      PROVE  Stays(c, o)
  <2>1. CASE c = job.client /\ o = job.oid
    <3>1. cid_oid_to_order_'[c][o] = m /\ m # Null
      BY <1>4, <2>1
    <3>2. Left(c, o)' = order_pool_'[m].qty
      BY <1>3, <3>1 DEF Left
    <3> QED
      BY <1>1, <1>3, <2>1, <3>2 DEF Stays
  <2>2. CASE ~(c = job.client /\ o = job.oid)
    <3>1. cid_oid_to_order_'[c][o] = cid_oid_to_order_[c][o]
      BY <1>4, <2>2
    <3>2. ASSUME cid_oid_to_order_[c][o] # Null
          PROVE  order_pool_'[cid_oid_to_order_[c][o]] = order_pool_[cid_oid_to_order_[c][o]]
      <4>1. cid_oid_to_order_[c][o] \in MOids /\ cid_oid_to_order_[c][o] \in Pooled
        BY <3>2, LeftOfOrders
      <4> QED
        BY <1>2, <1>3, <4>1
    <3> QED
      BY <1>3, <2>2, <3>1, <3>2 DEF Stays, Left
  <2> QED
    BY <2>1, <2>2
<1>6. ASSUME NEW n \in Pooled'
      PROVE  \/ About(order_pool_'[n], job.client, job.oid)
             \/ n \in Pooled /\ order_pool_'[n] = order_pool_[n]
  BY <1>3, <1>6 DEF Pooled, About
<1> QED
  BY <1>3, <1>5, <1>6 DEF Silent

\* What a step inside a call of add() tells the clients, and whose orders it keeps.
LEMMA StepTells ==
  ASSUME IInv, RInv, Step
  PROVE  /\ job \in Job /\ job # Null /\ status' \in {"up", "segv", "out_of_space"}
         /\ \/ Silent
            \/ \E x, y \in ClientResponses, m \in Pooled :
                 TellsTwo(x, y) /\ x.client = job.client /\ y.client = order_pool_[m].client
         /\ job' # Null => About(job', job.client, job.oid)
         /\ \A n \in Pooled' :
              \/ About(order_pool_'[n], job.client, job.oid)
              \/ n \in Pooled /\ About(order_pool_'[n], order_pool_[n].client, order_pool_[n].oid)
<1> USE NullFacts
<1>0. job # Null /\ status = "up" /\ job \in Job
  BY LeftOfOrders DEF Step, match, Complete, Unmatched, RestAtLevel, RestAtNewLevel, SearchLevel,
     SearchNext, LinkFound, Searching, Crash
<1>1. CASE match
  BY <1>0, <1>1, MatchTells
<1>2. CASE RestAtLevel \/ RestAtNewLevel \/ LinkFound
  <2>1. Rest
    BY <1>2 DEF RestAtLevel, RestAtNewLevel, LinkFound
  <2> QED
    BY <1>0, <2>1, RestTells DEF About
<1>3. CASE SearchLevel \/ SearchNext
  <2>1. /\ UNCHANGED <<order_pool_, cid_oid_to_order_, status>> /\ resp' = <<>>
        /\ job'.client = job.client /\ job'.oid = job.oid /\ job'.leaves = job.leaves
        /\ job' # Null
    <3>1. PICK p \in Prices :
            \/ job' = [job EXCEPT !.phase = "link", !.target = next_entry_[p]]
            \/ job' = [job EXCEPT !.target = next_entry_[p]]
      <4>1. CASE SearchLevel
        <5>1. Best(job.side) \in Prices
          BY <4>1 DEF SearchLevel, Best, IInv, Book, PointerTypes, OrNull
        <5> QED
          BY <4>1, <5>1 DEF SearchLevel
      <4>2. CASE SearchNext
        <5>1. job.target \in Prices
          BY <1>0, <4>2 DEF SearchNext, Job
        <5> QED
          BY <4>2, <5>1 DEF SearchNext
      <4> QED
        BY <1>3, <4>1, <4>2
    <3>2. next_entry_[p] \in Prices \cup {Null}
      BY DEF IInv, Book, PointerTypes, OrNull
    <3>3. job' \in Job
      BY <1>0, <3>1, <3>2 DEF Job
    <3>4. /\ UNCHANGED <<order_pool_, cid_oid_to_order_, status>> /\ resp' = <<>>
      BY <1>3 DEF SearchLevel, SearchNext, Emit, bookVars
    <3> QED
      BY <1>0, <3>1, <3>3, <3>4 DEF Job
  <2>2. \A c \in Clients, o \in OrderIds : Stays(c, o)
    BY <1>0, <2>1 DEF Stays, Left
  <2> QED
    BY <1>0, <2>1, <2>2 DEF Silent, Pooled, About
<1>4. CASE Complete
  <2>1. /\ UNCHANGED <<order_pool_, cid_oid_to_order_, status>> /\ resp' = <<>>
        /\ job' = Null /\ job.leaves = 0
    BY <1>4 DEF Complete, Emit, bookVars
  <2>2. \A c \in Clients, o \in OrderIds : Stays(c, o)
    BY <1>0, <2>1, LeftOfOrders DEF Stays, Left
  <2> QED
    BY <1>0, <2>1, <2>2 DEF Silent, Pooled, About
<1>5. CASE Crash
  <2>1. /\ UNCHANGED <<order_pool_, job>> /\ resp' = <<>>
        /\ status' \in {"segv", "out_of_space"}
    BY <1>5 DEF Crash, Emit, bookVars, Die
  <2> QED
    BY <1>0, <2>1 DEF Silent, Pooled, About
<1> QED
  BY <1>1, <1>2, <1>3, <1>4, <1>5 DEF Step
===============================================================================
