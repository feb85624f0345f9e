------------------------------ MODULE OrderBook ------------------------------
(***************************************************************************)
(* MEOrderBook (exchange/matcher/me_order_book.h and .cpp): the limit      *)
(* order book of one ticker.  The matching engine calls add() and cancel() *)
(* one at a time; each call writes client responses and market updates to  *)
(* the two outgoing queues.                                                *)
(*                                                                         *)
(* An MEOrder is identified by its market order id, an MEOrdersAtPrice by  *)
(* its price, that of the order it was made for.  LevelAt finds the level  *)
(* for a price by its index in price_orders_at_price_hash_map_, as         *)
(* getOrdersAtPrice() does, so that an order may come to rest in the level *)
(* of another price.  The ring of orders of a level (first_me_order_,      *)
(* prev_order_, next_order_) is the sequence orders_at_price[p] that       *)
(* starts at first_me_order_; it is <<>> when there is no level.  The ring *)
(* of levels (prev_entry_, next_entry_) is kept as pointers: a price, or   *)
(* Null for nullptr.                                                       *)
(*                                                                         *)
(* add() is a loop of match() calls, followed by the search loop of        *)
(* addOrdersAtPrice(): each iteration is a step, and `job' holds the local *)
(* variables of the call between two steps.  resp and upd are the messages *)
(* the last step wrote to the outgoing queues.                             *)
(***************************************************************************)
EXTENDS Integers, Sequences, FiniteSets

CONSTANTS
  Clients,       \* client ids, all below ME_MAX_NUM_CLIENTS
  OrderIds,      \* client order ids, all below ME_MAX_ORDER_IDS
  BuyPrices,     \* limits the clients' BUY orders carry
  SellPrices,    \* limits the clients' other orders carry
  Sides,         \* sides the clients' orders carry; nothing rejects INVALID
  Qtys,          \* quantities the clients' orders carry
  MaxOrders,     \* bound: NEW requests in a behaviour
  ReuseIds,      \* may a client use the id of a resting order again?
  LevelPool,     \* ME_MAX_PRICE_LEVELS: indices of the map, blocks of its pool
  OrderPool,     \* ME_MAX_ORDER_IDS: blocks of order_pool_
  Null           \* nullptr, and the INVALID constants of types.h

Prices == BuyPrices \cup SellPrices
MOids  == 1 .. MaxOrders

priceToIndex(p) == p % LevelPool

MEOrder ==
  [client : Clients, oid : OrderIds, side : Sides, price : Prices,
   qty : Nat \ {0}, priority : Nat \ {0}]

\* The locals of add(): leaves is leaves_qty; target is the level the search
\* of addOrdersAtPrice() stands at while phase is "link".
Job ==
  [moid : MOids, client : Clients, oid : OrderIds, side : Sides,
   price : Prices, leaves : Nat, phase : {"match", "link"},
   target : Prices \cup {Null}]

ASSUME BookConstants ==
  /\ BuyPrices \subseteq Int /\ SellPrices \subseteq Int
  /\ Sides \subseteq {"BUY", "SELL", "INVALID"}
  /\ Qtys \subseteq Nat
  /\ MaxOrders \in Nat
  /\ ReuseIds \in BOOLEAN
  /\ LevelPool \in Nat \ {0} /\ OrderPool \in Nat \ {0}

\* Price is an int64_t.
ASSUME PricesAreFinite == IsFiniteSet(Prices)

ASSUME NullIsNoValue == Null \notin Int \cup MEOrder \cup Job

\* A BUY limit and another on one index are one price.
ASSUME SidesCollideAtOnePriceOnly ==
  \A p \in BuyPrices, q \in SellPrices :
    (priceToIndex(p) = priceToIndex(q)) => (p = q)

VARIABLES
  status,                 \* "up"; "closed" once destroyed; or why it has died
  job,                    \* the add() in progress, or Null
  order_pool_,            \* blocks in use: market order id -> MEOrder or Null
  orders_at_price,        \* the orders of each level
  prev_entry_, next_entry_,
  bids_at_price_, asks_at_price_,
  cid_oid_to_order_,
  next_market_order_id_,
  resp, upd

levelVars == <<prev_entry_, next_entry_, bids_at_price_, asks_at_price_>>
bookVars  == <<order_pool_, orders_at_price, cid_oid_to_order_, levelVars>>
vars      == <<status, job, bookVars, next_market_order_id_, resp, upd>>

\* The pools and the pointers of a book that holds nothing.
NoOrders == [m \in MOids |-> Null]
NoQueues == [p \in Prices |-> <<>>]
NoLinks  == [p \in Prices |-> Null]
NoClientOrders == [c \in Clients |-> [o \in OrderIds |-> Null]]

Init ==
  /\ status = "up"
  /\ job = Null
  /\ order_pool_ = NoOrders
  /\ orders_at_price = NoQueues
  /\ prev_entry_ = NoLinks /\ next_entry_ = NoLinks
  /\ bids_at_price_ = Null /\ asks_at_price_ = Null
  /\ cid_oid_to_order_ = NoClientOrders
  /\ next_market_order_id_ = 1
  /\ resp = <<>>
  /\ upd = <<>>

-------------------------------------------------------------------------------
(* Messages.  exec and leaves are exec_qty_ and leaves_qty_.               *)

MEClientResponse(type, client, oid, moid, side, price, exec, leaves) ==
  [type |-> type, client |-> client, oid |-> oid, moid |-> moid,
   side |-> side, price |-> price, exec |-> exec, leaves |-> leaves]

MEMarketUpdate(type, moid, side, price, qty, priority) ==
  [type |-> type, moid |-> moid, side |-> side, price |-> price,
   qty |-> qty, priority |-> priority]

Emit(responses, updates) ==
  /\ resp' = responses
  /\ upd' = updates

\* A null dereference or a failed ASSERT ends the process: nothing it would
\* have written afterwards is seen by anyone.
Die(why) ==
  /\ status' = why
  /\ UNCHANGED bookVars

\* The destructor empties the book, and the pools go with it.
Close ==
  /\ status' = "closed"
  /\ order_pool_' = NoOrders
  /\ orders_at_price' = NoQueues
  /\ prev_entry_' = NoLinks /\ next_entry_' = NoLinks
  /\ bids_at_price_' = Null /\ asks_at_price_' = Null
  /\ cid_oid_to_order_' = NoClientOrders

-------------------------------------------------------------------------------
(* The ring of price levels.                                               *)

Best(side) == IF side = "BUY" THEN bids_at_price_ ELSE asks_at_price_

\* `side == BUY ? bids_at_price_ : asks_at_price_ = v;' groups as
\* `side == BUY ? bids_at_price_ : (asks_at_price_ = v);' in C++, so that
\* bids_at_price_ is evaluated and never assigned.
SetBest(side, v) ==
  /\ asks_at_price_' = IF side = "BUY" THEN asks_at_price_ ELSE v
  /\ UNCHANGED bids_at_price_

\* add_after: the new level is worse than level t.
AddAfterMutant(side, p, t) ==      \* comparisons swapped
  \/ side = "SELL" /\ p < t
  \/ side = "BUY" /\ p > t

AddAfter(side, p, t) ==
  \/ side = "SELL" /\ p > t
  \/ side = "BUY" /\ p < t

BetterMutant(side, p, t) == p > t  \* side ignored

Better(side, p, t) ==
  \/ side = "BUY" /\ p > t
  \/ side = "SELL" /\ p < t

LinkAlone(side, p) ==
  /\ SetBest(side, p)
  /\ prev_entry_' = [prev_entry_ EXCEPT ![p] = p]
  /\ next_entry_' = [next_entry_ EXCEPT ![p] = p]

LinkBefore(side, p, t) ==
  LET before == prev_entry_[t]
      linked == [next_entry_ EXCEPT ![p] = t, ![before] = p]
  IN  /\ prev_entry_' = [prev_entry_ EXCEPT ![p] = before, ![t] = p]
      /\ IF Better(side, p, Best(side))
         THEN /\ next_entry_' = IF linked[t] = Best(side)
                                THEN [linked EXCEPT ![t] = p] ELSE linked
              /\ SetBest(side, p)
         ELSE /\ next_entry_' = linked
              /\ UNCHANGED <<bids_at_price_, asks_at_price_>>

\* The search came back to the best level: the new level goes last.  Its own
\* next_entry_ is left at the nullptr it was allocated with.
LinkLast(side, p) ==
  LET last == prev_entry_[Best(side)]
  IN  /\ prev_entry_' = [prev_entry_ EXCEPT ![p] = last,
                                            ![next_entry_[last]] = p]
      /\ next_entry_' = [next_entry_ EXCEPT ![p] = Null, ![last] = p]
      /\ UNCHANGED <<bids_at_price_, asks_at_price_>>

\* The pointers of a level given back to the pool are never read again:
\* both branches leave them Null, as the next allocation does.
removeOrdersAtPrice(side, p) ==
  LET before == prev_entry_[p]
      after  == next_entry_[p]
  IN  IF after = p
      THEN /\ SetBest(side, Null)
           /\ prev_entry_' = [prev_entry_ EXCEPT ![p] = Null]
           /\ next_entry_' = [next_entry_ EXCEPT ![p] = Null]
      ELSE /\ next_entry_' = [next_entry_ EXCEPT ![before] = after, ![p] = Null]
           /\ prev_entry_' = [prev_entry_ EXCEPT ![after] = before, ![p] = Null]
           /\ IF p = Best(side)
              THEN SetBest(side, after)
              ELSE UNCHANGED <<bids_at_price_, asks_at_price_>>

-------------------------------------------------------------------------------
(* The orders of a level.                                                  *)

LevelAtMutant(p) == p              \* by price instead of by index

\* getOrdersAtPrice(), which may return the level of another price; p itself
\* when it returns nullptr.
LevelAt(p) ==
  LET found == {q \in Prices : /\ priceToIndex(q) = priceToIndex(p)
                               /\ orders_at_price[q] # <<>>}
  IN  IF found = {} THEN p ELSE CHOOSE q \in found : TRUE

getNextPriorityMutant(p) ==        \* from the first order, not the last
  LET q == orders_at_price[LevelAt(p)]
  IN  IF q = <<>> THEN 1 ELSE order_pool_[q[1]].priority + 1

getNextPriority(p) ==
  LET q == orders_at_price[LevelAt(p)]
  IN  IF q = <<>> THEN 1 ELSE order_pool_[q[Len(q)]].priority + 1

UnlinkMutant(q, m) ==              \* the order after m goes instead
  LET k == CHOOSE i \in 1 .. Len(q) : q[i] = m
  IN  [i \in 1 .. Len(q) - 1 |-> IF i <= k THEN q[i] ELSE q[i + 1]]

\* Unlinking an order from its ring keeps the others in their order.
Unlink(q, m) ==
  LET k == CHOOSE i \in 1 .. Len(q) : q[i] = m
  IN  [i \in 1 .. Len(q) - 1 |-> IF i < k THEN q[i] ELSE q[i + 1]]

ForgetMutant(o) == UNCHANGED cid_oid_to_order_

ForgetAllMutant(o) ==              \* fill(nullptr), as the destructor does
  cid_oid_to_order_' =
    [cid_oid_to_order_ EXCEPT ![o.client] = [x \in OrderIds |-> Null]]

Forget(o) ==
  cid_oid_to_order_' = [cid_oid_to_order_ EXCEPT ![o.client][o.oid] = Null]

\* removeOrdersAtPrice() dereferences next_entry_ unless the level is alone.
removeOrder(m) ==
  LET o == order_pool_[m]
      p == LevelAt(o.price)
      lastOfLevel == Len(orders_at_price[p]) = 1
  IN  IF lastOfLevel /\ next_entry_[p] = Null
      THEN Die("segv")
      ELSE /\ UNCHANGED status
           /\ IF lastOfLevel
              THEN removeOrdersAtPrice(o.side, p)
              ELSE UNCHANGED levelVars
           /\ orders_at_price' = [orders_at_price EXCEPT ![p] = Unlink(@, m)]
           /\ Forget(o)
           /\ order_pool_' = [order_pool_ EXCEPT ![m] = Null]

\* MemPool::updateNextFreeIndex() ends the process when the block it has just
\* handed out was the last free one.
OrderPoolFull ==
  Cardinality({m \in MOids : order_pool_[m] # Null}) + 1 >= OrderPool
LevelPoolFull ==
  Cardinality({p \in Prices : orders_at_price[p] # <<>>}) + 1 >= LevelPool

-------------------------------------------------------------------------------
(* add()                                                                   *)

Limits(side) == IF side = "BUY" THEN BuyPrices ELSE SellPrices

\* The head of add(): a new market order id and the ACCEPTED response.
Accept(c, o, side, p, q) ==
  /\ status = "up" /\ job = Null
  /\ next_market_order_id_ \in MOids
  /\ ReuseIds \/ cid_oid_to_order_[c][o] = Null
  /\ job' = [moid |-> next_market_order_id_, client |-> c, oid |-> o,
             side |-> side, price |-> p, leaves |-> q,
             phase |-> "match", target |-> Null]
  /\ next_market_order_id_' = next_market_order_id_ + 1
  /\ Emit(<<MEClientResponse("ACCEPTED", c, o, next_market_order_id_,
                             side, p, 0, q)>>, <<>>)
  /\ UNCHANGED <<status, bookVars>>

Opposite(side) == IF side = "BUY" THEN asks_at_price_ ELSE bids_at_price_

\* checkForMatch(): does its loop go round once more, and with which order?
BestOrder == Head(orders_at_price[Opposite(job.side)])

MarketableMutant ==                \* a limit equal to the best price is not met
  /\ job.leaves > 0
  /\ Opposite(job.side) # Null
  /\ \/ job.side = "BUY" /\ job.price > order_pool_[BestOrder].price
     \/ job.side = "SELL" /\ job.price < order_pool_[BestOrder].price

Marketable ==
  /\ job.leaves > 0
  /\ Opposite(job.side) # Null
  /\ \/ job.side = "BUY" /\ job.price >= order_pool_[BestOrder].price
     \/ job.side = "SELL" /\ job.price <= order_pool_[BestOrder].price

FillQtyMutant(leaves, qty) == IF leaves < qty THEN qty ELSE leaves

FillQty(leaves, qty) == IF leaves < qty THEN leaves ELSE qty

\* Both parties are told; m is the market order id of the resting order o.
FillResponsesMutant(m, o, fill) == \* the resting side's leaves before the fill
  <<MEClientResponse("FILLED", job.client, job.oid, job.moid, job.side,
                     o.price, fill, job.leaves - fill),
    MEClientResponse("FILLED", o.client, o.oid, m, o.side, o.price, fill, o.qty)>>

FillResponses(m, o, fill) ==
  <<MEClientResponse("FILLED", job.client, job.oid, job.moid, job.side,
                     o.price, fill, job.leaves - fill),
    MEClientResponse("FILLED", o.client, o.oid, m, o.side,
                     o.price, fill, o.qty - fill)>>

TradeMutant(o, fill) ==            \* what was wanted, not what was traded
  MEMarketUpdate("TRADE", Null, job.side, o.price, job.leaves, Null)

Trade(o, fill) ==
  MEMarketUpdate("TRADE", Null, job.side, o.price, fill, Null)

BookChangeMutant(m, o, fill) ==    \* MODIFY with the quantity before the fill
  IF fill = o.qty
  THEN MEMarketUpdate("CANCEL", m, o.side, o.price, o.qty, Null)
  ELSE MEMarketUpdate("MODIFY", m, o.side, o.price, o.qty, o.priority)

BookChange(m, o, fill) ==
  IF fill = o.qty
  THEN MEMarketUpdate("CANCEL", m, o.side, o.price, o.qty, Null)
  ELSE MEMarketUpdate("MODIFY", m, o.side, o.price, o.qty - fill, o.priority)

\* match(): one iteration, against the first order of the best level.
match ==
  /\ status = "up" /\ job # Null
  /\ job.phase = "match" /\ Marketable
  /\ LET m    == BestOrder
         o    == order_pool_[m]
         fill == FillQty(job.leaves, o.qty)
     IN  /\ job' = [job EXCEPT !.leaves = @ - fill]
         /\ Emit(FillResponses(m, o, fill),
                 <<Trade(o, fill), BookChange(m, o, fill)>>)
         /\ IF fill = o.qty
            THEN removeOrder(m)
            ELSE /\ order_pool_' = [order_pool_ EXCEPT ![m].qty = @ - fill]
                 /\ UNCHANGED <<status, orders_at_price, cid_oid_to_order_,
                                levelVars>>
  /\ UNCHANGED next_market_order_id_

Unmatched == status = "up" /\ job # Null /\ job.phase = "match" /\ ~Marketable

\* Nothing is left to rest: add() returns.
Complete ==
  /\ Unmatched /\ job.leaves = 0
  /\ job' = Null
  /\ Emit(<<>>, <<>>)
  /\ UNCHANGED <<status, bookVars, next_market_order_id_>>

\* The tail of add() that the three ways of resting share: the order takes its
\* block and its place at the end of its level, and ADD is published.
Rest ==
  LET priority == getNextPriority(job.price)
  IN  /\ order_pool_' = [order_pool_ EXCEPT ![job.moid] =
           [client |-> job.client, oid |-> job.oid, side |-> job.side,
            price |-> job.price, qty |-> job.leaves, priority |-> priority]]
      /\ orders_at_price' =
           [orders_at_price EXCEPT ![LevelAt(job.price)] = Append(@, job.moid)]
      /\ cid_oid_to_order_' =
           [cid_oid_to_order_ EXCEPT ![job.client][job.oid] = job.moid]
      /\ Emit(<<>>, <<MEMarketUpdate("ADD", job.moid, job.side, job.price,
                                     job.leaves, priority)>>)
      /\ job' = Null
      /\ UNCHANGED <<status, next_market_order_id_>>

NewLevel == orders_at_price[LevelAt(job.price)] = <<>>
PoolFull == OrderPoolFull \/ (NewLevel /\ LevelPoolFull)

RestAtLevel ==
  /\ Unmatched /\ job.leaves > 0
  /\ ~NewLevel /\ ~PoolFull
  /\ Rest
  /\ UNCHANGED levelVars

\* addOrdersAtPrice(), when the first comparison settles the place.
RestAtNewLevel ==
  /\ Unmatched /\ job.leaves > 0
  /\ NewLevel /\ ~PoolFull
  /\ \/ /\ Best(job.side) = Null
        /\ LinkAlone(job.side, job.price)
     \/ /\ Best(job.side) # Null
        /\ ~AddAfter(job.side, job.price, Best(job.side))
        /\ LinkBefore(job.side, job.price, Best(job.side))
  /\ Rest

\* addOrdersAtPrice(), when the new level is worse than the best: the search
\* moves to the next level.
SearchLevel ==
  /\ Unmatched /\ job.leaves > 0
  /\ NewLevel /\ ~PoolFull
  /\ Best(job.side) # Null
  /\ AddAfter(job.side, job.price, Best(job.side))
  /\ job' = [job EXCEPT !.phase = "link", !.target = next_entry_[Best(job.side)]]
  /\ Emit(<<>>, <<>>)
  /\ UNCHANGED <<status, bookVars, next_market_order_id_>>

Searching == status = "up" /\ job # Null /\ job.phase = "link"

SearchNextMutant ==                \* no test for having come round
  /\ Searching
  /\ job.target # Null
  /\ AddAfter(job.side, job.price, job.target)
  /\ job' = [job EXCEPT !.target = next_entry_[job.target]]
  /\ Emit(<<>>, <<>>)
  /\ UNCHANGED <<status, bookVars, next_market_order_id_>>

SearchNext ==
  /\ Searching
  /\ job.target \notin {Null, Best(job.side)}
  /\ AddAfter(job.side, job.price, job.target)
  /\ job' = [job EXCEPT !.target = next_entry_[job.target]]
  /\ Emit(<<>>, <<>>)
  /\ UNCHANGED <<status, bookVars, next_market_order_id_>>

LinkFound ==
  /\ Searching /\ job.target # Null
  /\ \/ /\ job.target = Best(job.side)
        /\ LinkLast(job.side, job.price)
     \/ /\ job.target # Best(job.side)
        /\ ~AddAfter(job.side, job.price, job.target)
        /\ LinkBefore(job.side, job.price, job.target)
  /\ Rest

\* The process ends: the search reads target -> price_ through a null target, or
\* a pool hands out its last block.
Crash ==
  /\ \/ /\ Searching /\ job.target = Null
        /\ Die("segv")
     \/ /\ Unmatched /\ job.leaves > 0 /\ PoolFull
        /\ Die("out_of_space")
  /\ Emit(<<>>, <<>>)
  /\ UNCHANGED <<job, next_market_order_id_>>

-------------------------------------------------------------------------------
(* cancel()                                                                *)

CancelReject(c, o) ==
  /\ status = "up" /\ job = Null
  /\ cid_oid_to_order_[c][o] = Null
  /\ Emit(<<MEClientResponse("CANCEL_REJECTED", c, o, Null, Null, Null,
                             Null, Null)>>, <<>>)
  /\ UNCHANGED <<status, job, bookVars, next_market_order_id_>>

\* The two messages are written after removeOrder(), if it returns.
Cancel(c, o) ==
  /\ status = "up" /\ job = Null
  /\ cid_oid_to_order_[c][o] # Null
  /\ LET m == cid_oid_to_order_[c][o]
         x == order_pool_[m]
     IN  /\ removeOrder(m)
         /\ IF status' = "up"
            THEN Emit(<<MEClientResponse("CANCELED", c, o, m, x.side, x.price,
                                         Null, x.qty)>>,
                      <<MEMarketUpdate("CANCEL", m, x.side, x.price, 0,
                                       x.priority)>>)
            ELSE Emit(<<>>, <<>>)
  /\ UNCHANGED <<job, next_market_order_id_>>

-------------------------------------------------------------------------------
(* The destructor, which logs toString(false, true).                           *)

\* The k-th level toString() prints, from the best on: it stops when the next
\* one is the best again.
AskPrinted[k \in Nat] ==
  IF k = 0 THEN asks_at_price_
  ELSE LET p == AskPrinted[k - 1]
       IN  IF p = Null \/ next_entry_[p] = asks_at_price_ THEN Null
           ELSE next_entry_[p]

\* The prices of the two neighbours are printed, then the order is checked.
HasNeighbours(p) == prev_entry_[p] # Null /\ next_entry_[p] # Null
SortedAt(k) == k > 0 => AskPrinted[k - 1] < AskPrinted[k]

\* bids_at_price_ is null: there is no BUY level to print.
Destroy ==
  /\ status = "up" /\ job = Null
  /\ LET printed == {k \in 0 .. Cardinality(Prices) : AskPrinted[k] # Null}
         failed  == {k \in printed : ~(HasNeighbours(AskPrinted[k]) /\ SortedAt(k))}
         first   == CHOOSE k \in failed : \A l \in failed : k <= l
     IN  IF failed = {} THEN Close
         ELSE Die(IF HasNeighbours(AskPrinted[first]) THEN "unsorted" ELSE "segv")
  /\ Emit(<<>>, <<>>)
  /\ UNCHANGED <<job, next_market_order_id_>>

-------------------------------------------------------------------------------
\* The engine thread inside a call of add().
Step == \/ match \/ Complete \/ RestAtLevel \/ RestAtNewLevel
        \/ SearchLevel \/ SearchNext \/ LinkFound \/ Crash

Next ==
  \/ \E c \in Clients, o \in OrderIds :
       \/ \E side \in Sides : \E p \in Limits(side), q \in Qtys :
            Accept(c, o, side, p, q)
       \/ CancelReject(c, o)
       \/ Cancel(c, o)
  \/ Step
  \/ Destroy

Spec == Init /\ [][Next]_vars

\* MatchingEngine::run() calls the book from one thread that never blocks.
FairSpec == Spec /\ WF_vars(Step)

-------------------------------------------------------------------------------
(* Properties.  OneSided is the regime in which BUY orders share no price      *)
(* level with others; RingOK and SearchOK need it.                             *)

OneSided ==
  \A p \in BuyPrices, q \in SellPrices : priceToIndex(p) # priceToIndex(q)

Pooled == {m \in MOids : order_pool_[m] # Null}
Levels == {p \in Prices : orders_at_price[p] # <<>>}
AskLevels == Levels \cap SellPrices

OrNull(S) == S \cup {Null}

Statuses == {"up", "closed", "segv", "out_of_space", "unsorted"}

ClientResponses ==
  [type : {"ACCEPTED", "FILLED", "CANCELED", "CANCEL_REJECTED"},
   client : Clients, oid : OrderIds, moid : OrNull(MOids), side : OrNull(Sides),
   price : OrNull(Prices), exec : OrNull(Nat), leaves : OrNull(Nat)]

MarketUpdates ==
  [type : {"ADD", "MODIFY", "CANCEL", "TRADE"}, moid : OrNull(MOids),
   side : Sides, price : Prices, qty : Nat, priority : OrNull(Nat)]

\* The variables range over the values of their C++ types.
TypeOK ==
  /\ status \in Statuses
  /\ job \in OrNull(Job)
  /\ order_pool_ \in [MOids -> OrNull(MEOrder)]
  /\ orders_at_price \in [Prices -> Seq(MOids)]
  /\ prev_entry_ \in [Prices -> OrNull(Prices)]
  /\ next_entry_ \in [Prices -> OrNull(Prices)]
  /\ bids_at_price_ \in OrNull(Prices)
  /\ asks_at_price_ \in OrNull(Prices)
  /\ cid_oid_to_order_ \in [Clients -> [OrderIds -> OrNull(MOids)]]
  /\ next_market_order_id_ \in 1 .. MaxOrders + 1
  /\ resp \in Seq(ClientResponses)
  /\ upd \in Seq(MarketUpdates)

\* The pool and the levels agree: every block in use is in the queue of the level
\* its price leads to, once, and no queue holds an order given back to the pool;
\* no two levels want one entry of the price map (the rings of addOrder() and
\* removeOrder(), me_order_book.h:149-192).
LevelsAndOrdersAgree ==
  /\ \A p, q \in Levels : priceToIndex(p) = priceToIndex(q) => p = q
  /\ \A p \in Prices : \A i \in 1 .. Len(orders_at_price[p]) :
       LET m == orders_at_price[p][i]
       IN  /\ m \in Pooled
           /\ priceToIndex(order_pool_[m].price) = priceToIndex(p)
           /\ \A j \in 1 .. Len(orders_at_price[p]) :
                orders_at_price[p][j] = m => j = i
  /\ \A m \in Pooled : \E p \in Prices :
       \E i \in 1 .. Len(orders_at_price[p]) : orders_at_price[p][i] = m

\* Time priority within a level: an order stands behind exactly those that were
\* accepted before it, and the priorities published with ADD and MODIFY rank
\* the orders of the level the same way (getNextPriority(), addOrder()).
PriorityOrder ==
  \A p \in Prices : \A i, j \in 1 .. Len(orders_at_price[p]) :
    i < j =>
      LET m == orders_at_price[p][i]
          n == orders_at_price[p][j]
      IN  m < n /\ order_pool_[m].priority < order_pool_[n].priority

\* cancel() follows a pointer of the client's map: it is null or it leads to a
\* block in use that holds an order this client sent under this id, never to a
\* block given back to the pool (me_order_book.h:169,190, .cpp:171-210).
CidMapSound ==
  \A c \in Clients, o \in OrderIds :
    LET m == cid_oid_to_order_[c][o]
    IN  m # Null => /\ m \in Pooled
                    /\ order_pool_[m].client = c
                    /\ order_pool_[m].oid = o

\* Clients that do not reuse the id of a resting order can cancel every order
\* that rests.
CancelReaches ==
  \A m \in Pooled : cid_oid_to_order_[order_pool_[m].client][order_pool_[m].oid] = m

\* The ring of ask levels is the levels in use from the best price to the
\* worst: asks_at_price_ is the lowest, prev_entry_ is the level before (of the
\* best one: the worst), next_entry_ is the level after.  Only the worst level
\* may have no next_entry_, and then it is not the best.  Every BUY level is a
\* ring of its own that no head points to.
RingOK ==
  /\ bids_at_price_ = Null
  /\ (asks_at_price_ = Null) <=> (AskLevels = {})
  /\ \A p \in AskLevels :
       LET above == {q \in AskLevels : q > p}
           below == {q \in AskLevels : q < p}
       IN  /\ below = {} <=> p = asks_at_price_
           /\ prev_entry_[p] \in
                IF below = {}
                THEN {q \in AskLevels : \A r \in AskLevels : r <= q}
                ELSE {q \in below : \A r \in below : r <= q}
           /\ next_entry_[p] \in
                IF above = {}
                THEN {asks_at_price_} \cup (IF below = {} THEN {} ELSE {Null})
                ELSE {q \in above : \A r \in above : q <= r}
  /\ \A p \in Levels \ SellPrices : prev_entry_[p] = p /\ next_entry_[p] = p

\* The search of addOrdersAtPrice() has left behind it exactly the levels that
\* are better than the new one; when it has come round to the best level, or
\* off the open end of the ring, that is all of them.
SearchOK ==
  (job # Null /\ status = "up") => (job.phase = "link" =>
    /\ job.side = "SELL" /\ job.price \notin Levels /\ asks_at_price_ # Null
    /\ job.target \in OrNull(AskLevels)
    /\ \A p \in AskLevels :
         job.target \in {Null, asks_at_price_} \/ p < job.target => p < job.price)

\* The FATAL of toString() never fires: whatever the ring has been through, the
\* levels the destructor gets to print are in ascending order
\* (me_order_book.cpp:258-265).
NeverUnsorted == status # "unsorted"

-------------------------------------------------------------------------------
\* The book with everything but the orders hidden, which it keeps when its
\* process has died.
Incoming ==
  IF job = Null THEN Null
  ELSE [moid |-> job.moid, side |-> job.side, price |-> job.price,
        qty |-> job.leaves]

Resting ==
  {[moid |-> m, side |-> order_pool_[m].side, price |-> order_pool_[m].price,
    qty |-> order_pool_[m].qty] : m \in Pooled}

BuysAreMatched == INSTANCE PriceTimeBook
  WITH Matched <- {"BUY"}, None <- Null, resting <- Resting,
       incoming <- Incoming, arrivals <- next_market_order_id_ - 1

ASSUME NullIsNoOrder == Null \notin BuysAreMatched!Order

\* Price-time priority of the fills, what is filled, what rests and what a
\* cancel removes are those of the abstract book, as far as BUY orders that
\* arrive go: a SELL order that arrives is never matched.  What matching looks at
\* must hold every resting SELL order, in the level of its own price: AsksLinked.
ImplementsPriceTimeBook == BuysAreMatched!Spec

\* The levels asks_at_price_ leads to.
AskRing ==
  {p \in Prices :
     \A S \in SUBSET Prices :
       /\ asks_at_price_ \in OrNull(S)
       /\ \A q \in S : next_entry_[q] \in OrNull(S)
       => p \in S}

AsksLinked ==
  \A m \in Pooled : order_pool_[m].side # "BUY" =>
    LET p == order_pool_[m].price
    IN  /\ order_pool_[m].side = "SELL"
        /\ p \in AskRing
        /\ \E i \in 1 .. Len(orders_at_price[p]) : orders_at_price[p][i] = m

\* While that is so, price-time priority holds whatever limits the two sides use,
\* a BUY limit equal to the best ask among them: every step takes the abstract
\* book where the abstract book may go (checkForMatch(), me_order_book.cpp:101-123).
PriceTimeWhileLinked ==
  [][AsksLinked => BuysAreMatched!Next]_(BuysAreMatched!vars)

\* README.md:121 and :125: the book is "responsible for matching buy and sell
\* orders" by "Price-time priority".  An arriving BUY that would pay what a
\* resting SELL asks is matched with it, and does not come to rest beside it.
BuysNotCrossed ==
  job = Null /\ status = "up" =>
    \A m, n \in Pooled :
      order_pool_[m].side = "BUY" /\ order_pool_[n].side = "SELL" /\ n < m
        => order_pool_[m].price < order_pool_[n].price

\* A level added after another stands between it and the level that followed
\* it, as the comment in addOrdersAtPrice() says: no level in use has a null
\* neighbour.
RingClosed == \A p \in Levels : prev_entry_[p] # Null /\ next_entry_[p] # Null
===============================================================================
