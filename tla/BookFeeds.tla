------------------------------ MODULE BookFeeds ------------------------------
(***************************************************************************)
(* The two readers of what an order book sends, who see its messages and   *)
(* nothing else: a subscriber of the market updates, who rebuilds the book *)
(* from them, and the clients, who keep an account of every order from the *)
(* responses.  Both only observe; the question is whether what they know   *)
(* is what the book holds.                                                 *)
(***************************************************************************)
EXTENDS OrderBook

VARIABLES
  mirror,    \* the subscriber's book: market order id -> order, or Null
  traded,    \* the volume of the TRADE updates it has seen
  account    \* the clients' orders: market order id -> account, or Null

feedVars == <<vars, mirror, traded, account>>

\* What a client knows of an order: leaves is what it was last told is left.
Account ==
  [client : Clients, oid : OrderIds, ordered : Nat, filled : Nat, leaves : Nat,
   open : BOOLEAN]

ASSUME NullIsNoAccount == Null \notin Account

FeedInit ==
  /\ Init
  /\ mirror = [m \in MOids |-> Null]
  /\ traded = 0
  /\ account = [m \in MOids |-> Null]

ApplyUpdate(book, u) ==
  CASE u.type \in {"ADD", "MODIFY"} ->
         [book EXCEPT ![u.moid] = [side |-> u.side, price |-> u.price,
                                   qty |-> u.qty, priority |-> u.priority]]
    [] u.type = "CANCEL" -> [book EXCEPT ![u.moid] = Null]
    [] u.type = "TRADE"  -> book

ApplyResponse(acc, r) ==
  CASE r.type = "ACCEPTED" ->
         [acc EXCEPT ![r.moid] = [client |-> r.client, oid |-> r.oid,
            ordered |-> r.leaves, filled |-> 0, leaves |-> r.leaves,
            open |-> TRUE]]
    [] r.type = "FILLED" ->
         [acc EXCEPT ![r.moid].filled = @ + r.exec, ![r.moid].leaves = r.leaves]
    [] r.type = "CANCELED" ->
         [acc EXCEPT ![r.moid].leaves = r.leaves, ![r.moid].open = FALSE]
    [] r.type = "CANCEL_REJECTED" -> acc

\* The messages of a step are read in the order they were written.
AfterUpdates(book, msgs) ==
  LET after[n \in 0 .. Len(msgs)] ==
        IF n = 0 THEN book ELSE ApplyUpdate(after[n - 1], msgs[n])
  IN  after[Len(msgs)]

AfterResponses(acc, msgs) ==
  LET after[n \in 0 .. Len(msgs)] ==
        IF n = 0 THEN acc ELSE ApplyResponse(after[n - 1], msgs[n])
  IN  after[Len(msgs)]

\* g[1] + ... + g[n]
Total(g, n) ==
  LET sum[k \in 0 .. n] == IF k = 0 THEN 0 ELSE sum[k - 1] + g[k]
  IN  sum[n]

Volume(msgs) ==
  Total([i \in 1 .. Len(msgs) |-> IF msgs[i].type = "TRADE" THEN msgs[i].qty ELSE 0],
        Len(msgs))

Observe ==
  /\ mirror' = AfterUpdates(mirror, upd')
  /\ account' = AfterResponses(account, resp')
  /\ traded' = traded + Volume(upd')

FeedNext == Next /\ Observe

FeedSpec == FeedInit /\ [][FeedNext]_feedVars

-------------------------------------------------------------------------------
\* The subscriber's book is the book: side, price, quantity and priority of
\* every order, after every step of every call (match(), add(), cancel() publish
\* each change they make to the orders, me_order_book.cpp:63-98,155-164,200-210),
\* until the book is destroyed.
MirrorAgrees ==
  status # "closed" => \A m \in MOids :
    mirror[m] =
      IF m \in Pooled
      THEN [side |-> order_pool_[m].side, price |-> order_pool_[m].price,
            qty |-> order_pool_[m].qty, priority |-> order_pool_[m].priority]
      ELSE Null

\* No quantity is lost or made: what a client was told was filled and what it
\* was told is left add up to what it ordered, and what is left is what rests,
\* or what the engine is still working on, until the client cancels.
AccountsAgree ==
  \A m \in MOids : account[m] # Null =>
    LET a == account[m]
    IN  /\ a.ordered = a.filled + a.leaves
        /\ status = "up" /\ a.open =>
             a.leaves = IF m \in Pooled THEN order_pool_[m].qty
                        ELSE IF job # Null /\ job.moid = m THEN job.leaves
                        ELSE 0
        /\ m \in Pooled => /\ a.open
                           /\ order_pool_[m].client = a.client
                           /\ order_pool_[m].oid = a.oid

\* Every trade is published once and filled twice: the TRADE updates account for
\* exactly the quantity both sides of all fills were told.
TradesAgree ==
  2 * traded =
    Total([m \in MOids |-> IF account[m] = Null THEN 0 ELSE account[m].filled],
          MaxOrders)
===============================================================================
