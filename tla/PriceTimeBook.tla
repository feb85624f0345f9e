---------------------------- MODULE PriceTimeBook ----------------------------
(***************************************************************************)
(* What a limit order book promises, with no levels, rings, pools or maps: *)
(* an order that arrives is filled against the resting orders of the other *)
(* side while its limit allows, the best price first and at one price the  *)
(* oldest first; what is left of it rests; a client may cancel a resting   *)
(* order.  Market order ids are the order of arrival.                      *)
(*                                                                         *)
(* Matched is the set of sides whose incoming orders are matched at all:   *)
(* both, for a book that does what it is for.                              *)
(***************************************************************************)
EXTENDS Integers

CONSTANTS MaxOrders, Prices, Qtys, Matched, None

\* An order that carries neither side is never matched.
OrderSides == {"BUY", "SELL", "INVALID"}
Order == [moid : 1 .. MaxOrders, side : OrderSides, price : Prices, qty : Nat]

VARIABLES
  resting,      \* the orders in the book
  incoming,     \* the order being matched, or None
  arrivals      \* orders that have arrived so far

vars == <<resting, incoming, arrivals>>

Init == resting = {} /\ incoming = None /\ arrivals = 0

Arrive(side, p, q) ==
  /\ incoming = None /\ arrivals < MaxOrders
  /\ arrivals' = arrivals + 1
  /\ incoming' = [moid |-> arrivals + 1, side |-> side, price |-> p, qty |-> q]
  /\ UNCHANGED resting

Crosses(r) ==
  /\ incoming.side \in Matched
  /\ \/ /\ incoming.side = "BUY" /\ r.side = "SELL"
        /\ r.price <= incoming.price
     \/ /\ incoming.side = "SELL" /\ r.side = "BUY"
        /\ r.price >= incoming.price

\* r is served before s.
Precedes(r, s) ==
  \/ r.side = "SELL" /\ r.price < s.price
  \/ r.side = "BUY" /\ r.price > s.price
  \/ r.price = s.price /\ r.moid < s.moid

\* incoming trades with the first of the orders it crosses.
Trade ==
  /\ incoming # None /\ incoming.qty > 0
  /\ \E r \in resting :
       /\ Crosses(r)
       /\ \A s \in resting \ {r} : Crosses(s) => Precedes(r, s)
       /\ LET fill == IF r.qty < incoming.qty THEN r.qty ELSE incoming.qty
          IN  /\ incoming' = [incoming EXCEPT !.qty = @ - fill]
              /\ resting' = (resting \ {r}) \cup
                   (IF fill = r.qty THEN {} ELSE {[r EXCEPT !.qty = @ - fill]})
  /\ UNCHANGED arrivals

\* Nothing more to trade with: what is left rests.
Rest ==
  /\ incoming # None
  /\ incoming.qty = 0 \/ \A r \in resting : ~Crosses(r)
  /\ resting' = resting \cup (IF incoming.qty = 0 THEN {} ELSE {incoming})
  /\ incoming' = None
  /\ UNCHANGED arrivals

Cancel ==
  /\ incoming = None
  /\ \E r \in resting : resting' = resting \ {r}
  /\ UNCHANGED <<incoming, arrivals>>

\* The book is given up, and all that rests with it.
Close ==
  /\ incoming = None
  /\ resting' = {}
  /\ UNCHANGED <<incoming, arrivals>>

Next ==
  \/ \E side \in OrderSides, p \in Prices, q \in Qtys : Arrive(side, p, q)
  \/ Trade \/ Rest \/ Cancel \/ Close

Spec == Init /\ [][Next]_vars
===============================================================================
