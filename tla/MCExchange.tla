------------------------------ MODULE MCExchange ------------------------------
(* Values for the constants of Exchange.                                       *)
EXTENDS Exchange, TLC

CONSTANTS seller, buyer, o1, o2, o3

Sell(o, p, q) == [type |-> "NEW", oid |-> o, side |-> "SELL", price |-> p, qty |-> q]
Buy(o, p, q)  == [type |-> "NEW", oid |-> o, side |-> "BUY", price |-> p, qty |-> q]
CancelOf(o)   == [type |-> "CANCEL", oid |-> o]
Odd(o, p, q)  == [type |-> "NEW", oid |-> o, side |-> "INVALID", price |-> p, qty |-> q]
FatalFor(o)   == [type |-> "INVALID", oid |-> o]

Script(s, t) == (seller :> s) @@ (buyer :> t)

\* A cancel races a BUY that takes less than the order, all of it, or more; SELL
\* levels are added before and beyond others, in a ring that is closed; an order
\* with neither side and a request of neither type get in.
RacingScripts ==
  {Script(<<Sell(o1, 11, 2), CancelOf(o1)>>, <<Buy(o1, 12, q)>>) : q \in 1 .. 3}
    \cup {Script(<<Sell(o1, 13, 1), Sell(o2, 11, 1), Sell(o3, 15, 1)>>, <<Buy(o1, 13, 2)>>),
          Script(<<Odd(o1, 11, 2), CancelOf(o1)>>, <<Buy(o1, 12, 1)>>),
          Script(<<Sell(o1, 11, 1), FatalFor(o1)>>, <<Buy(o1, 12, 2)>>)}

AnyNumber == Nat

TradingBuyPrices  == {12, 13}
TradingSellPrices == {11, 13, 15}
===============================================================================
