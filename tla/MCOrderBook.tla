----------------------------- MODULE MCOrderBook -----------------------------
(* Values for the constants of OrderBook.                                      *)
EXTENDS OrderBook, TLC

\* Four SELL limits and two BUY limits among them, all on different indices: an
\* order of either side can be better than, between or worse than the levels,
\* and the ring has up to four ask levels.
InterleavedBuyPrices  == {12, 14}
InterleavedSellPrices == {11, 13, 15, 17}

\* One price for both sides.
SharedPrice == {12}

\* With eight indices, 19 leads to the level of 11.
CollidingBuyPrices  == {22}
CollidingSellPrices == {11, 13, 19}

\* Market order ids are the identities that matter here; which of its ids a
\* client uses for an order is interchangeable.
OrderIdSymmetry == Permutations(OrderIds)
===============================================================================
