----------------------------- MODULE MCBookFeeds -----------------------------
(* Values for the constants of BookFeeds, with three indices: both sides have   *)
(* the limit 12, so that orders of both meet in one level, and SELL orders at  *)
(* 11 and at 14 share an index.                                                *)
EXTENDS BookFeeds, TLC

SharingBuyPrices  == {12, 13}
SharingSellPrices == {11, 12, 14}

\* Market order ids are the identities that matter to both readers.
OrderIdSymmetry == Permutations(OrderIds)
===============================================================================
