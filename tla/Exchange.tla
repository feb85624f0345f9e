------------------------------ MODULE Exchange ------------------------------
(***************************************************************************)
(* The exchange main() puts together: the order server's thread, the       *)
(* matching engine's thread (MatchingEngine::run(), exchange/matcher/      *)
(* matching_engine.h) with the book of one ticker, the two queues between  *)
(* them, and clients that follow the protocol.  Here the engine is the     *)
(* real one: each step of it is a step of OrderBook, and what the book     *)
(* answers goes into the server's queue.  Both threads are one process, so *)
(* the two share `status'.                                                 *)
(*                                                                         *)
(* A client numbers its requests 1, 2, ... and sends them on its own       *)
(* connection, which bears its name; its n-th request is script[c][n].     *)
(* A client uses an order id for one order.  Clients may stop at any time. *)
(*                                                                         *)
(* Nobody reads the queue of market updates: there is no publisher.        *)
(***************************************************************************)
EXTENDS OrderServer, Integers, FiniteSets

CONSTANTS
  OrderIds, BuyPrices, SellPrices, Sides, Qtys, MaxOrders, LevelPool, OrderPool,
  Scripts         \* what the clients may set out to send

\* Nothing on the way in looks at the type or at the side of a request.
MEClientRequests ==
  {r \in [type : {"NEW"}, oid : OrderIds, side : Sides,
          price : BuyPrices \cup SellPrices, qty : Qtys] :
     r.price \in IF r.side = "BUY" THEN BuyPrices ELSE SellPrices}
    \cup [type : {"CANCEL", "INVALID"}, oid : OrderIds]

\* A client gives a new order an id it has not used before, and names in its other
\* requests only what it has ordered.
Sensible(t) ==
  \A n \in 1 .. Len(t) :
    IF t[n].type = "NEW"
    THEN \A k \in 1 .. n - 1 : t[k].oid # t[n].oid
    ELSE \E k \in 1 .. n - 1 : t[k].type = "NEW" /\ t[k].oid = t[n].oid

ASSUME ClientsFollowScripts ==
  /\ Sockets = Clients
  /\ Scripts \subseteq [Clients -> Seq(MEClientRequests)]
  /\ \A t \in Scripts, c \in Clients : Len(t[c]) <= MaxSeq /\ Sensible(t[c])

VARIABLES
  script,
  written,        \* what the engine has written to each client
  job, order_pool_, orders_at_price, prev_entry_, next_entry_, bids_at_price_,
  asks_at_price_, cid_oid_to_order_, next_market_order_id_, resp, upd

\* The book of the ticker, its variables and constants those of this module.  The
\* code does not ask whether an id is in use.
Book == INSTANCE OrderBook WITH ReuseIds <- TRUE

ASSUME BookAssumptions ==
  /\ BuyPrices \subseteq Int /\ SellPrices \subseteq Int /\ Qtys \subseteq Nat
  /\ Sides \subseteq {"BUY", "SELL", "INVALID"}
  /\ MaxOrders \in Nat /\ LevelPool \in Nat \ {0} /\ OrderPool \in Nat \ {0}
  /\ IsFiniteSet(Book!Prices)
  /\ Null \notin Int \cup Clients \cup Book!MEOrder \cup Book!Job \cup Book!BuysAreMatched!Order
  /\ \A p \in BuyPrices, q \in SellPrices :
       Book!priceToIndex(p) = Book!priceToIndex(q) => p = q

ownBookVars  == <<job, order_pool_, orders_at_price, prev_entry_, next_entry_,
                  bids_at_price_, asks_at_price_, cid_oid_to_order_,
                  next_market_order_id_, resp, upd>>
exchangeVars == <<vars, ownBookVars, script, written>>

ExchangeInit ==
  Init /\ Book!Init /\ script \in Scripts /\ written = [c \in Clients |-> <<>>]

ClientSends(c) ==
  /\ Len(stream[c]) < Len(script[c])
  /\ Send(c, c, Len(stream[c]) + 1)

-------------------------------------------------------------------------------
(* The thread of MatchingEngine::run().                                        *)

\* A type that is neither NEW nor CANCEL is FATAL.
InvalidType ==
  /\ status = "up" /\ job = Null
  /\ Book!Die("invalid_type")
  /\ Book!Emit(<<>>, <<>>)
  /\ UNCHANGED <<job, next_market_order_id_>>

\* add() or cancel() begins.
processClientRequest(c, x) ==
  \/ x.type = "NEW" /\ Book!Accept(c, x.oid, x.side, x.price, x.qty)
  \/ x.type = "CANCEL" /\ (Book!CancelReject(c, x.oid) \/ Book!Cancel(c, x.oid))
  \/ x.type = "INVALID" /\ InvalidType

\* The engine takes the next request from the queue when the book has returned
\* from the one before.
TakeRequest ==
  /\ processed < Len(incoming)
  /\ LET r == incoming[processed + 1].request
     IN  processClientRequest(r.client, script[r.client][r.seq])

\* What has been written when the i-th response of the step has been, if it has
\* one, and to whom that is.
Wrote(i, w) ==
  IF i <= Len(resp') THEN [w EXCEPT ![resp'[i].client] = Append(@, resp'[i])] ELSE w
Addressee(i) == IF i <= Len(resp') THEN resp'[i].client ELSE Null

SendNewestOnly(taken) ==           \* mutant: one slot of the queue for both
  /\ Process(taken, Null, IF resp' = <<>> THEN Null ELSE Addressee(Len(resp')))
  /\ written' = Wrote(2, Wrote(1, written))

\* sendClientResponse(), for each response of the step, which are two at most.
sendClientResponse(taken) ==
  /\ Process(taken, Addressee(1), Addressee(2))
  /\ written' = Wrote(2, Wrote(1, written))

MatchingEngine ==
  /\ \/ TakeRequest /\ sendClientResponse(1)
     \/ Book!Step /\ sendClientResponse(0)
  /\ UNCHANGED script

-------------------------------------------------------------------------------
ServerStep == Server /\ UNCHANGED <<ownBookVars, script, written>>
Delivery   == Arrivals /\ UNCHANGED <<ownBookVars, script, written>>

ExchangeNext ==
  \/ /\ \E c \in Clients : Connect(c) \/ ClientSends(c)
     /\ UNCHANGED <<ownBookVars, script, written>>
  \/ Delivery
  \/ ServerStep
  \/ MatchingEngine

\* Neither thread ever blocks, and the network delivers.
ExchangeSpec ==
  /\ ExchangeInit /\ [][ExchangeNext]_exchangeVars
  /\ WF_exchangeVars(ServerStep)
  /\ WF_exchangeVars(Delivery)
  /\ WF_exchangeVars(MatchingEngine)

-------------------------------------------------------------------------------
(* Properties.                                                                 *)

\* What the i-th message to c says.
Body(c, i) == written[c][received[c][i].response.number]

\* Message j is the one before i that is about the same order.
Precedes(c, j, i) ==
  /\ j < i /\ Body(c, j).oid = Body(c, i).oid
  /\ \A k \in j + 1 .. i - 1 : Body(c, k).oid # Body(c, i).oid

\* Nothing of the order is left after this response.
Ends(x) == x.type \in {"CANCELED", "CANCEL_REJECTED"} \/ x.leaves = 0

\* A response that y may follow x with.
Continues(x, y) ==
  \/ y.type = "FILLED" /\ ~Ends(x) /\ y.leaves + y.exec = x.leaves
  \/ y.type = "CANCELED" /\ ~Ends(x) /\ y.leaves = x.leaves
  \/ y.type = "CANCEL_REJECTED" /\ Ends(x)

\* What a client hears of an order makes a story, whatever became of the order in
\* between: it is accepted first; every fill continues from the quantity the
\* response before left; a cancel that succeeds finds that quantity; a cancel is
\* rejected only when the client has heard that nothing is left.  And a client
\* hears of its own orders only.  It takes the sequencer, the engine's queue, the
\* book and the server's way out to tell it (order_server.h:29-59,92-99,
\* matching_engine.h:54-62,74-89).
OrderStories ==
  \A c \in Clients : \A i \in 1 .. Len(received[c]) :
    /\ Body(c, i).client = c
    /\ Body(c, i).type = "ACCEPTED" <=>
         \A j \in 1 .. i - 1 : Body(c, j).oid # Body(c, i).oid
    /\ \A j \in 1 .. i - 1 : Precedes(c, j, i) => Continues(Body(c, j), Body(c, i))

\* Nothing is under way, in the network, in either thread or between them.
Quiet ==
  /\ waiting = <<>> /\ pending_client_requests_ = <<>>
  /\ outgoing_responses_ = <<>> /\ processed = Len(incoming) /\ job = Null
  /\ \A s \in Sockets : /\ read[s] = Parts * Len(stream[s])
                        /\ inbound_data_[s] = <<>> /\ outbound_data_[s] = <<>>

\* Message i is the last that c has received about its order o.
LastTold(c, o, i) ==
  /\ i \in 1 .. Len(received[c]) /\ Body(c, i).oid = o
  /\ \A j \in i + 1 .. Len(received[c]) : Body(c, j).oid # o

\* When nothing is under way, what a client was last told of an order is what the
\* book holds: the order rests with the quantity left, or not at all.
ClientsKnow ==
  status = "up" /\ Quiet =>
    \A c \in Clients, o \in OrderIds :
      LET told == {i \in 1 .. Len(received[c]) : LastTold(c, o, i) /\ ~Ends(Body(c, i))}
          m    == cid_oid_to_order_[c][o]
      IN  /\ m = Null <=> told = {}
          /\ \A i \in told : order_pool_[m].qty = Body(c, i).leaves

\* Requests of client c that have been answered: a fill answers no request.
Answered(c) ==
  Cardinality({i \in 1 .. Len(received[c]) : Body(c, i).type # "FILLED"})

\* The exchange leaves nothing lying and no request keeps it busy for ever: when
\* the clients have said all they will, every request they sent comes to be
\* answered, unless one of them has ended the process (the loops of
\* TCPServer::sendAndRecv(), OrderServer::run(), MatchingEngine::run(),
\* checkForMatch() and addOrdersAtPrice()).
EveryRequestAnswered ==
  <>[](status # "up" \/ (Quiet /\ \A c \in Clients : Answered(c) = Len(stream[c])))
===============================================================================
