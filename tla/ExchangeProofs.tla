---------------------------- MODULE ExchangeProofs ----------------------------
(***************************************************************************)
(* Proofs about Exchange: it implements OrderServer, and what a client     *)
(* hears of an order makes a story and is true of the book.                *)
(*                                                                         *)
(* What is proved of the book is taken from OrderBookProofs and what is    *)
(* proved of the server from OrderServerProofs.  The engine's side of the  *)
(* argument is BookInv (all that is in the book has been ordered, once),   *)
(* Takes and StepTells (what a step of the book writes to whom), and       *)
(* Truthful (the last response about an order says what is left of it).    *)
(* The server's side is Delivered: the messages to a client are its        *)
(* responses, each in the place of its number.                             *)
(***************************************************************************)
EXTENDS Exchange, OrderServerProofs

\* The book of Exchange, with what is proved of it.
BookP == INSTANCE OrderBookProofs WITH ReuseIds <- TRUE

-------------------------------------------------------------------------------
(* The book and the book of OrderBookProofs are one: an instance brings its    *)
(* own copy of every operator, and the copies have the same definitions.       *)

LEMMA SameCardinality ==
  ASSUME NEW S PROVE Book!Cardinality(S) = BookP!Cardinality(S)
BY DEF Book!Cardinality, BookP!Cardinality, Book!IsFiniteSet, BookP!IsFiniteSet

LEMMA SameFinite ==
  ASSUME NEW S PROVE BookP!IsFiniteSet(S) <=> IsFiniteSet(S)
BY DEF BookP!IsFiniteSet, IsFiniteSet

\* The actions of the two are the same.
LEMMA SameBook ==
  /\ Book!Init <=> BookP!Init
  /\ \A c, o : Book!CancelReject(c, o) <=> BookP!CancelReject(c, o)
  /\ \A c, o : Book!Cancel(c, o) <=> BookP!Cancel(c, o)
  /\ \A c, o, side, p, q : Book!Accept(c, o, side, p, q) <=> BookP!Accept(c, o, side, p, q)
  /\ Book!Step <=> BookP!Step
<1>1. Book!Init <=> BookP!Init
  BY DEF Book!Init, Book!NoOrders, Book!NoQueues, Book!NoLinks, Book!NoClientOrders,
         Book!MOids, Book!Prices, BookP!Init, BookP!NoOrders, BookP!NoQueues, BookP!NoLinks,
         BookP!NoClientOrders, BookP!MOids, BookP!Prices
<1>2. Book!OrderPoolFull <=> BookP!OrderPoolFull
  <2>1. Book!MOids = BookP!MOids
    BY DEF Book!MOids, BookP!MOids
  <2>2. {m \in Book!MOids : order_pool_[m] # Null} = {m \in BookP!MOids : order_pool_[m] # Null}
    BY <2>1
  <2> QED
    BY <2>2, SameCardinality DEF Book!OrderPoolFull, BookP!OrderPoolFull
<1>3. Book!LevelPoolFull <=> BookP!LevelPoolFull
  <2>1. Book!Prices = BookP!Prices
    BY DEF Book!Prices, BookP!Prices
  <2>2. {p \in Book!Prices : orders_at_price[p] # <<>>} = {p \in BookP!Prices : orders_at_price[p] # <<>>}
    BY <2>1
  <2> QED
    BY <2>2, SameCardinality DEF Book!LevelPoolFull, BookP!LevelPoolFull
<1> USE DEF Book!Prices, Book!MOids, Book!priceToIndex, Book!levelVars, Book!bookVars,
    Book!MEClientResponse, Book!MEMarketUpdate, Book!Emit, Book!Die, Book!Best, Book!SetBest,
    Book!AddAfter, Book!Better, Book!LinkAlone, Book!LinkBefore, Book!LinkLast,
    Book!removeOrdersAtPrice, Book!LevelAt, Book!getNextPriority, Book!Unlink, Book!Forget,
    Book!removeOrder, Book!Opposite, Book!BestOrder, Book!Marketable, Book!FillQty,
    Book!FillResponses, Book!Trade, Book!BookChange, Book!Unmatched, Book!Rest, Book!NewLevel,
    Book!Searching, BookP!Prices, BookP!MOids, BookP!priceToIndex, BookP!levelVars,
    BookP!bookVars, BookP!MEClientResponse, BookP!MEMarketUpdate, BookP!Emit, BookP!Die,
    BookP!Best, BookP!SetBest, BookP!AddAfter, BookP!Better, BookP!LinkAlone, BookP!LinkBefore,
    BookP!LinkLast, BookP!removeOrdersAtPrice, BookP!LevelAt, BookP!getNextPriority,
    BookP!Unlink, BookP!Forget, BookP!removeOrder, BookP!Opposite, BookP!BestOrder,
    BookP!Marketable, BookP!FillQty, BookP!FillResponses, BookP!Trade, BookP!BookChange,
    BookP!Unmatched, BookP!Rest, BookP!NewLevel, BookP!Searching
<1>4. Book!PoolFull <=> BookP!PoolFull
  BY <1>2, <1>3 DEF Book!PoolFull, BookP!PoolFull
<1>5. ASSUME NEW c, NEW o, NEW side, NEW p, NEW q
      PROVE  Book!Accept(c, o, side, p, q) <=> BookP!Accept(c, o, side, p, q)
  BY DEF Book!Accept, BookP!Accept
<1>6. ASSUME NEW c, NEW o
      PROVE  Book!CancelReject(c, o) <=> BookP!CancelReject(c, o)
  BY DEF Book!CancelReject, BookP!CancelReject
<1>7. ASSUME NEW c, NEW o
      PROVE  Book!Cancel(c, o) <=> BookP!Cancel(c, o)
  BY DEF Book!Cancel, BookP!Cancel
<1>8. Book!match <=> BookP!match
  BY DEF Book!match, BookP!match
<1>9. Book!Complete <=> BookP!Complete
  BY DEF Book!Complete, BookP!Complete
<1>10. Book!RestAtLevel <=> BookP!RestAtLevel
  BY <1>4 DEF Book!RestAtLevel, BookP!RestAtLevel
<1>11. Book!RestAtNewLevel <=> BookP!RestAtNewLevel
  BY <1>4 DEF Book!RestAtNewLevel, BookP!RestAtNewLevel
<1>12. Book!SearchLevel <=> BookP!SearchLevel
  BY <1>4 DEF Book!SearchLevel, BookP!SearchLevel
<1>13. Book!SearchNext <=> BookP!SearchNext
  BY DEF Book!SearchNext, BookP!SearchNext
<1>14. Book!LinkFound <=> BookP!LinkFound
  BY DEF Book!LinkFound, BookP!LinkFound
<1>15. Book!Crash <=> BookP!Crash
  BY <1>4 DEF Book!Crash, BookP!Crash
<1>16. Book!Step <=> BookP!Step
  BY ONLY <1>8, <1>9, <1>10, <1>11, <1>12, <1>13, <1>14, <1>15
  DEF Book!Step, BookP!Step
<1> QED
  BY ONLY <1>1, <1>5, <1>6, <1>7, <1>16
LEMMA BookPAssumptions ==
  /\ BookP!BookConstants /\ BookP!PricesAreFinite /\ BookP!NullIsNoValue
  /\ BookP!SidesCollideAtOnePriceOnly /\ BookP!NullIsNoOrder
<1>1. BookP!Prices = Book!Prices /\ BookP!MOids = Book!MOids
  BY DEF Book!Prices, BookP!Prices, Book!MOids, BookP!MOids
<1>2. BookP!MEOrder = Book!MEOrder /\ BookP!Job = Book!Job
  BY <1>1 DEF Book!MEOrder, BookP!MEOrder, Book!Job, BookP!Job
<1>3. BookP!BuysAreMatched!Order = Book!BuysAreMatched!Order
  BY <1>1 DEF BookP!BuysAreMatched!Order, Book!BuysAreMatched!Order,
     BookP!BuysAreMatched!OrderSides, Book!BuysAreMatched!OrderSides
<1>4. \A p : BookP!priceToIndex(p) = Book!priceToIndex(p)
  BY DEF BookP!priceToIndex, Book!priceToIndex
<1>5. BookP!IsFiniteSet(BookP!Prices)
  BY <1>1, BookAssumptions DEF BookP!IsFiniteSet, IsFiniteSet
<1> QED
  BY <1>1, <1>2, <1>3, <1>4, <1>5, BookAssumptions

-------------------------------------------------------------------------------
(* The clients follow their scripts.                                           *)

\* What has been sent is the beginning of the scripts, each on its client's own
\* connection, and so are the numbers that are let through.
OnScript ==
  /\ script \in Scripts
  /\ \A s \in Sockets :
       /\ Len(stream[s]) <= Len(script[s])
       /\ \A k \in 1 .. Len(stream[s]) : stream[s][k] = [client |-> s, seq |-> k]
  /\ \A c \in Clients : /\ cid_tcp_socket_[c] \in {c, Null}
                        /\ cid_next_exp_seq_num_[c] <= Len(script[c]) + 1

\* What a script is.
LEMMA ScriptTypes ==
  ASSUME script \in Scripts, NEW c \in Clients
  PROVE  /\ script[c] \in Seq(MEClientRequests) /\ Len(script[c]) \in Nat
         /\ Len(script[c]) <= MaxSeq /\ Sensible(script[c])
         /\ \A n \in 1 .. Len(script[c]) : script[c][n] \in MEClientRequests
<1>1. script \in [Clients -> Seq(MEClientRequests)]
  BY ClientsFollowScripts
<1>2. script[c] \in Seq(MEClientRequests)
  BY <1>1
<1> QED
  BY <1>2, ClientsFollowScripts

\* Nothing is sent at first.
LEMMA OnScriptInit == ExchangeInit => OnScript
<1> SUFFICES ASSUME ExchangeInit PROVE OnScript
  OBVIOUS
<1>1. script \in Scripts /\ Init
  BY DEF ExchangeInit
<1>2. \A c \in Clients : Len(script[c]) \in Nat
  BY <1>1, ScriptTypes
<1>3. Sockets = Clients
  BY ClientsFollowScripts
<1> QED
  BY <1>1, <1>2, <1>3 DEF OnScript, Init

\* The request in the buffer of a connection is its client's, on the script.
LEMMA RecvOnScript ==
  ASSUME TypeInv, OnScript, RecvRequest, UNCHANGED script
  PROVE  OnScript'
<1>1. PICK s \in Clients : s = Visited /\ s \in Sockets
  BY RequestInStream, ClientsFollowScripts DEF RecvRequest
<1>2. PICK k \in 1 .. Len(stream[s]) : Request(s) = [client |-> s, seq |-> k]
  <2>1. PICK k \in 1 .. Len(stream[s]) : Request(s) = stream[s][k]
    BY <1>1, RequestInStream DEF RecvRequest
  <2> QED
    BY <1>1, <2>1 DEF OnScript
<1>3. /\ Hear(s, s) /\ UNCHANGED stream
      /\ cid_next_exp_seq_num_' \in
           {cid_next_exp_seq_num_,
            [cid_next_exp_seq_num_ EXCEPT ![s] = k + 1]}
  <2>1. /\ Hear(s, s) /\ UNCHANGED netVars
        /\ cid_next_exp_seq_num_' =
             [cid_next_exp_seq_num_ EXCEPT ![s] =
                IF Owner(s, s) = s /\ InSequence(s, k) THEN @ + 1 ELSE @]
    BY <1>1, <1>2 DEF RecvRequest
  <2>2. cid_next_exp_seq_num_ \in [Clients -> Nat \ {0}]
    BY DEF TypeInv, ClientTypes
  <2> QED
    BY <2>1, <2>2 DEF netVars, InSequence
<1>4. /\ cid_next_exp_seq_num_ \in [Clients -> Nat \ {0}]
      /\ cid_tcp_socket_ \in [Clients -> Sockets \cup {Null}]
  BY DEF TypeInv, ClientTypes
<1>5. Len(stream[s]) \in Nat /\ Len(script[s]) \in Nat /\ Len(stream[s]) <= Len(script[s])
  BY <1>1, ScriptTypes DEF OnScript, TypeInv, NetTypes
<1>6. \A c \in Clients : cid_tcp_socket_'[c] \in {c, Null}
  BY <1>3, <1>4 DEF Hear, Owner, OnScript
<1>7. \A c \in Clients : cid_next_exp_seq_num_'[c] <= Len(script[c]) + 1
  BY <1>2, <1>3, <1>4, <1>5 DEF OnScript
<1> QED
  BY <1>3, <1>6, <1>7 DEF OnScript

\* A client sends the next request of its script.
LEMMA SendOnScript ==
  ASSUME TypeInv, OnScript, NEW c \in Clients, ClientSends(c), UNCHANGED script
  PROVE  OnScript' /\ \E n \in 1 .. MaxSeq : Send(c, c, n)
<1>1. /\ c \in Sockets /\ stream \in [Sockets -> Seq(Requests)]
      /\ stream[c] \in Seq(Requests) /\ Len(stream[c]) \in Nat
  BY ClientsFollowScripts DEF TypeInv, NetTypes
<1>2. /\ Len(script[c]) \in Nat /\ Len(script[c]) <= MaxSeq /\ Len(stream[c]) < Len(script[c])
  BY ScriptTypes DEF ClientSends, OnScript
<1>3. PICK n \in 1 .. MaxSeq : n = Len(stream[c]) + 1 /\ Send(c, c, n)
  BY <1>1, <1>2, ServerConstants DEF ClientSends
<1>4. /\ stream' = [stream EXCEPT ![c] = Append(@, [client |-> c, seq |-> n])]
      /\ UNCHANGED <<cid_tcp_socket_, cid_next_exp_seq_num_>>
  BY <1>3 DEF Send, cidVars
<1>5. stream'[c] = Append(stream[c], [client |-> c, seq |-> n])
      /\ \A s \in Sockets \ {c} : stream'[s] = stream[s]
  BY <1>1, <1>4
<1>6. /\ Len(stream'[c]) = n
      /\ \A k \in 1 .. n : stream'[c][k] = [client |-> c, seq |-> k]
  BY <1>1, <1>3, <1>5 DEF OnScript
<1>7. \A s \in Sockets : /\ Len(stream'[s]) <= Len(script[s])
                         /\ \A k \in 1 .. Len(stream'[s]) : stream'[s][k] = [client |-> s, seq |-> k]
  <2>1. Len(stream'[c]) <= Len(script[c])
    BY <1>1, <1>2, <1>3, <1>6
  <2>2. ASSUME NEW s \in Sockets \ {c}
        PROVE  /\ Len(stream'[s]) <= Len(script[s])
               /\ \A k \in 1 .. Len(stream'[s]) : stream'[s][k] = [client |-> s, seq |-> k]
    <3>1. stream'[s] = stream[s] /\ s \in Sockets
      BY <1>5, <2>2
    <3> QED
      BY <3>1 DEF OnScript
  <2> QED
    BY <1>6, <2>1, <2>2
<1> QED
  BY <1>3, <1>4, <1>7 DEF OnScript

\* The others leave the scripts and the streams alone.
LEMMA OnScriptStep ==
  ASSUME TypeInv, OnScript, [ExchangeNext]_exchangeVars
  PROVE  OnScript'
<1>1. CASE RecvRequest /\ UNCHANGED script
  BY <1>1, RecvOnScript
<1>2. CASE \E c \in Clients : ClientSends(c) /\ UNCHANGED script
  BY <1>2, SendOnScript
<1>3. ASSUME UNCHANGED <<script, stream, cid_tcp_socket_, cid_next_exp_seq_num_>>
      PROVE  OnScript'
  BY <1>3 DEF OnScript
<1>4. CASE \E c \in Clients : Connect(c) /\ UNCHANGED script
  BY <1>3, <1>4 DEF Connect, cidVars
<1>5. CASE Delivery
  BY <1>3, <1>5 DEF Delivery, Arrivals, Arrive, cidVars
<1>6. CASE MatchingEngine
  BY <1>3, <1>6 DEF MatchingEngine, sendClientResponse, Process, netVars, cidVars
<1>7. CASE ServerStep /\ ~RecvRequest
  BY <1>3, <1>7 DEF ServerStep, Server, LogBanner, poll, Receive, RecvRemainder, SendBuffered,
     RecvFinished, Respond, Responded, netVars, cidVars
<1>8. CASE UNCHANGED exchangeVars
  BY <1>3, <1>8 DEF exchangeVars, vars, netVars, cidVars
<1> QED
  BY <1>1, <1>2, <1>4, <1>5, <1>6, <1>7, <1>8 DEF ExchangeNext, ServerStep

-------------------------------------------------------------------------------
(* The engine's thread.                                                        *)

\* The k-th request of the engine's queue is client c's new order o.
Orders(k, c, o) ==
  LET r == incoming[k].request
  IN  r.client = c /\ script[c][r.seq].type = "NEW" /\ script[c][r.seq].oid = o

\* Whatever is in the book has been ordered.
Ordered ==
  /\ \A m \in BookP!Pooled :
       \E k \in 1 .. processed : Orders(k, order_pool_[m].client, order_pool_[m].oid)
  /\ job # Null => processed # 0 /\ Orders(processed, job.client, job.oid)

\* The invariants of the book, and of what is in it.
BookInv == BookP!IInv /\ BookP!RInv /\ Ordered

\* The engine's queue holds requests of the scripts.
LEMMA RequestAt ==
  ASSUME TypeInv, Seqs, OnScript, NEW k \in 1 .. Len(incoming)
  PROVE  \E c \in Clients : \E n \in 1 .. Len(script[c]) :
           /\ incoming[k].request.client = c /\ incoming[k].request.seq = n
           /\ script[c][n] \in MEClientRequests
<1>1. incoming[k] \in RecvTimeClientRequests
  BY DEF TypeInv, SequencerTypes
<1>2. incoming[k].request \in Requests
  BY <1>1 DEF RecvTimeClientRequests
<1>3. PICK c \in Clients, n \in 1 .. MaxSeq :
        incoming[k].request.client = c /\ incoming[k].request.seq = n
  BY <1>2 DEF Requests
<1>4. n < cid_next_exp_seq_num_[c] /\ cid_next_exp_seq_num_[c] <= Len(script[c]) + 1
  BY <1>3 DEF Seqs, OnScript
<1>5. cid_next_exp_seq_num_[c] \in Nat /\ Len(script[c]) \in Nat
  BY ScriptTypes DEF TypeInv, ClientTypes, OnScript
<1>6. n \in 1 .. Len(script[c])
  BY <1>4, <1>5, ServerConstants
<1> QED
  BY <1>3, <1>6, ScriptTypes DEF OnScript

\* Two requests of a client for new orders do not have the same id.
LEMMA OrdersOnce ==
  ASSUME TypeInv, Seqs, Distinct, OnScript, NEW c \in Clients, NEW o,
         NEW j \in 1 .. Len(incoming), NEW k \in 1 .. Len(incoming), j < k,
         Orders(j, c, o), Orders(k, c, o)
  PROVE  FALSE
<1>1. PICK n \in 1 .. Len(script[c]) : incoming[j].request.seq = n /\ incoming[j].request.client = c
  BY RequestAt DEF Orders
<1>2. PICK l \in 1 .. Len(script[c]) : incoming[k].request.seq = l /\ incoming[k].request.client = c
  BY RequestAt DEF Orders
<1>3. n # l
  BY <1>1, <1>2 DEF Distinct, Same
<1>4. /\ script[c][n].type = "NEW" /\ script[c][n].oid = o
      /\ script[c][l].type = "NEW" /\ script[c][l].oid = o
  BY <1>1, <1>2 DEF Orders
<1>5. Sensible(script[c]) /\ Len(script[c]) \in Nat
  BY ScriptTypes DEF OnScript
<1>6. n \in 1 .. l - 1 \/ l \in 1 .. n - 1
  BY <1>3, <1>5
<1> QED
  BY <1>4, <1>5, <1>6 DEF Sensible

\* The order that add() begins with has an id of its own.
LEMMA FreshOrder ==
  ASSUME TypeInv, Seqs, Distinct, OnScript, BookInv, processed < Len(incoming),
         NEW c \in Clients, NEW o \in OrderIds, Orders(processed + 1, c, o)
  PROVE  cid_oid_to_order_[c][o] = Null
<1> SUFFICES ASSUME cid_oid_to_order_[c][o] # Null
             PROVE  FALSE
  OBVIOUS
<1>1. PICK m \in BookP!Pooled : order_pool_[m].client = c /\ order_pool_[m].oid = o
  BY BookPAssumptions, BookP!LeftOfOrders DEF BookInv
<1>2. PICK k \in 1 .. processed : Orders(k, c, o)
  BY <1>1 DEF BookInv, Ordered
<1>3. /\ k \in 1 .. Len(incoming) /\ processed + 1 \in 1 .. Len(incoming) /\ k < processed + 1
  BY DEF TypeInv, OutTypes, SequencerTypes
<1> QED
  BY <1>2, <1>3, OrdersOnce

\* What the engine does with the request it takes.
Takes(c, n) ==
  LET o == script[c][n].oid
  IN  /\ status = "up" /\ job = Null /\ BookP!Next /\ BookP!IdIsFresh
      /\ \/ /\ status' = "up"
            /\ \E x \in BookP!ClientResponses :
                 /\ BookP!TellsOne(x) /\ x.client = c /\ x.oid = o
                 /\ x.type = "ACCEPTED" <=> script[c][n].type = "NEW"
         \/ status' = "segv" /\ BookP!Silent /\ script[c][n].type # "NEW"
      /\ job' = Null \/ (script[c][n].type = "NEW" /\ BookP!About(job', c, o))
      /\ \A m \in BookP!Pooled' : m \in BookP!Pooled /\ order_pool_'[m] = order_pool_[m]

\* An invalid type ends the process, and nobody is told.
LEMMA InvalidIsSilent ==
  ASSUME InvalidType
  PROVE  status = "up" /\ status' = "invalid_type" /\ BookP!Silent
BY DEF InvalidType, Book!Die, Book!Emit, BookP!Silent

\* It takes the request that is next, and Accept, CancelReject, Cancel and
\* InvalidType are what it can make of it.
LEMMA EngineTakes ==
  ASSUME TypeInv, Seqs, Distinct, OnScript, BookInv, TakeRequest, ~InvalidType
  PROVE  \E c \in Clients : \E n \in 1 .. Len(script[c]) :
           /\ incoming[processed + 1].request.client = c
           /\ incoming[processed + 1].request.seq = n
           /\ script[c][n].oid \in OrderIds
           /\ Takes(c, n)
<1>1. processed + 1 \in 1 .. Len(incoming) /\ processed < Len(incoming)
  BY DEF TypeInv, OutTypes, SequencerTypes, TakeRequest
<1>2. PICK c \in Clients : \E n \in 1 .. Len(script[c]) :
        /\ incoming[processed + 1].request.client = c
        /\ incoming[processed + 1].request.seq = n
        /\ script[c][n] \in MEClientRequests
  BY <1>1, RequestAt
<1>3. PICK n \in 1 .. Len(script[c]) :
        /\ incoming[processed + 1].request.client = c
        /\ incoming[processed + 1].request.seq = n
        /\ script[c][n] \in MEClientRequests
  BY <1>2
<1>4. PICK x \in MEClientRequests : x = script[c][n]
  BY <1>3
<1>5. PICK o \in OrderIds : o = x.oid
  BY <1>4 DEF MEClientRequests
<1>6. processClientRequest(c, x)
  BY <1>3, <1>4 DEF TakeRequest
<1>7. CASE x.type = "NEW"
  <2>1. PICK side \in Sides, q \in Qtys : side = x.side /\ q = x.qty
    BY <1>7 DEF MEClientRequests
  <2>0. PICK p \in BookP!Limits(side) : p = x.price
    BY <1>7, <2>1 DEF MEClientRequests, BookP!Limits
  <2>2. BookP!Accept(c, o, side, p, q)
    BY <1>5, <1>6, <1>7, <2>0, <2>1, SameBook DEF processClientRequest
  <2>3. Orders(processed + 1, c, o)
    BY <1>3, <1>4, <1>5, <1>7 DEF Orders
  <2>4. cid_oid_to_order_[c][o] = Null
    BY <1>1, <2>3, FreshOrder
  <2>5. BookP!IdIsFresh
    BY <2>2, <2>4 DEF BookP!Accept, BookP!IdIsFresh
  <2>6. BookP!Next /\ status = "up" /\ job = Null
    BY <2>2 DEF BookP!Next, BookP!Accept
  <2>7. /\ \E y \in BookP!ClientResponses :
             BookP!TellsOne(y) /\ y.client = c /\ y.oid = o /\ y.type = "ACCEPTED"
        /\ status' = "up" /\ UNCHANGED order_pool_ /\ BookP!About(job', c, o)
    BY <2>2, <2>5, BookPAssumptions, BookP!AcceptTells DEF BookInv
  <2> QED
    BY <1>3, <1>4, <1>5, <1>7, <2>5, <2>6, <2>7 DEF Takes, BookP!Pooled
<1>8. CASE x.type # "NEW" /\ Book!CancelReject(c, o)
  <2>1. BookP!CancelReject(c, o)
    BY <1>8, SameBook
  <2>2. BookP!Next /\ status = "up" /\ job = Null
    BY <2>1 DEF BookP!Next, BookP!CancelReject
  <2>3. /\ \E y \in BookP!ClientResponses :
              BookP!TellsOne(y) /\ y.client = c /\ y.oid = o /\ y.type = "CANCEL_REJECTED"
        /\ status' = "up" /\ UNCHANGED order_pool_ /\ job' = Null
    BY <2>1, BookPAssumptions, BookP!CancelRejectTells DEF BookInv
  <2> QED
    BY <1>3, <1>4, <1>5, <1>8, <2>2, <2>3 DEF Takes, BookP!Pooled, BookP!IdIsFresh
<1>9. CASE x.type # "NEW" /\ Book!Cancel(c, o)
  <2>1. BookP!Cancel(c, o)
    BY <1>9, SameBook
  <2>2. BookP!Next /\ status = "up" /\ job = Null
    BY <2>1 DEF BookP!Next, BookP!Cancel
  <2>3. /\ \/ BookP!Silent /\ status' = "segv"
           \/ /\ \E y \in BookP!ClientResponses :
                   BookP!TellsOne(y) /\ y.client = c /\ y.oid = o /\ y.type = "CANCELED"
              /\ status' = "up"
        /\ job' = Null
        /\ \A m \in BookP!Pooled' : m \in BookP!Pooled /\ order_pool_'[m] = order_pool_[m]
    BY <2>1, BookPAssumptions, BookP!CancelTells DEF BookInv
  <2> QED
    BY <1>3, <1>4, <1>5, <1>9, <2>2, <2>3 DEF Takes, BookP!IdIsFresh
<1> QED
  BY <1>5, <1>6, <1>7, <1>8, <1>9 DEF processClientRequest

\* The number of requests the step takes, and whom it writes to.
LEMMA EngineEither ==
  ASSUME MatchingEngine
  PROVE  /\ UNCHANGED <<incoming, script>>
         /\ \/ TakeRequest /\ sendClientResponse(1) /\ processed' = processed + 1
            \/ BookP!Step /\ sendClientResponse(0) /\ processed' = processed + 0
<1>1. \/ TakeRequest /\ sendClientResponse(1)
      \/ Book!Step /\ sendClientResponse(0)
  BY DEF MatchingEngine
<1>2. Book!Step => BookP!Step
  BY SameBook
<1>3. UNCHANGED script
  BY DEF MatchingEngine
<1> QED
  BY <1>1, <1>2, <1>3 DEF sendClientResponse, Process, sequencerVars

\* The book's invariants hold in the exchange, where ids are fresh.
LEMMA EngineKeepsBook ==
  ASSUME BookP!LimitsApart, TypeInv, Seqs, Distinct, OnScript, BookInv, MatchingEngine,
         status' = "up"
  PROVE  BookInv'
<1>0. /\ UNCHANGED <<incoming, script>> /\ processed \in Nat
      /\ \A k, c, o : Orders(k, c, o) => Orders(k, c, o)'
  BY EngineEither DEF TypeInv, OutTypes, Orders
<1>1. CASE TakeRequest /\ processed' = processed + 1
  <2>1. PICK c \in Clients : \E n \in 1 .. Len(script[c]) :
          /\ incoming[processed + 1].request.client = c
          /\ incoming[processed + 1].request.seq = n
          /\ script[c][n].oid \in OrderIds
          /\ Takes(c, n)
    BY <1>1, EngineTakes, InvalidIsSilent
  <2>2. PICK n \in 1 .. Len(script[c]) :
          /\ incoming[processed + 1].request.client = c
          /\ incoming[processed + 1].request.seq = n
          /\ Takes(c, n)
    BY <2>1
  <2>3. BookP!Next /\ BookP!IdIsFresh
    BY <2>2 DEF Takes
  <2>4. BookP!IInv' /\ BookP!RInv'
    BY <2>3, BookPAssumptions, BookP!NextIInv, BookP!NextRInv DEF BookInv
  <2>5. ASSUME NEW m \in BookP!Pooled'
        PROVE  \E k \in 1 .. processed' : Orders(k, order_pool_[m].client, order_pool_[m].oid)'
    <3>1. m \in BookP!Pooled /\ order_pool_'[m] = order_pool_[m]
      BY <2>2 DEF Takes
    <3>2. PICK k \in 1 .. processed : Orders(k, order_pool_[m].client, order_pool_[m].oid)
      BY <3>1 DEF BookInv, Ordered
    <3>3. k \in 1 .. processed'
      BY <1>0, <1>1
    <3>4. PICK d, o : d = order_pool_[m].client /\ o = order_pool_[m].oid
      OBVIOUS
    <3>5. Orders(k, d, o)'
      BY <1>0, <3>2, <3>4
    <3>6. (order_pool_[m].client)' = d /\ (order_pool_[m].oid)' = o
      BY <3>1, <3>4
    <3>7. Orders(k, order_pool_[m].client, order_pool_[m].oid)'
      BY <3>5, <3>6 DEF Orders
    <3> QED
      BY <3>3, <3>7
  <2>6. ASSUME job' # Null
        PROVE  (processed # 0 /\ Orders(processed, job.client, job.oid))'
    <3>1. script[c][n].type = "NEW" /\ job'.client = c /\ job'.oid = script[c][n].oid
      BY <2>2, <2>6 DEF Takes, BookP!About
    <3>2. processed' # 0
      BY <1>0, <1>1
    <3> QED
      BY <1>0, <1>1, <2>2, <3>1, <3>2 DEF Orders
  <2> QED
    BY <2>4, <2>5, <2>6 DEF BookInv, Ordered
<1>2. CASE BookP!Step /\ processed' = processed + 0
  <2>1. /\ job # Null /\ processed' = processed
        /\ job' # Null => BookP!About(job', job.client, job.oid)
        /\ \A m \in BookP!Pooled' :
             \/ BookP!About(order_pool_'[m], job.client, job.oid)
             \/ m \in BookP!Pooled /\ BookP!About(order_pool_'[m], order_pool_[m].client, order_pool_[m].oid)
    BY <1>0, <1>2, BookPAssumptions, BookP!StepTells DEF BookInv
  <2>2. BookP!Next /\ BookP!IdIsFresh
    BY <1>2, <2>1 DEF BookP!Next, BookP!IdIsFresh
  <2>3. BookP!IInv' /\ BookP!RInv'
    BY <2>2, BookPAssumptions, BookP!NextIInv, BookP!NextRInv DEF BookInv
  <2>4. processed # 0 /\ Orders(processed, job.client, job.oid) /\ processed \in 1 .. processed
    BY <1>0, <2>1 DEF BookInv, Ordered
  <2>5. PICK c, o : c = job.client /\ o = job.oid
    OBVIOUS
  <2>6. Orders(processed, c, o) /\ Orders(processed, c, o)'
    BY <1>0, <2>1, <2>4, <2>5 DEF Orders
  <2>7. ASSUME NEW m \in BookP!Pooled'
        PROVE  \E k \in 1 .. processed' : Orders(k, order_pool_[m].client, order_pool_[m].oid)'
    <3>1. CASE BookP!About(order_pool_'[m], c, o)
      <4>1. (order_pool_[m].client)' = c /\ (order_pool_[m].oid)' = o
        BY <3>1 DEF BookP!About
      <4>2. Orders(processed, order_pool_[m].client, order_pool_[m].oid)'
        BY <2>1, <2>6, <4>1 DEF Orders
      <4> QED
        BY <2>1, <2>4, <4>2
    <3>2. CASE m \in BookP!Pooled /\ BookP!About(order_pool_'[m], order_pool_[m].client, order_pool_[m].oid)
      <4>1. PICK k \in 1 .. processed : Orders(k, order_pool_[m].client, order_pool_[m].oid)
        BY <3>2 DEF BookInv, Ordered
      <4>2. PICK d, p : d = order_pool_[m].client /\ p = order_pool_[m].oid
        OBVIOUS
      <4>3. Orders(k, d, p)'
        BY <1>0, <4>1, <4>2
      <4>4. (order_pool_[m].client)' = d /\ (order_pool_[m].oid)' = p
        BY <3>2, <4>2 DEF BookP!About
      <4>5. Orders(k, order_pool_[m].client, order_pool_[m].oid)'
        BY <4>3, <4>4 DEF Orders
      <4> QED
        BY <2>1, <4>5
    <3> QED
      BY <2>1, <2>5, <3>1, <3>2
  <2>8. ASSUME job' # Null
        PROVE  (processed # 0 /\ Orders(processed, job.client, job.oid))'
    BY <2>1, <2>4, <2>5, <2>6, <2>8 DEF BookP!About, Orders
  <2> QED
    BY <2>3, <2>7, <2>8 DEF BookInv, Ordered
<1> QED
  BY <1>1, <1>2, EngineEither

\* The engine may end the process as the book and an invalid type do, and its fills
\* are not counted.
EngineIsFree ==
  /\ Nat \subseteq AnswerNumbers
  /\ {"segv", "out_of_space", "invalid_type"} \subseteq EngineEnds

\* The engine of the exchange is one that OrderServer admits.
LEMMA EngineIsAdmitted ==
  ASSUME TypeInv, Seqs, Distinct, OnScript, BookInv, MatchingEngine,
         EngineIsFree
  PROVE  Engine
<1> USE DEF Sender
<1>0. ASSUME NEW taken, NEW c \in Clients \cup {Null}, NEW d \in Clients \cup {Null},
             Process(taken, c, d)
      PROVE  \A e \in Clients : answers'[e] \in AnswerNumbers
  <2>1. answers \in [Clients -> Nat]
    BY DEF TypeInv, OutTypes
  <2>2. Told(d, Told(c, answers)) \in [Clients -> Nat]
    BY <2>1, ResponseTypes
  <2> QED
    BY <1>0, <2>2 DEF Process, EngineIsFree
<1>3. CASE InvalidType /\ TakeRequest /\ sendClientResponse(1)
  <2>1. /\ Process(1, Addressee(1), Addressee(2)) /\ processed < Len(incoming)
        /\ status = "up" /\ status' = "invalid_type" /\ resp' = <<>>
    BY <1>3, InvalidIsSilent DEF sendClientResponse, TakeRequest, BookP!Silent
  <2>2. Addressee(1) = Null /\ Addressee(2) = Null
    BY <2>1 DEF Addressee
  <2> QED
    BY <2>1, <2>2 DEF Engine, Begin, EngineIsFree
<1>1. CASE ~InvalidType /\ TakeRequest /\ sendClientResponse(1)
  <2>1. PICK c \in Clients : \E n \in 1 .. Len(script[c]) :
          incoming[processed + 1].request.client = c /\ Takes(c, n)
    BY <1>1, EngineTakes
  <2>2. PICK n \in 1 .. Len(script[c]) : Takes(c, n)
    BY <2>1
  <2>3. Process(1, Addressee(1), Addressee(2)) /\ processed < Len(incoming)
    BY <1>1 DEF sendClientResponse, TakeRequest
  <2>4. Sender(processed + 1) = c
    BY <2>1
  <2>5. CASE \E x \in BookP!ClientResponses : BookP!TellsOne(x) /\ x.client = c
    <3>1. PICK x \in BookP!ClientResponses : resp' = <<x>> /\ x.client = c
      BY <2>5 DEF BookP!TellsOne
    <3>2. Addressee(1) = c /\ Addressee(2) = Null
      BY <3>1 DEF Addressee
    <3>3. Process(1, c, Null) /\ c \in {Sender(processed + 1), Null} /\ c # Null
      BY <2>3, <2>4, <3>2, BookAssumptions
    <3>4. Begin
      BY <2>3, <3>3 DEF Begin
    <3> QED
      BY <2>2, <3>4 DEF Engine, Takes, EngineIsFree
  <2>6. CASE status' = "segv" /\ BookP!Silent
    <3>1. Addressee(1) = Null /\ Addressee(2) = Null
      BY <2>6 DEF Addressee, BookP!Silent
    <3> QED
      BY <2>2, <2>3, <2>6, <3>1 DEF Engine, Begin, Takes, EngineIsFree
  <2> QED
    BY <2>2, <2>5, <2>6 DEF Takes
<1>2. CASE BookP!Step /\ sendClientResponse(0)
  <2>1. /\ job # Null /\ status' \in {"up", "segv", "out_of_space"}
        /\ \/ BookP!Silent
           \/ \E x, y \in BookP!ClientResponses, m \in BookP!Pooled :
                /\ BookP!TellsTwo(x, y) /\ x.client = job.client
                /\ y.client = order_pool_[m].client
    BY <1>2, BookPAssumptions, BookP!StepTells DEF BookInv
  <2>2. status = "up"
    BY <1>2 DEF BookP!Step, BookP!match, BookP!Complete, BookP!Unmatched, BookP!RestAtLevel,
       BookP!RestAtNewLevel, BookP!SearchLevel, BookP!SearchNext, BookP!LinkFound,
       BookP!Searching, BookP!Crash
  <2>3. Process(0, Addressee(1), Addressee(2))
    BY <1>2 DEF sendClientResponse
  <2>4. CASE BookP!Silent
    <3>1. Addressee(1) = Null /\ Addressee(2) = Null
      BY <2>4 DEF Addressee, BookP!Silent
    <3>2. Process(0, Null, Null)
      BY <2>3, <3>1
    <3>3. GoOn
      BY <3>2 DEF GoOn
    <3> QED
      BY <2>1, <2>2, <3>3 DEF Engine, EngineIsFree
  <2>5. CASE \E x, y \in BookP!ClientResponses, m \in BookP!Pooled :
               /\ BookP!TellsTwo(x, y) /\ x.client = job.client
               /\ y.client = order_pool_[m].client
    <3>1. PICK x \in BookP!ClientResponses, y \in BookP!ClientResponses, m \in BookP!Pooled :
            resp' = <<x, y>> /\ x.client = job.client /\ y.client = order_pool_[m].client
      BY <2>5 DEF BookP!TellsTwo
    <3>2. Addressee(1) = x.client /\ Addressee(2) = y.client
      BY <3>1 DEF Addressee
    <3>3. x.client \in Clients /\ y.client \in Clients
      BY DEF BookP!ClientResponses
    <3>4. Sender(processed) = x.client
      BY <2>1, <3>1 DEF BookInv, Ordered, Orders
    <3>5. PICK k \in 1 .. processed : Sender(k) = y.client
      BY <3>1 DEF BookInv, Ordered, Orders
    <3>6. Process(0, Sender(processed), Sender(k))
      BY <2>3, <3>2, <3>4, <3>5
    <3>7. \A e \in Clients : answers'[e] \in AnswerNumbers
      BY <1>0, <3>3, <3>4, <3>5, <3>6
    <3>8. GoOn
      <4> DEFINE fill == <<Sender(processed), Sender(k)>>
      <4>1. fill[1] = Sender(processed) /\ fill[2] = Sender(k)
        OBVIOUS
      <4>2. fill \in {<<Sender(processed), Sender(i)>> : i \in 1 .. processed}
        BY <3>5
      <4>3. Process(0, fill[1], fill[2])
        BY <3>6, <4>1
      <4> HIDE DEF fill
      <4> QED
        BY <3>7, <4>2, <4>3 DEF GoOn
    <3> QED
      BY <2>1, <2>2, <3>8 DEF Engine, EngineIsFree
  <2> QED
    BY <2>1, <2>4, <2>5
<1> QED
  BY <1>1, <1>2, <1>3, EngineEither

-------------------------------------------------------------------------------
(* The exchange implements OrderServer.                                        *)

\* The invariant: that of the server, the scripts and, while the process lives, the
\* book's.
Sound ==
  /\ TypeInv /\ Seqs /\ Distinct /\ Covered /\ OnScript
  /\ status = "up" => BookInv

\* It holds at first.
LEMMA SoundInit == ASSUME BookP!SidesKnown PROVE ExchangeInit => Init /\ Sound
<1> SUFFICES ASSUME ExchangeInit PROVE Sound
  BY DEF ExchangeInit
<1>1. Init /\ BookP!Init
  BY SameBook DEF ExchangeInit
<1>2. BookP!IInv
  BY <1>1, BookPAssumptions, BookP!InitIInv
<1>3. BookP!Pooled = {} /\ job = Null
  BY <1>1 DEF BookP!Init, BookP!NoOrders, BookP!Pooled
<1>4. BookP!RInv /\ Ordered
  BY <1>3 DEF BookP!RInv, BookP!CancelReaches, BookP!IdIsFree, Ordered
<1> QED
  BY <1>1, <1>2, <1>4, InitTypes, SeqsInit, OnceInit, OnScriptInit DEF Sound, BookInv

\* A process that has died runs no engine.
LEMMA EngineIsUp == ASSUME MatchingEngine PROVE status = "up"
<1>1. TakeRequest \/ Book!Step
  BY DEF MatchingEngine
<1>2. ASSUME TakeRequest PROVE status = "up"
  BY <1>2 DEF TakeRequest, processClientRequest, Book!Accept, Book!CancelReject, Book!Cancel,
     InvalidType
<1>3. ASSUME Book!Step PROVE status = "up"
  BY <1>3 DEF Book!Step, Book!match, Book!Complete, Book!Unmatched, Book!RestAtLevel,
     Book!RestAtNewLevel, Book!SearchLevel, Book!SearchNext, Book!LinkFound, Book!Searching,
     Book!Crash
<1> QED
  BY <1>1, <1>2, <1>3

\* A step of the exchange is one of OrderServer, or of the book alone.
LEMMA ExchangeStep ==
  ASSUME EngineIsFree, Sound, [ExchangeNext]_exchangeVars
  PROVE  [Next]_vars
<1>1. ASSUME NEW c \in Clients, Connect(c) \/ ClientSends(c), UNCHANGED script
      PROVE  Next
  BY <1>1, SendOnScript, ClientsFollowScripts DEF Next, Sound
<1>2. CASE Delivery
  BY <1>2 DEF Delivery, Next
<1>3. CASE ServerStep
  BY <1>3 DEF ServerStep, Next
<1>4. CASE MatchingEngine
  BY <1>4, EngineIsUp, EngineIsAdmitted DEF Sound, EngineIsFree, Next
<1>5. CASE UNCHANGED exchangeVars
  BY <1>5 DEF exchangeVars
<1> QED
  BY <1>1, <1>2, <1>3, <1>4, <1>5 DEF ExchangeNext

\* Published requests keep their places.
LEMMA IncomingGrows ==
  ASSUME TypeInv, [Next]_vars
  PROVE  /\ Len(incoming) <= Len(incoming')
         /\ \A k \in 1 .. Len(incoming) : incoming'[k] = incoming[k]
<1>0. Len(incoming) \in Nat /\ Len(pending_client_requests_) \in Nat
  BY FieldsOf
<1>1. CASE UNCHANGED incoming
  BY <1>0, <1>1
<1>2. CASE RecvRequest
  BY <1>1, <1>2, RecvRequestStep
<1>3. CASE RecvFinished
  <2>1. ASSUME NEW f \in Sort(pending_client_requests_), incoming' = incoming \o Sorted(f)
        PROVE  /\ Len(incoming) <= Len(incoming')
               /\ \A k \in 1 .. Len(incoming) : incoming'[k] = incoming[k]
    BY <1>0, <2>1, Published
  <2> QED
    BY <1>1, <1>3, <2>1, RecvFinishedStep DEF sequencerVars
<1> QED
  BY <1>1, <1>2, <1>3, OtherSteps DEF requestVars, sequencerVars

\* The steps of everybody but the engine leave the book alone.
LEMMA OthersKeepBook ==
  ASSUME BookP!LimitsApart, Sound, [Next]_vars, UNCHANGED <<ownBookVars, script, processed, status>>,
         status = "up"
  PROVE  BookInv'
<1>1. BookInv /\ TypeInv
  BY DEF Sound
<1>2. UNCHANGED BookP!vars /\ BookP!IdIsFresh /\ UNCHANGED <<order_pool_, job>>
  BY DEF ownBookVars, BookP!vars, BookP!bookVars, BookP!levelVars, BookP!IdIsFresh
<1>3. BookP!IInv' /\ BookP!RInv'
  BY <1>1, <1>2, BookPAssumptions, BookP!NextIInv, BookP!NextRInv DEF BookInv
<1>4. processed \in Nat /\ processed <= Len(incoming) /\ Len(incoming) \in Nat
  BY <1>1, FieldsOf DEF TypeInv, OutTypes
<1>5. ASSUME NEW k \in 1 .. processed, NEW c, NEW o, Orders(k, c, o)
      PROVE  Orders(k, c, o)'
  <2>1. incoming'[k] = incoming[k]
    BY <1>1, <1>4, IncomingGrows
  <2> QED
    BY <1>5, <2>1 DEF Orders
<1>6. ASSUME NEW m \in BookP!Pooled'
      PROVE  \E k \in 1 .. processed' : Orders(k, order_pool_[m].client, order_pool_[m].oid)'
  <2>1. m \in BookP!Pooled
    BY <1>2 DEF BookP!Pooled
  <2>2. PICK c, o : c = order_pool_[m].client /\ o = order_pool_[m].oid
    OBVIOUS
  <2>3. PICK k \in 1 .. processed : Orders(k, c, o)
    BY <1>1, <2>1, <2>2 DEF BookInv, Ordered
  <2>4. Orders(k, c, o)' /\ (order_pool_[m].client)' = c /\ (order_pool_[m].oid)' = o
    BY <1>2, <1>5, <2>2, <2>3
  <2>5. Orders(k, order_pool_[m].client, order_pool_[m].oid)'
    BY <2>4 DEF Orders
  <2> QED
    BY <2>5
<1>7. ASSUME job' # Null
      PROVE  (processed # 0 /\ Orders(processed, job.client, job.oid))'
  <2>1. PICK c, o, k : c = job.client /\ o = job.oid /\ k = processed
    OBVIOUS
  <2>2. k # 0 /\ Orders(k, c, o) /\ k \in 1 .. processed
    BY <1>1, <1>2, <1>4, <1>7, <2>1 DEF BookInv, Ordered
  <2>3. Orders(k, c, o)' /\ processed' = k /\ (job.client)' = c /\ (job.oid)' = o
    BY <1>2, <1>5, <2>1, <2>2
  <2> QED
    BY <2>2, <2>3 DEF Orders
<1> QED
  BY <1>3, <1>6, <1>7 DEF BookInv, Ordered

\* Every step keeps it.
LEMMA SoundStep ==
  ASSUME BookP!LimitsApart, EngineIsFree, Sound, [ExchangeNext]_exchangeVars
  PROVE  Sound'
<1>1. [Next]_vars
  BY ExchangeStep
<1>2. (TypeInv /\ Seqs /\ Distinct /\ Covered /\ OnScript)'
  BY <1>1, StepTypes, SeqsStep, OnceStep, OnScriptStep DEF Sound
<1>3. ASSUME status' = "up"
      PROVE  BookInv'
  <2>1. CASE MatchingEngine
    BY <1>3, <2>1, EngineIsUp, EngineKeepsBook DEF Sound
  <2>2. CASE ~MatchingEngine
    <3>1. UNCHANGED <<ownBookVars, script, processed>>
      BY <2>2 DEF ExchangeNext, exchangeVars, ServerStep, Delivery, vars, engineVars, Server,
         Arrivals, Connect, ClientSends, Send, Arrive, LogBanner, poll, Receive, RecvRequest,
         RecvRemainder, SendBuffered, RecvFinished, Respond, Responded
    <3>2. status = "up"
      BY <1>3, <2>2 DEF ExchangeNext, exchangeVars, ServerStep, Delivery, vars, Server,
         Arrivals, Connect, ClientSends, Send, Arrive, LogBanner, poll, Receive, RecvRequest,
         RecvRemainder, SendBuffered, RecvFinished, Respond, Responded, At
    <3> QED
      BY <1>1, <1>3, <3>1, <3>2, OthersKeepBook
  <2> QED
    BY <2>1, <2>2
<1> QED
  BY <1>2, <1>3 DEF Sound

\* So it always holds.
LEMMA AlwaysSound ==
  ASSUME BookP!LimitsApart, EngineIsFree
  PROVE  ExchangeSpec => []Sound
<1>1. ExchangeInit => Sound
  BY SoundInit DEF BookP!LimitsApart
<1>2. Sound /\ [ExchangeNext]_exchangeVars => Sound'
  BY SoundStep
<1> QED
  BY <1>1, <1>2, PTL DEF ExchangeSpec

\* The threads of the exchange are what OrderServer says of the server and of its
\* environment: the engine with its book answers as the environment there may, and
\* clients that follow their scripts are clients of that kind.  So what is proved of
\* OrderServer holds in the exchange (matching_engine.h:54-89).
THEOREM ImplementsOrderServer ==
  ASSUME BookP!LimitsApart, EngineIsFree
  PROVE  ExchangeSpec => Spec
<1>1. Sound /\ [ExchangeNext]_exchangeVars => [Next]_vars
  BY ExchangeStep
<1>2. ExchangeInit => Init
  BY DEF ExchangeInit
<1> QED
  BY <1>1, <1>2, AlwaysSound, PTL DEF ExchangeSpec, Spec

-------------------------------------------------------------------------------
(* The stories of the orders.                                                  *)

\* Element i of q is the last about order o, of which there is one.
LastIn(q, o, i) ==
  /\ i \in 1 .. Len(q) /\ q[i].oid = o
  /\ \A j \in i + 1 .. Len(q) : q[j].oid # o
Heard(q, o) == \E i \in 1 .. Len(q) : q[i].oid = o

\* The responses q to a client tell a story of each order, as in OrderStories.
Story(q) ==
  \A i \in 1 .. Len(q) :
    /\ q[i].type = "ACCEPTED" <=> \A j \in 1 .. i - 1 : q[j].oid # q[i].oid
    /\ \A j \in 1 .. i - 1 :
         q[j].oid = q[i].oid /\ (\A k \in j + 1 .. i - 1 : q[k].oid # q[i].oid)
           => Continues(q[j], q[i])

\* The last of q about o says that so much is left of it.
Knows(q, o, left) ==
  \/ left = 0 /\ ~Heard(q, o)
  \/ \E i \in 1 .. Len(q) : LastIn(q, o, i) /\ BookP!Remaining(q[i]) = left

\* What x says of its order when so much was left of it.
Says(x, left) ==
  \/ x.type = "ACCEPTED" /\ left = 0
  \/ x.type = "FILLED" /\ left # 0 /\ x.leaves + x.exec = left
  \/ x.type = "CANCELED" /\ left # 0 /\ x.leaves = left
  \/ x.type = "CANCEL_REJECTED" /\ left = 0

\* A response that is true of the book goes on with the story.
LEMMA SaysContinues ==
  ASSUME NEW x, NEW y, Says(y, BookP!Remaining(x)), y.type # "ACCEPTED"
  PROVE  Continues(x, y)
BY DEF Says, Continues, Ends, BookP!Remaining

\* One more response, which is true of the book and is ACCEPTED exactly when it is
\* the first, makes a story again, and the new end of it.
LEMMA StoryGoesOn ==
  ASSUME NEW S, NEW q \in Seq(S), NEW x \in S, NEW left, Story(q),
         Knows(q, x.oid, left), Says(x, left), x.type = "ACCEPTED" <=> ~Heard(q, x.oid)
  PROVE  /\ Story(Append(q, x))
         /\ Knows(Append(q, x), x.oid, BookP!Remaining(x))
         /\ \A o, l : o # x.oid /\ Knows(q, o, l) => Knows(Append(q, x), o, l)
         /\ \A o : Heard(Append(q, x), o) <=> Heard(q, o) \/ o = x.oid
<1>1. PICK m \in Nat : m = Len(q)
  OBVIOUS
<1>2. PICK p : /\ p = Append(q, x) /\ Len(p) = m + 1 /\ p[m + 1] = x
               /\ \A i \in 1 .. m : p[i] = q[i]
  <2>1. /\ Len(Append(q, x)) = m + 1 /\ Append(q, x)[m + 1] = x
        /\ \A i \in 1 .. m : Append(q, x)[i] = q[i]
    BY <1>1
  <2> QED
    BY <2>1
<1>3. \A o : Heard(p, o) <=> Heard(q, o) \/ o = x.oid
  BY <1>1, <1>2 DEF Heard
<1>4. Knows(p, x.oid, BookP!Remaining(x))
  <2>1. LastIn(p, x.oid, m + 1) /\ m + 1 \in 1 .. Len(p)
    BY <1>1, <1>2 DEF LastIn
  <2> QED
    BY <1>2, <2>1 DEF Knows
<1>5. ASSUME NEW o, NEW l, o # x.oid, Knows(q, o, l)
      PROVE  Knows(p, o, l)
  <2>1. CASE l = 0 /\ ~Heard(q, o)
    BY <1>3, <1>5, <2>1 DEF Knows
  <2>2. CASE \E i \in 1 .. Len(q) : LastIn(q, o, i) /\ BookP!Remaining(q[i]) = l
    <3>1. PICK i \in 1 .. m : LastIn(q, o, i) /\ BookP!Remaining(q[i]) = l
      BY <1>1, <2>2
    <3>2. \A j \in i + 1 .. m + 1 : j \in i + 1 .. m \/ j = m + 1
      BY <1>1
    <3>3. \A j \in i + 1 .. m : j \in 1 .. m
      BY <1>1
    <3>4. p[i] = q[i] /\ i \in 1 .. m + 1
      BY <1>1, <1>2
    <3>5. LastIn(p, o, i)
      BY <1>1, <1>2, <1>5, <3>1, <3>2, <3>3, <3>4 DEF LastIn
    <3> QED
      BY <1>2, <3>1, <3>4, <3>5 DEF Knows
  <2> QED
    BY <1>5, <2>1, <2>2 DEF Knows
<1>6. ASSUME NEW i \in 1 .. m + 1
      PROVE  /\ p[i].type = "ACCEPTED" <=> \A j \in 1 .. i - 1 : p[j].oid # p[i].oid
             /\ \A j \in 1 .. i - 1 :
                  p[j].oid = p[i].oid /\ (\A k \in j + 1 .. i - 1 : p[k].oid # p[i].oid)
                    => Continues(p[j], p[i])
  <2>1. CASE i \in 1 .. m
    <3>1. \A j \in 1 .. i : j \in 1 .. m /\ p[j] = q[j]
      BY <1>1, <1>2, <2>1
    <3>2. \A j \in 1 .. i - 1 : j \in 1 .. i /\ \A k \in j + 1 .. i - 1 : k \in 1 .. i
      BY <1>1, <2>1
    <3>3. i \in 1 .. i
      BY <1>1, <2>1
    <3> QED
      BY <1>1, <2>1, <3>1, <3>2, <3>3 DEF Story
  <2>2. CASE i = m + 1
    <3>1. p[i] = x /\ i - 1 = m
      BY <1>1, <1>2, <2>2
    <3>2. x.type = "ACCEPTED" <=> \A j \in 1 .. m : p[j].oid # x.oid
      BY <1>1, <1>2 DEF Heard
    <3>3. ASSUME NEW j \in 1 .. m, p[j].oid = x.oid, \A k \in j + 1 .. m : p[k].oid # x.oid
          PROVE  Continues(p[j], x)
      <4>1. p[j] = q[j] /\ Heard(q, x.oid) /\ x.type # "ACCEPTED"
        BY <1>1, <1>2, <3>2, <3>3 DEF Heard
      <4>2. PICK l \in 1 .. m : LastIn(q, x.oid, l) /\ BookP!Remaining(q[l]) = left
        BY <1>1, <4>1 DEF Knows
      <4>3. ~(j < l)
        <5>1. j < l => l \in j + 1 .. m /\ p[l] = q[l]
          BY <1>1, <1>2
        <5> QED
          BY <3>3, <4>2, <5>1 DEF LastIn
      <4>4. ~(l < j)
        <5>1. l < j => j \in l + 1 .. m
          BY <1>1
        <5> QED
          BY <1>1, <3>3, <4>1, <4>2, <5>1 DEF LastIn
      <4>5. j = l
        BY <4>3, <4>4
      <4> QED
        BY <4>1, <4>2, <4>5, SaysContinues
    <3> QED
      BY <3>1, <3>2, <3>3
  <2> QED
    BY <1>1, <2>1, <2>2
<1>7. Story(p)
  BY <1>2, <1>6 DEF Story
<1> QED
  BY <1>2, <1>3, <1>4, <1>5, <1>7

\* w is what the clients have been written, a how much, and L what is left of their
\* orders.
Books(w, a, L) ==
  /\ w \in [Clients -> Seq(BookP!ClientResponses)]
  /\ \A c \in Clients :
       /\ Len(w[c]) = a[c] /\ \A i \in 1 .. Len(w[c]) : w[c][i].client = c
       /\ Story(w[c])
       /\ \A o \in OrderIds : Knows(w[c], o, L[<<c, o>>])

\* What is left when x has been written.
LeftAfter(x, L) ==
  [z \in Clients \X OrderIds |->
     IF BookP!About(x, z[1], z[2]) THEN BookP!Remaining(x) ELSE L[z]]

\* One client is written one response.
LEMMA WriteOne ==
  ASSUME NEW w, NEW a \in [Clients -> Nat], NEW L, Books(w, a, L),
         NEW x \in BookP!ClientResponses, Says(x, L[<<x.client, x.oid>>]),
         x.type = "ACCEPTED" <=> ~Heard(w[x.client], x.oid)
  PROVE  LET v == [w EXCEPT ![x.client] = Append(@, x)]
         IN  /\ Books(v, Told(x.client, a), LeftAfter(x, L))
             /\ \A c \in Clients, o \in OrderIds :
                  Heard(v[c], o) <=> Heard(w[c], o) \/ BookP!About(x, c, o)
<1>1. PICK d \in Clients, l \in OrderIds : d = x.client /\ l = x.oid
  BY DEF BookP!ClientResponses
<1>2. PICK v : v = [w EXCEPT ![d] = Append(@, x)]
  OBVIOUS
<1>3. w \in [Clients -> Seq(BookP!ClientResponses)]
  BY DEF Books
<1>4. PICK q \in Seq(BookP!ClientResponses) : q = w[d]
  BY <1>3
<1>5. /\ v \in [Clients -> Seq(BookP!ClientResponses)] /\ v[d] = Append(q, x)
      /\ \A c \in Clients : c # d => v[c] = w[c]
  BY <1>2, <1>3, <1>4
<1>6. PICK b : b = Told(d, a) /\ b[d] = a[d] + 1 /\ \A c \in Clients : c # d => b[c] = a[c]
  <2>1. d # Null
    BY BookAssumptions
  <2>2. Told(d, a) = [a EXCEPT ![d] = @ + 1]
    BY <2>1 DEF Told
  <2> QED
    BY <2>2
<1>7. PICK M : /\ M = LeftAfter(x, L)
               /\ \A c \in Clients, o \in OrderIds :
                    M[<<c, o>>] = IF c = d /\ o = l THEN BookP!Remaining(x) ELSE L[<<c, o>>]
  <2>1. ASSUME NEW c \in Clients, NEW o \in OrderIds
        PROVE  LeftAfter(x, L)[<<c, o>>]
                 = IF c = d /\ o = l THEN BookP!Remaining(x) ELSE L[<<c, o>>]
    BY <1>1 DEF LeftAfter, BookP!About
  <2> QED
    BY <2>1
<1>8. /\ Story(Append(q, x))
      /\ Knows(Append(q, x), l, BookP!Remaining(x))
      /\ \A o, z : o # l /\ Knows(q, o, z) => Knows(Append(q, x), o, z)
      /\ \A o : Heard(Append(q, x), o) <=> Heard(q, o) \/ o = l
  <2>1. Story(q) /\ Knows(q, x.oid, L[<<x.client, x.oid>>])
    BY <1>1, <1>4 DEF Books
  <2> QED
    BY <1>1, <1>4, <2>1, StoryGoesOn
<1>9. Len(Append(q, x)) = b[d] /\ \A i \in 1 .. Len(Append(q, x)) : Append(q, x)[i].client = d
  <2>1. Len(q) = a[d] /\ \A i \in 1 .. Len(q) : q[i].client = d
    BY <1>4 DEF Books
  <2>2. Len(Append(q, x)) = Len(q) + 1 /\ Append(q, x)[Len(q) + 1] = x
        /\ \A i \in 1 .. Len(q) : Append(q, x)[i] = q[i]
    OBVIOUS
  <2>3. Len(q) \in Nat /\ \A i \in 1 .. Len(q) + 1 : i \in 1 .. Len(q) \/ i = Len(q) + 1
    OBVIOUS
  <2> QED
    BY <1>1, <1>6, <2>1, <2>2, <2>3
<1>10. Books(v, b, M)
  <2>1. ASSUME NEW c \in Clients
        PROVE  /\ Len(v[c]) = b[c] /\ \A i \in 1 .. Len(v[c]) : v[c][i].client = c
               /\ Story(v[c])
               /\ \A o \in OrderIds : Knows(v[c], o, M[<<c, o>>])
    <3>1. CASE c = d
      <4>1. v[c] = Append(q, x)
        BY <1>5, <3>1
      <4>2. ASSUME NEW o \in OrderIds
            PROVE  Knows(v[c], o, M[<<c, o>>])
        <5>1. Knows(q, o, L[<<c, o>>])
          BY <1>4, <3>1 DEF Books
        <5>2. CASE o = l
          BY <1>7, <1>8, <3>1, <4>1, <5>2
        <5>3. CASE o # l
          BY <1>7, <1>8, <3>1, <4>1, <5>1, <5>3
        <5> QED
          BY <5>2, <5>3
      <4> QED
        BY <1>8, <1>9, <3>1, <4>1, <4>2
    <3>2. CASE c # d
      BY <1>5, <1>6, <1>7, <3>2 DEF Books
    <3> QED
      BY <3>1, <3>2
  <2> QED
    BY <1>5, <2>1 DEF Books
<1>11. \A c \in Clients, o \in OrderIds :
         Heard(v[c], o) <=> Heard(w[c], o) \/ BookP!About(x, c, o)
  BY <1>1, <1>4, <1>5, <1>8 DEF BookP!About
<1> QED
  BY <1>1, <1>2, <1>6, <1>7, <1>10, <1>11

\* What the clients have been written is true of the book, and about every order
\* they have sent.
LeftNow == [z \in Clients \X OrderIds |-> BookP!Left(z[1], z[2])]

Truthful ==
  /\ \E L : /\ Books(written, answers, L)
            /\ status = "up" => L = LeftNow
  /\ status = "up" =>
       \A c \in Clients, o \in OrderIds :
         Heard(written[c], o) <=> \E k \in 1 .. processed : Orders(k, c, o)

\* The client of a request to cancel has been told of the order, when the engine has
\* got the requests of a client in their order.
LEMMA CancelAfterOrder ==
  ASSUME TypeInv, Seqs, Covered, OnScript, ClientFIFO, status = "up", processed < Len(incoming),
         NEW c \in Clients, NEW n \in 1 .. Len(script[c]),
         incoming[processed + 1].request.client = c, incoming[processed + 1].request.seq = n,
         script[c][n].type # "NEW"
  PROVE  \E k \in 1 .. processed : Orders(k, c, script[c][n].oid)
<1>1. PICK l \in 1 .. n - 1 : script[c][l].type = "NEW" /\ script[c][l].oid = script[c][n].oid
  BY ScriptTypes DEF OnScript, Sensible
<1>2. PICK i \in Nat : i = processed + 1 /\ i \in 1 .. Len(incoming)
  BY FieldsOf DEF TypeInv, OutTypes
<1>3. /\ n < cid_next_exp_seq_num_[c] /\ cid_next_exp_seq_num_[c] \in Nat /\ n \in Nat
      /\ Len(incoming) \in Nat
  BY <1>2, ScriptTypes, FieldsOf DEF Seqs, TypeInv, ClientTypes, OnScript
<1>4. l \in 1 .. cid_next_exp_seq_num_[c] - 1 /\ l < n /\ l \in Nat
  BY <1>1, <1>3
<1>5. \A j \in 1 .. Len(pending_client_requests_) : ~Is(pending_client_requests_[j], c, l)
  <2>1. ASSUME NEW j \in 1 .. Len(pending_client_requests_), Is(pending_client_requests_[j], c, l)
        PROVE  FALSE
    <3>1. n < l
      BY <1>2, <2>1 DEF Seqs, InSeqOrder, Same, Is
    <3> QED
      BY <1>3, <1>4, <3>1
  <2> QED
    BY <2>1
<1>6. PICK k \in 1 .. Len(incoming) : Is(incoming[k], c, l)
  BY <1>4, <1>5 DEF Covered
<1>7. ~(i < k)
  <2>1. /\ incoming[i].request.client = c /\ incoming[i].request.seq = n
        /\ incoming[k].request.client = c /\ incoming[k].request.seq = l
    BY <1>2, <1>6 DEF Is
  <2>2. ~Swapped(i, k)
    BY <1>2, <1>6 DEF ClientFIFO
  <2>3. n >= l
    BY <1>3, <1>4
  <2> QED
    BY <2>1, <2>2, <2>3 DEF Swapped
<1>8. i # k
  BY <1>2, <1>3, <1>4, <1>6 DEF Is
<1>9. k \in 1 .. processed
  BY <1>2, <1>3, <1>7, <1>8 DEF TypeInv, OutTypes
<1> QED
  BY <1>1, <1>6, <1>9 DEF Orders, Is

\* What the book says of its responses.
LEMMA FollowsSays ==
  ASSUME NEW x, BookP!Follows(x) PROVE Says(x, BookP!Left(x.client, x.oid))
BY DEF BookP!Follows, Says

\* Nothing is left of an order nobody has heard of.
LEMMA HeardWhenLeft ==
  ASSUME NEW q, NEW o, NEW left, Knows(q, o, left), left # 0
  PROVE  Heard(q, o)
BY DEF Knows, LastIn, Heard

\* Both parties are told of a fill.
LEMMA WriteFills ==
  ASSUME NEW w, NEW a \in [Clients -> Nat], NEW L, Books(w, a, L),
         NEW x \in BookP!ClientResponses, Says(x, L[<<x.client, x.oid>>]), x.type = "FILLED",
         NEW y \in BookP!ClientResponses, Says(y, L[<<y.client, y.oid>>]), y.type = "FILLED",
         ~BookP!About(y, x.client, x.oid)
  PROVE  LET v == [w EXCEPT ![x.client] = Append(@, x)]
             u == [v EXCEPT ![y.client] = Append(@, y)]
         IN  /\ Books(u, Told(y.client, Told(x.client, a)), LeftAfter(y, LeftAfter(x, L)))
             /\ \A c \in Clients, o \in OrderIds : Heard(u[c], o) <=> Heard(w[c], o)
<1>1. /\ x.client \in Clients /\ x.oid \in OrderIds
      /\ y.client \in Clients /\ y.oid \in OrderIds
  BY DEF BookP!ClientResponses
<1>2. Heard(w[x.client], x.oid) /\ Heard(w[y.client], y.oid)
  BY <1>1, HeardWhenLeft DEF Books, Says
<1>3. PICK v : v = [w EXCEPT ![x.client] = Append(@, x)]
  OBVIOUS
<1>4. PICK b \in [Clients -> Nat] : b = Told(x.client, a)
  BY <1>1, ResponseTypes
<1>5. PICK M : M = LeftAfter(x, L)
  OBVIOUS
<1>6. /\ Books(v, b, M)
      /\ \A c \in Clients, o \in OrderIds :
           Heard(v[c], o) <=> Heard(w[c], o) \/ BookP!About(x, c, o)
  BY <1>2, <1>3, <1>4, <1>5, WriteOne
<1>7. \A c \in Clients, o \in OrderIds : Heard(v[c], o) <=> Heard(w[c], o)
  BY <1>1, <1>2, <1>6 DEF BookP!About
<1>8. M[<<y.client, y.oid>>] = L[<<y.client, y.oid>>]
  BY <1>1, <1>5 DEF LeftAfter, BookP!About
<1>9. PICK u : u = [v EXCEPT ![y.client] = Append(@, y)]
  OBVIOUS
<1>10. /\ Books(u, Told(y.client, b), LeftAfter(y, M))
       /\ \A c \in Clients, o \in OrderIds :
            Heard(u[c], o) <=> Heard(v[c], o) \/ BookP!About(y, c, o)
  BY <1>1, <1>2, <1>6, <1>7, <1>8, <1>9, WriteOne
<1>11. \A c \in Clients, o \in OrderIds : Heard(u[c], o) <=> Heard(w[c], o)
  BY <1>1, <1>2, <1>7, <1>10 DEF BookP!About
<1> QED
  BY <1>3, <1>4, <1>5, <1>9, <1>10, <1>11

\* The book is empty at first.
LEMMA TruthfulInit == ASSUME ExchangeInit PROVE Truthful
<1>1. BookP!Init /\ Init /\ written = [c \in Clients |-> <<>>]
  BY SameBook DEF ExchangeInit
<1>2. \A c \in Clients, o \in OrderIds : BookP!Left(c, o) = 0
  BY <1>1 DEF BookP!Init, BookP!NoClientOrders, BookP!Left
<1>3. Books(written, answers, LeftNow)
  <2>1. written \in [Clients -> Seq(BookP!ClientResponses)]
    BY <1>1
  <2>2. ASSUME NEW c \in Clients
        PROVE  /\ Len(written[c]) = answers[c] /\ \A i \in 1 .. Len(written[c]) : written[c][i].client = c
               /\ Story(written[c])
               /\ \A o \in OrderIds : Knows(written[c], o, LeftNow[<<c, o>>])
    BY <1>1, <1>2 DEF Init, Story, Knows, Heard, LeftNow
  <2> QED
    BY <2>1, <2>2 DEF Books
<1>4. \A c \in Clients, o \in OrderIds :
        Heard(written[c], o) <=> \E k \in 1 .. processed : Orders(k, c, o)
  BY <1>1 DEF Init, Heard
<1> QED
  BY <1>3, <1>4 DEF Truthful

\* The first response about an order is to the request for it.
LEMMA AcceptedFirst ==
  ASSUME Sound, ClientFIFO, Truthful, status = "up", processed < Len(incoming),
         NEW c \in Clients, NEW n \in 1 .. Len(script[c]), script[c][n].oid \in OrderIds,
         incoming[processed + 1].request.client = c, incoming[processed + 1].request.seq = n
  PROVE  script[c][n].type = "NEW" <=> ~Heard(written[c], script[c][n].oid)
<1>1. TypeInv /\ Seqs /\ Distinct /\ Covered /\ OnScript
  BY DEF Sound
<1>2. CASE script[c][n].type = "NEW"
  <2>1. Orders(processed + 1, c, script[c][n].oid)
    BY <1>2 DEF Orders
  <2>2. ASSUME NEW k \in 1 .. processed, Orders(k, c, script[c][n].oid)
        PROVE  FALSE
    <3>1. /\ k \in 1 .. Len(incoming) /\ processed + 1 \in 1 .. Len(incoming)
          /\ k < processed + 1
      BY <1>1, FieldsOf DEF TypeInv, OutTypes
    <3> QED
      BY <1>1, <2>1, <2>2, <3>1, OrdersOnce
  <2> QED
    BY <1>2, <2>2 DEF Truthful
<1>3. CASE script[c][n].type # "NEW"
  BY <1>1, <1>3, CancelAfterOrder DEF Truthful
<1> QED
  BY <1>2, <1>3

\* The engine begins with a request.
LEMMA TruthfulTakes ==
  ASSUME Sound, ClientFIFO, Truthful, TakeRequest, sendClientResponse(1),
         UNCHANGED <<incoming, script>>, ~InvalidType
  PROVE  Truthful'
<1>1. /\ TypeInv /\ Seqs /\ Distinct /\ Covered /\ OnScript /\ BookInv
      /\ status = "up" /\ processed < Len(incoming) /\ processed \in Nat
      /\ answers \in [Clients -> Nat]
  <2>1. status = "up" /\ processed < Len(incoming)
    BY DEF TakeRequest, processClientRequest, Book!Accept, Book!CancelReject, Book!Cancel,
     InvalidType
  <2> QED
    BY <2>1 DEF Sound, TypeInv, OutTypes
<1>2. PICK c \in Clients : \E n \in 1 .. Len(script[c]) :
        /\ incoming[processed + 1].request.client = c
        /\ incoming[processed + 1].request.seq = n
        /\ script[c][n].oid \in OrderIds
        /\ Takes(c, n)
  BY <1>1, EngineTakes
<1>3. PICK n \in 1 .. Len(script[c]) :
        /\ incoming[processed + 1].request.client = c
        /\ incoming[processed + 1].request.seq = n
        /\ script[c][n].oid \in OrderIds
        /\ Takes(c, n)
  BY <1>2
<1>4. PICK o, t : o = script[c][n].oid /\ t = script[c][n].type /\ o \in OrderIds
  BY <1>3
<1>5. t = "NEW" <=> ~Heard(written[c], o)
  BY <1>1, <1>3, <1>4, AcceptedFirst
<1>6. PICK L : Books(written, answers, L) /\ L = LeftNow
  BY <1>1 DEF Truthful
<1>7. /\ processed' = processed + 1
      /\ answers' = Told(Addressee(2), Told(Addressee(1), answers))
      /\ written' = Wrote(2, Wrote(1, written))
  BY DEF sendClientResponse, Process
<1>8. CASE status' # "up" /\ BookP!Silent
  <2>1. answers' = answers /\ written' = written
    BY <1>7, <1>8 DEF BookP!Silent, Addressee, Told, Wrote
  <2> QED
    BY <1>6, <1>8, <2>1 DEF Truthful
<1>9. CASE status' = "up" /\ \E x \in BookP!ClientResponses :
              /\ BookP!TellsOne(x) /\ x.client = c /\ x.oid = o
              /\ x.type = "ACCEPTED" <=> t = "NEW"
  <2>1. PICK x \in BookP!ClientResponses :
          /\ BookP!TellsOne(x) /\ x.client = c /\ x.oid = o
          /\ x.type = "ACCEPTED" <=> t = "NEW"
    BY <1>9
  <2>2. resp' = <<x>> /\ BookP!Follows(x) /\ c # Null
    BY <2>1, BookAssumptions DEF BookP!TellsOne
  <2>3. Says(x, L[<<c, o>>])
    <3>1. L[<<c, o>>] = BookP!Left(c, o)
      BY <1>4, <1>6 DEF LeftNow
    <3> QED
      BY <2>1, <2>2, <3>1, FollowsSays
  <2>4. PICK v : v = [written EXCEPT ![c] = Append(@, x)]
    OBVIOUS
  <2>5. /\ Books(v, Told(c, answers), LeftAfter(x, L))
        /\ \A d \in Clients, p \in OrderIds :
             Heard(v[d], p) <=> Heard(written[d], p) \/ BookP!About(x, d, p)
    BY <1>1, <1>5, <1>6, <2>1, <2>3, <2>4, WriteOne
  <2>6. written' = v /\ answers' = Told(c, answers)
    <3>1. Addressee(1) = c /\ Addressee(2) = Null
      BY <2>1, <2>2 DEF Addressee
    <3>2. Wrote(2, Wrote(1, written)) = v
      <4>1. Len(resp') = 1 /\ resp'[1] = x
        BY <2>2
      <4>2. Wrote(1, written) = v
        <5>1. Wrote(1, written) = [written EXCEPT ![x.client] = Append(@, x)]
          BY <4>1 DEF Wrote
        <5> QED
          BY <2>1, <2>4, <5>1
      <4>3. Wrote(2, v) = v
        BY <4>1 DEF Wrote
      <4> QED
        BY <4>2, <4>3
    <3> QED
      BY <1>7, <3>1, <3>2 DEF Told
  <2>7. LeftAfter(x, L) = LeftNow'
    <3>1. ASSUME NEW d \in Clients, NEW p \in OrderIds
          PROVE  (IF BookP!About(x, d, p) THEN BookP!Remaining(x) ELSE L[<<d, p>>])
                   = BookP!Left(d, p)'
      <4>1. CASE BookP!About(x, d, p)
        <5>1. d = c /\ p = o
          BY <2>1, <4>1 DEF BookP!About
        <5>2. BookP!Left(x.client, x.oid)' = BookP!Remaining(x)
          BY <1>9, <2>1 DEF BookP!TellsOne
        <5> QED
          BY <2>1, <4>1, <5>1, <5>2
      <4>2. CASE ~BookP!About(x, d, p)
        <5>1. BookP!Left(d, p)' = BookP!Left(d, p)
          BY <1>9, <2>1, <4>2 DEF BookP!TellsOne, BookP!Stays
        <5> QED
          BY <1>6, <4>2, <5>1 DEF LeftNow
      <4> QED
        BY <4>1, <4>2
    <3> QED
      BY <3>1 DEF LeftAfter, LeftNow
  <2>8. ASSUME NEW d \in Clients, NEW p \in OrderIds
        PROVE  Heard(v[d], p) <=> \E k \in 1 .. processed + 1 : Orders(k, d, p)
    <3>1. Heard(written[d], p) <=> \E k \in 1 .. processed : Orders(k, d, p)
      BY <1>1 DEF Truthful
    <3>2. Orders(processed + 1, d, p) <=> BookP!About(x, d, p) /\ t = "NEW"
      BY <1>3, <1>4, <2>1 DEF Orders, BookP!About
    <3>3. BookP!About(x, d, p) /\ t # "NEW" => Heard(written[d], p)
      BY <1>5, <2>1 DEF BookP!About
    <3>4. \A k : k \in 1 .. processed + 1 <=> k \in 1 .. processed \/ k = processed + 1
      BY <1>1
    <3> QED
      BY <2>5, <3>1, <3>2, <3>3, <3>4
  <2>9. \A k, d, p : Orders(k, d, p)' <=> Orders(k, d, p)
    BY DEF Orders
  <2> QED
    BY <1>7, <2>5, <2>6, <2>7, <2>8, <2>9 DEF Truthful
<1> QED
  BY <1>3, <1>4, <1>8, <1>9 DEF Takes

\* An invalid type ends the process, and nothing is written.
LEMMA TruthfulInvalid ==
  ASSUME Sound, Truthful, InvalidType, sendClientResponse(1)
  PROVE  Truthful'
<1>1. status = "up" /\ status' = "invalid_type" /\ BookP!Silent
  BY InvalidIsSilent
<1>2. /\ answers' = Told(Addressee(2), Told(Addressee(1), answers))
      /\ written' = Wrote(2, Wrote(1, written))
  BY DEF sendClientResponse, Process
<1>3. answers' = answers /\ written' = written
  BY <1>1, <1>2 DEF BookP!Silent, Addressee, Told, Wrote
<1>4. PICK L : Books(written, answers, L)
  BY DEF Truthful
<1> QED
  BY <1>1, <1>3, <1>4 DEF Truthful

\* The engine goes on with a request.
LEMMA TruthfulGoesOn ==
  ASSUME Sound, Truthful, status = "up", BookP!Step, sendClientResponse(0),
         UNCHANGED <<incoming, script>>
  PROVE  Truthful'
<1>1. BookInv /\ answers \in [Clients -> Nat] /\ processed \in Nat
  BY DEF Sound, TypeInv, OutTypes
<1>2. \/ BookP!Silent
      \/ \E x, y \in BookP!ClientResponses : BookP!TellsTwo(x, y)
  BY <1>1, BookPAssumptions, BookP!StepTells DEF BookInv
<1>3. PICK L : Books(written, answers, L) /\ L = LeftNow
  BY DEF Truthful
<1>4. /\ processed' = processed
      /\ answers' = Told(Addressee(2), Told(Addressee(1), answers))
      /\ written' = Wrote(2, Wrote(1, written))
  BY <1>1 DEF sendClientResponse, Process
<1>5. \A k, d, p : Orders(k, d, p)' <=> Orders(k, d, p)
  BY DEF Orders
<1>6. CASE BookP!Silent
  <2>1. answers' = answers /\ written' = written
    BY <1>4, <1>6 DEF BookP!Silent, Addressee, Told, Wrote
  <2>2. ASSUME status' = "up"
        PROVE  L = LeftNow'
    <3>1. \A c \in Clients, o \in OrderIds : BookP!Left(c, o)' = BookP!Left(c, o)
      BY <1>6, <2>2 DEF BookP!Silent, BookP!Stays
    <3> QED
      BY <1>3, <3>1 DEF LeftNow
  <2> QED
    BY <1>3, <1>4, <1>5, <2>1, <2>2 DEF Truthful
<1>7. CASE \E x, y \in BookP!ClientResponses : BookP!TellsTwo(x, y)
  <2>1. PICK x \in BookP!ClientResponses, y \in BookP!ClientResponses : BookP!TellsTwo(x, y)
    BY <1>7
  <2>2. /\ resp' = <<x, y>> /\ BookP!Follows(x) /\ BookP!Follows(y)
        /\ ~BookP!About(y, x.client, x.oid) /\ x.type = "FILLED" /\ y.type = "FILLED"
        /\ x.client \in Clients /\ y.client \in Clients
        /\ x.oid \in OrderIds /\ y.oid \in OrderIds
    BY <2>1 DEF BookP!TellsTwo, BookP!ClientResponses
  <2>3. Says(x, L[<<x.client, x.oid>>]) /\ Says(y, L[<<y.client, y.oid>>])
    <3>1. /\ L[<<x.client, x.oid>>] = BookP!Left(x.client, x.oid)
          /\ L[<<y.client, y.oid>>] = BookP!Left(y.client, y.oid)
      BY <1>3, <2>2 DEF LeftNow
    <3> QED
      BY <2>2, <3>1, FollowsSays
  <2>4. PICK v : v = [written EXCEPT ![x.client] = Append(@, x)]
    OBVIOUS
  <2>5. PICK u : u = [v EXCEPT ![y.client] = Append(@, y)]
    OBVIOUS
  <2>6. PICK b : b = Told(y.client, Told(x.client, answers))
    OBVIOUS
  <2>7. PICK M : M = LeftAfter(y, LeftAfter(x, L))
    OBVIOUS
  <2>8. /\ Books(u, b, M)
        /\ \A c \in Clients, o \in OrderIds : Heard(u[c], o) <=> Heard(written[c], o)
    <3>1. /\ Books([[written EXCEPT ![x.client] = Append(@, x)] EXCEPT ![y.client] = Append(@, y)],
                   Told(y.client, Told(x.client, answers)), LeftAfter(y, LeftAfter(x, L)))
          /\ \A c \in Clients, o \in OrderIds :
               Heard([[written EXCEPT ![x.client] = Append(@, x)]
                        EXCEPT ![y.client] = Append(@, y)][c], o)
                 <=> Heard(written[c], o)
      BY <1>1, <1>3, <2>2, <2>3, WriteFills
    <3> QED
      BY <2>4, <2>5, <2>6, <2>7, <3>1
  <2>9. written' = u /\ answers' = b
    BY <1>4, <2>2, <2>4, <2>5, <2>6 DEF Addressee, Wrote
  <2>10. ASSUME status' = "up"
         PROVE  M = LeftNow'
    <3>1. ASSUME NEW d \in Clients, NEW p \in OrderIds
          PROVE  (IF BookP!About(y, d, p) THEN BookP!Remaining(y)
                  ELSE IF BookP!About(x, d, p) THEN BookP!Remaining(x) ELSE L[<<d, p>>])
                   = BookP!Left(d, p)'
      <4>1. CASE BookP!About(y, d, p)
        <5>1. d = y.client /\ p = y.oid
          BY <4>1 DEF BookP!About
        <5>2. BookP!Left(y.client, y.oid)' = BookP!Remaining(y)
          BY <2>10, <2>1 DEF BookP!TellsTwo
        <5> QED
          BY <4>1, <5>1, <5>2
      <4>2. CASE BookP!About(x, d, p)
        <5>1. d = x.client /\ p = x.oid /\ ~BookP!About(y, d, p)
          BY <2>2, <4>2 DEF BookP!About
        <5>2. BookP!Left(x.client, x.oid)' = BookP!Remaining(x)
          BY <2>10, <2>1 DEF BookP!TellsTwo
        <5> QED
          BY <4>2, <5>1, <5>2
      <4>3. CASE ~BookP!About(x, d, p) /\ ~BookP!About(y, d, p)
        <5>1. BookP!Left(d, p)' = BookP!Left(d, p)
          BY <2>1, <2>10, <4>3 DEF BookP!TellsTwo, BookP!Stays
        <5> QED
          BY <1>3, <4>3, <5>1 DEF LeftNow
      <4> QED
        BY <4>1, <4>2, <4>3
    <3> QED
      BY <2>7, <3>1 DEF LeftAfter, LeftNow
  <2> QED
    BY <1>4, <1>5, <2>8, <2>9, <2>10 DEF Truthful
<1> QED
  BY <1>2, <1>6, <1>7

\* Nobody but the engine's thread writes to the clients or changes the book.
LEMMA OthersWriteNothing ==
  ASSUME [ExchangeNext]_exchangeVars, ~MatchingEngine
  PROVE  /\ UNCHANGED <<ownBookVars, script, processed, answers, written>>
         /\ status' = "up" => status = "up"
<1>1. UNCHANGED <<ownBookVars, script, written>>
  BY DEF ExchangeNext, exchangeVars, ServerStep, Delivery
<1>2. UNCHANGED <<processed, answers>>
  BY DEF ExchangeNext, exchangeVars, ServerStep, Delivery, vars, engineVars, Server,
     Arrivals, Connect, ClientSends, Send, Arrive, LogBanner, poll, Receive, RecvRequest,
     RecvRemainder, SendBuffered, RecvFinished, Respond, Responded
<1>3. status' = "up" => status = "up"
  BY DEF ExchangeNext, exchangeVars, ServerStep, Delivery, vars, Server,
     Arrivals, Connect, ClientSends, Send, Arrive, LogBanner, poll, Receive, RecvRequest,
     RecvRemainder, SendBuffered, RecvFinished, Respond, Responded, At
<1> QED
  BY <1>1, <1>2, <1>3

\* Every step keeps what is written true.
LEMMA TruthfulStep ==
  ASSUME EngineIsFree, Sound, ClientFIFO, Truthful, [ExchangeNext]_exchangeVars
  PROVE  Truthful'
<1>1. CASE MatchingEngine
  BY <1>1, EngineIsUp, EngineEither, TruthfulTakes, TruthfulInvalid, TruthfulGoesOn
<1>2. CASE ~MatchingEngine
  <2>1. /\ UNCHANGED <<ownBookVars, script, processed, answers, written>>
        /\ status' = "up" => status = "up"
    BY <1>2, OthersWriteNothing
  <2>2. PICK L : Books(written, answers, L) /\ (status = "up" => L = LeftNow)
    BY DEF Truthful
  <2>3. LeftNow' = LeftNow
    BY <2>1 DEF ownBookVars, LeftNow, BookP!Left
  <2>4. ASSUME status' = "up", NEW c \in Clients, NEW o \in OrderIds
        PROVE  Heard(written[c], o) <=> \E k \in 1 .. processed : Orders(k, c, o)'
    <3>1. Heard(written[c], o) <=> \E k \in 1 .. processed : Orders(k, c, o)
      BY <2>1, <2>4 DEF Truthful
    <3>2. ASSUME NEW k \in 1 .. processed
          PROVE  Orders(k, c, o)' <=> Orders(k, c, o)
      <4>1. [Next]_vars
        BY ExchangeStep
      <4>2. k \in 1 .. Len(incoming)
        BY FieldsOf DEF Sound, TypeInv, OutTypes
      <4>3. incoming'[k] = incoming[k]
        BY <4>1, <4>2, IncomingGrows DEF Sound
      <4> QED
        BY <2>1, <4>3 DEF Orders
    <3> QED
      BY <3>1, <3>2
  <2> QED
    BY <2>1, <2>2, <2>3, <2>4 DEF Truthful
<1> QED
  BY <1>1, <1>2

-------------------------------------------------------------------------------
(* The way of the responses to their clients.                                  *)

\* What has been buffered for a client, or sent to it, is its responses, each in the
\* place of its number.
Delivered ==
  \A c \in Clients :
    /\ Len(Out(c)) = cid_next_outgoing_seq_num_[c] - 1
    /\ \A i \in 1 .. Len(Out(c)) :
         Out(c)[i].response.client = c /\ Out(c)[i].response.number = i

\* Nothing has been buffered at first.
LEMMA DeliveredInit == ExchangeInit => Delivered
<1>1. Clients = Sockets
  BY ClientsFollowScripts
<1> QED
  BY <1>1 DEF ExchangeInit, Init, Delivered, Out

\* A buffer that is sent whole goes on in what has been received.
LEMMA DeliveredSendBuffered ==
  ASSUME SendsAll, TypeInv, NothingTorn, Delivered, SendBuffered
  PROVE  Delivered'
<1>1. PICK s \in Sockets : s = Visited
  BY DEF TypeInv, LoopTypes, Visited, SendBuffered, At
<1>2. PICK n \in 0 .. Parts * Len(outbound_data_[s]) :
        /\ n = Parts * Len(outbound_data_[s])
        /\ received' = [received EXCEPT ![s] = @ \o Completed(s, n)]
        /\ outbound_data_' = [outbound_data_ EXCEPT ![s] = <<>>]
        /\ UNCHANGED cid_next_outgoing_seq_num_
  BY <1>1 DEF SendBuffered, Taken
<1>3. /\ \A u \in Sockets : received[u] \in Seq(Messages) /\ cut[u] = 0
      /\ received \in [Sockets -> Seq(Messages \cup {Garbled})]
      /\ outbound_data_ \in [Sockets -> Seq(Messages)]
  BY DEF TypeInv, OutTypes, NothingTorn
<1>5. Completed(s, n) = outbound_data_[s]
  <2>1. PICK b \in Seq(Messages), l \in Nat : b = outbound_data_[s] /\ l = Len(b)
    BY <1>3
  <2>2. n = Parts * l /\ n \div Parts = l
    BY <1>2, <2>1, PartsArithmetic
  <2>3. /\ Completed(s, n) \in Seq(Messages \cup {Garbled}) /\ Len(Completed(s, n)) = l
        /\ \A k \in 1 .. l : Completed(s, n)[k] = b[k]
    BY <1>3, <2>1, <2>2, FramesCompleted
  <2> QED
    BY <2>1, <2>3
<1>4. ASSUME NEW u \in Sockets
      PROVE  Out(u)' = Out(u)
  <2>1. PICK r \in Seq(Messages), b \in Seq(Messages) : r = received[u] /\ b = outbound_data_[u]
    BY <1>3
  <2>2. CASE u = s
    <3>2. received'[u] = r \o b /\ outbound_data_'[u] = <<>>
      BY <1>2, <1>3, <1>5, <2>1, <2>2
    <3>3. r \o b \in Seq(Messages)
      OBVIOUS
    <3>4. (r \o b) \o <<>> = r \o b
      BY <3>3
    <3> QED
      BY <2>1, <3>2, <3>4 DEF Out
  <2>3. CASE u # s
    BY <1>2, <1>3, <2>3 DEF Out
  <2> QED
    BY <2>2, <2>3
<1> QED
  BY <1>2, <1>4, ClientsFollowScripts DEF Delivered

\* A response takes its number's place behind what is buffered.
LEMMA DeliveredRespond ==
  ASSUME SendsAll, NothingTorn, TypeInv, KnownClients, Numbers, OnScript, Delivered, Respond
  PROVE  Delivered'
<1> DEFINE next == cid_next_outgoing_seq_num_
<1>1. /\ outgoing_responses_ \in Seq(Responses) /\ outgoing_responses_ # <<>>
      /\ answers \in [Clients -> Nat] /\ next \in [Clients -> Nat \ {0}]
      /\ \A u \in Sockets : received[u] \in Seq(Messages)
      /\ outbound_data_ \in [Sockets -> Seq(Messages)]
  BY DEF Respond, TypeInv, OutTypes, ClientTypes, NothingTorn
<1>2. PICK x \in Responses, c \in Clients :
        x = Head(outgoing_responses_) /\ c = x.client /\ x.number = next[c]
  <2>1. Head(outgoing_responses_) \in Responses
    BY <1>1
  <2> QED
    BY <1>1, <2>1, NumberedRespond DEF Numbers, Responses
<1>3. cid_tcp_socket_[c] = c /\ cid_tcp_socket_[c] # Null /\ c \in Sockets
  <2>1. 1 \in 1 .. Len(outgoing_responses_) /\ outgoing_responses_[1] = x
    BY <1>1, <1>2
  <2> QED
    BY <1>2, <2>1, ClientsFollowScripts DEF KnownClients, HasSocket, OnScript
<1>4. PICK m \in Messages : m = [seq |-> next[c], response |-> x]
  BY <1>1, <1>2 DEF Messages
<1>5. /\ outbound_data_' = [outbound_data_ EXCEPT ![c] = Append(@, m)]
      /\ next' = [next EXCEPT ![c] = @ + 1]
      /\ UNCHANGED received
  BY <1>2, <1>3, <1>4 DEF Respond, send
<1>6. \A d \in Clients : next[d] \in Nat /\ next'[d] \in Nat
                         /\ next'[d] = IF d = c THEN next[d] + 1 ELSE next[d]
  BY <1>1, <1>5
<1> HIDE DEF next
<1>7. Out(c)' = Append(Out(c), m)
  <2>1. PICK r \in Seq(Messages), b \in Seq(Messages) : r = received[c] /\ b = outbound_data_[c]
    BY <1>1, <1>3
  <2>2. r \o Append(b, m) = Append(r \o b, m)
    OBVIOUS
  <2> QED
    BY <1>1, <1>3, <1>5, <2>1, <2>2 DEF Out
<1>8. \A d \in Clients \ {c} : Out(d)' = Out(d)
  BY <1>1, <1>5, ClientsFollowScripts DEF Out
<1>9. PICK q \in Seq(Messages), k \in Nat : q = Out(c) /\ k = Len(q)
  <2>1. PICK r \in Seq(Messages), b \in Seq(Messages) : r = received[c] /\ b = outbound_data_[c]
    BY <1>1, <1>3
  <2>2. r \o b \in Seq(Messages)
    OBVIOUS
  <2>3. Out(c) = r \o b
    BY <2>1 DEF Out
  <2>4. \A q \in Seq(Messages) : Len(q) \in Nat
    OBVIOUS
  <2>5. Out(c) \in Seq(Messages) /\ Len(Out(c)) \in Nat
    BY <2>2, <2>3, <2>4
  <2> QED
    BY <2>5
<1>10. /\ k = next[c] - 1
       /\ \A i \in 1 .. k : q[i].response.client = c /\ q[i].response.number = i
  BY <1>9 DEF Delivered, next
<1>11. PICK p : /\ p = Append(q, m) /\ Len(p) = k + 1 /\ p[k + 1] = m
                /\ \A i \in 1 .. k : p[i] = q[i]
  <2>1. /\ Len(Append(q, m)) = k + 1 /\ Append(q, m)[k + 1] = m
        /\ \A i \in 1 .. k : Append(q, m)[i] = q[i]
    BY <1>9
  <2> QED
    BY <2>1
<1>12. /\ m.response.client = c /\ m.response.number = k + 1
  BY <1>2, <1>4, <1>6, <1>10
<1>13. ASSUME NEW d \in Clients
       PROVE  /\ Len(Out(d)') = next'[d] - 1
              /\ \A i \in 1 .. Len(Out(d)') :
                   (Out(d)')[i].response.client = d /\ (Out(d)')[i].response.number = i
  <2>1. CASE d = c
    <3>1. Out(d)' = p
      BY <1>7, <1>9, <1>11, <2>1
    <3>2. Len(p) = next'[d] - 1
      BY <1>6, <1>10, <1>11, <2>1
    <3>3. \A i \in 1 .. k + 1 : p[i].response.client = c /\ p[i].response.number = i
      BY <1>10, <1>11, <1>12
    <3> QED
      BY <1>11, <2>1, <3>1, <3>2, <3>3
  <2>2. CASE d # c
    BY <1>6, <1>8, <2>2 DEF Delivered, next
  <2> QED
    BY <2>1, <2>2
<1> QED
  BY <1>13 DEF Delivered, next

\* The others touch no buffer.
LEMMA DeliveredStep ==
  ASSUME SendsAll, EngineIsFree, Sound, NothingTorn, KnownClients, Numbers, Delivered,
         [ExchangeNext]_exchangeVars
  PROVE  Delivered'
<1>1. [Next]_vars
  BY ExchangeStep
<1>2. CASE SendBuffered
  BY <1>2, DeliveredSendBuffered DEF Sound
<1>3. CASE Respond
  BY <1>3, DeliveredRespond DEF Sound
<1>4. CASE ~SendBuffered /\ ~Respond
  <2>1. UNCHANGED <<received, outbound_data_, cid_next_outgoing_seq_num_>>
    BY <1>1, <1>4 DEF Next, Server, Arrivals, Engine, Begin, GoOn, vars, outVars, cidVars,
       Connect, Send, Arrive, Process, LogBanner, poll, Receive, RecvRequest, RecvRemainder,
       RecvFinished, Responded
  <2> QED
    BY <2>1 DEF Delivered, Out
<1> QED
  BY <1>2, <1>3, <1>4

-------------------------------------------------------------------------------
(* What the clients hear is a story, and true.                                 *)

\* All of this together.
Informed == Sound /\ KnownClients /\ Numbers /\ NothingTorn /\ Truthful /\ Delivered

\* Every client has received the beginning of what it has been written.
LEMMA BodyWritten ==
  ASSUME Informed, NEW c \in Clients
  PROVE  /\ Len(received[c]) \in Nat /\ Len(written[c]) \in Nat
         /\ Len(received[c]) <= Len(written[c])
         /\ \A i \in 1 .. Len(received[c]) : Body(c, i) = written[c][i]
         /\ Quiet => Len(received[c]) = Len(written[c])
         /\ Story(written[c]) /\ \A i \in 1 .. Len(written[c]) : written[c][i].client = c
<1>1. c \in Sockets /\ TypeInv
  BY ClientsFollowScripts DEF Informed, Sound
<1>2. PICK r \in Nat, b \in Nat : /\ r = Len(received[c]) /\ b = Len(outbound_data_[c])
                                  /\ Len(Out(c)) = r + b
                                  /\ \A i \in 1 .. r : Out(c)[i] = received[c][i]
  <2>1. PICK r \in Nat, b \in Nat : r = Len(received[c]) /\ b = Len(outbound_data_[c])
    BY <1>1, OutTyped
  <2>2. \A i \in 1 .. r : i \in 1 .. r + b /\ i <= r
    OBVIOUS
  <2> QED
    BY <1>1, <2>1, <2>2, OutTyped
<1>3. /\ answers[c] \in Nat /\ cid_next_outgoing_seq_num_[c] \in Nat
      /\ cid_next_outgoing_seq_num_[c] <= answers[c] + 1
  BY <1>1 DEF TypeInv, OutTypes, ClientTypes, Informed, Numbers, Numbered
<1>4. r + b = cid_next_outgoing_seq_num_[c] - 1
  BY <1>2 DEF Informed, Delivered
<1>5. /\ Len(written[c]) = answers[c] /\ Story(written[c])
      /\ \A i \in 1 .. Len(written[c]) : written[c][i].client = c
  BY DEF Informed, Truthful, Books
<1>6. ASSUME NEW i \in 1 .. r
      PROVE  Body(c, i) = written[c][i]
  <2>1. Out(c)[i] = received[c][i]
    BY <1>2
  <2>2. i \in 1 .. Len(Out(c))
    <3>1. i \in 1 .. r + b
      OBVIOUS
    <3> QED
      BY <1>2, <3>1
  <2>3. Out(c)[i].response.number = i
    BY <2>2 DEF Informed, Delivered
  <2> QED
    BY <2>1, <2>3 DEF Body
<1>7. ASSUME Quiet
      PROVE  r = answers[c]
  <2>1. outgoing_responses_ = <<>> /\ b = 0
    BY <1>1, <1>2, <1>7 DEF Quiet
  <2>2. ~(cid_next_outgoing_seq_num_[c] <= answers[c])
    <3>1. SUFFICES ASSUME cid_next_outgoing_seq_num_[c] <= answers[c]
                   PROVE  FALSE
      OBVIOUS
    <3>2. answers[c] \in cid_next_outgoing_seq_num_[c] .. answers[c]
      BY <1>3, <3>1
    <3> QED
      BY <2>1, <3>2 DEF Informed, Numbers, Numbered
  <2> QED
    BY <1>3, <1>4, <2>1, <2>2
<1>8. r <= answers[c]
  BY <1>3, <1>4
<1>9. \A i \in 1 .. Len(received[c]) : Body(c, i) = written[c][i]
  BY <1>2, <1>6
<1>10. Quiet => Len(received[c]) = Len(written[c])
  BY <1>2, <1>5, <1>7
<1> QED
  BY <1>2, <1>3, <1>5, <1>8, <1>9, <1>10

\* There is one last response about an order.
LEMMA LastIsOne ==
  ASSUME NEW q, NEW n \in Nat, n = Len(q), NEW o, NEW i \in 1 .. n, NEW j \in 1 .. n,
         LastIn(q, o, i), LastIn(q, o, j)
  PROVE  i = j
<1>1. ~(i < j)
  BY DEF LastIn
<1>2. ~(j < i)
  BY DEF LastIn
<1> QED
  BY <1>1, <1>2

\* The response that ends an order leaves nothing of it.
LEMMA EndsWithNothing ==
  ASSUME NEW x
  PROVE  /\ Ends(x) <=> BookP!Remaining(x) = 0
         /\ ~Ends(x) => BookP!Remaining(x) = x.leaves
BY DEF Ends, BookP!Remaining

\* So what has been received tells stories.
LEMMA InformedStories == Informed => OrderStories
<1> SUFFICES ASSUME Informed, NEW c \in Clients, NEW i \in 1 .. Len(received[c])
             PROVE  /\ Body(c, i).client = c
                    /\ Body(c, i).type = "ACCEPTED" <=>
                         \A j \in 1 .. i - 1 : Body(c, j).oid # Body(c, i).oid
                    /\ \A j \in 1 .. i - 1 : Precedes(c, j, i) => Continues(Body(c, j), Body(c, i))
  BY DEF OrderStories
<1>1. PICK q, n, r :
        /\ q = written[c] /\ n = Len(q) /\ r = Len(received[c]) /\ r <= n
        /\ n \in Nat /\ r \in Nat
        /\ Story(q) /\ \A k \in 1 .. n : q[k].client = c
        /\ \A k \in 1 .. r : Body(c, k) = q[k]
  BY BodyWritten
<1>2. i \in 1 .. n /\ \A j \in 1 .. i : j \in 1 .. r
  BY <1>1
<1>3. \A j \in 1 .. i - 1 : j \in 1 .. i /\ j < i /\ \A k \in j + 1 .. i - 1 : k \in 1 .. i
  BY <1>1
<1>4. i \in 1 .. i
  BY <1>1
<1>5. \A j \in 1 .. i : Body(c, j) = q[j]
  BY <1>1, <1>2
<1>6. /\ q[i].type = "ACCEPTED" <=> \A j \in 1 .. i - 1 : q[j].oid # q[i].oid
      /\ \A j \in 1 .. i - 1 :
           q[j].oid = q[i].oid /\ (\A k \in j + 1 .. i - 1 : q[k].oid # q[i].oid)
             => Continues(q[j], q[i])
  BY <1>1, <1>2 DEF Story
<1>7. ASSUME NEW j \in 1 .. i - 1, Precedes(c, j, i)
      PROVE  Continues(Body(c, j), Body(c, i))
  <2>1. q[j].oid = q[i].oid /\ \A k \in j + 1 .. i - 1 : q[k].oid # q[i].oid
    BY <1>3, <1>4, <1>5, <1>7 DEF Precedes
  <2> QED
    BY <1>3, <1>4, <1>5, <1>6, <2>1
<1>8. Body(c, i).type = "ACCEPTED" <=> \A j \in 1 .. i - 1 : Body(c, j).oid # Body(c, i).oid
  BY <1>3, <1>4, <1>5, <1>6
<1> QED
  BY <1>1, <1>2, <1>4, <1>5, <1>7, <1>8

\* And when nothing is under way its end is what the book has.
LEMMA InformedKnow == Informed => ClientsKnow
<1> SUFFICES ASSUME Informed, status = "up", Quiet, NEW c \in Clients, NEW o \in OrderIds
             PROVE  LET told == {i \in 1 .. Len(received[c]) : LastTold(c, o, i) /\ ~Ends(Body(c, i))}
                        m    == cid_oid_to_order_[c][o]
                    IN  /\ m = Null <=> told = {}
                        /\ \A i \in told : order_pool_[m].qty = Body(c, i).leaves
  BY DEF ClientsKnow
<1>1. PICK q, n :
        /\ q = written[c] /\ n = Len(q) /\ n = Len(received[c]) /\ n \in Nat
        /\ \A k \in 1 .. n : Body(c, k) = q[k]
  BY BodyWritten
<1>2. PICK m, qty : m = cid_oid_to_order_[c][o] /\ qty = order_pool_[m].qty
  OBVIOUS
<1>3. \A i \in 1 .. n : LastTold(c, o, i) <=> LastIn(q, o, i)
  BY <1>1 DEF LastTold, LastIn
<1>4. Knows(q, o, IF m = Null THEN 0 ELSE qty)
  <2>1. Knows(q, o, BookP!Left(c, o))
    <3>1. PICK L : Books(written, answers, L) /\ L = LeftNow
      BY DEF Informed, Truthful
    <3>2. Knows(q, o, L[<<c, o>>])
      BY <1>1, <3>1 DEF Books
    <3> QED
      BY <3>1, <3>2 DEF LeftNow
  <2>2. job = Null
    BY DEF Quiet
  <2>3. BookP!Left(c, o) = IF m = Null THEN 0 ELSE qty
    BY <1>2, <2>2 DEF BookP!Left
  <2> QED
    BY <2>1, <2>3
<1>5. m # Null => qty # 0
  <2>1. m # Null => m \in BookP!Pooled
    BY <1>2, BookPAssumptions, BookP!LeftOfOrders DEF Informed, Sound, BookInv
  <2>2. m \in BookP!Pooled => order_pool_[m] \in BookP!MEOrder
    BY BookPAssumptions, BookP!LeftOfOrders DEF Informed, Sound, BookInv
  <2> QED
    BY <1>2, <2>1, <2>2 DEF BookP!MEOrder
<1>6. CASE m = Null
  <2>1. ASSUME NEW i \in 1 .. n, LastIn(q, o, i)
        PROVE  Ends(q[i])
    <3>1. Heard(q, o)
      BY <1>1, <2>1 DEF Heard, LastIn
    <3>2. PICK k \in 1 .. n : LastIn(q, o, k) /\ BookP!Remaining(q[k]) = 0
      BY <1>1, <1>4, <1>6, <3>1 DEF Knows
    <3>3. i = k
      BY <1>1, <2>1, <3>2, LastIsOne
    <3> QED
      BY <3>2, <3>3, EndsWithNothing
  <2> QED
    BY <1>1, <1>2, <1>3, <1>6, <2>1
<1>7. CASE m # Null
  <2>1. PICK k \in 1 .. n : LastIn(q, o, k) /\ BookP!Remaining(q[k]) = qty
    BY <1>1, <1>4, <1>5, <1>7 DEF Knows
  <2>2. ~Ends(q[k]) /\ q[k].leaves = qty
    BY <1>5, <1>7, <2>1, EndsWithNothing
  <2>3. \A i \in 1 .. n : LastIn(q, o, i) => i = k
    BY <1>1, <2>1, LastIsOne
  <2> QED
    BY <1>1, <1>2, <1>3, <1>7, <2>1, <2>2, <2>3
<1> QED
  BY <1>6, <1>7

\* It holds at first.
LEMMA InformedInit == ASSUME BookP!LimitsApart PROVE ExchangeInit => Informed
BY SoundInit, KnownInit, NumbersInit, TornInit, TruthfulInit, DeliveredInit
DEF Informed, BookP!LimitsApart

\* Every step keeps it, from a state in which the engine's queue is in order.
LEMMA InformedStep ==
  ASSUME BookP!LimitsApart, EngineIsFree, SendsAll, Informed, ClientFIFO,
         [ExchangeNext]_exchangeVars
  PROVE  Informed'
<1>1. Sound /\ TypeInv /\ [Next]_vars
  BY ExchangeStep DEF Informed, Sound
<1> QED
  BY <1>1, SoundStep, KnownStep, NumbersStep, TornStep, TruthfulStep, DeliveredStep DEF Informed

\* As long as the engine gets every client's requests in order, and the kernel takes
\* all that is sent, what a client hears of an order makes a story, whatever became
\* of the order in between, and when nothing is under way it has heard what the book
\* holds (order_server.h:29-59, matching_engine.h:54-89).  Passes that are too long
\* to be sorted stably are where the order of the requests is lost.
THEOREM StoriesOfOrderedRequests ==
  ASSUME BookP!LimitsApart, EngineIsFree, SendsAll
  PROVE  ExchangeSpec /\ []ClientFIFO => []OrderStories /\ []ClientsKnow
<1>1. Informed /\ ClientFIFO /\ [ExchangeNext]_exchangeVars => Informed'
  BY InformedStep
<1> QED
  BY <1>1, InformedInit, InformedStories, InformedKnow, PTL DEF ExchangeSpec

\* A pass is too long for that when more than SortLimit requests wait to be sequenced
\* together, 16 of the 1024 that may (fifo_sequencer.h:13,36).  In every run of the
\* exchange in which no pass gets so long, the stories of the orders are whole.
THEOREM StoriesAreWhole ==
  ASSUME BookP!LimitsApart, EngineIsFree, SendsAll
  PROVE  ExchangeSpec /\ []ShortPasses => []OrderStories
BY ImplementsOrderServer, ShortPassesKeepOrder, StoriesOfOrderedRequests, PTL

\* And in every such run a client that has heard all there is to hear knows how its
\* orders stand.
THEOREM WhatTheyHearIsTrue ==
  ASSUME BookP!LimitsApart, EngineIsFree, SendsAll
  PROVE  ExchangeSpec /\ []ShortPasses => []ClientsKnow
BY ImplementsOrderServer, ShortPassesKeepOrder, StoriesOfOrderedRequests, PTL
===============================================================================
