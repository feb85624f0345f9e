----------------------------- MODULE OrderServer -----------------------------
(***************************************************************************)
(* OrderServer (exchange/order_server/order_server.h and .cpp) with the    *)
(* TCPServer and the TCPSockets its thread runs (low-latency-components).  *)
(* The thread goes round: poll() accepts connections; sendAndRecv() visits *)
(* every socket, reads what has arrived, runs recvCallback() over it and   *)
(* sends what is buffered; then the requests of the pass are sequenced and *)
(* published; then the engine's responses are buffered on the sockets.     *)
(*                                                                         *)
(* The clients, their network and the matching engine are its environment. *)
(* A connection is a stream of requests, each Parts parts long, and any    *)
(* number of parts may have arrived when recvmsg() is called; part p       *)
(* belongs to request (p - 1) \div Parts + 1 of the stream.  A client may  *)
(* send any sequence number, and on any connection.                        *)
(*                                                                         *)
(* The other way a connection is a stream of parts too, Parts of them for  *)
(* an OMClientResponse, and the client takes every Parts of them for one.  *)
(* ::send() may stop inside a response.  The rest of it is dropped with the*)
(* buffer, and from there on the client puts its frames together from the  *)
(* parts of different responses: they are Garbled, until the cuts happen to*)
(* add up to a whole frame again.                                          *)
(*                                                                         *)
(* The thread begins with a line in its log.  The format of that line asks *)
(* for five arguments and the code gives four, which ends the process.     *)
(* BannerArgs is 4 in the code; the runs that look beyond the banner give  *)
(* the fifth.                                                              *)
(*                                                                         *)
(* send_sockets_ stays empty: no socket is registered for EPOLLOUT.  A     *)
(* peer that closes stays in receive_sockets_ and is read no more.         *)
(***************************************************************************)
EXTENDS FIFOSequencer

CONSTANTS
  Clients, Sockets,
  Parts,          \* parts of an OMClientRequest, and of an OMClientResponse
  MaxSeq,         \* bound: the highest sequence number a client sends
  MaxRequests,    \* bound: requests sent in a behaviour
  MaxTime,        \* bound: arrivals later than the one before
  AnswerNumbers,  \* bound: numbers that fills bring a client's responses to
  EngineEnds,     \* bound: how the engine's thread may end the process
  BannerArgs,     \* arguments of the line run() begins with
  SendsAll,       \* does the kernel take all that ::send() is given?
  Null            \* nullptr

ASSUME ServerConstants ==
  /\ Parts \in Nat \ {0} /\ MaxSeq \in Nat
  /\ MaxRequests \in Nat /\ MaxTime \in Nat /\ BannerArgs \in Nat
  /\ EngineEnds \subseteq {"segv", "out_of_space", "invalid_type"}
  /\ SendsAll \in BOOLEAN
  /\ Null \notin Sockets

VARIABLES
  \* the environment
  stream,         \* requests sent on each connection
  sent,           \* how many that makes
  arrived,        \* parts of it that have arrived
  stamp,          \* the time the last of them arrived at (SO_TIMESTAMP)
  clock,
  waiting,        \* connections not accepted yet
  processed,      \* requests the engine has processed
  answers,        \* responses the engine has written for each client
  received,       \* frames each connection has carried to its client
  cut,            \* parts it has carried of the next one
  \* the server
  status,         \* "up", or why the process has died
  pc,
  receive_sockets_,
  at,             \* the index sendAndRecv() of TCPServer has come to
  recv,           \* its local variable
  read,           \* parts of each stream recvmsg() has returned
  nth,            \* requests recvCallback() has gone through: its i
  rx_time,        \* what recvmsg() gave recvCallback() as kernel_time
  inbound_data_,  \* up to next_rcv_valid_index_
  outbound_data_, \* up to next_send_valid_index_
  cid_tcp_socket_, cid_next_exp_seq_num_, cid_next_outgoing_seq_num_,
  outgoing_responses_

netVars    == <<stream, sent, arrived, stamp, clock, waiting>>
engineVars == <<processed, answers>>
cidVars    == <<cid_tcp_socket_, cid_next_exp_seq_num_>>
outVars    == <<outbound_data_, cid_next_outgoing_seq_num_, outgoing_responses_,
                received, cut>>
inVars     == <<read, rx_time, inbound_data_>>
loopVars   == <<pc, receive_sockets_, at, recv, nth>>
vars == <<netVars, engineVars, cidVars, outVars, loopVars, inVars, status,
          sequencerVars>>

Init ==
  /\ SequencerInit
  /\ stream = [s \in Sockets |-> <<>>] /\ sent = 0 /\ arrived = [s \in Sockets |-> 0]
  /\ stamp = [s \in Sockets |-> 0] /\ clock = 0
  /\ waiting = <<>> /\ processed = 0 /\ answers = [c \in Clients |-> 0]
  /\ received = [s \in Sockets |-> <<>>] /\ cut = [s \in Sockets |-> 0]
  /\ status = "up" /\ pc = "banner"
  /\ receive_sockets_ = <<>> /\ at = 1 /\ recv = FALSE /\ nth = 0
  /\ read = [s \in Sockets |-> 0] /\ rx_time = 0
  /\ inbound_data_ = [s \in Sockets |-> <<>>]
  /\ outbound_data_ = [s \in Sockets |-> <<>>]
  /\ cid_tcp_socket_ = [c \in Clients |-> Null]
  /\ cid_next_exp_seq_num_ = [c \in Clients |-> 1]
  /\ cid_next_outgoing_seq_num_ = [c \in Clients |-> 1]
  /\ outgoing_responses_ = <<>>

-------------------------------------------------------------------------------
(* The environment.                                                            *)

InSeq(s, q) == \E i \in 1 .. Len(q) : q[i] = s
Connected(s) == InSeq(s, waiting) \/ InSeq(s, receive_sockets_)

Connect(s) ==
  /\ status = "up" /\ ~Connected(s)
  /\ waiting' = Append(waiting, s)
  /\ UNCHANGED <<stream, sent, arrived, stamp, clock, engineVars, cidVars, outVars,
                 loopVars, inVars, status, sequencerVars>>

Send(c, s, n) ==
  /\ status = "up" /\ Connected(s) /\ sent < MaxRequests
  /\ sent' = sent + 1
  /\ stream' = [stream EXCEPT ![s] = Append(@, [client |-> c, seq |-> n])]
  /\ UNCHANGED <<arrived, stamp, clock, waiting, engineVars, cidVars, outVars,
                 loopVars, inVars, status, sequencerVars>>

\* One more part reaches the kernel, at the time of the part before or later.
Arrive(s, later) ==
  /\ status = "up" /\ arrived[s] < Parts * Len(stream[s])
  /\ later => clock < MaxTime
  /\ clock' = IF later THEN clock + 1 ELSE clock
  /\ arrived' = [arrived EXCEPT ![s] = @ + 1]
  /\ stamp' = [stamp EXCEPT ![s] = clock']
  /\ UNCHANGED <<stream, sent, waiting, engineVars, cidVars, outVars, loopVars,
                 inVars, status, sequencerVars>>

\* The answers a when c has been given one more, and that response, which carries
\* its number among the responses to its client.  To give Null one gives none.
Told(c, a) == IF c = Null THEN a ELSE [a EXCEPT ![c] = @ + 1]
Response(c, a) ==
  IF c = Null THEN <<>> ELSE <<[client |-> c, number |-> Told(c, a)[c]]>>

\* A step of the engine, which begins with the next request (taken is 1) or goes on
\* with the one it has, and gives an answer to c and then one to d.
Process(taken, c, d) ==
  /\ processed' = processed + taken /\ processed' <= Len(incoming)
  /\ answers' = Told(d, Told(c, answers))
  /\ outgoing_responses_' =
       outgoing_responses_ \o Response(c, answers) \o Response(d, Told(c, answers))
  /\ UNCHANGED <<netVars, cidVars, outbound_data_, cid_next_outgoing_seq_num_,
                 received, cut, loopVars, inVars, sequencerVars>>

\* Who sent the request the engine has begun with as the i-th.
Sender(i) == incoming[i].request.client

\* The engine answers the request it begins with, unless that ends the process.
Begin ==
  /\ processed < Len(incoming)
  /\ \E c \in {Sender(processed + 1), Null} :
       Process(1, c, Null) /\ (c = Null => status' # "up")

\* It goes on, with a fill that both parties are told of or without.
GoOn ==
  \E fill \in {<<Null, Null>>} \cup
       {<<Sender(processed), Sender(i)>> : i \in 1 .. processed} :
    /\ Process(0, fill[1], fill[2])
    /\ fill # <<Null, Null>> => \A c \in Clients : answers'[c] \in AnswerNumbers

-------------------------------------------------------------------------------
(* The thread of OrderServer::run().                                           *)

At(label) == status = "up" /\ pc = label

\* Logger::log(), for a format with so many %, ends the process unless it is given
\* as many arguments.
log(percents, args) ==
  CASE args < percents -> "missing_arguments"
    [] args > percents -> "extra_arguments"
    [] OTHER -> status

\* The first line of run() has five %.
LogBanner ==
  /\ At("banner")
  /\ status' = log(5, BannerArgs)
  /\ pc' = "poll"
  /\ UNCHANGED <<netVars, engineVars, cidVars, outVars, receive_sockets_, at, recv,
                 nth, inVars, sequencerVars>>

\* TCPServer::poll(): every connection that waits is accepted.
poll ==
  /\ At("poll")
  /\ receive_sockets_' = receive_sockets_ \o waiting
  /\ waiting' = <<>>
  /\ pc' = "recv" /\ at' = 1 /\ recv' = FALSE
  /\ UNCHANGED <<stream, sent, arrived, stamp, clock, engineVars, cidVars, outVars,
                 nth, inVars, status, sequencerVars>>

Visited == receive_sockets_[at]

\* TCPSocket::sendAndRecv() reads all that has arrived.
Receive ==
  /\ At("recv") /\ at <= Len(receive_sockets_)
  /\ LET s == Visited
     IN  IF arrived[s] > read[s]
         THEN /\ inbound_data_' =
                   [inbound_data_ EXCEPT ![s] =
                      @ \o [k \in 1 .. arrived[s] - read[s] |-> read[s] + k]]
              /\ read' = [read EXCEPT ![s] = arrived[s]]
              /\ rx_time' = stamp[s]
              /\ recv' = TRUE /\ pc' = "callback" /\ nth' = 0
         ELSE /\ pc' = "send"
              /\ UNCHANGED <<inVars, recv, nth>>
  /\ UNCHANGED <<netVars, engineVars, cidVars, outVars, receive_sockets_, at,
                 status, sequencerVars>>

\* The next request in the buffer of s, as recvCallback() casts it.
Whole(s) == Parts * (nth + 1) <= Len(inbound_data_[s])
Request(s) == stream[s][(inbound_data_[s][Parts * nth + 1] - 1) \div Parts + 1]

OwnerLatest(c, s) == s             \* mutant: whoever spoke last

Owner(c, s) == IF cid_tcp_socket_[c] = Null THEN s ELSE cid_tcp_socket_[c]

HearNot(c, s) == UNCHANGED cid_tcp_socket_               \* mutant

Hear(c, s) == cid_tcp_socket_' = [cid_tcp_socket_ EXCEPT ![c] = Owner(c, s)]

InSequenceOrLater(c, n) == n >= cid_next_exp_seq_num_[c] \* mutant

InSequence(c, n) == n = cid_next_exp_seq_num_[c]

\* One turn of the loop of recvCallback().  The first socket a client is heard on
\* is its socket for ever.
RecvRequest ==
  /\ At("callback") /\ Whole(Visited)
  /\ LET s == Visited
         r == Request(s)
         c == r.client
         accepted == Owner(c, s) = s /\ InSequence(c, r.seq)
     IN  /\ Hear(c, s)
         /\ cid_next_exp_seq_num_' =
              [cid_next_exp_seq_num_ EXCEPT ![c] = IF accepted THEN @ + 1 ELSE @]
         /\ IF accepted /\ ~TooManyPending
            THEN addClientRequest(rx_time, r)
            ELSE UNCHANGED sequencerVars
         /\ status' = IF accepted /\ TooManyPending
                      THEN "too_many_pending" ELSE status
  /\ nth' = nth + 1
  /\ UNCHANGED <<netVars, engineVars, outVars, pc, receive_sockets_, at, recv,
                 inVars>>

RecvRemainderLost ==               \* mutant: the buffer starts afresh
  /\ At("callback") /\ ~Whole(Visited)
  /\ inbound_data_' = [inbound_data_ EXCEPT ![Visited] = <<>>]
  /\ pc' = "send" /\ nth' = 0 /\ rx_time' = 0
  /\ UNCHANGED <<netVars, engineVars, cidVars, outVars, receive_sockets_, at, recv,
                 read, status, sequencerVars>>

\* The end of recvCallback(): the part of a request that is left over moves to
\* the front of the buffer.  Its local variables end with it.
RecvRemainder ==
  /\ At("callback") /\ ~Whole(Visited)
  /\ inbound_data_' = [inbound_data_ EXCEPT ![Visited] =
       SubSeq(@, Parts * nth + 1, Len(@))]
  /\ pc' = "send" /\ nth' = 0 /\ rx_time' = 0
  /\ UNCHANGED <<netVars, engineVars, cidVars, outVars, receive_sockets_, at, recv,
                 read, status, sequencerVars>>

\* A frame that is no response of the server.
Garbled == [seq |-> 0, response |-> [client |-> Null, number |-> 0]]

\* The frames the client of s completes when n more parts of the buffer are sent:
\* the responses themselves while the stream stands between two of them.
Completed(s, n) ==
  [k \in 1 .. (cut[s] + n) \div Parts |->
     IF cut[s] = 0 THEN outbound_data_[s][k] ELSE Garbled]

\* ::send() takes any number of parts; -1, for an error, takes none.
Taken(s, n) ==
  /\ SendsAll => n = Parts * Len(outbound_data_[s])
  /\ received' = [received EXCEPT ![s] = @ \o Completed(s, n)]
  /\ cut' = [cut EXCEPT ![s] = (@ + n) % Parts]

SendBufferedKept ==                \* mutant: a short ::send() is tried again
  /\ At("send")
  /\ \E n \in 0 .. Parts * Len(outbound_data_[Visited]) :
       /\ Taken(Visited, n)
       /\ outbound_data_' = [outbound_data_ EXCEPT ![Visited] =
            IF n < Parts * Len(@) THEN @ ELSE <<>>]
  /\ at' = at + 1 /\ pc' = "recv"
  /\ UNCHANGED <<netVars, engineVars, cidVars, cid_next_outgoing_seq_num_,
                 outgoing_responses_, receive_sockets_, recv, nth, inVars,
                 status, sequencerVars>>

\* The end of sendAndRecv(): whatever ::send() took, the buffer is emptied.
SendBuffered ==
  /\ At("send")
  /\ \E n \in 0 .. Parts * Len(outbound_data_[Visited]) : Taken(Visited, n)
  /\ outbound_data_' = [outbound_data_ EXCEPT ![Visited] = <<>>]
  /\ at' = at + 1 /\ pc' = "recv"
  /\ UNCHANGED <<netVars, engineVars, cidVars, cid_next_outgoing_seq_num_,
                 outgoing_responses_, receive_sockets_, recv, nth, inVars,
                 status, sequencerVars>>

\* recv_finished_callback_(), when a socket has been read in this pass.
RecvFinished ==
  /\ At("recv") /\ at > Len(receive_sockets_)
  /\ IF recv /\ pending_client_requests_ # <<>>
     THEN sequenceAndPublish
     ELSE UNCHANGED sequencerVars
  /\ pc' = "respond" /\ at' = 1 /\ recv' = FALSE
  /\ UNCHANGED <<netVars, engineVars, cidVars, outVars, receive_sockets_,
                 nth, inVars, status>>

\* TCPSocket::send() only buffers, behind what is buffered already.
send(s, x) == outbound_data_' = [outbound_data_ EXCEPT ![s] = Append(@, x)]

\* One turn of the loop over outgoing_responses_.
Respond ==
  /\ At("respond") /\ outgoing_responses_ # <<>>
  /\ LET x == Head(outgoing_responses_)
         s == cid_tcp_socket_[x.client]
     IN  IF s = Null
         THEN /\ status' = "no_socket"
              /\ UNCHANGED outVars
         ELSE /\ send(s, [seq |-> cid_next_outgoing_seq_num_[x.client],
                          response |-> x])
              /\ cid_next_outgoing_seq_num_' =
                   [cid_next_outgoing_seq_num_ EXCEPT ![x.client] = @ + 1]
              /\ outgoing_responses_' = Tail(outgoing_responses_)
              /\ UNCHANGED <<received, cut, status>>
  /\ UNCHANGED <<netVars, engineVars, cidVars, loopVars, inVars,
                 sequencerVars>>

Responded ==
  /\ At("respond") /\ outgoing_responses_ = <<>>
  /\ pc' = "poll"
  /\ UNCHANGED <<netVars, engineVars, cidVars, outVars, receive_sockets_, at, recv,
                 nth, inVars, status, sequencerVars>>

-------------------------------------------------------------------------------
Server == \/ LogBanner \/ poll \/ Receive \/ RecvRequest \/ RecvRemainder
          \/ SendBuffered \/ RecvFinished \/ Respond \/ Responded

Arrivals == \E s \in Sockets, later \in BOOLEAN : Arrive(s, later)

Engine == /\ status = "up" /\ status' \in {"up"} \cup EngineEnds
          /\ Begin \/ GoOn

Next ==
  \/ \E s \in Sockets : Connect(s)
  \/ \E c \in Clients, s \in Sockets, n \in 1 .. MaxSeq : Send(c, s, n)
  \/ Arrivals
  \/ Engine
  \/ Server

Spec == Init /\ [][Next]_vars

-------------------------------------------------------------------------------
(* Properties.                                                                 *)

Requests  == [client : Clients, seq : 1 .. MaxSeq]
RecvTimeClientRequests == [recv_time : Nat, request : Requests, round : Nat]

\* The variables range over the values of their C++ types.
ServerTypeOK ==
  /\ status \in {"up", "too_many_pending", "no_socket", "missing_arguments",
                 "extra_arguments"} \cup EngineEnds
  /\ pc \in {"banner", "poll", "recv", "callback", "send", "respond"}
  /\ pending_client_requests_ \in Seq(RecvTimeClientRequests)
  /\ Len(pending_client_requests_) <= MaxPending
  /\ incoming \in Seq(RecvTimeClientRequests)
  /\ stream \in [Sockets -> Seq(Requests)]
  /\ receive_sockets_ \in Seq(Sockets) /\ waiting \in Seq(Sockets)
  /\ pc \in {"callback", "send"} => at \in 1 .. Len(receive_sockets_)
  /\ \A s \in Sockets : read[s] \in Nat /\ read[s] <= arrived[s]
  /\ cid_tcp_socket_ \in [Clients -> Sockets \cup {Null}]
  /\ cid_next_exp_seq_num_ \in [Clients -> Nat \ {0}]
  /\ cid_next_outgoing_seq_num_ \in [Clients -> Nat \ {0}]
  /\ cut \in [Sockets -> 0 .. Parts - 1]

\* recvCallback() never loses its place in a connection's stream, however the
\* requests are cut up on the way: what is left in the buffer between two visits
\* is the beginning of the stream's next request.
FramesWhole ==
  \A s \in Sockets :
    LET b == inbound_data_[s]
    IN  /\ \A k \in 1 .. Len(b) : b[k] = read[s] - Len(b) + k
        /\ (read[s] - Len(b)) % Parts = 0
        /\ pc # "callback" => Len(b) < Parts

\* All the requests that have been let through, in the order of the engine's
\* queue and then as they wait to be sequenced.
LetThrough == incoming \o pending_client_requests_

\* Each request a client sends in sequence on its socket is let through once, and
\* nothing else is: a client's numbers are 1, 2, ... up to the one before the
\* expected one, without a gap or a repetition (order_server.h:64-90).
ExactlyOnceInSequence ==
  \A c \in Clients :
    LET own == {i \in 1 .. Len(LetThrough) : LetThrough[i].request.client = c}
    IN  status = "up" =>
        /\ \A n \in 1 .. cid_next_exp_seq_num_[c] - 1 :
             \E i \in own : /\ LetThrough[i].request.seq = n
                            /\ \A j \in own \ {i} : LetThrough[j].request.seq # n
        /\ \A i \in own : LetThrough[i].request.seq < cid_next_exp_seq_num_[c]

\* The i-th and the j-th request of the engine's queue are of one client, in the
\* wrong order.
Swapped(i, j) ==
  /\ i < j /\ incoming[i].request.client = incoming[j].request.client
  /\ incoming[i].request.seq >= incoming[j].request.seq

\* The engine gets a client's requests in the order the client sent them.
ClientFIFO == \A i, j \in 1 .. Len(incoming) : ~Swapped(i, j)

\* No more requests are sequenced together than std::sort keeps the order of.
ShortPasses == Len(pending_client_requests_) <= SortLimit

\* Requests of one client change places only when they were received at one time,
\* and stand among more than SortLimit requests of one pass (fifo_sequencer.h:36).
SwappedInLongPassesOnly ==
  \A i, j \in 1 .. Len(incoming) : Swapped(i, j) =>
    /\ incoming[i].recv_time = incoming[j].recv_time
    /\ \E a \in 1 .. i, b \in j .. Len(incoming) :
         /\ b - a >= SortLimit
         /\ \A k \in a .. b : incoming[k].round = incoming[i].round

\* A request is overtaken by one that was received later only if that one was
\* read in an earlier pass over the sockets (sequenceAndPublish()).
OvertakenByEarlierPassOnly ==
  \A i, j \in 1 .. Len(incoming) :
    i < j /\ incoming[i].recv_time > incoming[j].recv_time
      => incoming[i].round < incoming[j].round

\* The ASSERT of OrderServer::run() never fails: there is a socket for every
\* client the engine may answer, though it is found two threads away from where
\* the request was let through (order_server.h:38).
AnswersHaveSocket == status # "no_socket"

\* A client sees its responses in the order the engine wrote them, numbered as
\* the engine wrote them, and all on the socket it is heard on.  Some are missing
\* when ::send() has not taken all of the buffer, and frames are garbled when it
\* has stopped inside a response, never otherwise (tcp_socket.h:99-115).
ResponsesInOrder ==
  \A s \in Sockets : \A i \in 1 .. Len(received[s]) :
    IF received[s][i] = Garbled
    THEN ~SendsAll
    ELSE LET x == received[s][i].response
         IN  /\ received[s][i].seq = x.number /\ cid_tcp_socket_[x.client] = s
             /\ \A j \in 1 .. i - 1 :
                  LET y == received[s][j].response
                  IN  received[s][j] # Garbled /\ y.client = x.client
                        => y.number < x.number
===============================================================================
