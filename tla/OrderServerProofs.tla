-------------------------- MODULE OrderServerProofs --------------------------
(***************************************************************************)
(* Proofs about OrderServer, for any clients, connections, number of parts *)
(* of a request, and any bound on what is sent and on what a pass may keep.*)
(***************************************************************************)
EXTENDS OrderServer, FiniteSetTheorems, SequenceTheorems, TLAPS

-------------------------------------------------------------------------------
(* Arithmetic of the frames.                                                   *)

LEMMA PartsArithmetic ==
  ASSUME NEW m \in Nat, NEW n \in Nat
  PROVE  /\ Parts * m \in Nat /\ Parts * (m + n) = Parts * m + Parts * n
         /\ (Parts * m) % Parts = 0 /\ (Parts * m) \div Parts = m
         /\ Parts * m + Parts <= Parts * n => m + 1 <= n
BY ServerConstants

LEMMA DivBound ==
  ASSUME NEW d \in Nat \ {0}, NEW m \in Nat, NEW n \in Nat, m <= d * n
  PROVE  m \div d <= n
OBVIOUS

-------------------------------------------------------------------------------
(* Types, and the frames in the buffers.                                       *)

Responses == [client : Clients, number : Nat]
Messages  == [seq : Nat \ {0}, response : Responses]

NetTypes ==
  /\ stream \in [Sockets -> Seq(Requests)]
  /\ arrived \in [Sockets -> Nat] /\ stamp \in [Sockets -> Nat] /\ clock \in Nat
  /\ waiting \in Seq(Sockets)

LoopTypes ==
  /\ pc \in {"banner", "poll", "recv", "callback", "send", "respond"}
  /\ status \in {"up", "too_many_pending", "no_socket", "missing_arguments",
                 "extra_arguments"} \cup EngineEnds
  /\ receive_sockets_ \in Seq(Sockets) /\ at \in Nat \ {0} /\ nth \in Nat
  /\ pc \in {"callback", "send"} => at \in 1 .. Len(receive_sockets_)

InTypes ==
  /\ read \in [Sockets -> Nat] /\ rx_time \in Nat
  /\ inbound_data_ \in [Sockets -> Seq(Nat)]

SequencerTypes ==
  /\ pending_client_requests_ \in Seq(RecvTimeClientRequests)
  /\ Len(pending_client_requests_) <= MaxPending
  /\ incoming \in Seq(RecvTimeClientRequests)
  /\ round \in Nat

ClientTypes ==
  /\ cid_tcp_socket_ \in [Clients -> Sockets \cup {Null}]
  /\ cid_next_exp_seq_num_ \in [Clients -> Nat \ {0}]
  /\ cid_next_outgoing_seq_num_ \in [Clients -> Nat \ {0}]

OutTypes ==
  /\ processed \in Nat /\ processed <= Len(incoming)
  /\ answers \in [Clients -> Nat]
  /\ outgoing_responses_ \in Seq(Responses)
  /\ outbound_data_ \in [Sockets -> Seq(Messages)]
  /\ received \in [Sockets -> Seq(Messages \cup {Garbled})]
  /\ cut \in [Sockets -> 0 .. Parts - 1]

\* What is in the buffer of s is the last part of what was read of its stream, and
\* begins with a request.
Frame(s) ==
  /\ arrived[s] <= Parts * Len(stream[s]) /\ read[s] <= arrived[s]
  /\ Len(inbound_data_[s]) <= read[s]
  /\ \A k \in 1 .. Len(inbound_data_[s]) :
       inbound_data_[s][k] = read[s] - Len(inbound_data_[s]) + k
  /\ \E q \in Nat : read[s] = Len(inbound_data_[s]) + Parts * q
  /\ (pc = "callback" /\ s = Visited) \/ Len(inbound_data_[s]) < Parts

Frames ==
  /\ \A s \in Sockets : Frame(s)
  /\ pc = "callback" => Parts * nth <= Len(inbound_data_[Visited])

TypeInv ==
  /\ NetTypes /\ LoopTypes /\ InTypes /\ SequencerTypes /\ ClientTypes /\ OutTypes
  /\ Frames

LEMMA InitTypes == Init => TypeInv
<1> SUFFICES ASSUME Init
             PROVE  TypeInv
  OBVIOUS
<1> USE ServerConstants, SequencerConstants DEF Init, SequencerInit
<1>1. NetTypes /\ LoopTypes /\ InTypes /\ SequencerTypes /\ ClientTypes /\ OutTypes
  BY DEF NetTypes, LoopTypes, InTypes, SequencerTypes, ClientTypes, OutTypes
<1>2. \A s \in Sockets : Frame(s)
  <2> SUFFICES ASSUME NEW s \in Sockets
               PROVE  Frame(s)
    OBVIOUS
  <2>1. read[s] = Len(inbound_data_[s]) + Parts * 0
    OBVIOUS
  <2> QED
    BY <2>1 DEF Frame
<1> QED
  BY <1>1, <1>2 DEF TypeInv, Frames

\* The request in the buffer is a request of the stream.
LEMMA RequestInStream ==
  ASSUME TypeInv, At("callback"), Whole(Visited)
  PROVE  /\ Visited \in Sockets /\ Request(Visited) \in Requests
         /\ \E k \in 1 .. Len(stream[Visited]) : Request(Visited) = stream[Visited][k]
<1> DEFINE s == Visited
           l == Len(inbound_data_[s])
<1>1. s \in Sockets
  BY DEF TypeInv, LoopTypes, At, Visited
<1>2. PICK q \in Nat : read[s] = l + Parts * q
  BY <1>1 DEF TypeInv, Frames, Frame
<1>3. nth \in Nat /\ l \in Nat /\ Parts \in Nat \ {0}
  BY <1>1, ServerConstants DEF TypeInv, LoopTypes, InTypes
<1>4. Parts * nth + Parts <= l
  BY <1>3, PartsArithmetic DEF Whole
<1>5. inbound_data_[s][Parts * nth + 1] = read[s] - l + Parts * nth + 1
  <2>1. Parts * nth + 1 \in 1 .. l
    BY <1>3, <1>4, PartsArithmetic
  <2>2. \A k \in 1 .. l : inbound_data_[s][k] = read[s] - l + k
    BY <1>1 DEF TypeInv, Frames, Frame
  <2>3. read[s] \in Nat /\ Parts * nth \in Nat
    BY <1>1, <1>3, PartsArithmetic DEF TypeInv, InTypes
  <2> QED
    BY <2>1, <2>2, <2>3, <1>3
<1>6. PICK m \in Nat : m = q + nth
  BY <1>3
<1>7. Parts * m = Parts * q + Parts * nth
  BY <1>3, <1>6, PartsArithmetic
<1>8. Parts * m + Parts <= Parts * Len(stream[s])
  <2>1. read[s] <= arrived[s] /\ arrived[s] <= Parts * Len(stream[s])
    BY <1>1 DEF TypeInv, Frames, Frame
  <2>2. read[s] \in Nat /\ arrived[s] \in Nat /\ Len(stream[s]) \in Nat
    BY <1>1 DEF TypeInv, NetTypes, InTypes
  <2>3. Parts * m \in Nat /\ Parts * q \in Nat /\ Parts * nth \in Nat
        /\ Parts * Len(stream[s]) \in Nat
    BY <1>3, <2>2, PartsArithmetic
  <2>4. PICK x \in Nat, y \in Nat, z \in Nat, w \in Nat :
          x = Parts * m /\ y = Parts * q /\ z = Parts * nth /\ w = Parts * Len(stream[s])
    BY <2>3
  <2>5. x + Parts <= w
    <3>1. x = y + z
      BY <1>7, <2>4
    <3>2. z + Parts <= l /\ read[s] = l + y /\ read[s] <= arrived[s] /\ arrived[s] <= w
      BY <1>2, <1>4, <2>1, <2>4
    <3>3. PICK r \in Nat, a \in Nat : r = read[s] /\ a = arrived[s]
      BY <2>2
    <3>4. l \in Nat /\ Parts \in Nat
      BY <1>3, ServerConstants
    <3>5. z + Parts <= l /\ r = l + y /\ r <= a /\ a <= w
      BY <3>2, <3>3
    <3> HIDE DEF l
    <3> QED
      BY <3>1, <3>4, <3>5
  <2> QED
    BY <2>4, <2>5
<1>9. m + 1 \in 1 .. Len(stream[s])
  BY <1>1, <1>8, PartsArithmetic DEF TypeInv, NetTypes
<1>10. Request(s) = stream[s][m + 1]
  <2>1. inbound_data_[s][Parts * nth + 1] - 1 = Parts * m
    BY <1>2, <1>3, <1>5, <1>7, PartsArithmetic
  <2> QED
    BY <2>1, PartsArithmetic DEF Request
<1> QED
  BY <1>1, <1>9, <1>10 DEF TypeInv, NetTypes

-------------------------------------------------------------------------------
(* One lemma for each action.                                                  *)

LEMMA ConnectTypes ==
  ASSUME TypeInv, NEW s \in Sockets, Connect(s)
  PROVE  TypeInv'
<1> USE DEF Connect, engineVars, cidVars, outVars, loopVars, inVars, sequencerVars, TypeInv
<1>1. NetTypes'
  BY DEF NetTypes
<1>2. LoopTypes' /\ InTypes' /\ SequencerTypes' /\ ClientTypes' /\ OutTypes'
  BY DEF LoopTypes, InTypes, SequencerTypes, ClientTypes, OutTypes
<1>3. Frames'
  BY DEF Frames, Frame, Visited
<1> QED
  BY <1>1, <1>2, <1>3

LEMMA SendTypes ==
  ASSUME TypeInv, NEW c \in Clients, NEW s \in Sockets, NEW n \in 1 .. MaxSeq, Send(c, s, n)
  PROVE  TypeInv'
<1> USE DEF Send, engineVars, cidVars, outVars, loopVars, inVars, sequencerVars, TypeInv
<1>0. [client |-> c, seq |-> n] \in Requests
  BY DEF Requests
<1>1. NetTypes'
  BY <1>0 DEF NetTypes
<1>2. LoopTypes' /\ InTypes' /\ SequencerTypes' /\ ClientTypes' /\ OutTypes'
  BY DEF LoopTypes, InTypes, SequencerTypes, ClientTypes, OutTypes
<1>3. ASSUME NEW u \in Sockets
      PROVE  Frame(u)'
  <2>1. Len(stream[u]) \in Nat /\ Len(stream'[u]) \in {Len(stream[u]), Len(stream[u]) + 1}
    BY DEF NetTypes, Requests
  <2>2. arrived[u] <= Parts * Len(stream'[u])
    <3>1. arrived[u] <= Parts * Len(stream[u]) /\ arrived[u] \in Nat
      BY DEF Frames, Frame, NetTypes
    <3>2. Parts * Len(stream'[u]) \in {Parts * Len(stream[u]), Parts * Len(stream[u]) + Parts * 1}
      BY <2>1, PartsArithmetic
    <3> QED
      BY <2>1, <3>1, <3>2, PartsArithmetic, ServerConstants
  <2> QED
    BY <2>2 DEF Frames, Frame, Visited
<1> QED
  BY <1>1, <1>2, <1>3 DEF Frames, Visited

LEMMA ArriveTypes ==
  ASSUME TypeInv, NEW s \in Sockets, NEW later \in BOOLEAN, Arrive(s, later)
  PROVE  TypeInv'
<1> USE DEF Arrive, engineVars, cidVars, outVars, loopVars, inVars, sequencerVars, TypeInv
<1>1. NetTypes'
  BY DEF NetTypes
<1>2. LoopTypes' /\ InTypes' /\ SequencerTypes' /\ ClientTypes' /\ OutTypes'
  BY DEF LoopTypes, InTypes, SequencerTypes, ClientTypes, OutTypes
<1>3. ASSUME NEW u \in Sockets
      PROVE  Frame(u)'
  <2>1. arrived[u] <= arrived'[u] /\ arrived'[u] <= Parts * Len(stream[u])
    <3>1. arrived[u] \in Nat /\ arrived[u] <= Parts * Len(stream[u]) /\ Parts * Len(stream[u]) \in Nat
      BY PartsArithmetic DEF Frames, Frame, NetTypes
    <3>2. CASE u = s
      BY <3>1, <3>2 DEF NetTypes
    <3>3. CASE u # s
      BY <3>1, <3>3 DEF NetTypes
    <3> QED
      BY <3>2, <3>3
  <2>2. read[u] \in Nat /\ arrived[u] \in Nat /\ arrived'[u] \in Nat /\ read[u] <= arrived[u]
    BY <1>1 DEF Frames, Frame, NetTypes, InTypes
  <2> QED
    BY <2>1, <2>2 DEF Frames, Frame, Visited
<1> QED
  BY <1>1, <1>2, <1>3 DEF Frames, Visited

\* What a step of the engine does: it answers none, one or two of the clients whose
\* requests it has got.
LEMMA EngineStep ==
  ASSUME SequencerTypes, processed \in Nat, Engine
  PROVE  \E taken \in 0 .. 1, c, d \in Clients \cup {Null} :
           /\ Process(taken, c, d)
           /\ \A x \in {c, d} \ {Null} :
                \E k \in 1 .. Len(incoming) : incoming[k].request.client = x
<1>1. ASSUME NEW i \in 1 .. Len(incoming)
      PROVE  Sender(i) \in Clients
  <2>1. incoming[i] \in RecvTimeClientRequests
    BY <1>1 DEF SequencerTypes
  <2> QED
    BY <2>1 DEF RecvTimeClientRequests, Requests, Sender
<1>2. CASE Begin
  <2>1. PICK c \in {Sender(processed + 1), Null} : Process(1, c, Null)
    BY <1>2 DEF Begin
  <2>2. processed + 1 \in 1 .. Len(incoming)
    BY <1>2 DEF Begin, SequencerTypes
  <2> QED
    BY <1>1, <2>1, <2>2 DEF Sender
<1>3. CASE GoOn
  <2>1. PICK fill \in {<<Null, Null>>} \cup
               {<<Sender(processed), Sender(i)>> : i \in 1 .. processed} :
          Process(0, fill[1], fill[2])
    BY <1>3 DEF GoOn
  <2>2. processed <= Len(incoming) /\ Len(incoming) \in Nat
    BY <2>1 DEF Process, sequencerVars, SequencerTypes
  <2>3. CASE fill = <<Null, Null>>
    BY <2>1, <2>3
  <2>4. ASSUME NEW i \in 1 .. processed, fill = <<Sender(processed), Sender(i)>>
        PROVE  \E taken \in 0 .. 1, c, d \in Clients \cup {Null} :
                 /\ Process(taken, c, d)
                 /\ \A x \in {c, d} \ {Null} :
                      \E k \in 1 .. Len(incoming) : incoming[k].request.client = x
    <3>1. processed \in 1 .. Len(incoming) /\ i \in 1 .. Len(incoming)
      BY <2>2
    <3>2. Process(0, Sender(processed), Sender(i))
      BY <2>1, <2>4
    <3> QED
      BY <1>1, <3>1, <3>2 DEF Sender
  <2> QED
    BY <2>1, <2>3, <2>4
<1> QED
  BY <1>2, <1>3 DEF Engine

LEMMA ResponseTypes ==
  ASSUME NEW c \in Clients \cup {Null}, NEW a \in [Clients -> Nat]
  PROVE  /\ Told(c, a) \in [Clients -> Nat]
         /\ Response(c, a) \in Seq(Responses)
<1>1. CASE c = Null
  BY <1>1 DEF Told, Response
<1>2. CASE c \in Clients /\ c # Null
  <2>1. Told(c, a) \in [Clients -> Nat]
    BY <1>2 DEF Told
  <2>2. [client |-> c, number |-> Told(c, a)[c]] \in Responses
    BY <1>2, <2>1 DEF Responses
  <2> QED
    BY <1>2, <2>1, <2>2 DEF Response
<1> QED
  BY <1>1, <1>2

LEMMA EngineTypes ==
  ASSUME TypeInv, Engine
  PROVE  TypeInv'
<1>1. PICK taken \in 0 .. 1, c \in Clients \cup {Null}, d \in Clients \cup {Null} :
        Process(taken, c, d)
  BY EngineStep DEF TypeInv, OutTypes
<1>2. /\ Told(c, answers) \in [Clients -> Nat] /\ Response(c, answers) \in Seq(Responses)
      /\ Told(d, Told(c, answers)) \in [Clients -> Nat]
      /\ Response(d, Told(c, answers)) \in Seq(Responses)
  BY ResponseTypes DEF TypeInv, OutTypes
<1>3. outgoing_responses_' \in Seq(Responses)
  <2>1. outgoing_responses_ \o Response(c, answers) \in Seq(Responses)
    BY <1>2 DEF TypeInv, OutTypes
  <2> QED
    BY <1>1, <1>2, <2>1 DEF Process
<1>4. UNCHANGED <<netVars, cidVars, outbound_data_, received, cut, loopVars, inVars,
                  sequencerVars, cid_next_outgoing_seq_num_>>
  BY <1>1 DEF Process
<1>5. OutTypes'
  <2>1. processed' \in Nat /\ processed' <= Len(incoming)
    BY <1>1 DEF Process, TypeInv, OutTypes, sequencerVars
  <2>2. answers' \in [Clients -> Nat]
    BY <1>1, <1>2 DEF Process
  <2> QED
    BY <1>3, <1>4, <2>1, <2>2 DEF TypeInv, OutTypes, sequencerVars
<1>6. LoopTypes'
  BY <1>4 DEF Engine, TypeInv, LoopTypes, loopVars
<1>7. NetTypes' /\ InTypes' /\ SequencerTypes' /\ ClientTypes' /\ Frames'
  BY <1>4 DEF TypeInv, NetTypes, InTypes, SequencerTypes, ClientTypes, Frames, Frame, Visited,
     netVars, cidVars, loopVars, inVars, sequencerVars
<1> QED
  BY <1>5, <1>6, <1>7 DEF TypeInv

LEMMA LogBannerTypes ==
  ASSUME TypeInv, LogBanner
  PROVE  TypeInv'
BY DEF LogBanner, log, At, netVars, engineVars, cidVars, outVars, inVars, sequencerVars, TypeInv,
   NetTypes, LoopTypes, InTypes, SequencerTypes, ClientTypes, OutTypes, Frames, Frame, Visited

LEMMA PollTypes ==
  ASSUME TypeInv, poll
  PROVE  TypeInv'
<1> USE DEF poll, At, engineVars, cidVars, outVars, inVars, sequencerVars, TypeInv
<1>1. NetTypes'
  BY DEF NetTypes
<1>2. LoopTypes'
  <2>1. receive_sockets_' \in Seq(Sockets)
    BY DEF LoopTypes, NetTypes
  <2> QED
    BY <2>1 DEF LoopTypes
<1>3. InTypes' /\ SequencerTypes' /\ ClientTypes' /\ OutTypes'
  BY DEF InTypes, SequencerTypes, ClientTypes, OutTypes
<1>4. Frames'
  BY DEF Frames, Frame, Visited
<1> QED
  BY <1>1, <1>2, <1>3, <1>4

LEMMA NewParts ==
  ASSUME NEW a \in Nat, NEW r \in Nat, a > r
  PROVE  LET new == [k \in 1 .. a - r |-> r + k]
         IN  /\ new \in Seq(Nat) /\ Len(new) = a - r
             /\ \A k \in 1 .. Len(new) : new[k] = r + k
<1>1. PICK n \in Nat : n = a - r
  OBVIOUS
<1>2. [k \in 1 .. n |-> r + k] \in [1 .. n -> Nat]
  OBVIOUS
<1>3. [k \in 1 .. n |-> r + k] \in Seq(Nat) /\ Len([k \in 1 .. n |-> r + k]) = n
  BY <1>2
<1> QED
  BY <1>1, <1>3

\* What recvmsg() gives is put behind what is in the buffer.
LEMMA ReceiveTypes ==
  ASSUME TypeInv, Receive
  PROVE  TypeInv'
<1> DEFINE s == Visited
<1> USE DEF Receive, At, netVars, engineVars, cidVars, outVars, inVars, sequencerVars, TypeInv
<1>1. s \in Sockets /\ at \in 1 .. Len(receive_sockets_)
  BY DEF LoopTypes, Visited
<1>2. CASE ~(arrived[s] > read[s])
  <2>1. /\ pc' = "send"
        /\ UNCHANGED <<netVars, engineVars, cidVars, outVars, receive_sockets_, at, nth,
                       status, sequencerVars, inVars>>
    BY <1>2
  <2> HIDE DEF Receive
  <2>2. LoopTypes'
    BY <1>1, <2>1 DEF LoopTypes
  <2>3. NetTypes' /\ InTypes' /\ SequencerTypes' /\ ClientTypes' /\ OutTypes'
    BY <2>1 DEF NetTypes, InTypes, SequencerTypes, ClientTypes, OutTypes
  <2>4. Frames'
    <3>1. pc = "recv" /\ pc' = "send"
      BY <2>1 DEF Receive
    <3> QED
      BY <2>1, <3>1 DEF Frames, Frame
  <2> QED
    BY <2>2, <2>3, <2>4
<1>3. CASE arrived[s] > read[s]
  <2> DEFINE new == [k \in 1 .. arrived[s] - read[s] |-> read[s] + k]
  <2>1. /\ inbound_data_' = [inbound_data_ EXCEPT ![s] = @ \o new]
        /\ read' = [read EXCEPT ![s] = arrived[s]]
        /\ rx_time' = stamp[s] /\ pc' = "callback" /\ nth' = 0
        /\ UNCHANGED <<netVars, engineVars, cidVars, outVars, receive_sockets_, at, status,
                       sequencerVars>>
    BY <1>3
  <2>2. /\ arrived[s] \in Nat /\ read[s] \in Nat /\ inbound_data_[s] \in Seq(Nat)
        /\ Frame(s)
    BY <1>1 DEF NetTypes, InTypes, Frames
  <2>3. new \in Seq(Nat) /\ Len(new) = arrived[s] - read[s]
        /\ \A k \in 1 .. Len(new) : new[k] = read[s] + k
    BY <1>3, <2>2, NewParts
  <2> HIDE DEF Receive, new
  <2>4. /\ inbound_data_[s] \o new \in Seq(Nat)
        /\ Len(inbound_data_[s] \o new) = Len(inbound_data_[s]) + Len(new)
        /\ \A k \in 1 .. Len(inbound_data_[s] \o new) :
              (inbound_data_[s] \o new)[k] =
                IF k <= Len(inbound_data_[s]) THEN inbound_data_[s][k]
                                              ELSE new[k - Len(inbound_data_[s])]
    <3>1. Len(inbound_data_[s]) \in Nat /\ Len(new) \in Nat
      BY <2>2, <2>3
    <3> DEFINE old == inbound_data_[s]
    <3>2. /\ old \o new \in Seq(Nat) /\ Len(old \o new) = Len(old) + Len(new)
          /\ \A k \in 1 .. Len(old) + Len(new) :
                (old \o new)[k] = IF k <= Len(old) THEN old[k] ELSE new[k - Len(old)]
      BY <2>2, <2>3, ConcatProperties
    <3> QED
      BY <3>2
  <2>5. NetTypes' /\ SequencerTypes' /\ ClientTypes' /\ OutTypes' /\ LoopTypes'
    BY <1>1, <2>1 DEF NetTypes, SequencerTypes, ClientTypes, OutTypes, LoopTypes
  <2>6. InTypes'
    BY <1>1, <2>1, <2>2, <2>4 DEF InTypes, NetTypes
  <2>7. Frame(s)'
    <3>1. inbound_data_'[s] = inbound_data_[s] \o new /\ read'[s] = arrived[s]
          /\ arrived'[s] = arrived[s] /\ stream'[s] = stream[s] /\ Visited' = s
      BY <1>1, <2>1 DEF InTypes, Visited
    <3>2. Len(inbound_data_[s]) \in Nat /\ Len(inbound_data_'[s]) = Len(inbound_data_[s]) + (arrived[s] - read[s])
      BY <2>2, <2>3, <2>4, <3>1
    <3>3. \A k \in 1 .. Len(inbound_data_'[s]) :
            inbound_data_'[s][k] = read'[s] - Len(inbound_data_'[s]) + k
      <4> DEFINE o == Len(inbound_data_[s])
                 r == read[s]
                 a == arrived[s]
                 b == inbound_data_[s]
                 e == inbound_data_'[s]
      <4>0. o \in Nat /\ r \in Nat /\ a \in Nat /\ r < a
        BY <1>3, <2>2, <3>2
      <4>1. /\ o = Len(inbound_data_[s]) /\ r = read[s] /\ a = arrived[s]
            /\ b = inbound_data_[s] /\ e = inbound_data_'[s]
        OBVIOUS
      <4> HIDE DEF o, r, a, b, e
      <4>2. Len(new) = a - r /\ Len(e) = o + (a - r) /\ read'[s] = a
        BY <4>0, <2>3, <3>1, <3>2, <4>1
      <4>3. \A k \in 1 .. o + (a - r) : e[k] = IF k <= o THEN b[k] ELSE new[k - o]
        BY <4>0, <2>4, <3>1, <4>1, <4>2
      <4>4. \A k \in 1 .. o : b[k] = r - o + k
        BY <4>0, <2>2, <4>1 DEF Frame
      <4>5. \A k \in 1 .. a - r : new[k] = r + k
        BY <4>0, <2>3, <4>1
      <4>6. ASSUME NEW k \in 1 .. o + (a - r)
            PROVE  e[k] = a - (o + (a - r)) + k
        <5>1. CASE k <= o
          BY <4>0, <4>3, <4>4, <5>1
        <5>2. CASE ~(k <= o)
          <6>1. k - o \in 1 .. a - r /\ r + (k - o) = a - (o + (a - r)) + k
            BY <4>0, <5>2
          <6> QED
            BY <4>0, <4>3, <4>5, <5>2, <6>1
        <5> QED
          BY <4>0, <5>1, <5>2
      <4> QED
        BY <4>0, <4>1, <4>2, <4>6
    <3>4. PICK q \in Nat : read[s] = Len(inbound_data_[s]) + Parts * q
      BY <2>2 DEF Frame
    <3>5. read'[s] = Len(inbound_data_'[s]) + Parts * q
      <4>1. PICK x \in Nat : x = Parts * q
        BY PartsArithmetic
      <4> QED
        BY <2>2, <3>1, <3>2, <3>4, <4>1
    <3>6. arrived'[s] <= Parts * Len(stream'[s])
      BY <2>2, <3>1 DEF Frame
    <3>7. read'[s] <= arrived'[s] /\ Len(inbound_data_'[s]) <= read'[s]
      BY <2>2, <3>1, <3>2 DEF Frame
    <3>8. pc' = "callback" /\ s = Visited'
      BY <2>1, <3>1
    <3> QED
      BY <3>3, <3>5, <3>6, <3>7, <3>8 DEF Frame
  <2>8. ASSUME NEW u \in Sockets, u # s
        PROVE  Frame(u)'
    BY <1>1, <2>1, <2>8 DEF Frames, Frame, InTypes
  <2>9. Parts * nth' <= Len(inbound_data_'[s])
    BY <1>1, <2>1, <2>6, ServerConstants DEF InTypes
  <2> QED
    BY <2>1, <2>5, <2>6, <2>7, <2>8, <2>9 DEF Frames, Visited
<1> QED
  BY <1>2, <1>3

LEMMA RecvRequestTypes ==
  ASSUME TypeInv, RecvRequest
  PROVE  TypeInv'
<1> DEFINE s == Visited
           r == Request(s)
           c == r.client
<1> USE DEF TypeInv
<1>1. s \in Sockets /\ r \in Requests /\ Whole(s) /\ c \in Clients
  BY RequestInStream DEF RecvRequest, Requests
<1>2. /\ At("callback") /\ nth' = nth + 1
      /\ UNCHANGED <<netVars, engineVars, outVars, pc, receive_sockets_, at, recv, inVars>>
      /\ cid_tcp_socket_' = [cid_tcp_socket_ EXCEPT ![c] = Owner(c, s)]
      /\ cid_next_exp_seq_num_' = [cid_next_exp_seq_num_ EXCEPT ![c] = @ + 1]
           \/ cid_next_exp_seq_num_' = [cid_next_exp_seq_num_ EXCEPT ![c] = @]
      /\ (~TooManyPending /\ addClientRequest(rx_time, r)) \/ UNCHANGED sequencerVars
      /\ status' \in {status, "too_many_pending"}
  BY DEF RecvRequest, Hear
<1> HIDE DEF r, c
<1>3. NetTypes' /\ InTypes' /\ LoopTypes'
  BY <1>2 DEF NetTypes, InTypes, LoopTypes, netVars, inVars
<1>4. SequencerTypes'
  <2>1. CASE UNCHANGED sequencerVars
    BY <2>1 DEF SequencerTypes, sequencerVars
  <2>2. CASE ~TooManyPending /\ addClientRequest(rx_time, r)
    <3>1. [recv_time |-> rx_time, request |-> r, round |-> round] \in RecvTimeClientRequests
      BY <1>1 DEF RecvTimeClientRequests, InTypes, SequencerTypes
    <3> QED
      BY <2>2, <3>1, SequencerConstants DEF SequencerTypes, TooManyPending, addClientRequest
  <2> QED
    BY <1>2, <2>1, <2>2
<1>5. ClientTypes'
  <2>1. Owner(c, s) \in Sockets
    BY <1>1 DEF Owner, ClientTypes
  <2> QED
    BY <1>1, <1>2, <2>1 DEF ClientTypes, outVars
<1>6. OutTypes'
  <2>1. incoming' = incoming
    BY <1>2 DEF addClientRequest, sequencerVars
  <2> QED
    BY <1>2, <2>1 DEF OutTypes, engineVars, outVars
<1>7. Frames'
  <2>1. Parts * nth' <= Len(inbound_data_'[s])
    BY <1>2 DEF Whole, RecvRequest, inVars
  <2> QED
    BY <1>2, <2>1 DEF Frames, Frame, netVars, inVars, At, Visited
<1> QED
  BY <1>3, <1>4, <1>5, <1>6, <1>7

\* What is left is the beginning of a request.
LEMMA RecvRemainderTypes ==
  ASSUME TypeInv, RecvRemainder
  PROVE  TypeInv'
<1> DEFINE s == Visited
           b == inbound_data_[s]
           rest == SubSeq(b, Parts * nth + 1, Len(b))
<1> USE DEF TypeInv
<1>1. s \in Sockets /\ at \in 1 .. Len(receive_sockets_) /\ b \in Seq(Nat)
  BY DEF LoopTypes, InTypes, Visited, RecvRemainder, At
<1>2. /\ At("callback") /\ ~Whole(s) /\ pc' = "send" /\ nth' = 0 /\ rx_time' = 0
      /\ inbound_data_' = [inbound_data_ EXCEPT ![s] = rest]
      /\ UNCHANGED <<netVars, engineVars, cidVars, outVars, receive_sockets_, at, recv,
                     read, status, sequencerVars>>
  BY DEF RecvRemainder
<1>3. PICK x \in Nat : x = Parts * nth /\ x <= Len(b) /\ Len(b) - x < Parts
  <2>1. nth \in Nat /\ Len(b) \in Nat /\ Parts * nth <= Len(b)
    BY <1>1, <1>2 DEF LoopTypes, Frames, At
  <2>2. Parts * (nth + 1) = Parts * nth + Parts /\ Parts * nth \in Nat
    BY <2>1, PartsArithmetic, ServerConstants
  <2>3. Len(b) < Parts * (nth + 1)
    BY <1>2, <2>1, <2>2, ServerConstants DEF Whole
  <2>4. PICK x \in Nat : x = Parts * nth
    BY <2>2
  <2>5. x <= Len(b) /\ Len(b) < x + Parts
    BY <2>1, <2>2, <2>3, <2>4
  <2> QED
    BY <2>1, <2>4, <2>5, ServerConstants
<1>4. /\ rest \in Seq(Nat) /\ Len(rest) = Len(b) - x
      /\ \A k \in 1 .. Len(rest) : rest[k] = b[k + x]
  <2>1. rest = SubSeq(b, x + 1, Len(b))
    BY <1>3
  <2>2. Len(b) \in Nat
    BY <1>1
  <2>3. x + 1 \in 1 .. Len(b) + 1 /\ Len(b) \in (x + 1) - 1 .. Len(b)
    BY <1>3, <2>2
  <2> HIDE DEF b, rest
  <2>4. /\ SubSeq(b, x + 1, Len(b)) \in Seq(Nat)
        /\ Len(SubSeq(b, x + 1, Len(b))) =
             IF x + 1 <= Len(b) THEN Len(b) - (x + 1) + 1 ELSE 0
        /\ \A i \in 1 .. Len(b) - (x + 1) + 1 :
             SubSeq(b, x + 1, Len(b))[i] = b[(x + 1) + i - 1]
    BY <1>1, <2>3, SubSeqProperties
  <2>5. Len(rest) = Len(b) - x
    BY <1>3, <2>1, <2>2, <2>4
  <2>6. PICK y \in Nat : y = Len(b) /\ x <= y
    BY <1>3, <2>2
  <2>7. ASSUME NEW k \in 1 .. y - x
        PROVE  rest[k] = b[k + x]
    <3>1. k \in 1 .. y - (x + 1) + 1 /\ (x + 1) + k - 1 = k + x
      BY <2>6
    <3> QED
      BY <2>1, <2>4, <2>6, <3>1
  <2> QED
    BY <2>1, <2>4, <2>5, <2>6, <2>7
<1> HIDE DEF rest
<1>8. \A k \in 1 .. Len(rest) : b[k + x] = read[s] - Len(rest) + k
  <2>1. \A i \in 1 .. Len(b) : b[i] = read[s] - Len(b) + i
    BY <1>1 DEF Frames, Frame
  <2>2. Len(b) \in Nat /\ read[s] \in Nat
    BY <1>1 DEF InTypes
  <2> HIDE DEF b, TypeInv
  <2>3. PICK n \in Nat : n = Len(b)
    BY <2>2
  <2>4. Len(rest) = n - x /\ x \in Nat /\ x <= n
    BY <1>3, <1>4, <2>3
  <2>5. \A k \in 1 .. n - x : k + x \in 1 .. n /\ read[s] - n + (k + x) = read[s] - (n - x) + k
    BY <2>2, <2>4
  <2>6. \A k \in 1 .. n - x : b[k + x] = read[s] - n + (k + x)
    BY <2>1, <2>3, <2>5
  <2> QED
    BY <2>4, <2>5, <2>6
<1>5. NetTypes' /\ LoopTypes' /\ SequencerTypes' /\ ClientTypes' /\ OutTypes'
  BY <1>1, <1>2 DEF NetTypes, LoopTypes, SequencerTypes, ClientTypes, OutTypes, netVars, cidVars,
     sequencerVars, engineVars, outVars
<1>6. InTypes'
  BY <1>1, <1>2, <1>4 DEF InTypes
<1>7. ASSUME NEW u \in Sockets
      PROVE  Frame(u)'
  <2>1. CASE u = s
    <3>1. inbound_data_'[s] = rest /\ UNCHANGED <<read, arrived, stream>>
      BY <1>1, <1>2 DEF InTypes, netVars
    <3>2. PICK q \in Nat : read[s] = Len(b) + Parts * q
      BY <1>1 DEF Frames, Frame
    <3>3. Parts * (q + nth) = Parts * q + x /\ q + nth \in Nat /\ Parts * q \in Nat
      <4>1. nth \in Nat
        BY DEF LoopTypes
      <4>2. q + nth \in Nat /\ Parts * (q + nth) = Parts * q + Parts * nth /\ Parts * q \in Nat
        BY <4>1, PartsArithmetic
      <4> QED
        BY <1>3, <4>2
    <3>4. read[s] = Len(rest) + Parts * (q + nth)
      <4> HIDE DEF b
      <4>1. PICK y \in Nat : y = Parts * q
        BY <3>3
      <4> QED
        BY <1>1, <1>3, <1>4, <3>2, <3>3, <4>1
    <3>5. \A k \in 1 .. Len(rest) : rest[k] = read[s] - Len(rest) + k
      BY <1>4, <1>8
    <3>6. /\ arrived[s] <= Parts * Len(stream[s]) /\ read[s] <= arrived[s]
          /\ Len(rest) <= read[s] /\ Len(rest) < Parts
      BY <1>1, <1>3, <1>4 DEF Frames, Frame, InTypes
    <3> QED
      BY <1>2, <2>1, <3>1, <3>3, <3>4, <3>5, <3>6 DEF Frame
  <2>2. CASE u # s
    BY <1>1, <1>2, <2>2 DEF Frames, Frame, InTypes, netVars, At, Visited
  <2> QED
    BY <2>1, <2>2
<1> QED
  BY <1>2, <1>5, <1>6, <1>7 DEF Frames

\* The frames a client completes, and where its stream stands behind them.
LEMMA FramesCompleted ==
  ASSUME TypeInv, NEW s \in Sockets, NEW n \in 0 .. Parts * Len(outbound_data_[s])
  PROVE  /\ n \in Nat
         /\ Completed(s, n) \in Seq(Messages \cup {Garbled})
         /\ (cut[s] + n) % Parts \in 0 .. Parts - 1
         /\ cut[s] # 0 => \A k \in 1 .. Len(Completed(s, n)) : Completed(s, n)[k] = Garbled
         /\ cut[s] = 0 =>
              /\ Len(Completed(s, n)) = n \div Parts
              /\ Len(Completed(s, n)) <= Len(outbound_data_[s])
              /\ \A k \in 1 .. Len(Completed(s, n)) : Completed(s, n)[k] = outbound_data_[s][k]
<1>1. PICK b \in Seq(Messages), l \in Nat : b = outbound_data_[s] /\ l = Len(b)
  BY DEF TypeInv, OutTypes
<1>2. Parts * l \in Nat /\ n \in 0 .. Parts * l
  BY <1>1, PartsArithmetic
<1>3. n \in Nat /\ cut[s] \in 0 .. Parts - 1
  BY <1>2 DEF TypeInv, OutTypes
<1>4. PICK m \in Nat : m = cut[s] + n
  BY <1>3, ServerConstants
<1>5. m % Parts \in 0 .. Parts - 1 /\ m \div Parts \in Nat
  BY ServerConstants
<1>6. PICK w \in Nat : w = m \div Parts
  BY <1>5
<1>7. cut[s] = 0 => w <= l
  <2>1. cut[s] = 0 => m <= Parts * l
    BY <1>2, <1>3, <1>4
  <2>2. m <= Parts * l => m \div Parts <= l
    BY <1>4, <1>1, ServerConstants, DivBound
  <2> QED
    BY <1>6, <2>1, <2>2
<1>8. Completed(s, n) = [k \in 1 .. w |-> IF cut[s] = 0 THEN b[k] ELSE Garbled]
  BY <1>1, <1>4, <1>6 DEF Completed
<1>9. \A k \in 1 .. w : (IF cut[s] = 0 THEN b[k] ELSE Garbled) \in Messages \cup {Garbled}
  <2>1. CASE cut[s] = 0
    <3>1. \A k \in 1 .. w : k \in 1 .. l
      BY <1>7, <2>1
    <3> QED
      BY <1>1, <2>1, <3>1
  <2>2. CASE cut[s] # 0
    BY <2>2
  <2> QED
    BY <2>1, <2>2
<1>10. Completed(s, n) \in Seq(Messages \cup {Garbled}) /\ Len(Completed(s, n)) = w
  <2>1. Completed(s, n) \in [1 .. w -> Messages \cup {Garbled}]
    BY <1>8, <1>9
  <2> QED
    BY <2>1
<1>11. \A k \in 1 .. w : Completed(s, n)[k] = IF cut[s] = 0 THEN b[k] ELSE Garbled
  BY <1>8
<1>12. cut[s] = 0 => m = n
  BY <1>3, <1>4
<1> QED
  BY <1>1, <1>3, <1>4, <1>5, <1>6, <1>7, <1>10, <1>11, <1>12

LEMMA SendBufferedTypes ==
  ASSUME TypeInv, SendBuffered
  PROVE  TypeInv'
<1> DEFINE s == Visited
           b == outbound_data_[s]
<1> USE DEF TypeInv
<1>1. /\ s \in Sockets /\ b \in Seq(Messages) /\ pc = "send"
      /\ received[s] \in Seq(Messages \cup {Garbled})
  BY DEF LoopTypes, OutTypes, Visited, SendBuffered, At
<1>2. PICK n \in 0 .. Parts * Len(b) : Taken(s, n)
  BY DEF SendBuffered
<1>3. /\ outbound_data_' = [outbound_data_ EXCEPT ![s] = <<>>]
      /\ at' = at + 1 /\ pc' = "recv"
      /\ UNCHANGED <<netVars, engineVars, cidVars, cid_next_outgoing_seq_num_,
                     outgoing_responses_, receive_sockets_, recv, nth, inVars, status,
                     sequencerVars>>
  BY DEF SendBuffered
<1>4. /\ Completed(s, n) \in Seq(Messages \cup {Garbled})
      /\ (cut[s] + n) % Parts \in 0 .. Parts - 1
  BY <1>1, FramesCompleted
<1>5. OutTypes'
  <2>1. received' = [received EXCEPT ![s] = @ \o Completed(s, n)]
        /\ cut' = [cut EXCEPT ![s] = (@ + n) % Parts]
    BY <1>2 DEF Taken
  <2>2. received[s] \o Completed(s, n) \in Seq(Messages \cup {Garbled})
    BY <1>1, <1>4
  <2> HIDE DEF s
  <2>3. received' \in [Sockets -> Seq(Messages \cup {Garbled})]
    BY <1>1, <2>1, <2>2 DEF OutTypes
  <2>4. cut' \in [Sockets -> 0 .. Parts - 1]
    BY <1>1, <1>4, <2>1 DEF OutTypes
  <2>5. outbound_data_' \in [Sockets -> Seq(Messages)]
    BY <1>1, <1>3 DEF OutTypes
  <2>6. UNCHANGED <<processed, answers, outgoing_responses_, incoming>>
    BY <1>3 DEF engineVars, sequencerVars
  <2> QED
    BY <2>3, <2>4, <2>5, <2>6 DEF OutTypes
<1>6. NetTypes' /\ LoopTypes' /\ InTypes' /\ SequencerTypes' /\ ClientTypes'
  BY <1>3 DEF NetTypes, LoopTypes, InTypes, SequencerTypes, ClientTypes, netVars, inVars,
     cidVars, sequencerVars
<1>7. Frames'
  BY <1>1, <1>3 DEF Frames, Frame, netVars, inVars, Visited
<1> QED
  BY <1>5, <1>6, <1>7

\* The requests that are published, in the order the sort gives them.
Sorted(f) == [i \in 1 .. Len(pending_client_requests_) |-> pending_client_requests_[f[i]]]

LEMMA SortedTypes ==
  ASSUME SequencerTypes, NEW f \in Sort(pending_client_requests_)
  PROVE  /\ Sorted(f) \in Seq(RecvTimeClientRequests)
         /\ Len(Sorted(f)) = Len(pending_client_requests_)
         /\ \A i \in 1 .. Len(pending_client_requests_) :
              /\ f[i] \in 1 .. Len(pending_client_requests_)
              /\ Sorted(f)[i] = pending_client_requests_[f[i]]
         /\ incoming \o Sorted(f) \in Seq(RecvTimeClientRequests)
         /\ Len(incoming \o Sorted(f)) = Len(incoming) + Len(pending_client_requests_)
         /\ \A i \in 1 .. Len(incoming) + Len(pending_client_requests_) :
              (incoming \o Sorted(f))[i] =
                IF i <= Len(incoming) THEN incoming[i] ELSE Sorted(f)[i - Len(incoming)]
<1>1. PICK n \in Nat : n = Len(pending_client_requests_)
  BY DEF SequencerTypes
<1>2. f \in [1 .. n -> 1 .. n]
  BY <1>1 DEF Sort
<1>3. Sorted(f) \in [1 .. n -> RecvTimeClientRequests]
  BY <1>1, <1>2 DEF Sorted, SequencerTypes
<1>4. Sorted(f) \in Seq(RecvTimeClientRequests) /\ Len(Sorted(f)) = n
  BY <1>3
<1>5. \A i \in 1 .. n : f[i] \in 1 .. n /\ Sorted(f)[i] = pending_client_requests_[f[i]]
  BY <1>1, <1>2 DEF Sorted
<1>6. incoming \in Seq(RecvTimeClientRequests)
  BY DEF SequencerTypes
<1>7. /\ incoming \o Sorted(f) \in Seq(RecvTimeClientRequests)
      /\ Len(incoming \o Sorted(f)) = Len(incoming) + Len(Sorted(f))
      /\ \A i \in 1 .. Len(incoming) + Len(Sorted(f)) :
           (incoming \o Sorted(f))[i] =
             IF i <= Len(incoming) THEN incoming[i] ELSE Sorted(f)[i - Len(incoming)]
  BY <1>4, <1>6, ConcatProperties
<1> QED
  BY <1>1, <1>4, <1>5, <1>7

LEMMA RecvFinishedTypes ==
  ASSUME TypeInv, RecvFinished
  PROVE  TypeInv'
<1> USE DEF TypeInv
<1>1. /\ pc = "recv" /\ pc' = "respond"
      /\ sequenceAndPublish \/ UNCHANGED sequencerVars
      /\ at' = 1
      /\ UNCHANGED <<netVars, engineVars, cidVars, outVars, receive_sockets_, nth, inVars,
                     status>>
  BY DEF RecvFinished, At
<1>2. SequencerTypes' /\ Len(incoming) <= Len(incoming')
  <2>1. CASE UNCHANGED sequencerVars
    BY <2>1 DEF SequencerTypes, sequencerVars
  <2>2. CASE sequenceAndPublish
    <3>1. PICK f \in Sort(pending_client_requests_) : incoming' = incoming \o Sorted(f)
      BY <2>2 DEF sequenceAndPublish, Sorted
    <3>2. pending_client_requests_' = <<>> /\ round' = round + 1
      BY <2>2 DEF sequenceAndPublish
    <3>3. /\ Len(pending_client_requests_) \in Nat /\ Len(incoming) \in Nat
          /\ round \in Nat
      BY DEF SequencerTypes
    <3> QED
      BY <3>1, <3>2, <3>3, SortedTypes, SequencerConstants DEF SequencerTypes
  <2> QED
    BY <1>1, <2>1, <2>2
<1>3. NetTypes' /\ LoopTypes' /\ InTypes' /\ ClientTypes'
  BY <1>1 DEF NetTypes, LoopTypes, InTypes, ClientTypes, netVars, inVars, cidVars, outVars
<1>4. OutTypes'
  <2>1. Len(incoming) \in Nat /\ Len(incoming') \in Nat /\ processed \in Nat
        /\ processed <= Len(incoming)
    BY <1>2 DEF SequencerTypes, OutTypes
  <2> QED
    BY <1>1, <1>2, <2>1 DEF OutTypes, engineVars, outVars
<1>5. Frames'
  BY <1>1 DEF Frames, Frame, netVars, inVars
<1> QED
  BY <1>2, <1>3, <1>4, <1>5

LEMMA RespondTypes ==
  ASSUME TypeInv, Respond
  PROVE  TypeInv'
<1> DEFINE x == Head(outgoing_responses_)
           c == x.client
           s == cid_tcp_socket_[c]
           m == [seq |-> cid_next_outgoing_seq_num_[c], response |-> x]
<1> USE DEF TypeInv
<1>1. x \in Responses /\ c \in Clients /\ Tail(outgoing_responses_) \in Seq(Responses)
  <2>1. outgoing_responses_ \in Seq(Responses) /\ outgoing_responses_ # <<>>
    BY DEF Respond, OutTypes
  <2>2. x \in Responses /\ Tail(outgoing_responses_) \in Seq(Responses)
    BY <2>1
  <2> QED
    BY <2>2 DEF Responses
<1>2. UNCHANGED <<netVars, engineVars, cidVars, loopVars, inVars, sequencerVars>>
  BY DEF Respond
<1>3. NetTypes' /\ InTypes' /\ SequencerTypes' /\ Frames'
  BY <1>2 DEF NetTypes, InTypes, SequencerTypes, Frames, Frame, netVars, loopVars, inVars,
     sequencerVars, Visited
<1>4. CASE s = Null
  <2>1. status' = "no_socket" /\ UNCHANGED outVars
    BY <1>4 DEF Respond
  <2> HIDE DEF x
  <2> QED
    BY <1>2, <1>3, <2>1 DEF LoopTypes, ClientTypes, OutTypes, engineVars, cidVars, loopVars,
       outVars, sequencerVars
<1>5. CASE s # Null
  <2>1. /\ outbound_data_' = [outbound_data_ EXCEPT ![s] = Append(@, m)]
        /\ cid_next_outgoing_seq_num_' = [cid_next_outgoing_seq_num_ EXCEPT ![c] = @ + 1]
        /\ outgoing_responses_' = Tail(outgoing_responses_)
        /\ UNCHANGED <<received, cut, status>>
    BY <1>5 DEF Respond, send
  <2>2. s \in Sockets /\ m \in Messages
    BY <1>1, <1>5 DEF ClientTypes, Messages
  <2> HIDE DEF x, s, m
  <2>3. LoopTypes' /\ ClientTypes'
    BY <1>1, <1>2, <2>1 DEF LoopTypes, ClientTypes, loopVars, cidVars
  <2>4. OutTypes'
    BY <1>1, <1>2, <2>1, <2>2 DEF OutTypes, engineVars, sequencerVars
  <2> QED
    BY <1>3, <2>3, <2>4
<1> QED
  BY <1>4, <1>5

LEMMA RespondedTypes ==
  ASSUME TypeInv, Responded
  PROVE  TypeInv'
BY DEF Responded, At, netVars, engineVars, cidVars, outVars, inVars, sequencerVars, TypeInv,
   NetTypes, LoopTypes, InTypes, SequencerTypes, ClientTypes, OutTypes, Frames, Frame

LEMMA StepTypes == TypeInv /\ [Next]_vars => TypeInv'
<1>1. ASSUME TypeInv, UNCHANGED vars
      PROVE  TypeInv'
  BY <1>1 DEF vars, netVars, engineVars, cidVars, outVars, loopVars, inVars, sequencerVars,
     TypeInv, NetTypes, LoopTypes, InTypes, SequencerTypes, ClientTypes, OutTypes, Frames,
     Frame, Visited
<1>2. ASSUME TypeInv, Server
      PROVE  TypeInv'
  BY <1>2, LogBannerTypes, PollTypes, ReceiveTypes, RecvRequestTypes, RecvRemainderTypes,
     SendBufferedTypes, RecvFinishedTypes, RespondTypes, RespondedTypes DEF Server
<1> QED
  BY <1>1, <1>2, ConnectTypes, SendTypes, ArriveTypes, EngineTypes DEF Next, Arrivals

LEMMA AlwaysTypes == Spec => []TypeInv
BY InitTypes, StepTypes, PTL DEF Spec

\* The variables keep the values of their C++ types: no index runs over
\* pending_client_requests_ and no socket is looked for behind receive_sockets_.
THEOREM TypeCorrect == Spec => []ServerTypeOK
<1>1. TypeInv => ServerTypeOK
  <2>1. TypeInv => cut \in [Sockets -> 0 .. Parts - 1]
    BY DEF TypeInv, OutTypes
  <2> QED
    BY <2>1 DEF TypeInv, NetTypes, LoopTypes, InTypes, SequencerTypes, ClientTypes, Frames,
       Frame, ServerTypeOK
<1> QED
  BY <1>1, AlwaysTypes, PTL

\* However the requests of a connection are cut up on the way, recvCallback() finds
\* their beginnings (order_server.h:48-96).
THEOREM FramesAreFound == Spec => []FramesWhole
<1>1. ASSUME TypeInv, NEW s \in Sockets
      PROVE  /\ \A k \in 1 .. Len(inbound_data_[s]) :
                  inbound_data_[s][k] = read[s] - Len(inbound_data_[s]) + k
             /\ (read[s] - Len(inbound_data_[s])) % Parts = 0
             /\ pc # "callback" => Len(inbound_data_[s]) < Parts
  <2>1. PICK q \in Nat : read[s] = Len(inbound_data_[s]) + Parts * q
    BY <1>1 DEF TypeInv, Frames, Frame
  <2>2. read[s] - Len(inbound_data_[s]) = Parts * q
    <3>1. read[s] \in Nat /\ Len(inbound_data_[s]) \in Nat
      BY <1>1 DEF TypeInv, InTypes
    <3>2. PICK y \in Nat : y = Parts * q
      BY PartsArithmetic
    <3> QED
      BY <2>1, <3>1, <3>2
  <2> QED
    BY <1>1, <2>2, PartsArithmetic DEF TypeInv, Frames, Frame
<1>2. TypeInv => FramesWhole
  BY <1>1 DEF FramesWhole
<1> QED
  BY <1>2, AlwaysTypes, PTL

-------------------------------------------------------------------------------
(* The steps that let requests through, and what the others leave alone.       *)

requestVars == <<sequencerVars, cidVars>>

LEMMA OtherSteps ==
  ASSUME [Next]_vars, ~RecvRequest, ~RecvFinished
  PROVE  UNCHANGED requestVars
BY DEF Next, Server, Arrivals, Engine, Begin, GoOn, vars, netVars, loopVars, inVars, outVars,
   engineVars, cidVars, sequencerVars, requestVars, Connect, Send, Arrive, Process, LogBanner, poll, Receive,
   RecvRemainder, SendBuffered, Respond, Responded

\* The request r of client c is let through, or it is not.
LetIn(c, r) ==
  /\ r.seq = cid_next_exp_seq_num_[c] /\ cid_tcp_socket_'[c] = Visited
  /\ cid_next_exp_seq_num_'[c] = cid_next_exp_seq_num_[c] + 1
  /\ Len(pending_client_requests_') = Len(pending_client_requests_) + 1
  /\ \A i \in 1 .. Len(pending_client_requests_) :
       pending_client_requests_'[i] = pending_client_requests_[i]
  /\ pending_client_requests_'[Len(pending_client_requests_) + 1] =
       [recv_time |-> rx_time, request |-> r, round |-> round]

LEMMA RecvRequestStep ==
  ASSUME TypeInv, RecvRequest
  PROVE  /\ pc = "callback" /\ Visited \in Sockets
         /\ UNCHANGED <<incoming, round, netVars, engineVars, outVars, pc, receive_sockets_, at,
                        inVars>>
         /\ \E c \in Clients, r \in Requests :
              /\ r.client = c
              /\ cid_tcp_socket_'[c] # Null
              /\ \A d \in Clients :
                   /\ cid_tcp_socket_[d] # Null => cid_tcp_socket_'[d] = cid_tcp_socket_[d]
                   /\ cid_next_exp_seq_num_'[d] \in
                        {cid_next_exp_seq_num_[d], cid_next_exp_seq_num_[d] + 1}
              /\ LetIn(c, r) \/ UNCHANGED pending_client_requests_
<1> DEFINE s == Visited
           r == Request(s)
           c == r.client
<1> USE DEF TypeInv
<1>1. s \in Sockets /\ r \in Requests /\ Whole(s) /\ c \in Clients /\ pc = "callback"
  BY RequestInStream DEF RecvRequest, Requests, At
<1>2. /\ UNCHANGED <<netVars, engineVars, outVars, pc, receive_sockets_, at, inVars>>
      /\ cid_tcp_socket_' = [cid_tcp_socket_ EXCEPT ![c] = Owner(c, s)]
      /\ \/ /\ Owner(c, s) = s /\ InSequence(c, r.seq)
            /\ cid_next_exp_seq_num_' = [cid_next_exp_seq_num_ EXCEPT ![c] = @ + 1]
            /\ ~TooManyPending /\ addClientRequest(rx_time, r)
         \/ /\ \/ cid_next_exp_seq_num_' = [cid_next_exp_seq_num_ EXCEPT ![c] = @ + 1]
               \/ cid_next_exp_seq_num_' = [cid_next_exp_seq_num_ EXCEPT ![c] = @]
            /\ UNCHANGED sequencerVars
  BY DEF RecvRequest, Hear
<1> HIDE DEF r, c
<1>3. Owner(c, s) # Null /\ cid_tcp_socket_'[c] # Null
  BY <1>1, <1>2, ServerConstants DEF Owner, ClientTypes
<1>4. \A d \in Clients :
        /\ cid_tcp_socket_[d] # Null => cid_tcp_socket_'[d] = cid_tcp_socket_[d]
        /\ cid_next_exp_seq_num_'[d] \in {cid_next_exp_seq_num_[d], cid_next_exp_seq_num_[d] + 1}
  BY <1>1, <1>2 DEF Owner, ClientTypes
<1>5. UNCHANGED <<incoming, round>>
  BY <1>2 DEF addClientRequest, sequencerVars
<1>6. LetIn(c, r) \/ UNCHANGED pending_client_requests_
  <2>1. CASE UNCHANGED sequencerVars
    BY <2>1 DEF sequencerVars
  <2>2. CASE /\ Owner(c, s) = s /\ InSequence(c, r.seq)
             /\ cid_next_exp_seq_num_' = [cid_next_exp_seq_num_ EXCEPT ![c] = @ + 1]
             /\ addClientRequest(rx_time, r)
    <3>1. pending_client_requests_' =
            Append(pending_client_requests_,
                   [recv_time |-> rx_time, request |-> r, round |-> round])
      BY <2>2 DEF addClientRequest
    <3>2. pending_client_requests_ \in Seq(RecvTimeClientRequests)
      BY DEF SequencerTypes
    <3>3. cid_tcp_socket_'[c] = s /\ cid_next_exp_seq_num_'[c] = cid_next_exp_seq_num_[c] + 1
      BY <1>1, <1>2, <2>2 DEF ClientTypes
    <3> QED
      BY <2>2, <3>1, <3>2, <3>3 DEF LetIn, InSequence
  <2> QED
    BY <1>2, <2>1, <2>2
<1> QED
  BY <1>1, <1>2, <1>3, <1>4, <1>5, <1>6 DEF c

\* What is published is what was pending.
LEMMA RecvFinishedStep ==
  ASSUME TypeInv, RecvFinished
  PROVE  /\ UNCHANGED <<netVars, engineVars, cidVars, outVars, inVars, receive_sockets_,
                        status>>
         /\ pc' = "respond"
         /\ \/ UNCHANGED sequencerVars
            \/ /\ pending_client_requests_' = <<>> /\ round' = round + 1
               /\ \E f \in Sort(pending_client_requests_) : incoming' = incoming \o Sorted(f)
<1>1. /\ sequenceAndPublish \/ UNCHANGED sequencerVars
      /\ UNCHANGED <<netVars, engineVars, cidVars, outVars, inVars, receive_sockets_, status>>
      /\ pc' = "respond"
  BY DEF RecvFinished
<1>2. CASE sequenceAndPublish
  <2>1. PICK f \in Sort(pending_client_requests_) : incoming' = incoming \o Sorted(f)
    BY <1>2 DEF sequenceAndPublish, Sorted
  <2>2. pending_client_requests_' = <<>> /\ round' = round + 1
    BY <1>2 DEF sequenceAndPublish
  <2> QED
    BY <1>1, <2>1, <2>2
<1> QED
  BY <1>1, <1>2

LEMMA ResponseFields ==
  ASSUME NEW q \in Seq(Responses), NEW i \in 1 .. Len(q)
  PROVE  q[i].client \in Clients /\ q[i].number \in Nat
<1>1. q[i] \in Responses
  OBVIOUS
<1> QED
  BY <1>1 DEF Responses

\* The clients of the requests and responses are clients.
LEMMA FieldsOf ==
  ASSUME TypeInv
  PROVE  /\ \A i \in 1 .. Len(pending_client_requests_) :
              /\ pending_client_requests_[i].request.client \in Clients
              /\ pending_client_requests_[i].request.seq \in Nat
              /\ pending_client_requests_[i].recv_time \in Nat
              /\ pending_client_requests_[i].round \in Nat
         /\ \A i \in 1 .. Len(incoming) :
              /\ incoming[i].request.client \in Clients
              /\ incoming[i].request.seq \in Nat
              /\ incoming[i].recv_time \in Nat
              /\ incoming[i].round \in Nat
         /\ \A i \in 1 .. Len(outgoing_responses_) :
              /\ outgoing_responses_[i].client \in Clients
              /\ outgoing_responses_[i].number \in Nat
         /\ Len(pending_client_requests_) \in Nat /\ Len(incoming) \in Nat
         /\ Len(outgoing_responses_) \in Nat
<1>1. ASSUME NEW x \in RecvTimeClientRequests
      PROVE  /\ x.request.client \in Clients /\ x.request.seq \in Nat
             /\ x.recv_time \in Nat /\ x.round \in Nat
  <2>1. x.request \in Requests /\ x.recv_time \in Nat /\ x.round \in Nat
    BY <1>1 DEF RecvTimeClientRequests
  <2> QED
    BY <2>1, ServerConstants DEF Requests
<1>2. /\ pending_client_requests_ \in Seq(RecvTimeClientRequests)
      /\ incoming \in Seq(RecvTimeClientRequests) /\ outgoing_responses_ \in Seq(Responses)
  BY DEF TypeInv, SequencerTypes, OutTypes
<1>3. \A i \in 1 .. Len(pending_client_requests_) :
        pending_client_requests_[i] \in RecvTimeClientRequests
  BY <1>2
<1>4. \A i \in 1 .. Len(incoming) : incoming[i] \in RecvTimeClientRequests
  BY <1>2
<1>5. \A i \in 1 .. Len(outgoing_responses_) :
        /\ outgoing_responses_[i].client \in Clients
        /\ outgoing_responses_[i].number \in Nat
  BY <1>2, ResponseFields
<1> QED
  BY <1>1, <1>2, <1>3, <1>4, <1>5

\* Where what is published was.
LEMMA Published ==
  ASSUME TypeInv, NEW f \in Sort(pending_client_requests_), incoming' = incoming \o Sorted(f)
  PROVE  LET m == Len(incoming)
             n == Len(pending_client_requests_)
         IN  /\ m \in Nat /\ n \in Nat /\ Len(incoming') = m + n
             /\ \A i \in 1 .. m : incoming'[i] = incoming[i]
             /\ \A i \in m + 1 .. m + n :
                  /\ i - m \in 1 .. n /\ f[i - m] \in 1 .. n
                  /\ incoming'[i] = pending_client_requests_[f[i - m]]
             /\ \A i \in 1 .. Len(incoming') :
                  \/ i \in 1 .. m /\ incoming'[i] = incoming[i]
                  \/ \E k \in 1 .. n : incoming'[i] = pending_client_requests_[k]
<1> DEFINE m == Len(incoming)
           n == Len(pending_client_requests_)
<1>1. m \in Nat /\ n \in Nat /\ SequencerTypes
  BY FieldsOf DEF TypeInv
<1>2. /\ Len(incoming') = m + n
      /\ \A i \in 1 .. m : incoming'[i] = incoming[i]
      /\ \A i \in m + 1 .. m + n : i - m \in 1 .. n /\ f[i - m] \in 1 .. n
                                   /\ incoming'[i] = pending_client_requests_[f[i - m]]
  BY <1>1, SortedTypes
<1>3. \A i \in 1 .. m + n : i \in 1 .. m \/ i \in m + 1 .. m + n
  BY <1>1
<1>4. \A i \in 1 .. m + n :
        \/ i \in 1 .. m /\ incoming'[i] = incoming[i]
        \/ \E k \in 1 .. n : incoming'[i] = pending_client_requests_[k]
  BY <1>2, <1>3
<1> QED
  BY <1>1, <1>2, <1>4

-------------------------------------------------------------------------------
(* Whoever is answered has been heard.                                         *)

HasSocket(c) == cid_tcp_socket_[c] # Null

\* Every request that is let through, and every response, is a known client's.
KnownClients ==
  /\ \A i \in 1 .. Len(pending_client_requests_) :
       HasSocket(pending_client_requests_[i].request.client)
  /\ \A i \in 1 .. Len(incoming) : HasSocket(incoming[i].request.client)
  /\ \A i \in 1 .. Len(outgoing_responses_) : HasSocket(outgoing_responses_[i].client)
  /\ status # "no_socket"

\* The engine answers clients whose requests it has got.
LEMMA EngineAnswers ==
  ASSUME TypeInv, Engine
  PROVE  \A i \in 1 .. Len(outgoing_responses_') :
           \/ i <= Len(outgoing_responses_) /\ outgoing_responses_'[i] = outgoing_responses_[i]
           \/ \E k \in 1 .. Len(incoming) :
                outgoing_responses_'[i].client = incoming[k].request.client
<1> DEFINE Of(x) == \E k \in 1 .. Len(incoming) : x = incoming[k].request.client
<1>1. PICK taken \in 0 .. 1, c \in Clients \cup {Null}, d \in Clients \cup {Null} :
        Process(taken, c, d) /\ (c # Null => Of(c)) /\ (d # Null => Of(d))
  <2> SUFFICES \E taken \in 0 .. 1, c, d \in Clients \cup {Null} :
                 Process(taken, c, d) /\ (c # Null => Of(c)) /\ (d # Null => Of(d))
    OBVIOUS
  <2>1. PICK taken \in 0 .. 1, c \in Clients \cup {Null}, d \in Clients \cup {Null} :
          /\ Process(taken, c, d)
          /\ \A x \in {c, d} \ {Null} :
               \E k \in 1 .. Len(incoming) : incoming[k].request.client = x
    BY EngineStep DEF TypeInv, OutTypes
  <2> QED
    BY <2>1
<1> DEFINE q == outgoing_responses_
           r == Response(c, answers)
           s == Response(d, Told(c, answers))
<1>2. q' = q \o r \o s /\ q \in Seq(Responses)
  BY <1>1 DEF Process, TypeInv, OutTypes
<1>3. r \in Seq(Responses) /\ s \in Seq(Responses)
  BY ResponseTypes DEF TypeInv, OutTypes
<1>4. ASSUME NEW x \in Clients \cup {Null}, NEW a, x # Null => Of(x)
      PROVE  Response(x, a) = <<>> \/ (Len(Response(x, a)) = 1 /\ Of(Response(x, a)[1].client))
  <2>1. CASE x = Null
    BY <2>1 DEF Response
  <2>2. CASE x # Null
    <3> DEFINE y == [client |-> x, number |-> Told(x, a)[x]]
    <3>1. Response(x, a) = <<y>> /\ y.client = x
      BY <2>2 DEF Response
    <3> HIDE DEF y, Of
    <3>2. Len(<<y>>) = 1 /\ <<y>>[1] = y
      OBVIOUS
    <3> QED
      BY <1>4, <2>2, <3>1, <3>2
  <2> QED
    BY <2>1, <2>2
<1>8. /\ r = <<>> \/ (Len(r) = 1 /\ Of(r[1].client))
      /\ s = <<>> \/ (Len(s) = 1 /\ Of(s[1].client))
  BY <1>1, <1>4
<1> HIDE DEF q, r, s, Of
<1>5. \A i \in 1 .. Len(q \o r) :
        \/ i <= Len(q) /\ (q \o r)[i] = q[i]
        \/ Of((q \o r)[i].client)
  BY <1>2, <1>3, <1>8
<1>6. \A i \in 1 .. Len((q \o r) \o s) :
        \/ i \in 1 .. Len(q \o r) /\ ((q \o r) \o s)[i] = (q \o r)[i]
        \/ Of(((q \o r) \o s)[i].client)
  BY <1>2, <1>3, <1>8
<1>7. \A i \in 1 .. Len(q') : (i <= Len(q) /\ q'[i] = q[i]) \/ Of(q'[i].client)
  BY <1>2, <1>5, <1>6
<1> QED
  BY <1>7 DEF q, Of

LEMMA KnownInit == Init => KnownClients
BY DEF Init, SequencerInit, KnownClients

LEMMA KnownRecvRequest ==
  ASSUME TypeInv, KnownClients, RecvRequest
  PROVE  KnownClients'
<1>1. PICK c \in Clients, r \in Requests :
        /\ r.client = c /\ cid_tcp_socket_'[c] # Null
        /\ \A d \in Clients : cid_tcp_socket_[d] # Null => cid_tcp_socket_'[d] = cid_tcp_socket_[d]
        /\ LetIn(c, r) \/ UNCHANGED pending_client_requests_
  BY RecvRequestStep
<1>2. UNCHANGED <<incoming, outgoing_responses_>> /\ status' # "no_socket"
  BY RecvRequestStep DEF outVars, RecvRequest, KnownClients
<1>3. \A d \in Clients : HasSocket(d) => HasSocket(d)'
  BY <1>1 DEF HasSocket
<1>4. \A i \in 1 .. Len(pending_client_requests_') :
        cid_tcp_socket_'[pending_client_requests_'[i].request.client] # Null
  <2>1. CASE UNCHANGED pending_client_requests_
    BY <1>3, <2>1, FieldsOf DEF KnownClients, HasSocket
  <2>2. CASE LetIn(c, r)
    <3>1. Len(pending_client_requests_) \in Nat
      BY FieldsOf
    <3>2. \A i \in 1 .. Len(pending_client_requests_) :
            cid_tcp_socket_'[pending_client_requests_[i].request.client] # Null
      BY <1>3, FieldsOf DEF KnownClients, HasSocket
    <3>3. /\ pending_client_requests_'[Len(pending_client_requests_) + 1].request.client = c
          /\ HasSocket(c)'
      BY <1>1, <2>2 DEF LetIn, HasSocket
    <3>4. /\ Len(pending_client_requests_') = Len(pending_client_requests_) + 1
          /\ \A i \in 1 .. Len(pending_client_requests_) :
               pending_client_requests_'[i] = pending_client_requests_[i]
      BY <2>2 DEF LetIn
    <3>5. \A d : HasSocket(d)' <=> cid_tcp_socket_'[d] # Null
      BY DEF HasSocket
    <3> QED
      BY <3>1, <3>2, <3>3, <3>4, <3>5
  <2> QED
    BY <1>1, <2>1, <2>2
<1>5. \A i \in 1 .. Len(incoming) : HasSocket(incoming[i].request.client)'
  BY <1>2, <1>3, FieldsOf DEF KnownClients, HasSocket
<1>6. \A i \in 1 .. Len(outgoing_responses_) : HasSocket(outgoing_responses_[i].client)'
  BY <1>2, <1>3, FieldsOf DEF KnownClients, HasSocket
<1> QED
  BY <1>2, <1>4, <1>5, <1>6 DEF KnownClients, HasSocket

LEMMA KnownRecvFinished ==
  ASSUME TypeInv, KnownClients, RecvFinished
  PROVE  KnownClients'
<1>1. UNCHANGED <<outgoing_responses_, cid_tcp_socket_, status>>
  BY RecvFinishedStep DEF outVars, cidVars
<1>2. CASE UNCHANGED sequencerVars
  BY <1>1, <1>2 DEF KnownClients, HasSocket, sequencerVars
<1>3. ASSUME NEW f \in Sort(pending_client_requests_), incoming' = incoming \o Sorted(f),
             pending_client_requests_' = <<>>
      PROVE  KnownClients'
  <2>1. \A i \in 1 .. Len(incoming') : HasSocket(incoming'[i].request.client)
    BY <1>3, Published DEF KnownClients
  <2> QED
    BY <1>1, <1>3, <2>1 DEF KnownClients, HasSocket
<1> QED
  BY <1>2, <1>3, RecvFinishedStep

LEMMA KnownRespond ==
  ASSUME TypeInv, KnownClients, Respond
  PROVE  KnownClients'
<1>1. UNCHANGED <<sequencerVars, cidVars>>
  BY DEF Respond
<1>2. outgoing_responses_ \in Seq(Responses) /\ outgoing_responses_ # <<>>
  BY DEF Respond, TypeInv, OutTypes
<1>3. HasSocket(Head(outgoing_responses_).client)
  BY <1>2 DEF KnownClients
<1>4. outgoing_responses_' = Tail(outgoing_responses_) /\ UNCHANGED status
  BY <1>3 DEF Respond, HasSocket
<1>5. \A i \in 1 .. Len(outgoing_responses_') :
        /\ i + 1 \in 1 .. Len(outgoing_responses_)
        /\ outgoing_responses_'[i] = outgoing_responses_[i + 1]
  BY <1>2, <1>4
<1> QED
  BY <1>1, <1>4, <1>5 DEF KnownClients, HasSocket, sequencerVars, cidVars

LEMMA KnownStep == TypeInv /\ KnownClients /\ [Next]_vars => KnownClients'
<1> SUFFICES ASSUME TypeInv, KnownClients, [Next]_vars
             PROVE  KnownClients'
  OBVIOUS
<1>1. CASE RecvRequest
  BY <1>1, KnownRecvRequest
<1>2. CASE RecvFinished
  BY <1>2, KnownRecvFinished
<1>3. CASE Respond
  BY <1>3, KnownRespond
<1>4. CASE Engine
  <2>1. UNCHANGED <<sequencerVars, cidVars>> /\ status' # "no_socket"
    BY <1>4, ServerConstants DEF Engine, Begin, GoOn, Process
  <2>2. \A i \in 1 .. Len(outgoing_responses_') :
          HasSocket(outgoing_responses_'[i].client)
    <3>1. ASSUME NEW i \in 1 .. Len(outgoing_responses_'),
                 i <= Len(outgoing_responses_), outgoing_responses_'[i] = outgoing_responses_[i]
          PROVE  HasSocket(outgoing_responses_'[i].client)
      <4>1. i \in 1 .. Len(outgoing_responses_)
        BY <3>1, FieldsOf
      <4> QED
        BY <3>1, <4>1 DEF KnownClients
    <3>2. ASSUME NEW i \in 1 .. Len(outgoing_responses_'), NEW k \in 1 .. Len(incoming),
                 outgoing_responses_'[i].client = incoming[k].request.client
          PROVE  HasSocket(outgoing_responses_'[i].client)
      BY <3>2 DEF KnownClients
    <3> QED
      BY <1>4, <3>1, <3>2, EngineAnswers
  <2>3. UNCHANGED <<pending_client_requests_, incoming>>
    BY <2>1 DEF sequencerVars
  <2>4. \A i \in 1 .. Len(outgoing_responses_') : HasSocket(outgoing_responses_[i].client)'
    BY <2>1, <2>2 DEF HasSocket, cidVars
  <2> QED
    BY <2>1, <2>3, <2>4 DEF KnownClients, HasSocket, cidVars
<1>5. CASE ~RecvRequest /\ ~RecvFinished /\ ~Respond /\ ~Engine
  <2>1. UNCHANGED <<sequencerVars, cidVars, outgoing_responses_>>
    BY <1>5 DEF Next, Server, Arrivals, vars, outVars, Connect, Send, Arrive, LogBanner,
       poll, Receive, RecvRemainder, SendBuffered, Responded
  <2>2. status' # "no_socket"
    BY <1>5 DEF Next, Server, Arrivals, vars, Connect, Send, Arrive, LogBanner, log,
       poll, Receive, RecvRemainder, SendBuffered, Responded, KnownClients
  <2> QED
    BY <2>1, <2>2 DEF KnownClients, HasSocket, sequencerVars, cidVars
<1> QED
  BY <1>1, <1>2, <1>3, <1>4, <1>5

\* The ASSERT on the socket of a response never fails: between the request that is
\* let through and the response to it its client keeps the socket it was heard on
\* (order_server.h:38).
THEOREM AnswersFindSockets == Spec => []AnswersHaveSocket
<1>1. KnownClients => AnswersHaveSocket
  BY DEF KnownClients, AnswersHaveSocket
<1>2. Spec => []KnownClients
  BY AlwaysTypes, KnownInit, KnownStep, PTL DEF Spec
<1> QED
  BY <1>1, <1>2, PTL

-------------------------------------------------------------------------------
(* Passes: the requests that wait have been read in this one, those that are    *)
(* published in earlier ones, and within one they are sorted.                   *)

\* x is published before y.
Before(x, y) ==
  \/ x.round < y.round
  \/ x.round = y.round /\ x.recv_time <= y.recv_time

Rounds ==
  /\ \A i \in 1 .. Len(pending_client_requests_) : pending_client_requests_[i].round = round
  /\ \A i \in 1 .. Len(incoming) : incoming[i].round < round
  /\ \A i, j \in 1 .. Len(incoming) : i < j => Before(incoming[i], incoming[j])

LEMMA RoundsInit == Init => Rounds
BY DEF Init, SequencerInit, Rounds

LEMMA RoundsRecvRequest ==
  ASSUME TypeInv, Rounds, RecvRequest
  PROVE  Rounds'
<1>1. PICK c \in Clients, r \in Requests : LetIn(c, r) \/ UNCHANGED pending_client_requests_
  BY RecvRequestStep
<1>2. UNCHANGED <<incoming, round>>
  BY RecvRequestStep
<1>3. \A i \in 1 .. Len(pending_client_requests_') : pending_client_requests_'[i].round = round
  BY <1>1, FieldsOf DEF LetIn, Rounds
<1> QED
  BY <1>2, <1>3 DEF Rounds

LEMMA RoundsPublished ==
  ASSUME TypeInv, Rounds, NEW f \in Sort(pending_client_requests_),
         incoming' = incoming \o Sorted(f), pending_client_requests_' = <<>>, round' = round + 1
  PROVE  Rounds'
<1> DEFINE p == pending_client_requests_
           q == incoming'
           m == Len(incoming)
           n == Len(pending_client_requests_)
           k == round
<1>0. m \in Nat /\ n \in Nat /\ k \in Nat
  BY DEF TypeInv, SequencerTypes
<1>1. /\ p = pending_client_requests_ /\ q = incoming' /\ m = Len(incoming)
      /\ n = Len(pending_client_requests_) /\ k = round
  OBVIOUS
<1> HIDE DEF p, q, m, n, k
<1>2. /\ Len(q) = m + n
      /\ \A i \in 1 .. m : q[i] = incoming[i]
      /\ \A i \in m + 1 .. m + n : i - m \in 1 .. n /\ f[i - m] \in 1 .. n /\ q[i] = p[f[i - m]]
  BY <1>0, <1>1, Published
<1>3. \A i, j \in 1 .. n : i < j => ~Earlier(p[f[j]], p[f[i]])
  BY <1>1 DEF Sort
<1>4. \A i \in 1 .. n : p[i].round = k /\ p[i].recv_time \in Nat
  BY <1>0, <1>1, FieldsOf DEF Rounds
<1>5. ASSUME NEW i \in m + 1 .. m + n
      PROVE  q[i].round = k /\ q[i].recv_time \in Nat
  <2>1. PICK l \in 1 .. n : q[i] = p[l]
    BY <1>2
  <2> QED
    BY <1>4, <2>1
<1>6. \A i \in 1 .. m : q[i].round < k /\ q[i].round \in Nat
  BY <1>0, <1>1, <1>2, FieldsOf DEF Rounds
<1>7. \A i, j \in 1 .. m : i < j => Before(q[i], q[j])
  BY <1>0, <1>1, <1>2 DEF Rounds
<1>8. ASSUME NEW i \in 1 .. m + n
      PROVE  q[i].round < k + 1
  <2>1. CASE i \in 1 .. m
    BY <1>0, <1>6, <2>1
  <2>2. CASE i \in m + 1 .. m + n
    BY <1>0, <1>5, <2>2
  <2> QED
    BY <1>0, <2>1, <2>2
<1>9. ASSUME NEW i \in 1 .. m + n, NEW j \in 1 .. m + n, i < j
      PROVE  Before(q[i], q[j])
  <2>1. CASE j <= m
    BY <1>0, <1>7, <1>9, <2>1
  <2>2. CASE i <= m /\ ~(j <= m)
    BY <1>0, <1>5, <1>6, <2>2 DEF Before
  <2>3. CASE ~(i <= m)
    <3>1. i \in m + 1 .. m + n /\ j \in m + 1 .. m + n /\ i - m < j - m
      BY <1>0, <1>9, <2>3
    <3>2. ~(q[j].recv_time < q[i].recv_time)
      BY <1>0, <1>2, <1>3, <3>1 DEF Earlier
    <3> QED
      BY <1>0, <1>5, <3>1, <3>2 DEF Before
  <2> QED
    BY <1>0, <2>1, <2>2, <2>3
<1>10. \A i \in 1 .. Len(incoming') : incoming'[i].round < round'
  BY <1>0, <1>1, <1>2, <1>8
<1>11. \A i, j \in 1 .. Len(incoming') : i < j => Before(incoming'[i], incoming'[j])
  BY <1>0, <1>1, <1>2, <1>9
<1>12. \A i \in 1 .. Len(pending_client_requests_') : FALSE
  OBVIOUS
<1>13. \A i, j \in 1 .. Len(incoming') : i < j => Before(incoming[i], incoming[j])'
  BY <1>11 DEF Before
<1> QED
  BY <1>10, <1>12, <1>13 DEF Rounds

LEMMA RoundsStep == TypeInv /\ Rounds /\ [Next]_vars => Rounds'
<1> SUFFICES ASSUME TypeInv, Rounds, [Next]_vars
             PROVE  Rounds'
  OBVIOUS
<1>1. ASSUME UNCHANGED sequencerVars
      PROVE  Rounds'
  BY <1>1 DEF Rounds, sequencerVars, Before
<1>2. CASE RecvRequest
  BY <1>2, RoundsRecvRequest
<1>3. CASE RecvFinished
  BY <1>1, <1>3, RecvFinishedStep, RoundsPublished
<1>4. CASE ~RecvRequest /\ ~RecvFinished
  BY <1>1, <1>4, OtherSteps DEF requestVars
<1> QED
  BY <1>2, <1>3, <1>4

\* Whoever is overtaken by a request that was received later was read in a later
\* pass over the sockets, however std::sort leaves requests with equal times
\* (fifo_sequencer.h:28-51).
THEOREM OvertakenByEarlierPass == Spec => []OvertakenByEarlierPassOnly
<1>1. ASSUME TypeInv, Rounds
      PROVE  OvertakenByEarlierPassOnly
  <2>1. \A i, j \in 1 .. Len(incoming) :
          i < j => /\ Before(incoming[i], incoming[j])
                   /\ incoming[i].recv_time \in Nat /\ incoming[j].recv_time \in Nat
    BY <1>1, FieldsOf DEF Rounds
  <2> QED
    BY <2>1 DEF OvertakenByEarlierPassOnly, Before
<1>2. Spec => []Rounds
  BY AlwaysTypes, RoundsInit, RoundsStep, PTL DEF Spec
<1> QED
  BY <1>1, <1>2, AlwaysTypes, PTL

-------------------------------------------------------------------------------
(* The order of a client's requests.                                           *)

Same(x, y) == x.request.client = y.request.client
InSeqOrder(x, y) == Same(x, y) => x.request.seq < y.request.seq

\* A client's requests wait in the order of their numbers, which are below the one
\* that is expected and above those of its requests that are published.
Seqs ==
  /\ \A i \in 1 .. Len(incoming) :
       incoming[i].request.seq < cid_next_exp_seq_num_[incoming[i].request.client]
  /\ \A i \in 1 .. Len(pending_client_requests_) :
       pending_client_requests_[i].request.seq
         < cid_next_exp_seq_num_[pending_client_requests_[i].request.client]
  /\ \A i \in 1 .. Len(incoming), j \in 1 .. Len(pending_client_requests_) :
       InSeqOrder(incoming[i], pending_client_requests_[j])
  /\ \A i, j \in 1 .. Len(pending_client_requests_) :
       i < j => InSeqOrder(pending_client_requests_[i], pending_client_requests_[j])

LEMMA SeqsInit == Init => Seqs
BY DEF Init, SequencerInit, Seqs

LEMMA SeqsRecvRequest ==
  ASSUME TypeInv, Seqs, RecvRequest
  PROVE  Seqs'
<1> DEFINE p == pending_client_requests_
           n == Len(p)
           next == cid_next_exp_seq_num_
<1>1. PICK c \in Clients, r \in Requests :
        /\ LetIn(c, r) \/ UNCHANGED pending_client_requests_
        /\ r.client = c
        /\ \A d \in Clients : next'[d] \in {next[d], next[d] + 1}
  BY RecvRequestStep
<1>2. UNCHANGED incoming
  BY RecvRequestStep
<1>3. \A d \in Clients : next[d] \in Nat /\ next'[d] \in Nat /\ next[d] <= next'[d]
  BY <1>1 DEF TypeInv, ClientTypes
<1>4. ASSUME NEW i \in 1 .. Len(incoming)
      PROVE  incoming[i].request.seq < next'[incoming[i].request.client]
  <2>1. PICK d \in Clients, v \in Nat : d = incoming[i].request.client /\ v = incoming[i].request.seq
    BY FieldsOf
  <2>2. v < next[d]
    BY <2>1 DEF Seqs
  <2> QED
    BY <1>3, <2>1, <2>2
<1>5. ASSUME NEW i \in 1 .. n
      PROVE  p[i].request.seq < next'[p[i].request.client]
  <2>1. PICK d \in Clients, v \in Nat : d = p[i].request.client /\ v = p[i].request.seq
    BY FieldsOf
  <2>2. v < next[d]
    BY <2>1 DEF Seqs
  <2> QED
    BY <1>3, <2>1, <2>2
<1>6. CASE UNCHANGED pending_client_requests_
  BY <1>2, <1>4, <1>5, <1>6 DEF Seqs, InSeqOrder, Same
<1>7. CASE LetIn(c, r)
  <2>1. /\ n \in Nat /\ Len(p') = n + 1
        /\ \A i \in 1 .. n : p'[i] = p[i]
        /\ p'[n + 1].request.client = c /\ p'[n + 1].request.seq = next[c]
        /\ next'[c] = next[c] + 1
    BY <1>1, <1>7, FieldsOf DEF LetIn
  <2>2. \A i \in 1 .. n + 1 : p'[i].request.seq < next'[p'[i].request.client]
    <3>1. p'[n + 1].request.seq < next'[p'[n + 1].request.client]
      BY <1>3, <2>1
    <3> HIDE DEF p, n
    <3> QED
      BY <1>5, <2>1, <3>1
  <2>3. \A i \in 1 .. Len(incoming) : InSeqOrder(incoming[i], p'[n + 1])
    BY <2>1 DEF Seqs, InSeqOrder, Same
  <2>4. \A i \in 1 .. n : InSeqOrder(p[i], p'[n + 1])
    BY <2>1 DEF Seqs, InSeqOrder, Same
  <2>5. /\ \A i \in 1 .. Len(incoming), j \in 1 .. n : InSeqOrder(incoming[i], p[j])
        /\ \A i, j \in 1 .. n : i < j => InSeqOrder(p[i], p[j])
    BY DEF Seqs
  <2> HIDE DEF p, n, next
  <2>6. \A i \in 1 .. Len(incoming), j \in 1 .. n + 1 : InSeqOrder(incoming[i], p'[j])
    BY <2>1, <2>3, <2>5
  <2>7. \A i, j \in 1 .. n + 1 : i < j => InSeqOrder(p'[i], p'[j])
    BY <2>1, <2>4, <2>5
  <2> QED
    BY <1>2, <1>4, <2>1, <2>2, <2>6, <2>7 DEF Seqs, InSeqOrder, Same, p, n, next
<1> QED
  BY <1>1, <1>6, <1>7

LEMMA SeqsRecvFinished ==
  ASSUME TypeInv, Seqs, NEW f \in Sort(pending_client_requests_), UNCHANGED cidVars,
         incoming' = incoming \o Sorted(f), pending_client_requests_' = <<>>
  PROVE  Seqs'
<1>1. \A i \in 1 .. Len(incoming') :
        incoming'[i].request.seq < cid_next_exp_seq_num_[incoming'[i].request.client]
  BY Published DEF Seqs
<1> QED
  BY <1>1 DEF Seqs, cidVars

LEMMA SeqsStep == TypeInv /\ Seqs /\ [Next]_vars => Seqs'
<1> SUFFICES ASSUME TypeInv, Seqs, [Next]_vars
             PROVE  Seqs'
  OBVIOUS
<1>1. ASSUME UNCHANGED requestVars
      PROVE  Seqs'
  BY <1>1 DEF Seqs, requestVars, cidVars, sequencerVars, InSeqOrder, Same
<1>2. CASE RecvRequest
  BY <1>2, SeqsRecvRequest
<1>3. CASE RecvFinished
  BY <1>1, <1>3, RecvFinishedStep, SeqsRecvFinished DEF requestVars
<1>4. CASE ~RecvRequest /\ ~RecvFinished
  BY <1>1, <1>4, OtherSteps
<1> QED
  BY <1>2, <1>3, <1>4

SocketOf(x) == cid_tcp_socket_[x.request.client]

\* The requests of a client that wait have been received on its one socket, in the
\* order of the times they carry, none later than what that socket got last.
Times ==
  /\ \A s \in Sockets : stamp[s] <= clock
  /\ pc = "callback" => rx_time <= stamp[Visited]
  /\ \A i \in 1 .. Len(pending_client_requests_) :
       LET x == pending_client_requests_[i]
       IN  /\ SocketOf(x) \in Sockets /\ x.recv_time <= stamp[SocketOf(x)]
           /\ pc = "callback" /\ SocketOf(x) = Visited => x.recv_time <= rx_time
  /\ \A i, j \in 1 .. Len(pending_client_requests_) :
       i < j /\ Same(pending_client_requests_[i], pending_client_requests_[j])
         => pending_client_requests_[i].recv_time <= pending_client_requests_[j].recv_time

LEMMA TimesInit == Init => Times
BY DEF Init, SequencerInit, Times

LEMMA TimesArrive ==
  ASSUME TypeInv, Times, NEW s \in Sockets, NEW later \in BOOLEAN, Arrive(s, later)
  PROVE  Times'
<1>1. /\ clock \in Nat /\ clock' \in Nat /\ clock <= clock'
      /\ stamp \in [Sockets -> Nat] /\ stamp' = [stamp EXCEPT ![s] = clock']
  BY DEF Arrive, TypeInv, NetTypes
<1>2. \A u \in Sockets : stamp[u] \in Nat /\ stamp[u] <= clock
  BY <1>1 DEF Times
<1>3. \A u \in Sockets : stamp'[u] \in Nat /\ stamp[u] <= stamp'[u] /\ stamp'[u] <= clock'
  BY <1>1, <1>2
<1>4. UNCHANGED <<pc, rx_time, receive_sockets_, at, cid_tcp_socket_, pending_client_requests_>>
  BY DEF Arrive, loopVars, inVars, cidVars, sequencerVars
<1>5. pc = "callback" => rx_time <= stamp'[Visited]
  <2>1. pc = "callback" => Visited \in Sockets /\ rx_time \in Nat
    BY DEF TypeInv, LoopTypes, InTypes, Visited
  <2>2. pc = "callback" => rx_time <= stamp[Visited]
    BY DEF Times
  <2> QED
    BY <1>2, <1>3, <2>1, <2>2
<1>6. ASSUME NEW i \in 1 .. Len(pending_client_requests_)
      PROVE  pending_client_requests_[i].recv_time <= stamp'[SocketOf(pending_client_requests_[i])]
  <2>1. PICK u \in Sockets, v \in Nat :
          /\ u = SocketOf(pending_client_requests_[i])
          /\ v = pending_client_requests_[i].recv_time
    BY FieldsOf DEF Times
  <2>2. v <= stamp[u]
    BY <2>1 DEF Times
  <2> QED
    BY <1>2, <1>3, <2>1, <2>2
<1> QED
  BY <1>3, <1>4, <1>5, <1>6 DEF Times, Visited, SocketOf, Same

LEMMA TimesReceive ==
  ASSUME TypeInv, Times, Receive
  PROVE  Times'
<1>1. /\ UNCHANGED <<clock, stamp, receive_sockets_, at, cid_tcp_socket_,
                     pending_client_requests_>>
      /\ \/ pc' = "callback" /\ rx_time' = stamp[Visited]
         \/ pc' = "send"
      /\ Visited \in Sockets
  <2>1. at \in 1 .. Len(receive_sockets_) /\ receive_sockets_ \in Seq(Sockets)
    BY DEF Receive, TypeInv, LoopTypes
  <2> QED
    BY <2>1 DEF Receive, netVars, cidVars, sequencerVars, Visited
<1>2. stamp[Visited] \in Nat
  BY <1>1 DEF TypeInv, NetTypes
<1> QED
  BY <1>1, <1>2 DEF Times, Visited, SocketOf, Same

LEMMA TimesRecvRequest ==
  ASSUME TypeInv, KnownClients, Times, RecvRequest
  PROVE  Times'
<1> DEFINE p == pending_client_requests_
           n == Len(p)
<1>1. PICK c \in Clients, r \in Requests :
        /\ LetIn(c, r) \/ UNCHANGED pending_client_requests_
        /\ r.client = c
        /\ \A d \in Clients : cid_tcp_socket_[d] # Null => cid_tcp_socket_'[d] = cid_tcp_socket_[d]
  BY RecvRequestStep
<1>2. /\ UNCHANGED <<clock, stamp, pc, receive_sockets_, at, rx_time>>
      /\ Visited \in Sockets /\ pc = "callback"
  BY RecvRequestStep DEF netVars, inVars
<1>3. \A i \in 1 .. n : /\ p[i].request.client \in Clients
                        /\ cid_tcp_socket_'[p[i].request.client] = SocketOf(p[i])
  BY <1>1, FieldsOf DEF KnownClients, HasSocket, SocketOf
<1>4. CASE UNCHANGED pending_client_requests_
  BY <1>2, <1>3, <1>4 DEF Times, Visited, SocketOf, Same
<1>5. CASE LetIn(c, r)
  <2>1. /\ n \in Nat /\ Len(p') = n + 1
        /\ \A i \in 1 .. n : p'[i] = p[i]
        /\ p'[n + 1].request.client = c /\ p'[n + 1].recv_time = rx_time
        /\ cid_tcp_socket_'[c] = Visited
    BY <1>1, <1>5, FieldsOf DEF LetIn
  <2> DEFINE Now(x) == cid_tcp_socket_'[x.request.client]
  <2>2. \A i \in 1 .. n : Now(p'[i]) = SocketOf(p[i])
    BY <1>3, <2>1
  <2>3. Now(p'[n + 1]) = Visited
    BY <2>1
  <2>4. rx_time \in Nat /\ rx_time <= stamp[Visited]
    BY <1>2 DEF Times, TypeInv, InTypes
  <2>5. \A i \in 1 .. n :
          /\ SocketOf(p[i]) \in Sockets /\ p[i].recv_time <= stamp[SocketOf(p[i])]
          /\ SocketOf(p[i]) = Visited => p[i].recv_time <= rx_time
    BY <1>2 DEF Times
  <2>6. \A i \in 1 .. n + 1 :
          /\ Now(p'[i]) \in Sockets /\ p'[i].recv_time <= stamp[Now(p'[i])]
          /\ Now(p'[i]) = Visited => p'[i].recv_time <= rx_time
    <3>1. /\ Now(p'[n + 1]) \in Sockets
          /\ p'[n + 1].recv_time <= stamp[Now(p'[n + 1])] /\ p'[n + 1].recv_time <= rx_time
      BY <1>2, <2>1, <2>3, <2>4
    <3> HIDE DEF p, n, Now
    <3> QED
      BY <2>1, <2>2, <2>5, <3>1
  <2>7. \A i \in 1 .. n : Same(p[i], p'[n + 1]) => p[i].recv_time <= p'[n + 1].recv_time
    <3>1. ASSUME NEW i \in 1 .. n, Same(p[i], p'[n + 1])
          PROVE  SocketOf(p[i]) = Visited
      BY <1>3, <2>1, <3>1 DEF Same
    <3> QED
      BY <2>1, <2>5, <3>1
  <2>8. \A i, j \in 1 .. n : i < j /\ Same(p[i], p[j]) => p[i].recv_time <= p[j].recv_time
    BY DEF Times
  <2> HIDE DEF p, n, Now
  <2>9. \A i, j \in 1 .. n + 1 : i < j /\ Same(p'[i], p'[j]) => p'[i].recv_time <= p'[j].recv_time
    BY <2>1, <2>7, <2>8
  <2>10. \A u \in Sockets : stamp[u] <= clock
    BY DEF Times
  <2>11. \A i \in 1 .. Len(p') :
           /\ SocketOf(p[i])' \in Sockets /\ p'[i].recv_time <= stamp[SocketOf(p[i])']
           /\ SocketOf(p[i])' = Visited => p'[i].recv_time <= rx_time
    BY <2>1, <2>6 DEF SocketOf, Now
  <2>12. Visited' = Visited
    BY <1>2 DEF Visited
  <2>13. \A i, j \in 1 .. Len(p') : i < j /\ Same(p'[i], p'[j]) => p'[i].recv_time <= p'[j].recv_time
    BY <2>1, <2>9
  <2> QED
    BY <1>2, <2>4, <2>10, <2>11, <2>12, <2>13 DEF Times, Same, p
<1> QED
  BY <1>1, <1>4, <1>5

LEMMA TimesStep == TypeInv /\ KnownClients /\ Times /\ [Next]_vars => Times'
<1> SUFFICES ASSUME TypeInv, KnownClients, Times, [Next]_vars
             PROVE  Times'
  OBVIOUS
<1>1. ASSUME UNCHANGED <<stamp, clock, cid_tcp_socket_, pending_client_requests_>>,
             pc' # "callback" \/ UNCHANGED <<pc, rx_time, receive_sockets_, at>>
      PROVE  Times'
  BY <1>1 DEF Times, Visited, SocketOf, Same
<1>2. CASE RecvRequest
  BY <1>2, TimesRecvRequest
<1>3. CASE Receive
  BY <1>3, TimesReceive
<1>4. ASSUME NEW s \in Sockets, NEW later \in BOOLEAN, Arrive(s, later)
      PROVE  Times'
  BY <1>4, TimesArrive
<1>5. CASE RecvFinished
  <2>1. CASE pending_client_requests_' = <<>>
    BY <1>5, <2>1, RecvFinishedStep DEF Times, netVars, cidVars
  <2>2. CASE UNCHANGED sequencerVars
    BY <1>1, <1>5, <2>2, RecvFinishedStep DEF netVars, cidVars, sequencerVars
  <2> QED
    BY <1>5, <2>1, <2>2, RecvFinishedStep
<1>6. CASE ~RecvRequest /\ ~RecvFinished /\ ~Receive /\ ~Arrivals
  <2>1. UNCHANGED <<cid_tcp_socket_, pending_client_requests_>>
    BY <1>6, OtherSteps DEF requestVars, sequencerVars, cidVars
  <2>2. UNCHANGED <<stamp, clock>>
    BY <1>6 DEF Next, Server, Engine, Begin, GoOn, vars, netVars, Connect, Send, Process, LogBanner, poll,
       RecvRemainder, SendBuffered, Respond, Responded
  <2>3. pc' # "callback" \/ UNCHANGED <<pc, rx_time, receive_sockets_, at>>
    BY <1>6 DEF Next, Server, Engine, Begin, GoOn, vars, loopVars, inVars, Connect, Send, Process, LogBanner,
       poll, RecvRemainder, SendBuffered, Respond, Responded
  <2> QED
    BY <1>1, <2>1, <2>2, <2>3
<1> QED
  BY <1>2, <1>3, <1>4, <1>5, <1>6 DEF Arrivals

\* What a publication does to the order of a client's requests: the new ones come
\* behind the old ones, and among the new ones two can change places only when the
\* sort need not be stable and they carry one time.
LEMMA PublishedPairs ==
  ASSUME TypeInv, Rounds, Seqs, Times,
         NEW f \in Sort(pending_client_requests_), incoming' = incoming \o Sorted(f)
  PROVE  LET m == Len(incoming)
             n == Len(pending_client_requests_)
         IN  /\ m \in Nat /\ n \in Nat /\ Len(incoming') = m + n
             /\ \A i \in 1 .. m : incoming'[i] = incoming[i]
             /\ \A i \in m + 1 .. m + n : incoming'[i].round = round
             /\ \A i \in 1 .. m + n : incoming'[i].request.seq \in Nat
             /\ \A i, j \in 1 .. m + n : i < j =>
                  \/ j <= m
                  \/ InSeqOrder(incoming'[i], incoming'[j])
                  \/ /\ i > m /\ n > SortLimit
                     /\ incoming'[i].recv_time = incoming'[j].recv_time
<1> DEFINE p == pending_client_requests_
           m == Len(incoming)
           n == Len(p)
<1>1. m \in Nat /\ n \in Nat /\ SortLimit \in Nat
  BY SequencerConstants DEF TypeInv, SequencerTypes
<1>2. /\ Len(incoming') = m + n
      /\ \A i \in 1 .. m : incoming'[i] = incoming[i]
      /\ \A i \in m + 1 .. m + n : i - m \in 1 .. n /\ f[i - m] \in 1 .. n
                                   /\ incoming'[i] = p[f[i - m]]
  BY Published
<1>3. ASSUME NEW k \in 1 .. n, NEW l \in 1 .. n, k < l, f[k] \in 1 .. n, f[l] \in 1 .. n
      PROVE  \/ InSeqOrder(p[f[k]], p[f[l]])
             \/ n > SortLimit /\ p[f[k]].recv_time = p[f[l]].recv_time
  <2>1. /\ f[k] # f[l] /\ ~Earlier(p[f[l]], p[f[k]])
        /\ n <= SortLimit /\ ~Earlier(p[f[k]], p[f[l]]) => f[k] < f[l]
    BY <1>3 DEF Sort
  <2>2. CASE f[k] < f[l]
    BY <1>3, <2>2 DEF Seqs
  <2>3. CASE f[l] < f[k] /\ Same(p[f[l]], p[f[k]])
    <3>1. p[f[l]].recv_time <= p[f[k]].recv_time
      BY <1>3, <2>3 DEF Times
    <3>2. p[f[l]].recv_time \in Nat /\ p[f[k]].recv_time \in Nat
      BY <1>3, FieldsOf
    <3>3. p[f[l]].recv_time = p[f[k]].recv_time
      BY <2>1, <3>1, <3>2 DEF Earlier
    <3>4. ~(n <= SortLimit)
      BY <1>3, <2>1, <2>3, <3>3, <3>2 DEF Earlier
    <3> QED
      BY <1>1, <3>3, <3>4
  <2>4. CASE ~Same(p[f[l]], p[f[k]])
    BY <2>4 DEF InSeqOrder, Same
  <2> QED
    BY <1>3, <2>1, <2>2, <2>3, <2>4
<1>4. ASSUME NEW i \in 1 .. m + n, NEW j \in 1 .. m + n, i < j, ~(j <= m)
      PROVE  \/ InSeqOrder(incoming'[i], incoming'[j])
             \/ /\ i > m /\ n > SortLimit
                /\ incoming'[i].recv_time = incoming'[j].recv_time
  <2>1. CASE i <= m
    <3>1. i \in 1 .. m /\ j \in m + 1 .. m + n
      BY <1>1, <1>4, <2>1
    <3> QED
      BY <1>2, <3>1 DEF Seqs
  <2>2. CASE ~(i <= m)
    <3>1. i \in m + 1 .. m + n /\ j \in m + 1 .. m + n /\ i - m < j - m
      BY <1>1, <1>4, <2>2
    <3>2. PICK k \in 1 .. n, l \in 1 .. n :
            /\ k < l /\ f[k] \in 1 .. n /\ f[l] \in 1 .. n
            /\ incoming'[i] = p[f[k]] /\ incoming'[j] = p[f[l]]
      BY <1>2, <3>1
    <3>3. \/ InSeqOrder(p[f[k]], p[f[l]])
          \/ n > SortLimit /\ p[f[k]].recv_time = p[f[l]].recv_time
      BY <1>3, <3>2
    <3>4. i > m
      BY <1>1, <2>2
    <3> HIDE DEF p, m, n
    <3> QED
      BY <3>2, <3>3, <3>4
  <2> QED
    BY <2>1, <2>2
<1>5. \A i \in m + 1 .. m + n : incoming'[i].round = round
  BY <1>2 DEF Rounds
<1>7. \A i \in 1 .. m + n : incoming'[i].request.seq \in Nat
  <2>1. ASSUME NEW i \in 1 .. m + n
        PROVE  \/ i \in 1 .. m /\ incoming'[i] = incoming[i]
               \/ \E k \in 1 .. n : incoming'[i] = p[k]
    BY <1>2, Published
  <2> QED
    BY <2>1, FieldsOf
<1> HIDE DEF m, n, p
<1>6. /\ m \in Nat /\ n \in Nat /\ Len(incoming') = m + n
      /\ \A i \in 1 .. m : incoming'[i] = incoming[i]
      /\ \A i \in m + 1 .. m + n : incoming'[i].round = round
      /\ \A i \in 1 .. m + n : incoming'[i].request.seq \in Nat
      /\ \A i, j \in 1 .. m + n : i < j =>
           \/ j <= m
           \/ InSeqOrder(incoming'[i], incoming'[j])
           \/ /\ i > m /\ n > SortLimit
              /\ incoming'[i].recv_time = incoming'[j].recv_time
  BY <1>1, <1>2, <1>4, <1>5, <1>7
<1> QED
  BY <1>6 DEF m, n, p

\* What a swap tells of the i-th and the j-th request of the queue q.
AtOnceInLongPass(q, i, j) ==
  /\ q[i].recv_time = q[j].recv_time
  /\ \E a \in 1 .. i, b \in j .. Len(q) :
       /\ b - a >= SortLimit
       /\ \A k \in a .. b : q[k].round = q[i].round

LEMMA OrderInit == Init => SwappedInLongPassesOnly /\ ClientFIFO
BY DEF Init, SequencerInit, SwappedInLongPassesOnly, ClientFIFO

LEMMA OrderPublished ==
  ASSUME TypeInv, Rounds, Seqs, Times, SwappedInLongPassesOnly,
         NEW f \in Sort(pending_client_requests_), incoming' = incoming \o Sorted(f)
  PROVE  SwappedInLongPassesOnly'
<1> DEFINE q == incoming'
<1>1. PICK m \in Nat, n \in Nat :
        /\ m = Len(incoming) /\ Len(q) = m + n /\ SortLimit \in Nat
        /\ \A i \in 1 .. m : q[i] = incoming[i]
        /\ \A i \in m + 1 .. m + n : q[i].round = round
        /\ \A i \in 1 .. m + n : q[i].request.seq \in Nat
        /\ \A i, j \in 1 .. m + n : i < j =>
             \/ j <= m
             \/ InSeqOrder(q[i], q[j])
             \/ i > m /\ n > SortLimit /\ q[i].recv_time = q[j].recv_time
  BY PublishedPairs, SequencerConstants
<1> HIDE DEF q
<1>4. ASSUME NEW i \in 1 .. m + n, NEW j \in 1 .. m + n,
             i < j, q[i].request.client = q[j].request.client,
             q[i].request.seq >= q[j].request.seq
      PROVE  AtOnceInLongPass(q, i, j)
  <2>1. CASE j <= m
    <3>1. i \in 1 .. m /\ j \in 1 .. m /\ q[i] = incoming[i] /\ q[j] = incoming[j]
      BY <1>1, <1>4, <2>1
    <3>2. /\ incoming[i].recv_time = incoming[j].recv_time
          /\ \E a \in 1 .. i, b \in j .. m :
               /\ b - a >= SortLimit
               /\ \A k \in a .. b : incoming[k].round = incoming[i].round
      BY <1>1, <1>4, <3>1 DEF SwappedInLongPassesOnly, Swapped
    <3>3. PICK a \in 1 .. i, b \in j .. m :
            b - a >= SortLimit /\ \A k \in a .. b : incoming[k].round = incoming[i].round
      BY <3>2
    <3>4. b \in j .. Len(q) /\ \A k \in a .. b : k \in 1 .. m
      BY <1>1, <3>1, <3>3
    <3>5. \A k \in a .. b : q[k].round = q[i].round
      BY <1>1, <3>1, <3>3, <3>4
    <3> QED
      BY <3>1, <3>2, <3>3, <3>4, <3>5 DEF AtOnceInLongPass
  <2>2. CASE ~(j <= m)
    <3>1. ~InSeqOrder(q[i], q[j])
      BY <1>1, <1>4 DEF InSeqOrder, Same
    <3>2. i > m /\ n > SortLimit /\ q[i].recv_time = q[j].recv_time
      BY <1>1, <1>4, <2>2, <3>1
    <3>3. /\ m + 1 \in 1 .. i /\ m + n \in j .. Len(q) /\ (m + n) - (m + 1) >= SortLimit
          /\ i \in m + 1 .. m + n
      BY <1>1, <3>2
    <3>4. PICK a \in 1 .. i, b \in j .. Len(q) :
            a = m + 1 /\ b = m + n /\ b - a >= SortLimit
      BY <3>3
    <3>5. \A k \in a .. b : q[k].round = q[i].round
      BY <1>1, <3>3, <3>4
    <3> QED
      BY <3>2, <3>4, <3>5 DEF AtOnceInLongPass
  <2> QED
    BY <2>1, <2>2
<1>5. \A i, j \in 1 .. Len(q) :
        (/\ i < j /\ q[i].request.client = q[j].request.client
         /\ q[i].request.seq >= q[j].request.seq)
          => AtOnceInLongPass(q, i, j)
  BY <1>1, <1>4
<1> QED
  BY <1>5 DEF SwappedInLongPassesOnly, Swapped, AtOnceInLongPass, q

LEMMA OrderStep ==
  TypeInv /\ Rounds /\ Seqs /\ Times /\ SwappedInLongPassesOnly /\ [Next]_vars
  => SwappedInLongPassesOnly'
<1> SUFFICES ASSUME TypeInv, Rounds, Seqs, Times, SwappedInLongPassesOnly, [Next]_vars
             PROVE  SwappedInLongPassesOnly'
  OBVIOUS
<1>1. ASSUME UNCHANGED incoming
      PROVE  SwappedInLongPassesOnly'
  <2>1. \A i, j \in 1 .. Len(incoming) : Swapped(i, j) => AtOnceInLongPass(incoming, i, j)
    BY DEF SwappedInLongPassesOnly, AtOnceInLongPass
  <2>2. \A i, j \in 1 .. Len(incoming') : Swapped(i, j)' => AtOnceInLongPass(incoming', i, j)
    BY <1>1, <2>1 DEF Swapped
  <2> QED
    BY <2>2 DEF SwappedInLongPassesOnly, AtOnceInLongPass
<1>2. CASE RecvRequest
  BY <1>1, <1>2, RecvRequestStep
<1>3. CASE RecvFinished
  BY <1>1, <1>3, RecvFinishedStep, OrderPublished DEF sequencerVars
<1>4. CASE ~RecvRequest /\ ~RecvFinished
  BY <1>1, <1>4, OtherSteps DEF requestVars, sequencerVars
<1> QED
  BY <1>2, <1>3, <1>4

\* A client's requests change places only when they carry one time and were read in
\* one pass that sequenced more than SortLimit requests (fifo_sequencer.h:36).
THEOREM SwapsAreAtOnce == Spec => []SwappedInLongPassesOnly
<1>1. Init => KnownClients /\ Rounds /\ Seqs /\ Times /\ SwappedInLongPassesOnly
  BY KnownInit, RoundsInit, SeqsInit, TimesInit, OrderInit
<1>2. /\ TypeInv /\ KnownClients /\ Rounds /\ Seqs /\ Times /\ SwappedInLongPassesOnly
      /\ [Next]_vars
      => (KnownClients /\ Rounds /\ Seqs /\ Times /\ SwappedInLongPassesOnly)'
  BY KnownStep, RoundsStep, SeqsStep, TimesStep, OrderStep
<1> QED
  BY <1>1, <1>2, AlwaysTypes, PTL DEF Spec

LEMMA ShortPublished ==
  ASSUME TypeInv, Rounds, Seqs, Times, ClientFIFO, ShortPasses,
         NEW f \in Sort(pending_client_requests_), incoming' = incoming \o Sorted(f)
  PROVE  ClientFIFO'
<1> DEFINE q == incoming'
<1>1. PICK m \in Nat, n \in Nat :
        /\ m = Len(incoming) /\ Len(q) = m + n /\ n = Len(pending_client_requests_)
        /\ \A i \in 1 .. m : q[i] = incoming[i]
        /\ \A i \in 1 .. m + n : q[i].request.seq \in Nat
        /\ \A i, j \in 1 .. m + n : i < j =>
             \/ j <= m
             \/ InSeqOrder(q[i], q[j])
             \/ i > m /\ n > SortLimit /\ q[i].recv_time = q[j].recv_time
  BY PublishedPairs
<1>2. ~(n > SortLimit)
  BY <1>1, SequencerConstants DEF ShortPasses
<1> HIDE DEF q
<1>3. ASSUME NEW i \in 1 .. m + n, NEW j \in 1 .. m + n,
             i < j, q[i].request.client = q[j].request.client,
             q[i].request.seq >= q[j].request.seq
      PROVE  FALSE
  <2>1. CASE j <= m
    <3>1. i \in 1 .. m /\ j \in 1 .. m /\ q[i] = incoming[i] /\ q[j] = incoming[j]
      BY <1>1, <1>3, <2>1
    <3> QED
      BY <1>1, <1>3, <3>1 DEF ClientFIFO, Swapped
  <2>2. CASE ~(j <= m)
    BY <1>1, <1>2, <1>3, <2>2 DEF InSeqOrder, Same
  <2> QED
    BY <2>1, <2>2
<1> QED
  BY <1>1, <1>3 DEF ClientFIFO, Swapped, q

LEMMA ShortStep ==
  TypeInv /\ Rounds /\ Seqs /\ Times /\ ClientFIFO /\ ShortPasses /\ [Next]_vars => ClientFIFO'
<1> SUFFICES ASSUME TypeInv, Rounds, Seqs, Times, ClientFIFO, ShortPasses, [Next]_vars
             PROVE  ClientFIFO'
  OBVIOUS
<1>1. ASSUME UNCHANGED incoming
      PROVE  ClientFIFO'
  BY <1>1 DEF ClientFIFO, Swapped
<1>2. CASE RecvRequest
  BY <1>1, <1>2, RecvRequestStep
<1>3. CASE RecvFinished
  BY <1>1, <1>3, RecvFinishedStep, ShortPublished DEF sequencerVars
<1>4. CASE ~RecvRequest /\ ~RecvFinished
  BY <1>1, <1>4, OtherSteps DEF requestVars, sequencerVars
<1> QED
  BY <1>2, <1>3, <1>4

\* As long as no pass sequences more than SortLimit requests together, 16 in the
\* code, the engine gets a client's requests in the order the client sent them, for
\* any MaxPending (fifo_sequencer.h:29-48).
THEOREM ShortPassesKeepOrder == Spec /\ []ShortPasses => []ClientFIFO
<1>1. Init => KnownClients /\ Rounds /\ Seqs /\ Times /\ ClientFIFO
  BY KnownInit, RoundsInit, SeqsInit, TimesInit, OrderInit
<1>2. /\ TypeInv /\ KnownClients /\ Rounds /\ Seqs /\ Times /\ ClientFIFO /\ ShortPasses
      /\ [Next]_vars
      => (KnownClients /\ Rounds /\ Seqs /\ Times /\ ClientFIFO)'
  BY KnownStep, RoundsStep, SeqsStep, TimesStep, ShortStep
<1> QED
  BY <1>1, <1>2, AlwaysTypes, PTL DEF Spec

-------------------------------------------------------------------------------
(* No request is lost or let through twice.                                    *)

\* std::sort moves every request somewhere.
LEMMA SortKeepsAll ==
  ASSUME SequencerTypes, NEW f \in Sort(pending_client_requests_),
         NEW k \in 1 .. Len(pending_client_requests_)
  PROVE  \E i \in 1 .. Len(pending_client_requests_) : f[i] = k
<1>1. PICK n \in Nat : n = Len(pending_client_requests_)
  BY DEF SequencerTypes
<1>2. f \in [1 .. n -> 1 .. n]
  BY <1>1 DEF Sort
<1>3. \A i, j \in 1 .. n : i < j => f[i] # f[j]
  BY <1>1 DEF Sort
<1>4. \A i, j \in 1 .. n : f[i] = f[j] => i = j
  BY <1>3
<1>5. f \in Injection(1 .. n, 1 .. n)
  BY <1>2, <1>4 DEF Injection, IsInjective
<1>6. f \in Surjection(1 .. n, 1 .. n)
  BY <1>1, <1>5, FS_Interval, FS_Injection
<1> QED
  BY <1>1, <1>6 DEF Surjection

\* The requests of the engine's queue differ, and every number below the one that
\* is expected of a client has been let through.
Distinct ==
  \A i, j \in 1 .. Len(incoming) :
    i < j /\ Same(incoming[i], incoming[j])
      => incoming[i].request.seq # incoming[j].request.seq

Is(x, c, n) == x.request.client = c /\ x.request.seq = n

Covered ==
  status = "up" =>
    \A c \in Clients : \A n \in 1 .. cid_next_exp_seq_num_[c] - 1 :
      \/ \E i \in 1 .. Len(incoming) : Is(incoming[i], c, n)
      \/ \E i \in 1 .. Len(pending_client_requests_) : Is(pending_client_requests_[i], c, n)

LEMMA OnceInit == Init => Distinct /\ Covered
BY DEF Init, SequencerInit, Distinct, Covered

LEMMA OncePublished ==
  ASSUME TypeInv, Seqs, Distinct, Covered, UNCHANGED <<cidVars, status>>,
         NEW f \in Sort(pending_client_requests_), incoming' = incoming \o Sorted(f)
  PROVE  (Distinct /\ Covered)'
<1> DEFINE p == pending_client_requests_
           m == Len(incoming)
           n == Len(p)
<1>1. m \in Nat /\ n \in Nat /\ SequencerTypes
  BY FieldsOf DEF TypeInv
<1>2. /\ Len(incoming') = m + n
      /\ \A i \in 1 .. m : incoming'[i] = incoming[i]
      /\ \A i \in m + 1 .. m + n : i - m \in 1 .. n /\ f[i - m] \in 1 .. n
                                   /\ incoming'[i] = p[f[i - m]]
  BY Published
<1>3. \A k, l \in 1 .. n : k < l => f[k] # f[l]
  BY DEF Sort
<1>4. \A k, l \in 1 .. n :
        k # l /\ Same(p[k], p[l]) => p[k].request.seq # p[l].request.seq
  <2>1. \A k, l \in 1 .. n : k < l /\ Same(p[k], p[l]) => p[k].request.seq # p[l].request.seq
    BY FieldsOf DEF Seqs, InSeqOrder
  <2> HIDE DEF p, n
  <2> QED
    BY <1>1, <2>1 DEF Same
<1>5. \A i \in 1 .. m, k \in 1 .. n :
        Same(incoming[i], p[k]) => incoming[i].request.seq # p[k].request.seq
  BY FieldsOf DEF Seqs, InSeqOrder
<1>6. \A i \in 1 .. m + n : i \in 1 .. m \/ i \in m + 1 .. m + n
  BY <1>1
<1>7. ASSUME NEW i \in 1 .. m + n, NEW j \in 1 .. m + n, i < j, Same(incoming'[i], incoming'[j])
      PROVE  incoming'[i].request.seq # incoming'[j].request.seq
  <2>1. CASE i \in 1 .. m /\ j \in 1 .. m
    BY <1>2, <1>7, <2>1 DEF Distinct
  <2>2. CASE i \in 1 .. m /\ j \in m + 1 .. m + n
    <3>1. PICK k \in 1 .. n : incoming'[j] = p[k]
      BY <1>2, <2>2
    <3> QED
      BY <1>2, <1>5, <1>7, <2>2, <3>1
  <2>3. CASE i \in m + 1 .. m + n /\ j \in m + 1 .. m + n
    <3>1. i - m \in 1 .. n /\ j - m \in 1 .. n /\ i - m < j - m
      BY <1>1, <1>7, <2>3
    <3>2. PICK k \in 1 .. n, l \in 1 .. n : k = f[i - m] /\ l = f[j - m]
      BY <1>2, <2>3
    <3>3. k # l /\ incoming'[i] = p[k] /\ incoming'[j] = p[l]
      BY <1>2, <1>3, <2>3, <3>1, <3>2
    <3> QED
      BY <1>4, <1>7, <3>3
  <2>4. ~(i \in m + 1 .. m + n /\ j \in 1 .. m)
    BY <1>1, <1>7
  <2> QED
    BY <1>6, <2>1, <2>2, <2>3, <2>4
<1>8. ASSUME NEW c, NEW v,
             \/ \E i \in 1 .. m : Is(incoming[i], c, v)
             \/ \E k \in 1 .. n : Is(p[k], c, v)
      PROVE  \E i \in 1 .. Len(incoming') : Is(incoming'[i], c, v)
  <2>1. CASE \E i \in 1 .. m : Is(incoming[i], c, v)
    BY <1>1, <1>2, <2>1
  <2>2. CASE \E k \in 1 .. n : Is(p[k], c, v)
    <3>1. PICK k \in 1 .. n : Is(p[k], c, v)
      BY <2>2
    <3>2. PICK i \in 1 .. n : f[i] = k
      BY <1>1, <3>1, SortKeepsAll
    <3>3. PICK l \in m + 1 .. m + n : l - m = i
      <4>1. i + m \in m + 1 .. m + n /\ (i + m) - m = i
        BY <1>1
      <4> QED
        BY <4>1
    <3>4. incoming'[l] = p[k]
      BY <1>2, <3>2, <3>3
    <3>5. l \in 1 .. Len(incoming')
      BY <1>1, <1>2
    <3> QED
      BY <3>1, <3>4, <3>5
  <2> QED
    BY <1>8, <2>1, <2>2
<1>9. Covered'
  <2>1. ASSUME status = "up", NEW c \in Clients, NEW v \in 1 .. cid_next_exp_seq_num_[c] - 1
        PROVE  \E i \in 1 .. Len(incoming') : Is(incoming'[i], c, v)
    BY <1>8, <2>1 DEF Covered
  <2>2. status' = status /\ cid_next_exp_seq_num_' = cid_next_exp_seq_num_
    BY DEF cidVars
  <2>3. \A i, c, v : Is(incoming[i], c, v)' <=> Is(incoming'[i], c, v)
    BY DEF Is
  <2> QED
    BY <2>1, <2>2, <2>3 DEF Covered
<1> HIDE DEF m, n, p
<1>10. \A i, j \in 1 .. Len(incoming') :
         i < j /\ Same(incoming'[i], incoming'[j])
           => incoming'[i].request.seq # incoming'[j].request.seq
  BY <1>2, <1>7
<1>11. \A i, j : Same(incoming[i], incoming[j])' <=> Same(incoming'[i], incoming'[j])
  BY DEF Same
<1>12. Distinct'
  BY <1>10, <1>11 DEF Distinct
<1> QED
  BY <1>9, <1>12

\* A client's number moves on exactly when its request is let through, unless the
\* process dies of it.
LEMMA LetInOrNot ==
  ASSUME TypeInv, RecvRequest, status' = "up"
  PROVE  \E c \in Clients, r \in Requests :
           /\ r.client = c
           /\ \/ /\ LetIn(c, r)
                 /\ \A d \in Clients \ {c} : cid_next_exp_seq_num_'[d] = cid_next_exp_seq_num_[d]
              \/ UNCHANGED <<pending_client_requests_, cid_next_exp_seq_num_>>
<1> DEFINE s == Visited
           r == Request(s)
           c == r.client
<1> USE DEF TypeInv
<1>1. s \in Sockets /\ r \in Requests /\ c \in Clients
  BY RequestInStream DEF RecvRequest, Requests, At
<1>2. /\ cid_tcp_socket_' = [cid_tcp_socket_ EXCEPT ![c] = Owner(c, s)]
      /\ \/ /\ Owner(c, s) = s /\ InSequence(c, r.seq)
            /\ cid_next_exp_seq_num_' = [cid_next_exp_seq_num_ EXCEPT ![c] = @ + 1]
            /\ addClientRequest(rx_time, r)
         \/ /\ cid_next_exp_seq_num_' = [cid_next_exp_seq_num_ EXCEPT ![c] = @]
            /\ UNCHANGED sequencerVars
  BY DEF RecvRequest, Hear
<1> HIDE DEF r, c
<1>3. CASE UNCHANGED sequencerVars /\ cid_next_exp_seq_num_' = [cid_next_exp_seq_num_ EXCEPT ![c] = @]
  <2>1. cid_next_exp_seq_num_' = cid_next_exp_seq_num_
    BY <1>1, <1>3 DEF ClientTypes
  <2> QED
    BY <1>1, <1>3, <2>1 DEF c, sequencerVars
<1>4. CASE /\ Owner(c, s) = s /\ InSequence(c, r.seq)
           /\ cid_next_exp_seq_num_' = [cid_next_exp_seq_num_ EXCEPT ![c] = @ + 1]
           /\ addClientRequest(rx_time, r)
  <2>1. pending_client_requests_' =
          Append(pending_client_requests_,
                 [recv_time |-> rx_time, request |-> r, round |-> round])
    BY <1>4 DEF addClientRequest
  <2>2. pending_client_requests_ \in Seq(RecvTimeClientRequests)
    BY DEF SequencerTypes
  <2>3. /\ cid_tcp_socket_'[c] = s /\ cid_next_exp_seq_num_'[c] = cid_next_exp_seq_num_[c] + 1
        /\ \A d \in Clients \ {c} : cid_next_exp_seq_num_'[d] = cid_next_exp_seq_num_[d]
    BY <1>1, <1>2, <1>4 DEF ClientTypes
  <2>4. LetIn(c, r)
    BY <1>4, <2>1, <2>2, <2>3 DEF LetIn, InSequence
  <2> QED
    BY <1>1, <2>3, <2>4 DEF c
<1> QED
  BY <1>2, <1>3, <1>4

LEMMA OnceRecvRequest ==
  ASSUME TypeInv, Distinct, Covered, RecvRequest
  PROVE  (Distinct /\ Covered)'
<1> DEFINE p == pending_client_requests_
           next == cid_next_exp_seq_num_
<1>1. UNCHANGED incoming /\ status = "up"
  BY RecvRequestStep DEF RecvRequest, At
<1>2. ASSUME status' = "up"
      PROVE  Covered'
  <2>1. PICK c \in Clients, r \in Requests :
          /\ r.client = c
          /\ \/ LetIn(c, r) /\ \A d \in Clients \ {c} : next'[d] = next[d]
             \/ UNCHANGED <<p, next>>
    BY <1>2, LetInOrNot
  <2>2. CASE UNCHANGED <<p, next>>
    BY <1>1, <2>2 DEF Covered, Is
  <2>3. CASE LetIn(c, r) /\ \A d \in Clients \ {c} : next'[d] = next[d]
    <3>1. /\ \A i \in 1 .. Len(p) : i \in 1 .. Len(p') /\ p'[i] = p[i]
          /\ Len(p') \in 1 .. Len(p') /\ Is(p'[Len(p')], c, next[c]) /\ next'[c] = next[c] + 1
      BY <2>1, <2>3, FieldsOf DEF LetIn, Is
    <3>2. ASSUME NEW d \in Clients, NEW n \in 1 .. next'[d] - 1
          PROVE  \/ \E i \in 1 .. Len(incoming) : Is(incoming[i], d, n)
                 \/ \E i \in 1 .. Len(p') : Is(p'[i], d, n)
      <4>1. next[d] \in Nat /\ next[c] \in Nat
        BY DEF TypeInv, ClientTypes
      <4>2. CASE d = c /\ n = next[c]
        BY <3>1, <4>2
      <4>3. CASE ~(d = c /\ n = next[c])
        <5>1. n \in 1 .. next[d] - 1
          BY <2>3, <3>1, <3>2, <4>1, <4>3
        <5>2. \/ \E i \in 1 .. Len(incoming) : Is(incoming[i], d, n)
              \/ \E i \in 1 .. Len(p) : Is(p[i], d, n)
          BY <1>1, <5>1 DEF Covered
        <5> QED
          BY <3>1, <5>2
      <4> QED
        BY <4>2, <4>3
    <3> QED
      BY <1>1, <3>2 DEF Covered, Is
  <2> QED
    BY <2>1, <2>2, <2>3
<1> QED
  BY <1>1, <1>2 DEF Covered, Distinct, Same

LEMMA OnceStep == TypeInv /\ Seqs /\ Distinct /\ Covered /\ [Next]_vars => (Distinct /\ Covered)'
<1> SUFFICES ASSUME TypeInv, Seqs, Distinct, Covered, [Next]_vars
             PROVE  (Distinct /\ Covered)'
  OBVIOUS
<1>1. ASSUME UNCHANGED requestVars, status' = "up" => status = "up"
      PROVE  (Distinct /\ Covered)'
  BY <1>1 DEF Distinct, Covered, Is, Same, requestVars, sequencerVars, cidVars
<1>2. CASE RecvRequest
  BY <1>2, OnceRecvRequest
<1>3. CASE RecvFinished
  <2>1. status' = status /\ UNCHANGED cidVars
    BY <1>3, RecvFinishedStep
  <2>2. CASE UNCHANGED sequencerVars
    BY <1>1, <2>1, <2>2 DEF requestVars
  <2>3. ASSUME NEW f \in Sort(pending_client_requests_), incoming' = incoming \o Sorted(f)
        PROVE  (Distinct /\ Covered)'
    BY <2>1, <2>3, OncePublished
  <2> QED
    BY <1>3, <2>2, <2>3, RecvFinishedStep
<1>4. CASE ~RecvRequest /\ ~RecvFinished
  <2>1. status' = "up" => status = "up"
    BY <1>4 DEF Next, Server, Arrivals, Engine, Begin, GoOn, vars, Connect, Send, Arrive, Process, LogBanner, log,
       At, poll, Receive, RecvRemainder, SendBuffered, Respond, Responded
  <2> QED
    BY <1>1, <1>4, <2>1, OtherSteps
<1> QED
  BY <1>2, <1>3, <1>4

\* A client's requests are let through exactly once each, up to the one that is
\* expected next, wherever they are between the sockets and the engine
\* (order_server.h:64-90).
THEOREM RequestsOnce == Spec => []ExactlyOnceInSequence
<1> DEFINE p == pending_client_requests_
           m == Len(incoming)
           n == Len(p)
<1>1. ASSUME TypeInv, Seqs, Distinct, Covered, status = "up", NEW c \in Clients
      PROVE  LET own == {i \in 1 .. Len(LetThrough) : LetThrough[i].request.client = c}
             IN  /\ \A v \in 1 .. cid_next_exp_seq_num_[c] - 1 :
                      \E i \in own : /\ LetThrough[i].request.seq = v
                                     /\ \A j \in own \ {i} : LetThrough[j].request.seq # v
                 /\ \A i \in own : LetThrough[i].request.seq < cid_next_exp_seq_num_[c]
  <2> DEFINE own == {i \in 1 .. Len(LetThrough) : LetThrough[i].request.client = c}
  <2>1. m \in Nat /\ n \in Nat
    BY <1>1, FieldsOf
  <2>2. /\ Len(LetThrough) = m + n
        /\ \A i \in 1 .. m : LetThrough[i] = incoming[i]
        /\ \A i \in m + 1 .. m + n : i - m \in 1 .. n /\ LetThrough[i] = p[i - m]
    <3>1. incoming \in Seq(RecvTimeClientRequests) /\ p \in Seq(RecvTimeClientRequests)
      BY <1>1 DEF TypeInv, SequencerTypes
    <3> QED
      BY <2>1, <3>1, ConcatProperties DEF LetThrough
  <2>3. ASSUME NEW i \in 1 .. m + n, NEW j \in 1 .. m + n, i < j,
               Same(LetThrough[i], LetThrough[j])
        PROVE  LetThrough[i].request.seq # LetThrough[j].request.seq
    <3>1. CASE j <= m
      <4>1. i \in 1 .. m /\ j \in 1 .. m
        BY <2>1, <2>3, <3>1
      <4>2. LetThrough[i] = incoming[i] /\ LetThrough[j] = incoming[j]
        BY <2>2, <4>1
      <4>3. Same(incoming[i], incoming[j]) => incoming[i].request.seq # incoming[j].request.seq
        BY <1>1, <2>3, <4>1 DEF Distinct
      <4>4. Same(incoming[i], incoming[j])
        BY <2>3, <4>2
      <4> QED
        BY <4>2, <4>3, <4>4
    <3>2. CASE i <= m /\ ~(j <= m)
      <4>1. PICK k \in 1 .. n : i \in 1 .. m /\ LetThrough[j] = p[k]
        BY <2>1, <2>2, <3>2
      <4>2. /\ InSeqOrder(incoming[i], p[k])
            /\ incoming[i].request.seq \in Nat /\ p[k].request.seq \in Nat
        BY <1>1, <4>1, FieldsOf DEF Seqs
      <4>3. LetThrough[i] = incoming[i]
        BY <2>2, <4>1
      <4> QED
        BY <2>3, <4>1, <4>2, <4>3 DEF InSeqOrder
    <3>3. CASE ~(i <= m)
      <4>1. PICK k \in 1 .. n, l \in 1 .. n :
              k < l /\ LetThrough[i] = p[k] /\ LetThrough[j] = p[l]
        <5>1. i - m \in 1 .. n /\ j - m \in 1 .. n /\ i - m < j - m
              /\ LetThrough[i] = p[i - m] /\ LetThrough[j] = p[j - m]
          BY <2>1, <2>2, <2>3, <3>3
        <5> QED
          BY <5>1
      <4>2. /\ InSeqOrder(p[k], p[l]) /\ p[k].request.seq \in Nat /\ p[l].request.seq \in Nat
        BY <1>1, <4>1, FieldsOf DEF Seqs
      <4> QED
        BY <2>3, <4>1, <4>2 DEF InSeqOrder
    <3> QED
      BY <3>1, <3>2, <3>3
  <2>4. \A i \in 1 .. m + n :
          LetThrough[i].request.seq < cid_next_exp_seq_num_[LetThrough[i].request.client]
    <3>1. \A i \in 1 .. m + n : i \in 1 .. m \/ i \in m + 1 .. m + n
      BY <2>1
    <3> QED
      BY <1>1, <2>2, <3>1 DEF Seqs
  <2>5. ASSUME NEW v \in 1 .. cid_next_exp_seq_num_[c] - 1
        PROVE  \E i \in 1 .. m + n : Is(LetThrough[i], c, v)
    <3>1. \/ \E i \in 1 .. m : Is(incoming[i], c, v)
          \/ \E k \in 1 .. n : Is(p[k], c, v)
      BY <1>1 DEF Covered
    <3>2. ASSUME NEW k \in 1 .. n
          PROVE  k + m \in 1 .. m + n /\ LetThrough[k + m] = p[k]
      <4>1. k + m \in m + 1 .. m + n /\ k + m - m = k
        BY <2>1
      <4> QED
        BY <2>1, <2>2, <4>1
    <3>3. \A i \in 1 .. m : i \in 1 .. m + n /\ LetThrough[i] = incoming[i]
      BY <2>1, <2>2
    <3> QED
      BY <3>1, <3>2, <3>3
  <2>6. ASSUME NEW v \in 1 .. cid_next_exp_seq_num_[c] - 1
        PROVE  \E i \in own : /\ LetThrough[i].request.seq = v
                              /\ \A j \in own \ {i} : LetThrough[j].request.seq # v
    <3>1. PICK i \in 1 .. m + n : Is(LetThrough[i], c, v)
      BY <2>5
    <3>2. i \in own /\ LetThrough[i].request.seq = v
      BY <2>2, <3>1 DEF Is
    <3>3. ASSUME NEW j \in own \ {i}
          PROVE  LetThrough[j].request.seq # v
      <4>1. j \in 1 .. m + n /\ (i < j \/ j < i) /\ Same(LetThrough[i], LetThrough[j])
            /\ Same(LetThrough[j], LetThrough[i])
        BY <2>1, <2>2, <3>1, <3>3 DEF Is, Same
      <4> QED
        BY <2>3, <3>1, <4>1 DEF Is
    <3> QED
      BY <3>2, <3>3
  <2> QED
    BY <2>2, <2>4, <2>6
<1>2. TypeInv /\ Seqs /\ Distinct /\ Covered => ExactlyOnceInSequence
  BY <1>1 DEF ExactlyOnceInSequence
<1>3. Init => Seqs /\ Distinct /\ Covered
  BY SeqsInit, OnceInit
<1>4. TypeInv /\ Seqs /\ Distinct /\ Covered /\ [Next]_vars => (Seqs /\ Distinct /\ Covered)'
  BY SeqsStep, OnceStep
<1> QED
  BY <1>2, <1>3, <1>4, AlwaysTypes, PTL DEF Spec

-------------------------------------------------------------------------------
(* The numbers of the responses.                                               *)

\* q is all the responses a that the engine has counted and next has not, in order.
Numbered(q, a, next) ==
  /\ \A c \in Clients : next[c] <= a[c] + 1
  /\ \A i \in 1 .. Len(q) : next[q[i].client] <= q[i].number /\ q[i].number <= a[q[i].client]
  /\ \A i, j \in 1 .. Len(q) : i < j /\ q[i].client = q[j].client => q[i].number < q[j].number
  /\ \A c \in Clients : \A n \in next[c] .. a[c] :
       \E i \in 1 .. Len(q) : q[i].client = c /\ q[i].number = n

LEMMA NumberedAnswer ==
  ASSUME NEW q \in Seq(Responses), NEW a \in [Clients -> Nat], NEW next \in [Clients -> Nat],
         NEW c \in Clients, Numbered(q, a, next)
  PROVE  Numbered(Append(q, [client |-> c, number |-> a[c] + 1]), [a EXCEPT ![c] = @ + 1], next)
<1> DEFINE x == [client |-> c, number |-> a[c] + 1]
           b == [a EXCEPT ![c] = @ + 1]
           p == Append(q, x)
<1>1. PICK m \in Nat : m = Len(q)
  OBVIOUS
<1>2. /\ Len(p) = m + 1 /\ \A i \in 1 .. m : p[i] = q[i]
      /\ p[m + 1].client = c /\ p[m + 1].number = a[c] + 1
  BY <1>1
<1>3. \A d \in Clients : b[d] \in Nat /\ a[d] \in Nat /\ next[d] \in Nat
                         /\ b[d] = IF d = c THEN a[d] + 1 ELSE a[d]
  OBVIOUS
<1>4. \A i \in 1 .. m : q[i].client \in Clients /\ q[i].number \in Nat
  BY <1>1, ResponseFields
<1> HIDE DEF p, x, b
<1>5. ASSUME NEW d \in Clients
      PROVE  next[d] <= b[d] + 1
  <2>1. next[d] <= a[d] + 1
    BY DEF Numbered
  <2>2. PICK v \in Nat, w \in Nat : v = a[d] /\ w = b[d] /\ v <= w
    BY <1>3
  <2> QED
    BY <1>3, <2>1, <2>2
<1>6. ASSUME NEW i \in 1 .. m + 1
      PROVE  next[p[i].client] <= p[i].number /\ p[i].number <= b[p[i].client]
  <2>1. CASE i = m + 1
    <3>1. next[c] <= a[c] + 1
      BY DEF Numbered
    <3> QED
      BY <1>2, <1>3, <2>1, <3>1
  <2>2. CASE i \in 1 .. m
    <3>1. PICK d \in Clients, v \in Nat : d = q[i].client /\ v = q[i].number /\ p[i] = q[i]
      BY <1>2, <1>4, <2>2
    <3>2. next[d] <= v /\ v <= a[d]
      BY <1>1, <2>2, <3>1 DEF Numbered
    <3>3. v <= b[d]
      <4>1. PICK w \in Nat, z \in Nat : w = a[d] /\ z = b[d] /\ w <= z
        BY <1>3
      <4> QED
        BY <3>2, <4>1
    <3> QED
      BY <3>1, <3>2, <3>3
  <2> QED
    BY <1>1, <2>1, <2>2
<1>7. ASSUME NEW i \in 1 .. m + 1, NEW j \in 1 .. m + 1, i < j, p[i].client = p[j].client
      PROVE  p[i].number < p[j].number
  <2>1. CASE j = m + 1
    <3>1. i \in 1 .. m /\ p[i] = q[i] /\ q[i].client = c
      BY <1>1, <1>2, <1>7, <2>1
    <3>2. q[i].number <= a[c] /\ q[i].number \in Nat /\ a[c] \in Nat
      BY <1>1, <1>3, <1>4, <3>1 DEF Numbered
    <3> QED
      BY <1>2, <2>1, <3>1, <3>2
  <2>2. CASE j \in 1 .. m
    <3>1. i \in 1 .. m
      BY <1>1, <1>7, <2>2
    <3> QED
      BY <1>1, <1>2, <1>7, <2>2, <3>1 DEF Numbered
  <2> QED
    BY <1>1, <2>1, <2>2
<1>8. ASSUME NEW d \in Clients, NEW n \in next[d] .. b[d]
      PROVE  \E i \in 1 .. m + 1 : p[i].client = d /\ p[i].number = n
  <2>1. CASE d = c /\ n = a[c] + 1
    BY <1>1, <1>2, <2>1
  <2>2. CASE ~(d = c /\ n = a[c] + 1)
    <3>1. n \in next[d] .. a[d]
      BY <1>3, <1>8, <2>2
    <3>2. PICK i \in 1 .. m : q[i].client = d /\ q[i].number = n
      BY <1>1, <3>1 DEF Numbered
    <3> QED
      BY <1>1, <1>2, <3>2
  <2> QED
    BY <2>1, <2>2
<1>9. Numbered(p, b, next)
  BY <1>2, <1>5, <1>6, <1>7, <1>8 DEF Numbered
<1> QED
  BY <1>9 DEF p, x, b

LEMMA NumberedRespond ==
  ASSUME NEW q \in Seq(Responses), q # <<>>, NEW a \in [Clients -> Nat],
         NEW next \in [Clients -> Nat], Numbered(q, a, next)
  PROVE  /\ Head(q).client \in Clients /\ Head(q).number = next[Head(q).client]
         /\ Numbered(Tail(q), a, [next EXCEPT ![Head(q).client] = @ + 1])
<1> DEFINE c == q[1].client
           later == [next EXCEPT ![c] = @ + 1]
           t == Tail(q)
<1>1. PICK m \in Nat : m = Len(q)
  OBVIOUS
<1>2. m > 0 /\ Head(q) = q[1] /\ Len(t) = m - 1 /\ \A i \in 1 .. m - 1 : t[i] = q[i + 1]
  BY <1>1
<1>3. \A i \in 1 .. m : q[i].client \in Clients /\ q[i].number \in Nat
  BY <1>1, ResponseFields
<1>4. c \in Clients
  BY <1>2, <1>3
<1>5. \A d \in Clients : a[d] \in Nat /\ next[d] \in Nat /\ later[d] \in Nat
                         /\ later[d] = IF d = c THEN next[d] + 1 ELSE next[d]
  BY <1>4
<1> HIDE DEF t, later, c
<1>6. /\ \A d \in Clients : next[d] <= a[d] + 1
      /\ \A i \in 1 .. m : next[q[i].client] <= q[i].number /\ q[i].number <= a[q[i].client]
      /\ \A i, j \in 1 .. m : i < j /\ q[i].client = q[j].client => q[i].number < q[j].number
      /\ \A d \in Clients : \A n \in next[d] .. a[d] :
           \E i \in 1 .. m : q[i].client = d /\ q[i].number = n
  BY <1>1 DEF Numbered
<1>7. next[c] <= q[1].number /\ q[1].number <= a[c] /\ q[1].number \in Nat
  BY <1>2, <1>3, <1>6 DEF c
<1>8. q[1].number = next[c]
  <2>1. next[c] \in next[c] .. a[c]
    BY <1>4, <1>5, <1>7
  <2>2. PICK i \in 1 .. m : q[i].client = c /\ q[i].number = next[c]
    BY <1>4, <1>6, <2>1
  <2>3. CASE i = 1
    BY <2>2, <2>3
  <2>4. CASE i > 1
    <3>1. q[1].number < q[i].number
      BY <1>2, <1>6, <2>2, <2>4 DEF c
    <3> QED
      BY <1>4, <1>5, <1>7, <2>2, <3>1
  <2> QED
    BY <2>3, <2>4
<1>9. \A i \in 1 .. m - 1 : i + 1 \in 1 .. m /\ t[i] = q[i + 1]
  BY <1>2
<1>10. ASSUME NEW d \in Clients
       PROVE  later[d] <= a[d] + 1
  <2>1. CASE d = c
    BY <1>4, <1>5, <1>7, <1>8, <2>1
  <2>2. CASE d # c
    BY <1>5, <1>6, <2>2
  <2> QED
    BY <2>1, <2>2
<1>11. ASSUME NEW i \in 1 .. m - 1
       PROVE  later[t[i].client] <= t[i].number /\ t[i].number <= a[t[i].client]
  <2>1. PICK j \in 1 .. m : j > 1 /\ t[i] = q[j]
    BY <1>9
  <2>2. PICK d \in Clients, v \in Nat : d = q[j].client /\ v = q[j].number
    BY <1>3
  <2>3. next[d] <= v /\ v <= a[d]
    BY <1>6, <2>2
  <2>4. d = c => next[c] < v
    <3>1. d = c => q[1].number < q[j].number
      <4>1. 1 \in 1 .. m /\ 1 < j
        BY <2>1
      <4>2. d = c => q[1].client = q[j].client
        BY <2>2 DEF c
      <4> QED
        BY <1>6, <4>1, <4>2
    <3> QED
      BY <1>8, <2>2, <3>1
  <2>5. later[d] <= v
    BY <1>5, <2>3, <2>4
  <2> QED
    BY <2>1, <2>2, <2>3, <2>5
<1>12. ASSUME NEW i \in 1 .. m - 1, NEW j \in 1 .. m - 1, i < j, t[i].client = t[j].client
       PROVE  t[i].number < t[j].number
  <2>1. i + 1 \in 1 .. m /\ j + 1 \in 1 .. m /\ i + 1 < j + 1
    BY <1>9, <1>12
  <2>2. t[i] = q[i + 1] /\ t[j] = q[j + 1]
    BY <1>9
  <2> QED
    BY <1>6, <1>12, <2>1, <2>2
<1>13. ASSUME NEW d \in Clients, NEW n \in later[d] .. a[d]
       PROVE  \E i \in 1 .. m - 1 : t[i].client = d /\ t[i].number = n
  <2>1. n \in next[d] .. a[d] /\ (d = c => n # next[c])
    BY <1>5, <1>13
  <2>2. PICK i \in 1 .. m : q[i].client = d /\ q[i].number = n
    BY <1>6, <2>1
  <2>3. i # 1
    BY <1>8, <2>1, <2>2 DEF c
  <2>4. i - 1 \in 1 .. m - 1 /\ i - 1 + 1 = i
    BY <1>1, <2>3
  <2> QED
    BY <1>9, <2>2, <2>4
<1>14. Numbered(t, a, later)
  BY <1>2, <1>10, <1>11, <1>12, <1>13 DEF Numbered
<1> QED
  BY <1>2, <1>4, <1>8, <1>14 DEF t, later, c

Numbers == Numbered(outgoing_responses_, answers, cid_next_outgoing_seq_num_)

LEMMA NumbersInit == Init => Numbers
BY DEF Init, Numbers, Numbered

LEMMA NumberedResponse ==
  ASSUME NEW q \in Seq(Responses), NEW a \in [Clients -> Nat], NEW next \in [Clients -> Nat],
         NEW c \in Clients \cup {Null}, Numbered(q, a, next)
  PROVE  Numbered(q \o Response(c, a), Told(c, a), next) /\ q \o Response(c, a) \in Seq(Responses)
<1>1. CASE c = Null
  BY <1>1 DEF Response, Told
<1>2. CASE c \in Clients /\ c # Null
  <2>1. Told(c, a) = [a EXCEPT ![c] = @ + 1] /\ Told(c, a)[c] = a[c] + 1
    BY <1>2 DEF Told
  <2>2. [client |-> c, number |-> a[c] + 1] \in Responses
    BY <1>2 DEF Responses
  <2>3. q \o Response(c, a) = Append(q, [client |-> c, number |-> a[c] + 1])
    BY <1>2, <2>1, <2>2 DEF Response
  <2>4. Numbered(Append(q, [client |-> c, number |-> a[c] + 1]), [a EXCEPT ![c] = @ + 1], next)
    BY <1>2, NumberedAnswer
  <2> QED
    BY <2>1, <2>2, <2>3, <2>4
<1> QED
  BY <1>1, <1>2

LEMMA NumbersEngine ==
  ASSUME TypeInv, Numbers, Engine
  PROVE  Numbers'
<1> DEFINE q == outgoing_responses_
           next == cid_next_outgoing_seq_num_
<1>1. PICK taken \in 0 .. 1, c \in Clients \cup {Null}, d \in Clients \cup {Null} :
        Process(taken, c, d)
  BY EngineStep DEF TypeInv, OutTypes
<1>2. q \in Seq(Responses) /\ next \in [Clients -> Nat] /\ answers \in [Clients -> Nat]
  BY DEF TypeInv, OutTypes, ClientTypes
<1>3. /\ Numbered(q \o Response(c, answers), Told(c, answers), next)
      /\ q \o Response(c, answers) \in Seq(Responses)
  BY <1>2, NumberedResponse DEF Numbers
<1>4. Told(c, answers) \in [Clients -> Nat]
  BY <1>2, ResponseTypes
<1>5. Numbered((q \o Response(c, answers)) \o Response(d, Told(c, answers)),
               Told(d, Told(c, answers)), next)
  BY <1>2, <1>3, <1>4, NumberedResponse
<1>6. /\ q' = (q \o Response(c, answers)) \o Response(d, Told(c, answers))
      /\ answers' = Told(d, Told(c, answers)) /\ next' = next
  BY <1>1 DEF Process
<1> QED
  BY <1>5, <1>6 DEF Numbers

LEMMA NumbersStep == TypeInv /\ KnownClients /\ Numbers /\ [Next]_vars => Numbers'
<1> SUFFICES ASSUME TypeInv, KnownClients, Numbers, [Next]_vars
             PROVE  Numbers'
  OBVIOUS
<1>1. ASSUME UNCHANGED <<outgoing_responses_, answers, cid_next_outgoing_seq_num_>>
      PROVE  Numbers'
  BY <1>1 DEF Numbers
<1>2. CASE Engine
  BY <1>2, NumbersEngine
<1>3. CASE Respond
  <2> DEFINE x == Head(outgoing_responses_)
  <2>1. /\ outgoing_responses_ \in Seq(Responses) /\ answers \in [Clients -> Nat]
        /\ cid_next_outgoing_seq_num_ \in [Clients -> Nat]
    BY DEF TypeInv, OutTypes, ClientTypes
  <2>2. outgoing_responses_ # <<>> /\ answers' = answers
    BY <1>3 DEF Respond, engineVars
  <2>3. HasSocket(x.client)
    BY <2>1, <2>2 DEF KnownClients
  <2>4. /\ outgoing_responses_' = Tail(outgoing_responses_)
        /\ cid_next_outgoing_seq_num_' = [cid_next_outgoing_seq_num_ EXCEPT ![x.client] = @ + 1]
    BY <1>3, <2>3 DEF Respond, HasSocket
  <2> HIDE DEF x
  <2> QED
    BY <2>1, <2>2, <2>4, NumberedRespond DEF Numbers, x
<1>4. CASE ~Respond /\ ~Engine
  BY <1>1, <1>4 DEF Next, Server, Arrivals, vars, engineVars, outVars, Connect, Send, Arrive,
     LogBanner, poll, Receive, RecvRequest, RecvRemainder, SendBuffered, RecvFinished, Responded
<1> QED
  BY <1>2, <1>3, <1>4

-------------------------------------------------------------------------------
(* The order of the messages on a connection.                                  *)

\* Everything that has been buffered on s, or sent from the buffer.
Out(s) == received[s] \o outbound_data_[s]

\* Messages numbered as the engine numbered the responses, in order for each client,
\* on the client's socket, with garbled frames between them.
RightMessages(s, q) ==
  /\ \A i \in 1 .. Len(q) : q[i] # Garbled =>
       LET x == q[i].response
       IN  /\ q[i].seq = x.number /\ cid_tcp_socket_[x.client] = s
           /\ q[i].seq < cid_next_outgoing_seq_num_[x.client]
  /\ \A i, j \in 1 .. Len(q) :
       i < j /\ q[i] # Garbled /\ q[j] # Garbled /\ q[i].response.client = q[j].response.client
         => q[i].response.number < q[j].response.number

Outs == \A s \in Sockets : RightMessages(s, Out(s))

\* A kernel that takes all it is given never stops inside a response.
NothingTorn == SendsAll => \A s \in Sockets : cut[s] = 0 /\ received[s] \in Seq(Messages)

LEMMA RightPrefix ==
  ASSUME NEW s, NEW q, NEW p, RightMessages(s, q),
         \A i \in 1 .. Len(p) : p[i] # Garbled => i \in 1 .. Len(q) /\ p[i] = q[i]
  PROVE  RightMessages(s, p)
BY DEF RightMessages

LEMMA OutTyped ==
  ASSUME TypeInv, NEW s \in Sockets
  PROVE  /\ received[s] \in Seq(Messages \cup {Garbled})
         /\ outbound_data_[s] \in Seq(Messages \cup {Garbled})
         /\ Out(s) \in Seq(Messages \cup {Garbled})
         /\ Len(received[s]) \in Nat /\ Len(outbound_data_[s]) \in Nat
         /\ Len(Out(s)) = Len(received[s]) + Len(outbound_data_[s])
         /\ \A i \in 1 .. Len(received[s]) + Len(outbound_data_[s]) :
              Out(s)[i] = IF i <= Len(received[s]) THEN received[s][i]
                          ELSE outbound_data_[s][i - Len(received[s])]
         /\ \A i \in 1 .. Len(Out(s)) : Out(s)[i] # Garbled =>
              /\ Out(s)[i].response.client \in Clients
              /\ Out(s)[i].response.number \in Nat
              /\ Out(s)[i].seq \in Nat
<1>1. received[s] \in Seq(Messages \cup {Garbled}) /\ outbound_data_[s] \in Seq(Messages \cup {Garbled})
  BY DEF TypeInv, OutTypes
<1>2. /\ Out(s) \in Seq(Messages \cup {Garbled})
      /\ Len(Out(s)) = Len(received[s]) + Len(outbound_data_[s])
      /\ \A i \in 1 .. Len(received[s]) + Len(outbound_data_[s]) :
           Out(s)[i] = IF i <= Len(received[s]) THEN received[s][i]
                       ELSE outbound_data_[s][i - Len(received[s])]
  BY <1>1, ConcatProperties DEF Out
<1>3. Len(received[s]) \in Nat /\ Len(outbound_data_[s]) \in Nat
  BY <1>1
<1>4. ASSUME NEW i \in 1 .. Len(Out(s)), Out(s)[i] # Garbled
      PROVE  /\ Out(s)[i].response.client \in Clients
             /\ Out(s)[i].response.number \in Nat /\ Out(s)[i].seq \in Nat
  <2>1. PICK x \in Messages \cup {Garbled} : x = Out(s)[i]
    BY <1>2, <1>4, ElementOfSeq
  <2>2. x \in Messages
    BY <1>4, <2>1
  <2>3. x.response \in Responses /\ x.seq \in Nat
    BY <2>2 DEF Messages
  <2> QED
    BY <2>1, <2>3 DEF Responses
<1> QED
  BY <1>1, <1>2, <1>3, <1>4

LEMMA OutsInit == Init => Outs
BY DEF Init, Outs, Out, RightMessages

\* What the client completes of the buffer stands where the buffer stood, or is
\* garbled.
LEMMA OutsSendBuffered ==
  ASSUME TypeInv, Outs, SendBuffered
  PROVE  Outs'
<1>1. PICK s \in Sockets : s = Visited
  BY DEF TypeInv, LoopTypes, Visited, SendBuffered, At
<1>2. PICK n \in 0 .. Parts * Len(outbound_data_[s]) :
        received' = [received EXCEPT ![s] = @ \o Completed(s, n)]
  BY <1>1 DEF SendBuffered, Taken
<1>3. /\ outbound_data_' = [outbound_data_ EXCEPT ![s] = <<>>]
      /\ UNCHANGED <<cid_tcp_socket_, cid_next_outgoing_seq_num_>>
  BY <1>1 DEF SendBuffered, cidVars
<1>4. /\ received \in [Sockets -> Seq(Messages \cup {Garbled})]
      /\ outbound_data_ \in [Sockets -> Seq(Messages)]
  BY DEF TypeInv, OutTypes
<1>5. \A u, q : RightMessages(u, q)' <=> RightMessages(u, q)
  BY <1>3 DEF RightMessages
<1>6. RightMessages(s, Out(s)')
  <2>1. PICK r \in Seq(Messages \cup {Garbled}), b \in Seq(Messages),
             d \in Seq(Messages \cup {Garbled}) :
          /\ r = received[s] /\ b = outbound_data_[s] /\ d = Completed(s, n)
          /\ \A i \in 1 .. Len(d) : d[i] # Garbled => i <= Len(b) /\ d[i] = b[i]
    <3>1. /\ Completed(s, n) \in Seq(Messages \cup {Garbled})
          /\ cut[s] # 0 => \A k \in 1 .. Len(Completed(s, n)) : Completed(s, n)[k] = Garbled
          /\ cut[s] = 0 =>
               /\ Len(Completed(s, n)) <= Len(outbound_data_[s])
               /\ \A k \in 1 .. Len(Completed(s, n)) :
                    Completed(s, n)[k] = outbound_data_[s][k]
      BY FramesCompleted
    <3>2. Len(outbound_data_[s]) \in Nat /\ Len(Completed(s, n)) \in Nat
      BY <1>4, <3>1
    <3>3. \A i \in 1 .. Len(Completed(s, n)) : Completed(s, n)[i] # Garbled =>
            i <= Len(outbound_data_[s]) /\ Completed(s, n)[i] = outbound_data_[s][i]
      BY <3>1, <3>2
    <3> QED
      BY <1>4, <3>1, <3>3
  <2>2. PICK k \in Nat, l \in Nat, e \in Nat : k = Len(r) /\ l = Len(b) /\ e = Len(d)
    OBVIOUS
  <2>3. /\ r \o d \in Seq(Messages \cup {Garbled}) /\ Len(r \o d) = k + e
        /\ \A i \in 1 .. k + e : (r \o d)[i] = IF i <= k THEN r[i] ELSE d[i - k]
    BY <2>2, ConcatProperties
  <2>4. PICK p : p = r \o d
    OBVIOUS
  <2>5. Out(s)' = p
    <3>1. received'[s] = r \o d /\ outbound_data_'[s] = <<>>
      BY <1>2, <1>3, <1>4, <2>1
    <3> QED
      BY <2>3, <2>4, <3>1 DEF Out
  <2>6. PICK q : /\ q = Out(s) /\ Len(q) = k + l
                 /\ \A i \in 1 .. k + l : q[i] = IF i <= k THEN r[i] ELSE b[i - k]
    <3>1. /\ Len(Out(s)) = Len(received[s]) + Len(outbound_data_[s])
          /\ \A i \in 1 .. Len(received[s]) + Len(outbound_data_[s]) :
               Out(s)[i] = IF i <= Len(received[s]) THEN received[s][i]
                           ELSE outbound_data_[s][i - Len(received[s])]
      BY OutTyped
    <3>2. k = Len(received[s]) /\ l = Len(outbound_data_[s])
      BY <2>1, <2>2
    <3> QED
      BY <2>1, <3>1, <3>2
  <2>7. RightMessages(s, q)
    BY <2>6 DEF Outs
  <2>8. ASSUME NEW i \in 1 .. k + e, p[i] # Garbled
        PROVE  i \in 1 .. k + l /\ p[i] = q[i]
    <3>1. CASE i <= k
      BY <2>3, <2>4, <2>6, <3>1
    <3>2. CASE ~(i <= k)
      <4>1. PICK j \in 1 .. e : j = i - k
        BY <3>2
      <4>2. p[i] = d[j] /\ j <= l /\ d[j] = b[j]
        BY <2>1, <2>2, <2>3, <2>4, <2>8, <3>2, <4>1
      <4>3. i \in 1 .. k + l /\ q[i] = b[j]
        BY <2>6, <3>2, <4>1, <4>2
      <4> QED
        BY <4>2, <4>3
    <3> QED
      BY <3>1, <3>2
  <2> QED
    BY <2>3, <2>4, <2>5, <2>6, <2>7, <2>8, RightPrefix
<1>7. \A u \in Sockets \ {s} : Out(u)' = Out(u)
  BY <1>2, <1>3, <1>4 DEF Out
<1>8. ASSUME NEW u \in Sockets
      PROVE  RightMessages(u, Out(u)')
  BY <1>6, <1>7 DEF Outs
<1>9. ASSUME NEW u \in Sockets
      PROVE  RightMessages(u, Out(u))'
  BY <1>3, <1>8 DEF RightMessages
<1> QED
  BY <1>9 DEF Outs

LEMMA OutsRespond ==
  ASSUME TypeInv, KnownClients, Numbers, Outs, Respond
  PROVE  Outs'
<1> DEFINE next == cid_next_outgoing_seq_num_
<1>1. /\ outgoing_responses_ \in Seq(Responses) /\ outgoing_responses_ # <<>>
      /\ answers \in [Clients -> Nat] /\ next \in [Clients -> Nat]
      /\ received \in [Sockets -> Seq(Messages \cup {Garbled})] /\ outbound_data_ \in [Sockets -> Seq(Messages)]
      /\ cid_tcp_socket_ \in [Clients -> Sockets \cup {Null}]
  BY DEF Respond, TypeInv, OutTypes, ClientTypes
<1>2. PICK x \in Responses, c \in Clients :
        /\ x = Head(outgoing_responses_) /\ c = x.client /\ x.number = next[c] /\ x.number \in Nat
  <2>1. Head(outgoing_responses_) \in Responses
    BY <1>1
  <2> QED
    BY <1>1, <2>1, NumberedRespond DEF Numbers, Responses
<1>3. HasSocket(c)
  <2>1. 1 \in 1 .. Len(outgoing_responses_) /\ outgoing_responses_[1] = x
    BY <1>1, <1>2
  <2> QED
    BY <1>2, <2>1 DEF KnownClients
<1>4. PICK s \in Sockets, m \in Messages :
        s = cid_tcp_socket_[c] /\ m = [seq |-> next[c], response |-> x]
  <2>1. next[c] \in Nat \ {0}
    BY <1>2 DEF TypeInv, ClientTypes
  <2>2. [seq |-> next[c], response |-> x] \in Messages
    BY <1>2, <2>1 DEF Messages
  <2> QED
    BY <1>1, <1>2, <1>3, <2>2 DEF HasSocket
<1>5. /\ outbound_data_' = [outbound_data_ EXCEPT ![s] = Append(@, m)]
      /\ next' = [next EXCEPT ![c] = @ + 1]
      /\ UNCHANGED <<received, cid_tcp_socket_>>
  BY <1>2, <1>3, <1>4 DEF Respond, HasSocket, send, cidVars
<1> HIDE DEF next
<1>6. \A d \in Clients : next[d] \in Nat /\ next'[d] \in Nat
                         /\ next'[d] = IF d = c THEN next[d] + 1 ELSE next[d]
  BY <1>1, <1>5
<1>7. \A u \in Sockets : Out(u)' = IF u = s THEN Append(Out(s), m) ELSE Out(u)
  <2>1. \A u \in Sockets \ {s} : Out(u)' = Out(u)
    BY <1>1, <1>5 DEF Out
  <2>2. PICK r \in Seq(Messages \cup {Garbled}), b \in Seq(Messages \cup {Garbled}) : r = received[s] /\ b = outbound_data_[s]
    BY <1>1
  <2>3. r \o Append(b, m) = Append(r \o b, m)
    OBVIOUS
  <2>4. Out(s)' = Append(Out(s), m)
    BY <1>1, <1>5, <2>2, <2>3 DEF Out
  <2> QED
    BY <2>1, <2>4
<1>8. ASSUME NEW u \in Sockets
      PROVE  RightMessages(u, Out(u))'
  <2>1. PICK q \in Seq(Messages \cup {Garbled}), k \in Nat : q = Out(u) /\ k = Len(q)
    <3>1. Out(u) \in Seq(Messages \cup {Garbled})
      BY OutTyped
    <3>2. Len(Out(u)) \in Nat
      BY <3>1
    <3> QED
      BY <3>1, <3>2
  <2>2. /\ \A i \in 1 .. k : q[i] # Garbled =>
             /\ q[i].seq = q[i].response.number /\ cid_tcp_socket_[q[i].response.client] = u
             /\ q[i].seq < next[q[i].response.client]
             /\ q[i].response.client \in Clients /\ q[i].seq \in Nat
        /\ \A i, j \in 1 .. k :
             i < j /\ q[i] # Garbled /\ q[j] # Garbled
               /\ q[i].response.client = q[j].response.client
               => q[i].response.number < q[j].response.number
    <3>1. RightMessages(u, q)
      BY <2>1 DEF Outs
    <3>2. \A i \in 1 .. k : q[i] # Garbled =>
             q[i].response.client \in Clients /\ q[i].seq \in Nat
      BY <2>1, OutTyped
    <3> QED
      BY <2>1, <3>1, <3>2 DEF RightMessages, next
  <2>3. \A i \in 1 .. k : q[i] # Garbled => q[i].seq < next'[q[i].response.client]
    <3>1. ASSUME NEW i \in 1 .. k, q[i] # Garbled
          PROVE  q[i].seq < next'[q[i].response.client]
      <4>1. PICK d \in Clients, v \in Nat : d = q[i].response.client /\ v = q[i].seq
        BY <2>2, <3>1
      <4>2. PICK w \in Nat, z \in Nat : w = next[d] /\ z = next'[d] /\ w <= z
        BY <1>6
      <4>3. v < w
        BY <2>2, <3>1, <4>1, <4>2
      <4> QED
        BY <4>1, <4>2, <4>3
    <3> QED
      BY <3>1
  <2>4. CASE u # s
    <3>1. Out(u)' = q
      BY <1>7, <2>1, <2>4
    <3> QED
      BY <1>5, <2>1, <2>2, <2>3, <3>1 DEF RightMessages, next
  <2>5. CASE u = s
    <3>1. PICK p \in Seq(Messages \cup {Garbled}) : p = Append(q, m)
      <4>1. Append(q, m) \in Seq(Messages \cup {Garbled})
        OBVIOUS
      <4> QED
        BY <4>1
    <3>2. Len(p) = k + 1 /\ \A i \in 1 .. k : p[i] = q[i]
      BY <2>1, <3>1
    <3>3. p[k + 1] = m
      BY <2>1, <3>1
    <3>4. Out(u)' = p
      BY <1>7, <2>1, <2>5, <3>1
    <3>5. /\ m.seq = next[c] /\ m.response = x /\ m.seq = m.response.number
          /\ m.response.client = c
      BY <1>2, <1>4
    <3>6. \A i \in 1 .. k + 1 : p[i] # Garbled =>
            /\ p[i].seq = p[i].response.number /\ cid_tcp_socket_'[p[i].response.client] = u
            /\ p[i].seq < next'[p[i].response.client]
      <4>1. /\ p[k + 1].seq = p[k + 1].response.number
            /\ cid_tcp_socket_'[p[k + 1].response.client] = u
            /\ p[k + 1].seq < next'[p[k + 1].response.client]
        <5>1. next[c] < next'[c]
          BY <1>6
        <5>2. cid_tcp_socket_'[c] = u
          BY <1>4, <1>5, <2>5
        <5> QED
          BY <3>3, <3>5, <5>1, <5>2
      <4>2. \A i \in 1 .. k : p[i] # Garbled =>
              /\ p[i].seq = p[i].response.number /\ cid_tcp_socket_'[p[i].response.client] = u
              /\ p[i].seq < next'[p[i].response.client]
        BY <1>5, <2>2, <2>3, <3>2
      <4> QED
        BY <4>1, <4>2
    <3>7. \A i, j \in 1 .. k + 1 :
            i < j /\ p[i] # Garbled /\ p[j] # Garbled
              /\ p[i].response.client = p[j].response.client
              => p[i].response.number < p[j].response.number
      <4>1. \A i \in 1 .. k : p[i] # Garbled /\ p[i].response.client = c => p[i].response.number < next[c]
        BY <2>2, <3>2
      <4>2. \A i, j \in 1 .. k :
              i < j /\ p[i] # Garbled /\ p[j] # Garbled
              /\ p[i].response.client = p[j].response.client
                => p[i].response.number < p[j].response.number
        BY <2>2, <3>2
      <4>3. p[k + 1].response.client = c /\ p[k + 1].response.number = next[c]
        BY <3>3, <3>5
      <4>4. \A i, j \in 1 .. k + 1 : i < j => i \in 1 .. k /\ (j \in 1 .. k \/ j = k + 1)
        OBVIOUS
      <4> QED
        BY <4>1, <4>2, <4>3, <4>4
    <3> QED
      BY <3>2, <3>4, <3>6, <3>7 DEF RightMessages, next
  <2> QED
    BY <2>4, <2>5
<1> QED
  BY <1>8 DEF Outs

LEMMA OutsRecvRequest ==
  ASSUME TypeInv, Outs, RecvRequest
  PROVE  Outs'
<1>1. UNCHANGED <<received, outbound_data_, cid_next_outgoing_seq_num_>>
  BY RecvRequestStep DEF outVars
<1>2. \A d \in Clients : cid_tcp_socket_[d] # Null => cid_tcp_socket_'[d] = cid_tcp_socket_[d]
  BY RecvRequestStep
<1>3. ASSUME NEW s \in Sockets
      PROVE  RightMessages(s, Out(s))'
  <2>1. s # Null
    BY ServerConstants
  <2>2. Out(s)' = Out(s)
    BY <1>1 DEF Out
  <2>3. \A i \in 1 .. Len(Out(s)) : Out(s)[i] # Garbled => Out(s)[i].response.client \in Clients
    BY OutTyped
  <2> QED
    BY <1>1, <1>2, <2>1, <2>2, <2>3 DEF Outs, RightMessages
<1> QED
  BY <1>3 DEF Outs

LEMMA OutsStep == TypeInv /\ KnownClients /\ Numbers /\ Outs /\ [Next]_vars => Outs'
<1> SUFFICES ASSUME TypeInv, KnownClients, Numbers, Outs, [Next]_vars
             PROVE  Outs'
  OBVIOUS
<1>1. CASE RecvRequest
  BY <1>1, OutsRecvRequest
<1>2. CASE SendBuffered
  BY <1>2, OutsSendBuffered
<1>3. CASE Respond
  BY <1>3, OutsRespond
<1>4. CASE ~RecvRequest /\ ~SendBuffered /\ ~Respond
  <2>1. UNCHANGED <<received, outbound_data_, cid_next_outgoing_seq_num_, cid_tcp_socket_>>
    BY <1>4 DEF Next, Server, Arrivals, Engine, Begin, GoOn, vars, outVars, cidVars, Connect, Send, Arrive,
       Process, LogBanner, poll, Receive, RecvRemainder, RecvFinished, Responded
  <2>2. ASSUME NEW s \in Sockets
        PROVE  RightMessages(s, Out(s))'
    <3>1. Out(s)' = Out(s)
      BY <2>1 DEF Out
    <3> QED
      BY <2>1, <3>1 DEF Outs, RightMessages
  <2> QED
    BY <2>2 DEF Outs
<1> QED
  BY <1>1, <1>2, <1>3, <1>4

LEMMA TornInit == Init => NothingTorn
BY DEF Init, NothingTorn

LEMMA TornSendBuffered ==
  ASSUME TypeInv, NothingTorn, SendBuffered
  PROVE  NothingTorn'
<1> SUFFICES ASSUME SendsAll
             PROVE  \A u \in Sockets : cut'[u] = 0 /\ received'[u] \in Seq(Messages)
  BY DEF NothingTorn
<1>1. PICK s \in Sockets : s = Visited
  BY DEF TypeInv, LoopTypes, Visited, SendBuffered, At
<1>2. PICK n \in 0 .. Parts * Len(outbound_data_[s]) :
        /\ n = Parts * Len(outbound_data_[s])
        /\ received' = [received EXCEPT ![s] = @ \o Completed(s, n)]
        /\ cut' = [cut EXCEPT ![s] = (@ + n) % Parts]
  BY <1>1 DEF SendBuffered, Taken
<1>3. PICK b \in Seq(Messages), l \in Nat : b = outbound_data_[s] /\ l = Len(b)
  BY DEF TypeInv, OutTypes
<1>4. /\ \A u \in Sockets : cut[u] = 0 /\ received[u] \in Seq(Messages)
      /\ received \in [Sockets -> Seq(Messages \cup {Garbled})]
      /\ cut \in [Sockets -> 0 .. Parts - 1]
  BY DEF NothingTorn, TypeInv, OutTypes
<1>5. n = Parts * l /\ n \in Nat /\ n % Parts = 0 /\ n \div Parts = l
  BY <1>2, <1>3, PartsArithmetic
<1>6. Completed(s, n) \in Seq(Messages)
  <2>1. /\ Completed(s, n) \in Seq(Messages \cup {Garbled}) /\ Len(Completed(s, n)) = l
        /\ \A k \in 1 .. Len(Completed(s, n)) : Completed(s, n)[k] = b[k]
    BY <1>3, <1>4, <1>5, FramesCompleted
  <2>2. \A k \in 1 .. l : Completed(s, n)[k] \in Messages
    BY <1>3, <2>1
  <2>3. Completed(s, n) = [k \in 1 .. l |-> Completed(s, n)[k]]
    BY <2>1
  <2> QED
    BY <2>2, <2>3
<1>7. received'[s] \in Seq(Messages) /\ cut'[s] = 0
  <2>1. received'[s] = received[s] \o Completed(s, n) /\ cut'[s] = (0 + n) % Parts
    BY <1>2, <1>4
  <2> QED
    BY <1>4, <1>5, <1>6, <2>1
<1>8. \A u \in Sockets \ {s} : received'[u] = received[u] /\ cut'[u] = cut[u]
  BY <1>2, <1>4
<1> QED
  BY <1>4, <1>7, <1>8

LEMMA TornStep == TypeInv /\ NothingTorn /\ [Next]_vars => NothingTorn'
<1> SUFFICES ASSUME TypeInv, NothingTorn, [Next]_vars
             PROVE  NothingTorn'
  OBVIOUS
<1>1. CASE SendBuffered
  BY <1>1, TornSendBuffered
<1>2. CASE ~SendBuffered
  <2>1. UNCHANGED <<received, cut>>
    BY <1>2 DEF Next, Server, Arrivals, Engine, Begin, GoOn, vars, outVars, cidVars, Connect, Send,
       Arrive, Process, LogBanner, poll, Receive, RecvRequest, RecvRemainder, RecvFinished,
       Respond, Responded
  <2> QED
    BY <2>1 DEF NothingTorn
<1> QED
  BY <1>1, <1>2

\* A client gets its responses in the order the engine wrote them, with the numbers
\* the engine gave them, on the socket it is heard on, however much of a buffer
\* ::send() takes; frames between them are garbled only when it has not taken all
\* (order_server.h:29-44, tcp_socket.h:99-119).
THEOREM ResponsesKeepOrder == Spec => []ResponsesInOrder
<1>1. ASSUME TypeInv, Outs, NEW s \in Sockets, NEW i \in 1 .. Len(received[s]),
             received[s][i] # Garbled
      PROVE  LET x == received[s][i].response
             IN  /\ received[s][i].seq = x.number /\ cid_tcp_socket_[x.client] = s
                 /\ \A j \in 1 .. i - 1 :
                      LET y == received[s][j].response
                      IN  received[s][j] # Garbled /\ y.client = x.client
                            => y.number < x.number
  <2>1. PICK k \in Nat, n \in Nat :
          /\ k = Len(received[s]) /\ Len(Out(s)) = k + n
          /\ \A j \in 1 .. k + n : j <= k => Out(s)[j] = received[s][j]
    BY <1>1, OutTyped
  <2>2. \A j \in 1 .. k : j \in 1 .. Len(Out(s)) /\ Out(s)[j] = received[s][j]
    BY <2>1
  <2>3. i \in 1 .. k /\ \A j \in 1 .. i - 1 : j \in 1 .. k /\ j < i
    BY <1>1, <2>1
  <2>4. RightMessages(s, Out(s))
    BY <1>1 DEF Outs
  <2>5. /\ i \in 1 .. Len(Out(s)) /\ Out(s)[i] = received[s][i]
        /\ \A j \in 1 .. i - 1 :
             j \in 1 .. Len(Out(s)) /\ j < i /\ Out(s)[j] = received[s][j]
    BY <2>2, <2>3
  <2> QED
    BY <1>1, <2>4, <2>5 DEF RightMessages
<1>2. ASSUME NothingTorn, SendsAll, NEW s \in Sockets, NEW i \in 1 .. Len(received[s])
      PROVE  received[s][i] # Garbled
  <2>1. received[s][i] \in Messages
    BY <1>2 DEF NothingTorn
  <2>2. Garbled \notin Messages
    BY DEF Garbled, Messages
  <2> QED
    BY <2>1, <2>2
<1>3. TypeInv /\ Outs /\ NothingTorn => ResponsesInOrder
  BY <1>1, <1>2 DEF ResponsesInOrder
<1>4. Init => KnownClients /\ Numbers /\ Outs /\ NothingTorn
  BY KnownInit, NumbersInit, OutsInit, TornInit
<1>5. TypeInv /\ KnownClients /\ Numbers /\ Outs /\ NothingTorn /\ [Next]_vars
      => (KnownClients /\ Numbers /\ Outs /\ NothingTorn)'
  BY KnownStep, NumbersStep, OutsStep, TornStep
<1> QED
  BY <1>3, <1>4, <1>5, AlwaysTypes, PTL DEF Spec
=============================================================================
