---------------------------- MODULE FIFOSequencer ----------------------------
(***************************************************************************)
(* FIFOSequencer (exchange/order_server/fifo_sequencer.h): the requests    *)
(* one pass over the sockets has read wait in pending_client_requests_,    *)
(* then they are sorted by the time they were received at and written to   *)
(* the queue of the matching engine.                                       *)
(*                                                                         *)
(* std::sort of libstdc++ finishes with an insertion sort, and up to 16    *)
(* elements (_S_threshold) it does nothing else: the order of requests     *)
(* with equal times is kept.  Above that it may come out in any order.     *)
(* SortLimit is that threshold.                                            *)
(*                                                                         *)
(* incoming is all that has ever been written to the queue: LFQueue hands  *)
(* it to the engine in this order.  round is the number of the pass in     *)
(* which a request was read; the program does not keep it.                 *)
(***************************************************************************)
EXTENDS Naturals, Sequences

CONSTANTS
  MaxPending,    \* ME_MAX_PENDING_REQUESTS
  SortLimit

ASSUME SequencerConstants == MaxPending \in Nat \ {0} /\ SortLimit \in Nat

VARIABLES pending_client_requests_, incoming, round

sequencerVars == <<pending_client_requests_, incoming, round>>

SequencerInit ==
  /\ pending_client_requests_ = <<>>
  /\ incoming = <<>>
  /\ round = 0

PendingOverrun == Len(pending_client_requests_) > MaxPending      \* mutant

TooManyPending == Len(pending_client_requests_) >= MaxPending

addClientRequest(rx_time, request) ==
  /\ pending_client_requests_' =
       Append(pending_client_requests_,
              [recv_time |-> rx_time, request |-> request, round |-> round])
  /\ UNCHANGED <<incoming, round>>

KeysSwapped(a, b) == b.recv_time < a.recv_time           \* mutant

\* RecvTimeClientRequest::operator <
Earlier(a, b) == a.recv_time < b.recv_time

\* The orders std::sort may leave the sequence q in, as functions from the place
\* a request gets to the place it had.
Sort(q) ==
  {f \in [1 .. Len(q) -> 1 .. Len(q)] :
     \A i, j \in 1 .. Len(q) : i < j =>
       /\ f[i] # f[j]
       /\ ~Earlier(q[f[j]], q[f[i]])
       /\ Len(q) <= SortLimit /\ ~Earlier(q[f[i]], q[f[j]]) => f[i] < f[j]}

SequenceAndPublishKeeps ==         \* mutant: pending_size_ is not reset
  /\ \E f \in Sort(pending_client_requests_) :
       incoming' = incoming \o [i \in 1 .. Len(pending_client_requests_) |->
                                  pending_client_requests_[f[i]]]
  /\ UNCHANGED pending_client_requests_
  /\ round' = round + 1

sequenceAndPublish ==
  /\ \E f \in Sort(pending_client_requests_) :
       incoming' = incoming \o [i \in 1 .. Len(pending_client_requests_) |->
                                  pending_client_requests_[f[i]]]
  /\ pending_client_requests_' = <<>>
  /\ round' = round + 1
===============================================================================
