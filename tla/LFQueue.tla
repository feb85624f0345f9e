------------------------------- MODULE LFQueue -------------------------------
(***************************************************************************)
(* LFQueue<T> (low-latency-components/lock_free_queue.h) with the one      *)
(* thread that writes it and the one that reads it.  Every load and store  *)
(* of the three atomics that the other thread can see is a step, and so    *)
(* are the two ends of the accesses to an element, which is not atomic.    *)
(*                                                                         *)
(* The writer is FIFOSequencer::sequenceAndPublish(), MatchingEngine's     *)
(* sendClientResponse() and sendMarketUpdate(), or Logger::pushValue():    *)
(* none of them asks whether there is room, and neither does this module.  *)
(* overrun records that the write index has caught up with the read index  *)
(* on a full ring: from then on the queue looks empty, or nearly so, and   *)
(* the writer assigns elements that wait.                                  *)
(*                                                                         *)
(* There are two readers.  OrderServer::run() and Logger::flushQueue() ask *)
(* for size() before they use the element (ChecksSize); MatchingEngine::   *)
(* run() does not.                                                         *)
(*                                                                         *)
(* The k-th element written is the number k.                               *)
(***************************************************************************)
EXTENDS Integers

CONSTANTS
  Size,         \* num_elems
  MaxWrites,    \* bound: elements written in a behaviour
  ChecksSize,   \* does the reader ask for size()?
  Torn          \* an element while it is being assigned

ASSUME QueueConstants ==
  /\ Size \in Nat \ {0} /\ MaxWrites \in Nat
  /\ ChecksSize \in BOOLEAN
  /\ Torn \notin Int

VARIABLES
  store_, next_write_index_, next_read_index_, num_elements_,
  writer,       \* what the writer does next
  reader,       \* what the reader does next
  written,      \* elements whose assignment has begun
  got,          \* the element the reader has read
  taken,        \* elements the reader is done with
  overrun,      \* history: has a full ring been published?
  status        \* "up", or "invalid_element" when the ASSERT has failed

vars == <<store_, next_write_index_, next_read_index_, num_elements_,
          writer, reader, written, got, taken, overrun, status>>

writerVars == <<writer, written, overrun>>
readerVars == <<reader, got, taken, status>>

Slots == 0 .. Size - 1

NextIndexNoWrap(i) == i + 1        \* mutant

NextIndex(i) == (i + 1) % Size

Init ==
  /\ store_ = [i \in Slots |-> 0]
  /\ next_write_index_ = 0 /\ next_read_index_ = 0 /\ num_elements_ = 0
  /\ writer = "idle" /\ reader = "idle"
  /\ written = 0 /\ got = 0 /\ taken = 0 /\ overrun = FALSE
  /\ status = "up"

-------------------------------------------------------------------------------
(* The writer.                                                                 *)

\* *getNextToWriteTo() = ...
BeginAssign ==
  /\ writer = "idle" /\ written < MaxWrites
  /\ writer' = "assign" /\ written' = written + 1
  /\ store_' = [store_ EXCEPT ![next_write_index_] = Torn]
  /\ UNCHANGED <<next_write_index_, next_read_index_, num_elements_, overrun,
                 readerVars>>

EndAssign ==
  /\ writer = "assign"
  /\ writer' = "publish"
  /\ store_' = [store_ EXCEPT ![next_write_index_] = written]
  /\ UNCHANGED <<next_write_index_, next_read_index_, num_elements_, written,
                 overrun, readerVars>>

\* updateWriteIndex()
Publish ==
  /\ writer = "publish"
  /\ writer' = "count"
  /\ next_write_index_' = NextIndex(next_write_index_)
  /\ overrun' = (overrun \/ NextIndex(next_write_index_) = next_read_index_)
  /\ UNCHANGED <<store_, next_read_index_, num_elements_, written, readerVars>>

CountWritten ==
  /\ writer = "count"
  /\ writer' = "idle"
  /\ num_elements_' = num_elements_ + 1
  /\ UNCHANGED <<store_, next_write_index_, next_read_index_, written, overrun,
                 readerVars>>

Writer == BeginAssign \/ EndAssign \/ Publish \/ CountWritten

-------------------------------------------------------------------------------
(* The reader.                                                                 *)

\* getNextToRead() returns an element.  When it returns nullptr the thread
\* polls again, which changes nothing.
getNextToRead ==
  /\ status = "up" /\ reader = "idle"
  /\ next_read_index_ # next_write_index_
  /\ reader' = IF ChecksSize THEN "size" ELSE "use"
  /\ UNCHANGED <<store_, next_write_index_, next_read_index_, num_elements_,
                 got, taken, status, writerVars>>

sizeIgnored ==                     \* mutant: the element is used all the same
  /\ reader = "size"
  /\ reader' = "use"
  /\ UNCHANGED <<store_, next_write_index_, next_read_index_, num_elements_,
                 got, taken, status, writerVars>>

\* With size() still 0 the reader's loop ends and it polls again.
size ==
  /\ reader = "size"
  /\ reader' = IF num_elements_ # 0 THEN "use" ELSE "idle"
  /\ UNCHANGED <<store_, next_write_index_, next_read_index_, num_elements_,
                 got, taken, status, writerVars>>

\* The element is used through the pointer, for as long as that takes: the
\* thread is at "use" until it has read it.
Use ==
  /\ reader = "use"
  /\ reader' = "advance"
  /\ got' = store_[next_read_index_]
  /\ UNCHANGED <<store_, next_write_index_, next_read_index_, num_elements_,
                 taken, status, writerVars>>

AdvanceToEnd ==                    \* mutant: past everything that waits
  /\ reader = "advance"
  /\ reader' = "uncount" /\ taken' = taken + 1
  /\ next_read_index_' = next_write_index_
  /\ UNCHANGED <<store_, next_write_index_, num_elements_, got, status, writerVars>>

\* updateReadIndex()
Advance ==
  /\ reader = "advance"
  /\ reader' = "uncount" /\ taken' = taken + 1
  /\ next_read_index_' = NextIndex(next_read_index_)
  /\ UNCHANGED <<store_, next_write_index_, num_elements_, got, status, writerVars>>

CountReadLost ==                   \* mutant: a decrement is lost
  /\ reader = "uncount" /\ num_elements_ # 0
  /\ reader' = "idle"
  /\ UNCHANGED <<store_, next_write_index_, next_read_index_, num_elements_, got,
                 taken, status, writerVars>>

\* The ASSERT and the decrement.  Only the reader takes the count down: what the
\* ASSERT has seen is there when it is decremented.
CountRead ==
  /\ reader = "uncount"
  /\ IF num_elements_ # 0
     THEN /\ reader' = "idle"
          /\ num_elements_' = num_elements_ - 1
          /\ UNCHANGED status
     ELSE /\ reader' = "dead" /\ status' = "invalid_element"
          /\ UNCHANGED num_elements_
  /\ UNCHANGED <<store_, next_write_index_, next_read_index_, got, taken,
                 writerVars>>

Reader == getNextToRead \/ size \/ Use \/ Advance \/ CountRead

\* A failed ASSERT ends the process, and the writer with it.
Next == status = "up" /\ (Writer \/ Reader)

Spec == Init /\ [][Next]_vars

-------------------------------------------------------------------------------
(* Properties.                                                                 *)

TypeOK ==
  /\ store_ \in [Slots -> Nat \cup {Torn}]
  /\ next_write_index_ \in Slots /\ next_read_index_ \in Slots
  /\ num_elements_ \in Nat
  /\ writer \in {"idle", "assign", "publish", "count"}
  /\ reader \in {"idle", "size", "use", "advance", "uncount", "dead"}
  /\ written \in Nat /\ taken \in Nat /\ overrun \in BOOLEAN
  /\ got \in Nat \cup {Torn}
  /\ status \in {"up", "invalid_element"}

\* The ASSERT of updateReadIndex() (lock_free_queue.h:33) never fails: what the
\* reader takes has been counted by the writer.
NeverInvalid == status = "up"

\* Between two writes and two reads size() is the number of elements that wait:
\* what OrderServer's and the Logger's loops end on, and what ~Logger() waits
\* for (logging.h:87).
SizeCounts ==
  writer = "idle" /\ reader \notin {"uncount", "dead"} =>
    num_elements_ = written - taken

\* Until the ring is overrun the elements are read in the order they were
\* written, each once and whole: no lost, repeated, reordered or half-assigned
\* element reaches the reader (lock_free_queue.h:17-35).
InOrder == reader = "advance" /\ ~overrun => got = taken + 1

\* The two threads never have the same element in their hands: the reader never
\* uses the slot the writer is assigning (the element is not atomic).
NoSlotRace ==
  reader = "use" /\ writer = "assign" => next_read_index_ # next_write_index_
===============================================================================
