-------------------------------- MODULE Logger --------------------------------
(***************************************************************************)
(* Logger (low-latency-components/logging.h): the thread that pushes the   *)
(* elements of the log lines, the flush thread, and the destructor.  The   *)
(* queue between the two is LFQueue, step by step: the reader is the inner *)
(* loop of flushQueue(), which asks for size() (ChecksSize).               *)
(*                                                                         *)
(* What an element holds and how log() cuts a line into elements is left   *)
(* out.  disk counts the elements that flush() or close() have put on disk;*)
(* the stream may write others out earlier.                                *)
(***************************************************************************)
EXTENDS LFQueue, Sequences

VARIABLES
  flusher,      \* what the flush thread does next
  running_,
  file_,        \* elements streamed into the file
  disk,         \* how many of them are on disk
  closed        \* ~Logger() is through, and the memory freed

loggerVars == <<flusher, running_, file_, disk, closed>>

\* The constructor, up to the creation of the thread.
LoggerInit ==
  /\ Init
  /\ flusher = "none" /\ running_ = TRUE
  /\ file_ = <<>> /\ disk = 0
  /\ closed = FALSE

-------------------------------------------------------------------------------
\* pushValue() of one element, as the writer of the queue.
pushValue == Writer

(* flushQueue()                                                                *)

CheckRunning ==
  /\ flusher = "check"
  /\ flusher' = IF running_ THEN "loop" ELSE "ended"
  /\ UNCHANGED <<vars, running_, file_, disk, closed>>

\* The inner loop ends when there is no element, or none that is counted yet.
EndLoop ==
  /\ flusher = "loop"
  /\ \/ /\ reader = "idle" /\ next_read_index_ = next_write_index_
        /\ UNCHANGED vars
     \/ /\ size /\ reader' = "idle"
  /\ flusher' = "flush"
  /\ UNCHANGED <<running_, file_, disk, closed>>

\* An element is found, counted, streamed and given back.
StreamElement ==
  /\ flusher = "loop"
  /\ \/ getNextToRead /\ UNCHANGED file_
     \/ size /\ reader' = "use" /\ UNCHANGED file_
     \/ Use /\ file_' = Append(file_, got')
     \/ Advance /\ UNCHANGED file_
     \/ CountRead /\ UNCHANGED file_
  /\ UNCHANGED <<flusher, running_, disk, closed>>

\* flush(), and the sleep of 15 ms.
FlushMutant ==                     \* the outer loop flushes nothing
  /\ flusher = "flush"
  /\ flusher' = "check"
  /\ UNCHANGED <<vars, running_, file_, disk, closed>>

Flush ==
  /\ flusher = "flush"
  /\ flusher' = "check" /\ disk' = Len(file_)
  /\ UNCHANGED <<vars, running_, file_, closed>>

flushQueue == CheckRunning \/ EndLoop \/ StreamElement \/ Flush

-------------------------------------------------------------------------------
(* ~Logger().  How far a call of it has come is the caller's state: two may be   *)
(* under way, and nothing keeps them apart until the memory is freed.          *)

DestroyLoggerMutant ==             \* running_ is cleared before the drain
  /\ ~closed
  /\ running_' = FALSE
  /\ UNCHANGED <<vars, flusher, file_, disk, closed>>

DestroyLogger ==
  /\ ~closed
  /\ UNCHANGED <<vars, loggerVars>>

DrainMutant ==                     \* does not wait for the queue
  /\ ~closed
  /\ running_' = FALSE
  /\ UNCHANGED <<vars, flusher, file_, disk, closed>>

\* while (queue_.size()), then running_ = false
Drain ==
  /\ ~closed /\ num_elements_ = 0
  /\ running_' = FALSE
  /\ UNCHANGED <<vars, flusher, file_, disk, closed>>

\* join(), then close() and the end of the delete expression
Join ==
  /\ ~closed /\ flusher = "ended"
  /\ closed' = TRUE /\ disk' = Len(file_)
  /\ UNCHANGED <<vars, flusher, running_, file_>>

-------------------------------------------------------------------------------
\* The elements whose updateWriteIndex() is complete.
Counted == IF writer = "idle" THEN written ELSE written - 1
===============================================================================
