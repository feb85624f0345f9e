------------------------------- MODULE MemPool -------------------------------
(***************************************************************************)
(* MemPool<T> (low-latency-components/mem_pool.h), used by the one thread  *)
(* that owns it.  allocate() takes the block next_free_index_ points to,   *)
(* then updateNextFreeIndex() scans the blocks round for a free one: each  *)
(* turn of its loop is a step.                                             *)
(*                                                                         *)
(* held is what the callers have been given and have not given back: they  *)
(* return what they hold, once (MEOrderBook::removeOrder() and             *)
(* removeOrdersAtPrice() deallocate what they have just unlinked).         *)
(***************************************************************************)
EXTENDS Integers

CONSTANT NumElems          \* store_.size()

ASSUME PoolConstants == NumElems \in Nat \ {0}

Blocks == 0 .. NumElems - 1

VARIABLES
  status,                  \* "up", "not_free", "not_in_use", "out_of_space"
  is_free_, next_free_index_,
  scanning,                \* inside updateNextFreeIndex()
  initial_free_index,      \* its local variable
  held

vars == <<status, is_free_, next_free_index_, scanning, initial_free_index, held>>

Init ==
  /\ status = "up"
  /\ is_free_ = [b \in Blocks |-> TRUE]
  /\ next_free_index_ = 0
  /\ scanning = FALSE
  /\ initial_free_index = 0
  /\ held = {}

\* allocate(), up to the call of updateNextFreeIndex().
allocate ==
  /\ status = "up" /\ ~scanning
  /\ IF is_free_[next_free_index_]
     THEN /\ is_free_' = [is_free_ EXCEPT ![next_free_index_] = FALSE]
          /\ held' = held \cup {next_free_index_}
          /\ scanning' = TRUE
          /\ initial_free_index' = next_free_index_
          /\ UNCHANGED status
     ELSE /\ status' = "not_free"
          /\ UNCHANGED <<is_free_, held, scanning, initial_free_index>>
  /\ UNCHANGED next_free_index_

FollowingNoWrap(b) == b + 1        \* mutant

\* The index after b, back to 0 at the end of store_.
Following(b) == IF b + 1 = NumElems THEN 0 ELSE b + 1

ScanOnNoTest ==                    \* mutant: no test for having come round
  /\ status = "up" /\ scanning
  /\ ~is_free_[next_free_index_]
  /\ next_free_index_' = Following(next_free_index_)
  /\ UNCHANGED <<status, is_free_, scanning, initial_free_index, held>>

ScanOnOneEarly ==                  \* mutant: gives up before the last block
  /\ status = "up" /\ scanning
  /\ ~is_free_[next_free_index_]
  /\ next_free_index_' = Following(next_free_index_)
  /\ status' = IF Following(next_free_index_') = initial_free_index
               THEN "out_of_space" ELSE status
  /\ UNCHANGED <<is_free_, scanning, initial_free_index, held>>

\* One turn of the loop of updateNextFreeIndex().
ScanOn ==
  /\ status = "up" /\ scanning
  /\ ~is_free_[next_free_index_]
  /\ next_free_index_' = Following(next_free_index_)
  /\ status' = IF Following(next_free_index_) = initial_free_index
               THEN "out_of_space" ELSE status
  /\ UNCHANGED <<is_free_, scanning, initial_free_index, held>>

ScanEndsAtOnce ==                  \* mutant: the next block is taken unseen
  /\ status = "up" /\ scanning
  /\ next_free_index_' = Following(next_free_index_)
  /\ scanning' = FALSE
  /\ UNCHANGED <<status, is_free_, initial_free_index, held>>

ScanEnds ==
  /\ status = "up" /\ scanning
  /\ is_free_[next_free_index_]
  /\ scanning' = FALSE
  /\ UNCHANGED <<status, is_free_, next_free_index_, initial_free_index, held>>

deallocate(b) ==
  /\ status = "up" /\ ~scanning
  /\ b \in held
  /\ IF is_free_[b]
     THEN /\ status' = "not_in_use"
          /\ UNCHANGED <<is_free_, held>>
     ELSE /\ is_free_' = [is_free_ EXCEPT ![b] = TRUE]
          /\ held' = held \ {b}
          /\ UNCHANGED status
  /\ UNCHANGED <<next_free_index_, scanning, initial_free_index>>

Next == allocate \/ ScanOn \/ ScanEnds \/ \E b \in Blocks : deallocate(b)

Spec == Init /\ [][Next]_vars

\* The scan is a loop of the caller's own thread.
FairSpec == Spec /\ WF_vars(ScanOn \/ ScanEnds)

-------------------------------------------------------------------------------
TypeOK ==
  /\ status \in {"up", "not_free", "not_in_use", "out_of_space"}
  /\ is_free_ \in [Blocks -> BOOLEAN]
  /\ next_free_index_ \in Blocks
  /\ scanning \in BOOLEAN
  /\ initial_free_index \in Blocks
  /\ held \in SUBSET Blocks

\* The ASSERTs of allocate() and deallocate() on is_free_ never fail: whatever
\* the order in which blocks come back, the block that is handed out is free and
\* the one that comes back is in use (mem_pool.h:26,41).
FlagsNeverWrong == status \notin {"not_free", "not_in_use"}

\* updateNextFreeIndex() finds a free block or ends the process; it never goes
\* round for ever, and it ends the process only when every block is in use.
AllocateEnds == scanning ~> (~scanning \/ (status = "out_of_space" /\ held = Blocks))

\* The pool as its callers see it.
Pool == INSTANCE BlockPool WITH outOfSpace <- status = "out_of_space"

\* No block is handed out twice, none is lost, and the pool runs out with the
\* last block and not before.
ImplementsBlockPool == Pool!Spec
===============================================================================
