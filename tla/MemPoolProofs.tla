---------------------------- MODULE MemPoolProofs ----------------------------
(***************************************************************************)
(* Proofs about MemPool, for every size of store_.                         *)
(*                                                                         *)
(* That the process ends only with the last block, and that allocate()     *)
(* finds the block it hands out free, rest on the loop invariant of        *)
(* updateNextFreeIndex(): the blocks from initial_free_index round to      *)
(* next_free_index_ are all in use.                                        *)
(***************************************************************************)
EXTENDS MemPool, TLAPS

\* The scan has left block b behind.
Passed(b) ==
  IF initial_free_index <= next_free_index_
  THEN initial_free_index <= b /\ b < next_free_index_
  ELSE initial_free_index <= b \/ b < next_free_index_

IInv ==
  /\ TypeOK
  /\ FlagsNeverWrong
  /\ \A b \in Blocks : b \in held <=> ~is_free_[b]
  /\ status = "up" =>
       IF scanning
       THEN \A b \in Blocks : Passed(b) \/ b = initial_free_index => b \in held
       ELSE is_free_[next_free_index_]
  /\ status = "out_of_space" => held = Blocks

LEMMA FollowingType ==
  ASSUME NEW b \in Blocks
  PROVE  Following(b) \in Blocks
BY PoolConstants DEF Following, Blocks

\* One turn of the scan leaves one more block behind, or all of them.
LEMMA ScanPasses ==
  ASSUME TypeOK, next_free_index_' = Following(next_free_index_),
         UNCHANGED initial_free_index, NEW b \in Blocks
  PROVE  IF next_free_index_' = initial_free_index
         THEN Passed(b) \/ b = next_free_index_
         ELSE Passed(b)' => Passed(b) \/ b = next_free_index_
BY PoolConstants DEF TypeOK, Following, Blocks, Passed

THEOREM Invariance == Spec => []IInv
<1>1. Init => IInv
  <2>1. 0 \in Blocks
    BY PoolConstants DEF Blocks
  <2> QED
    BY <2>1 DEF Init, IInv, TypeOK, FlagsNeverWrong
<1>2. ASSUME IInv, [Next]_vars PROVE IInv'
  <2> USE <1>2 DEF IInv, TypeOK, FlagsNeverWrong
  <2>1. CASE allocate
    <3>1. /\ is_free_[next_free_index_]
          /\ is_free_' = [is_free_ EXCEPT ![next_free_index_] = FALSE]
          /\ held' = held \cup {next_free_index_}
          /\ scanning' = TRUE /\ initial_free_index' = next_free_index_
          /\ status = "up" /\ UNCHANGED <<status, next_free_index_>>
      BY <2>1 DEF allocate
    <3>2. \A b \in Blocks : Passed(b)' => FALSE
      BY <3>1, PoolConstants DEF Passed, Blocks
    <3> QED
      BY <3>1, <3>2
  <2>2. CASE ScanOn
    <3>1. /\ status = "up" /\ scanning /\ ~is_free_[next_free_index_]
          /\ next_free_index_' = Following(next_free_index_)
          /\ status' = IF next_free_index_' = initial_free_index
                       THEN "out_of_space" ELSE status
          /\ UNCHANGED <<is_free_, scanning, initial_free_index, held>>
      BY <2>2 DEF ScanOn
    <3>2. next_free_index_' \in Blocks
      BY <3>1, FollowingType
    <3>3. \A b \in Blocks : Passed(b) \/ b = next_free_index_ => b \in held
      BY <3>1
    <3>4. CASE next_free_index_' = initial_free_index
      <4>1. \A b \in Blocks : b \in held
        BY <3>1, <3>3, <3>4, ScanPasses
      <4> QED
        BY <3>1, <3>2, <3>4, <4>1
    <3>5. CASE next_free_index_' # initial_free_index
      <4>1. \A b \in Blocks : Passed(b)' => b \in held
        BY <3>1, <3>3, <3>5, ScanPasses
      <4> QED
        BY <3>1, <3>2, <3>5, <4>1
    <3> QED
      BY <3>4, <3>5
  <2>3. CASE ScanEnds
    BY <2>3 DEF ScanEnds
  <2>4. ASSUME NEW b \in Blocks, deallocate(b) PROVE IInv'
    BY <2>4 DEF deallocate
  <2>5. CASE UNCHANGED vars
    BY <2>5 DEF vars, Passed
  <2> QED
    BY <2>1, <2>2, <2>3, <2>4, <2>5 DEF Next
<1> QED
  BY <1>1, <1>2, PTL DEF Spec

\* next_free_index_ never runs off store_: updateNextFreeIndex() goes back to the
\* first block before it reads past the last (mem_pool.h:60-76).
THEOREM TypeCorrect == Spec => []TypeOK
<1>1. IInv => TypeOK
  BY DEF IInv
<1> QED
  BY <1>1, Invariance, PTL

\* The ASSERTs on is_free_ (mem_pool.h:26,41) never fail, in whatever order the
\* blocks come back.
THEOREM AssertsHold == Spec => []FlagsNeverWrong
<1>1. IInv => FlagsNeverWrong
  BY DEF IInv
<1> QED
  BY <1>1, Invariance, PTL

\* allocate(), updateNextFreeIndex() and deallocate() implement the pool that its
\* callers see: no block is handed out twice, and the process ends exactly when
\* the last one has been.
THEOREM Implementation == Spec => ImplementsBlockPool
<1>1. Init => Pool!Init
  BY DEF Init, Pool!Init
<1>2. ASSUME IInv, IInv', [Next]_vars
      PROVE  [Pool!Next]_<<held, status = "out_of_space">>
  <2> USE <1>2 DEF IInv, TypeOK, FlagsNeverWrong
  <2>1. CASE allocate
    <3>1. /\ next_free_index_ \in Blocks \ held
          /\ held' = held \cup {next_free_index_}
          /\ status = "up" /\ status' = "up"
      BY <2>1 DEF allocate
    <3> QED
      BY <3>1 DEF Pool!Next, Pool!Get
  <2>2. CASE ScanOn
    <3>1. UNCHANGED held /\ status = "up" /\ status' \in {"up", "out_of_space"}
          /\ (status' = "out_of_space" => held = Blocks)
      BY <2>2 DEF ScanOn
    <3> QED
      BY <3>1 DEF Pool!Next, Pool!RunOut
  <2>3. CASE ScanEnds \/ UNCHANGED vars
    BY <2>3 DEF ScanEnds, vars
  <2>4. ASSUME NEW b \in Blocks, deallocate(b)
        PROVE  [Pool!Next]_<<held, status = "out_of_space">>
    <3>1. /\ b \in held /\ held' = held \ {b} /\ status = "up" /\ status' = "up"
          /\ next_free_index_ \notin held
      BY <2>4 DEF deallocate
    <3> QED
      BY <3>1 DEF Pool!Next, Pool!Put
  <2> QED
    BY <2>1, <2>2, <2>3, <2>4 DEF Next
<1> QED
  BY <1>1, <1>2, Invariance, PTL DEF Spec, ImplementsBlockPool, Pool!Spec
===============================================================================
