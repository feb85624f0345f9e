---------------------------- MODULE LFQueueProofs ----------------------------
(***************************************************************************)
(* Proofs about LFQueue, for every size and number of writes, and whatever  *)
(* the load: the writer may overrun the ring.                              *)
(***************************************************************************)
EXTENDS LFQueue, TLAPS

-------------------------------------------------------------------------------
(* The ASSERT.                                                                 *)

\* What the size() check found is still so when the ASSERT is reached: only the
\* reader itself makes num_elements_ smaller.
Checked ==
  /\ reader \in {"use", "advance", "uncount"} => num_elements_ # 0
  /\ reader # "dead" /\ status = "up"

\* Indices advance by one, back to 0 behind the last slot (updateWriteIndex()
\* and updateReadIndex(), lock_free_queue.h:23,32).
LEMMA NextIndexWraps ==
  ASSUME NEW i \in Slots
  PROVE  /\ NextIndex(i) \in Slots
         /\ NextIndex(i) = IF i + 1 = Size THEN 0 ELSE i + 1
BY QueueConstants DEF NextIndex, Slots

TypesButOverrun ==
  /\ store_ \in [Slots -> Nat \cup {Torn}]
  /\ next_write_index_ \in Slots /\ next_read_index_ \in Slots
  /\ num_elements_ \in Nat
  /\ writer \in {"idle", "assign", "publish", "count"}
  /\ reader \in {"idle", "size", "use", "advance", "uncount", "dead"}
  /\ written \in Nat /\ taken \in Nat
  /\ got \in Nat \cup {Torn}
  /\ status \in {"up", "invalid_element"}

LEMMA InitTypeOK == Init => TypeOK
<1>1. Init => TypesButOverrun
  BY QueueConstants DEF Init, TypesButOverrun, Slots
<1> QED
  BY <1>1, Zenon DEF Init, TypesButOverrun, TypeOK

LEMMA StepTypeOK == TypeOK /\ [Next]_vars => TypeOK'
<1> SUFFICES ASSUME TypeOK, [Next]_vars
             PROVE  TypeOK'
  OBVIOUS
<1>0. TypesButOverrun /\ overrun \in BOOLEAN
  BY Zenon DEF TypeOK, TypesButOverrun
<1> USE QueueConstants DEF TypesButOverrun, writerVars, readerVars
<1>1. ASSUME Writer PROVE TypesButOverrun'
  BY <1>0, <1>1, NextIndexWraps
  DEF Writer, BeginAssign, EndAssign, Publish, CountWritten
<1>2. ASSUME Reader PROVE TypesButOverrun'
  BY <1>0, <1>2, NextIndexWraps
  DEF Reader, getNextToRead, size, Use, Advance, CountRead
<1>3. ASSUME UNCHANGED vars PROVE TypesButOverrun'
  BY <1>0, <1>3 DEF vars
<1>4. TypesButOverrun'
  BY <1>1, <1>2, <1>3 DEF Next
<1>5. overrun' \in BOOLEAN
  BY <1>0, Zenon DEF Next, Writer, Reader, BeginAssign, EndAssign, Publish, CountWritten,
     getNextToRead, size, Use, Advance, CountRead, vars
<1> QED
  BY <1>4, <1>5, Zenon DEF TypesButOverrun, TypeOK

\* The variables keep the types of the C++ members, and both indices stay
\* inside the store.
THEOREM TypeCorrect == Spec => []TypeOK
<1>1. Init => TypeOK
  BY InitTypeOK
<1>2. TypeOK /\ [Next]_vars => TypeOK'
  BY StepTypeOK
<1> QED
  BY <1>1, <1>2, PTL DEF Spec

LEMMA StepChecked ==
  ASSUME ChecksSize, TypeOK, Checked, [Next]_vars
  PROVE  Checked'
<1> USE DEF TypeOK, Checked, writerVars, readerVars
<1>1. CASE Writer
  BY <1>1 DEF Writer, BeginAssign, EndAssign, Publish, CountWritten
<1>2. CASE Reader
  BY <1>2 DEF Reader, getNextToRead, size, Use, Advance, CountRead
<1>3. CASE UNCHANGED vars
  BY <1>3 DEF vars
<1> QED
  BY <1>1, <1>2, <1>3 DEF Next

\* A reader that asks for size() before it uses an element, as OrderServer::run()
\* and Logger::flushQueue() do, never fails the ASSERT of updateReadIndex(),
\* whatever the writer does and however far it runs ahead.
THEOREM CheckedReaderNeverInvalid ==
  ASSUME ChecksSize
  PROVE  Spec => []NeverInvalid
<1>1. Init => Checked
  BY DEF Init, Checked
<1>2. TypeOK /\ Checked /\ [Next]_vars => Checked'
  BY StepChecked
<1>3. Checked => NeverInvalid
  BY DEF Checked, NeverInvalid
<1> QED
  BY <1>1, <1>2, <1>3, TypeCorrect, PTL DEF Spec

-------------------------------------------------------------------------------
(* The count.  pending elements wait, and num_elements_ is off by what the two  *)
(* threads have not counted yet, overrun or not.                               *)

published == IF writer \in {"assign", "publish"} THEN written - 1 ELSE written
pending   == published - taken

Counters ==
  /\ reader \in {"uncount", "dead"} /\ writer = "count" => num_elements_ = pending
  /\ reader \in {"uncount", "dead"} /\ writer # "count" => num_elements_ = pending + 1
  /\ reader \notin {"uncount", "dead"} /\ writer = "count" => num_elements_ = pending - 1
  /\ reader \notin {"uncount", "dead"} /\ writer # "count" => num_elements_ = pending

LEMMA StepCounters ==
  ASSUME TypeOK, TypeOK', Counters, [Next]_vars
  PROVE  Counters'
<1>p. /\ writer \in {"assign", "publish"} => pending = written - 1 - taken
      /\ writer \notin {"assign", "publish"} => pending = written - taken
      /\ writer' \in {"assign", "publish"} => pending' = written' - 1 - taken'
      /\ writer' \notin {"assign", "publish"} => pending' = written' - taken'
  BY DEF pending, published
<1> USE QueueConstants, <1>p DEF TypeOK, Counters, writerVars, readerVars
<1>1. CASE BeginAssign
  BY <1>1 DEF BeginAssign
<1>2. CASE EndAssign
  BY <1>2 DEF EndAssign
<1>3. CASE Publish
  BY <1>3 DEF Publish
<1>4. CASE CountWritten
  BY <1>4 DEF CountWritten
<1>5. CASE getNextToRead
  BY <1>5 DEF getNextToRead
<1>6. CASE size \/ Use
  BY <1>6 DEF size, Use
<1>7. CASE Advance
  BY <1>7 DEF Advance
<1>8. CASE CountRead
  BY <1>8 DEF CountRead
<1>9. CASE UNCHANGED vars
  BY <1>9 DEF vars
<1> QED
  BY <1>1, <1>2, <1>3, <1>4, <1>5, <1>6, <1>7, <1>8, <1>9 DEF Next, Writer, Reader

LEMMA AlwaysCounters == Spec => []Counters
<1>1. Init => Counters
  BY DEF Init, Counters, pending, published
<1>2. TypeOK /\ TypeOK' /\ Counters /\ [Next]_vars => Counters'
  BY StepCounters
<1> QED
  BY <1>1, <1>2, TypeCorrect, PTL DEF Spec

-------------------------------------------------------------------------------
(* The elements.  Until a full ring is published, those that wait start at      *)
(* next_read_index_, and next_write_index_ is that many slots further.         *)

\* The slot k places after slot i, for k less than Size.
Offset(i, k) == IF i + k < Size THEN i + k ELSE i + k - Size

Contents ==
  /\ 0 <= pending /\ pending < Size
  /\ reader \in {"size", "use", "advance"} => pending >= 1
  /\ next_write_index_ = Offset(next_read_index_, pending)
  /\ \A k \in 0 .. pending - 1 : store_[Offset(next_read_index_, k)] = taken + 1 + k
  /\ writer = "publish" => store_[next_write_index_] = written
  /\ reader = "advance" => got = taken + 1

Elements == overrun \/ Contents

LEMMA InitElements == Init => Elements
BY QueueConstants DEF Init, Elements, Contents, pending, published, Offset

\* The slots that wait and the slot behind them are all different.
LEMMA OffsetsDiffer ==
  ASSUME NEW i \in Slots, NEW j \in 0 .. Size - 1, NEW k \in 0 .. Size - 1
  PROVE  /\ Offset(i, j) \in Slots
         /\ j # k => Offset(i, j) # Offset(i, k)
BY QueueConstants DEF Slots, Offset

LEMMA StepContents ==
  ASSUME TypeOK, TypeOK', Contents, [Next]_vars, ~overrun'
  PROVE  Contents'
<1> DEFINE r == next_read_index_
<1> USE QueueConstants DEF TypeOK, Contents, writerVars, readerVars
<1>0. /\ pending \in 0 .. Size - 1
      /\ writer = "assign" => pending = written - 1 - taken
      /\ writer = "publish" => pending = written - 1 - taken
  BY DEF pending, published
<1>1. CASE BeginAssign
  <2>1. pending' = pending /\ r' = r /\ taken' = taken
    BY <1>1 DEF BeginAssign, pending, published
  <2>2. \A k \in 0 .. pending - 1 : Offset(r, k) # next_write_index_
    BY <1>0, OffsetsDiffer
  <2>3. /\ UNCHANGED <<next_write_index_, reader, got>>
        /\ writer' = "publish" => store_'[next_write_index_] = written'
        /\ \A i \in Slots \ {next_write_index_} : store_'[i] = store_[i]
    BY <1>1 DEF BeginAssign
  <2>4. \A k \in 0 .. pending - 1 : store_'[Offset(r, k)] = taken + 1 + k
    BY <1>0, <2>2, <2>3, OffsetsDiffer
  <2> QED
    BY <2>1, <2>3, <2>4 DEF Offset
<1>2. CASE EndAssign
  <2>1. pending' = pending /\ r' = r /\ taken' = taken
    BY <1>2 DEF EndAssign, pending, published
  <2>2. \A k \in 0 .. pending - 1 : Offset(r, k) # next_write_index_
    BY <1>0, OffsetsDiffer
  <2>3. /\ UNCHANGED <<next_write_index_, reader, got>>
        /\ writer' = "publish" => store_'[next_write_index_] = written'
        /\ \A i \in Slots \ {next_write_index_} : store_'[i] = store_[i]
    BY <1>2 DEF EndAssign
  <2>4. \A k \in 0 .. pending - 1 : store_'[Offset(r, k)] = taken + 1 + k
    BY <1>0, <2>2, <2>3, OffsetsDiffer
  <2> QED
    BY <2>1, <2>3, <2>4 DEF Offset
<1>3. CASE Publish
  <2>1. pending' = pending + 1 /\ r' = r /\ taken' = taken
    BY <1>3 DEF Publish, pending, published
  <2>6. NextIndex(next_write_index_) # r
    BY <1>3 DEF Publish
  <2>7. next_write_index_' = IF next_write_index_ + 1 = Size THEN 0 ELSE next_write_index_ + 1
    BY <1>3, NextIndexWraps DEF Publish
  <2>8. pending + 1 < Size
    BY <1>3, <1>0, <2>6, <2>7 DEF Publish, Offset, Slots
  <2>2. next_write_index_' = Offset(r, pending + 1)
    BY <1>0, <2>7, <2>8 DEF Offset, Slots
  <2>3. store_[Offset(r, pending)] = taken + 1 + pending
    BY <1>3, <1>0 DEF Publish
  <2>4. UNCHANGED <<store_, reader, got>> /\ writer' = "count"
    BY <1>3 DEF Publish
  <2>5. \A k \in 0 .. pending : store_[Offset(r, k)] = taken + 1 + k
    BY <1>0, <2>3
  <2> QED
    BY <1>0, <2>1, <2>2, <2>4, <2>5, <2>8 DEF Offset
<1>4. CASE CountWritten
  BY <1>4 DEF CountWritten, pending, published, Offset
<1>5. CASE getNextToRead
  <2>1. pending # 0
    BY <1>5 DEF getNextToRead, Offset, Slots
  <2> QED
    BY <1>5, <1>0, <2>1 DEF getNextToRead, pending, published, Offset
<1>6. CASE size
  BY <1>6 DEF size, pending, published, Offset
<1>7. CASE Use
  <2>1. pending >= 1
    BY <1>7 DEF Use
  <2>2. store_[r] = taken + 1
    <3>1. Offset(r, 0) = r /\ 0 \in 0 .. pending - 1
      BY <1>0, <2>1 DEF Offset, Slots
    <3> QED
      BY <3>1
  <2> QED
    BY <1>7, <2>2 DEF Use, pending, published, Offset
<1>8. CASE Advance
  <2>1. pending >= 1 /\ pending' = pending - 1 /\ taken' = taken + 1
    BY <1>8 DEF Advance, pending, published
  <2>2. \A k \in 0 .. Size - 2 : Offset(r', k) = Offset(r, k + 1)
    <3> SUFFICES ASSUME NEW k \in 0 .. Size - 2
                 PROVE  Offset(r', k) = Offset(r, k + 1)
      OBVIOUS
    <3>1. r' = IF r + 1 = Size THEN 0 ELSE r + 1
      BY <1>8, NextIndexWraps DEF Advance
    <3>2. CASE r + 1 = Size
      BY <3>1, <3>2 DEF Offset, Slots
    <3>3. CASE r + 1 # Size
      BY <3>1, <3>3 DEF Offset, Slots
    <3> QED
      BY <3>2, <3>3
  <2>3. UNCHANGED <<store_, next_write_index_, writer, written>>
    BY <1>8 DEF Advance
  <2>4. next_write_index_' = Offset(r, pending)'
    BY <1>0, <2>1, <2>2, <2>3
  <2>5. ASSUME NEW k \in 0 .. pending' - 1
        PROVE  store_'[Offset(r, k)'] = taken' + 1 + k
    <3>1. k + 1 \in 0 .. pending - 1 /\ k \in 0 .. Size - 2
      BY <1>0, <2>1
    <3>2. store_[Offset(r, k + 1)] = taken + 1 + (k + 1)
      BY <3>1
    <3> QED
      BY <3>1, <3>2, <2>1, <2>2, <2>3
  <2>6. 0 <= pending' /\ pending' < Size
    BY <1>0, <2>1
  <2>7. writer' # "publish" \/ store_'[next_write_index_'] = written'
    BY <2>3
  <2>8. reader' = "uncount"
    BY <1>8 DEF Advance
  <2> QED
    BY <2>4, <2>5, <2>6, <2>7, <2>8
<1>9. CASE CountRead
  BY <1>9 DEF CountRead, pending, published, Offset
<1>10. CASE UNCHANGED vars
  BY <1>10 DEF vars, pending, published, Offset
<1> QED
  BY <1>1, <1>2, <1>3, <1>4, <1>5, <1>6, <1>7, <1>8, <1>9, <1>10
  DEF Next, Writer, Reader

LEMMA StepElements == TypeOK /\ TypeOK' /\ Elements /\ [Next]_vars => Elements'
<1>1. [Next]_vars /\ overrun => overrun'
  BY DEF Next, Writer, Reader, BeginAssign, EndAssign, Publish, CountWritten,
     getNextToRead, size, Use, Advance, CountRead, vars, writerVars
<1> QED
  BY <1>1, StepContents DEF Elements

LEMMA AlwaysElements == Spec => []Elements
BY InitElements, StepElements, TypeCorrect, PTL DEF Spec

\* Until the ring is overrun the reader gets the elements in the order they were
\* written, each once and whole, whichever reader it is.
THEOREM ReadInOrder == Spec => []InOrder
<1>1. Elements => InOrder
  BY DEF Elements, Contents, InOrder
<1> QED
  BY <1>1, AlwaysElements, PTL

\* The writer assigns the element that the reader is using only on a ring that has
\* been overrun.
THEOREM NoRaceOnASlot == Spec => [](overrun \/ NoSlotRace)
<1>1. TypeOK /\ Contents => NoSlotRace
  BY QueueConstants DEF TypeOK, Contents, Offset, Slots, pending, published, NoSlotRace
<1>2. TypeOK /\ Elements => overrun \/ NoSlotRace
  BY <1>1 DEF Elements
<1> QED
  BY <1>2, TypeCorrect, AlwaysElements, PTL

\* size() is exact between two calls of each side, even when the ring is overrun.
THEOREM SizeIsExact == Spec => []SizeCounts
<1>1. TypeOK /\ Counters => SizeCounts
  BY DEF TypeOK, Counters, pending, published, SizeCounts
<1> QED
  BY <1>1, TypeCorrect, AlwaysCounters, PTL
===============================================================================
