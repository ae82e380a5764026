----------------------------- MODULE LoopQueue -----------------------------
(***************************************************************************)
(* The ring buffer of src/resources/LoopQueue.hpp.  A queue is a record of *)
(* the class's fields, each method an operator on that record, so that the *)
(* reorder buffer can use it as part of its own state.                     *)
(*                                                                         *)
(*   dataList    the slots; clear() does not erase them                    *)
(*   head, tail  next slot to pop, next slot to push                       *)
(*   usage       number of pushes minus number of pops                     *)
(*   is_rolling  toggled every time one of the two indices wraps; a bool   *)
(*               that size() multiplies with, so 0 or 1 here               *)
(***************************************************************************)
EXTENDS Integers, Sequences

CONSTANTS Depth, Value

ASSUME DepthAssumption == Depth \in Nat \ {0}

Slot == 0 .. Depth - 1

LoopQueueType ==
    [dataList : [Slot -> Value], head : Slot, tail : Slot,
     usage : 0 .. Depth, is_rolling : 0 .. 1]

\* clear(): the slots keep their old contents.
clear(q) ==
    [q EXCEPT !.head = 0, !.tail = 0, !.usage = 0, !.is_rolling = 0]

\* size() computes the number of entries from the indices ...
size(q) == (IF q.is_rolling = 1 THEN Depth ELSE 0) - q.head + q.tail

\* ... and asserts that it is the counted number.
SizeAssertion(q) == size(q) = q.usage

full(q) == size(q) = Depth

empty(q) == size(q) = 0

\* Faulty: forgets that the ring may have wrapped.
faulty_isValid(q, idx) == q.head <= idx /\ idx < q.tail

isValid(q, idx) == (q.is_rolling = 1) # (q.head <= idx /\ idx < q.tail)

\* Faulty: forgets to wrap.
faulty_incrementIndexValue_(idx) == idx + 1

incrementIndexValue_(idx) == IF idx = Depth - 1 THEN 0 ELSE idx + 1

decrementIndexValue_(idx) == IF idx = 0 THEN Depth - 1 ELSE idx - 1

access(q, idx) == q.dataList[idx]

front(q) == q.dataList[q.head]

back(q) == q.dataList[decrementIndexValue_(q.tail)]

\* Faulty: stores before the tail, where the youngest value is.
faulty_push(q, v) ==
    [q EXCEPT !.dataList[decrementIndexValue_(q.tail)] = v,
              !.usage = @ + 1,
              !.tail = incrementIndexValue_(@),
              !.is_rolling = IF q.tail = Depth - 1 THEN 1 - @ ELSE @]

\* push() needs a queue that is not full (it asserts so) and gives the new
\* value the slot at the old tail; incrementPointer_ toggles is_rolling when
\* the tail wraps.
push(q, v) ==
    [q EXCEPT !.dataList[q.tail] = v,
              !.usage = @ + 1,
              !.tail = incrementIndexValue_(@),
              !.is_rolling = IF q.tail = Depth - 1 THEN 1 - @ ELSE @]

\* Faulty: the head wraps without toggling is_rolling.
faulty_pop(q) ==
    [q EXCEPT !.usage = @ - 1, !.head = incrementIndexValue_(@)]

pop(q) ==
    [q EXCEPT !.usage = @ - 1,
              !.head = incrementIndexValue_(@),
              !.is_rolling = IF q.head = Depth - 1 THEN 1 - @ ELSE @]

pop_back(q) ==
    [q EXCEPT !.usage = @ - 1,
              !.tail = decrementIndexValue_(@),
              !.is_rolling = IF q.tail = 0 THEN 1 - @ ELSE @]

\* Iterators are slot indices; invalid_idx_ is the one of end().
invalid_idx_ == Depth + 1

begin(q) == IF empty(q) THEN invalid_idx_ ELSE q.head

\* Faulty: looks for the end before it moves.
faulty_incrementIterator_(q, idx) ==
    IF idx = q.tail THEN invalid_idx_ ELSE incrementIndexValue_(idx)

incrementIterator_(q, idx) ==
    IF incrementIndexValue_(idx) = q.tail
      THEN invalid_idx_
      ELSE incrementIndexValue_(idx)

decrementIterator_(q, idx) ==
    IF idx = q.head THEN invalid_idx_ ELSE decrementIndexValue_(idx)

-----------------------------------------------------------------------------
(* The queue's logical contents, oldest value first.                       *)

\* The slot of the i-th oldest entry (i >= 1).
SlotOf(q, i) ==
    IF q.head + (i - 1) < Depth
      THEN q.head + (i - 1)
      ELSE q.head + (i - 1) - Depth

Contents(q) == [i \in 1 .. q.usage |-> q.dataList[SlotOf(q, i)]]

LiveSlots(q) == {SlotOf(q, i) : i \in 1 .. q.usage}
=============================================================================
