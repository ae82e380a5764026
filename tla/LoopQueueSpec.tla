--------------------------- MODULE LoopQueueSpec ---------------------------
(***************************************************************************)
(* A LoopQueue used by one caller in any order its assertions allow, and   *)
(* the claim that it implements the bounded queue of BoundedFifo.          *)
(***************************************************************************)
EXTENDS LoopQueue

VARIABLE queue

\* new DataT[depth] leaves the slots with whatever the element type's default
\* constructor gives: any value.
Init ==
    \E d \in [Slot -> Value] :
        queue = [dataList |-> d, head |-> 0, tail |-> 0, usage |-> 0,
                 is_rolling |-> 0]

Push(v) == ~full(queue) /\ queue' = push(queue, v)

Pop == ~empty(queue) /\ queue' = pop(queue)

PopBack == ~empty(queue) /\ queue' = pop_back(queue)

Clear == queue' = clear(queue)

Next ==
    \/ \E v \in Value : Push(v)
    \/ Pop
    \/ PopBack
    \/ Clear

Spec == Init /\ [][Next]_queue

-----------------------------------------------------------------------------
TypeOK == queue \in LoopQueueType

\* The assertion in size(), evaluated by every full() and empty(): however
\* often the two indices have wrapped, the size computed from them and the
\* toggled flag is the number of pushes minus the number of pops.
SizeIsUsage == SizeAssertion(queue)

\* A walk with ++ from begin() meets exactly the entries, oldest first, and
\* then end(); a walk with -- from the youngest entry meets them in reverse.
\* (operator<< of the reorder buffer walks it this way, full ring included.)
WalkMeetsContents ==
    /\ begin(queue) = IF queue.usage = 0 THEN invalid_idx_ ELSE SlotOf(queue, 1)
    /\ \A i \in 1 .. queue.usage :
          /\ incrementIterator_(queue, SlotOf(queue, i)) =
                IF i = queue.usage THEN invalid_idx_ ELSE SlotOf(queue, i + 1)
          /\ decrementIterator_(queue, SlotOf(queue, i)) =
                IF i = 1 THEN invalid_idx_ ELSE SlotOf(queue, i - 1)
    /\ queue.usage > 0 => /\ front(queue) = Contents(queue)[1]
                          /\ back(queue) = Contents(queue)[queue.usage]

\* An entry keeps the slot it was given until it is popped or the queue is
\* cleared: the reorder buffer hands the slot out as the instruction's RobTag
\* and uses it to find the entry again when the instruction finishes.
TagsAreStable ==
    [][\A s \in LiveSlots(queue) \cap LiveSlots(queue') :
          access(queue', s) = access(queue, s)]_queue

\* Every method acts on the logical contents as the bounded queue does.
Fifo == INSTANCE BoundedFifo WITH items <- Contents(queue)
ImplementsBoundedFifo == Fifo!Spec

\* The assertion with which an iterator is dereferenced, isValid(), never
\* rejects an entry of the queue; and as long as the contents do not wrap
\* around the end of the ring it accepts nothing else.  (While they do, it
\* accepts every slot.)
EntriesAreValid ==
    \A idx \in Slot :
        /\ idx \in LiveSlots(queue) => isValid(queue, idx)
        /\ isValid(queue, idx) /\ queue.is_rolling = 0 => idx \in LiveSlots(queue)
=============================================================================
