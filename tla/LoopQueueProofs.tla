-------------------------- MODULE LoopQueueProofs --------------------------
(***************************************************************************)
(* For every Depth > 0 and every Value: the assertion in LoopQueue's size()*)
(* never fails, walking the ring visits its logical contents, and the ring *)
(* implements the bounded queue of BoundedFifo.                            *)
(*                                                                         *)
(* RingInv is inductive as it stands.  size() being the counted usage is   *)
(* what makes it so: full() and empty(), the guards of push and pop, are   *)
(* computed from the indices, and only because they agree with usage do    *)
(* they exclude the step in which an index wraps past the other one and    *)
(* the flag is toggled the wrong way.                                      *)
(***************************************************************************)
EXTENDS LoopQueueSpec, TLAPS

Ring(q) == q \in LoopQueueType /\ SizeAssertion(q)

RingInv == Ring(queue)

-----------------------------------------------------------------------------
\* The fields of a ring, without the record set they are drawn from.
Fields(q) ==
    /\ q.dataList \in [Slot -> Value]
    /\ q.head \in 0 .. Depth - 1
    /\ q.tail \in 0 .. Depth - 1
    /\ q.usage \in 0 .. Depth
    /\ q.is_rolling \in 0 .. 1
    /\ (IF q.is_rolling = 1 THEN Depth ELSE 0) - q.head + q.tail = q.usage

LEMMA RingFields == ASSUME NEW q, Ring(q) PROVE Fields(q)
BY DEF Fields, Ring, LoopQueueType, SizeAssertion, size, Slot

\* push() on a ring that is not full gives a ring with one entry more.
LEMMA PushKeepsRing ==
  ASSUME NEW q, Ring(q), ~full(q), NEW v \in Value
  PROVE  /\ Ring(push(q, v))
         /\ q.usage < Depth
         /\ push(q, v).head = q.head
         /\ push(q, v).usage = q.usage + 1
         /\ push(q, v).dataList = [q.dataList EXCEPT ![q.tail] = v]
<1> DEFINE p == push(q, v)
<1>0. Fields(q)
  BY RingFields
<1>1. q \in LoopQueueType
  BY DEF Ring
<1>2. /\ p.dataList = [q.dataList EXCEPT ![q.tail] = v]
      /\ p.head = q.head
      /\ p.tail = incrementIndexValue_(q.tail)
      /\ p.usage = q.usage + 1
      /\ p.is_rolling = IF q.tail = Depth - 1 THEN 1 - q.is_rolling ELSE q.is_rolling
  BY <1>1 DEF push, LoopQueueType
<1>3. q.usage # Depth
  BY <1>0 DEF Fields, full, size
<1>4. /\ p.tail \in 0 .. Depth - 1
      /\ p.usage \in 0 .. Depth
      /\ p.is_rolling \in 0 .. 1
      /\ (IF p.is_rolling = 1 THEN Depth ELSE 0) - p.head + p.tail = p.usage
  <2> HIDE DEF p
  <2> QED BY <1>2, <1>3, <1>0, DepthAssumption DEF Fields, incrementIndexValue_
<1>5. p.head \in 0 .. Depth - 1 /\ p.dataList \in [Slot -> Value]
  <2> HIDE DEF p
  <2> QED BY <1>2, <1>0 DEF Fields
<1>6. p \in LoopQueueType
  BY <1>1, <1>4, <1>5 DEF push, LoopQueueType, Slot
<1>7. q.usage < Depth
  BY <1>0, <1>3, DepthAssumption DEF Fields
<1>8. SizeAssertion(p)
  BY <1>4 DEF SizeAssertion, size
<1> QED
  BY <1>2, <1>6, <1>7, <1>8 DEF Ring

\* pop() on a ring that is not empty gives a ring with one entry less, from
\* the next head on.
LEMMA PopKeepsRing ==
  ASSUME NEW q, Ring(q), ~empty(q)
  PROVE  /\ Ring(pop(q))
         /\ q.usage > 0
         /\ pop(q).head = incrementIndexValue_(q.head)
         /\ pop(q).usage = q.usage - 1
         /\ pop(q).dataList = q.dataList
<1> DEFINE p == pop(q)
<1>0. Fields(q)
  BY RingFields
<1>1. q \in LoopQueueType
  BY DEF Ring
<1>2. /\ p.dataList = q.dataList
      /\ p.head = incrementIndexValue_(q.head)
      /\ p.tail = q.tail
      /\ p.usage = q.usage - 1
      /\ p.is_rolling = IF q.head = Depth - 1 THEN 1 - q.is_rolling ELSE q.is_rolling
  BY <1>1 DEF pop, LoopQueueType
<1>3. q.usage > 0
  BY <1>0, DepthAssumption DEF Fields, empty, size
<1>4. /\ p.head \in 0 .. Depth - 1
      /\ p.usage \in 0 .. Depth
      /\ p.is_rolling \in 0 .. 1
      /\ (IF p.is_rolling = 1 THEN Depth ELSE 0) - p.head + p.tail = p.usage
  <2> HIDE DEF p
  <2> QED BY <1>2, <1>3, <1>0, DepthAssumption DEF Fields, incrementIndexValue_
<1>5. p.tail \in 0 .. Depth - 1 /\ p.dataList \in [Slot -> Value]
  <2> HIDE DEF p
  <2> QED BY <1>2, <1>0 DEF Fields
<1>6. p \in LoopQueueType
  BY <1>1, <1>4, <1>5 DEF pop, LoopQueueType, Slot
<1>7. SizeAssertion(p)
  BY <1>4 DEF SizeAssertion, size
<1> QED
  BY <1>2, <1>3, <1>6, <1>7 DEF Ring

\* pop_back() on a ring that is not empty gives a ring with one entry less,
\* from the same head on.
LEMMA PopBackKeepsRing ==
  ASSUME NEW q, Ring(q), ~empty(q)
  PROVE  /\ Ring(pop_back(q))
         /\ q.usage > 0
         /\ pop_back(q).head = q.head
         /\ pop_back(q).usage = q.usage - 1
         /\ pop_back(q).dataList = q.dataList
<1> DEFINE p == pop_back(q)
<1>0. Fields(q)
  BY RingFields
<1>1. q \in LoopQueueType
  BY DEF Ring
<1>2. /\ p.dataList = q.dataList
      /\ p.head = q.head
      /\ p.tail = decrementIndexValue_(q.tail)
      /\ p.usage = q.usage - 1
      /\ p.is_rolling = IF q.tail = 0 THEN 1 - q.is_rolling ELSE q.is_rolling
  BY <1>1 DEF pop_back, LoopQueueType
<1>3. q.usage > 0
  BY <1>0, DepthAssumption DEF Fields, empty, size
<1>4. /\ p.tail \in 0 .. Depth - 1
      /\ p.usage \in 0 .. Depth
      /\ p.is_rolling \in 0 .. 1
      /\ (IF p.is_rolling = 1 THEN Depth ELSE 0) - p.head + p.tail = p.usage
  <2> HIDE DEF p
  <2> QED BY <1>2, <1>3, <1>0, DepthAssumption DEF Fields, decrementIndexValue_
<1>5. p.head \in 0 .. Depth - 1 /\ p.dataList \in [Slot -> Value]
  <2> HIDE DEF p
  <2> QED BY <1>2, <1>0 DEF Fields
<1>6. p \in LoopQueueType
  BY <1>1, <1>4, <1>5 DEF pop_back, LoopQueueType, Slot
<1>7. SizeAssertion(p)
  BY <1>4 DEF SizeAssertion, size
<1> QED
  BY <1>2, <1>3, <1>6, <1>7 DEF Ring

\* clear() gives an empty ring.
LEMMA ClearKeepsRing ==
  ASSUME NEW q, Ring(q)
  PROVE  Ring(clear(q)) /\ clear(q).usage = 0
<1> DEFINE p == clear(q)
<1>0. Fields(q)
  BY RingFields
<1>1. q \in LoopQueueType
  BY DEF Ring
<1>2. /\ p.dataList = q.dataList
      /\ p.head = 0 /\ p.tail = 0 /\ p.usage = 0 /\ p.is_rolling = 0
  BY <1>1 DEF clear, LoopQueueType
<1>3. 0 \in Slot /\ 0 \in 0 .. Depth /\ 0 \in 0 .. 1
  BY DepthAssumption DEF Slot
<1>4. p \in LoopQueueType
  BY <1>1, <1>3 DEF clear, LoopQueueType
<1>5. SizeAssertion(p)
  BY <1>2 DEF SizeAssertion, size
<1> QED
  BY <1>2, <1>4, <1>5 DEF Ring

-----------------------------------------------------------------------------
LEMMA RingInit == Init => RingInv
<1> SUFFICES ASSUME Init PROVE RingInv
  OBVIOUS
<1> QED
  BY DepthAssumption
  DEF Init, RingInv, Ring, SizeAssertion, size, LoopQueueType, Slot

LEMMA RingStep == RingInv /\ [Next]_queue => RingInv'
<1> SUFFICES ASSUME RingInv, [Next]_queue PROVE RingInv'
  OBVIOUS
<1> USE DEF RingInv
<1>1. ASSUME NEW v \in Value, Push(v) PROVE RingInv'
  BY <1>1, PushKeepsRing DEF Push
<1>2. CASE Pop
  BY <1>2, PopKeepsRing DEF Pop
<1>3. CASE PopBack
  BY <1>3, PopBackKeepsRing DEF PopBack
<1>4. CASE Clear
  BY <1>4, ClearKeepsRing DEF Clear
<1>5. CASE UNCHANGED queue
  BY <1>5
<1> QED
  BY <1>1, <1>2, <1>3, <1>4, <1>5 DEF Next

\* The ring's fields keep their types: no index leaves the array and the count
\* of entries never leaves 0..Depth.
THEOREM TypeCorrect == Spec => []TypeOK
<1>1. RingInv => TypeOK
  BY DEF RingInv, Ring, TypeOK
<1> QED
  BY RingInit, RingStep, <1>1, PTL DEF Spec

\* The assertion in size() never fails, whatever the depth.
THEOREM SizeAssertionHolds == Spec => []SizeIsUsage
<1>1. RingInv => SizeIsUsage
  BY DEF RingInv, Ring, SizeIsUsage
<1> QED
  BY RingInit, RingStep, <1>1, PTL DEF Spec

-----------------------------------------------------------------------------
\* A walk over the ring, forwards or backwards, meets its logical contents.
THEOREM WalkIsContents == Spec => []WalkMeetsContents
<1>1. ASSUME RingInv PROVE WalkMeetsContents
  <2>1. Fields(queue)
    BY <1>1, RingFields DEF RingInv
  <2>2. begin(queue) = IF queue.usage = 0 THEN invalid_idx_ ELSE SlotOf(queue, 1)
    BY <2>1, DepthAssumption DEF Fields, begin, empty, size, SlotOf
  <2>3. ASSUME NEW i \in 1 .. queue.usage
        PROVE  incrementIterator_(queue, SlotOf(queue, i)) =
                  IF i = queue.usage THEN invalid_idx_ ELSE SlotOf(queue, i + 1)
    BY <2>1, DepthAssumption
    DEF Fields, incrementIterator_, incrementIndexValue_, SlotOf
  <2>4. ASSUME NEW i \in 1 .. queue.usage
        PROVE  decrementIterator_(queue, SlotOf(queue, i)) =
                  IF i = 1 THEN invalid_idx_ ELSE SlotOf(queue, i - 1)
    BY <2>1, DepthAssumption
    DEF Fields, decrementIterator_, decrementIndexValue_, SlotOf
  <2>5. queue.usage > 0 => /\ front(queue) = Contents(queue)[1]
                           /\ back(queue) = Contents(queue)[queue.usage]
    <3> SUFFICES ASSUME queue.usage > 0
                 PROVE  /\ front(queue) = Contents(queue)[1]
                        /\ back(queue) = Contents(queue)[queue.usage]
      OBVIOUS
    <3>1. 1 \in 1 .. queue.usage /\ queue.usage \in 1 .. queue.usage
      BY <2>1 DEF Fields
    <3>2. /\ SlotOf(queue, 1) = queue.head
          /\ SlotOf(queue, queue.usage) = decrementIndexValue_(queue.tail)
      BY <2>1, DepthAssumption DEF Fields, SlotOf, decrementIndexValue_
    <3> QED
      BY <3>1, <3>2 DEF front, back, Contents
  <2> QED
    BY <2>2, <2>3, <2>4, <2>5 DEF WalkMeetsContents
<1> QED
  BY RingInit, RingStep, <1>1, PTL DEF Spec

-----------------------------------------------------------------------------
\* Dereferencing an iterator at an entry of the queue never trips over the
\* assertion isValid(); while is_rolling is unset nothing else passes it.
THEOREM EntriesPassIsValid == Spec => []EntriesAreValid
<1>1. ASSUME RingInv PROVE EntriesAreValid
  <2>1. Fields(queue)
    BY <1>1, RingFields DEF RingInv
  <2>2. ASSUME NEW i \in 1 .. queue.usage
        PROVE  isValid(queue, SlotOf(queue, i))
    BY <2>1, DepthAssumption DEF Fields, isValid, SlotOf
  <2>3. ASSUME NEW idx \in Slot, isValid(queue, idx), queue.is_rolling = 0
        PROVE  idx \in LiveSlots(queue)
    <3>1. /\ queue.head <= idx /\ idx < queue.tail
          /\ queue.usage = queue.tail - queue.head
      BY <2>1, <2>3 DEF Fields, isValid
    <3>2. /\ idx - queue.head + 1 \in 1 .. queue.usage
          /\ SlotOf(queue, idx - queue.head + 1) = idx
      BY SMTT(60), <2>1, <3>1, DepthAssumption DEF Fields, SlotOf, Slot
    <3> QED
      BY <3>2 DEF LiveSlots
  <2> QED
    BY <2>2, <2>3 DEF EntriesAreValid, LiveSlots
<1> QED
  BY RingInit, RingStep, <1>1, PTL DEF Spec

-----------------------------------------------------------------------------
\* The slots of a ring's entries are slots.
LEMMA SlotOfIsSlot ==
  ASSUME NEW q, Ring(q), NEW i \in 1 .. q.usage
  PROVE  SlotOf(q, i) \in Slot
<1>1. Fields(q)
  BY RingFields
<1> QED
  BY <1>1, DepthAssumption DEF Fields, SlotOf, Slot

\* The logical contents are a sequence as long as usage counts.
LEMMA ContentsIsSeq ==
  ASSUME NEW q, Ring(q)
  PROVE  Contents(q) \in Seq(Value) /\ Len(Contents(q)) = q.usage
<1>1. Fields(q)
  BY RingFields
<1>2. \A i \in 1 .. q.usage : q.dataList[SlotOf(q, i)] \in Value
  BY <1>1, SlotOfIsSlot DEF Fields
<1>3. q.usage \in Nat
  BY <1>1, DepthAssumption DEF Fields
<1> QED
  BY <1>2, <1>3 DEF Contents

\* push() appends.
LEMMA PushAppends ==
  ASSUME NEW q, Ring(q), ~full(q), NEW v \in Value
  PROVE  Contents(push(q, v)) = Append(Contents(q), v)
<1> DEFINE p == push(q, v)
<1>1. Fields(q) /\ Ring(p)
  BY RingFields, PushKeepsRing
<1>2. /\ q.usage < Depth /\ p.head = q.head /\ p.usage = q.usage + 1
      /\ p.dataList = [q.dataList EXCEPT ![q.tail] = v]
  BY PushKeepsRing
<1> HIDE DEF p
<1>3. /\ Contents(p) \in Seq(Value) /\ Len(Contents(p)) = q.usage + 1
      /\ Contents(q) \in Seq(Value) /\ Len(Contents(q)) = q.usage
  BY <1>1, <1>2, ContentsIsSeq
<1>4. /\ SlotOf(p, q.usage + 1) = q.tail
      /\ q.tail \in Slot
  BY SMTT(60), <1>1, <1>2, DepthAssumption DEF Fields, SlotOf, Slot
<1>5. ASSUME NEW i \in 1 .. q.usage
      PROVE  SlotOf(p, i) = SlotOf(q, i) /\ SlotOf(q, i) # q.tail /\ SlotOf(q, i) \in Slot
  <2>1. SlotOf(p, i) = SlotOf(q, i)
    BY <1>2 DEF SlotOf
  <2>2. SlotOf(q, i) # q.tail
    BY <1>1, <1>2, DepthAssumption DEF Fields, SlotOf
  <2> QED
    BY <2>1, <2>2, SlotOfIsSlot
<1>6. Contents(p)[q.usage + 1] = v
  <2>1. q.usage + 1 \in 1 .. p.usage
    BY <1>1, <1>2 DEF Fields
  <2>2. Contents(p)[q.usage + 1] = p.dataList[q.tail]
    BY <1>4, <2>1 DEF Contents
  <2> QED
    BY <2>2, <1>1, <1>2, <1>4 DEF Fields
<1>7. ASSUME NEW i \in 1 .. q.usage
      PROVE  Contents(p)[i] = Contents(q)[i]
  <2>1. i \in 1 .. p.usage
    BY <1>1, <1>2 DEF Fields
  <2>2. Contents(p)[i] = p.dataList[SlotOf(q, i)]
    BY <1>5, <2>1 DEF Contents
  <2>3. Contents(q)[i] = q.dataList[SlotOf(q, i)]
    BY DEF Contents
  <2> QED
    BY <2>2, <2>3, <1>1, <1>2, <1>5 DEF Fields
<1>8. q.usage \in Nat
  BY <1>1 DEF Fields
<1> QED
  BY <1>3, <1>6, <1>7, <1>8 DEF p

\* pop() removes the first entry.
LEMMA PopTakesTail ==
  ASSUME NEW q, Ring(q), ~empty(q)
  PROVE  Contents(q) # << >> /\ Contents(pop(q)) = Tail(Contents(q))
<1> DEFINE p == pop(q)
<1>1. Fields(q) /\ Ring(p)
  BY RingFields, PopKeepsRing
<1>2. /\ q.usage > 0 /\ p.head = incrementIndexValue_(q.head)
      /\ p.usage = q.usage - 1 /\ p.dataList = q.dataList
  BY PopKeepsRing
<1> HIDE DEF p
<1>3. /\ Contents(p) \in Seq(Value) /\ Len(Contents(p)) = q.usage - 1
      /\ Contents(q) \in Seq(Value) /\ Len(Contents(q)) = q.usage
  BY <1>1, <1>2, ContentsIsSeq
<1>4. ASSUME NEW i \in 1 .. q.usage - 1
      PROVE  Contents(p)[i] = Contents(q)[i + 1]
  <2>1. i \in 1 .. p.usage /\ i + 1 \in 1 .. q.usage
    BY <1>1, <1>2 DEF Fields
  <2>2. SlotOf(p, i) = SlotOf(q, i + 1)
    BY <1>1, <1>2, <2>1, DepthAssumption DEF Fields, SlotOf, incrementIndexValue_
  <2> QED
    BY <1>2, <2>1, <2>2 DEF Contents
<1>5. q.usage \in Nat
  BY <1>1 DEF Fields
<1> QED
  BY <1>2, <1>3, <1>4, <1>5 DEF p

\* pop_back() removes the last entry.
LEMMA PopBackTakesInit ==
  ASSUME NEW q, Ring(q), ~empty(q)
  PROVE  /\ Contents(q) # << >>
         /\ Contents(pop_back(q)) = SubSeq(Contents(q), 1, Len(Contents(q)) - 1)
<1> DEFINE p == pop_back(q)
<1>1. Fields(q) /\ Ring(p)
  BY RingFields, PopBackKeepsRing
<1>2. /\ q.usage > 0 /\ p.head = q.head
      /\ p.usage = q.usage - 1 /\ p.dataList = q.dataList
  BY PopBackKeepsRing
<1> HIDE DEF p
<1>3. /\ Contents(p) \in Seq(Value) /\ Len(Contents(p)) = q.usage - 1
      /\ Contents(q) \in Seq(Value) /\ Len(Contents(q)) = q.usage
  BY <1>1, <1>2, ContentsIsSeq
<1>4. ASSUME NEW i \in 1 .. q.usage - 1
      PROVE  Contents(p)[i] = Contents(q)[i]
  <2>1. i \in 1 .. p.usage /\ i \in 1 .. q.usage
    BY <1>1, <1>2 DEF Fields
  <2>2. SlotOf(p, i) = SlotOf(q, i)
    BY <1>2 DEF SlotOf
  <2> QED
    BY <1>2, <2>1, <2>2 DEF Contents
<1>5. q.usage \in Nat
  BY <1>1 DEF Fields
<1> QED
  BY <1>2, <1>3, <1>4, <1>5 DEF p

\* The ring buffer implements the bounded queue, for every depth: push appends,
\* pop and pop_back take the oldest and the youngest entry, and none of them
\* disturbs another entry, wrapped or not.
THEOREM ImplementsFifo == Spec => ImplementsBoundedFifo
<1>1. Init => Fifo!Init
  <2> SUFFICES ASSUME Init PROVE Fifo!Init
    OBVIOUS
  <2>1. Ring(queue) /\ queue.usage = 0
    BY RingInit DEF Init, RingInv
  <2> QED
    BY <2>1, ContentsIsSeq DEF Fifo!Init
<1>2. RingInv /\ [Next]_queue => [Fifo!Next]_(Contents(queue))
  <2> SUFFICES ASSUME RingInv, [Next]_queue
               PROVE  Fifo!Next \/ Contents(queue') = Contents(queue)
    BY DEF Contents, SlotOf
  <2> USE DEF RingInv
  <2>1. ASSUME NEW v \in Value, Push(v) PROVE Fifo!Push(v)
    <3>1. Contents(queue)' = Append(Contents(queue), v)
      BY <2>1, PushAppends DEF Push
    <3>2. Len(Contents(queue)) < Depth
      BY ZenonT(60), <2>1, PushKeepsRing, ContentsIsSeq DEF Push
    <3> QED
      BY <3>1, <3>2 DEF Fifo!Push
  <2>2. CASE Pop
    <3>1. Contents(queue) # << >> /\ Contents(queue)' = Tail(Contents(queue))
      BY <2>2, PopTakesTail DEF Pop
    <3> QED
      BY <3>1 DEF Fifo!Pop, Fifo!Next
  <2>3. CASE PopBack
    <3>1. /\ Contents(queue) # << >>
          /\ Contents(queue)' = SubSeq(Contents(queue), 1, Len(Contents(queue)) - 1)
      BY <2>3, PopBackTakesInit DEF PopBack
    <3> QED
      BY <3>1 DEF Fifo!PopBack, Fifo!Next
  <2>4. CASE Clear
    <3>1. Ring(queue') /\ queue'.usage = 0
      BY <2>4, ClearKeepsRing DEF Clear
    <3>2. Contents(queue)' = << >>
      BY <3>1, ContentsIsSeq
    <3> QED
      BY <3>2 DEF Fifo!Clear, Fifo!Next
  <2>5. CASE UNCHANGED queue
    BY <2>5
  <2> QED
    BY <2>1, <2>2, <2>3, <2>4, <2>5 DEF Next, Fifo!Next
<1> QED
  BY RingInit, RingStep, <1>1, <1>2, PTL DEF Spec, ImplementsBoundedFifo, Fifo!Spec

-----------------------------------------------------------------------------
\* Only push() writes a slot, and the one it writes holds no entry: so an entry
\* that is there before and after a step has not moved and not changed.
LEMMA EntriesStay ==
  ASSUME RingInv, Next, NEW s \in LiveSlots(queue) \cap LiveSlots(queue')
  PROVE  access(queue', s) = access(queue, s)
<1> USE DEF RingInv
<1>1. ASSUME NEW v \in Value, Push(v) PROVE access(queue', s) = access(queue, s)
  <2>1. queue'.dataList = [queue.dataList EXCEPT ![queue.tail] = v] /\ queue.usage < Depth
    BY <1>1, PushKeepsRing DEF Push
  <2>2. PICK i \in 1 .. queue.usage : s = SlotOf(queue, i)
    BY DEF LiveSlots
  <2>3. Fields(queue)
    BY RingFields
  <2>4. s # queue.tail
    BY <2>1, <2>2, <2>3, DepthAssumption DEF Fields, SlotOf
  <2> QED
    BY <2>1, <2>3, <2>4 DEF access, Fields
<1>2. CASE Pop
  BY <1>2, PopKeepsRing DEF Pop, access
<1>3. CASE PopBack
  BY <1>3, PopBackKeepsRing DEF PopBack, access
<1>4. CASE Clear
  <2>1. queue'.usage = 0
    BY <1>4, ClearKeepsRing DEF Clear
  <2> QED
    BY <2>1 DEF LiveSlots
<1> QED
  BY <1>1, <1>2, <1>3, <1>4 DEF Next

\* A RobTag stays good: the slot an entry was given finds that entry, unchanged,
\* for as long as the entry is in the queue, whatever is pushed, popped at
\* either end or wrapped in between.
THEOREM TagsStayGood == Spec => TagsAreStable
<1>1. RingInv /\ [Next]_queue =>
        [\A s \in LiveSlots(queue) \cap LiveSlots(queue') :
            access(queue', s) = access(queue, s)]_queue
  BY EntriesStay
<1> QED
  BY RingInit, RingStep, <1>1, PTL DEF Spec, TagsAreStable
=============================================================================
