---------------------------- MODULE BoundedFifo ----------------------------
(***************************************************************************)
(* What the ring buffer of src/resources/LoopQueue.hpp promises its users: *)
(* a double-ended queue of at most Depth values.  Values enter at the back,*)
(* and leave at the front (retirement) or at the back (undoing the         *)
(* youngest allocation); clear() empties it.                               *)
(***************************************************************************)
EXTENDS Naturals, Sequences

CONSTANTS Depth, Value

VARIABLE items

Init == items = << >>

Push(v) == Len(items) < Depth /\ items' = Append(items, v)

Pop == items # << >> /\ items' = Tail(items)

PopBack == items # << >> /\ items' = SubSeq(items, 1, Len(items) - 1)

Clear == items' = << >>

Next ==
    \/ \E v \in Value : Push(v)
    \/ Pop
    \/ PopBack
    \/ Clear

Spec == Init /\ [][Next]_items
=============================================================================
