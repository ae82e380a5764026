----------------------------- MODULE MemoryPort -----------------------------
(***************************************************************************)
(* What the core may expect of the memory side, whatever lies below: every *)
(* answer it gets is to a request it has made and is the only one to it.   *)
(* The answers may come in any order.  An answer to anything else is       *)
(* unasked, and there is none.                                             *)
(***************************************************************************)
EXTENDS Naturals, Sequences

VARIABLES
    answers,    \* how often each request made so far has been answered
    unasked     \* how many answers the core got to no request of its own

Init == answers = << >> /\ unasked = 0

Ask == answers' = Append(answers, 0) /\ UNCHANGED unasked

Answer(r) ==
    /\ answers[r] = 0
    /\ answers' = [answers EXCEPT ![r] = 1]
    /\ UNCHANGED unasked

Next == Ask \/ \E r \in DOMAIN answers : Answer(r)

Spec == Init /\ [][Next]_<<answers, unasked>>
=============================================================================
