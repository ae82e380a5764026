------------------------------ MODULE SeqParts ------------------------------
(***************************************************************************)
(* Sums and joins of sequences, as recursive functions that proofs unfold. *)
(***************************************************************************)
EXTENDS Naturals, Sequences

SumOf(s) ==
    LET upTo[i \in 0 .. Len(s)] == IF i = 0 THEN 0 ELSE upTo[i - 1] + s[i]
    IN upTo[Len(s)]

\* The sequences of a sequence of sequences, one after the other.
Joined(seqs) ==
    LET upTo[i \in 0 .. Len(seqs)] == IF i = 0 THEN << >> ELSE upTo[i - 1] \o seqs[i]
    IN upTo[Len(seqs)]

\* What is at the given places of s, in the order of s.
PickAt(s, places) ==
    Joined([i \in 1 .. Len(s) |-> IF i \in places THEN <<s[i]>> ELSE << >>])
=============================================================================
