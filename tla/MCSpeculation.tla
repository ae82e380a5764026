--------------------------- MODULE MCSpeculation ----------------------------
(***************************************************************************)
(* Instances of Speculation for TLC.                                       *)
(***************************************************************************)
EXTENDS Speculation

\* The first pipe takes branches, the last one the rest.
MCDispatchMap ==
    [p \in Pipe |-> (IF p = 1 THEN {"bru"} ELSE {}) \cup (IF p = PipeNum THEN {"alu"} ELSE {})]

Kind(fu, rd, missed) ==
    [Fu |-> fu, IsaRd |-> rd, IsaRs1 |-> 0, IsaRs2 |-> 0, IsMissPrediction |-> missed]

\* Writes of x1, and jumps that link to x1 and were predicted wrongly.
MCLinkingJumps == [n \in 1 .. InstNum |-> {Kind("alu", 1, FALSE), Kind("bru", 1, TRUE)}]

\* A branch that was predicted wrongly, its wrong path, and another such branch.
MCTwoBranches ==
    [n \in 1 .. InstNum |->
       {IF n \in {1, InstNum} THEN Kind("bru", 0, TRUE) ELSE Kind("alu", 0, FALSE)}]
=============================================================================
