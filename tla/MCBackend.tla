----------------------------- MODULE MCBackend ------------------------------
(***************************************************************************)
(* Instances of Backend for TLC.                                           *)
(***************************************************************************)
EXTENDS BackendProperties

\* Any pipe executes "alu" instructions, only the last one "mul".
MCDispatchMap == [p \in Pipe |-> IF p = PipeNum THEN {"alu", "mul"} ELSE {"alu"}]

Kind(fu, rd, rs1, rs2) ==
    [Fu |-> fu, IsaRd |-> rd, IsaRs1 |-> rs1, IsaRs2 |-> rs2, IsMissPrediction |-> FALSE]

\* Two kinds that read what the other writes: one that any pipe can do, and one
\* for the last pipe only, of which two can become ready at once.
MCTwoKinds == [n \in 1 .. InstNum |-> {Kind("alu", 1, 1, 2), Kind("mul", 2, 0, 1)}]

\* The same, and from the third place on one that reads both registers and writes
\* none.
MCMixedKinds ==
    [n \in 1 .. InstNum |-> MCTwoKinds[n] \cup (IF n > 2 THEN {Kind("alu", 0, 1, 2)} ELSE {})]
=============================================================================
