---------------------------- MODULE DataflowCore ----------------------------
(***************************************************************************)
(* What an out-of-order core promises its program: an instruction starts   *)
(* only when the values it reads have been produced by the instructions    *)
(* that the program order says it reads from, and instructions retire in   *)
(* program order once they are done.  There are no queues, no credits, no  *)
(* physical registers and no cycles here.                                  *)
(*                                                                         *)
(*   program   the instructions fetched so far, in program order           *)
(*   started   the ones that have been given to a function unit            *)
(*   done      the ones whose result has been broadcast                    *)
(*   retired   how many have retired                                       *)
(***************************************************************************)
EXTENDS Naturals, Sequences

\* An operation has the fields IsaRd, IsaRs1 and IsaRs2; 0 is no register.
CONSTANTS Operation, MaxFetch

VARIABLES program, started, done, retired

vars == <<program, started, done, retired>>

Init ==
    /\ program = << >>
    /\ started = {}
    /\ done = {}
    /\ retired = 0

\* The youngest instruction before i that writes register r, if there is one.
Producers(i, r) ==
    {j \in 1 .. i - 1 : /\ r # 0
                        /\ program[j].IsaRd = r
                        /\ \A k \in j + 1 .. i - 1 : program[k].IsaRd # r}

Fetch ==
    /\ \E n \in 1 .. MaxFetch : \E ops \in [1 .. n -> Operation] :
          program' = program \o ops
    /\ UNCHANGED <<started, done, retired>>

Start ==
    /\ \E S \in SUBSET (DOMAIN program \ started) :
          /\ \A i \in S : /\ Producers(i, program[i].IsaRs1) \subseteq done
                          /\ Producers(i, program[i].IsaRs2) \subseteq done
          /\ started' = started \cup S
    /\ UNCHANGED <<program, done, retired>>

Finish ==
    /\ \E S \in SUBSET (started \ done) : done' = done \cup S
    /\ UNCHANGED <<program, started, retired>>

Retire ==
    /\ \E n \in retired + 1 .. Len(program) :
          /\ \A i \in retired + 1 .. n : i \in done
          /\ retired' = n
    /\ UNCHANGED <<program, started, done>>

Next == Fetch \/ Start \/ Finish \/ Retire

Spec == Init /\ [][Next]_vars
=============================================================================
