-------------------------- MODULE PerfectFrontend ---------------------------
(***************************************************************************)
(* src/core/perfect_frontend/PerfectFrontend.cpp: fetches as many          *)
(* instructions as the renaming stage has given credits for.  The          *)
(* instructions come from a generator (trace or Spike): InstNum of them,   *)
(* the n-th of any kind in InstKind[n].                                    *)
(*                                                                         *)
(*   fetch_credit   credit_                                                *)
(*                                                                         *)
(* BranchCommit and RedirectPc only steer the generator: they are actions  *)
(* of SpeculativeFetch, beside the Spike interface that they reach.        *)
(***************************************************************************)
EXTENDS Scheduler, FiniteSetsExt

CONSTANTS FetchWidth, InstNum, InstKind

VARIABLE fetch_credit

\* What is known of a fetched instruction (FuncType, registers, whether its
\* next pc was mispredicted), and the fields the units fill in.  A register
\* field of 0 also stands for an operand of type NONE.
NewInst(kind) ==
    [Fu |-> kind.Fu, IsaRd |-> kind.IsaRd, IsaRs1 |-> kind.IsaRs1,
     IsaRs2 |-> kind.IsaRs2, IsMissPrediction |-> kind.IsMissPrediction,
     PhyRd |-> 0, LPhyRd |-> 0, PhyRs1 |-> 0, PhyRs2 |-> 0, RobTag |-> 0,
     IsRs1Forward |-> FALSE, IsRs2Forward |-> FALSE]

\* What the generator may give after the first n instructions.
Programs(n, num) ==
    {kinds \in [1 .. num -> UNION Range(InstKind)] :
        \A i \in 1 .. num : kinds[i] \in InstKind[n + i]}

FrontendInit == fetch_credit = 0

\* Faulty: the credits do not wake the frontend.
SilentFetchCredit ==
    /\ Ready(backend_fetch_credit_in)
    /\ fetch_credit' = fetch_credit + Message(backend_fetch_credit_in)
    /\ Fire(backend_fetch_credit_in, {}, {}, Nothing)
    /\ UNCHANGED inst

AcceptCredit ==
    /\ Ready(backend_fetch_credit_in)
    /\ fetch_credit' = fetch_credit + Message(backend_fetch_credit_in)
    /\ Fire(backend_fetch_credit_in, {produce_inst_event_}, {}, Nothing)
    /\ UNCHANGED inst

\* The group is sent even when the generator had nothing left to give.
ProduceInst ==
    /\ Ready(produce_inst_event_)
    /\ LET produce_num == Min({FetchWidth, fetch_credit}) IN
       IF produce_num = 0
         THEN /\ Fire(produce_inst_event_, {}, {}, Nothing)
              /\ UNCHANGED <<fetch_credit, inst>>
         ELSE \E kinds \in Programs(Len(inst), Min({produce_num, InstNum - Len(inst)})) :
                LET group == [i \in DOMAIN kinds |-> Len(inst) + i] IN
                /\ inst' = inst \o [i \in DOMAIN kinds |-> NewInst(kinds[i])]
                /\ fetch_credit' = fetch_credit - Len(group)
                /\ Fire(produce_inst_event_, {},
                        IF fetch_credit' > 0 /\ Len(inst') < InstNum
                          THEN {produce_inst_event_} ELSE {},
                        Post(preceding_renaming_inst_in, <<group>>))
=============================================================================
