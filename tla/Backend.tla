------------------------------ MODULE Backend -------------------------------
(***************************************************************************)
(* The core of arches/config/simple_arch.json: PerfectFrontend, the renaming*)
(* stage, the reorder buffer, the dispatch stage, PipeNum reservation      *)
(* stations with a perfect function unit each, and the write back stage,   *)
(* run by the scheduler one handler at a time.                             *)
(*                                                                         *)
(* This is the machine without speculation (is_speculation is false, as    *)
(* shipped): the reorder buffer never asks for a flush.  Speculation adds  *)
(* the flush.                                                              *)
(***************************************************************************)
EXTENDS PerfectFrontend, RenamingStage, Rob, DispatchStage, ReservationStation,
        FuncUnits

\* FuWidth is at least RsWidth in the shipped configuration and in all the runs;
\* nothing that is proved needs it.
ASSUME SizesAssumption ==
    /\ {FetchWidth, RenameWidth, RobWidth, RsWidth, FuWidth, WbWidth} \subseteq Nat \ {0}
    /\ {RenameDepth, RobDepth, DispatchDepth, RsDepth, FuDepth} \subseteq Nat \ {0}
    /\ PhyRegNum > IsaRegNum
    /\ InstNum \in Nat /\ PipeIssueWidth \in Nat
    /\ DOMAIN InstKind = 1 .. InstNum
    /\ \A k \in UNION Range(InstKind) :
          k \in [Fu : STRING, IsaRd : IsaReg, IsaRs1 : IsaReg, IsaRs2 : IsaReg,
                 IsMissPrediction : BOOLEAN]
    /\ \A k \in UNION Range(InstKind) : \E p \in Pipe : k.Fu \in DispatchMap[p]

vars == <<schedulerVars, inst, fetch_credit, renamingVars, rob, dispatchVars,
          rsVars, fuVars>>

Init ==
    /\ inst = << >>
    /\ FrontendInit
    /\ RenamingInit
    /\ RobInit
    /\ DispatchInit
    /\ RsInit
    /\ FuInit
    /\ SchedulerInit(RenamingInitCredit_ \cup RobInitCredit_ \cup DispatchInitCredit_
                       \cup RsInitCredit_ \cup FuSendInitCredit_)

FrontendStep ==
    /\ AcceptCredit \/ ProduceInst
    /\ UNCHANGED <<renamingVars, rob, dispatchVars, rsVars, fuVars>>

RenamingStep ==
    /\ \/ AcceptRobCredit_
       \/ AcceptDispatchCredit_
       \/ RenamingAllocateInst_
       \/ RenameInst_
       \/ RobCommit_
    /\ UNCHANGED <<fetch_credit, rob, dispatchVars, rsVars, fuVars>>

RobStep ==
    /\ AllocateRob_ \/ Finish_ \/ Commit_
    /\ UNCHANGED <<fetch_credit, renamingVars, dispatchVars, rsVars, fuVars>>

DispatchStep ==
    /\ \/ DispatchAllocateInst_
       \/ FuncUnitBack_
       \/ DispatchAcceptCredit_
       \/ PopIssueQueue_
       \/ SelectInst_
       \/ IssueInst_
    /\ UNCHANGED <<fetch_credit, renamingVars, rob, rsVars, fuVars>>

StationStep ==
    /\ \E p \in Pipe :
          \/ RsAcceptCredit_(p)
          \/ AllocateReStation(p)
          \/ GetForwardingData(p)
          \/ PopInst_(p)
          \/ PassingInst(p)
    /\ UNCHANGED <<fetch_credit, renamingVars, rob, dispatchVars, fuVars>>

FuStep ==
    /\ \/ \E p \in Pipe : Allocate_(p) \/ WriteBack_(p)
       \/ AcceptFuncInst_
       \/ ArbitrateInst_
    /\ UNCHANGED <<fetch_credit, renamingVars, rob, dispatchVars, rsVars>>

NextCycle ==
    /\ Tick
    /\ UNCHANGED <<fetch_credit, renamingVars, rob, dispatchVars, rsVars, fuVars>>

Next ==
    \/ FrontendStep
    \/ RenamingStep
    \/ RobStep
    \/ DispatchStep
    \/ StationStep
    \/ FuStep
    \/ NextCycle

Spec == Init /\ [][Next]_vars

\* The scheduler runs every handler that is pending and goes on to the next
\* cycle until nothing is scheduled any more.
FairSpec == Spec /\ WF_vars(Next)
=============================================================================
