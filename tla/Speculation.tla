---------------------------- MODULE Speculation -----------------------------
(***************************************************************************)
(* The core with is_speculation set: PerfectFrontend goes on with the next *)
(* pc of a mispredicted instruction, and the reorder buffer asks for a     *)
(* flush when such an instruction commits.                                 *)
(*                                                                         *)
(* Every unit but the frontend has a flush port on global_flush_signal_out.*)
(* The ports are in a scheduling phase of their own and each handler only  *)
(* touches its own unit, so the flush is one step.                         *)
(***************************************************************************)
EXTENDS BackendProperties, FlushManager

\* FuncUnits give back only the places of the instructions they drop.
FlushedCredits ==
    RenamingInitCredit_ \cup RobInitCredit_ \cup DispatchInitCredit_ \cup RsInitCredit_
      \cup UNION {Post(following_reservation_credit_in(p), <<Len(alu_queue[p])>>) : p \in Pipe}

HandleFlush_ ==
    /\ Ready(global_flush_in)
    /\ RenamingHandleFlush_
    /\ RobHandleFlush_
    /\ DispatchHandleFlush_
    /\ RsHandleFlush_
    /\ FuHandleFlush_
    /\ Fire(global_flush_in, {}, {}, FlushedCredits)
    /\ UNCHANGED <<inst, fetch_credit>>

FlushManagerStep ==
    /\ ForwardingFlushSignal \/ DoFlush
    /\ UNCHANGED <<fetch_credit, renamingVars, rob, dispatchVars, rsVars, fuVars>>

-----------------------------------------------------------------------------
\* The assertions at the end of Freelist::Push: no register is on the list, or
\* on its committed copy, more than once.
FreelistAssertions ==
    \A token \in PhyReg : PushAssertions(free_list, token)

\* The assertion that begins LoopQueue::push, for the reorder buffer: a renamed
\* group finds a place for each of its instructions.
RobPushAssertion == rob.usage <= RobDepth

\* The assertion on stall_cycle_count_ in Rob::Commit_ ("commit stall"): a reorder
\* buffer that holds instructions does not go on without committing one, unless
\* it is emptied or another assertion has ended the program.
StallAssertion ==
    (~RobQueue!empty(rob)) ~>
       \/ Pending(Rob_cmt_inst_in) \/ RobQueue!empty(rob)
       \/ ~FreelistAssertions \/ ~RobPushAssertion

-----------------------------------------------------------------------------
\* A failed assertion ends the program.
SpeculativeNext ==
    /\ FreelistAssertions /\ RobPushAssertion
    /\ Next \/ FlushManagerStep \/ HandleFlush_

SpeculativeSpec == Init /\ [][SpeculativeNext]_vars

FairSpeculativeSpec == SpeculativeSpec /\ WF_vars(SpeculativeNext)
=============================================================================
