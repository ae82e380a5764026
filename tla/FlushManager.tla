---------------------------- MODULE FlushManager ----------------------------
(***************************************************************************)
(* src/core/abstract_backend/FlushManager.cpp: turns the signal of a       *)
(* mispredicted instruction at commit into a flush of all the units, two   *)
(* cycles later.  flush_criteria_ is always 1 and left out.                *)
(***************************************************************************)
EXTENDS Scheduler

ForwardingFlushSignal ==
    /\ Ready(rob_flush_manager_in)
    /\ Fire(rob_flush_manager_in, {}, {flush_event_}, Nothing)
    /\ UNCHANGED inst

DoFlush ==
    /\ Ready(flush_event_)
    /\ Fire(flush_event_, {}, {}, Post(global_flush_in, <<1>>))
    /\ UNCHANGED inst
=============================================================================
