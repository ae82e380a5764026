-------------------------------- MODULE Rob ---------------------------------
(***************************************************************************)
(* src/core/abstract_backend/Rob.cpp: the reorder buffer.                  *)
(*                                                                         *)
(*   rob   rob_, a LoopQueue of entries; an entry's slot is the RobTag of  *)
(*         its instruction                                                 *)
(*                                                                         *)
(* Left out: the waking of stores, which no perfect unit listens to, the   *)
(* statistics, the limit on retired instructions (0, no limit, as shipped),*)
(* and stall_cycle_count_, whose assertion ProgramsEnd of BackendProperties*)
(* covers.                                                                 *)
(***************************************************************************)
EXTENDS Scheduler, FiniteSetsExt

CONSTANTS RobWidth, RobDepth

VARIABLE rob

RobEntry == [inst : Nat, finish : BOOLEAN]

RobQueue == INSTANCE LoopQueue WITH Depth <- RobDepth, Value <- RobEntry

\* A slot that was never used.
NoEntry == [inst |-> 0, finish |-> FALSE]

RobInit == rob = [dataList |-> [s \in 0 .. RobDepth - 1 |-> NoEntry],
                  head |-> 0, tail |-> 0, usage |-> 0, is_rolling |-> 0]

\* InitCredit_.
RobInitCredit_ == Post(rob_renaming_credit_in, <<RobDepth>>)

\* Faulty: the tag is the slot after the one that was filled.
FaultyAllocateRob ==
    /\ Ready(preceding_rob_inst_in)
    /\ LET group == Message(preceding_rob_inst_in)
           allocated[k \in 0 .. Len(group)] ==
               IF k = 0 THEN [rob |-> rob, inst |-> inst]
               ELSE LET s == allocated[k - 1]
                        pushed == RobQueue!push(s.rob, [inst |-> group[k], finish |-> FALSE])
                    IN [rob |-> pushed,
                        inst |-> [s.inst EXCEPT ![group[k]].RobTag = pushed.tail]]
       IN /\ rob' = allocated[Len(group)].rob
          /\ inst' = allocated[Len(group)].inst
          /\ Fire(preceding_rob_inst_in, {}, {commit_event}, Nothing)

AllocateRob_ ==
    /\ Ready(preceding_rob_inst_in)
    /\ LET group == Message(preceding_rob_inst_in)
           allocated[k \in 0 .. Len(group)] ==
               IF k = 0 THEN [rob |-> rob, inst |-> inst]
               ELSE LET s == allocated[k - 1] IN
                    [rob |-> RobQueue!push(s.rob, [inst |-> group[k], finish |-> FALSE]),
                     inst |-> [s.inst EXCEPT ![group[k]].RobTag = s.rob.tail]]
       IN /\ rob' = allocated[Len(group)].rob
          /\ inst' = allocated[Len(group)].inst
          /\ Fire(preceding_rob_inst_in, {}, {commit_event}, Nothing)

\* The entry is found by the tag the instruction carries.
Finish_ ==
    /\ Ready(write_back_rob_finish_in)
    /\ LET tags == {inst[i].RobTag : i \in Range(Message(write_back_rob_finish_in))}
           marked == [s \in DOMAIN rob.dataList |->
                        [rob.dataList[s] EXCEPT !.finish = @ \/ s \in tags]]
       IN rob' = [rob EXCEPT !.dataList = marked]
    /\ Fire(write_back_rob_finish_in, {}, {}, Nothing)
    /\ UNCHANGED inst

\* The loop takes finished entries from the front, and leaves a mispredicted
\* one where it is.
Commit_ ==
    /\ Ready(commit_event)
    /\ LET entries == RobQueue!Contents(rob)
           missed(k) == inst[entries[k].inst].IsMissPrediction
           issue_num == Min({RobWidth, RobQueue!size(rob)})
           commit_num == Max({k \in 0 .. issue_num :
                                \A j \in 1 .. k : entries[j].finish /\ (j < k => ~missed(j))})
           group == [k \in 1 .. commit_num |-> entries[k].inst]
           do_flush == commit_num > 0 /\ missed(commit_num)
           popped[k \in 0 .. commit_num] ==
               IF k = 0 THEN rob ELSE RobQueue!pop(popped[k - 1])
       IN /\ rob' = popped[IF do_flush THEN commit_num - 1 ELSE commit_num]
          /\ Fire(commit_event, {},
                  IF RobQueue!empty(rob') THEN {} ELSE {commit_event},
                  (IF commit_num = 0 THEN Nothing
                   ELSE Post(Rob_cmt_inst_in, <<group>>)
                        \cup Post(rob_renaming_credit_in, <<commit_num>>))
                  \cup (IF do_flush THEN Post(rob_flush_manager_in, <<1>>) ELSE Nothing))
    /\ UNCHANGED inst

\* HandleFlush_.
RobHandleFlush_ == rob' = RobQueue!clear(rob)
=============================================================================
