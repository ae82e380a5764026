--------------------------- MODULE RenamingStage ----------------------------
(***************************************************************************)
(* src/core/abstract_backend/RenamingStage.cpp with a perfect LSU, the     *)
(* configuration arches/config/simple_arch.json ships.                     *)
(*                                                                         *)
(*   renaming_stage_queue   instructions not yet renamed                   *)
(*   dispatch_credit,       free places in the dispatch queue and in the   *)
(*   rob_credit             reorder buffer                                 *)
(*   free_list,             Freelist                                       *)
(*   renaming_table,        RenamingTable: the table                       *)
(*   renaming_table_backup  and its committed copy                         *)
(*   inflight               history: the instructions renamed and not      *)
(*                          committed, oldest first                        *)
(*                                                                         *)
(* With a perfect LSU nobody sends load and store queue credits, so those  *)
(* two counters stay 0 and whole_credit_ with them: the stage never        *)
(* reschedules itself after renaming and lives on what wakes it.           *)
(***************************************************************************)
EXTENDS Scheduler, RenamingTable, SeqParts, FiniteSetsExt

CONSTANTS RenameWidth, RenameDepth

VARIABLES renaming_stage_queue, dispatch_credit, rob_credit,
          free_list, renaming_table, renaming_table_backup, inflight

renamingVars == <<renaming_stage_queue, dispatch_credit, rob_credit,
                  free_list, renaming_table, renaming_table_backup, inflight>>

RenamingInit ==
    /\ renaming_stage_queue = << >>
    /\ dispatch_credit = 0
    /\ rob_credit = 0
    /\ free_list = FreelistInit
    /\ renaming_table = TableInit
    /\ renaming_table_backup = TableInit
    /\ inflight = << >>

\* InitCredit_.
RenamingInitCredit_ == Post(backend_fetch_credit_in, <<RenameDepth>>)

\* Faulty: the new credits replace the old ones.
ReplacingRobCredit ==
    /\ Ready(rob_renaming_credit_in)
    /\ rob_credit' = Message(rob_renaming_credit_in)
    /\ Fire(rob_renaming_credit_in, {rename_event}, {}, Nothing)
    /\ UNCHANGED <<inst, renaming_stage_queue, dispatch_credit, free_list,
                   renaming_table, renaming_table_backup, inflight>>

\* Faulty: the credits do not wake the stage.
SilentRobCredit ==
    /\ Ready(rob_renaming_credit_in)
    /\ rob_credit' = rob_credit + Message(rob_renaming_credit_in)
    /\ Fire(rob_renaming_credit_in, {}, {}, Nothing)
    /\ UNCHANGED <<inst, renaming_stage_queue, dispatch_credit, free_list,
                   renaming_table, renaming_table_backup, inflight>>

AcceptRobCredit_ ==
    /\ Ready(rob_renaming_credit_in)
    /\ rob_credit' = rob_credit + Message(rob_renaming_credit_in)
    /\ Fire(rob_renaming_credit_in, {rename_event}, {}, Nothing)
    /\ UNCHANGED <<inst, renaming_stage_queue, dispatch_credit, free_list,
                   renaming_table, renaming_table_backup, inflight>>

AcceptDispatchCredit_ ==
    /\ Ready(following_renaming_credit_in)
    /\ dispatch_credit' = dispatch_credit + Message(following_renaming_credit_in)
    /\ Fire(following_renaming_credit_in, {rename_event}, {}, Nothing)
    /\ UNCHANGED <<inst, renaming_stage_queue, rob_credit, free_list,
                   renaming_table, renaming_table_backup, inflight>>

RenamingAllocateInst_ ==
    /\ Ready(preceding_renaming_inst_in)
    /\ renaming_stage_queue' =
          renaming_stage_queue \o Message(preceding_renaming_inst_in)
    /\ Fire(preceding_renaming_inst_in, {rename_event}, {}, Nothing)
    /\ UNCHANGED <<inst, dispatch_credit, rob_credit, free_list,
                   renaming_table, renaming_table_backup, inflight>>

\* What renaming has done so far to the registers and the instructions.
RenamingProgress == [fl |-> free_list, table |-> renaming_table, inst |-> inst]

\* Faulty: maps the destination before the old mapping is read.
FaultyRenameInstImp(s, i) ==
    LET rd == s.inst[i].IsaRd
        table == RenamedTable(s.fl, s.table, rd)
    IN
    [inst |-> [s.inst EXCEPT ![i].PhyRs1 = s.table[s.inst[i].IsaRs1],
                             ![i].PhyRs2 = s.table[s.inst[i].IsaRs2],
                             ![i].LPhyRd = table[rd],
                             ![i].PhyRd = RenamedRd(s.fl, rd)],
     fl |-> RenamedFreelist(s.fl, rd),
     table |-> table]

\* The sources are looked up before the destination is mapped anew.
RenameInstImp_(s, i) ==
    LET rd == s.inst[i].IsaRd IN
    [inst |-> [s.inst EXCEPT ![i].PhyRs1 = s.table[s.inst[i].IsaRs1],
                             ![i].PhyRs2 = s.table[s.inst[i].IsaRs2],
                             ![i].LPhyRd = s.table[rd],
                             ![i].PhyRd = RenamedRd(s.fl, rd)],
     fl |-> RenamedFreelist(s.fl, rd),
     table |-> RenamedTable(s.fl, s.table, rd)]

\* progress[k] is the state after k turns of the loop; the loop ends early when
\* the queue or the free list is empty.
RenameInst_ ==
    /\ Ready(rename_event)
    /\ LET produce_inst_num == Min({dispatch_credit, rob_credit, RenameWidth})
           turns == Min({produce_inst_num, Len(renaming_stage_queue)})
           progress[k \in 0 .. turns] ==
               IF k = 0 THEN RenamingProgress
               ELSE RenameInstImp_(progress[k - 1], renaming_stage_queue[k])
           renamed == Max({k \in 0 .. turns :
                             \A j \in 0 .. k - 1 : ~IsEmpty(progress[j].fl)})
           group == SubSeq(renaming_stage_queue, 1, renamed)
       IN
       IF renaming_stage_queue # << >> /\ IsEmpty(free_list)
         THEN /\ Fire(rename_event, {}, {rename_event}, Nothing)
              /\ UNCHANGED <<inst, renamingVars>>
         ELSE /\ inst' = progress[renamed].inst
              /\ free_list' = progress[renamed].fl
              /\ renaming_table' = progress[renamed].table
              /\ renaming_stage_queue' =
                    SubSeq(renaming_stage_queue, renamed + 1, Len(renaming_stage_queue))
              /\ dispatch_credit' = dispatch_credit - renamed
              /\ rob_credit' = rob_credit - renamed
              /\ inflight' = inflight \o group
              /\ Fire(rename_event, {}, {},
                      IF renamed = 0 THEN Nothing
                      ELSE Post(backend_fetch_credit_in, <<renamed>>)
                           \cup Post(preceding_rob_inst_in, <<group>>)
                           \cup Post(preceding_dispatch_inst_in, <<group>>))
              /\ UNCHANGED renaming_table_backup

\* A released register wakes the stage, which may be waiting for one.
RobCommit_ ==
    /\ Ready(Rob_cmt_inst_in)
    /\ LET group == Message(Rob_cmt_inst_in)
           lists[k \in 0 .. Len(group)] ==
               IF k = 0 THEN free_list
               ELSE CommittedFreelist(lists[k - 1], inst[group[k]].PhyRd,
                                      inst[group[k]].LPhyRd)
           tables[k \in 0 .. Len(group)] ==
               IF k = 0 THEN renaming_table_backup
               ELSE CommittedTable(tables[k - 1], inst[group[k]].IsaRd,
                                   inst[group[k]].PhyRd)
       IN /\ free_list' = lists[Len(group)]
          /\ renaming_table_backup' = tables[Len(group)]
          /\ inflight' = PickAt(inflight, {k \in DOMAIN inflight : inflight[k] \notin Range(group)})
          /\ Fire(Rob_cmt_inst_in, {},
                  IF \E k \in DOMAIN group : inst[group[k]].LPhyRd # 0
                    THEN {rename_event} ELSE {},
                  Nothing)
    /\ UNCHANGED <<inst, renaming_stage_queue, dispatch_credit, rob_credit,
                   renaming_table>>

\* HandleFlush_: the credits are forgotten and the registers rolled back.
RenamingHandleFlush_ ==
    /\ dispatch_credit' = 0
    /\ rob_credit' = 0
    /\ renaming_stage_queue' = << >>
    /\ free_list' = RollBack(free_list)
    /\ renaming_table' = TableRollBack(renaming_table, renaming_table_backup)
    /\ inflight' = << >>
    /\ UNCHANGED renaming_table_backup
=============================================================================
