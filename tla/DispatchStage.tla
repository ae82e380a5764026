--------------------------- MODULE DispatchStage ----------------------------
(***************************************************************************)
(* src/core/abstract_backend/DispatchStage.cpp with its Scoreboard: renamed*)
(* instructions wait here for a place in a reservation station that takes  *)
(* their kind, and leave out of order.                                     *)
(*                                                                         *)
(*   inst_queue             the queue of entries; an issued one stays until*)
(*                          everything older has been issued too           *)
(*   credit_map             free places in each reservation station        *)
(*   dispatch_pending_queue what SelectInst_ chose and IssueInst_ will send*)
(*   score_board            registers whose value has not been broadcast   *)
(*                                                                         *)
(* ReadPhyReg_ and CheckRegStatus_, which run between the two, read values *)
(* and log: no control depends on them.                                    *)
(***************************************************************************)
EXTENDS Scheduler, Freelist, SeqParts, FiniteSetsExt

\* DispatchMap[p] is the set of kinds that station p takes, PipeIssueWidth how
\* many instructions a cycle can bring it.
CONSTANTS DispatchDepth, DispatchMap, PipeIssueWidth

VARIABLES inst_queue, credit_map, dispatch_pending_queue, score_board

dispatchVars == <<inst_queue, credit_map, dispatch_pending_queue, score_board>>

DispatchInit ==
    /\ inst_queue = << >>
    /\ credit_map = [p \in Pipe |-> 0]
    /\ dispatch_pending_queue = [p \in Pipe |-> << >>]
    /\ score_board = {}

\* InitCredit_.
DispatchInitCredit_ == Post(following_renaming_credit_in, <<DispatchDepth>>)

\* Faulty: only the first of a group is noted in the scoreboard.
FaultyDispatchAllocateInst_ ==
    /\ Ready(preceding_dispatch_inst_in)
    /\ LET group == Message(preceding_dispatch_inst_in) IN
         /\ inst_queue' = inst_queue \o [k \in DOMAIN group |->
                                           [inst |-> group[k], is_issued |-> FALSE]]
         /\ score_board' = score_board \cup ({inst[Head(group)].PhyRd} \ {0})
    /\ Fire(preceding_dispatch_inst_in,
            {dispatch_select_events_, dispatch_pop_events_}, {}, Nothing)
    /\ UNCHANGED <<inst, credit_map, dispatch_pending_queue>>

DispatchAllocateInst_ ==
    /\ Ready(preceding_dispatch_inst_in)
    /\ LET group == Message(preceding_dispatch_inst_in) IN
         /\ inst_queue' = inst_queue \o [k \in DOMAIN group |->
                                           [inst |-> group[k], is_issued |-> FALSE]]
         /\ score_board' = score_board \cup ({inst[i].PhyRd : i \in Range(group)} \ {0})
    /\ Fire(preceding_dispatch_inst_in,
            {dispatch_select_events_, dispatch_pop_events_}, {}, Nothing)
    /\ UNCHANGED <<inst, credit_map, dispatch_pending_queue>>

FuncUnitBack_ ==
    /\ Ready(write_back_dispatch_port_in)
    /\ score_board' = score_board \
          {inst[i].PhyRd : i \in Range(Message(write_back_dispatch_port_in))}
    /\ Fire(write_back_dispatch_port_in, {}, {}, Nothing)
    /\ UNCHANGED <<inst, inst_queue, credit_map, dispatch_pending_queue>>

DispatchAcceptCredit_ ==
    /\ Ready(rs_dispatch_credit_in)
    /\ LET credit_pair == Message(rs_dispatch_credit_in) IN
         credit_map' = [credit_map EXCEPT ![credit_pair.name] = @ + credit_pair.credit]
    /\ Fire(rs_dispatch_credit_in, {}, {}, Nothing)
    /\ UNCHANGED <<inst, inst_queue, dispatch_pending_queue, score_board>>

\* Leading issued entries leave.  The code pops while a range-for is at the
\* popped entry; the iterators of std::deque survive that.
PopIssueQueue_ ==
    /\ Ready(dispatch_pop_events_)
    /\ LET issue_queue_pop_size ==
               Max({k \in 0 .. Len(inst_queue) : \A j \in 1 .. k : inst_queue[j].is_issued})
       IN inst_queue' = SubSeq(inst_queue, issue_queue_pop_size + 1, Len(inst_queue))
    /\ Fire(dispatch_pop_events_, {},
            IF inst_queue' = << >> THEN {}
            ELSE {dispatch_pop_events_, dispatch_select_events_}, Nothing)
    /\ UNCHANGED <<inst, credit_map, dispatch_pending_queue, score_board>>

\* Faulty: the second source is not looked at.
FaultyCheckRegStatus(i) == [i EXCEPT !.IsRs1Forward = @ \/ i.PhyRs1 \in score_board]

\* CheckRegStatusImp_: a source whose register is busy will be forwarded.
CheckRegStatusImp_(i) ==
    [i EXCEPT !.IsRs1Forward = @ \/ i.PhyRs1 \in score_board,
              !.IsRs2Forward = @ \/ i.PhyRs2 \in score_board]

\* Faulty: does not stop when the credits are used up.
OverspendingChoice(queue, p) ==
    LET fits == {k \in DOMAIN queue : /\ ~queue[k].is_issued
                                      /\ inst[queue[k].inst].Fu \in DispatchMap[p]}
    IN {k \in fits : Cardinality({j \in fits : j <= k}) <= PipeIssueWidth}

\* Faulty: takes what another station has taken.
RepeatedChoice(queue, p) ==
    LET fits == {k \in DOMAIN queue : inst[queue[k].inst].Fu \in DispatchMap[p]}
    IN {k \in fits : Cardinality({j \in fits : j <= k}) <= Min({credit_map[p], PipeIssueWidth})}

\* The places in a queue that station p can take from, oldest first, at most as
\* many as its credits and its width allow.
Chosen(queue, p) ==
    LET fits == {k \in DOMAIN queue : /\ ~queue[k].is_issued
                                      /\ inst[queue[k].inst].Fu \in DispatchMap[p]}
    IN {k \in fits : Cardinality({j \in fits : j <= k}) <= Min({credit_map[p], PipeIssueWidth})}

\* queues[p] is the queue after the stations up to p have had their choice.
SelectInst_ ==
    /\ Ready(dispatch_select_events_)
    /\ LET queues[p \in 0 .. PipeNum] ==
               IF p = 0 THEN inst_queue
               ELSE LET queue == queues[p - 1]
                        chosen == Chosen(queue, p)
                    IN [k \in DOMAIN queue |->
                          [queue[k] EXCEPT !.is_issued = @ \/ k \in chosen]]
           chosen(p) == Chosen(queues[p - 1], p)
           selected == {inst_queue[k].inst : k \in UNION {chosen(p) : p \in Pipe}}
       IN /\ inst_queue' = queues[PipeNum]
          /\ dispatch_pending_queue' =
                [p \in Pipe |-> dispatch_pending_queue[p] \o
                   PickAt([k \in DOMAIN inst_queue |-> inst_queue[k].inst], chosen(p))]
          /\ credit_map' = [p \in Pipe |-> credit_map[p] - Cardinality(chosen(p))]
          /\ inst' = [i \in DOMAIN inst |->
                        IF i \in selected THEN CheckRegStatusImp_(inst[i]) ELSE inst[i]]
          /\ Fire(dispatch_select_events_, {dispatch_issue_events_}, {},
                  IF selected = {} THEN Nothing
                  ELSE Post(following_renaming_credit_in, <<Cardinality(selected)>>))
    /\ UNCHANGED score_board

IssueInst_ ==
    /\ Ready(dispatch_issue_events_)
    /\ LET filled == {p \in Pipe : dispatch_pending_queue[p] # << >>}
       IN Fire(dispatch_issue_events_, {},
               IF inst_queue = << >> THEN {} ELSE {dispatch_select_events_},
               UNION {Post(preceding_reservation_inst_in(p), <<dispatch_pending_queue[p]>>) :
                        p \in filled})
    /\ dispatch_pending_queue' = [p \in Pipe |-> << >>]
    /\ UNCHANGED <<inst, inst_queue, credit_map, score_board>>

\* HandleFlush_: neither the scoreboard nor what is pending is cleared.
DispatchHandleFlush_ ==
    /\ credit_map' = [p \in Pipe |-> 0]
    /\ inst_queue' = << >>
    /\ UNCHANGED <<dispatch_pending_queue, score_board>>
=============================================================================
