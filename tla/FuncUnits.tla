----------------------------- MODULE FuncUnits ------------------------------
(***************************************************************************)
(* The function units and the write back stage of src/core/func_unit:      *)
(* PerfectFu.cpp, one per pipe, and WriteBackStage.cpp, which broadcasts   *)
(* finished instructions to the reorder buffer, to the dispatch stage and  *)
(* to every reservation station.                                           *)
(*                                                                         *)
(*   alu_queue        alu_queue_ of each unit                              *)
(*   inst_queue_map   the write back stage's queue of each unit            *)
(*                                                                         *)
(* The credits from the write back stage to the units carry a name no unit *)
(* answers to, and the units do not look at them when they write back.     *)
(***************************************************************************)
EXTENDS Scheduler, FiniteSetsExt

CONSTANTS FuWidth, FuDepth, WbWidth

VARIABLES alu_queue, inst_queue_map

fuVars == <<alu_queue, inst_queue_map>>

FuInit ==
    /\ alu_queue = [p \in Pipe |-> << >>]
    /\ inst_queue_map = [p \in Pipe |-> << >>]

\* SendInitCredit_, of all the units.
FuSendInitCredit_ ==
    UNION {Post(following_reservation_credit_in(p), <<FuDepth>>) : p \in Pipe}

Allocate_(p) ==
    /\ Ready(preceding_func_inst_in(p))
    /\ alu_queue' = [alu_queue EXCEPT ![p] = @ \o Message(preceding_func_inst_in(p))]
    /\ Fire(preceding_func_inst_in(p), {write_back_event(p)}, {}, Nothing)
    /\ UNCHANGED <<inst, inst_queue_map>>

\* What does not fit into the width stays until the next allocation.
WriteBack_(p) ==
    /\ Ready(write_back_event(p))
    /\ LET num == Min({FuWidth, Len(alu_queue[p])})
           group == SubSeq(alu_queue[p], 1, num)
       IN /\ alu_queue' = [alu_queue EXCEPT ![p] = SubSeq(@, num + 1, Len(@))]
          /\ Fire(write_back_event(p), {}, {},
                  IF num = 0 THEN Nothing
                  ELSE Post(preceding_write_back_inst_in, <<[name |-> p, inst_group |-> group]>>)
                       \cup Post(following_reservation_credit_in(p), <<num>>))
    /\ UNCHANGED <<inst, inst_queue_map>>

AcceptFuncInst_ ==
    /\ Ready(preceding_write_back_inst_in)
    /\ LET pair == Message(preceding_write_back_inst_in) IN
         inst_queue_map' = [inst_queue_map EXCEPT ![pair.name] = @ \o pair.inst_group]
    /\ Fire(preceding_write_back_inst_in, {arbitrate_inst_event}, {}, Nothing)
    /\ UNCHANGED <<inst, alu_queue>>

\* The units are served in the order of their names; taken[p] is how many
\* instructions the units up to p have given.
ArbitrateInst_ ==
    /\ Ready(arbitrate_inst_event)
    /\ LET taken[p \in 0 .. PipeNum] ==
               IF p = 0 THEN 0
               ELSE Min({WbWidth, taken[p - 1] + Len(inst_queue_map[p])})
           consume(p) == taken[p] - taken[p - 1]
           groups[p \in 0 .. PipeNum] ==
               IF p = 0 THEN << >>
               ELSE groups[p - 1] \o SubSeq(inst_queue_map[p], 1, consume(p))
           group == groups[PipeNum]
       IN /\ inst_queue_map' = [p \in Pipe |-> SubSeq(inst_queue_map[p], consume(p) + 1,
                                                      Len(inst_queue_map[p]))]
          /\ Fire(arbitrate_inst_event, {},
                  IF \A p \in Pipe : inst_queue_map'[p] = << >> THEN {}
                  ELSE {arbitrate_inst_event},
                  IF group = << >> THEN Nothing
                  ELSE ({write_back_rob_finish_in, write_back_dispatch_port_in}
                          \cup {forwarding_reservation_inst_in(p) : p \in Pipe}) \X {<<group>>})
    /\ UNCHANGED <<inst, alu_queue>>

\* HandleFlush_, of all the units and of the write back stage.
FuHandleFlush_ ==
    /\ alu_queue' = [p \in Pipe |-> << >>]
    /\ inst_queue_map' = [p \in Pipe |-> << >>]
=============================================================================
