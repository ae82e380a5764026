------------------------- MODULE ReservationStation -------------------------
(***************************************************************************)
(* src/core/abstract_backend/ReservationStation.cpp, one per pipe: holds   *)
(* instructions until their operands have been broadcast and the function  *)
(* unit has a place.                                                       *)
(*                                                                         *)
(*   reservation_station   the entries; an issued one stays until PopInst_ *)
(*   rs_credit             credit_: free places in the function unit       *)
(*                                                                         *)
(* rs_dependency_table_ only indexes the entries by the register that an   *)
(* operand waits for: Resolve finds them by their PhyRs1 and PhyRs2.       *)
(***************************************************************************)
EXTENDS Scheduler, SeqParts, FiniteSetsExt

CONSTANTS RsWidth, RsDepth

VARIABLES reservation_station, rs_credit

rsVars == <<reservation_station, rs_credit>>

RsInit ==
    /\ reservation_station = [p \in Pipe |-> << >>]
    /\ rs_credit = [p \in Pipe |-> 0]

\* InitCredit_, of all the stations.
RsInitCredit_ ==
    Post(rs_dispatch_credit_in, [p \in Pipe |-> [name |-> p, credit |-> RsDepth]])

RsAcceptCredit_(p) ==
    /\ Ready(following_reservation_credit_in(p))
    /\ rs_credit' = [rs_credit EXCEPT ![p] = @ + Message(following_reservation_credit_in(p))]
    /\ Fire(following_reservation_credit_in(p), {passing_event(p)}, {}, Nothing)
    /\ UNCHANGED <<inst, reservation_station>>

AllocateReStation(p) ==
    /\ Ready(preceding_reservation_inst_in(p))
    /\ LET group == Message(preceding_reservation_inst_in(p)) IN
         reservation_station' = [reservation_station EXCEPT ![p] = @ \o
             [k \in DOMAIN group |->
                [inst |-> group[k],
                 rs1_valid |-> ~inst[group[k]].IsRs1Forward,
                 rs2_valid |-> ~inst[group[k]].IsRs2Forward,
                 is_issued |-> FALSE]]]
    /\ Fire(preceding_reservation_inst_in(p), {passing_event(p)}, {pop_event(p)}, Nothing)
    /\ UNCHANGED <<inst, rs_credit>>

\* Resolve, for each instruction of a broadcast.
Resolve(entry, regs) ==
    [entry EXCEPT !.rs1_valid = @ \/ inst[entry.inst].PhyRs1 \in regs,
                  !.rs2_valid = @ \/ inst[entry.inst].PhyRs2 \in regs]

GetForwardingData(p) ==
    /\ Ready(forwarding_reservation_inst_in(p))
    /\ LET regs == {inst[i].PhyRd : i \in Range(Message(forwarding_reservation_inst_in(p)))}
       IN reservation_station' = [reservation_station EXCEPT ![p] =
             [k \in DOMAIN @ |-> Resolve(@[k], regs)]]
    /\ Fire(forwarding_reservation_inst_in(p), {}, {}, Nothing)
    /\ UNCHANGED <<inst, rs_credit>>

\* The loop compares a counter that goes up with a size that goes down, so at
\* most half of the entries, rounded up, leave at once.
PopInst_(p) ==
    /\ Ready(pop_event(p))
    /\ LET entries == reservation_station[p]
           turns == (Len(entries) + 1) \div 2
           popped == Max({k \in 0 .. turns : \A j \in 1 .. k : entries[j].is_issued})
       IN reservation_station' =
             [reservation_station EXCEPT ![p] = SubSeq(entries, popped + 1, Len(entries))]
    /\ Fire(pop_event(p), {},
            IF reservation_station'[p] = << >> THEN {} ELSE {pop_event(p)}, Nothing)
    /\ UNCHANGED <<inst, rs_credit>>

\* The oldest instructions whose operands are there, as many as the function
\* unit has places for.
PassingInst(p) ==
    /\ Ready(passing_event(p))
    /\ LET entries == reservation_station[p]
           ready == {k \in DOMAIN entries : /\ ~entries[k].is_issued
                                            /\ entries[k].rs1_valid /\ entries[k].rs2_valid}
           produce_num == Min({rs_credit[p], RsWidth})
           passing == {k \in ready : Cardinality({j \in ready : j <= k}) <= produce_num}
           group == PickAt([k \in DOMAIN entries |-> entries[k].inst], passing)
           marked == [k \in DOMAIN entries |->
                        [entries[k] EXCEPT !.is_issued = @ \/ k \in passing]]
       IN /\ reservation_station' = [reservation_station EXCEPT ![p] = marked]
          /\ rs_credit' = [rs_credit EXCEPT ![p] = @ - Len(group)]
          /\ Fire(passing_event(p), {},
                  IF entries # << >> /\ rs_credit'[p] > 0 THEN {passing_event(p)} ELSE {},
                  IF group = << >> THEN Nothing
                  ELSE Post(preceding_func_inst_in(p), <<group>>)
                       \cup Post(rs_dispatch_credit_in, <<[name |-> p, credit |-> Len(group)]>>))
    /\ UNCHANGED inst

\* HandleFlush_: the credits the function unit gave are forgotten.
RsHandleFlush_ ==
    /\ reservation_station' = [p \in Pipe |-> << >>]
    /\ rs_credit' = [p \in Pipe |-> 0]
=============================================================================
