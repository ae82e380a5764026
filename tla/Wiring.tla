------------------------------- MODULE Wiring -------------------------------
(***************************************************************************)
(* The units of the core as the event scheduler sees them: the in-ports and*)
(* the events that have handlers, the delay of each port, and the order in *)
(* which the handlers of one cycle run.  The names are those of the port   *)
(* and event members in src/core; arches/config/simple_arch.json binds each*)
(* out-port to the in-ports its messages are posted to here.               *)
(*                                                                         *)
(* Ports that only feed handlers without effect are left out:              *)
(* preceding_rob_wakeup_store_in (DummyFunc_), dispatch_physical_reg_read_in*)
(* (ReadFromPhysicalReg_), the LSU ports of the renaming stage             *)
(* (is_perfect_lsu), and write_back_func_credit_in, whose credits carry a  *)
(* name no function unit has.                                              *)
(***************************************************************************)
EXTENDS Naturals, Sequences

\* PipeNum reservation stations, each with a function unit of its own.
CONSTANT PipeNum

ASSUME PipeNumAssumption == PipeNum \in Nat \ {0}

Pipe == 1 .. PipeNum

-----------------------------------------------------------------------------
backend_fetch_credit_in == <<"backend_fetch_credit_in", 0>>
produce_inst_event_ == <<"produce_inst_event_", 0>>

preceding_renaming_inst_in == <<"preceding_renaming_inst_in", 0>>
following_renaming_credit_in == <<"following_renaming_credit_in", 0>>
rob_renaming_credit_in == <<"rob_renaming_credit_in", 0>>
Rob_cmt_inst_in == <<"Rob_cmt_inst_in", 0>>
rename_event == <<"rename_event", 0>>

preceding_rob_inst_in == <<"preceding_rob_inst_in", 0>>
write_back_rob_finish_in == <<"write_back_rob_finish_in", 0>>
commit_event == <<"commit_event", 0>>

preceding_dispatch_inst_in == <<"preceding_dispatch_inst_in", 0>>
rs_dispatch_credit_in == <<"rs_dispatch_credit_in", 0>>
write_back_dispatch_port_in == <<"write_back_dispatch_port_in", 0>>
dispatch_pop_events_ == <<"dispatch_pop_events_", 0>>
dispatch_select_events_ == <<"dispatch_select_events_", 0>>
dispatch_issue_events_ == <<"dispatch_issue_events_", 0>>

preceding_reservation_inst_in(p) == <<"preceding_reservation_inst_in", p>>
forwarding_reservation_inst_in(p) == <<"forwarding_reservation_inst_in", p>>
following_reservation_credit_in(p) == <<"following_reservation_credit_in", p>>
passing_event(p) == <<"passing_event", p>>
pop_event(p) == <<"pop_event", p>>

preceding_func_inst_in(p) == <<"preceding_func_inst_in", p>>
write_back_event(p) == <<"write_back_event", p>>

preceding_write_back_inst_in == <<"preceding_write_back_inst_in", 0>>
arbitrate_inst_event == <<"arbitrate_inst_event", 0>>

rob_flush_manager_in == <<"rob_flush_manager_in", 0>>
flush_event_ == <<"flush_event_", 0>>
\* renaming_flush_in, rob_flush_in, dispatch_flush_in, ...: one signal.
global_flush_in == <<"global_flush_in", 0>>

\* Ports with delay 0 and with delay 1 (the last argument of a port).
ZeroDelayPort ==
    {backend_fetch_credit_in, following_renaming_credit_in, rob_renaming_credit_in,
     Rob_cmt_inst_in, rs_dispatch_credit_in, preceding_write_back_inst_in,
     rob_flush_manager_in}
    \cup {following_reservation_credit_in(p) : p \in Pipe}

OneDelayPort ==
    {preceding_renaming_inst_in, preceding_rob_inst_in, write_back_rob_finish_in,
     preceding_dispatch_inst_in, write_back_dispatch_port_in, global_flush_in}
    \cup {preceding_reservation_inst_in(p) : p \in Pipe}
    \cup {forwarding_reservation_inst_in(p) : p \in Pipe}
    \cup {preceding_func_inst_in(p) : p \in Pipe}

\* The SingleCycleUniqueEvents.
UniqueEvent ==
    {produce_inst_event_, rename_event, commit_event, dispatch_pop_events_,
     dispatch_select_events_, dispatch_issue_events_, arbitrate_inst_event,
     flush_event_}
    \cup {passing_event(p) : p \in Pipe}
    \cup {pop_event(p) : p \in Pipe}
    \cup {write_back_event(p) : p \in Pipe}

Source == ZeroDelayPort \cup OneDelayPort \cup UniqueEvent

-----------------------------------------------------------------------------
(* The order of the handlers within a cycle.                               *)

\* Faulty: a station may hear a broadcast before the instruction it is for.
FaultyDeclaredOrder ==
    {<<following_renaming_credit_in, rename_event>>,
     <<rob_renaming_credit_in, rename_event>>,
     <<dispatch_pop_events_, dispatch_select_events_>>,
     <<dispatch_select_events_, dispatch_issue_events_>>,
     <<write_back_dispatch_port_in, dispatch_select_events_>>,
     <<preceding_rob_inst_in, dispatch_issue_events_>>}

\* The >> statements in the units' constructors.  The ordering points they go
\* through are global: a station's allocation goes before every forwarding.
DeclaredOrder ==
    {<<following_renaming_credit_in, rename_event>>,
     <<rob_renaming_credit_in, rename_event>>,
     <<dispatch_pop_events_, dispatch_select_events_>>,
     <<dispatch_select_events_, dispatch_issue_events_>>,
     <<write_back_dispatch_port_in, dispatch_select_events_>>,
     <<preceding_rob_inst_in, dispatch_issue_events_>>}
    \cup {<<preceding_reservation_inst_in(p), forwarding_reservation_inst_in(q)>> :
             p \in Pipe, q \in Pipe}

\* Sparta lets the in-ports of a unit go before the unit's events.
PortsBeforeEvents ==
    ({backend_fetch_credit_in} \X {produce_inst_event_})
    \cup ({preceding_renaming_inst_in, Rob_cmt_inst_in} \X {rename_event})
    \cup ({preceding_rob_inst_in, write_back_rob_finish_in} \X {commit_event})
    \cup ({preceding_dispatch_inst_in, rs_dispatch_credit_in, write_back_dispatch_port_in}
            \X {dispatch_pop_events_, dispatch_select_events_, dispatch_issue_events_})
    \cup UNION {{preceding_reservation_inst_in(p), forwarding_reservation_inst_in(p),
                 following_reservation_credit_in(p)}
                   \X {passing_event(p), pop_event(p)} : p \in Pipe}
    \cup {<<preceding_func_inst_in(p), write_back_event(p)>> : p \in Pipe}
    \cup {<<preceding_write_back_inst_in, arbitrate_inst_event>>,
          <<rob_flush_manager_in, flush_event_>>}

\* A handler that sends with delay 0 goes before the one that receives:
\* Sparta refuses to post to what has already had its turn.
ZeroDelayOrder ==
    {<<rename_event, backend_fetch_credit_in>>,
     <<commit_event, rob_renaming_credit_in>>,
     <<commit_event, Rob_cmt_inst_in>>,
     <<commit_event, rob_flush_manager_in>>,
     <<dispatch_select_events_, following_renaming_credit_in>>}
    \cup UNION {{<<passing_event(p), rs_dispatch_credit_in>>,
                 <<write_back_event(p), following_reservation_credit_in(p)>>,
                 <<write_back_event(p), preceding_write_back_inst_in>>} : p \in Pipe}

\* The flush ports are in phase Flush, everything else in the later phase Tick.
FlushPhaseFirst == {global_flush_in} \X (Source \ {global_flush_in})

\* All of it, transitively.  A chain has fewer than 32 links.
Before ==
    LET direct == DeclaredOrder \cup PortsBeforeEvents \cup ZeroDelayOrder
                    \cup FlushPhaseFirst
        reach[n \in 0 .. 5] ==
            IF n = 0
              THEN direct
              ELSE LET r == reach[n - 1]
                   IN r \cup UNION {{<<ab[1], c>> : c \in {bc[2] : bc \in {x \in r : x[1] = ab[2]}}} :
                                      ab \in r}
    IN reach[5]

Earlier == [c \in Source |-> {d \in Source : <<d, c>> \in Before}]

\* No handler has to wait for itself.
ASSUME OrderAssumption == \A c \in Source : c \notin Earlier[c]
=============================================================================
