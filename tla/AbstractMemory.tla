--------------------------- MODULE AbstractMemory ---------------------------
(***************************************************************************)
(* src/uncore/memory/AbstractMemory.cpp: every request is answered after   *)
(* access_latency cycles, with the request itself, and its credit returned.*)
(***************************************************************************)
EXTENDS UncorePorts

VARIABLE ev_handle_mem_req   \* the requests whose answers are scheduled

Memory == LevelNum + 1

MemoryInit == ev_handle_mem_req = << >>

receive_mem_req ==
    /\ in_access_req[Memory] # << >>
    /\ ev_handle_mem_req' = Append(ev_handle_mem_req, Head(in_access_req[Memory]))
    /\ in_access_req' = [in_access_req EXCEPT ![Memory] = Tail(@)]
    /\ UNCHANGED <<in_access_resp, in_downstream_credit, next_level_credit, failed>>

\* Faulty: the answer is sent and the credit forgotten.
Faulty_handle_mem_req ==
    /\ ev_handle_mem_req # << >>
    /\ SendResp(Memory, Head(ev_handle_mem_req))
    /\ ev_handle_mem_req' = Tail(ev_handle_mem_req)
    /\ UNCHANGED <<in_access_req, in_downstream_credit, next_level_credit, failed>>

handle_mem_req ==
    /\ ev_handle_mem_req # << >>
    /\ SendResp(Memory, Head(ev_handle_mem_req))
    /\ SendCredit(Memory, 1)
    /\ ev_handle_mem_req' = Tail(ev_handle_mem_req)
    /\ UNCHANGED <<in_access_req, next_level_credit, failed>>
=============================================================================
