----------------------------- MODULE UncorePorts ----------------------------
(***************************************************************************)
(* The memory side of arches/dev.yaml: a core, LevelNum caches below it    *)
(* (l1d_cache, l2_cache) and a memory, each bound to the next by a request *)
(* port, a response port and a credit port.  Level 0 is the core, levels   *)
(* 1..LevelNum are caches, level LevelNum + 1 is the memory.               *)
(*                                                                         *)
(* Every port has a delay of at least one cycle, and cache_latency and     *)
(* access_latency are parameters.  So a message arrives some time after it *)
(* was sent, in the order of sending on its port, and nothing more is said *)
(* of time: what holds here holds for all latencies.                       *)
(*                                                                         *)
(* The ports are one request wide (upstream_access_ports_num and           *)
(* downstream_access_ports_num are 1, the default), so a group of requests *)
(* is one request.                                                         *)
(***************************************************************************)
EXTENDS Naturals, Sequences

CONSTANTS
    LevelNum,   \* caches between the core and the memory
    LineNum,    \* cache lines of the address space
    ReqNum,     \* how many requests the core makes: a bound
    SegNum      \* cacheline_size / access_ports_bandwidth

ASSUME UncoreAssumption ==
    /\ LevelNum \in Nat \ {0}
    /\ LineNum \in Nat \ {0}
    /\ ReqNum \in Nat
    /\ SegNum \in Nat \ {0}

VARIABLES
    in_access_req,         \* requests on their way to each level from 1 on
    in_access_resp,        \* responses on their way to each level up to LevelNum
    in_downstream_credit,  \* credits on their way to each level up to LevelNum
    next_level_credit,     \* credits each level up to LevelNum has in hand
    failed                 \* the assertion at which the simulation stopped

portVars == <<in_access_req, in_access_resp, in_downstream_credit, next_level_credit,
              failed>>

Level == 1 .. LevelNum
Requester == 0 .. LevelNum
Server == 1 .. LevelNum + 1
Line == 0 .. LineNum - 1

\* MemAccInfo: who asks (0 for a write back, which nobody asked for), for which
\* line, and what the caches note in it.  It travels by pointer, and a cache
\* that misses writes its own mshrid into it.  The values travel here: with two
\* caches the first sees of what the second writes only what comes back to it,
\* the core only the id; with three or more RequestsByValue (BaseCache) is
\* needed, since the second answers the first with the id the third has written.
Request == [id : 0 .. ReqNum, line : Line, mshrid : Nat, subindex : 0 .. SegNum - 1]

None == "none"

Running == failed = None

\* sparta_assert: the simulation stops.
Fail(assertion) == failed' = assertion

SendResp(l, resp) == in_access_resp' = [in_access_resp EXCEPT ![l - 1] = Append(@, resp)]

\* n messages of one credit each.
SendCredit(l, n) ==
    in_downstream_credit' =
        [in_downstream_credit EXCEPT ![l - 1] = @ \o [i \in 1 .. n |-> 1]]

\* BaseCache::recvCredit, and the core's handler of the same message.
recvCredit(l) ==
    /\ in_downstream_credit[l] # << >>
    /\ next_level_credit' = [next_level_credit EXCEPT ![l] = @ + Head(in_downstream_credit[l])]
    /\ in_downstream_credit' = [in_downstream_credit EXCEPT ![l] = Tail(@)]
    /\ UNCHANGED <<in_access_req, in_access_resp, failed>>

\* The SendInitCredit of every unit has run.
PortsInit(initCredits) ==
    /\ in_access_req = [l \in Server |-> << >>]
    /\ in_access_resp = [l \in Requester |-> << >>]
    /\ in_downstream_credit = [l \in Requester |-> <<initCredits[l + 1]>>]
    /\ next_level_credit = [l \in Requester |-> 0]
    /\ failed = None
=============================================================================
