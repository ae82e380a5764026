----------------------------- MODULE BaseCache ------------------------------
(***************************************************************************)
(* src/uncore/cache/BaseCache.cpp.  The caches are the members of Level;   *)
(* each has its tags, its miss queue and the responses waiting to go up.   *)
(* One action per handler; the two events are the levels at which they are *)
(* scheduled.  Data, addresses below a line, statistics and the empty      *)
(* arbiters are left out: nothing reads them.                              *)
(***************************************************************************)
EXTENDS UncorePorts, Mshr, FiniteSetsExt

CONSTANTS
    InitCredits,     \* init_credits of each cache
    SetNum,          \* cache_size / cacheline_size / way_num of each cache
    WayNum,          \* way_num of each cache
    MshrSize,        \* mshr_size of each cache
    PerfectLevel,    \* the caches with is_perfect_cache
    AboveMemory      \* the caches with downstream_is_mem

ASSUME CacheAssumption ==
    /\ \A p \in {InitCredits, SetNum, WayNum, MshrSize} : p \in [Level -> Nat \ {0}]
    /\ PerfectLevel \subseteq Level
    /\ AboveMemory \subseteq Level

\* A cache that misses writes its mshrid into the request it shares with the
\* cache above, so that a request by value (UncorePorts) is exact where the
\* cache above has no request of its own to pass on, or all the ids are 0.
ASSUME RequestsByValue == LevelNum <= 2 \/ \A l \in Level : MshrSize[l] = 1

VARIABLES tagram, mshr, out_resp_queue, ev_handle_mshr, ev_out_resp_arbiter

cacheVars == <<tagram, mshr, out_resp_queue, ev_handle_mshr, ev_out_resp_arbiter>>

-----------------------------------------------------------------------------
(* The tags.                                                               *)

\* index_bits is the logarithm of set_num_, rounded down.
IndexSpan(l) ==
    LET bits == CHOOSE n \in 0 .. SetNum[l] : 2^n <= SetNum[l] /\ SetNum[l] < 2^(n + 1)
    IN 2^bits

getIndex(l, line) == line % IndexSpan(l)
getTag(l, line) == line - getIndex(l, line)

Way(l) == 0 .. WayNum[l] - 1

NoRequest == [id |-> 0, line |-> 0, mshrid |-> 0, subindex |-> 0]

CacheInit ==
    /\ tagram = [l \in Level |->
                   [s \in 0 .. SetNum[l] - 1 |->
                      [w \in Way(l) |-> [tag |-> 0, valid |-> FALSE]]]]
    /\ mshr = [l \in Level |-> NewMshr(MshrSize[l], NoRequest)]
    /\ out_resp_queue = [l \in Level |-> << >>]
    /\ ev_handle_mshr = {}
    /\ ev_out_resp_arbiter = {}

tagCompare(l, line) ==
    \E w \in Way(l) :
        LET entry == tagram[l][getIndex(l, line)][w]
        IN entry.valid /\ entry.tag = getTag(l, line)

checkWayAvail(tags, l, line) == \E w \in Way(l) : ~tags[l][getIndex(l, line)][w].valid

\* checkWayAvail finds a free way but takes way_avail by value: the way that
\* is refilled is the one mshrRefill has set it to.
refillWay(l, line) == 0

\* Faulty: an address below the tag is taken for the set.
FaultyRamRefill(l, line) ==
    tagram' = [tagram EXCEPT ![l][(line + 1) % IndexSpan(l)][refillWay(l, line)] =
                 [tag |-> getTag(l, line), valid |-> TRUE]]

ramRefill(l, line) ==
    tagram' = [tagram EXCEPT ![l][getIndex(l, line)][refillWay(l, line)] =
                 [tag |-> getTag(l, line), valid |-> TRUE]]

-----------------------------------------------------------------------------
(* The responses to a request: to a core one, to a cache one per segment.  *)

Segments(req, from) ==
    [i \in 1 .. SegNum - from |-> [req EXCEPT !.subindex = from + i - 1]]

\* Faulty: a cache above gets the line in one piece.
FaultyMakeResp(l, req) == <<req>>

makeResp(l, req) == IF l = 1 THEN <<req>> ELSE Segments(req, 0)

makeCriticalResp(l, req) == IF l = 1 THEN <<req>> ELSE <<[req EXCEPT !.subindex = 0]>>

\* Faulty: the core is sent the other segments too.
FaultyMakeNonCriticalResp(l, req) == Segments(req, 1)

makeNonCriticalResp(l, req) == IF l = 1 THEN << >> ELSE Segments(req, 1)

\* An answer that goes to nobody schedules no event when the core is above.
Respond(l, resps) ==
    /\ out_resp_queue' = [out_resp_queue EXCEPT ![l] = @ \o resps]
    /\ ev_out_resp_arbiter' =
         IF resps = << >> THEN ev_out_resp_arbiter ELSE ev_out_resp_arbiter \cup {l}

\* Faulty: does not come back for the responses it leaves.
FaultyOutRespArbiter(l) ==
    /\ l \in ev_out_resp_arbiter
    /\ SendResp(l, Head(out_resp_queue[l]))
    /\ out_resp_queue' = [out_resp_queue EXCEPT ![l] = Tail(@)]
    /\ ev_out_resp_arbiter' = ev_out_resp_arbiter \ {l}
    /\ UNCHANGED <<tagram, mshr, ev_handle_mshr, in_access_req, in_downstream_credit,
                   next_level_credit, failed>>

\* The event is scheduled only when there is a response to send.
outRespArbiter(l) ==
    /\ l \in ev_out_resp_arbiter
    /\ SendResp(l, Head(out_resp_queue[l]))
    /\ out_resp_queue' = [out_resp_queue EXCEPT ![l] = Tail(@)]
    /\ ev_out_resp_arbiter' =
         IF Len(out_resp_queue[l]) = 1 THEN ev_out_resp_arbiter \ {l} ELSE ev_out_resp_arbiter
    /\ UNCHANGED <<tagram, mshr, ev_handle_mshr, in_access_req, in_downstream_credit,
                   next_level_credit, failed>>

-----------------------------------------------------------------------------
(* funcaccess: a request from above.                                       *)

PerfectAccess(l, req) ==
    /\ l \in PerfectLevel
    /\ SendResp(l, req)
    /\ SendCredit(l, 1)
    /\ UNCHANGED <<cacheVars, failed>>

\* Faulty: no credit for a hit.
FaultyHit(l, req) ==
    /\ l \notin PerfectLevel
    /\ tagCompare(l, req.line)
    /\ Respond(l, makeResp(l, req))
    /\ UNCHANGED <<tagram, mshr, ev_handle_mshr, in_access_resp, in_downstream_credit, failed>>

\* sendCredit says nothing when the miss queue is full.
Hit(l, req) ==
    /\ l \notin PerfectLevel
    /\ tagCompare(l, req.line)
    /\ Respond(l, makeResp(l, req))
    /\ SendCredit(l, IF MshrAvail(mshr[l]) THEN 1 ELSE 0)
    /\ UNCHANGED <<tagram, mshr, ev_handle_mshr, in_access_resp, failed>>

\* The request is given the id of its entry; its credit stays with the entry.
Miss(l, req) ==
    /\ l \notin PerfectLevel
    /\ ~tagCompare(l, req.line)
    /\ IF MshrAvail(mshr[l])
         THEN /\ mshr' = [mshr EXCEPT ![l] = Allocate(@, [req EXCEPT !.mshrid = mshr[l].tail])]
              /\ ev_handle_mshr' = ev_handle_mshr \cup {l}
              /\ UNCHANGED failed
         ELSE Fail("mshr_avail") /\ UNCHANGED <<mshr, ev_handle_mshr>>
    /\ UNCHANGED <<tagram, out_resp_queue, ev_out_resp_arbiter, in_access_resp,
                   in_downstream_credit>>

funcaccess(l) ==
    /\ in_access_req[l] # << >>
    /\ LET req == Head(in_access_req[l]) IN
         PerfectAccess(l, req) \/ Hit(l, req) \/ Miss(l, req)
    /\ in_access_req' = [in_access_req EXCEPT ![l] = Tail(@)]
    /\ UNCHANGED next_level_credit

-----------------------------------------------------------------------------
(* recvResp: a response from below is for the entry its mshrid names.      *)

\* An id past the end of the queue names whatever lies there.
EntryAwaits(l, id, statuses) == id < MshrSize[l] /\ mshr[l].queue[id].status \in statuses

mshrRecvResp(l, id, subindex) ==
    LET req == mshr[l].queue[id].req
        become(status, resps) ==
            /\ mshr' = [mshr EXCEPT ![l] = SetStatus(@, id, status)]
            /\ Respond(l, resps)
            /\ ev_handle_mshr' = ev_handle_mshr \cup {l}
            /\ UNCHANGED failed
    IN
    \/ /\ l \in AboveMemory
       /\ become("RECV_WHOLE_LINE", makeResp(l, req))
    \/ /\ l \notin AboveMemory
       /\ subindex = 0
       /\ become("RECV_CRITICAL_SEG", makeCriticalResp(l, req))
    \/ /\ l \notin AboveMemory
       /\ subindex # 0 /\ subindex = SegNum - 1
       /\ IF EntryAwaits(l, id, {"RECV_CRITICAL_SEG"})
            THEN become("RECV_WHOLE_LINE", makeNonCriticalResp(l, req))
            ELSE Fail("RECV_CRITICAL_SEG") /\ UNCHANGED cacheVars
    \/ /\ l \notin AboveMemory
       /\ subindex # 0 /\ subindex # SegNum - 1
       /\ ev_handle_mshr' = ev_handle_mshr \cup {l}
       /\ UNCHANGED <<mshr, out_resp_queue, ev_out_resp_arbiter, failed>>

recvResp(l) ==
    /\ in_access_resp[l] # << >>
    /\ LET resp == Head(in_access_resp[l]) IN
         IF EntryAwaits(l, resp.mshrid, {"SEND_REQ", "RECV_CRITICAL_SEG"})
           THEN mshrRecvResp(l, resp.mshrid, resp.subindex) /\ UNCHANGED tagram
           ELSE Fail("SEND_REQ") /\ UNCHANGED cacheVars
    /\ in_access_resp' = [in_access_resp EXCEPT ![l] = Tail(@)]
    /\ UNCHANGED <<in_access_req, in_downstream_credit, next_level_credit>>

-----------------------------------------------------------------------------
(* handleMshr: the walks over the miss queue.  They visit queue[header + i]*)
(* for i below used, without wrapping: past the end of the queue lies what *)
(* nobody wrote.                                                           *)

\* mshrDeallocate: used shrinks under the walk, the header it starts from is
\* the one before it.
mshrDeallocate(m) ==
    LET walk[i \in 0 .. m.used] ==
          IF i = 0
            THEN m
            ELSE LET w == walk[i - 1]
                     id == m.header + i - 1
                 IN IF i - 1 < w.used /\ id < m.qsize /\ w.queue[id].status = "REFILL"
                      THEN Deallocate(w, id)
                      ELSE w
    IN walk[m.used]

\* mshrRefill stops at the first entry whose line has arrived.
Arrived(m) ==
    {i \in 0 .. m.used - 1 :
        m.header + i < m.qsize /\ m.queue[m.header + i].status \in {"RECV_WHOLE_LINE", "EVICT"}}

mshrRefill(l, m) ==
    IF Arrived(m) # {} /\ checkWayAvail(tagram, l, m.queue[m.header + Min(Arrived(m))].req.line)
      THEN {m.header + Min(Arrived(m))}
      ELSE {}

\* mshrEvict: every entry whose line has arrived and has no way to go to, by
\* the tags that mshrRefill leaves.
mshrEvict(l, m, refilled, tags) ==
    {m.header + i : i \in {j \in Arrived(m) :
        /\ m.header + j \notin refilled
        /\ m.queue[m.header + j].status = "RECV_WHOLE_LINE"
        /\ ~checkWayAvail(tags, l, m.queue[m.header + j].req.line)}}

\* The miss queue once mshrRefill and mshrEvict have noted what they did.
Marked(m, refilled, evicted) ==
    [m EXCEPT !.queue =
       [id \in DOMAIN m.queue |->
          [status |-> IF id \in refilled THEN "REFILL"
                      ELSE IF id \in evicted THEN "EVICT" ELSE m.queue[id].status,
           req    |-> m.queue[id].req]]]

\* evict: the address is the conjunction of a tag and the bits of a way below
\* it, 0.  The way it is taken from stays valid, so that no way is ever free
\* for the entry that evicted.  No entry stands for the write back: its mshrid
\* is the default one, 0, and it is answered like a read.
WriteBack == NoRequest

\* Faulty: a request is sent again on every round until it is answered.
FaultyMshrSendRequest(m) == m.queue[m.header].status \in {"ALLOCATE", "SEND_REQ"}

\* mshrSendRequest looks at min(used, downstream_access_ports_num) entries.
mshrSendRequest(m) == m.queue[m.header].status = "ALLOCATE"

\* What lies past the end may look like a refilled entry, and is deallocated.
OverrunMshr(l) ==
    /\ l \in ev_handle_mshr
    /\ mshr[l].header + mshrDeallocate(mshr[l]).used > MshrSize[l]
    /\ Fail("id < qsize")
    /\ UNCHANGED <<cacheVars, in_access_req, in_access_resp, in_downstream_credit,
                   next_level_credit>>

\* Or it looks like none the walks care for.
handleMshr(l) ==
    /\ l \in ev_handle_mshr
    /\ LET m1 == mshrDeallocate(mshr[l])
           refilled == IF MshrEmpty(m1) THEN {} ELSE mshrRefill(l, m1)
           evicted == IF MshrEmpty(m1) THEN {} ELSE mshrEvict(l, m1, refilled, tagram')
           m2 == Marked(m1, refilled, evicted)
           writeBacks == Min({Cardinality(evicted), next_level_credit[l]})
           credit == next_level_credit[l] - writeBacks
           send == ~MshrEmpty(m2) /\ credit > 0 /\ mshrSendRequest(m2)
           m3 == IF send THEN SetStatus(m2, m2.header, "SEND_REQ") ELSE m2
       IN
       /\ IF refilled = {} THEN UNCHANGED tagram
          ELSE \A id \in refilled : ramRefill(l, m1.queue[id].req.line)
       /\ mshr' = [mshr EXCEPT ![l] = m3]
       /\ in_access_req' =
            [in_access_req EXCEPT ![l + 1] =
               @ \o [i \in 1 .. writeBacks |-> WriteBack]
                 \o (IF send THEN <<m3.queue[m3.header].req>> ELSE << >>)]
       /\ next_level_credit' = [next_level_credit EXCEPT ![l] = IF send THEN credit - 1 ELSE credit]
       /\ SendCredit(l, mshr[l].used - m1.used)
       /\ ev_handle_mshr' = IF MshrEmpty(m3) THEN ev_handle_mshr \ {l} ELSE ev_handle_mshr
    /\ UNCHANGED <<out_resp_queue, ev_out_resp_arbiter, in_access_resp, failed>>
=============================================================================
