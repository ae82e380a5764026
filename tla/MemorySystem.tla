---------------------------- MODULE MemorySystem ----------------------------
(***************************************************************************)
(* A core, a chain of caches and a memory, composed as arches/dev.yaml     *)
(* binds them, and what makes the chain correct.                           *)
(*                                                                         *)
(*   answers   for each request the core has made, the answers it got      *)
(*   unasked   how many answers it got to no request it has made           *)
(***************************************************************************)
EXTENDS BaseCache, AbstractMemory, SeqParts

VARIABLES answers, unasked

vars == <<portVars, cacheVars, ev_handle_mem_req, answers, unasked>>

Init ==
    /\ PortsInit([l \in Server |-> IF l = Memory THEN 1 ELSE InitCredits[l]])
    /\ CacheInit
    /\ MemoryInit
    /\ answers = << >>
    /\ unasked = 0

\* The core makes a request for any line when it has a credit.  The load and
\* store queue that dev.yaml binds here is not part of the repository.
CoreAsk(line) ==
    /\ Len(answers) < ReqNum
    /\ next_level_credit[0] > 0
    /\ next_level_credit' = [next_level_credit EXCEPT ![0] = @ - 1]
    /\ in_access_req' = [in_access_req EXCEPT ![1] =
         Append(@, [id |-> Len(answers) + 1, line |-> line, mshrid |-> 0, subindex |-> 0])]
    /\ answers' = Append(answers, 0)
    /\ UNCHANGED <<in_access_resp, in_downstream_credit, failed, cacheVars, ev_handle_mem_req,
                   unasked>>

\* An answer with the id of no request of the core, a write back's, is unasked.
CoreRecvResp ==
    /\ in_access_resp[0] # << >>
    /\ LET id == Head(in_access_resp[0]).id IN
         IF id \in DOMAIN answers
           THEN answers' = [answers EXCEPT ![id] = @ + 1] /\ UNCHANGED unasked
           ELSE unasked' = unasked + 1 /\ UNCHANGED answers
    /\ in_access_resp' = [in_access_resp EXCEPT ![0] = Tail(@)]
    /\ UNCHANGED <<in_access_req, in_downstream_credit, next_level_credit, failed, cacheVars,
                   ev_handle_mem_req>>

CacheStep(l) ==
    /\ Running
    /\ funcaccess(l) \/ recvResp(l) \/ handleMshr(l) \/ OverrunMshr(l) \/ outRespArbiter(l)
    /\ UNCHANGED <<ev_handle_mem_req, answers, unasked>>

CreditStep(l) ==
    /\ Running
    /\ recvCredit(l)
    /\ UNCHANGED <<cacheVars, ev_handle_mem_req, answers, unasked>>

MemoryStep ==
    /\ Running
    /\ receive_mem_req \/ handle_mem_req
    /\ UNCHANGED <<cacheVars, answers, unasked>>

CoreStep == Running /\ \E line \in Line : CoreAsk(line)

\* What is due: messages that have been sent and events that are scheduled.
Handlers ==
    \/ Running /\ CoreRecvResp
    \/ MemoryStep
    \/ \E l \in Level : CacheStep(l)
    \/ \E l \in Requester : CreditStep(l)

Next == CoreStep \/ Handlers

Spec == Init /\ [][Next]_vars

\* Sparta runs what is due as long as anything is; in which order is left open.
\* The core need not ask.
Fairness == WF_vars(Handlers)

FairSpec == Spec /\ Fairness

-----------------------------------------------------------------------------
TypeOK ==
    /\ in_access_req \in [Server -> Seq(Request)]
    /\ in_access_resp \in [Requester -> Seq(Request)]
    /\ in_downstream_credit \in [Requester -> Seq(Nat)]
    /\ next_level_credit \in [Requester -> Nat]
    /\ failed \in {None, "mshr_avail", "SEND_REQ", "RECV_CRITICAL_SEG", "id < qsize"}
    /\ \A l \in Level : \A s \in DOMAIN tagram[l] : \A w \in Way(l) :
          tagram[l][s][w] \in [tag : Line, valid : BOOLEAN]
    /\ \A l \in Level :
          /\ mshr[l].used \in 0 .. MshrSize[l]
          /\ mshr[l].header \in 0 .. MshrSize[l] - 1
          /\ mshr[l].tail \in 0 .. MshrSize[l] - 1
          /\ mshr[l].queue \in [0 .. MshrSize[l] - 1 -> [status : MshrStatus, req : Request]]
    /\ out_resp_queue \in [Level -> Seq(Request)]
    /\ ev_handle_mshr \subseteq Level
    /\ ev_out_resp_arbiter \subseteq Level
    /\ ev_handle_mem_req \in Seq(Request)
    /\ answers \in Seq(Nat)
    /\ unasked \in Nat

\* No assertion of the caches and of the memory ever fails: a miss finds a
\* free entry, a response finds the entry it is for, still waiting for it,
\* the last segment comes after the first, an entry that is freed exists.
AssertionsHold == Running

\* The first assertion in mshrRecvResp alone: a response is for an entry that
\* waits for one.
ResponseIsAwaited == failed # "SEND_REQ"

\* The assertion in MSHR::deallocate alone: the id names an entry of the queue.
DeallocatedIdExists == failed # "id < qsize"

CreditsUnderWay(l) == SumOf(in_downstream_credit[l])

\* A request occupies its place in the server below until the credit for it is
\* sent: at a cache while it is a miss under way, at the memory until it is
\* answered.
Occupied(s) == IF s = Memory THEN Len(ev_handle_mem_req) ELSE mshr[s].used

\* On every link the credits in hand, the credits on their way back, the
\* requests on their way and the places they occupy below add up to what the
\* server below has given out: no credit is lost and none is made.
LinkCreditsConserved ==
    \A l \in Requester :
        next_level_credit[l] + CreditsUnderWay(l) + Len(in_access_req[l + 1])
          + Occupied(l + 1) = IF l + 1 = Memory THEN 1 ELSE InitCredits[l + 1]

\* The miss queue as a queue: the entries in use are those from the header on,
\* and all the others are free.
InUse(m) == {(m.header + i) % m.qsize : i \in 0 .. m.used - 1}

\* Entries are freed in the order in which they were taken, although
\* deallocate(id) moves the header whatever id is: the ring never has a hole,
\* and no live entry is left outside it.
MissQueueIsContiguous ==
    \A l \in Level :
        LET m == mshr[l] IN
        /\ m.tail = (m.header + m.used) % m.qsize
        /\ \A id \in 0 .. m.qsize - 1 : id \in InUse(m) <=> m.queue[id].status # "NO_TYPE"

\* Whatever is left in a miss queue is being worked on: the event that walks
\* the queue is scheduled as long as the queue is not empty, and the one that
\* sends responses as long as there are any.
NoLostMshrWakeup ==
    \A l \in Level :
        /\ ~MshrEmpty(mshr[l]) => l \in ev_handle_mshr
        /\ out_resp_queue[l] # << >> <=> l \in ev_out_resp_arbiter

\* A line in a cache is in the cache below too, when that has at least as many
\* sets: the cache below never replaces a line but for a miss of the cache
\* above that will replace the same line there.  While the replacing line is on
\* its way up, or the line itself is being written below, they may differ.
CachesAreInclusive ==
    \A l \in Level : (l + 1 \in Level /\ IndexSpan(l) <= IndexSpan(l + 1)) =>
        \A line \in Line : tagCompare(l, line) =>
            \/ tagCompare(l + 1, line)
            \/ \E id \in InUse(mshr[l + 1]) :
                  /\ mshr[l + 1].queue[id].status = "RECV_WHOLE_LINE"
                  /\ mshr[l + 1].queue[id].req.line = line
            \/ \E id \in InUse(mshr[l]) :
                  /\ mshr[l].queue[id].status # "ALLOCATE"
                  /\ getIndex(l, mshr[l].queue[id].req.line) = getIndex(l, line)

\* The chain is a memory port: what the core gets is an answer to a request it
\* has made, and the only one to it.
Port == INSTANCE MemoryPort

IsMemoryPort == Port!Spec

\* Every request is answered.
EveryRequestIsAnswered ==
    \A r \in 1 .. ReqNum : (r \in DOMAIN answers) ~> (r \in DOMAIN answers /\ answers[r] = 1)

\* When the core stops asking, the caches come to rest: no event is scheduled
\* for ever.
CachesComeToRest == <>[](ev_handle_mshr = {} /\ ev_out_resp_arbiter = {})
=============================================================================
