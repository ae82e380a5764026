-------------------------- MODULE MemorySystemProofs -------------------------
(***************************************************************************)
(* The chain of caches for every number of caches, every size, whichever   *)
(* of them are perfect or told that they are above the memory: the types,  *)
(* the miss queues, the wakeups and the ways; then what the chain promises *)
(* to the core: the credits, the assertions, the answers and the contents  *)
(* of the caches.                                                          *)
(*                                                                         *)
(* What makes the invariant of the miss queue inductive is that only the   *)
(* entry at the header is ever sent, answered, evicted or refilled: every  *)
(* entry behind it still has the status it was given by allocate.  Hence a *)
(* response finds the header or none, the walk of mshrDeallocate frees the *)
(* header or nothing, and deallocate, which moves the header whatever id   *)
(* it is given, moves it past the entry it frees.                          *)
(*                                                                         *)
(* With the default parameters the chain implements MemoryPort: every      *)
(* answer the core gets is to a request it has made, and is the only one.  *)
(* The requests that wait for an answer, from the port of the core down to *)
(* the first cache and up again, are one queue: the step from one part of  *)
(* it to the next leaves it as it is.                                      *)
(*                                                                         *)
(* Its caches are inclusive: a miss below is always part of a miss above.  *)
(***************************************************************************)
EXTENDS MemorySystem, DataLemmas, SequenceTheorems

-----------------------------------------------------------------------------
(* The inductive invariant.                                                *)

MshrEntry == [status : MshrStatus, req : Request]

MshrType(size) ==
    [qsize : {size}, queue : [0 .. size - 1 -> MshrEntry], used : 0 .. size,
     header : 0 .. size - 1, tail : 0 .. size - 1]

\* How far an entry is behind the header.
RingOffset(m, id) == IF id >= m.header THEN id - m.header ELSE id + m.qsize - m.header

InOrder(m) ==
    /\ m.tail = IF m.header + m.used < m.qsize THEN m.header + m.used
                ELSE m.header + m.used - m.qsize
    /\ \A id \in 0 .. m.qsize - 1 :
          /\ RingOffset(m, id) < m.used <=> m.queue[id].status # "NO_TYPE"
          /\ id # m.header => m.queue[id].status \in {"NO_TYPE", "ALLOCATE"}

MissQueue(size, m) == m \in MshrType(size) /\ InOrder(m)

TagType(l) == [0 .. SetNum[l] - 1 -> [Way(l) -> [tag : Line, valid : BOOLEAN]]]

\* A write back needs a cache without a second way.
WaysInv(l) ==
    WayNum[l] > 1 =>
        /\ \A s \in 0 .. SetNum[l] - 1 : \A w \in Way(l) \ {0} : ~tagram[l][s][w].valid
        /\ \A id \in 0 .. MshrSize[l] - 1 : mshr[l].queue[id].status # "EVICT"

PortTypes ==
    /\ in_access_req \in [Server -> Seq(Request)]
    /\ in_access_resp \in [Requester -> Seq(Request)]
    /\ in_downstream_credit \in [Requester -> Seq(Nat)]
    /\ next_level_credit \in [Requester -> Nat]
    /\ failed \in {None, "mshr_avail", "SEND_REQ", "RECV_CRITICAL_SEG", "id < qsize"}

TagTypes ==
    /\ tagram = [l \in Level |-> tagram[l]]
    /\ \A l \in Level : tagram[l] \in TagType(l)

MissQueues ==
    /\ mshr = [l \in Level |-> mshr[l]]
    /\ \A l \in Level : MissQueue(MshrSize[l], mshr[l])

EventTypes ==
    /\ out_resp_queue \in [Level -> Seq(Request)]
    /\ ev_handle_mshr \subseteq Level
    /\ ev_out_resp_arbiter \subseteq Level

OtherTypes == ev_handle_mem_req \in Seq(Request) /\ answers \in Seq(Nat) /\ unasked \in Nat

Ways == \A l \in Level : WaysInv(l)

ChainInv ==
    /\ PortTypes /\ TagTypes /\ MissQueues /\ EventTypes /\ OtherTypes
    /\ NoLostMshrWakeup
    /\ Ways

-----------------------------------------------------------------------------
(* The levels.                                                             *)

\* The neighbours of a cache level, and its sizes.
LEMMA LevelFacts ==
  ASSUME NEW l \in Level
  PROVE  /\ l \in Nat \ {0} /\ l \in Server /\ l + 1 \in Server /\ l \in Requester
         /\ l - 1 \in Requester /\ (l - 1) + 1 = l /\ l # l + 1
         /\ MshrSize[l] \in Nat \ {0} /\ SetNum[l] \in Nat \ {0}
         /\ WayNum[l] \in Nat \ {0} /\ InitCredits[l] \in Nat \ {0}
<1>1. LevelNum \in Nat \ {0}
  BY UncoreAssumption
<1>2. /\ l \in Nat \ {0} /\ l \in Server /\ l + 1 \in Server /\ l \in Requester
      /\ l - 1 \in Requester /\ (l - 1) + 1 = l /\ l # l + 1
  BY <1>1 DEF Level, Server, Requester
<1> QED BY <1>2, CacheAssumption

\* The ends of the chain: the core is requester 0, the memory the last server.
LEMMA LinkFacts ==
  /\ Memory \in Server /\ Memory \notin Level /\ LevelNum \in Level /\ LevelNum + 1 = Memory
  /\ 0 \in Requester /\ 0 + 1 = 1 /\ 1 \in Server /\ 1 \in Level
  /\ \A l \in Server : /\ l \in Nat /\ l - 1 \in Requester /\ (l - 1) + 1 = l
                       /\ l # Memory => l \in Level
  /\ \A l \in Requester : l \in Nat /\ l + 1 \in Server /\ (l + 1) - 1 = l
BY UncoreAssumption DEF Memory, Level, Server, Requester

-----------------------------------------------------------------------------
(* The sets of a cache.                                                    *)

\* A power of two counts subsets, and half the subsets of 1 .. n + 1 have n + 1.
LEMMA PowerDoubles ==
  ASSUME NEW n \in Nat
  PROVE  2^n \in Nat /\ 2^(n + 1) = 2 * 2^n
<1> DEFINE A == SUBSET (1 .. n)
           B == {T \cup {n + 1} : T \in A}
           f == [T \in A |-> T \cup {n + 1}]
<1>1. /\ IsFiniteSet(1 .. n) /\ Cardinality(1 .. n) = n
      /\ IsFiniteSet(1 .. n + 1) /\ Cardinality(1 .. n + 1) = n + 1
  BY FS_Interval
<1>2. /\ IsFiniteSet(A) /\ Cardinality(A) = 2^n
      /\ Cardinality(SUBSET (1 .. n + 1)) = 2^(n + 1)
  BY <1>1, FS_SUBSET
<1>3. n + 1 \notin 1 .. n /\ 1 .. n + 1 = (1 .. n) \cup {n + 1}
  OBVIOUS
<1>4. SUBSET (1 .. n + 1) = A \cup B
  <2>1. ASSUME NEW T \in SUBSET (1 .. n + 1) PROVE T \in A \cup B
    <3>1. CASE n + 1 \in T
      <4>1. T \ {n + 1} \in A /\ T = (T \ {n + 1}) \cup {n + 1}
        BY <3>1, <1>3
      <4> QED BY <4>1
    <3>2. CASE n + 1 \notin T
      BY <3>2, <1>3
    <3> QED BY <3>1, <3>2
  <2>2. ASSUME NEW T \in A \cup B PROVE T \in SUBSET (1 .. n + 1)
    <3>1. CASE T \in A
      BY <3>1, <1>3
    <3>2. CASE T \in B
      BY <3>2, <1>3
    <3> QED BY <2>2, <3>1, <3>2
  <2> HIDE DEF A, B
  <2> QED BY <2>1, <2>2
<1>5. A \cap B = {}
  BY <1>3
<1>6. f \in Bijection(A, B)
  <2>1. f \in [A -> B] /\ \A t \in B : \E a \in A : f[a] = t
    OBVIOUS
  <2>2. ASSUME NEW S \in A, NEW T \in A, f[S] = f[T] PROVE S = T
    BY <2>2, <1>3
  <2> QED BY <2>1, <2>2 DEF Bijection, Injection, Surjection, IsInjective
<1> HIDE DEF f, B, A
<1>7. IsFiniteSet(B) /\ Cardinality(B) = 2^n
  BY <1>2, <1>6, FS_Bijection DEF ExistsBijection
<1>8. Cardinality(A \cup B) = Cardinality(A) + Cardinality(B) - Cardinality(A \cap B)
  BY <1>2, <1>7, FS_Union
<1>9. Cardinality(A) \in Nat /\ Cardinality(A \cap B) = 0
  BY <1>2, <1>5, FS_EmptySet, FS_CardinalityType
<1>10. Cardinality(B) = Cardinality(A) /\ Cardinality(A \cup B) = 2^(n + 1)
  BY <1>2, <1>4, <1>7, Zenon
<1>11. Cardinality(A \cup B) = 2 * Cardinality(A)
  BY <1>8, <1>9, <1>10
<1> QED BY <1>2, <1>9, <1>10, <1>11, Zenon

\* A power of two is not zero, so a remainder by it is defined.
LEMMA PowerIsPositive == \A n \in Nat : 2^n \in Nat \ {0}
<1> DEFINE S == {n \in Nat : 2^n \in Nat \ {0}}
<1>1. 0 \in S
  <2>1. 2^0 = 1
    OBVIOUS
  <2> QED BY <2>1
<1>2. ASSUME NEW n \in Nat, n \in S PROVE n + 1 \in S
  <2>1. 2^(n + 1) = 2 * 2^n
    BY PowerDoubles
  <2> QED BY <1>2, <2>1
<1> HIDE DEF S
<1>3. \A n \in Nat : n \in S
  BY <1>1, <1>2, NatSetInduction
<1> QED BY <1>3 DEF S

\* Every number but 0 lies between two neighbouring powers of two.
LEMMA PowersEnclose ==
  ASSUME NEW k \in Nat \ {0}
  PROVE  \E n \in 0 .. k : 2^n <= k /\ k < 2^(n + 1)
<1> DEFINE S == {m \in Nat : \E n \in 0 .. m + 1 : 2^n <= m + 1 /\ m + 1 < 2^(n + 1)}
<1>1. 0 \in S
  <2>1. 2^0 = 1 /\ 2^(0 + 1) = 2 /\ 0 \in 0 .. 0 + 1
    BY PowerDoubles
  <2>2. \E n \in 0 .. 0 + 1 : 2^n <= 0 + 1 /\ 0 + 1 < 2^(n + 1)
    BY <2>1
  <2> QED BY <2>2
<1>2. ASSUME NEW m \in Nat, m \in S PROVE m + 1 \in S
  <2>1. PICK n \in 0 .. m + 1 : 2^n <= m + 1 /\ m + 1 < 2^(n + 1)
    BY <1>2
  <2>2. /\ 2^n \in Nat \ {0} /\ 2^(n + 1) \in Nat \ {0} /\ 2^((n + 1) + 1) \in Nat \ {0}
        /\ n \in Nat
    BY PowerIsPositive
  <2>3. 2^(n + 1) = 2 * 2^n /\ 2^((n + 1) + 1) = 2 * 2^(n + 1)
    BY <2>2, PowerDoubles
  <2>4. CASE m + 2 < 2^(n + 1)
    <3>1. n \in 0 .. m + 2 /\ 2^n <= m + 2
      BY <2>1, <2>2
    <3> QED BY <2>4, <3>1
  <2>5. CASE ~(m + 2 < 2^(n + 1))
    <3>1. n + 1 \in 0 .. m + 2 /\ 2^(n + 1) <= m + 2 /\ m + 2 < 2^((n + 1) + 1)
      BY <2>1, <2>2, <2>3, <2>5
    <3> QED BY <3>1
  <2> QED BY <2>4, <2>5
<1> HIDE DEF S
<1>3. k - 1 \in S
  BY <1>1, <1>2, NatSetInduction
<1> QED BY <1>3 DEF S

\* The sets that getIndex reaches are a power of two of them, and they exist.
LEMMA IndexSpanIsPower ==
  ASSUME NEW l \in Level
  PROVE  /\ IndexSpan(l) \in 1 .. SetNum[l]
         /\ \E n \in Nat : IndexSpan(l) = 2^n
<1>1. SetNum[l] \in Nat \ {0}
  BY CacheAssumption
<1>2. PICK n \in 0 .. SetNum[l] :
        /\ 2^n <= SetNum[l] /\ SetNum[l] < 2^(n + 1)
        /\ IndexSpan(l) = 2^n
  BY <1>1, PowersEnclose DEF IndexSpan
<1>3. 2^n \in Nat \ {0}
  BY <1>1, PowerIsPositive
<1> QED BY <1>1, <1>2, <1>3

\* Every line has a set in every cache, and its tag is an address again.
LEMMA IndexIsSet ==
  ASSUME NEW l \in Level, NEW line \in Line
  PROVE  /\ getIndex(l, line) \in 0 .. SetNum[l] - 1
         /\ getTag(l, line) \in Line
         /\ getTag(l, line) + getIndex(l, line) = line
<1>1. IndexSpan(l) \in 1 .. SetNum[l] /\ SetNum[l] \in Nat /\ line \in Nat
  BY IndexSpanIsPower, CacheAssumption, UncoreAssumption DEF Line
<1>2. ASSUME NEW q \in Nat \ {0}, NEW a \in Nat
      PROVE  a % q \in 0 .. q - 1 /\ a % q <= a
  OBVIOUS
<1>3. line % IndexSpan(l) \in 0 .. IndexSpan(l) - 1 /\ line % IndexSpan(l) <= line
  BY <1>1, <1>2
<1>4. PICK i \in 0 .. IndexSpan(l) - 1 : i = line % IndexSpan(l)
  BY <1>3
<1>5. i <= line /\ i \in 0 .. SetNum[l] - 1
  BY <1>1, <1>3, <1>4
<1>6. line - i \in Line /\ (line - i) + i = line
  BY <1>5, UncoreAssumption DEF Line
<1>7. getIndex(l, line) = i /\ getTag(l, line) = line - i
  BY <1>4 DEF getIndex, getTag
<1> QED BY <1>5, <1>6, <1>7

-----------------------------------------------------------------------------
(* The methods of the miss queue.                                          *)

\* A request's fields, and the requests that differ in one of them.
LEMMA RequestFields ==
  /\ NoRequest \in Request
  /\ \A req \in Request : /\ req.line \in Line /\ req.mshrid \in Nat
                           /\ req.subindex \in 0 .. SegNum - 1 /\ req.id \in 0 .. ReqNum
  /\ \A req \in Request : \A n \in Nat : [req EXCEPT !.mshrid = n] \in Request
  /\ \A req \in Request : \A n \in 0 .. SegNum - 1 : [req EXCEPT !.subindex = n] \in Request
BY UncoreAssumption DEF Request, NoRequest, Line

\* A miss queue's fields.
LEMMA MissQueueFields ==
  ASSUME NEW size \in Nat \ {0}, NEW m, MissQueue(size, m)
  PROVE  /\ m.qsize = size
         /\ m.queue \in [0 .. size - 1 -> MshrEntry]
         /\ m.used \in 0 .. size
         /\ m.header \in 0 .. size - 1
         /\ m.tail \in 0 .. size - 1
         /\ \A id \in 0 .. size - 1 : m.queue[id].status \in MshrStatus /\ m.queue[id].req \in Request
         /\ m.used = 0 <=> m.queue[m.header].status = "NO_TYPE"
<1>1. /\ m.qsize = size
      /\ m.queue \in [0 .. size - 1 -> MshrEntry]
      /\ m.used \in 0 .. size
      /\ m.header \in 0 .. size - 1
      /\ m.tail \in 0 .. size - 1
  BY DEF MissQueue, MshrType
<1>2. \A id \in 0 .. size - 1 : m.queue[id].status \in MshrStatus /\ m.queue[id].req \in Request
  BY <1>1 DEF MshrEntry
<1>3. RingOffset(m, m.header) = 0
  BY <1>1 DEF RingOffset
<1>4. m.used = 0 <=> m.queue[m.header].status = "NO_TYPE"
  BY <1>1, <1>3 DEF MissQueue, InOrder
<1> QED BY <1>1, <1>2, <1>4

\* resize(): an empty queue.
LEMMA NewMshrIsQueue ==
  ASSUME NEW size \in Nat \ {0}
  PROVE  /\ MissQueue(size, NewMshr(size, NoRequest)) /\ NewMshr(size, NoRequest).used = 0
         /\ \A id \in 0 .. size - 1 : NewMshr(size, NoRequest).queue[id].status = "NO_TYPE"
BY RequestFields DEF MissQueue, MshrType, MshrEntry, MshrStatus, NewMshr, InOrder, RingOffset

\* allocate() on a queue that is not full adds an entry at its end.
LEMMA AllocateKeeps ==
  ASSUME NEW size \in Nat \ {0}, NEW m, MissQueue(size, m), MshrAvail(m), NEW req \in Request
  PROVE  /\ MissQueue(size, Allocate(m, req))
         /\ Allocate(m, req).used = m.used + 1
         /\ Allocate(m, req).header = m.header
         /\ Allocate(m, req).queue = [m.queue EXCEPT ![m.tail] = [status |-> "ALLOCATE", req |-> req]]
<1> DEFINE a == Allocate(m, req)
           e == [status |-> "ALLOCATE", req |-> req]
<1>1. m \in MshrType(size) /\ InOrder(m)
  BY DEF MissQueue
<1>2. /\ a.qsize = size
      /\ a.queue = [m.queue EXCEPT ![m.tail] = e]
      /\ a.used = m.used + 1
      /\ a.header = m.header
      /\ a.tail = IF m.tail + 1 = size THEN 0 ELSE m.tail + 1
  BY <1>1 DEF Allocate, MshrType, Wrapped
<1>3. m.used \in 0 .. size - 1 /\ m.header \in 0 .. size - 1 /\ m.tail \in 0 .. size - 1
      /\ m.queue \in [0 .. size - 1 -> MshrEntry] /\ m.qsize = size
  BY MissQueueFields DEF MshrAvail
<1>4. e \in MshrEntry /\ e.status = "ALLOCATE"
  BY DEF MshrEntry, MshrStatus
<1>5. a \in MshrType(size)
  <2>1. [m.queue EXCEPT ![m.tail] = e] \in [0 .. size - 1 -> MshrEntry]
    BY <1>3, <1>4
  <2>2. m.used + 1 \in 0 .. size /\ (IF m.tail + 1 = size THEN 0 ELSE m.tail + 1) \in 0 .. size - 1
    BY <1>3
  <2> QED BY <1>1, <2>1, <2>2 DEF Allocate, MshrType, Wrapped
<1> HIDE DEF a, e
<1>6. m.tail = IF m.header + m.used < size THEN m.header + m.used ELSE m.header + m.used - size
  BY <1>1, <1>3 DEF InOrder
<1>7. ASSUME NEW id \in 0 .. size - 1
      PROVE  /\ RingOffset(a, id) < a.used <=> (RingOffset(m, id) < m.used \/ id = m.tail)
             /\ RingOffset(a, id) = RingOffset(m, id)
  <2>1. ASSUME NEW h \in 0 .. size - 1, NEW u \in 0 .. size - 1, NEW t \in 0 .. size - 1,
               t = IF h + u < size THEN h + u ELSE h + u - size
        PROVE  (IF id >= h THEN id - h ELSE id + size - h) < u + 1
                 <=> ((IF id >= h THEN id - h ELSE id + size - h) < u \/ id = t)
    BY <2>1
  <2>2. RingOffset(a, id) = RingOffset(m, id)
    BY <1>2, <1>3 DEF RingOffset
  <2>3. RingOffset(m, id) < m.used + 1 <=> (RingOffset(m, id) < m.used \/ id = m.tail)
    BY <2>1, <1>3, <1>6 DEF RingOffset
  <2> QED BY <2>2, <2>3, <1>2
<1>8. ASSUME NEW id \in 0 .. size - 1
      PROVE  /\ RingOffset(a, id) < a.used <=> a.queue[id].status # "NO_TYPE"
             /\ id # a.header => a.queue[id].status \in {"NO_TYPE", "ALLOCATE"}
  <2>1. CASE id = m.tail
    BY <2>1, <1>2, <1>3, <1>4, <1>7
  <2>2. CASE id # m.tail
    <3>1. a.queue[id] = m.queue[id]
      BY <2>2, <1>2, <1>3
    <3> QED BY <2>2, <3>1, <1>1, <1>2, <1>3, <1>7 DEF InOrder
  <2> QED BY <2>1, <2>2
<1>9. InOrder(a)
  <2>1. a.tail = IF a.header + a.used < size THEN a.header + a.used ELSE a.header + a.used - size
    BY SMTT(60), <1>2, <1>3, <1>6
  <2> QED BY <2>1, <1>2, <1>8 DEF InOrder
<1> QED BY <1>2, <1>5, <1>9 DEF MissQueue, a, e

\* deallocate() of the header takes the first entry away.
LEMMA DeallocateKeeps ==
  ASSUME NEW size \in Nat \ {0}, NEW m, MissQueue(size, m), m.used > 0
  PROVE  /\ MissQueue(size, Deallocate(m, m.header))
         /\ Deallocate(m, m.header).used = m.used - 1
         /\ \A id \in 0 .. size - 1 :
               Deallocate(m, m.header).queue[id].status \in {"NO_TYPE", "ALLOCATE"}
<1> DEFINE d == Deallocate(m, m.header)
<1>1. m \in MshrType(size) /\ InOrder(m)
  BY DEF MissQueue
<1>2. m.used \in 1 .. size /\ m.header \in 0 .. size - 1 /\ m.tail \in 0 .. size - 1
      /\ m.queue \in [0 .. size - 1 -> MshrEntry] /\ m.qsize = size
  BY MissQueueFields
<1>3. /\ d.qsize = size
      /\ d.queue = [m.queue EXCEPT ![m.header].status = "NO_TYPE"]
      /\ d.used = m.used - 1
      /\ d.header = IF m.header + 1 = size THEN 0 ELSE m.header + 1
      /\ d.tail = m.tail
  BY <1>1, <1>2 DEF Deallocate, MshrType, Wrapped
<1>4. [m.queue EXCEPT ![m.header].status = "NO_TYPE"] \in [0 .. size - 1 -> MshrEntry]
  BY <1>2 DEF MshrEntry, MshrStatus
<1>5. d \in MshrType(size)
  <2>1. m.used - 1 \in 0 .. size /\ (IF m.header + 1 = size THEN 0 ELSE m.header + 1) \in 0 .. size - 1
    BY <1>2
  <2> QED BY <1>1, <1>2, <1>4, <2>1 DEF Deallocate, MshrType, Wrapped
<1>6. /\ d.queue[m.header].status = "NO_TYPE"
      /\ \A id \in 0 .. size - 1 : id # m.header => d.queue[id] = m.queue[id]
  BY <1>2, <1>3 DEF MshrEntry
<1> HIDE DEF d
<1>7. ASSUME NEW id \in 0 .. size - 1
      PROVE  RingOffset(d, id) < d.used <=> (RingOffset(m, id) < m.used /\ id # m.header)
  <2>1. ASSUME NEW h \in 0 .. size - 1, NEW u \in 1 .. size, NEW n,
               n = IF h + 1 = size THEN 0 ELSE h + 1
        PROVE  (IF id >= n THEN id - n ELSE id + size - n) < u - 1
                 <=> ((IF id >= h THEN id - h ELSE id + size - h) < u /\ id # h)
    BY <2>1
  <2>2. /\ RingOffset(d, id) = IF id >= d.header THEN id - d.header ELSE id + size - d.header
        /\ RingOffset(m, id) = IF id >= m.header THEN id - m.header ELSE id + size - m.header
    BY <1>2, <1>3 DEF RingOffset
  <2>3. (IF id >= d.header THEN id - d.header ELSE id + size - d.header) < m.used - 1
          <=> ((IF id >= m.header THEN id - m.header ELSE id + size - m.header) < m.used
                 /\ id # m.header)
    BY <2>1, <1>2, <1>3
  <2> QED BY <2>2, <2>3, <1>3
<1>8. ASSUME NEW id \in 0 .. size - 1
      PROVE  /\ RingOffset(d, id) < d.used <=> d.queue[id].status # "NO_TYPE"
             /\ d.queue[id].status \in {"NO_TYPE", "ALLOCATE"}
  <2>1. CASE id = m.header
    BY <2>1, <1>6, <1>7
  <2>2. CASE id # m.header
    BY <2>2, <1>1, <1>2, <1>6, <1>7 DEF InOrder
  <2> QED BY <2>1, <2>2
<1>9. d.tail = IF d.header + d.used < size THEN d.header + d.used ELSE d.header + d.used - size
  <2>1. m.tail = IF m.header + m.used < size THEN m.header + m.used ELSE m.header + m.used - size
    BY <1>1, <1>2 DEF InOrder
  <2> QED BY SMTT(60), <2>1, <1>2, <1>3
<1>10. InOrder(d)
  BY <1>3, <1>8, <1>9 DEF InOrder
<1> QED BY <1>3, <1>5, <1>8, <1>10 DEF MissQueue, d

\* A queue whose header gets a new status, and that has not become free.
LEMMA HeaderStatusKeeps ==
  ASSUME NEW size \in Nat \ {0}, NEW m, MissQueue(size, m), m.used > 0,
         NEW q \in [0 .. size - 1 -> MshrEntry],
         q[m.header].status # "NO_TYPE",
         \A id \in 0 .. size - 1 : id # m.header => q[id] = m.queue[id]
  PROVE  /\ MissQueue(size, [m EXCEPT !.queue = q])
         /\ [m EXCEPT !.queue = q].used = m.used
         /\ [m EXCEPT !.queue = q].header = m.header
         /\ [m EXCEPT !.queue = q].queue = q
<1> DEFINE n == [m EXCEPT !.queue = q]
<1>1. m \in MshrType(size) /\ InOrder(m)
  BY DEF MissQueue
<1>2. m.used \in 1 .. size /\ m.header \in 0 .. size - 1 /\ m.tail \in 0 .. size - 1
      /\ m.queue \in [0 .. size - 1 -> MshrEntry] /\ m.qsize = size
      /\ m.queue[m.header].status # "NO_TYPE"
  BY MissQueueFields
<1>3. /\ n.qsize = size /\ n.queue = q /\ n.used = m.used /\ n.header = m.header
      /\ n.tail = m.tail /\ n \in MshrType(size)
  BY <1>1, <1>2 DEF MshrType
<1> HIDE DEF n
<1>4. \A id \in 0 .. size - 1 :
        /\ RingOffset(n, id) = RingOffset(m, id)
        /\ q[id].status = "NO_TYPE" <=> m.queue[id].status = "NO_TYPE"
  BY <1>2, <1>3 DEF RingOffset
<1>5. InOrder(n)
  BY ZenonT(60), <1>1, <1>2, <1>3, <1>4 DEF InOrder
<1> QED BY <1>3, <1>5 DEF MissQueue, n

\* Setting the status of the header of a queue that is not empty.
LEMMA SetStatusKeeps ==
  ASSUME NEW size \in Nat \ {0}, NEW m, MissQueue(size, m), m.used > 0,
         NEW status \in MshrStatus \ {"NO_TYPE"}
  PROVE  /\ MissQueue(size, SetStatus(m, m.header, status))
         /\ SetStatus(m, m.header, status).used = m.used
         /\ SetStatus(m, m.header, status).header = m.header
         /\ \A id \in 0 .. size - 1 :
               /\ SetStatus(m, m.header, status).queue[id].status =
                     IF id = m.header THEN status ELSE m.queue[id].status
               /\ SetStatus(m, m.header, status).queue[id].req = m.queue[id].req
<1> DEFINE q == [m.queue EXCEPT ![m.header].status = status]
<1>1. m.header \in 0 .. size - 1 /\ m.queue \in [0 .. size - 1 -> MshrEntry] /\ m \in MshrType(size)
  BY MissQueueFields DEF MissQueue
<1>2. /\ q \in [0 .. size - 1 -> MshrEntry]
      /\ q[m.header].status # "NO_TYPE"
      /\ \A id \in 0 .. size - 1 : id # m.header => q[id] = m.queue[id]
      /\ \A id \in 0 .. size - 1 : /\ q[id].status = IF id = m.header THEN status ELSE m.queue[id].status
                                   /\ q[id].req = m.queue[id].req
  BY <1>1 DEF MshrEntry
<1>3. SetStatus(m, m.header, status) = [m EXCEPT !.queue = q]
  BY <1>1 DEF SetStatus, MshrType
<1> HIDE DEF q
<1> QED BY <1>2, <1>3, HeaderStatusKeeps

\* mshrDeallocate frees the header if its line is in the cache, and nothing else.
LEMMA WalkFreesHeader ==
  ASSUME NEW size \in Nat \ {0}, NEW m, MissQueue(size, m)
  PROVE  mshrDeallocate(m) = IF m.queue[m.header].status = "REFILL"
                               THEN Deallocate(m, m.header) ELSE m
<1> DEFINE Turn(w, i) ==
             LET id == m.header + i - 1
             IN IF i - 1 < w.used /\ id < m.qsize /\ w.queue[id].status = "REFILL"
                  THEN Deallocate(w, id) ELSE w
           first == IF m.queue[m.header].status = "REFILL" THEN Deallocate(m, m.header) ELSE m
           walk == CHOOSE walk : walk = [i \in 0 .. m.used |-> IF i = 0 THEN m ELSE Turn(walk[i - 1], i)]
           known == [i \in 0 .. m.used |-> IF i = 0 THEN m ELSE first]
<1>1. m.used \in 0 .. size /\ m.header \in 0 .. size - 1 /\ m.qsize = size
      /\ (m.used = 0 <=> m.queue[m.header].status = "NO_TYPE")
  BY MissQueueFields
<1>2. ASSUME NEW i \in 1 .. m.used PROVE first = Turn(IF i = 1 THEN m ELSE first, i)
  <2>1. CASE i = 1
    BY <2>1, <1>1
  <2>2. CASE i # 1
    <3>1. i \in 2 .. m.used
      BY <2>2, <1>1
    <3>2. ASSUME m.header + i - 1 < size PROVE first.queue[m.header + i - 1].status # "REFILL"
      <4>1. m.header + i - 1 \in 0 .. size - 1 /\ m.header + i - 1 # m.header
        BY <3>1, <3>2, <1>1
      <4>2. CASE m.queue[m.header].status = "REFILL"
        BY <4>1, <4>2, <1>1, DeallocateKeeps
      <4>3. CASE m.queue[m.header].status # "REFILL"
        BY <4>1, <4>3, <1>1 DEF MissQueue, InOrder
      <4> QED BY <4>2, <4>3
    <3> QED BY <2>2, <3>2, <1>1
  <2> QED BY <2>1, <2>2
<1>3. known = [i \in 0 .. m.used |-> IF i = 0 THEN m ELSE Turn(known[i - 1], i)]
  <2>1. ASSUME NEW i \in 1 .. m.used PROVE known[i - 1] = IF i = 1 THEN m ELSE first
    BY <1>1
  <2> HIDE DEF first, Turn
  <2> QED BY <2>1, <1>1, <1>2
<1>4. walk = [i \in 0 .. m.used |-> IF i = 0 THEN m ELSE Turn(walk[i - 1], i)]
  <2> HIDE DEF known, Turn
  <2> QED BY <1>3
<1>5. mshrDeallocate(m) = walk[m.used]
  BY DEF mshrDeallocate
<1> HIDE DEF walk, Turn, first
<1>6. CASE m.used = 0
  BY <1>1, <1>4, <1>5, <1>6 DEF first
<1>7. CASE m.used # 0
  <2> DEFINE S == {k \in Nat : k + 1 <= m.used => walk[k + 1] = first}
  <2>1. 0 \in S
    BY <1>1, <1>2, <1>4, <1>7
  <2>2. ASSUME NEW k \in Nat, k \in S PROVE k + 1 \in S
    <3>1. CASE k + 2 <= m.used
      <4>1. walk[k + 1] = first /\ k + 2 \in 1 .. m.used /\ (k + 2) - 1 = k + 1 /\ k + 2 # 1
        BY <2>2, <3>1, <1>1
      <4>2. \A i \in 1 .. m.used : walk[i] = Turn(walk[i - 1], i)
        BY <1>1, <1>4
      <4>3. walk[k + 2] = Turn(first, k + 2)
        BY <4>1, <4>2
      <4>4. first = Turn(first, k + 2)
        BY <4>1, <1>2
      <4> QED BY <4>3, <4>4
    <3> QED BY <3>1
  <2> HIDE DEF S
  <2>3. m.used - 1 \in S
    BY <1>1, <1>7, <2>1, <2>2, NatSetInduction
  <2>4. walk[m.used] = first
    BY <2>3, <1>1, <1>7 DEF S
  <2> QED BY <2>4, <1>5 DEF first
<1> QED BY <1>6, <1>7

-----------------------------------------------------------------------------
(* A round of handleMshr: the header alone is worked on, and in one way.   *)

\* What is left of the round's conditions when only the header counts.
HeaderOf(m) == m.queue[m.header]

Rests(l, m) ==
    /\ mshr' = [mshr EXCEPT ![l] = m]
    /\ UNCHANGED <<tagram, in_access_req, next_level_credit>>

Sends(l, m) ==
    /\ m.used > 0 /\ HeaderOf(m).status = "ALLOCATE" /\ next_level_credit[l] > 0
    /\ mshr' = [mshr EXCEPT ![l] = SetStatus(m, m.header, "SEND_REQ")]
    /\ in_access_req' = [in_access_req EXCEPT ![l + 1] = Append(@, HeaderOf(m).req)]
    /\ next_level_credit' = [next_level_credit EXCEPT ![l] = @ - 1]
    /\ UNCHANGED tagram

Refills(l, m) ==
    /\ m.used > 0 /\ HeaderOf(m).status \in {"RECV_WHOLE_LINE", "EVICT"}
    /\ checkWayAvail(tagram, l, HeaderOf(m).req.line)
    /\ mshr' = [mshr EXCEPT ![l] = SetStatus(m, m.header, "REFILL")]
    /\ ramRefill(l, HeaderOf(m).req.line)
    /\ UNCHANGED <<in_access_req, next_level_credit>>

Evicts(l, m) ==
    /\ m.used > 0 /\ HeaderOf(m).status = "RECV_WHOLE_LINE"
    /\ ~checkWayAvail(tagram, l, HeaderOf(m).req.line)
    /\ mshr' = [mshr EXCEPT ![l] = SetStatus(m, m.header, "EVICT")]
    /\ \E n \in 0 .. 1 :
          /\ n <= next_level_credit[l]
          /\ in_access_req' = [in_access_req EXCEPT ![l + 1] = @ \o [i \in 1 .. n |-> WriteBack]]
          /\ next_level_credit' = [next_level_credit EXCEPT ![l] = @ - n]
    /\ UNCHANGED tagram

\* The entries whose line has arrived: the header or none.
LEMMA OnlyHeaderArrives ==
  ASSUME NEW size \in Nat \ {0}, NEW m, MissQueue(size, m)
  PROVE  Arrived(m) = IF HeaderOf(m).status \in {"RECV_WHOLE_LINE", "EVICT"} THEN {0} ELSE {}
<1>1. m.used \in 0 .. size /\ m.header \in 0 .. size - 1 /\ m.qsize = size
      /\ (m.used = 0 <=> HeaderOf(m).status = "NO_TYPE")
  BY MissQueueFields DEF HeaderOf
<1>2. ASSUME NEW i \in Arrived(m) PROVE i = 0
  <2>1. /\ i \in 0 .. m.used - 1 /\ m.header + i < size
        /\ m.queue[m.header + i].status \in {"RECV_WHOLE_LINE", "EVICT"}
    BY <1>1 DEF Arrived
  <2>2. m.header + i \in 0 .. size - 1
    BY <1>1, <2>1
  <2>3. m.header + i = m.header
    BY <1>1, <2>1, <2>2 DEF MissQueue, InOrder
  <2> QED BY <1>1, <2>1, <2>3
<1>3. 0 \in Arrived(m) <=> HeaderOf(m).status \in {"RECV_WHOLE_LINE", "EVICT"}
  <2>1. m.header + 0 = m.header
    BY <1>1
  <2>2. HeaderOf(m).status \in {"RECV_WHOLE_LINE", "EVICT"} => 0 \in 0 .. m.used - 1
    BY <1>1
  <2> QED BY <1>1, <2>1, <2>2 DEF Arrived, HeaderOf
<1> QED BY <1>2, <1>3

\* How many blocks a round writes back: one or none, and no more than there are
\* credits.
LEMMA MinOf ==
  /\ Min({0}) = 0
  /\ \A n \in Nat : Min({0, n}) = 0 /\ Min({1, n}) \in 0 .. 1 /\ Min({1, n}) <= n
BY DEF Min

\* A round that evicts nothing writes nothing back, and spends no credit on it.
LEMMA NoWriteBack ==
  ASSUME NEW n \in Nat
  PROVE  Min({Cardinality({}), n}) = 0 /\ n - Min({Cardinality({}), n}) = n
<1>1. Cardinality({}) = 0
  BY FS_EmptySet
<1>2. Min({0, n}) = 0
  BY MinOf
<1>3. Min({Cardinality({}), n}) = 0
  BY <1>1, <1>2, Zenon
<1> QED BY <1>3

\* Nothing appended, a block of equal messages appended, one appended.
LEMMA EmptyMessages ==
  ASSUME NEW S, NEW s \in Seq(S), NEW x \in S
  PROVE  /\ s \o << >> = s
         /\ s \o [i \in 1 .. 0 |-> x] = s
         /\ s \o <<x>> = Append(s, x)
         /\ \A n \in Nat : s \o [i \in 1 .. n |-> x] \in Seq(S)
<1>1. \A n \in Nat : [i \in 1 .. n |-> x] \in Seq(S) /\ Len([i \in 1 .. n |-> x]) = n
  OBVIOUS
<1>2. [i \in 1 .. 0 |-> x] = << >>
  BY <1>1
<1>3. s \o << >> = s /\ s \o <<x>> = Append(s, x)
  OBVIOUS
<1> QED BY <1>1, <1>2, <1>3

\* A round of handleMshr that finds the header entry's status does one of four
\* things.
LEMMA RoundOnHeader ==
  ASSUME ChainInv, NEW l \in Level, handleMshr(l), NEW m, m = mshrDeallocate(mshr[l])
  PROVE  \/ Rests(l, m) \/ Sends(l, m) \/ Refills(l, m) \/ Evicts(l, m)
<1> DEFINE refilled == IF MshrEmpty(m) THEN {} ELSE mshrRefill(l, m)
           evicted == IF MshrEmpty(m) THEN {} ELSE mshrEvict(l, m, refilled, tagram')
           m2 == Marked(m, refilled, evicted)
           writeBacks == Min({Cardinality(evicted), next_level_credit[l]})
           credit == next_level_credit[l] - writeBacks
           send == ~MshrEmpty(m2) /\ credit > 0 /\ mshrSendRequest(m2)
           m3 == IF send THEN SetStatus(m2, m2.header, "SEND_REQ") ELSE m2
<1>1. /\ mshr' = [mshr EXCEPT ![l] = m3]
      /\ IF refilled = {} THEN UNCHANGED tagram
         ELSE \A id \in refilled : ramRefill(l, m.queue[id].req.line)
      /\ in_access_req' =
           [in_access_req EXCEPT ![l + 1] =
              @ \o [i \in 1 .. writeBacks |-> WriteBack]
                \o (IF send THEN <<m3.queue[m3.header].req>> ELSE << >>)]
      /\ next_level_credit' = [next_level_credit EXCEPT ![l] = IF send THEN credit - 1 ELSE credit]
  BY DEF handleMshr
<1>2. MissQueue(MshrSize[l], mshr[l]) /\ MshrSize[l] \in Nat \ {0}
  BY CacheAssumption DEF ChainInv, MissQueues
<1>3. MissQueue(MshrSize[l], m)
  BY <1>2, WalkFreesHeader, DeallocateKeeps, MissQueueFields
<1>4. /\ m.used \in 0 .. MshrSize[l] /\ m.header \in 0 .. MshrSize[l] - 1
      /\ m.queue \in [0 .. MshrSize[l] - 1 -> MshrEntry]
      /\ (m.used = 0 <=> HeaderOf(m).status = "NO_TYPE")
      /\ m \in MshrType(MshrSize[l])
  BY <1>2, <1>3, MissQueueFields DEF HeaderOf, MissQueue
<1>5. /\ in_access_req \in [Server -> Seq(Request)] /\ next_level_credit \in [Requester -> Nat]
      /\ l + 1 \in Server /\ l \in Requester /\ next_level_credit[l] \in Nat
      /\ in_access_req[l + 1] \in Seq(Request)
  BY LevelFacts DEF ChainInv, PortTypes
<1>6. HeaderOf(m).req \in Request /\ WriteBack \in Request
  BY <1>4, RequestFields DEF HeaderOf, MshrEntry, WriteBack
<1>7. \A s \in Seq(Request) : /\ s \o << >> = s
                             /\ s \o [i \in 1 .. 0 |-> WriteBack] = s
                             /\ s \o <<HeaderOf(m).req>> = Append(s, HeaderOf(m).req)
                             /\ \A n \in Nat : s \o [i \in 1 .. n |-> WriteBack] \in Seq(Request)
  BY <1>6, EmptyMessages
<1>8. /\ [next_level_credit EXCEPT ![l] = next_level_credit[l]] = next_level_credit
      /\ [in_access_req EXCEPT ![l + 1] = in_access_req[l + 1]] = in_access_req
  BY <1>5
<1>9. Marked(m, {}, {}) = m
  BY ZenonT(60), <1>4 DEF Marked, MshrType, MshrEntry
<1>10. /\ Marked(m, {m.header}, {}) = SetStatus(m, m.header, "REFILL")
       /\ Marked(m, {}, {m.header}) = SetStatus(m, m.header, "EVICT")
  BY ZenonT(60), <1>4 DEF Marked, SetStatus, MshrType, MshrEntry
<1>11. CASE HeaderOf(m).status \notin {"RECV_WHOLE_LINE", "EVICT"}
  <2>1. Arrived(m) = {}
    BY <1>2, <1>3, <1>11, OnlyHeaderArrives
  <2>2. refilled = {} /\ evicted = {}
    BY <2>1 DEF mshrRefill, mshrEvict
  <2>3. m2 = m
    BY <2>2, <1>9
  <2>4. writeBacks = 0 /\ credit = next_level_credit[l]
    <3> HIDE DEF evicted
    <3> QED BY <2>2, <1>5, NoWriteBack
  <2>5. send <=> (m.used > 0 /\ next_level_credit[l] > 0 /\ HeaderOf(m).status = "ALLOCATE")
    BY SMTT(60), <2>3, <2>4, <1>4 DEF MshrEmpty, mshrSendRequest, HeaderOf
  <2>6. UNCHANGED tagram
    BY <1>1, <2>2
  <2>7. CASE send
    <3>1. m3 = SetStatus(m, m.header, "SEND_REQ")
      BY <2>3, <2>7
    <3>2. m3.queue[m3.header].req = HeaderOf(m).req
      BY SMTT(60), <3>1, <2>5, <2>7, <1>2, <1>3, <1>4, SetStatusKeeps DEF MshrStatus, HeaderOf
    <3> HIDE DEF m3, send, credit, writeBacks, refilled, evicted, m2
    <3>3. in_access_req' = [in_access_req EXCEPT ![l + 1] = Append(@, HeaderOf(m).req)]
      BY <1>1, <1>5, <1>7, <2>4, <2>7, <3>2
    <3> QED BY <1>1, <2>4, <2>5, <2>6, <2>7, <3>1, <3>3 DEF Sends
  <2>8. CASE ~send
    <3>1. m3 = m
      BY <2>3, <2>8
    <3> HIDE DEF m3, send, credit, writeBacks, refilled, evicted, m2
    <3>2. in_access_req' = in_access_req
      BY <1>1, <1>5, <1>7, <1>8, <2>4, <2>8
    <3> QED BY <1>1, <1>8, <2>4, <2>6, <2>8, <3>1, <3>2 DEF Rests
  <2> QED BY <2>7, <2>8
<1>12. CASE HeaderOf(m).status \in {"RECV_WHOLE_LINE", "EVICT"}
  <2>1. Arrived(m) = {0} /\ m.header + Min(Arrived(m)) = m.header /\ m.used > 0
    <3>1. Arrived(m) = {0}
      BY <1>2, <1>3, <1>12, OnlyHeaderArrives
    <3>2. Min(Arrived(m)) = 0
      BY <3>1, MinOf
    <3> QED BY <3>1, <3>2, <1>4, <1>12
  <2>2. m.header + 0 = m.header
    BY <1>4
  <2>3. CASE checkWayAvail(tagram, l, HeaderOf(m).req.line)
    <3>1. refilled = {m.header}
      BY SMTT(60), <2>1, <2>3, <1>4 DEF mshrRefill, MshrEmpty, HeaderOf
    <3>2. evicted = {}
      <4> HIDE DEF refilled
      <4> QED BY <2>1, <2>2, <3>1 DEF mshrEvict
    <3>3. m2 = SetStatus(m, m.header, "REFILL")
      BY <3>1, <3>2, <1>10
    <3>4. writeBacks = 0 /\ credit = next_level_credit[l]
      <4> HIDE DEF evicted
      <4> QED BY <3>2, <1>5, NoWriteBack
    <3>5. ~send
      BY SMTT(60), <3>3, <2>1, <1>2, <1>3, <1>4, SetStatusKeeps DEF MshrStatus, mshrSendRequest
    <3>6. ramRefill(l, HeaderOf(m).req.line)
      BY <1>1, <3>1 DEF HeaderOf
    <3> HIDE DEF m3, send, credit, writeBacks, refilled, evicted, m2
    <3>7. m3 = m2 /\ in_access_req' = in_access_req /\ next_level_credit' = next_level_credit
      BY <1>1, <1>5, <1>7, <1>8, <3>4, <3>5 DEF m3
    <3> QED BY <1>1, <1>12, <2>1, <2>3, <3>3, <3>6, <3>7 DEF Refills
  <2>4. CASE ~checkWayAvail(tagram, l, HeaderOf(m).req.line)
    <3>1. refilled = {} /\ UNCHANGED tagram
      BY <2>1, <2>4, <1>1, <1>4 DEF mshrRefill, MshrEmpty, HeaderOf
    <3>2. evicted = IF HeaderOf(m).status = "RECV_WHOLE_LINE" THEN {m.header} ELSE {}
      <4> HIDE DEF refilled
      <4>1. mshrEvict(l, m, refilled, tagram') =
              IF HeaderOf(m).status = "RECV_WHOLE_LINE" THEN {m.header} ELSE {}
        BY <2>1, <2>2, <2>4, <3>1 DEF mshrEvict, HeaderOf
      <4> QED BY <4>1, <2>1 DEF MshrEmpty
    <3>3. CASE HeaderOf(m).status = "RECV_WHOLE_LINE"
      <4>1. m2 = SetStatus(m, m.header, "EVICT")
        BY <3>1, <3>2, <3>3, <1>10
      <4>2. writeBacks \in 0 .. 1 /\ writeBacks <= next_level_credit[l]
        <5>1. Cardinality(evicted) = 1
          BY <3>2, <3>3, FS_Singleton
        <5> HIDE DEF evicted
        <5> QED BY <5>1, <1>5, MinOf
      <4>3. ~send
        BY <4>1, <2>1, <1>2, <1>3, <1>4, SetStatusKeeps DEF MshrStatus, mshrSendRequest
      <4> HIDE DEF m3, send, writeBacks, refilled, evicted, m2
      <4>4. /\ m3 = m2
            /\ in_access_req' = [in_access_req EXCEPT ![l + 1] =
                                    @ \o [i \in 1 .. writeBacks |-> WriteBack]]
            /\ next_level_credit' = [next_level_credit EXCEPT ![l] = @ - writeBacks]
        BY <1>1, <1>5, <1>7, <4>2, <4>3 DEF m3
      <4> QED BY <1>1, <2>1, <2>4, <3>1, <3>3, <4>1, <4>2, <4>4 DEF Evicts
    <3>4. CASE HeaderOf(m).status = "EVICT"
      <4>1. m2 = m /\ evicted = {}
        BY <3>1, <3>2, <3>4, <1>9
      <4>2. writeBacks = 0 /\ credit = next_level_credit[l]
        <5> HIDE DEF evicted
        <5> QED BY <4>1, <1>5, NoWriteBack
      <4>3. ~send
        BY <4>1, <3>4 DEF mshrSendRequest, HeaderOf
      <4> HIDE DEF m3, send, credit, writeBacks, refilled, evicted, m2
      <4>4. m3 = m2 /\ in_access_req' = in_access_req /\ next_level_credit' = next_level_credit
        BY <1>1, <1>5, <1>7, <1>8, <4>2, <4>3 DEF m3
      <4> QED BY <1>1, <3>1, <4>1, <4>4 DEF Rests
    <3> QED BY <1>12, <3>3, <3>4
  <2> QED BY <2>3, <2>4
<1> QED BY <1>11, <1>12

-----------------------------------------------------------------------------
(* The responses and the messages of a step.                               *)

\* The two halves of NoLostMshrWakeup.
MshrWakeup == \A l \in Level : ~MshrEmpty(mshr[l]) => l \in ev_handle_mshr

RespWakeup == \A l \in Level : out_resp_queue[l] # << >> <=> l \in ev_out_resp_arbiter

\* The two kinds of lost wakeup.
LEMMA WakeupHalves == NoLostMshrWakeup <=> MshrWakeup /\ RespWakeup
BY DEF NoLostMshrWakeup, MshrWakeup, RespWakeup

\* Every answer a level makes is a request's.
LEMMA RespsAreRequests ==
  ASSUME NEW l, NEW req \in Request
  PROVE  /\ makeResp(l, req) \in Seq(Request)
         /\ makeCriticalResp(l, req) \in Seq(Request)
         /\ makeNonCriticalResp(l, req) \in Seq(Request)
<1>1. SegNum \in Nat \ {0}
  BY UncoreAssumption
<1>2. ASSUME NEW from \in 0 .. 1 PROVE Segments(req, from) \in Seq(Request)
  <2>1. SegNum - from \in Nat
    BY <1>1
  <2>2. \A i \in 1 .. SegNum - from : from + i - 1 \in 0 .. SegNum - 1
    BY <1>1
  <2>3. \A i \in 1 .. SegNum - from : [req EXCEPT !.subindex = from + i - 1] \in Request
    BY <2>2, RequestFields
  <2> QED BY <2>1, <2>3 DEF Segments
<1>3. [req EXCEPT !.subindex = 0] \in Request
  BY <1>1, RequestFields
<1> QED BY <1>2, <1>3 DEF makeResp, makeCriticalResp, makeNonCriticalResp

\* A level queues its answers and schedules the arbiter: no lost wakeup of it.
LEMMA RespondKeeps ==
  ASSUME EventTypes, RespWakeup, NEW l \in Level, NEW resps \in Seq(Request), Respond(l, resps)
  PROVE  /\ out_resp_queue' \in [Level -> Seq(Request)]
         /\ ev_out_resp_arbiter' \subseteq Level
         /\ RespWakeup'
<1>1. /\ out_resp_queue \in [Level -> Seq(Request)] /\ ev_out_resp_arbiter \subseteq Level
      /\ out_resp_queue' = [out_resp_queue EXCEPT ![l] = @ \o resps]
      /\ ev_out_resp_arbiter' =
           IF resps = << >> THEN ev_out_resp_arbiter ELSE ev_out_resp_arbiter \cup {l}
  BY DEF EventTypes, Respond
<1>2. /\ out_resp_queue[l] \o resps \in Seq(Request)
      /\ out_resp_queue[l] \o resps = << >> <=> out_resp_queue[l] = << >> /\ resps = << >>
  BY <1>1
<1>3. out_resp_queue' \in [Level -> Seq(Request)] /\ ev_out_resp_arbiter' \subseteq Level
  BY <1>1, <1>2
<1>4. ASSUME NEW k \in Level PROVE out_resp_queue'[k] # << >> <=> k \in ev_out_resp_arbiter'
  <2>1. CASE k = l
    BY <2>1, <1>1, <1>2 DEF RespWakeup
  <2>2. CASE k # l
    BY <2>2, <1>1 DEF RespWakeup
  <2> QED BY <2>1, <2>2
<1> QED BY <1>3, <1>4 DEF RespWakeup

\* A miss queue is replaced by another.
LEMMA QueueReplaced ==
  ASSUME MissQueues, NEW l \in Level, NEW m, MissQueue(MshrSize[l], m), mshr' = [mshr EXCEPT ![l] = m]
  PROVE  MissQueues' /\ mshr'[l] = m /\ \A k \in Level : k # l => mshr'[k] = mshr[k]
BY DEF MissQueues

\* Credits that are sent are messages.
LEMMA SendCreditKeeps ==
  ASSUME PortTypes, NEW l \in Server, NEW n \in Nat, SendCredit(l, n)
  PROVE  in_downstream_credit' \in [Requester -> Seq(Nat)]
<1>1. in_downstream_credit \in [Requester -> Seq(Nat)] /\ l - 1 \in Requester
  BY LinkFacts DEF PortTypes
<1>2. in_downstream_credit[l - 1] \o [i \in 1 .. n |-> 1] \in Seq(Nat)
  BY <1>1, EmptyMessages
<1> QED BY <1>1, <1>2 DEF SendCredit

\* An answer handed to the level above keeps that port typed.
LEMMA SendRespKeeps ==
  ASSUME PortTypes, NEW l \in Server, NEW resp \in Request, SendResp(l, resp)
  PROVE  in_access_resp' \in [Requester -> Seq(Request)]
<1>1. in_access_resp \in [Requester -> Seq(Request)] /\ l - 1 \in Requester
  BY LinkFacts DEF PortTypes
<1> QED BY <1>1 DEF SendResp

\* What a link's credits and ports hold.
LEMMA LinkTypes ==
  ASSUME PortTypes, NEW l \in Requester
  PROVE  /\ next_level_credit[l] \in Nat /\ in_downstream_credit[l] \in Seq(Nat)
         /\ in_access_resp[l] \in Seq(Request) /\ in_access_req[l + 1] \in Seq(Request)
<1>1. l + 1 \in Server
  BY LinkFacts
<1>2. next_level_credit \in [Requester -> Nat] /\ in_downstream_credit \in [Requester -> Seq(Nat)]
  BY DEF PortTypes
<1>3. in_access_resp \in [Requester -> Seq(Request)] /\ in_access_req \in [Server -> Seq(Request)]
  BY DEF PortTypes
<1> QED BY <1>1, <1>2, <1>3

\* A function updated at one argument.
LEMMA Updated ==
  ASSUME NEW D, NEW R, NEW f \in [D -> R], NEW d \in D, NEW x \in R
  PROVE  /\ [f EXCEPT ![d] = x] \in [D -> R] /\ [f EXCEPT ![d] = x][d] = x
         /\ \A e \in D : e # d => [f EXCEPT ![d] = x][e] = f[e]
OBVIOUS

\* A sequence is empty when its length is zero.
LEMMA EmptyLen == ASSUME NEW S, NEW s \in Seq(S) PROVE s = << >> <=> Len(s) = 0
OBVIOUS

\* A message is taken.
LEMMA HeadAndTail ==
  ASSUME NEW S, NEW s \in Seq(S), s # << >>
  PROVE  /\ Head(s) \in S /\ Tail(s) \in Seq(S) /\ Len(s) \in Nat \ {0}
         /\ Len(Tail(s)) = Len(s) - 1 /\ Head(s) = s[1]
         /\ \A i \in 1 .. Len(s) - 1 : Tail(s)[i] = s[i + 1]
OBVIOUS

-----------------------------------------------------------------------------
(* Each action keeps the invariant.                                        *)

\* The initial states satisfy ChainInv.
LEMMA ChainInit == Init => ChainInv
<1> SUFFICES ASSUME Init PROVE ChainInv
  OBVIOUS
<1> DEFINE credits == [l \in Server |-> IF l = Memory THEN 1 ELSE InitCredits[l]]
<1>1. PortsInit(credits) /\ CacheInit /\ MemoryInit /\ answers = << >> /\ unasked = 0
  BY DEF Init
<1>2. \A l \in Requester : credits[l + 1] \in Nat
  BY LinkFacts, LevelFacts
<1>3. PortTypes
  <2> HIDE DEF credits
  <2> QED BY <1>1, <1>2 DEF PortsInit, PortTypes
<1>4. TagTypes
  <2>1. 0 \in Line
    BY UncoreAssumption DEF Line
  <2> QED BY <1>1, <2>1 DEF CacheInit, TagTypes, TagType
<1>5. /\ mshr = [l \in Level |-> NewMshr(MshrSize[l], NoRequest)]
      /\ out_resp_queue = [l \in Level |-> << >>] /\ ev_handle_mshr = {} /\ ev_out_resp_arbiter = {}
  BY <1>1 DEF CacheInit
<1>6. \A l \in Level : /\ mshr[l] = NewMshr(MshrSize[l], NoRequest)
                       /\ MissQueue(MshrSize[l], mshr[l]) /\ mshr[l].used = 0
  BY <1>5, LevelFacts, NewMshrIsQueue
<1>7. MissQueues
  BY <1>5, <1>6 DEF MissQueues
<1>8. EventTypes /\ OtherTypes
  BY <1>1, <1>5 DEF EventTypes, OtherTypes, MemoryInit
<1>9. NoLostMshrWakeup
  BY <1>5, <1>6 DEF NoLostMshrWakeup, MshrEmpty
<1>10. Ways
  <2>1. ASSUME NEW l \in Level PROVE WaysInv(l)
    <3>1. tagram[l] = [s \in 0 .. SetNum[l] - 1 |-> [w \in Way(l) |-> [tag |-> 0, valid |-> FALSE]]]
      BY <1>1 DEF CacheInit
    <3>2. \A id \in 0 .. MshrSize[l] - 1 : mshr[l].queue[id].status # "EVICT"
      BY <1>6, LevelFacts, NewMshrIsQueue
    <3> QED BY <3>1, <3>2 DEF WaysInv
  <2> QED BY <2>1 DEF Ways
<1> QED BY <1>3, <1>4, <1>7, <1>8, <1>9, <1>10 DEF ChainInv

\* The invariant says nothing about a step that leaves the caches alone but for
\* the types of the messages.
LEMMA CachesUntouched ==
  ASSUME ChainInv, UNCHANGED cacheVars, PortTypes', OtherTypes'
  PROVE  ChainInv'
<1>1. TagTypes' /\ MissQueues'
  BY DEF ChainInv, cacheVars, TagTypes, MissQueues
<1>2. EventTypes' /\ NoLostMshrWakeup'
  BY DEF ChainInv, cacheVars, EventTypes, NoLostMshrWakeup
<1>3. Ways'
  BY DEF ChainInv, cacheVars, Ways, WaysInv
<1> QED BY <1>1, <1>2, <1>3 DEF ChainInv

\* The core's request keeps ChainInv.
LEMMA CoreAskKeeps == ASSUME ChainInv, NEW line \in Line, CoreAsk(line) PROVE ChainInv'
<1>1. PortTypes /\ OtherTypes
  BY DEF ChainInv
<1>2. Len(answers) < ReqNum /\ next_level_credit[0] > 0 /\ answers \in Seq(Nat)
  BY <1>1 DEF CoreAsk, OtherTypes
<1>3. [id |-> Len(answers) + 1, line |-> line, mshrid |-> 0, subindex |-> 0] \in Request
  BY <1>2, UncoreAssumption DEF Request
<1>4. PortTypes'
  <2>1. next_level_credit[0] - 1 \in Nat
    <3>1. next_level_credit[0] \in Nat
      BY <1>1, LinkFacts, LinkTypes
    <3> QED BY <3>1, <1>2
  <2>2. next_level_credit' \in [Requester -> Nat]
    BY <1>1, <2>1, LinkFacts, Updated DEF CoreAsk, PortTypes
  <2>3. in_access_req' \in [Server -> Seq(Request)]
    <3>1. in_access_req[1] \in Seq(Request)
      BY <1>1, LinkFacts DEF PortTypes
    <3>2. Append(in_access_req[1], [id |-> Len(answers) + 1, line |-> line, mshrid |-> 0, subindex |-> 0])
            \in Seq(Request)
      BY <3>1, <1>3
    <3> QED BY <1>1, <3>2, LinkFacts, Updated DEF CoreAsk, PortTypes
  <2> QED BY <1>1, <2>2, <2>3 DEF CoreAsk, PortTypes
<1>5. OtherTypes'
  BY <1>1 DEF CoreAsk, OtherTypes
<1> QED BY <1>4, <1>5, CachesUntouched DEF CoreAsk

\* The core's receipt of an answer keeps ChainInv.
LEMMA CoreRecvKeeps == ASSUME ChainInv, CoreRecvResp PROVE ChainInv'
<1>1. PortTypes /\ OtherTypes
  BY DEF ChainInv
<1>2. in_access_resp[0] \in Seq(Request) /\ in_access_resp[0] # << >>
  BY <1>1, LinkFacts DEF PortTypes, CoreRecvResp
<1>3. PortTypes'
  BY <1>1, <1>2, HeadAndTail DEF PortTypes, CoreRecvResp
<1>4. OtherTypes'
  <2>1. ASSUME NEW s \in Seq(Nat), NEW i \in Int PROVE [s EXCEPT ![i] = @ + 1] \in Seq(Nat)
    <3>1. CASE i \in DOMAIN s
      BY <3>1
    <3>2. CASE i \notin DOMAIN s
      <4>1. [s EXCEPT ![i] = @ + 1] = s
        BY <3>2
      <4> QED BY <4>1
    <3> QED BY <3>1, <3>2
  <2>2. Head(in_access_resp[0]).id \in Int
    BY <1>2, HeadAndTail, RequestFields, UncoreAssumption
  <2>3. CASE Head(in_access_resp[0]).id \in DOMAIN answers
    BY <1>1, <2>1, <2>2, <2>3 DEF OtherTypes, CoreRecvResp
  <2>4. CASE Head(in_access_resp[0]).id \notin DOMAIN answers
    BY <1>1, <2>4 DEF OtherTypes, CoreRecvResp
  <2> QED BY <2>3, <2>4
<1> QED BY <1>3, <1>4, CachesUntouched DEF CoreRecvResp

\* The memory's round keeps ChainInv.
LEMMA MemoryKeeps == ASSUME ChainInv, MemoryStep PROVE ChainInv'
<1>1. PortTypes /\ OtherTypes /\ UNCHANGED <<cacheVars, answers, unasked>>
  BY DEF ChainInv, MemoryStep
<1>2. CASE receive_mem_req
  <2>1. in_access_req[Memory] \in Seq(Request) /\ in_access_req[Memory] # << >>
    BY <1>1, <1>2, LinkFacts DEF PortTypes, receive_mem_req
  <2>2. Head(in_access_req[Memory]) \in Request /\ Tail(in_access_req[Memory]) \in Seq(Request)
    BY <2>1, HeadAndTail
  <2>3. OtherTypes'
    BY <1>1, <1>2, <2>2 DEF OtherTypes, receive_mem_req
  <2>4. in_access_req' \in [Server -> Seq(Request)]
    BY <1>1, <1>2, <2>2, LinkFacts, Updated DEF PortTypes, receive_mem_req
  <2>5. PortTypes'
    BY <1>1, <1>2, <2>4 DEF PortTypes, receive_mem_req
  <2> QED BY <1>1, <2>3, <2>5, CachesUntouched
<1>3. CASE handle_mem_req
  <2>1. ev_handle_mem_req \in Seq(Request) /\ ev_handle_mem_req # << >>
    BY <1>1, <1>3 DEF OtherTypes, handle_mem_req
  <2>2. Head(ev_handle_mem_req) \in Request /\ OtherTypes'
    BY <1>1, <1>3, <2>1, HeadAndTail DEF OtherTypes, handle_mem_req
  <2>3. /\ in_access_resp' \in [Requester -> Seq(Request)]
        /\ in_downstream_credit' \in [Requester -> Seq(Nat)]
    BY <1>1, <1>3, <2>2, LinkFacts, SendRespKeeps, SendCreditKeeps DEF handle_mem_req
  <2>4. PortTypes'
    BY <1>1, <1>3, <2>3 DEF PortTypes, handle_mem_req
  <2> QED BY <1>1, <2>2, <2>4, CachesUntouched
<1> QED BY <1>2, <1>3 DEF MemoryStep

\* The receipt of credits keeps ChainInv.
LEMMA CreditKeeps == ASSUME ChainInv, NEW l \in Requester, CreditStep(l) PROVE ChainInv'
<1>1. /\ PortTypes /\ OtherTypes /\ recvCredit(l)
      /\ UNCHANGED <<cacheVars, ev_handle_mem_req, answers, unasked>>
  BY DEF ChainInv, CreditStep
<1>2. in_downstream_credit[l] \in Seq(Nat) /\ in_downstream_credit[l] # << >>
  BY <1>1 DEF PortTypes, recvCredit
<1>3. Head(in_downstream_credit[l]) \in Nat /\ Tail(in_downstream_credit[l]) \in Seq(Nat)
  BY <1>2, HeadAndTail
<1>4. PortTypes' /\ OtherTypes'
  <2>1. next_level_credit[l] + Head(in_downstream_credit[l]) \in Nat
    <3>1. next_level_credit[l] \in Nat
      BY <1>1, LinkTypes
    <3> QED BY <3>1, <1>3
  <2>2. next_level_credit' \in [Requester -> Nat]
    BY <1>1, <2>1, Updated DEF PortTypes, recvCredit
  <2>3. in_downstream_credit' \in [Requester -> Seq(Nat)]
    BY <1>1, <1>3, Updated DEF PortTypes, recvCredit
  <2> QED BY <1>1, <2>2, <2>3 DEF PortTypes, OtherTypes, recvCredit
<1> QED BY <1>1, <1>4, CachesUntouched

\* A cache changes its miss queue and not its tags.
LEMMA QueueStep ==
  ASSUME ChainInv, NEW l \in Level, NEW m, MissQueue(MshrSize[l], m),
         mshr' = [mshr EXCEPT ![l] = m], UNCHANGED tagram,
         WayNum[l] > 1 => \A id \in 0 .. MshrSize[l] - 1 : m.queue[id].status # "EVICT"
  PROVE  TagTypes' /\ MissQueues' /\ Ways' /\ mshr'[l] = m
<1>1. MissQueues' /\ mshr'[l] = m /\ \A k \in Level : k # l => mshr'[k] = mshr[k]
  BY QueueReplaced DEF ChainInv
<1>2. TagTypes'
  BY DEF ChainInv, TagTypes
<1>3. ASSUME NEW k \in Level PROVE WaysInv(k)'
  <2>1. CASE k = l
    BY <2>1, <1>1 DEF ChainInv, Ways, WaysInv
  <2>2. CASE k # l
    BY <2>2, <1>1 DEF ChainInv, Ways, WaysInv
  <2> QED BY <2>1, <2>2
<1> QED BY <1>1, <1>2, <1>3 DEF Ways

\* What ChainInv says of one level.
LEMMA QueueFacts ==
  ASSUME ChainInv, NEW l \in Level
  PROVE  /\ MissQueue(MshrSize[l], mshr[l]) /\ MshrSize[l] \in Nat \ {0}
         /\ WaysInv(l) /\ TagTypes /\ MissQueues /\ EventTypes /\ MshrWakeup /\ RespWakeup
BY LevelFacts, WakeupHalves DEF ChainInv, MissQueues, Ways

\* The parts put together.
LEMMA PartsTogether ==
  ASSUME PortTypes', TagTypes', MissQueues', EventTypes', OtherTypes', MshrWakeup', RespWakeup', Ways'
  PROVE  ChainInv'
BY DEF ChainInv, MshrWakeup, RespWakeup, NoLostMshrWakeup

\* A lookup (BaseCache::funcaccess) keeps ChainInv.
LEMMA FuncaccessKeeps ==
  ASSUME ChainInv, NEW l \in Level, funcaccess(l), OtherTypes' PROVE ChainInv'
<1>1. PortTypes
  BY DEF ChainInv
<1>2. in_access_req[l] \in Seq(Request) /\ in_access_req[l] # << >>
  BY <1>1, LevelFacts DEF PortTypes, funcaccess
<1>3. PICK req \in Request : /\ req = Head(in_access_req[l])
                             /\ PerfectAccess(l, req) \/ Hit(l, req) \/ Miss(l, req)
  BY <1>2, HeadAndTail DEF funcaccess
<1>4. in_access_req' \in [Server -> Seq(Request)] /\ UNCHANGED next_level_credit
  <2>1. in_access_req \in [Server -> Seq(Request)] /\ Tail(in_access_req[l]) \in Seq(Request)
    BY <1>1, <1>2, HeadAndTail DEF PortTypes
  <2>2. in_access_req' = [in_access_req EXCEPT ![l] = Tail(@)] /\ UNCHANGED next_level_credit
    BY DEF funcaccess
  <2> QED BY <2>1, <2>2, LevelFacts, Updated
<1>5. CASE PerfectAccess(l, req)
  <2>1. /\ in_access_resp' \in [Requester -> Seq(Request)]
        /\ in_downstream_credit' \in [Requester -> Seq(Nat)]
    BY <1>1, <1>5, LevelFacts, SendRespKeeps, SendCreditKeeps DEF PerfectAccess
  <2>2. PortTypes'
    BY <1>1, <1>4, <1>5, <2>1 DEF PortTypes, PerfectAccess
  <2> QED BY <1>5, <2>2, CachesUntouched DEF PerfectAccess
<1>6. CASE Hit(l, req)
  <2>1. in_downstream_credit' \in [Requester -> Seq(Nat)]
    BY <1>1, <1>6, LevelFacts, SendCreditKeeps DEF Hit
  <2>2. PortTypes'
    BY <1>1, <1>4, <1>6, <2>1 DEF PortTypes, Hit
  <2>3. Respond(l, makeResp(l, req)) /\ makeResp(l, req) \in Seq(Request)
    BY <1>6, RespsAreRequests DEF Hit
  <2>4. /\ out_resp_queue' \in [Level -> Seq(Request)] /\ ev_out_resp_arbiter' \subseteq Level
        /\ RespWakeup'
    BY <2>3, QueueFacts, RespondKeeps
  <2>5. UNCHANGED <<tagram, mshr, ev_handle_mshr>>
    BY <1>6 DEF Hit
  <2>6. EventTypes'
    BY <2>4, <2>5 DEF EventTypes, ChainInv
  <2>7. TagTypes' /\ MissQueues'
    BY <2>5, QueueFacts DEF TagTypes, MissQueues
  <2>8. MshrWakeup'
    BY <2>5, QueueFacts DEF MshrWakeup
  <2>9. Ways'
    BY <2>5 DEF Ways, WaysInv, ChainInv
  <2> QED BY <2>2, <2>4, <2>6, <2>7, <2>8, <2>9, PartsTogether
<1>7. CASE Miss(l, req)
  <2>1. UNCHANGED <<tagram, out_resp_queue, ev_out_resp_arbiter, in_access_resp, in_downstream_credit>>
    BY <1>7 DEF Miss
  <2>2. CASE MshrAvail(mshr[l])
    <3>1. PICK r \in Request : mshr' = [mshr EXCEPT ![l] = Allocate(mshr[l], r)]
      <4>1. [req EXCEPT !.mshrid = mshr[l].tail] \in Request
        BY QueueFacts, MissQueueFields, RequestFields
      <4> QED BY <1>7, <2>2, <4>1 DEF Miss
    <3>2. ev_handle_mshr' = ev_handle_mshr \cup {l} /\ UNCHANGED failed
      BY <1>7, <2>2 DEF Miss
    <3>3. MissQueue(MshrSize[l], Allocate(mshr[l], r))
      BY <2>2, QueueFacts, AllocateKeeps
    <3>4. \A id \in 0 .. MshrSize[l] - 1 :
             \/ Allocate(mshr[l], r).queue[id].status = "ALLOCATE"
             \/ Allocate(mshr[l], r).queue[id] = mshr[l].queue[id]
      <4>1. Allocate(mshr[l], r).queue =
              [mshr[l].queue EXCEPT ![mshr[l].tail] = [status |-> "ALLOCATE", req |-> r]]
        BY <2>2, QueueFacts, AllocateKeeps
      <4>2. mshr[l].queue \in [0 .. MshrSize[l] - 1 -> MshrEntry]
        BY QueueFacts, MissQueueFields
      <4> QED BY <4>1, <4>2
    <3>5. TagTypes' /\ MissQueues' /\ Ways'
      BY ZenonT(60), <2>1, <3>1, <3>3, <3>4, QueueFacts, QueueStep DEF WaysInv
    <3>6. PortTypes'
      BY <1>1, <1>4, <2>1, <3>2 DEF PortTypes
    <3>7. EventTypes'
      BY <2>1, <3>2, QueueFacts DEF EventTypes
    <3>8. MshrWakeup'
      <4>1. \A k \in Level : k # l => mshr'[k] = mshr[k]
        BY <3>1, QueueFacts DEF MissQueues
      <4> QED BY <3>2, <4>1, QueueFacts DEF MshrWakeup
    <3>9. RespWakeup'
      BY <2>1, QueueFacts DEF RespWakeup
    <3> QED BY <3>5, <3>6, <3>7, <3>8, <3>9, PartsTogether
  <2>3. CASE ~MshrAvail(mshr[l])
    <3>1. failed' = "mshr_avail" /\ UNCHANGED cacheVars
      BY <1>7, <2>1, <2>3 DEF Miss, Fail, cacheVars
    <3>2. PortTypes'
      BY <1>1, <1>4, <2>1, <3>1 DEF PortTypes
    <3> QED BY <3>1, <3>2, CachesUntouched
  <2> QED BY <2>2, <2>3
<1> QED BY <1>3, <1>5, <1>6, <1>7

\* A response that finds its entry finds the header.
LEMMA ResponseIsForHeader ==
  ASSUME ChainInv, NEW l \in Level, NEW id \in Nat,
         EntryAwaits(l, id, {"SEND_REQ", "RECV_CRITICAL_SEG"})
  PROVE  id = mshr[l].header /\ mshr[l].used > 0
<1>1. MissQueue(MshrSize[l], mshr[l]) /\ MshrSize[l] \in Nat \ {0}
  BY QueueFacts
<1>2. id \in 0 .. MshrSize[l] - 1 /\ mshr[l].queue[id].status \in {"SEND_REQ", "RECV_CRITICAL_SEG"}
  BY <1>1 DEF EntryAwaits
<1>3. PICK m : m = mshr[l] /\ MissQueue(MshrSize[l], m)
  BY <1>1
<1>4. m.qsize = MshrSize[l] /\ InOrder(m)
  BY <1>1, <1>3, MissQueueFields DEF MissQueue
<1>5. id # m.header => m.queue[id].status \in {"NO_TYPE", "ALLOCATE"}
  BY <1>2, <1>4 DEF InOrder
<1>6. id = mshr[l].header
  BY <1>2, <1>3, <1>5
<1> QED BY <1>1, <1>2, <1>6, MissQueueFields

\* The receipt of an answer from below keeps ChainInv.
LEMMA RecvRespKeeps ==
  ASSUME ChainInv, NEW l \in Level, recvResp(l), OtherTypes' PROVE ChainInv'
<1>1. PortTypes /\ MissQueue(MshrSize[l], mshr[l]) /\ MshrSize[l] \in Nat \ {0}
  BY QueueFacts DEF ChainInv
<1>2. in_access_resp[l] \in Seq(Request) /\ in_access_resp[l] # << >>
  BY <1>1, LevelFacts, LinkTypes DEF recvResp
<1>3. PICK resp \in Request :
        IF EntryAwaits(l, resp.mshrid, {"SEND_REQ", "RECV_CRITICAL_SEG"})
          THEN mshrRecvResp(l, resp.mshrid, resp.subindex) /\ UNCHANGED tagram
          ELSE Fail("SEND_REQ") /\ UNCHANGED cacheVars
  BY <1>2, HeadAndTail DEF recvResp
<1>4. in_access_resp' \in [Requester -> Seq(Request)]
  <2>1. in_access_resp \in [Requester -> Seq(Request)] /\ Tail(in_access_resp[l]) \in Seq(Request)
    BY <1>1, <1>2, HeadAndTail DEF PortTypes
  <2>2. in_access_resp' = [in_access_resp EXCEPT ![l] = Tail(@)]
    BY DEF recvResp
  <2> QED BY <2>1, <2>2, LevelFacts, Updated
<1>5. UNCHANGED <<in_access_req, in_downstream_credit, next_level_credit>>
  BY DEF recvResp
<1>6. ASSUME failed' \in {failed, "SEND_REQ", "RECV_CRITICAL_SEG"} PROVE PortTypes'
  BY <1>1, <1>4, <1>5, <1>6 DEF PortTypes
<1>7. ASSUME Fail("SEND_REQ") \/ Fail("RECV_CRITICAL_SEG"), UNCHANGED cacheVars PROVE ChainInv'
  BY <1>6, <1>7, CachesUntouched DEF Fail
<1> DEFINE id == resp.mshrid
           req == mshr[l].queue[id].req
<1>8. CASE EntryAwaits(l, id, {"SEND_REQ", "RECV_CRITICAL_SEG"})
  <2>1. id = mshr[l].header /\ mshr[l].used > 0 /\ req \in Request
    BY <1>1, <1>8, RequestFields, ResponseIsForHeader, MissQueueFields
  <2>2. mshrRecvResp(l, id, resp.subindex) /\ UNCHANGED tagram
    BY <1>3, <1>8
  <2>3. ASSUME NEW status \in {"RECV_WHOLE_LINE", "RECV_CRITICAL_SEG"}, NEW resps \in Seq(Request),
               mshr' = [mshr EXCEPT ![l] = SetStatus(@, id, status)], Respond(l, resps),
               ev_handle_mshr' = ev_handle_mshr \cup {l}, UNCHANGED failed
        PROVE  ChainInv'
    <3>1. SetStatus(mshr[l], id, status) = SetStatus(mshr[l], mshr[l].header, status)
      BY <2>1
    <3>2. status \in MshrStatus \ {"NO_TYPE"}
      BY <2>3 DEF MshrStatus
    <3>3. /\ MissQueue(MshrSize[l], SetStatus(mshr[l], mshr[l].header, status))
          /\ \A i \in 0 .. MshrSize[l] - 1 :
                SetStatus(mshr[l], mshr[l].header, status).queue[i].status =
                   IF i = mshr[l].header THEN status ELSE mshr[l].queue[i].status
      BY <1>1, <2>1, <3>2, SetStatusKeeps
    <3>4. TagTypes' /\ MissQueues' /\ Ways'
      <4>1. PICK m : m = SetStatus(mshr[l], mshr[l].header, status)
        OBVIOUS
      <4>2. WayNum[l] > 1 => \A i \in 0 .. MshrSize[l] - 1 : m.queue[i].status # "EVICT"
        BY <2>3, <3>3, <4>1, QueueFacts DEF WaysInv
      <4>3. mshr' = [mshr EXCEPT ![l] = m] /\ MissQueue(MshrSize[l], m)
        BY <2>3, <3>1, <3>3, <4>1
      <4> QED BY <2>2, <4>2, <4>3, QueueStep
    <3>5. PortTypes'
      BY <1>6, <2>3
    <3>6. /\ out_resp_queue' \in [Level -> Seq(Request)] /\ ev_out_resp_arbiter' \subseteq Level
          /\ RespWakeup'
      BY <2>3, QueueFacts, RespondKeeps
    <3>7. EventTypes'
      BY <2>3, <3>6, QueueFacts DEF EventTypes
    <3>8. MshrWakeup'
      <4>1. \A k \in Level : k # l => mshr'[k] = mshr[k]
        BY <2>3, QueueFacts DEF MissQueues
      <4> QED BY <2>3, <4>1, QueueFacts DEF MshrWakeup
    <3> QED BY <3>4, <3>5, <3>6, <3>7, <3>8, PartsTogether
  <2>4. /\ makeResp(l, req) \in Seq(Request) /\ makeCriticalResp(l, req) \in Seq(Request)
        /\ makeNonCriticalResp(l, req) \in Seq(Request)
    BY <2>1, RespsAreRequests
  <2>5. CASE ev_handle_mshr' = ev_handle_mshr \cup {l}
             /\ UNCHANGED <<mshr, out_resp_queue, ev_out_resp_arbiter, failed>>
    <3>1. TagTypes' /\ MissQueues'
      BY <2>2, <2>5, QueueFacts DEF TagTypes, MissQueues
    <3>2. EventTypes' /\ RespWakeup'
      BY <2>5, QueueFacts DEF EventTypes, RespWakeup
    <3>3. MshrWakeup'
      BY <2>5, QueueFacts DEF MshrWakeup
    <3>4. Ways'
      BY <2>2, <2>5 DEF Ways, WaysInv, ChainInv
    <3>5. PortTypes'
      BY <1>6, <2>5
    <3> QED BY <3>1, <3>2, <3>3, <3>4, <3>5, PartsTogether
  <2> HIDE DEF req, id
  <2>6. \/ \E status \in {"RECV_WHOLE_LINE", "RECV_CRITICAL_SEG"} : \E resps \in Seq(Request) :
             /\ mshr' = [mshr EXCEPT ![l] = SetStatus(@, id, status)]
             /\ Respond(l, resps)
             /\ ev_handle_mshr' = ev_handle_mshr \cup {l}
             /\ UNCHANGED failed
        \/ Fail("RECV_CRITICAL_SEG") /\ UNCHANGED cacheVars
        \/ /\ ev_handle_mshr' = ev_handle_mshr \cup {l}
           /\ UNCHANGED <<mshr, out_resp_queue, ev_out_resp_arbiter, failed>>
    BY <2>2, <2>4 DEF mshrRecvResp, req
  <2> QED BY <2>3, <2>5, <2>6, <1>7
<1>9. CASE ~EntryAwaits(l, id, {"SEND_REQ", "RECV_CRITICAL_SEG"})
  BY <1>3, <1>7, <1>9
<1> QED BY <1>8, <1>9

\* A round of the answer arbiter keeps ChainInv.
LEMMA OutRespKeeps ==
  ASSUME ChainInv, NEW l \in Level, outRespArbiter(l), OtherTypes' PROVE ChainInv'
<1>1. PortTypes /\ EventTypes /\ RespWakeup /\ l \in ev_out_resp_arbiter
  BY QueueFacts DEF ChainInv, outRespArbiter
<1>2. out_resp_queue \in [Level -> Seq(Request)] /\ out_resp_queue[l] \in Seq(Request)
      /\ out_resp_queue[l] # << >>
  BY <1>1 DEF EventTypes, RespWakeup
<1>3. /\ Head(out_resp_queue[l]) \in Request /\ Tail(out_resp_queue[l]) \in Seq(Request)
      /\ (Tail(out_resp_queue[l]) = << >> <=> Len(out_resp_queue[l]) = 1)
  <2>1. ASSUME NEW s \in Seq(Request), s # << >> PROVE Tail(s) = << >> <=> Len(s) = 1
    <3>1. Tail(s) \in Seq(Request) /\ Len(Tail(s)) = Len(s) - 1 /\ Len(s) \in Nat
      BY <2>1, HeadAndTail
    <3> QED BY <3>1, EmptyLen
  <2> QED BY <1>2, <2>1, HeadAndTail
<1>4. /\ out_resp_queue' = [out_resp_queue EXCEPT ![l] = Tail(@)]
      /\ ev_out_resp_arbiter' =
           IF Len(out_resp_queue[l]) = 1 THEN ev_out_resp_arbiter \ {l} ELSE ev_out_resp_arbiter
      /\ UNCHANGED <<tagram, mshr, ev_handle_mshr, in_access_req, in_downstream_credit,
                     next_level_credit, failed>>
  BY DEF outRespArbiter
<1>5. in_access_resp' \in [Requester -> Seq(Request)]
  BY <1>1, <1>3, LevelFacts, SendRespKeeps DEF outRespArbiter
<1>6. PortTypes'
  BY <1>1, <1>4, <1>5 DEF PortTypes
<1>7. EventTypes'
  BY <1>1, <1>2, <1>3, <1>4, Updated DEF EventTypes
<1>8. RespWakeup'
  <2>1. ASSUME NEW k \in Level PROVE out_resp_queue'[k] # << >> <=> k \in ev_out_resp_arbiter'
    <3>1. CASE k = l
      BY <3>1, <1>1, <1>2, <1>3, <1>4
    <3>2. CASE k # l
      BY <3>2, <1>1, <1>2, <1>4 DEF RespWakeup
    <3> QED BY <3>1, <3>2
  <2> QED BY <2>1 DEF RespWakeup
<1>9. TagTypes' /\ MissQueues'
  BY <1>4, QueueFacts DEF TagTypes, MissQueues
<1>10. MshrWakeup'
  BY <1>4, QueueFacts DEF MshrWakeup
<1>11. Ways'
  BY <1>4 DEF Ways, WaysInv, ChainInv
<1> QED BY <1>6, <1>7, <1>8, <1>9, <1>10, <1>11, PartsTogether

\* A round that walks past the end of the miss queue keeps ChainInv.
LEMMA OverrunKeeps ==
  ASSUME ChainInv, NEW l \in Level, OverrunMshr(l), OtherTypes' PROVE ChainInv'
<1>1. PortTypes'
  BY DEF ChainInv, PortTypes, OverrunMshr, Fail
<1> QED BY <1>1, CachesUntouched DEF OverrunMshr

\* Only way 0 is ever filled, so a cache with another way always has one free.
LEMMA SecondWayIsFree ==
  ASSUME ChainInv, NEW l \in Level, NEW line \in Line, WayNum[l] > 1
  PROVE  checkWayAvail(tagram, l, line)
<1>1. 1 \in Way(l) \ {0} /\ getIndex(l, line) \in 0 .. SetNum[l] - 1
  BY LevelFacts, IndexIsSet DEF Way
<1> QED BY <1>1, QueueFacts DEF WaysInv, checkWayAvail

\* What a refill does to the tags: the line is there, in way 0 of its set, and
\* every other set and way is as it was.
LEMMA RamRefillEffect ==
  ASSUME TagTypes, NEW l \in Level, NEW line \in Line, ramRefill(l, line)
  PROVE  /\ TagTypes'
         /\ tagram'[l][getIndex(l, line)][0] = [tag |-> getTag(l, line), valid |-> TRUE]
         /\ \A s \in 0 .. SetNum[l] - 1 : \A w \in Way(l) :
               s # getIndex(l, line) \/ w # 0 => tagram'[l][s][w] = tagram[l][s][w]
         /\ \A k \in Level : k # l => tagram'[k] = tagram[k]
<1>1. PICK i \in 0 .. SetNum[l] - 1, t \in Line : i = getIndex(l, line) /\ t = getTag(l, line)
  BY IndexIsSet
<1>2. 0 \in Way(l)
  BY LevelFacts DEF Way
<1>3. tagram' = [tagram EXCEPT ![l][i][0] = [tag |-> t, valid |-> TRUE]]
  BY <1>1 DEF ramRefill, refillWay
<1>4. /\ tagram = [k \in Level |-> tagram[k]]
      /\ tagram[l] \in [0 .. SetNum[l] - 1 -> [Way(l) -> [tag : Line, valid : BOOLEAN]]]
  BY DEF TagTypes, TagType
<1>5. [tag |-> t, valid |-> TRUE] \in [tag : Line, valid : BOOLEAN]
  OBVIOUS
<1>6. tagram'[l] = [tagram[l] EXCEPT ![i][0] = [tag |-> t, valid |-> TRUE]]
  BY <1>3, <1>4
<1>7. /\ tagram'[l] \in [0 .. SetNum[l] - 1 -> [Way(l) -> [tag : Line, valid : BOOLEAN]]]
      /\ tagram'[l][i][0] = [tag |-> t, valid |-> TRUE]
      /\ \A s \in 0 .. SetNum[l] - 1 : \A w \in Way(l) :
            s # i \/ w # 0 => tagram'[l][s][w] = tagram[l][s][w]
  <2>1. PICK e \in [tag : Line, valid : BOOLEAN] : e = [tag |-> t, valid |-> TRUE]
    BY <1>5
  <2>2. tagram'[l] = [tagram[l] EXCEPT ![i] = [tagram[l][i] EXCEPT ![0] = e]]
    BY <1>4, <1>6, <2>1
  <2>3. tagram[l][i] \in [Way(l) -> [tag : Line, valid : BOOLEAN]]
    BY <1>4
  <2>4. [tagram[l][i] EXCEPT ![0] = e] \in [Way(l) -> [tag : Line, valid : BOOLEAN]]
    BY <1>2, <2>3
  <2> QED BY <1>2, <1>4, <2>1, <2>2, <2>3, <2>4
<1>8. \A k \in Level : k # l => tagram'[k] = tagram[k]
  BY <1>3, <1>4
<1>9. TagTypes'
  <2>1. tagram' = [k \in Level |-> tagram'[k]]
    BY <1>3, <1>4
  <2> QED BY <2>1, <1>7, <1>8 DEF TagTypes, TagType
<1> QED BY <1>1, <1>7, <1>8, <1>9

\* The queue after the walk of mshrDeallocate.
LEMMA AfterWalk ==
  ASSUME ChainInv, NEW l \in Level, NEW m, m = mshrDeallocate(mshr[l])
  PROVE  /\ MissQueue(MshrSize[l], m)
         /\ \A id \in 0 .. MshrSize[l] - 1 :
               m.queue[id].status \in {mshr[l].queue[id].status, "NO_TYPE", "ALLOCATE"}
         /\ IF HeaderOf(mshr[l]).status = "REFILL"
              THEN m = Deallocate(mshr[l], mshr[l].header) /\ m.used = mshr[l].used - 1
              ELSE m = mshr[l]
         /\ mshr[l].used - m.used \in Nat
<1>1. MissQueue(MshrSize[l], mshr[l]) /\ MshrSize[l] \in Nat \ {0}
  BY QueueFacts
<1>2. m = IF HeaderOf(mshr[l]).status = "REFILL" THEN Deallocate(mshr[l], mshr[l].header) ELSE mshr[l]
  BY <1>1, WalkFreesHeader DEF HeaderOf
<1>3. mshr[l].used \in Nat /\ (mshr[l].used = 0 <=> HeaderOf(mshr[l]).status = "NO_TYPE")
  BY <1>1, MissQueueFields DEF HeaderOf
<1>4. CASE HeaderOf(mshr[l]).status = "REFILL"
  <2>1. mshr[l].used > 0
    BY <1>3, <1>4
  <2> QED BY <1>1, <1>2, <1>3, <1>4, <2>1, DeallocateKeeps
<1>5. CASE HeaderOf(mshr[l]).status # "REFILL"
  BY <1>1, <1>2, <1>3, <1>5
<1> QED BY <1>4, <1>5

\* A round of handleMshr keeps ChainInv.
LEMMA HandleMshrKeeps ==
  ASSUME ChainInv, NEW l \in Level, handleMshr(l), OtherTypes' PROVE ChainInv'
<1>1. PICK m : m = mshrDeallocate(mshr[l])
  OBVIOUS
<1>2. PICK m3 : /\ mshr' = [mshr EXCEPT ![l] = m3]
                /\ SendCredit(l, mshr[l].used - m.used)
                /\ ev_handle_mshr' = IF MshrEmpty(m3) THEN ev_handle_mshr \ {l} ELSE ev_handle_mshr
                /\ UNCHANGED <<out_resp_queue, ev_out_resp_arbiter, in_access_resp, failed>>
  BY <1>1 DEF handleMshr
<1>3. /\ MissQueue(MshrSize[l], m) /\ MshrSize[l] \in Nat \ {0} /\ mshr[l].used - m.used \in Nat
      /\ \A id \in 0 .. MshrSize[l] - 1 :
            m.queue[id].status \in {mshr[l].queue[id].status, "NO_TYPE", "ALLOCATE"}
  BY <1>1, QueueFacts, AfterWalk
<1>4. PortTypes /\ in_downstream_credit' \in [Requester -> Seq(Nat)]
  BY <1>2, <1>3, LevelFacts, SendCreditKeeps DEF ChainInv
<1>5. EventTypes' /\ RespWakeup'
  BY <1>2, QueueFacts DEF EventTypes, RespWakeup
<1>6. MshrWakeup'
  <2>1. mshr'[l] = m3 /\ \A k \in Level : k # l => mshr'[k] = mshr[k]
    BY <1>2, QueueFacts DEF MissQueues
  <2>2. l \in ev_handle_mshr
    BY DEF handleMshr
  <2>3. ASSUME NEW k \in Level, ~MshrEmpty(mshr'[k]) PROVE k \in ev_handle_mshr'
    <3>1. CASE k = l
      BY <3>1, <1>2, <2>1, <2>2, <2>3
    <3>2. CASE k # l
      BY <3>2, <1>2, <2>1, <2>3, QueueFacts DEF MshrWakeup
    <3> QED BY <3>1, <3>2
  <2> QED BY <2>3 DEF MshrWakeup, MshrEmpty
<1>7. m.header \in 0 .. MshrSize[l] - 1 /\ HeaderOf(m).req \in Request /\ HeaderOf(m).req.line \in Line
  BY <1>3, MissQueueFields, RequestFields DEF HeaderOf
<1>8. WayNum[l] > 1 => \A id \in 0 .. MshrSize[l] - 1 : m.queue[id].status # "EVICT"
  BY <1>3, QueueFacts DEF WaysInv
<1>9. ASSUME NEW status \in {"SEND_REQ", "REFILL", "EVICT"}, m.used > 0,
             WayNum[l] > 1 => status # "EVICT", NEW n, n = SetStatus(m, m.header, status)
      PROVE  /\ MissQueue(MshrSize[l], n)
             /\ WayNum[l] > 1 => \A id \in 0 .. MshrSize[l] - 1 : n.queue[id].status # "EVICT"
  BY <1>3, <1>8, <1>9, SetStatusKeeps DEF MshrStatus
<1>10. CASE Rests(l, m)
  <2>1. TagTypes' /\ MissQueues' /\ Ways'
    BY <1>3, <1>8, <1>10, QueueStep DEF Rests
  <2>2. PortTypes'
    BY <1>2, <1>4, <1>10 DEF PortTypes, Rests
  <2> QED BY <1>5, <1>6, <2>1, <2>2, PartsTogether
<1>11. CASE Sends(l, m)
  <2>1. PICK n : n = SetStatus(m, m.header, "SEND_REQ")
    OBVIOUS
  <2>2. /\ MissQueue(MshrSize[l], n)
        /\ WayNum[l] > 1 => \A id \in 0 .. MshrSize[l] - 1 : n.queue[id].status # "EVICT"
    BY <1>9, <1>11, <2>1 DEF Sends
  <2>3. TagTypes' /\ MissQueues' /\ Ways'
    BY <1>11, <2>1, <2>2, QueueStep DEF Sends
  <2>4. next_level_credit' \in [Requester -> Nat]
    <3>1. next_level_credit[l] \in Nat /\ next_level_credit[l] > 0
      BY <1>4, <1>11, LevelFacts, LinkTypes DEF Sends
    <3>2. next_level_credit[l] - 1 \in Nat
      BY <3>1
    <3> QED BY <1>4, <1>11, <3>2, LevelFacts, Updated DEF Sends, PortTypes
  <2>5. in_access_req' \in [Server -> Seq(Request)]
    <3>1. Append(in_access_req[l + 1], HeaderOf(m).req) \in Seq(Request)
      BY <1>4, <1>7, LevelFacts, LinkTypes
    <3> QED BY <1>4, <1>11, <3>1, LevelFacts, Updated DEF Sends, PortTypes
  <2>6. PortTypes'
    BY <1>2, <1>4, <2>4, <2>5 DEF PortTypes
  <2> QED BY <1>5, <1>6, <2>3, <2>6, PartsTogether
<1>12. CASE Refills(l, m)
  <2>1. PICK n : n = SetStatus(m, m.header, "REFILL")
    OBVIOUS
  <2>2. /\ MissQueue(MshrSize[l], n)
        /\ WayNum[l] > 1 => \A id \in 0 .. MshrSize[l] - 1 : n.queue[id].status # "EVICT"
    BY <1>9, <1>12, <2>1 DEF Refills
  <2>3. MissQueues' /\ mshr'[l] = n /\ \A k \in Level : k # l => mshr'[k] = mshr[k]
    BY <1>12, <2>1, <2>2, QueueFacts, QueueReplaced DEF Refills
  <2>4. /\ TagTypes'
        /\ \A s \in 0 .. SetNum[l] - 1 : \A w \in Way(l) :
               w # 0 => tagram'[l][s][w] = tagram[l][s][w]
        /\ \A k \in Level : k # l => tagram'[k] = tagram[k]
    BY <1>7, <1>12, QueueFacts, RamRefillEffect DEF Refills
  <2>5. ASSUME NEW k \in Level PROVE WaysInv(k)'
    <3>1. CASE k = l
      BY <3>1, <2>2, <2>3, <2>4, QueueFacts DEF WaysInv
    <3>2. CASE k # l
      BY <3>2, <2>3, <2>4, QueueFacts DEF WaysInv
    <3> QED BY <3>1, <3>2
  <2>6. PortTypes'
    BY <1>2, <1>4, <1>12 DEF PortTypes, Refills
  <2> QED BY <1>5, <1>6, <2>3, <2>4, <2>5, <2>6, PartsTogether DEF Ways
<1>13. CASE Evicts(l, m)
  <2>1. PICK n : n = SetStatus(m, m.header, "EVICT")
    OBVIOUS
  <2>2. ~(WayNum[l] > 1)
    BY <1>7, <1>13, SecondWayIsFree DEF Evicts
  <2>3. /\ MissQueue(MshrSize[l], n)
        /\ WayNum[l] > 1 => \A id \in 0 .. MshrSize[l] - 1 : n.queue[id].status # "EVICT"
    BY <1>9, <1>13, <2>1, <2>2 DEF Evicts
  <2>4. TagTypes' /\ MissQueues' /\ Ways'
    BY <1>13, <2>1, <2>3, QueueStep DEF Evicts
  <2>5. PICK c \in 0 .. 1 :
          /\ c <= next_level_credit[l]
          /\ in_access_req' = [in_access_req EXCEPT ![l + 1] = @ \o [i \in 1 .. c |-> WriteBack]]
          /\ next_level_credit' = [next_level_credit EXCEPT ![l] = @ - c]
    BY <1>13 DEF Evicts
  <2>6. next_level_credit' \in [Requester -> Nat]
    <3>1. next_level_credit[l] \in Nat
      BY <1>4, LevelFacts, LinkTypes
    <3>2. next_level_credit[l] - c \in Nat
      BY <3>1, <2>5
    <3> QED BY <1>4, <2>5, <3>2, LevelFacts, Updated DEF PortTypes
  <2>7. in_access_req' \in [Server -> Seq(Request)]
    <3>1. in_access_req[l + 1] \o [i \in 1 .. c |-> WriteBack] \in Seq(Request)
      <4>1. in_access_req[l + 1] \in Seq(Request) /\ WriteBack \in Request /\ c \in Nat
        BY <1>4, LevelFacts, LinkTypes, RequestFields DEF WriteBack
      <4> QED BY <4>1, EmptyMessages
    <3> QED BY <1>4, <2>5, <3>1, LevelFacts, Updated DEF PortTypes
  <2>8. PortTypes'
    BY <1>2, <1>4, <2>6, <2>7 DEF PortTypes
  <2> QED BY <1>5, <1>6, <2>4, <2>8, PartsTogether
<1> QED BY <1>1, <1>10, <1>11, <1>12, <1>13, RoundOnHeader

\* Every step keeps ChainInv.
LEMMA ChainStep == ChainInv /\ [Next]_vars => ChainInv'
<1> SUFFICES ASSUME ChainInv, [Next]_vars PROVE ChainInv'
  OBVIOUS
<1>1. ASSUME NEW line \in Line, CoreAsk(line) PROVE ChainInv'
  BY <1>1, CoreAskKeeps
<1>2. CASE CoreRecvResp
  BY <1>2, CoreRecvKeeps
<1>3. CASE MemoryStep
  BY <1>3, MemoryKeeps
<1>4. ASSUME NEW l \in Requester, CreditStep(l) PROVE ChainInv'
  BY <1>4, CreditKeeps
<1>5. ASSUME NEW l \in Level, CacheStep(l) PROVE ChainInv'
  <2>1. OtherTypes'
    BY <1>5 DEF CacheStep, ChainInv, OtherTypes
  <2> QED
    BY <1>5, <2>1, FuncaccessKeeps, RecvRespKeeps, HandleMshrKeeps, OverrunKeeps, OutRespKeeps
    DEF CacheStep
<1>6. CASE UNCHANGED vars
  <2>1. PortTypes' /\ OtherTypes' /\ UNCHANGED cacheVars
    BY <1>6 DEF vars, portVars, ChainInv, PortTypes, OtherTypes
  <2> QED BY <2>1, CachesUntouched
<1> QED BY <1>1, <1>2, <1>3, <1>4, <1>5, <1>6 DEF Next, CoreStep, Handlers

-----------------------------------------------------------------------------
(* What it means for the chain.                                            *)

\* Every variable keeps its type, whatever the sizes: no index leaves a miss
\* queue, no tag leaves the address space, no count of credits goes below 0.
THEOREM ChainTypeCorrect == Spec => []TypeOK
<1>1. ASSUME ChainInv PROVE TypeOK
  <2>1. ASSUME NEW l \in Level
        PROVE  /\ \A s \in DOMAIN tagram[l] : \A w \in Way(l) :
                     tagram[l][s][w] \in [tag : Line, valid : BOOLEAN]
               /\ mshr[l].used \in 0 .. MshrSize[l]
               /\ mshr[l].header \in 0 .. MshrSize[l] - 1
               /\ mshr[l].tail \in 0 .. MshrSize[l] - 1
               /\ mshr[l].queue \in [0 .. MshrSize[l] - 1 -> [status : MshrStatus, req : Request]]
    <3>1. tagram[l] \in [0 .. SetNum[l] - 1 -> [Way(l) -> [tag : Line, valid : BOOLEAN]]]
      BY <1>1, QueueFacts DEF TagTypes, TagType
    <3>2. \A s \in DOMAIN tagram[l] : \A w \in Way(l) : tagram[l][s][w] \in [tag : Line, valid : BOOLEAN]
      BY <3>1
    <3> QED BY <1>1, <3>2, QueueFacts, MissQueueFields DEF MshrEntry
  <2>2. PortTypes /\ EventTypes /\ OtherTypes
    BY <1>1 DEF ChainInv
  <2> QED BY <2>1, <2>2 DEF TypeOK, PortTypes, EventTypes, OtherTypes
<1> QED BY ChainInit, ChainStep, <1>1, PTL DEF Spec

\* The entries in use are those from the header on, in the words of the code's
\* own arithmetic.
LEMMA InUseIsRing ==
  ASSUME NEW size \in Nat \ {0}, NEW m, MissQueue(size, m), NEW id \in 0 .. size - 1
  PROVE  id \in InUse(m) <=> RingOffset(m, id) < m.used
<1>1. m.used \in 0 .. size /\ m.header \in 0 .. size - 1 /\ m.qsize = size
  BY MissQueueFields
<1>2. ASSUME NEW a \in 0 .. 2 * size - 1 PROVE a % size = IF a < size THEN a ELSE a - size
  OBVIOUS
<1>3. ASSUME id \in InUse(m) PROVE RingOffset(m, id) < m.used
  <2>1. PICK i \in 0 .. m.used - 1 : id = (m.header + i) % size
    BY <1>1, <1>3 DEF InUse
  <2>2. PICK a \in 0 .. 2 * size - 1 : a = m.header + i
    BY <1>1, <2>1
  <2>3. id = IF a < size THEN a ELSE a - size
    BY <1>2, <2>1, <2>2
  <2> QED BY <1>1, <2>1, <2>2, <2>3 DEF RingOffset
<1>4. ASSUME RingOffset(m, id) < m.used PROVE id \in InUse(m)
  <2>1. PICK i : i = RingOffset(m, id)
    OBVIOUS
  <2>2. i \in 0 .. m.used - 1
    BY <1>1, <1>4, <2>1 DEF RingOffset
  <2>3. id = IF m.header + i < size THEN m.header + i ELSE m.header + i - size
    BY <1>1, <2>1 DEF RingOffset
  <2>4. id = (m.header + i) % size
    BY <1>1, <1>2, <2>2, <2>3
  <2> QED BY <1>1, <2>2, <2>4 DEF InUse
<1> QED BY <1>3, <1>4

\* Entries are freed in the order in which they were taken and the ring has no
\* hole, for every size and however many misses are under way.
THEOREM MissQueuesStayContiguous == Spec => []MissQueueIsContiguous
<1>1. ASSUME ChainInv, NEW l \in Level
      PROVE  /\ mshr[l].tail = (mshr[l].header + mshr[l].used) % mshr[l].qsize
             /\ \A id \in 0 .. mshr[l].qsize - 1 :
                   id \in InUse(mshr[l]) <=> mshr[l].queue[id].status # "NO_TYPE"
  <2>1. PICK m : m = mshr[l]
    OBVIOUS
  <2>2. PICK size \in Nat \ {0} : size = MshrSize[l]
    BY LevelFacts
  <2>3. MissQueue(size, m)
    BY <1>1, <2>1, <2>2, QueueFacts
  <2>4. m.used \in 0 .. size /\ m.header \in 0 .. size - 1 /\ m.qsize = size
    BY <2>3, MissQueueFields
  <2>5. ASSUME NEW a \in 0 .. 2 * size - 1 PROVE a % size = IF a < size THEN a ELSE a - size
    OBVIOUS
  <2>6. m.tail = (m.header + m.used) % size
    BY SMTT(60), <2>3, <2>4, <2>5 DEF MissQueue, InOrder
  <2>7. \A id \in 0 .. size - 1 : id \in InUse(m) <=> m.queue[id].status # "NO_TYPE"
    BY <2>3, <2>4, InUseIsRing DEF MissQueue, InOrder
  <2> QED BY <2>1, <2>4, <2>6, <2>7
<1>2. ChainInv => MissQueueIsContiguous
  BY <1>1 DEF MissQueueIsContiguous
<1> QED BY ChainInit, ChainStep, <1>2, PTL DEF Spec

\* No wakeup is lost: a miss queue that is not empty and a response that waits
\* always have their event scheduled.
THEOREM MshrWakeupsAreKept == Spec => []NoLostMshrWakeup
<1>1. ChainInv => NoLostMshrWakeup
  BY DEF ChainInv
<1> QED BY ChainInit, ChainStep, <1>1, PTL DEF Spec

-----------------------------------------------------------------------------
(* The credits.  A cache that gives out more credits than its miss queue   *)
(* has entries may be asked while the queue is full; it keeps the credit   *)
(* of a hit then, and stops at a miss.                                     *)

CreditsFit == \A l \in Level \ PerfectLevel : InitCredits[l] <= MshrSize[l]

Given(s) == IF s = Memory THEN 1 ELSE InitCredits[s]

\* All the credits of a link, wherever they are.
LinkSum(l) ==
    next_level_credit[l] + CreditsUnderWay(l) + Len(in_access_req[l + 1]) + Occupied(l + 1)

\* LinkCreditsConserved, link by link.
LEMMA ConservedIs == LinkCreditsConserved <=> \A l \in Requester : LinkSum(l) = Given(l + 1)
BY DEF LinkCreditsConserved, LinkSum, Given

\* The parts of a link's sum are natural numbers.
LEMMA LinkNumbers ==
  ASSUME ChainInv, NEW l \in Requester
  PROVE  /\ next_level_credit[l] \in Nat /\ CreditsUnderWay(l) \in Nat
         /\ Len(in_access_req[l + 1]) \in Nat /\ Occupied(l + 1) \in Nat
         /\ in_downstream_credit[l] \in Seq(Nat) /\ in_access_req[l + 1] \in Seq(Request)
<1>1. /\ next_level_credit[l] \in Nat /\ in_downstream_credit[l] \in Seq(Nat)
      /\ in_access_req[l + 1] \in Seq(Request)
  BY LinkTypes DEF ChainInv
<1>2. CreditsUnderWay(l) \in Nat /\ Len(in_access_req[l + 1]) \in Nat
  BY <1>1, SumIsNat DEF CreditsUnderWay
<1>3. Occupied(l + 1) \in Nat
  <2>1. CASE l + 1 = Memory
    BY <2>1 DEF Occupied, ChainInv, OtherTypes
  <2>2. CASE l + 1 # Memory
    <3>1. l + 1 \in Level
      BY <2>2, LinkFacts
    <3>2. mshr[l + 1].used \in Nat
      BY <3>1, QueueFacts, MissQueueFields
    <3> QED BY <2>2, <3>2 DEF Occupied
  <2> QED BY <2>1, <2>2
<1> QED BY <1>1, <1>2, <1>3

\* A request that has arrived at a cache finds a free entry: it still holds the
\* credit for it.
LEMMA PlaceIsFree ==
  ASSUME ChainInv, LinkCreditsConserved, CreditsFit, NEW l \in Level \ PerfectLevel,
         in_access_req[l] # << >>
  PROVE  MshrAvail(mshr[l])
<1>1. PICK k \in Requester : k + 1 = l
  BY LevelFacts
<1>2. l # Memory /\ MshrSize[l] \in Nat /\ InitCredits[l] \in Nat
  BY LinkFacts, LevelFacts
<1>3. LinkSum(k) = InitCredits[l] /\ Occupied(l) = mshr[l].used
  BY <1>1, <1>2, ConservedIs DEF Given, Occupied
<1>4. /\ next_level_credit[k] \in Nat /\ CreditsUnderWay(k) \in Nat
      /\ Len(in_access_req[l]) \in Nat /\ Occupied(l) \in Nat /\ in_access_req[l] \in Seq(Request)
  BY <1>1, LinkNumbers
<1>5. Len(in_access_req[l]) # 0
  BY <1>4, EmptyLen
<1>6. LinkSum(k) = next_level_credit[k] + CreditsUnderWay(k) + Len(in_access_req[l]) + Occupied(l)
  BY <1>1 DEF LinkSum
<1>7. mshr[l].used < MshrSize[l]
  <2>1. ASSUME NEW a \in Nat, NEW b \in Nat, NEW c \in Nat, NEW d \in Nat, NEW n \in Nat,
               c # 0, a + b + c + d <= n
        PROVE  d < n
    BY <2>1
  <2>2. InitCredits[l] <= MshrSize[l]
    BY DEF CreditsFit
  <2>3. next_level_credit[k] + CreditsUnderWay(k) + Len(in_access_req[l]) + Occupied(l) <= MshrSize[l]
    BY <1>3, <1>6, <2>2
  <2>4. Occupied(l) < MshrSize[l]
    BY <1>2, <1>4, <1>5, <2>1, <2>3
  <2> QED BY <1>3, <2>4
<1>8. mshr[l].qsize = MshrSize[l]
  BY QueueFacts, MissQueueFields
<1> QED BY <1>2, <1>3, <1>4, <1>7, <1>8 DEF MshrAvail

\* The credits that a server sends up.
LEMMA SentCredits ==
  ASSUME ChainInv, NEW s \in Server, NEW n \in Nat, SendCredit(s, n)
  PROVE  /\ CreditsUnderWay(s - 1)' = CreditsUnderWay(s - 1) + n
         /\ \A k \in Requester : k # s - 1 => CreditsUnderWay(k)' = CreditsUnderWay(k)
<1>1. s - 1 \in Requester /\ in_downstream_credit \in [Requester -> Seq(Nat)]
  BY LinkFacts DEF ChainInv, PortTypes
<1>2. in_downstream_credit' = [in_downstream_credit EXCEPT ![s - 1] = @ \o [i \in 1 .. n |-> 1]]
  BY DEF SendCredit
<1>3. /\ in_downstream_credit'[s - 1] = in_downstream_credit[s - 1] \o [i \in 1 .. n |-> 1]
      /\ \A k \in Requester : k # s - 1 => in_downstream_credit'[k] = in_downstream_credit[k]
  BY <1>1, <1>2
<1>4. SumOf(in_downstream_credit[s - 1] \o [i \in 1 .. n |-> 1]) = SumOf(in_downstream_credit[s - 1]) + n
  BY <1>1, SumOfMore
<1> QED BY <1>3, <1>4 DEF CreditsUnderWay

\* Only the two links of a cache see its step.
LEMMA OccupiedStays ==
  ASSUME NEW k \in Requester, k + 1 = Memory => UNCHANGED ev_handle_mem_req,
         k + 1 # Memory => mshr'[k + 1].used = mshr[k + 1].used
  PROVE  Occupied(k + 1)' = Occupied(k + 1)
BY DEF Occupied

\* At the start every server's credits are its requester's.
LEMMA CreditsInit == Init => LinkCreditsConserved
<1> SUFFICES ASSUME Init, NEW l \in Requester PROVE LinkSum(l) = Given(l + 1)
  BY ConservedIs
<1> DEFINE credits == [s \in Server |-> IF s = Memory THEN 1 ELSE InitCredits[s]]
<1>1. PortsInit(credits) /\ CacheInit /\ MemoryInit
  BY DEF Init
<1>2. l + 1 \in Server /\ credits[l + 1] = Given(l + 1)
  BY LinkFacts DEF Given
<1>3. Given(l + 1) \in Nat
  BY LinkFacts, LevelFacts DEF Given
<1> HIDE DEF credits
<1>4. /\ next_level_credit[l] = 0 /\ in_access_req[l + 1] = << >>
      /\ in_downstream_credit[l] = <<Given(l + 1)>>
  BY <1>1, <1>2 DEF PortsInit
<1>5. CreditsUnderWay(l) = Given(l + 1)
  BY <1>3, <1>4, SumOfOne DEF CreditsUnderWay
<1>6. Occupied(l + 1) = 0
  <2>1. CASE l + 1 = Memory
    BY <1>1, <2>1 DEF Occupied, MemoryInit
  <2>2. CASE l + 1 # Memory
    <3>1. l + 1 \in Level
      BY <2>2, LinkFacts
    <3>2. mshr[l + 1].used = 0
      BY <1>1, <3>1, LevelFacts, NewMshrIsQueue DEF CacheInit
    <3> QED BY <2>2, <3>2 DEF Occupied
  <2> QED BY <2>1, <2>2
<1>7. Len(in_access_req[l + 1]) = 0
  BY <1>4
<1> QED BY <1>3, <1>4, <1>5, <1>6, <1>7 DEF LinkSum

\* A step that moves credits between the four places of a link, one link after
\* the other.
LEMMA LinkBalances ==
  ASSUME ChainInv, LinkCreditsConserved, NEW k \in Requester,
         NEW a \in Int, NEW b \in Int, NEW c \in Int, NEW d \in Int, a + b + c + d = 0,
         next_level_credit'[k] = next_level_credit[k] + a,
         CreditsUnderWay(k)' = CreditsUnderWay(k) + b,
         Len(in_access_req'[k + 1]) = Len(in_access_req[k + 1]) + c,
         Occupied(k + 1)' = Occupied(k + 1) + d
  PROVE  LinkSum(k)' = Given(k + 1)
<1>1. PICK n \in Nat, u \in Nat, r \in Nat, o \in Nat :
        /\ n = next_level_credit[k] /\ u = CreditsUnderWay(k)
        /\ r = Len(in_access_req[k + 1]) /\ o = Occupied(k + 1)
  BY LinkNumbers
<1>2. n + u + r + o = Given(k + 1)
  BY <1>1, ConservedIs DEF LinkSum
<1>3. (n + a) + (u + b) + (r + c) + (o + d) = n + u + r + o
  OBVIOUS
<1>4. LinkSum(k)' = (n + a) + (u + b) + (r + c) + (o + d)
  BY <1>1 DEF LinkSum
<1> QED BY <1>2, <1>3, <1>4

\* A link on which nothing moves.
LEMMA LinkRests ==
  ASSUME ChainInv, LinkCreditsConserved, NEW k \in Requester,
         next_level_credit'[k] = next_level_credit[k],
         in_downstream_credit'[k] = in_downstream_credit[k],
         in_access_req'[k + 1] = in_access_req[k + 1],
         Occupied(k + 1)' = Occupied(k + 1)
  PROVE  LinkSum(k)' = Given(k + 1)
<1>1. LinkSum(k)' = LinkSum(k)
  BY DEF LinkSum, CreditsUnderWay
<1>2. LinkSum(k) = Given(k + 1)
  BY ConservedIs
<1> QED BY <1>1, <1>2

\* A step after which every link's sum is what was given keeps the property.
LEMMA ConservedLater == (\A k \in Requester : LinkSum(k)' = Given(k + 1)) => LinkCreditsConserved'
BY DEF LinkCreditsConserved, LinkSum, Given

\* The requests of a link but one are as they were.
LEMMA OtherRequests ==
  ASSUME ChainInv, NEW s \in Server, NEW q, in_access_req' = [in_access_req EXCEPT ![s] = q]
  PROVE  /\ in_access_req'[s] = q /\ \A k \in Requester : k + 1 # s => in_access_req'[k + 1] = in_access_req[k + 1]
         /\ \A k \in Requester : k + 1 = s <=> k = s - 1
<1>1. in_access_req \in [Server -> Seq(Request)]
  BY DEF ChainInv, PortTypes
<1>2. \A k \in Requester : k + 1 \in Server
  BY LinkFacts
<1>3. \A k \in Requester : k + 1 = s <=> k = s - 1
  BY LinkFacts
<1> QED BY <1>1, <1>2, <1>3

\* The core spends a credit for the request it sends.
LEMMA CoreAskBalances ==
  ASSUME ChainInv, LinkCreditsConserved, NEW line \in Line, CoreAsk(line)
  PROVE  LinkCreditsConserved'
<1>1. PICK req : /\ next_level_credit' = [next_level_credit EXCEPT ![0] = @ - 1]
                 /\ in_access_req' = [in_access_req EXCEPT ![1] = Append(@, req)]
                 /\ UNCHANGED <<in_downstream_credit, cacheVars, ev_handle_mem_req>>
  BY DEF CoreAsk
<1>2. ASSUME NEW k \in Requester PROVE LinkSum(k)' = Given(k + 1)
  <2>1. Occupied(k + 1)' = Occupied(k + 1) /\ CreditsUnderWay(k)' = CreditsUnderWay(k)
    BY <1>1 DEF Occupied, CreditsUnderWay, cacheVars
  <2>2. /\ next_level_credit[k] \in Nat /\ CreditsUnderWay(k) \in Nat /\ Occupied(k + 1) \in Nat
        /\ in_access_req[k + 1] \in Seq(Request) /\ next_level_credit \in [Requester -> Nat]
    BY LinkNumbers DEF ChainInv, PortTypes
  <2>3. CASE k = 0
    <3>1. in_access_req'[k + 1] = Append(in_access_req[k + 1], req)
      <4>1. k + 1 = 1
        BY <2>3
      <4>2. in_access_req'[1] = Append(in_access_req[1], req)
        BY <1>1, LinkFacts, OtherRequests
      <4> QED BY <4>1, <4>2
    <3>2. Len(in_access_req'[k + 1]) = Len(in_access_req[k + 1]) + 1
      BY <2>2, <3>1
    <3>3. next_level_credit'[k] = next_level_credit[k] + (-1)
      BY <1>1, <2>2, <2>3
    <3>4. (-1) + 0 + 1 + 0 = 0 /\ -1 \in Int /\ 0 \in Int /\ 1 \in Int
      OBVIOUS
    <3>5. CreditsUnderWay(k)' = CreditsUnderWay(k) + 0 /\ Occupied(k + 1)' = Occupied(k + 1) + 0
      BY <2>1, <2>2
    <3> QED BY <3>2, <3>3, <3>4, <3>5, LinkBalances
  <2>4. CASE k # 0
    <3>1. in_access_req'[k + 1] = in_access_req[k + 1]
      BY <1>1, <2>4, LinkFacts, OtherRequests
    <3>2. next_level_credit'[k] = next_level_credit[k]
      BY <1>1, <2>2, <2>4
    <3> QED BY <1>1, <2>1, <3>1, <3>2, LinkRests
  <2> QED BY <2>3, <2>4
<1> QED BY <1>2, ConservedLater

\* Credits received are no longer under way.
LEMMA CreditBalances ==
  ASSUME ChainInv, LinkCreditsConserved, NEW l \in Requester, CreditStep(l)
  PROVE  LinkCreditsConserved'
<1>1. /\ in_downstream_credit[l] # << >>
      /\ next_level_credit' = [next_level_credit EXCEPT ![l] = @ + Head(in_downstream_credit[l])]
      /\ in_downstream_credit' = [in_downstream_credit EXCEPT ![l] = Tail(@)]
      /\ UNCHANGED <<in_access_req, cacheVars, ev_handle_mem_req>>
  BY DEF CreditStep, recvCredit
<1>2. ASSUME NEW k \in Requester PROVE LinkSum(k)' = Given(k + 1)
  <2>1. Occupied(k + 1)' = Occupied(k + 1) /\ in_access_req'[k + 1] = in_access_req[k + 1]
    BY <1>1 DEF Occupied, cacheVars
  <2>2. /\ next_level_credit[k] \in Nat /\ CreditsUnderWay(k) \in Nat /\ Occupied(k + 1) \in Nat
        /\ in_downstream_credit[k] \in Seq(Nat) /\ Len(in_access_req[k + 1]) \in Nat
    BY LinkNumbers
  <2>3. next_level_credit \in [Requester -> Nat] /\ in_downstream_credit \in [Requester -> Seq(Nat)]
    BY DEF ChainInv, PortTypes
  <2>4. CASE k = l
    <3>1. PICK h \in Nat : h = Head(in_downstream_credit[k])
      BY <1>1, <2>2, <2>4, HeadAndTail
    <3>2. next_level_credit'[k] = next_level_credit[k] + h
      BY <1>1, <2>3, <2>4, <3>1
    <3>3. CreditsUnderWay(k) = h + SumOf(Tail(in_downstream_credit[k]))
          /\ SumOf(Tail(in_downstream_credit[k])) \in Int
      BY <1>1, <2>2, <2>4, <3>1, SumOfTail DEF CreditsUnderWay
    <3>4. CreditsUnderWay(k)' = SumOf(Tail(in_downstream_credit[k]))
      BY <1>1, <2>3, <2>4 DEF CreditsUnderWay
    <3>5. CreditsUnderWay(k)' = CreditsUnderWay(k) + (-h)
      BY <3>3, <3>4
    <3>6. h + (-h) + 0 + 0 = 0 /\ h \in Int /\ -h \in Int /\ 0 \in Int
      OBVIOUS
    <3>7. Len(in_access_req'[k + 1]) = Len(in_access_req[k + 1]) + 0
          /\ Occupied(k + 1)' = Occupied(k + 1) + 0
      BY <2>1, <2>2
    <3> QED BY <3>2, <3>5, <3>6, <3>7, LinkBalances
  <2>5. CASE k # l
    <3>1. next_level_credit'[k] = next_level_credit[k] /\ in_downstream_credit'[k] = in_downstream_credit[k]
      BY <1>1, <2>3, <2>5
    <3> QED BY <2>1, <3>1, LinkRests
  <2> QED BY <2>4, <2>5
<1> QED BY <1>2, ConservedLater

\* The memory returns a credit for every request it takes.
LEMMA MemoryBalances ==
  ASSUME ChainInv, LinkCreditsConserved, MemoryStep
  PROVE  LinkCreditsConserved'
<1>1. ASSUME NEW k \in Requester, k + 1 # Memory PROVE Occupied(k + 1)' = Occupied(k + 1)
  BY <1>1 DEF Occupied, MemoryStep, cacheVars
<1>2. ASSUME NEW k \in Requester
      PROVE  /\ next_level_credit[k] \in Nat /\ CreditsUnderWay(k) \in Nat /\ Occupied(k + 1) \in Nat
             /\ Len(in_access_req[k + 1]) \in Nat /\ in_access_req[k + 1] \in Seq(Request)
  BY LinkNumbers
<1>3. ev_handle_mem_req \in Seq(Request) /\ Len(ev_handle_mem_req) \in Nat
  BY DEF ChainInv, OtherTypes
<1>4. ASSUME receive_mem_req, NEW k \in Requester PROVE LinkSum(k)' = Given(k + 1)
  <2>1. /\ in_access_req[Memory] # << >>
        /\ ev_handle_mem_req' = Append(ev_handle_mem_req, Head(in_access_req[Memory]))
        /\ in_access_req' = [in_access_req EXCEPT ![Memory] = Tail(@)]
        /\ UNCHANGED <<in_downstream_credit, next_level_credit>>
    BY <1>4 DEF receive_mem_req
  <2>2. CASE k + 1 = Memory
    <3>1. in_access_req'[k + 1] = Tail(in_access_req[k + 1])
      BY ZenonT(60), <2>1, <2>2, LinkFacts, OtherRequests
    <3>2. Len(in_access_req'[k + 1]) = Len(in_access_req[k + 1]) + (-1)
      BY <1>2, <2>1, <2>2, <3>1, HeadAndTail
    <3>3. Occupied(k + 1)' = Occupied(k + 1) + 1
      BY <1>3, <2>1, <2>2 DEF Occupied
    <3>4. 0 + 0 + (-1) + 1 = 0 /\ -1 \in Int /\ 0 \in Int /\ 1 \in Int
      OBVIOUS
    <3>5. CreditsUnderWay(k)' = CreditsUnderWay(k) + 0 /\ next_level_credit'[k] = next_level_credit[k] + 0
      BY <1>2, <2>1 DEF CreditsUnderWay
    <3> QED BY <3>2, <3>3, <3>4, <3>5, LinkBalances
  <2>3. CASE k + 1 # Memory
    <3>1. in_access_req'[k + 1] = in_access_req[k + 1]
      BY <2>1, <2>3, LinkFacts, OtherRequests
    <3> QED BY <1>1, <2>1, <2>3, <3>1, LinkRests
  <2> QED BY <2>2, <2>3
<1>5. ASSUME handle_mem_req, NEW k \in Requester PROVE LinkSum(k)' = Given(k + 1)
  <2>1. /\ ev_handle_mem_req # << >> /\ SendCredit(Memory, 1)
        /\ ev_handle_mem_req' = Tail(ev_handle_mem_req)
        /\ UNCHANGED <<in_access_req, next_level_credit>>
    BY <1>5 DEF handle_mem_req
  <2>2. /\ CreditsUnderWay(Memory - 1)' = CreditsUnderWay(Memory - 1) + 1
        /\ \A j \in Requester : j # Memory - 1 => CreditsUnderWay(j)' = CreditsUnderWay(j)
    BY <2>1, LinkFacts, SentCredits
  <2>3. k + 1 = Memory <=> k = Memory - 1
    BY LinkFacts
  <2>4. /\ next_level_credit'[k] = next_level_credit[k] + 0
        /\ Len(in_access_req'[k + 1]) = Len(in_access_req[k + 1]) + 0
    BY <1>2, <2>1
  <2>5. CASE k + 1 = Memory
    <3>1. Len(Tail(ev_handle_mem_req)) = Len(ev_handle_mem_req) + (-1)
      BY <1>3, <2>1, HeadAndTail
    <3>2. Occupied(k + 1)' = Occupied(k + 1) + (-1) /\ CreditsUnderWay(k)' = CreditsUnderWay(k) + 1
      BY <2>1, <2>2, <2>3, <2>5, <3>1 DEF Occupied
    <3>3. 0 + 1 + 0 + (-1) = 0 /\ -1 \in Int /\ 0 \in Int /\ 1 \in Int
      OBVIOUS
    <3> QED BY <2>4, <3>2, <3>3, LinkBalances
  <2>6. CASE k + 1 # Memory
    <3>1. Occupied(k + 1)' = Occupied(k + 1) + 0 /\ CreditsUnderWay(k)' = CreditsUnderWay(k) + 0
      BY <1>1, <1>2, <2>2, <2>3, <2>6
    <3>2. 0 + 0 + 0 + 0 = 0 /\ 0 \in Int
      OBVIOUS
    <3> QED BY <2>4, <3>1, <3>2, LinkBalances
  <2> QED BY <2>5, <2>6
<1> QED BY <1>4, <1>5, ConservedLater DEF MemoryStep

\* What a step of a cache may do to the link above it: only it and, for a round
\* of handleMshr, the link below see the step.
LEMMA FuncaccessBalances ==
  ASSUME ChainInv, LinkCreditsConserved, CreditsFit, NEW l \in Level, funcaccess(l),
         UNCHANGED ev_handle_mem_req
  PROVE  LinkCreditsConserved' /\ failed' = failed
<1>1. /\ in_access_req[l] # << >> /\ UNCHANGED next_level_credit
      /\ in_access_req' = [in_access_req EXCEPT ![l] = Tail(@)]
  BY DEF funcaccess
<1>2. PICK req : PerfectAccess(l, req) \/ Hit(l, req) \/ Miss(l, req)
  BY DEF funcaccess
<1>3. l \in Server /\ l # Memory /\ l - 1 \in Requester /\ (l - 1) + 1 = l
  BY LevelFacts, LinkFacts
<1>4. ASSUME NEW k \in Requester
      PROVE  /\ next_level_credit[k] \in Nat /\ CreditsUnderWay(k) \in Nat /\ Occupied(k + 1) \in Nat
             /\ Len(in_access_req[k + 1]) \in Nat /\ in_access_req[k + 1] \in Seq(Request)
  BY LinkNumbers
<1>5. /\ Len(in_access_req'[l]) = Len(in_access_req[l]) + (-1)
      /\ \A k \in Requester : k # l - 1 => in_access_req'[k + 1] = in_access_req[k + 1]
  <2>1. in_access_req[l] \in Seq(Request)
    BY <1>3, <1>4
  <2>2. PICK q : q = Tail(in_access_req[l])
    OBVIOUS
  <2>3. Len(q) = Len(in_access_req[l]) + (-1)
    BY <1>1, <2>1, <2>2, HeadAndTail
  <2>4. in_access_req' = [in_access_req EXCEPT ![l] = q]
    BY <1>1, <2>2
  <2> QED BY <1>3, <2>3, <2>4, OtherRequests
\* One request has left the port; its credit is on its way or it has an entry.
<1>6. ASSUME NEW b \in 0 .. 1, CreditsUnderWay(l - 1)' = CreditsUnderWay(l - 1) + b,
             Occupied(l)' = Occupied(l) + (1 - b),
             \A k \in Requester : k # l - 1 => in_downstream_credit'[k] = in_downstream_credit[k],
             \A k \in Level : k # l => mshr'[k] = mshr[k]
      PROVE  LinkCreditsConserved'
  <2>1. ASSUME NEW k \in Requester, k # l - 1 PROVE LinkSum(k)' = Given(k + 1)
    <3>1. k + 1 # l
      BY <2>1, LinkFacts, <1>3
    <3>2. Occupied(k + 1)' = Occupied(k + 1)
      BY <1>6, <3>1, LinkFacts DEF Occupied
    <3> QED BY <1>1, <1>5, <1>6, <2>1, <3>2, LinkRests
  <2>2. LinkSum(l - 1)' = Given((l - 1) + 1)
    <3>1. 0 + b + (-1) + (1 - b) = 0 /\ 0 \in Int /\ b \in Int /\ -1 \in Int /\ 1 - b \in Int
      OBVIOUS
    <3>2. next_level_credit'[l - 1] = next_level_credit[l - 1] + 0
      BY <1>1, <1>3, <1>4
    <3> QED BY <1>3, <1>5, <1>6, <3>1, <3>2, LinkBalances
  <2> QED BY <2>1, <2>2, ConservedLater
<1>7. \A k \in Requester : k # l - 1 /\ SendCredit(l, 1) => in_downstream_credit'[k] = in_downstream_credit[k]
  BY DEF SendCredit, ChainInv, PortTypes
<1>8. ASSUME SendCredit(l, 1), UNCHANGED mshr PROVE LinkCreditsConserved'
  <2>1. CreditsUnderWay(l - 1)' = CreditsUnderWay(l - 1) + 1
    BY <1>3, <1>8, SentCredits
  <2>2. Occupied(l)' = Occupied(l) + (1 - 1)
    <3>1. Occupied(l) \in Nat
      BY <1>3, <1>4
    <3>2. Occupied(l)' = Occupied(l)
      BY <1>8 DEF Occupied
    <3> QED BY <3>1, <3>2
  <2> QED BY <1>6, <1>7, <1>8, <2>1, <2>2
<1>9. CASE PerfectAccess(l, req)
  BY <1>8, <1>9 DEF PerfectAccess, cacheVars
<1>10. CASE Hit(l, req)
  <2>1. MshrAvail(mshr[l])
    BY <1>1, <1>10, PlaceIsFree DEF Hit
  <2> QED BY <1>8, <1>10, <2>1 DEF Hit
<1>11. CASE Miss(l, req)
  <2>1. MshrAvail(mshr[l])
    BY <1>1, <1>11, PlaceIsFree DEF Miss
  <2>2. /\ mshr' = [mshr EXCEPT ![l] = Allocate(@, [req EXCEPT !.mshrid = mshr[l].tail])]
        /\ UNCHANGED <<failed, in_downstream_credit>>
    BY <1>11, <2>1 DEF Miss
  <2>3. mshr = [k \in Level |-> mshr[k]] /\ MissQueue(MshrSize[l], mshr[l]) /\ MshrSize[l] \in Nat \ {0}
    BY QueueFacts DEF MissQueues
  <2>4. mshr'[l].used = mshr[l].used + 1
    <3>1. mshr'[l] = Allocate(mshr[l], [req EXCEPT !.mshrid = mshr[l].tail])
      BY <2>2, <2>3
    <3>2. mshr[l] \in MshrType(MshrSize[l])
      BY <2>3 DEF MissQueue
    <3> QED BY <3>1, <3>2 DEF Allocate, MshrType
  <2>5. \A k \in Level : k # l => mshr'[k] = mshr[k]
    BY <2>2, <2>3
  <2>6. Occupied(l)' = Occupied(l) + (1 - 0)
    BY <1>3, <2>4 DEF Occupied
  <2>7. CreditsUnderWay(l - 1)' = CreditsUnderWay(l - 1) + 0
    BY <1>3, <1>4, <2>2 DEF CreditsUnderWay
  <2> QED BY <1>6, <2>2, <2>5, <2>6, <2>7
<1> QED BY <1>2, <1>9, <1>10, <1>11

\* The credits stay where they are, and so do the requests and the entries.
LEMMA NothingMoves ==
  ASSUME ChainInv, LinkCreditsConserved, UNCHANGED ev_handle_mem_req,
         UNCHANGED <<in_access_req, in_downstream_credit, next_level_credit>>,
         \A k \in Level : mshr'[k].used = mshr[k].used
  PROVE  LinkCreditsConserved'
<1>1. ASSUME NEW k \in Requester PROVE LinkSum(k)' = Given(k + 1)
  <2>1. Occupied(k + 1)' = Occupied(k + 1)
    BY LinkFacts DEF Occupied
  <2> QED BY <2>1, LinkRests
<1> QED BY <1>1, ConservedLater

\* An answer moves no credit.
LEMMA RecvRespBalances ==
  ASSUME ChainInv, LinkCreditsConserved, NEW l \in Level, recvResp(l), UNCHANGED ev_handle_mem_req
  PROVE  LinkCreditsConserved' /\ (failed' # "mshr_avail" \/ failed' = failed)
<1>1. UNCHANGED <<in_access_req, in_downstream_credit, next_level_credit>>
  BY DEF recvResp
<1>2. mshr = [k \in Level |-> mshr[k]] /\ mshr[l] \in MshrType(MshrSize[l])
  BY QueueFacts DEF MissQueues, MissQueue
<1>3. \/ UNCHANGED mshr
      \/ \E id, status : mshr' = [mshr EXCEPT ![l] = SetStatus(mshr[l], id, status)]
  BY DEF recvResp, mshrRecvResp, cacheVars
<1>4. \A k \in Level : mshr'[k].used = mshr[k].used
  <2>1. CASE UNCHANGED mshr
    BY <2>1
  <2>2. ASSUME NEW id, NEW status, mshr' = [mshr EXCEPT ![l] = SetStatus(mshr[l], id, status)]
        PROVE  \A k \in Level : mshr'[k].used = mshr[k].used
    <3>1. mshr'[l] = SetStatus(mshr[l], id, status) /\ \A k \in Level : k # l => mshr'[k] = mshr[k]
      BY <1>2, <2>2
    <3>2. SetStatus(mshr[l], id, status).used = mshr[l].used
      BY <1>2 DEF SetStatus, MshrType
    <3> QED BY <3>1, <3>2
  <2> QED BY <1>3, <2>1, <2>2
<1>5. LinkCreditsConserved'
  BY <1>1, <1>4, NothingMoves
<1>6. failed' # "mshr_avail" \/ failed' = failed
  BY DEF recvResp, mshrRecvResp, Fail
<1> QED BY <1>5, <1>6

\* A round of handleMshr spends a credit for the request it sends, or none.
LEMMA HandleMshrBalances ==
  ASSUME ChainInv, LinkCreditsConserved, NEW l \in Level, handleMshr(l), UNCHANGED ev_handle_mem_req
  PROVE  LinkCreditsConserved'
<1>1. PICK m : m = mshrDeallocate(mshr[l])
  OBVIOUS
<1>2. SendCredit(l, mshr[l].used - m.used)
  BY <1>1 DEF handleMshr
<1>3. /\ MissQueue(MshrSize[l], m) /\ MshrSize[l] \in Nat \ {0} /\ mshr[l].used - m.used \in Nat
      /\ m.used \in Nat /\ mshr[l].used \in Nat
  BY <1>1, QueueFacts, AfterWalk, MissQueueFields
<1>4. PICK d \in Nat : d = mshr[l].used - m.used
  BY <1>3
<1>5. l \in Server /\ l # Memory /\ l - 1 \in Requester /\ (l - 1) + 1 = l /\ l \in Requester
      /\ l # l - 1 /\ l + 1 \in Server /\ l + 1 # l
  BY LevelFacts, LinkFacts
<1>6. ASSUME NEW k \in Requester
      PROVE  /\ next_level_credit[k] \in Nat /\ CreditsUnderWay(k) \in Nat /\ Occupied(k + 1) \in Nat
             /\ Len(in_access_req[k + 1]) \in Nat /\ in_access_req[k + 1] \in Seq(Request)
  BY LinkNumbers
<1>7. /\ CreditsUnderWay(l - 1)' = CreditsUnderWay(l - 1) + d
      /\ \A k \in Requester : k # l - 1 => CreditsUnderWay(k)' = CreditsUnderWay(k)
  BY <1>2, <1>4, <1>5, SentCredits
\* The queue has d entries less, and n requests have gone down.
<1>8. ASSUME NEW m3, mshr' = [mshr EXCEPT ![l] = m3], m3.used = m.used,
             NEW n \in Nat,
             next_level_credit'[l] = next_level_credit[l] + (-n),
             \A k \in Requester : k # l => next_level_credit'[k] = next_level_credit[k],
             Len(in_access_req'[l + 1]) = Len(in_access_req[l + 1]) + n,
             \A k \in Requester : k # l => in_access_req'[k + 1] = in_access_req[k + 1]
      PROVE  LinkCreditsConserved'
  <2>1. mshr'[l].used = m.used /\ \A k \in Level : k # l => mshr'[k] = mshr[k]
    BY <1>8, QueueFacts DEF MissQueues
  <2>2. Occupied(l)' = Occupied(l) + (-d)
    BY <1>3, <1>4, <1>5, <2>1 DEF Occupied
  <2>3. ASSUME NEW k \in Requester, k # l - 1 PROVE Occupied(k + 1)' = Occupied(k + 1) + 0
    <3>1. k + 1 # l
      BY <1>5, <2>3, LinkFacts
    <3>2. Occupied(k + 1)' = Occupied(k + 1)
      BY <2>1, <3>1, LinkFacts DEF Occupied
    <3> QED BY <1>6, <3>2
  <2>4. LinkSum(l - 1)' = Given((l - 1) + 1)
    <3>1. 0 + d + 0 + (-d) = 0 /\ 0 \in Int /\ d \in Int /\ -d \in Int
      OBVIOUS
    <3>2. /\ next_level_credit'[l - 1] = next_level_credit[l - 1] + 0
          /\ Len(in_access_req'[(l - 1) + 1]) = Len(in_access_req[(l - 1) + 1]) + 0
      BY <1>5, <1>6, <1>8
    <3> QED BY <1>5, <1>7, <2>2, <3>1, <3>2, LinkBalances
  <2>5. LinkSum(l)' = Given(l + 1)
    <3>1. (-n) + 0 + n + 0 = 0 /\ 0 \in Int /\ n \in Int /\ -n \in Int
      OBVIOUS
    <3>2. CreditsUnderWay(l)' = CreditsUnderWay(l) + 0
      BY <1>5, <1>6, <1>7
    <3> QED BY <1>5, <1>8, <2>3, <3>1, <3>2, LinkBalances
  <2>6. ASSUME NEW k \in Requester, k # l, k # l - 1 PROVE LinkSum(k)' = Given(k + 1)
    <3>1. 0 + 0 + 0 + 0 = 0 /\ 0 \in Int
      OBVIOUS
    <3>2. /\ next_level_credit'[k] = next_level_credit[k] + 0
          /\ CreditsUnderWay(k)' = CreditsUnderWay(k) + 0
          /\ Len(in_access_req'[k + 1]) = Len(in_access_req[k + 1]) + 0
      BY <1>6, <1>7, <1>8, <2>6
    <3> QED BY <2>3, <2>6, <3>1, <3>2, LinkBalances
  <2> QED BY <1>5, <2>4, <2>5, <2>6, ConservedLater
<1>9. ASSUME NEW status \in {"SEND_REQ", "REFILL", "EVICT"}, m.used > 0
      PROVE  SetStatus(m, m.header, status).used = m.used
  BY <1>3, <1>9, SetStatusKeeps DEF MshrStatus
<1>10. next_level_credit \in [Requester -> Nat]
  BY DEF ChainInv, PortTypes
<1>11. CASE Rests(l, m) \/ Refills(l, m)
  <2>1. UNCHANGED <<in_access_req, next_level_credit>>
    BY <1>11 DEF Rests, Refills
  <2>2. PICK m3 : mshr' = [mshr EXCEPT ![l] = m3] /\ m3.used = m.used
    BY <1>9, <1>11 DEF Rests, Refills
  <2>3. /\ next_level_credit'[l] = next_level_credit[l] + (-0)
        /\ Len(in_access_req'[l + 1]) = Len(in_access_req[l + 1]) + 0
    BY <1>5, <1>6, <2>1
  <2> QED BY <1>8, <2>1, <2>2, <2>3
<1>12. CASE Sends(l, m)
  <2>1. PICK m3 : mshr' = [mshr EXCEPT ![l] = m3] /\ m3.used = m.used
    BY <1>9, <1>12 DEF Sends
  <2>2. /\ next_level_credit'[l] = next_level_credit[l] + (-1)
        /\ \A k \in Requester : k # l => next_level_credit'[k] = next_level_credit[k]
    <3>1. next_level_credit' = [next_level_credit EXCEPT ![l] = @ - 1]
      BY <1>12 DEF Sends
    <3> QED BY <1>5, <1>10, <3>1
  <2>3. /\ in_access_req'[l + 1] = Append(in_access_req[l + 1], HeaderOf(m).req)
        /\ \A k \in Requester : k # l => in_access_req'[k + 1] = in_access_req[k + 1]
    <3>1. in_access_req' = [in_access_req EXCEPT ![l + 1] = Append(@, HeaderOf(m).req)]
      BY <1>12 DEF Sends
    <3>2. \A k \in Requester : k # l => k + 1 # l + 1
      BY LinkFacts, <1>5
    <3> QED BY <1>5, <3>1, <3>2, OtherRequests
  <2>4. Len(in_access_req'[l + 1]) = Len(in_access_req[l + 1]) + 1
    BY <1>5, <1>6, <2>3
  <2> QED BY <1>8, <2>1, <2>2, <2>3, <2>4
<1>13. CASE Evicts(l, m)
  <2>1. PICK m3 : mshr' = [mshr EXCEPT ![l] = m3] /\ m3.used = m.used
    BY <1>9, <1>13 DEF Evicts
  <2>2. PICK n \in 0 .. 1 :
          /\ in_access_req' = [in_access_req EXCEPT ![l + 1] = @ \o [i \in 1 .. n |-> WriteBack]]
          /\ next_level_credit' = [next_level_credit EXCEPT ![l] = @ - n]
    BY <1>13 DEF Evicts
  <2>3. /\ next_level_credit'[l] = next_level_credit[l] + (-n)
        /\ \A k \in Requester : k # l => next_level_credit'[k] = next_level_credit[k]
    BY <1>5, <1>10, <2>2
  <2>4. /\ in_access_req'[l + 1] = in_access_req[l + 1] \o [i \in 1 .. n |-> WriteBack]
        /\ \A k \in Requester : k # l => in_access_req'[k + 1] = in_access_req[k + 1]
    <3>1. \A k \in Requester : k # l => k + 1 # l + 1
      BY LinkFacts, <1>5
    <3> QED BY <1>5, <2>2, <3>1, OtherRequests
  <2>5. Len(in_access_req'[l + 1]) = Len(in_access_req[l + 1]) + n
    <3>1. ASSUME NEW s \in Seq(Request) PROVE Len(s \o [i \in 1 .. n |-> WriteBack]) = Len(s) + n
      OBVIOUS
    <3> QED BY <1>5, <1>6, <2>4, <3>1
  <2>6. n \in Nat
    OBVIOUS
  <2> QED BY <1>8, <2>1, <2>3, <2>4, <2>5, <2>6
<1> QED BY <1>1, <1>11, <1>12, <1>13, RoundOnHeader

\* With no more credits than entries, the credits are conserved and a miss
\* always finds an entry.
CreditInv == ChainInv /\ LinkCreditsConserved /\ failed # "mshr_avail"

\* Every step keeps CreditInv.
LEMMA CreditStepKeeps == CreditsFit /\ CreditInv /\ [Next]_vars => CreditInv'
<1> SUFFICES ASSUME CreditsFit, ChainInv, LinkCreditsConserved, failed # "mshr_avail", [Next]_vars
             PROVE  CreditInv'
  BY DEF CreditInv
<1>1. ChainInv'
  BY ChainStep
<1>2. ASSUME LinkCreditsConserved', failed' = failed \/ failed' # "mshr_avail" PROVE CreditInv'
  BY <1>1, <1>2 DEF CreditInv
<1>3. ASSUME NEW line \in Line, CoreAsk(line) PROVE CreditInv'
  BY <1>2, <1>3, CoreAskBalances DEF CoreAsk
<1>4. ASSUME CoreRecvResp PROVE CreditInv'
  <2>1. /\ UNCHANGED <<in_access_req, in_downstream_credit, next_level_credit, failed>>
        /\ UNCHANGED mshr /\ UNCHANGED ev_handle_mem_req
    BY <1>4 DEF CoreRecvResp, cacheVars
  <2> QED BY <1>2, <2>1, NothingMoves
<1>5. ASSUME MemoryStep PROVE CreditInv'
  <2>1. UNCHANGED failed
    BY <1>5 DEF MemoryStep, receive_mem_req, handle_mem_req
  <2> QED BY <1>2, <1>5, <2>1, MemoryBalances
<1>6. ASSUME NEW l \in Requester, CreditStep(l) PROVE CreditInv'
  <2>1. UNCHANGED failed
    BY <1>6 DEF CreditStep, recvCredit
  <2> QED BY <1>2, <1>6, <2>1, CreditBalances
<1>7. ASSUME NEW l \in Level, CacheStep(l) PROVE CreditInv'
  <2>1. UNCHANGED ev_handle_mem_req
    BY <1>7 DEF CacheStep
  <2>2. CASE funcaccess(l)
    BY <1>2, <2>1, <2>2, FuncaccessBalances
  <2>3. CASE recvResp(l)
    BY <1>2, <2>1, <2>3, RecvRespBalances
  <2>4. CASE handleMshr(l)
    BY <1>2, <2>1, <2>4, HandleMshrBalances DEF handleMshr
  <2>5. CASE OverrunMshr(l)
    <3>1. UNCHANGED <<in_access_req, in_downstream_credit, next_level_credit>> /\ UNCHANGED mshr
          /\ failed' # "mshr_avail"
      BY <2>5 DEF OverrunMshr, cacheVars, Fail
    <3> QED BY <1>2, <2>1, <3>1, NothingMoves
  <2>6. CASE outRespArbiter(l)
    <3>1. UNCHANGED <<in_access_req, in_downstream_credit, next_level_credit>> /\ UNCHANGED mshr
          /\ failed' = failed
      BY <2>6 DEF outRespArbiter
    <3> QED BY <1>2, <2>1, <3>1, NothingMoves
  <2> QED BY <1>7, <2>2, <2>3, <2>4, <2>5, <2>6 DEF CacheStep
<1>8. ASSUME UNCHANGED vars PROVE CreditInv'
  <2>1. /\ UNCHANGED <<in_access_req, in_downstream_credit, next_level_credit, failed>>
        /\ UNCHANGED mshr /\ UNCHANGED ev_handle_mem_req
    BY <1>8 DEF vars, portVars, cacheVars
  <2> QED BY <1>2, <2>1, NothingMoves
<1> QED BY <1>3, <1>4, <1>5, <1>6, <1>7, <1>8 DEF Next, CoreStep, Handlers

\* On every link no credit is lost and none is made, for every chain in which no
\* cache but a perfect one gives out more credits than it has miss entries.
THEOREM CreditsAreConserved == ASSUME CreditsFit PROVE Spec => []LinkCreditsConserved
<1>1. Init => CreditInv
  BY ChainInit, CreditsInit DEF CreditInv, Init, PortsInit, None
<1>2. CreditInv /\ [Next]_vars => CreditInv'
  BY CreditStepKeeps
<1>3. CreditInv => LinkCreditsConserved
  BY DEF CreditInv
<1> QED BY <1>1, <1>2, <1>3, PTL DEF Spec

\* The assertion mshr_avail of funcaccess: under the same condition a request
\* that misses finds a free entry; the credits keep requests from a cache whose
\* miss queue is full.
THEOREM MissesFindEntries == ASSUME CreditsFit PROVE Spec => [](failed # "mshr_avail")
<1>1. Init => CreditInv
  BY ChainInit, CreditsInit DEF CreditInv, Init, PortsInit, None
<1>2. CreditInv /\ [Next]_vars => CreditInv'
  BY CreditStepKeeps
<1>3. CreditInv => failed # "mshr_avail"
  BY DEF CreditInv
<1> QED BY <1>1, <1>2, <1>3, PTL DEF Spec

-----------------------------------------------------------------------------
(* The chain as the parameters default: one credit and one miss entry per  *)
(* cache, more than one way, and the last cache alone above the memory.    *)

DefaultChain ==
    /\ PerfectLevel = {}
    /\ AboveMemory = {LevelNum}
    /\ \A l \in Level : MshrSize[l] = 1 /\ InitCredits[l] = 1 /\ WayNum[l] > 1

\* The only entry of a miss queue.
Entry(l) == mshr[l].queue[0]

\* The responses on their way to a cache from the server below it.
Stream(l) == in_access_resp[l] \o (IF l + 1 = Memory THEN << >> ELSE out_resp_queue[l + 1])

\* The requests of a cache that the server below has not begun to answer.
Pending(s) ==
    Len(in_access_req[s]) +
        (IF s = Memory THEN Len(ev_handle_mem_req)
         ELSE IF Entry(s).status \in {"ALLOCATE", "SEND_REQ"} THEN 1 ELSE 0)

\* The server has sent the critical segment and waits for the others itself.
Half(s) == s # Memory /\ Entry(s).status = "RECV_CRITICAL_SEG"

\* The last segments of a line, in order.
LastSegments(q) ==
    /\ Len(q) <= SegNum
    /\ \A i \in 1 .. Len(q) : q[i].subindex = SegNum - Len(q) + i - 1

\* A cache waits for exactly what the server below has still to give: its
\* status st, the requests n not yet answered, whether the server is half way,
\* and the responses q on their way fit together.  The cache above the memory
\* gets a line in one piece.
LinkFits(last, st, n, half, q) ==
    \/ /\ st = "SEND_REQ"
       /\ \/ n = 1 /\ ~half /\ q = << >>
          \/ ~last /\ n = 0 /\ half /\ Len(q) = 1 /\ q[1].subindex = 0
          \/ n = 0 /\ ~half /\ IF last THEN Len(q) = 1 ELSE Len(q) = SegNum /\ LastSegments(q)
    \/ /\ st = "RECV_CRITICAL_SEG" /\ ~last /\ n = 0
       /\ \/ half /\ q = << >>
          \/ ~half /\ Len(q) < SegNum /\ LastSegments(q)
    \/ st \notin {"SEND_REQ", "RECV_CRITICAL_SEG"} /\ n = 0 /\ ~half /\ q = << >>

LinkInv(l) == LinkFits(l = LevelNum, Entry(l).status, Pending(l + 1), Half(l + 1), Stream(l))

\* No cache writes anything but 0 into mshrid, and only responses are segments.
Answer == [id : 0 .. ReqNum, line : Line, mshrid : {0}, subindex : 0 .. SegNum - 1]
Question == [id : 0 .. ReqNum, line : Line, mshrid : {0}, subindex : {0}]

IdsAreZero ==
    /\ in_access_req \in [Server -> Seq(Question)]
    /\ in_access_resp \in [Requester -> Seq(Answer)]
    /\ out_resp_queue \in [Level -> Seq(Answer)]
    /\ ev_handle_mem_req \in Seq(Question)
    /\ \A l \in Level : Entry(l).req \in Question

PortInv ==
    /\ CreditInv
    /\ Running
    /\ IdsAreZero
    /\ \A l \in Level : LinkInv(l)

-----------------------------------------------------------------------------
(* Sequences of responses.                                                 *)

\* A response that is taken from a port, one that goes from a cache's queue to
\* its port, and responses that join the queue.
LEMMA StreamTaken ==
  ASSUME NEW S, NEW a \in Seq(S), NEW b \in Seq(S), a # << >>
  PROVE  /\ Tail(a) \o b = Tail(a \o b) /\ Head(a \o b) = Head(a) /\ a \o b # << >>
         /\ a \o b \in Seq(S)
<1>1. /\ a \o b \in Seq(S) /\ Len(a \o b) = Len(a) + Len(b) /\ Len(a) \in Nat \ {0} /\ Len(b) \in Nat
      /\ Tail(a) \in Seq(S) /\ Len(Tail(a)) = Len(a) - 1
  BY HeadAndTail
<1>2. a \o b # << >> /\ Head(a \o b) = Head(a)
  BY <1>1
<1>3. Tail(a \o b) \in Seq(S) /\ Len(Tail(a \o b)) = Len(a) + Len(b) - 1
  BY <1>1, <1>2, HeadAndTail
<1>4. Tail(a) \o b \in Seq(S) /\ Len(Tail(a) \o b) = Len(a) + Len(b) - 1
  BY <1>1
<1>5. ASSUME NEW i \in 1 .. Len(a) + Len(b) - 1 PROVE (Tail(a) \o b)[i] = Tail(a \o b)[i]
  <2>1. Tail(a \o b)[i] = (a \o b)[i + 1]
    BY <1>1, <1>2, HeadAndTail
  <2>2. CASE i <= Len(a) - 1
    <3>1. (Tail(a) \o b)[i] = Tail(a)[i] /\ Tail(a)[i] = a[i + 1]
      BY <1>1, <2>2, HeadAndTail
    <3>2. (a \o b)[i + 1] = a[i + 1]
      BY <1>1, <2>2
    <3> QED BY <2>1, <3>1, <3>2
  <2>3. CASE ~(i <= Len(a) - 1)
    <3>1. (Tail(a) \o b)[i] = b[i - (Len(a) - 1)]
      BY <1>1, <2>3
    <3>2. (a \o b)[i + 1] = b[(i + 1) - Len(a)]
      BY <1>1, <2>3
    <3>3. i - (Len(a) - 1) = (i + 1) - Len(a)
      BY <1>1
    <3> QED BY <2>1, <3>1, <3>2, <3>3
  <2> QED BY <2>2, <2>3
<1> QED BY <1>2, <1>3, <1>4, <1>5, <1>1, SeqEqual

\* An answer passed from a level's queue to its port stays where it is in the
\* stream.
LEMMA StreamPassed ==
  ASSUME NEW S, NEW a \in Seq(S), NEW b \in Seq(S), b # << >>
  PROVE  Append(a, Head(b)) \o Tail(b) = a \o b
<1>1. /\ Head(b) \in S /\ Tail(b) \in Seq(S) /\ Len(b) \in Nat \ {0} /\ Len(Tail(b)) = Len(b) - 1
      /\ Head(b) = b[1] /\ \A i \in 1 .. Len(b) - 1 : Tail(b)[i] = b[i + 1]
  BY HeadAndTail
<1>2. PICK c \in Seq(S) : c = Append(a, Head(b))
  <2>1. Append(a, Head(b)) \in Seq(S)
    BY <1>1
  <2> QED BY <2>1
<1>3. /\ Len(c) = Len(a) + 1 /\ Len(a) \in Nat /\ c[Len(a) + 1] = b[1]
      /\ \A i \in 1 .. Len(a) : c[i] = a[i]
  BY <1>1, <1>2
<1>4. /\ c \o Tail(b) \in Seq(S) /\ Len(c \o Tail(b)) = Len(a) + Len(b)
      /\ a \o b \in Seq(S) /\ Len(a \o b) = Len(a) + Len(b)
  BY <1>1, <1>3
<1>5. ASSUME NEW i \in 1 .. Len(a) + Len(b) PROVE (c \o Tail(b))[i] = (a \o b)[i]
  <2>1. CASE i <= Len(a)
    BY <2>1, <1>1, <1>3
  <2>2. CASE i = Len(a) + 1
    BY <2>2, <1>1, <1>3
  <2>3. CASE i > Len(a) + 1
    <3>1. (c \o Tail(b))[i] = Tail(b)[i - (Len(a) + 1)] /\ (a \o b)[i] = b[i - Len(a)]
      BY <2>3, <1>1, <1>3
    <3>2. i - (Len(a) + 1) \in 1 .. Len(b) - 1 /\ (i - (Len(a) + 1)) + 1 = i - Len(a)
      BY <2>3, <1>1, <1>3
    <3> QED BY <1>1, <3>1, <3>2
  <2> QED BY <1>1, <1>3, <2>1, <2>2, <2>3
<1> QED BY <1>2, <1>3, <1>4, <1>5, SeqEqual

\* The parts of a stream, regrouped.
LEMMA StreamJoined ==
  ASSUME NEW S, NEW a \in Seq(S), NEW b \in Seq(S), NEW c \in Seq(S)
  PROVE  a \o (b \o c) = (a \o b) \o c /\ a \o b \in Seq(S) /\ b \o c \in Seq(S)
BY SMTT(60), ConcatAssociative

\* The segments that follow the first ones.
LEMMA SegmentsFields ==
  ASSUME NEW req \in Request, NEW from \in 0 .. 1
  PROVE  /\ Segments(req, from) \in Seq(Request) /\ Len(Segments(req, from)) = SegNum - from
         /\ \A i \in 1 .. SegNum - from : Segments(req, from)[i].subindex = from + i - 1
<1>1. SegNum \in Nat \ {0} /\ SegNum - from \in Nat
  BY UncoreAssumption
<1>2. \A i \in 1 .. SegNum - from : from + i - 1 \in 0 .. SegNum - 1
  BY <1>1
<1>3. \A n \in 0 .. SegNum - 1 : /\ [req EXCEPT !.subindex = n] \in Request
                                 /\ [req EXCEPT !.subindex = n].subindex = n
  BY DEF Request
<1>4. PICK n \in Nat : n = SegNum - from
  BY <1>1
<1>5. PICK f : f = [i \in 1 .. n |-> [req EXCEPT !.subindex = from + i - 1]]
  OBVIOUS
<1>6. \A i \in 1 .. n : f[i] \in Request /\ f[i].subindex = from + i - 1
  BY <1>2, <1>3, <1>4, <1>5
<1>7. f \in [1 .. n -> Request]
  BY <1>5, <1>6
<1>8. f \in Seq(Request) /\ Len(f) = n
  BY <1>7
<1> QED BY <1>4, <1>5, <1>6, <1>8 DEF Segments

-----------------------------------------------------------------------------
(* The states of a link, and what each kind of step does to them.          *)

\* The entry asks below: one request is now pending.
LEMMA FitsAsked ==
  ASSUME NEW last, NEW n, NEW half, NEW q, LinkFits(last, "ALLOCATE", n, half, q)
  PROVE  n = 0 /\ LinkFits(last, "SEND_REQ", 1, half, q)
BY DEF LinkFits

\* Outside the two statuses that await an answer, one status fits as another
\* does.
LEMMA FitsElsewhere ==
  ASSUME NEW last, NEW st, NEW t, NEW n, NEW half, NEW q, LinkFits(last, st, n, half, q),
         st \notin {"SEND_REQ", "RECV_CRITICAL_SEG"}, t \notin {"SEND_REQ", "RECV_CRITICAL_SEG"}
  PROVE  LinkFits(last, t, n, half, q)
BY DEF LinkFits

\* Only a cache that has asked has a request below it.
LEMMA FitsPending ==
  ASSUME NEW last, NEW st, NEW n \in Nat, NEW half, NEW q, LinkFits(last, st, n, half, q), n # 0
  PROVE  st = "SEND_REQ" /\ n = 1 /\ ~half /\ q = << >>
BY DEF LinkFits

\* The level below answers with all segments at once.
LEMMA FitsAnswered ==
  ASSUME NEW st, NEW q, LinkFits(FALSE, st, 1, FALSE, q), NEW req \in Request
  PROVE  LinkFits(FALSE, st, 0, FALSE, q \o Segments(req, 0))
<1>1. st = "SEND_REQ" /\ q = << >>
  BY DEF LinkFits
<1>2. PICK g \in Seq(Request) : g = Segments(req, 0)
  BY SegmentsFields
<1>3. q \o g = g
  BY <1>1, <1>2
<1>4. SegNum \in Nat /\ Len(g) = SegNum /\ \A i \in 1 .. SegNum : g[i].subindex = i - 1
  BY SMTT(60), <1>2, SegmentsFields, UncoreAssumption
<1>5. LastSegments(g)
  BY <1>4 DEF LastSegments
<1> QED BY <1>1, <1>2, <1>3, <1>4, <1>5 DEF LinkFits

\* The level below answers with the critical segment first.
LEMMA FitsFirst ==
  ASSUME NEW st, NEW q, LinkFits(FALSE, st, 1, FALSE, q), NEW req \in Request
  PROVE  LinkFits(FALSE, st, 0, TRUE, q \o <<[req EXCEPT !.subindex = 0]>>)
<1>1. st = "SEND_REQ" /\ q = << >>
  BY DEF LinkFits
<1>2. PICK r : r = [req EXCEPT !.subindex = 0]
  OBVIOUS
<1>3. r.subindex = 0
  BY <1>2 DEF Request
<1>4. q \o <<r>> = <<r>> /\ Len(<<r>>) = 1 /\ <<r>>[1] = r
  BY <1>1
<1> QED BY <1>1, <1>2, <1>3, <1>4 DEF LinkFits

\* ... and then with the others.
LEMMA FitsOthers ==
  ASSUME NEW st, NEW q \in Seq(Request), LinkFits(FALSE, st, 0, TRUE, q), NEW req \in Request
  PROVE  LinkFits(FALSE, st, 0, FALSE, q \o Segments(req, 1))
<1>1. PICK g \in Seq(Request) : g = Segments(req, 1)
  BY SegmentsFields
<1>2. /\ SegNum \in Nat \ {0} /\ Len(g) = SegNum - 1
      /\ \A i \in 1 .. SegNum - 1 : g[i].subindex = i
  <2>1. SegNum \in Nat \ {0} /\ Len(g) = SegNum - 1
        /\ \A i \in 1 .. SegNum - 1 : g[i].subindex = 1 + i - 1
    <3>1. 1 \in 0 .. 1
      OBVIOUS
    <3> QED BY <1>1, <3>1, SegmentsFields, UncoreAssumption
  <2>2. \A i \in 1 .. SegNum - 1 : 1 + i - 1 = i
    OBVIOUS
  <2> QED BY <2>1, <2>2
<1>3. CASE st = "SEND_REQ" /\ Len(q) = 1 /\ q[1].subindex = 0
  <2>0. /\ Len(q \o g) = Len(q) + Len(g)
        /\ \A i \in 1 .. Len(q) + Len(g) : (q \o g)[i] = IF i <= Len(q) THEN q[i] ELSE g[i - Len(q)]
    BY ConcatProperties
  <2>1. Len(q \o g) = SegNum /\ \A i \in 1 .. SegNum : (q \o g)[i] = IF i <= 1 THEN q[i] ELSE g[i - 1]
    <3>1. 1 + (SegNum - 1) = SegNum
      BY <1>2
    <3> QED BY <1>2, <1>3, <2>0, <3>1
  <2>2. ASSUME NEW i \in 1 .. SegNum PROVE (q \o g)[i].subindex = SegNum - SegNum + i - 1
    <3>1. CASE i = 1
      <4>1. (q \o g)[i] = q[1]
        BY <2>1, <3>1
      <4> QED BY <1>2, <1>3, <3>1, <4>1
    <3>2. CASE i # 1
      <4>1. (q \o g)[i] = g[i - 1] /\ i - 1 \in 1 .. SegNum - 1
        BY <1>2, <2>1, <3>2
      <4> QED BY <1>2, <4>1
    <3> QED BY <3>1, <3>2
  <2>3. LastSegments(q \o g)
    BY <1>2, <2>1, <2>2 DEF LastSegments
  <2> QED BY <1>1, <1>3, <2>1, <2>3 DEF LinkFits
<1>4. CASE st = "RECV_CRITICAL_SEG" /\ q = << >>
  <2>1. q \o g = g
    BY <1>4
  <2>2. ASSUME NEW i \in 1 .. SegNum - 1 PROVE g[i].subindex = SegNum - (SegNum - 1) + i - 1
    BY <1>2
  <2>3. LastSegments(g)
    BY <1>2, <2>2 DEF LastSegments
  <2> QED BY <1>1, <1>2, <1>4, <2>1, <2>3 DEF LinkFits
<1> QED BY <1>3, <1>4 DEF LinkFits

\* The memory answers with the line.
LEMMA FitsMemory ==
  ASSUME NEW st, NEW q, LinkFits(TRUE, st, 1, FALSE, q), NEW r
  PROVE  LinkFits(TRUE, st, 0, FALSE, Append(q, r))
<1>1. st = "SEND_REQ" /\ q = << >>
  BY DEF LinkFits
<1>2. Len(Append(q, r)) = 1
  BY <1>1
<1> QED BY <1>1, <1>2 DEF LinkFits

\* What a response finds, and what the link is like without it.
LEMMA FitsTaken ==
  ASSUME NEW last \in BOOLEAN, NEW st, NEW n, NEW half, NEW q \in Seq(Request), q # << >>,
         LinkFits(last, st, n, half, q)
  PROVE  /\ st \in {"SEND_REQ", "RECV_CRITICAL_SEG"}
         /\ last => LinkFits(last, "RECV_WHOLE_LINE", n, half, Tail(q)) /\ st = "SEND_REQ"
         /\ ~last /\ Head(q).subindex = 0 =>
               LinkFits(last, "RECV_CRITICAL_SEG", n, half, Tail(q)) /\ st = "SEND_REQ"
         /\ ~last /\ Head(q).subindex # 0 => st = "RECV_CRITICAL_SEG"
         /\ ~last /\ Head(q).subindex # 0 /\ Head(q).subindex = SegNum - 1 =>
               LinkFits(last, "RECV_WHOLE_LINE", n, half, Tail(q))
         /\ ~last /\ Head(q).subindex # 0 /\ Head(q).subindex # SegNum - 1 =>
               LinkFits(last, st, n, half, Tail(q))
<1>1. /\ Head(q) \in Request /\ Tail(q) \in Seq(Request) /\ Len(q) \in Nat \ {0}
      /\ Len(Tail(q)) = Len(q) - 1 /\ Head(q) = q[1]
      /\ \A i \in 1 .. Len(q) - 1 : Tail(q)[i] = q[i + 1]
  BY HeadAndTail
<1>2. SegNum \in Nat \ {0}
  BY UncoreAssumption
<1>3. ASSUME Len(q) = 1 PROVE Tail(q) = << >>
  <2>1. Len(Tail(q)) = 0
    BY <1>1, <1>3
  <2> QED BY <1>1, <2>1, EmptyLen
<1>4. ASSUME LastSegments(q)
      PROVE  LastSegments(Tail(q)) /\ Head(q).subindex = SegNum - Len(q)
  <2>1. Len(q) <= SegNum /\ \A i \in 1 .. Len(q) : q[i].subindex = SegNum - Len(q) + i - 1
    BY <1>4 DEF LastSegments
  <2>2. Head(q).subindex = SegNum - Len(q)
    <3>1. q[1].subindex = SegNum - Len(q) + 1 - 1
      BY <1>1, <2>1
    <3> QED BY <1>1, <1>2, <3>1
  <2>3. ASSUME NEW i \in 1 .. Len(q) - 1
        PROVE  Tail(q)[i].subindex = SegNum - (Len(q) - 1) + i - 1
    <3>1. i + 1 \in 1 .. Len(q)
      BY <1>1
    <3>2. q[i + 1].subindex = SegNum - Len(q) + (i + 1) - 1
      BY <2>1, <3>1
    <3>3. Tail(q)[i] = q[i + 1]
      BY <1>1
    <3>4. SegNum - Len(q) + (i + 1) - 1 = SegNum - (Len(q) - 1) + i - 1
      BY <1>1, <1>2
    <3> QED BY <3>2, <3>3, <3>4
  <2> QED BY <1>1, <1>2, <2>1, <2>2, <2>3 DEF LastSegments
<1>5. CASE last
  <2>1. st = "SEND_REQ" /\ n = 0 /\ ~half /\ Len(q) = 1
    BY <1>5 DEF LinkFits
  <2> QED BY <1>3, <1>5, <2>1 DEF LinkFits
<1>6. CASE ~last /\ half
  <2>1. st = "SEND_REQ" /\ n = 0 /\ Len(q) = 1 /\ q[1].subindex = 0
    BY <1>6 DEF LinkFits
  <2> QED BY <1>1, <1>3, <1>6, <2>1 DEF LinkFits
<1>7. CASE ~last /\ ~half
  <2>1. /\ n = 0 /\ LastSegments(q)
        /\ \/ st = "SEND_REQ" /\ Len(q) = SegNum
           \/ st = "RECV_CRITICAL_SEG" /\ Len(q) < SegNum
    BY <1>7 DEF LinkFits
  <2>2. LastSegments(Tail(q)) /\ Head(q).subindex = SegNum - Len(q)
    BY <1>4, <2>1
  <2>3. PICK len \in Nat \ {0} : len = Len(q)
    BY <1>1
  <2>4. len <= SegNum
    BY <2>1, <2>3 DEF LastSegments
  <2>5. /\ Head(q).subindex = 0 <=> Len(q) = SegNum
        /\ Head(q).subindex = SegNum - 1 <=> Len(q) = 1
    <3>1. (SegNum - len = 0 <=> len = SegNum) /\ (SegNum - len = SegNum - 1 <=> len = 1)
      BY <1>2
    <3> QED BY <2>2, <2>3, <3>1
  <2>6. Len(Tail(q)) < SegNum
    <3>1. len - 1 < SegNum
      BY <1>2, <2>4
    <3> QED BY <1>1, <2>3, <3>1
  <2>7. CASE st = "SEND_REQ" /\ Len(q) = SegNum
    <3>1. LinkFits(last, "RECV_CRITICAL_SEG", n, half, Tail(q))
      BY <1>7, <2>1, <2>2, <2>6 DEF LinkFits
    <3> QED BY <1>7, <2>5, <2>7, <3>1
  <2>8. CASE st = "RECV_CRITICAL_SEG" /\ Len(q) < SegNum
    <3>1. Head(q).subindex # 0
      <4>1. len # SegNum
        BY <1>2, <2>3, <2>8
      <4> QED BY <2>3, <2>5, <4>1
    <3>2. LinkFits(last, st, n, half, Tail(q))
      BY <1>7, <2>1, <2>2, <2>6, <2>8 DEF LinkFits
    <3>3. Head(q).subindex = SegNum - 1 => LinkFits(last, "RECV_WHOLE_LINE", n, half, Tail(q))
      BY <1>3, <1>7, <2>1, <2>5 DEF LinkFits
    <3> QED BY <1>7, <2>8, <3>1, <3>2, <3>3
  <2> QED BY <2>1, <2>7, <2>8
<1> QED BY <1>5, <1>6, <1>7

-----------------------------------------------------------------------------
(* The steps of a cache with one entry.                                    *)

\* The chain as shipped gives no more credits than the miss queue below has
\* entries.
LEMMA DefaultFits == DefaultChain => CreditsFit
BY LevelFacts DEF DefaultChain, CreditsFit

\* A miss queue of one entry: its header, its tail and when it is used.
LEMMA EntryFacts ==
  ASSUME DefaultChain, ChainInv, NEW l \in Level
  PROVE  /\ mshr[l].header = 0 /\ mshr[l].tail = 0 /\ mshr[l].used \in 0 .. 1
         /\ mshr[l].used = 0 <=> Entry(l).status = "NO_TYPE"
         /\ HeaderOf(mshr[l]) = Entry(l)
         /\ Entry(l).status \in MshrStatus \ {"EVICT"} /\ Entry(l).req \in Request
         /\ MshrAvail(mshr[l]) <=> Entry(l).status = "NO_TYPE"
         /\ MissQueue(1, mshr[l]) /\ mshr = [k \in Level |-> mshr[k]]
         /\ mshr[l] \in MshrType(1) /\ l # Memory
         /\ mshr[l].queue \in [{0} -> MshrEntry]
<1>1. MissQueue(1, mshr[l]) /\ MshrSize[l] = 1 /\ WayNum[l] > 1
  BY QueueFacts DEF DefaultChain
<1>2. 1 \in Nat \ {0} /\ 0 .. 1 - 1 = {0}
  OBVIOUS
<1>3. /\ mshr[l].header = 0 /\ mshr[l].tail = 0 /\ mshr[l].used \in 0 .. 1 /\ mshr[l].qsize = 1
      /\ mshr[l].queue[0].status \in MshrStatus /\ mshr[l].queue[0].req \in Request
      /\ mshr[l].queue \in [{0} -> MshrEntry]
  BY <1>1, <1>2, MissQueueFields
<1>4. mshr[l].used = 0 <=> mshr[l].queue[0].status = "NO_TYPE"
  BY <1>1, <1>2, <1>3, MissQueueFields
<1>5. mshr[l].queue[0].status # "EVICT"
  BY <1>1, QueueFacts DEF WaysInv
<1>6. mshr = [k \in Level |-> mshr[k]] /\ mshr[l] \in MshrType(1) /\ l # Memory
  BY <1>1, QueueFacts, LinkFacts DEF MissQueues, MissQueue
<1>7. mshr[l].used # 1 <=> mshr[l].used = 0
  BY <1>3
<1> QED BY <1>1, <1>3, <1>4, <1>5, <1>6, <1>7 DEF Entry, HeaderOf, MshrAvail

\* The entry gets another status, and every other cache keeps its own.
EntryMoves(l, from, to) ==
    /\ Entry(l).status = from /\ Entry(l)'.status = to /\ Entry(l)'.req = Entry(l).req
    /\ \A k \in Level : k # l => Entry(k)' = Entry(k)

\* A change of status of the only entry is a step of its life cycle.
LEMMA SetStatusMoves ==
  ASSUME DefaultChain, ChainInv, NEW l \in Level, NEW to, mshr' = [mshr EXCEPT ![l] = SetStatus(mshr[l], 0, to)]
  PROVE  EntryMoves(l, Entry(l).status, to)
<1>1. /\ mshr'[l] = SetStatus(mshr[l], 0, to) /\ \A k \in Level : k # l => mshr'[k] = mshr[k]
  BY EntryFacts
<1>2. mshr[l] \in MshrType(1) /\ mshr[l].queue \in [{0} -> MshrEntry]
  BY EntryFacts
<1>3. mshr'[l].queue = [mshr[l].queue EXCEPT ![0].status = to]
  BY <1>1, <1>2 DEF SetStatus, MshrType
<1>4. mshr'[l].queue[0].status = to /\ mshr'[l].queue[0].req = mshr[l].queue[0].req
  BY <1>2, <1>3 DEF MshrEntry
<1> QED BY <1>1, <1>4 DEF EntryMoves, Entry

\* A miss takes the entry.
LEMMA AllocateMoves ==
  ASSUME DefaultChain, ChainInv, NEW l \in Level, NEW req \in Question, MshrAvail(mshr[l]),
         mshr' = [mshr EXCEPT ![l] = Allocate(mshr[l], [req EXCEPT !.mshrid = mshr[l].tail])]
  PROVE  /\ Entry(l)' = [status |-> "ALLOCATE", req |-> req]
         /\ \A k \in Level : k # l => Entry(k)' = Entry(k)
<1>1. [req EXCEPT !.mshrid = mshr[l].tail] = req
  <2>1. mshr[l].tail = 0
    BY EntryFacts
  <2>2. [req EXCEPT !.mshrid = 0] = req
    BY DEF Question
  <2> QED BY <2>1, <2>2
<1>2. mshr'[l] = Allocate(mshr[l], req) /\ \A k \in Level : k # l => mshr'[k] = mshr[k]
  BY <1>1, EntryFacts
<1>3. mshr[l] \in MshrType(1) /\ mshr[l].queue \in [{0} -> MshrEntry] /\ mshr[l].tail = 0
  BY EntryFacts
<1>4. mshr'[l].queue = [mshr[l].queue EXCEPT ![0] = [status |-> "ALLOCATE", req |-> req]]
  <2>1. req \in Request /\ MissQueue(1, mshr[l]) /\ 1 \in Nat \ {0}
    BY EntryFacts, UncoreAssumption DEF Question, Request
  <2>2. Allocate(mshr[l], req).queue = [mshr[l].queue EXCEPT ![mshr[l].tail] = [status |-> "ALLOCATE", req |-> req]]
    BY <2>1, AllocateKeeps, SMTT(60)
  <2> QED BY <1>2, <1>3, <2>2
<1> QED BY <1>2, <1>3, <1>4 DEF Entry

\* A round of handleMshr sends the request, refills the line, frees the entry
\* or does nothing.
LEMMA EntryRound ==
  ASSUME DefaultChain, ChainInv, NEW l \in Level, handleMshr(l)
  PROVE  \/ /\ EntryMoves(l, "ALLOCATE", "SEND_REQ") /\ UNCHANGED tagram /\ next_level_credit[l] > 0
            /\ in_access_req' = [in_access_req EXCEPT ![l + 1] = Append(@, Entry(l).req)]
         \/ EntryMoves(l, "RECV_WHOLE_LINE", "REFILL") /\ UNCHANGED in_access_req
            /\ ramRefill(l, Entry(l).req.line)
         \/ EntryMoves(l, "REFILL", "NO_TYPE") /\ UNCHANGED <<in_access_req, tagram>>
         \/ /\ Entry(l).status # "REFILL" /\ \A k \in Level : Entry(k)' = Entry(k)
            /\ UNCHANGED <<in_access_req, tagram>>
<1>1. PICK m : m = mshrDeallocate(mshr[l])
  OBVIOUS
<1>2. IF Entry(l).status = "REFILL" THEN m = Deallocate(mshr[l], 0) /\ m.used = mshr[l].used - 1
      ELSE m = mshr[l]
  BY <1>1, AfterWalk, EntryFacts
<1>3. Rests(l, m) \/ Sends(l, m) \/ Refills(l, m) \/ Evicts(l, m)
  BY <1>1, RoundOnHeader
<1>4. CASE Entry(l).status = "REFILL"
  <2>1. m = Deallocate(mshr[l], 0) /\ m.used = 0
    <3>1. mshr[l].used = 1
      BY <1>4, EntryFacts
    <3> QED BY <1>2, <1>4, <3>1
  <2>2. Rests(l, m)
    <3>1. ~(m.used > 0)
      BY <2>1
    <3> QED BY <1>3, <3>1 DEF Sends, Refills, Evicts
  <2>3. mshr'[l] = Deallocate(mshr[l], 0) /\ \A k \in Level : k # l => mshr'[k] = mshr[k]
    BY <2>1, <2>2, EntryFacts DEF Rests
  <2>4. mshr[l] \in MshrType(1) /\ mshr[l].queue \in [{0} -> MshrEntry]
    BY EntryFacts
  <2>5. mshr'[l].queue = [mshr[l].queue EXCEPT ![0].status = "NO_TYPE"]
    BY <2>3, <2>4 DEF Deallocate, MshrType
  <2>6. mshr'[l].queue[0].status = "NO_TYPE" /\ mshr'[l].queue[0].req = mshr[l].queue[0].req
    BY <2>4, <2>5 DEF MshrEntry
  <2>7. EntryMoves(l, "REFILL", "NO_TYPE")
    BY <1>4, <2>3, <2>6 DEF EntryMoves, Entry
  <2> QED BY <2>2, <2>7 DEF Rests
<1>5. CASE Entry(l).status # "REFILL"
  <2>1. m = mshr[l] /\ HeaderOf(m) = Entry(l) /\ m.header = 0 /\ Entry(l).status # "EVICT"
    BY <1>2, <1>5, EntryFacts
  <2>2. CASE Rests(l, m)
    <3>1. \A k \in Level : Entry(k)' = Entry(k)
      BY <2>1, <2>2, EntryFacts DEF Rests, Entry
    <3> QED BY <1>5, <2>2, <3>1 DEF Rests
  <2>3. CASE Sends(l, m)
    <3>1. EntryMoves(l, "ALLOCATE", "SEND_REQ")
      BY <2>1, <2>3, SetStatusMoves DEF Sends, EntryMoves
    <3> QED BY <2>1, <2>3, <3>1 DEF Sends
  <2>4. CASE Refills(l, m)
    <3>1. EntryMoves(l, "RECV_WHOLE_LINE", "REFILL")
      BY <2>1, <2>4, SetStatusMoves DEF Refills, EntryMoves
    <3> QED BY <2>1, <2>4, <3>1 DEF Refills
  <2>5. CASE Evicts(l, m)
    <3>1. WayNum[l] > 1 /\ Entry(l).req.line \in Line
      BY EntryFacts, RequestFields DEF DefaultChain
    <3> QED BY <2>1, <2>5, <3>1, SecondWayIsFree DEF Evicts
  <2> QED BY <1>3, <2>2, <2>3, <2>4, <2>5
<1> QED BY <1>4, <1>5

-----------------------------------------------------------------------------
(* Each action keeps the links fitting.                                    *)

\* Requests, answers and questions, the larger of the smaller.
LEMMA Kinds ==
  /\ Question \subseteq Answer /\ Answer \subseteq Request /\ Question \subseteq Request
  /\ Seq(Question) \subseteq Seq(Answer) /\ Seq(Answer) \subseteq Seq(Request)
  /\ \A req \in Question : [req EXCEPT !.subindex = 0] \in Answer
<1>1. Question \subseteq Answer /\ Answer \subseteq Request
  BY UncoreAssumption DEF Question, Answer, Request
<1>2. \A req \in Question : [req EXCEPT !.subindex = 0] \in Answer
  BY UncoreAssumption DEF Question, Answer
<1>3. Seq(Question) \subseteq Seq(Answer) /\ Seq(Answer) \subseteq Seq(Request)
  BY <1>1, SeqMonotonic
<1> QED BY <1>1, <1>2, <1>3

\* The segments of a line are answers.
LEMMA SegmentsAreAnswers ==
  ASSUME NEW req \in Question, NEW from \in 0 .. 1
  PROVE  Segments(req, from) \in Seq(Answer)
<1>1. PICK n \in Nat : n = SegNum - from
  BY UncoreAssumption
<1>2. \A i \in 1 .. n : from + i - 1 \in 0 .. SegNum - 1
  BY <1>1, UncoreAssumption
<1>3. \A i \in 0 .. SegNum - 1 : [req EXCEPT !.subindex = i] \in Answer
  BY DEF Question, Answer
<1>4. PICK f : f = [i \in 1 .. n |-> [req EXCEPT !.subindex = from + i - 1]]
  OBVIOUS
<1>5. f \in [1 .. n -> Answer]
  BY <1>2, <1>3, <1>4
<1>6. f \in Seq(Answer)
  BY <1>5
<1> QED BY <1>1, <1>4, <1>6 DEF Segments

\* Every answer made to a question is one.
LEMMA AnswersToAll ==
  ASSUME NEW l, NEW req \in Question
  PROVE  /\ makeResp(l, req) \in Seq(Answer) /\ makeCriticalResp(l, req) \in Seq(Answer)
         /\ makeNonCriticalResp(l, req) \in Seq(Answer)
<1>1. 0 \in 0 .. 1 /\ 1 \in 0 .. 1
  OBVIOUS
<1>2. <<req>> \in Seq(Answer) /\ <<[req EXCEPT !.subindex = 0]>> \in Seq(Answer) /\ << >> \in Seq(Answer)
  BY Kinds
<1> QED BY <1>1, <1>2, SegmentsAreAnswers DEF makeResp, makeCriticalResp, makeNonCriticalResp

\* What a link's ports hold.
LEMMA LinkParts ==
  ASSUME PortInv, NEW l \in Level
  PROVE  /\ in_access_resp[l] \in Seq(Answer) /\ in_access_req[l + 1] \in Seq(Question)
         /\ in_access_resp[l] \in Seq(Request) /\ in_access_req[l + 1] \in Seq(Request)
         /\ Stream(l) \in Seq(Request) /\ Len(in_access_req[l + 1]) \in Nat
         /\ Pending(l + 1) \in Nat /\ Half(l + 1) \in BOOLEAN
         /\ l + 1 # Memory => /\ l + 1 \in Level /\ out_resp_queue[l + 1] \in Seq(Request)
                              /\ Stream(l) = in_access_resp[l] \o out_resp_queue[l + 1]
         /\ l + 1 = Memory <=> l = LevelNum
         /\ LinkInv(l)
<1>1. /\ in_access_resp[l] \in Seq(Answer) /\ in_access_req[l + 1] \in Seq(Question)
      /\ ev_handle_mem_req \in Seq(Question)
  BY LevelFacts DEF PortInv, IdsAreZero
<1>2. /\ in_access_resp[l] \in Seq(Request) /\ in_access_req[l + 1] \in Seq(Request)
      /\ Len(in_access_req[l + 1]) \in Nat /\ Len(ev_handle_mem_req) \in Nat
  BY <1>1, Kinds
<1>3. l + 1 = Memory <=> l = LevelNum
  BY LevelFacts, UncoreAssumption DEF Memory
<1>4. l + 1 # Memory => l + 1 \in Level
  BY LevelFacts, LinkFacts
<1>5. l + 1 # Memory => out_resp_queue[l + 1] \in Seq(Request)
  BY <1>4, Kinds DEF PortInv, IdsAreZero
<1>6. << >> \in Seq(Request) /\ in_access_resp[l] \o << >> \in Seq(Request)
  BY <1>2
<1>7. Stream(l) \in Seq(Request)
  BY <1>2, <1>5, <1>6, ConcatProperties DEF Stream
<1>8. Pending(l + 1) \in Nat /\ Half(l + 1) \in BOOLEAN
  <2>1. PICK b \in Nat : b = IF l + 1 = Memory THEN Len(ev_handle_mem_req)
                            ELSE IF Entry(l + 1).status \in {"ALLOCATE", "SEND_REQ"} THEN 1 ELSE 0
    BY <1>2
  <2>2. PICK a \in Nat : a = Len(in_access_req[l + 1])
    BY <1>2
  <2>3. Pending(l + 1) = a + b
    BY <2>1, <2>2 DEF Pending
  <2> QED BY <2>3 DEF Half
<1> QED BY <1>1, <1>2, <1>3, <1>4, <1>5, <1>7, <1>8 DEF PortInv, Stream

\* A link that does not see the step.
LEMMA LinkSame ==
  ASSUME NEW l \in Level, LinkInv(l), Entry(l)'.status = Entry(l).status,
         l + 1 # Memory => Entry(l + 1)'.status = Entry(l + 1).status,
         l + 1 = Memory => UNCHANGED ev_handle_mem_req,
         in_access_req'[l + 1] = in_access_req[l + 1], Stream(l)' = Stream(l)
  PROVE  LinkInv(l)'
BY DEF LinkInv, Pending, Half

\* A link's stream, when neither of its parts moves.
LEMMA StreamSame ==
  ASSUME NEW l \in Level, in_access_resp'[l] = in_access_resp[l],
         l + 1 # Memory => out_resp_queue'[l + 1] = out_resp_queue[l + 1]
  PROVE  Stream(l)' = Stream(l)
BY DEF Stream

\* The link above a cache that has a request: it has one, and the entry of the
\* cache is free.
LEMMA RequestAbove ==
  ASSUME DefaultChain, PortInv, NEW k \in Level, k + 1 # Memory, in_access_req[k + 1] # << >>
  PROVE  /\ Entry(k).status = "SEND_REQ" /\ Len(in_access_req[k + 1]) = 1
         /\ Len(Tail(in_access_req[k + 1])) = 0
         /\ Pending(k + 1) = 1 /\ ~Half(k + 1) /\ Stream(k) = << >>
         /\ Entry(k + 1).status \notin {"ALLOCATE", "SEND_REQ"}
<1>1. /\ in_access_req[k + 1] \in Seq(Request) /\ Len(in_access_req[k + 1]) \in Nat \ {0}
      /\ Len(Tail(in_access_req[k + 1])) = Len(in_access_req[k + 1]) - 1
  BY LinkParts, HeadAndTail
<1>2. Pending(k + 1) = Len(in_access_req[k + 1]) +
                        (IF Entry(k + 1).status \in {"ALLOCATE", "SEND_REQ"} THEN 1 ELSE 0)
  BY DEF Pending
<1>3. PICK len \in Nat \ {0} : len = Len(in_access_req[k + 1])
  BY <1>1
<1>4. PICK b \in 0 .. 1 : b = IF Entry(k + 1).status \in {"ALLOCATE", "SEND_REQ"} THEN 1 ELSE 0
  OBVIOUS
<1>5. Pending(k + 1) = len + b
  BY <1>2, <1>3, <1>4
<1>6. Pending(k + 1) \in Nat /\ Pending(k + 1) # 0
  BY <1>5
<1>7. LinkInv(k)
  BY LinkParts
<1>8. Entry(k).status = "SEND_REQ" /\ Pending(k + 1) = 1 /\ ~Half(k + 1) /\ Stream(k) = << >>
  <2>1. LinkFits(k = LevelNum, Entry(k).status, Pending(k + 1), Half(k + 1), Stream(k))
    BY <1>7 DEF LinkInv
  <2> QED BY <1>6, <2>1, FitsPending
<1>9. len = 1 /\ b = 0
  BY <1>8, <1>5
<1>10. len = 1 /\ Entry(k + 1).status \notin {"ALLOCATE", "SEND_REQ"}
  BY <1>4, <1>9
<1> QED BY <1>1, <1>8, <1>3, <1>10

\* The link between two caches.
LEMMA AboveFacts ==
  ASSUME PortInv, NEW k \in Level, NEW l \in Level, k + 1 = l
  PROVE  /\ k + 1 # Memory /\ l # Memory /\ k # LevelNum /\ l # 1 /\ k # l
         /\ Stream(k) = in_access_resp[k] \o out_resp_queue[l] /\ Stream(k) \in Seq(Request)
         /\ in_access_resp[k] \in Seq(Request) /\ out_resp_queue[l] \in Seq(Request)
<1>1. l # Memory
  BY LinkFacts
<1>2. k # LevelNum /\ l # 1 /\ k # l
  BY UncoreAssumption DEF Level
<1>3. k + 1 # Memory
  BY <1>1
<1>4. /\ Stream(k) = in_access_resp[k] \o out_resp_queue[k + 1] /\ Stream(k) \in Seq(Request)
      /\ in_access_resp[k] \in Seq(Request) /\ out_resp_queue[k + 1] \in Seq(Request)
  BY <1>3, LinkParts
<1> QED BY <1>1, <1>2, <1>4

\* The cache below answers.
LEMMA StreamGrows ==
  ASSUME PortInv, NEW k \in Level, NEW l \in Level, k + 1 = l, NEW resps \in Seq(Request),
         in_access_resp'[k] = in_access_resp[k], out_resp_queue'[l] = out_resp_queue[l] \o resps
  PROVE  Stream(k)' = Stream(k) \o resps
<1>1. PICK a \in Seq(Request), b \in Seq(Request) : a = in_access_resp[k] /\ b = out_resp_queue[l]
  BY AboveFacts
<1>2. a \o (b \o resps) = (a \o b) \o resps
  BY StreamJoined
<1>3. Stream(k) = a \o b /\ k + 1 # Memory
  BY <1>1, AboveFacts
<1>4. Stream(k)' = a \o (b \o resps)
  BY <1>1, <1>3 DEF Stream
<1> QED BY <1>2, <1>3, <1>4, Zenon

\* LinkInv in terms of its four values.
LEMMA LinkIs ==
  ASSUME NEW l \in Level, NEW last \in BOOLEAN, NEW half \in BOOLEAN,
         last <=> l = LevelNum, half <=> Half(l + 1)
  PROVE  LinkInv(l) <=> LinkFits(last, Entry(l).status, Pending(l + 1), half, Stream(l))
BY DEF LinkInv, LinkFits

\* LinkInv of the next state in terms of its four values.
LEMMA LinkIsNext ==
  ASSUME NEW l \in Level, NEW last \in BOOLEAN, NEW half \in BOOLEAN, NEW st, NEW n, NEW q,
         last <=> l = LevelNum, half <=> Half(l + 1)',
         Entry(l)'.status = st, Pending(l + 1)' = n, Stream(l)' = q, LinkFits(last, st, n, half, q)
  PROVE  LinkInv(l)'
BY DEF LinkInv, LinkFits

\* A lookup keeps every link's protocol.
LEMMA FuncaccessFits ==
  ASSUME DefaultChain, PortInv, NEW l \in Level, funcaccess(l), UNCHANGED ev_handle_mem_req
  PROVE  Running' /\ IdsAreZero' /\ \A k \in Level : LinkInv(k)'
<1>1. ChainInv /\ LinkCreditsConserved /\ CreditsFit /\ IdsAreZero /\ Running
  BY DefaultFits DEF PortInv, CreditInv
<1>2. /\ in_access_req[l] # << >> /\ in_access_req' = [in_access_req EXCEPT ![l] = Tail(@)]
  BY DEF funcaccess
<1>3. l \in Server /\ l \notin PerfectLevel
  BY LevelFacts DEF DefaultChain
<1>4. in_access_req[l] \in Seq(Question) /\ in_access_req \in [Server -> Seq(Question)]
  BY <1>1, <1>3 DEF IdsAreZero
<1>5. PICK req \in Question : Hit(l, req) \/ Miss(l, req)
  BY <1>2, <1>3, <1>4, HeadAndTail DEF funcaccess, PerfectAccess
<1>6. in_access_req' \in [Server -> Seq(Question)]
  BY <1>2, <1>3, <1>4, HeadAndTail
<1>7. MshrAvail(mshr[l]) /\ Entry(l).status = "NO_TYPE"
  BY <1>1, <1>2, <1>3, PlaceIsFree, EntryFacts
<1>8. ASSUME NEW k \in Level, k + 1 # l PROVE in_access_req'[k + 1] = in_access_req[k + 1]
  BY <1>1, <1>2, <1>3, <1>8, LevelFacts, OtherRequests
<1>9. in_access_req'[l] = Tail(in_access_req[l])
  BY <1>2, <1>3, <1>4
<1>10. \A k \in Level : LinkInv(k)
  BY DEF PortInv
<1>11. CASE Hit(l, req)
  <2>1. PICK resps \in Seq(Answer) : resps = makeResp(l, req)
    BY AnswersToAll
  <2>2. /\ out_resp_queue' = [out_resp_queue EXCEPT ![l] = @ \o resps]
        /\ UNCHANGED <<mshr, in_access_resp, failed>>
    BY <1>11, <2>1 DEF Hit, Respond
  <2>3. out_resp_queue \in [Level -> Seq(Answer)] /\ out_resp_queue[l] \in Seq(Answer)
    BY <1>1 DEF IdsAreZero
  <2>4. /\ out_resp_queue'[l] = out_resp_queue[l] \o resps /\ out_resp_queue' \in [Level -> Seq(Answer)]
        /\ \A k \in Level : k # l => out_resp_queue'[k] = out_resp_queue[k]
    <3>1. out_resp_queue[l] \o resps \in Seq(Answer)
      BY <2>3, ConcatProperties
    <3> QED BY <2>2, <2>3, <3>1
  <2>5. \A k \in Level : Entry(k)' = Entry(k)
    BY <2>2 DEF Entry
  <2>6. IdsAreZero'
    BY <1>1, <1>6, <2>2, <2>4, <2>5 DEF IdsAreZero
  <2>7. ASSUME NEW k \in Level PROVE LinkInv(k)'
    <3>1. CASE k + 1 # l
      <4>1. Stream(k)' = Stream(k)
        BY <2>2, <2>4, <3>1, LevelFacts, LinkFacts, StreamSame
      <4>2. k + 1 # Memory => Entry(k + 1)'.status = Entry(k + 1).status
        BY <2>5, LevelFacts, LinkFacts
      <4> QED BY <1>8, <1>10, <2>5, <3>1, <4>1, <4>2, LinkSame
    <3>2. CASE k + 1 = l
      <4>1. /\ k + 1 # Memory /\ k # LevelNum /\ l # 1
            /\ Stream(k) = in_access_resp[k] \o out_resp_queue[l] /\ in_access_resp[k] \in Seq(Request)
            /\ out_resp_queue[l] \in Seq(Request)
        BY <3>2, AboveFacts
      <4>2. /\ Pending(l) = 1 /\ ~Half(l) /\ Len(Tail(in_access_req[l])) = 0
        BY <1>2, <3>2, <4>1, RequestAbove
      <4>3. LinkFits(FALSE, Entry(k).status, 1, FALSE, Stream(k))
        BY <1>10, <3>2, <4>1, <4>2, LinkIs
      <4>4. LinkFits(FALSE, Entry(k).status, 0, FALSE, Stream(k) \o resps)
        <5>1. resps = Segments(req, 0) /\ req \in Request
          BY <2>1, <4>1, Kinds DEF makeResp
        <5> QED BY <4>3, <5>1, FitsAnswered
      <4>5. Stream(k)' = Stream(k) \o resps
        <5>1. resps \in Seq(Request) /\ in_access_resp'[k] = in_access_resp[k]
          BY <2>2, Kinds
        <5> QED BY <2>4, <3>2, <5>1, StreamGrows
      <4>6. Pending(l)' = 0 /\ ~Half(l)'
        <5>1. l # Memory /\ Entry(l)'.status = "NO_TYPE"
          BY <1>7, <2>5, LinkFacts
        <5>2. Len(in_access_req'[l]) = 0
          BY <1>9, <4>2
        <5> QED BY <5>1, <5>2 DEF Pending, Half
      <4> QED BY <2>5, <3>2, <4>1, <4>4, <4>5, <4>6, LinkIsNext
    <3> QED BY <3>1, <3>2
  <2> QED BY <1>1, <2>2, <2>6, <2>7 DEF Running
<1>12. CASE Miss(l, req)
  <2>1. /\ mshr' = [mshr EXCEPT ![l] = Allocate(mshr[l], [req EXCEPT !.mshrid = mshr[l].tail])]
        /\ UNCHANGED <<failed, out_resp_queue, in_access_resp>>
    BY <1>7, <1>12 DEF Miss
  <2>2. /\ Entry(l)' = [status |-> "ALLOCATE", req |-> req]
        /\ \A k \in Level : k # l => Entry(k)' = Entry(k)
    BY <1>1, <1>7, <2>1, AllocateMoves
  <2>3. Entry(l)'.status = "ALLOCATE" /\ Entry(l)'.req = req
    BY <2>2
  <2>4. IdsAreZero'
    <3>1. \A k \in Level : Entry(k)'.req \in Question
      BY <1>1, <2>2, <2>3 DEF IdsAreZero
    <3> QED BY <1>1, <1>6, <2>1, <3>1 DEF IdsAreZero
  <2>5. ASSUME NEW k \in Level PROVE LinkInv(k)'
    <3>1. Stream(k)' = Stream(k)
      BY <2>1, StreamSame
    <3>2. k + 1 # Memory => k + 1 \in Level
      BY LevelFacts, LinkFacts
    <3>3. CASE k = l
      <4>1. k + 1 # l
        BY <3>3, LevelFacts
      <4>2. Pending(k + 1)' = Pending(k + 1) /\ Half(k + 1)' = Half(k + 1)
        BY <1>8, <2>2, <3>2, <4>1 DEF Pending, Half
      <4>3. LinkFits(k = LevelNum, Entry(k).status, Pending(k + 1), Half(k + 1), Stream(k))
        BY <1>10 DEF LinkInv
      <4>4. LinkFits(k = LevelNum, "ALLOCATE", Pending(k + 1), Half(k + 1), Stream(k))
        BY <1>7, <3>3, <4>3, FitsElsewhere
      <4> QED BY <2>3, <3>1, <3>3, <4>2, <4>4 DEF LinkInv
    <3>4. CASE k + 1 = l
      <4>1. k # l /\ l # Memory
        BY <3>4, LevelFacts, LinkFacts
      <4>2. Len(in_access_req[l]) = 1 /\ Len(Tail(in_access_req[l])) = 0
        BY <1>2, <3>4, <4>1, RequestAbove
      <4>3. Pending(l)' = Pending(l)
        BY <1>7, <1>9, <2>3, <4>1, <4>2 DEF Pending
      <4>4. Half(l)' = Half(l)
        BY <1>7, <2>3 DEF Half
      <4> QED BY <1>10, <2>2, <3>1, <3>4, <4>1, <4>3, <4>4 DEF LinkInv
    <3>5. CASE k # l /\ k + 1 # l
      BY <1>8, <1>10, <2>2, <3>1, <3>2, <3>5, LinkSame
    <3> QED BY <3>3, <3>4, <3>5
  <2> QED BY <1>1, <2>1, <2>4, <2>5 DEF Running
<1> QED BY <1>5, <1>11, <1>12

\* The link above a cache whose entry moves on: the responses make up for what
\* the cache above was waiting for.
LEMMA AnswerAbove ==
  ASSUME DefaultChain, PortInv, NEW k \in Level, NEW l \in Level, k + 1 = l,
         NEW from, NEW to, EntryMoves(l, from, to), UNCHANGED in_access_req,
         in_access_resp'[k] = in_access_resp[k], NEW req \in Request, NEW resps \in Seq(Request),
         out_resp_queue'[l] = out_resp_queue[l] \o resps,
         \/ from = "SEND_REQ" /\ to = "RECV_WHOLE_LINE" /\ resps = Segments(req, 0)
         \/ from = "SEND_REQ" /\ to = "RECV_CRITICAL_SEG" /\ resps = <<[req EXCEPT !.subindex = 0]>>
         \/ from = "RECV_CRITICAL_SEG" /\ to = "RECV_WHOLE_LINE" /\ resps = Segments(req, 1)
  PROVE  LinkInv(k)'
<1>1. k + 1 # Memory /\ l # Memory /\ k # LevelNum /\ k # l /\ Stream(k) \in Seq(Request)
  BY AboveFacts
<1>2. Stream(k)' = Stream(k) \o resps
  BY StreamGrows
<1>3. Entry(l).status = from /\ Entry(l)'.status = to /\ Entry(k)' = Entry(k)
  BY <1>1 DEF EntryMoves
<1>4. PICK n \in Nat : n = Len(in_access_req[l])
  BY LinkParts
<1>5. PICK b \in 0 .. 1 : b = IF from = "SEND_REQ" THEN 1 ELSE 0
  OBVIOUS
<1>50. Pending(l) = n + b
  <2>1. Pending(l) = Len(in_access_req[l]) + (IF from \in {"ALLOCATE", "SEND_REQ"} THEN 1 ELSE 0)
    BY <1>1, <1>3 DEF Pending
  <2>2. (IF from \in {"ALLOCATE", "SEND_REQ"} THEN 1 ELSE 0) = b
    BY <1>5
  <2> QED BY <1>4, <2>1, <2>2
<1>51. Pending(l)' = n
  <2>1. Pending(l)' = Len(in_access_req'[l]) + (IF to \in {"ALLOCATE", "SEND_REQ"} THEN 1 ELSE 0)
    BY <1>1, <1>3 DEF Pending
  <2>2. (IF to \in {"ALLOCATE", "SEND_REQ"} THEN 1 ELSE 0) = 0
    OBVIOUS
  <2>3. n + 0 = n /\ in_access_req'[l] = in_access_req[l]
    BY <1>4
  <2> QED BY <1>4, <2>1, <2>2, <2>3
<1>52. (Half(l) <=> from = "RECV_CRITICAL_SEG") /\ (Half(l)' <=> to = "RECV_CRITICAL_SEG")
  BY <1>1, <1>3 DEF Half
<1>6. LinkInv(k)
  BY LinkParts
<1>7. CASE from = "SEND_REQ"
  <2>1. ~Half(l) /\ Pending(l) = n + 1 /\ Pending(l) \in Nat /\ Pending(l) # 0
    BY <1>5, <1>50, <1>52, <1>7
  <2>2. LinkFits(FALSE, Entry(k).status, Pending(l), FALSE, Stream(k))
    BY <1>1, <1>6, <2>1, LinkIs
  <2>3. Pending(l) = 1
    BY <2>1, <2>2, FitsPending
  <2>4. n = 0
    BY <2>1, <2>3
  <2>5. CASE to = "RECV_WHOLE_LINE" /\ resps = Segments(req, 0)
    <3>1. LinkFits(FALSE, Entry(k).status, 0, FALSE, Stream(k) \o resps)
      BY <2>2, <2>3, <2>5, FitsAnswered
    <3> QED BY <1>1, <1>2, <1>3, <1>51, <1>52, <2>4, <2>5, <3>1, LinkIsNext
  <2>6. CASE to = "RECV_CRITICAL_SEG" /\ resps = <<[req EXCEPT !.subindex = 0]>>
    <3>1. LinkFits(FALSE, Entry(k).status, 0, TRUE, Stream(k) \o resps)
      BY <2>2, <2>3, <2>6, FitsFirst
    <3> QED BY <1>1, <1>2, <1>3, <1>51, <1>52, <2>4, <2>6, <3>1, LinkIsNext
  <2> QED BY <1>7, <2>5, <2>6
<1>8. CASE from = "RECV_CRITICAL_SEG" /\ to = "RECV_WHOLE_LINE" /\ resps = Segments(req, 1)
  <2>1. Half(l) /\ Pending(l) = n
    BY <1>4, <1>5, <1>50, <1>52, <1>8
  <2>2. LinkFits(FALSE, Entry(k).status, Pending(l), TRUE, Stream(k))
    BY <1>1, <1>6, <2>1, LinkIs
  <2>3. n = 0
    BY <2>1, <2>2 DEF LinkFits
  <2>4. LinkFits(FALSE, Entry(k).status, 0, FALSE, Stream(k) \o resps)
    BY <1>1, <1>8, <2>1, <2>2, <2>3, FitsOthers
  <2> QED BY <1>1, <1>2, <1>3, <1>51, <1>52, <1>8, <2>3, <2>4, LinkIsNext
<1> QED BY <1>7, <1>8

\* A response finds its entry, as the assertions of recvResp and mshrRecvResp
\* say, and it goes one of four ways.
LEMMA RecvRespMoves ==
  ASSUME DefaultChain, PortInv, NEW l \in Level, recvResp(l)
  PROVE  \E resp \in Answer : \E req \in Question :
           /\ resp = Head(in_access_resp[l]) /\ req = Entry(l).req
           /\ UNCHANGED <<failed, tagram>> /\ ev_handle_mshr' = ev_handle_mshr \cup {l}
           /\ \/ l = LevelNum /\ EntryMoves(l, "SEND_REQ", "RECV_WHOLE_LINE") /\ Respond(l, makeResp(l, req))
              \/ /\ l # LevelNum /\ resp.subindex = 0
                 /\ EntryMoves(l, "SEND_REQ", "RECV_CRITICAL_SEG") /\ Respond(l, makeCriticalResp(l, req))
              \/ /\ l # LevelNum /\ resp.subindex # 0 /\ resp.subindex = SegNum - 1
                 /\ EntryMoves(l, "RECV_CRITICAL_SEG", "RECV_WHOLE_LINE")
                 /\ Respond(l, makeNonCriticalResp(l, req))
              \/ /\ l # LevelNum /\ resp.subindex # 0 /\ resp.subindex # SegNum - 1
                 /\ Entry(l).status = "RECV_CRITICAL_SEG" /\ UNCHANGED <<mshr, out_resp_queue>>
<1>1. ChainInv /\ IdsAreZero /\ MshrSize[l] = 1 /\ (l \in AboveMemory <=> l = LevelNum)
  BY DEF PortInv, CreditInv, DefaultChain
<1>2. in_access_resp[l] # << >> /\ in_access_resp[l] \in Seq(Answer) /\ in_access_resp[l] \in Seq(Request)
  BY LinkParts DEF recvResp
<1>3. PICK resp \in Answer : resp = Head(in_access_resp[l])
  BY <1>2, HeadAndTail
<1>4. PICK req \in Question : req = Entry(l).req
  BY <1>1 DEF IdsAreZero
<1>5. resp.mshrid = 0
  BY DEF Answer
<1>6. Stream(l) # << >> /\ Stream(l) \in Seq(Request) /\ Head(Stream(l)) = resp
  <2>1. PICK a \in Seq(Request), b \in Seq(Request) : a = in_access_resp[l] /\ Stream(l) = a \o b
    <3>1. l + 1 # Memory => out_resp_queue[l + 1] \in Seq(Request)
      BY LinkParts
    <3>2. << >> \in Seq(Request)
      OBVIOUS
    <3> QED BY <1>2, <3>1, <3>2 DEF Stream
  <2>2. a # << >> /\ Head(a) = resp
    BY <1>2, <1>3, <2>1
  <2>3. a \o b # << >> /\ a \o b \in Seq(Request) /\ Head(a \o b) = Head(a)
    BY <2>2, StreamTaken
  <2> QED BY <2>1, <2>2, <2>3, Zenon
<1>7. /\ Entry(l).status \in {"SEND_REQ", "RECV_CRITICAL_SEG"}
      /\ l = LevelNum => Entry(l).status = "SEND_REQ"
      /\ l # LevelNum /\ resp.subindex = 0 => Entry(l).status = "SEND_REQ"
      /\ l # LevelNum /\ resp.subindex # 0 => Entry(l).status = "RECV_CRITICAL_SEG"
  <2>1. PICK last \in BOOLEAN, half \in BOOLEAN : (last <=> l = LevelNum) /\ (half <=> Half(l + 1))
    OBVIOUS
  <2>2. LinkFits(last, Entry(l).status, Pending(l + 1), half, Stream(l))
    BY <2>1, LinkIs, LinkParts
  <2>3. PICK st : st = Entry(l).status
    OBVIOUS
  <2>4. PICK q \in Seq(Request) : q = Stream(l) /\ q # << >> /\ Head(q) = resp
    BY <1>6
  <2>5. LinkFits(last, st, Pending(l + 1), half, q)
    BY <2>2, <2>3, <2>4
  <2>6. /\ st \in {"SEND_REQ", "RECV_CRITICAL_SEG"}
        /\ last => st = "SEND_REQ"
        /\ ~last /\ Head(q).subindex = 0 => st = "SEND_REQ"
        /\ ~last /\ Head(q).subindex # 0 => st = "RECV_CRITICAL_SEG"
    BY <2>4, <2>5, FitsTaken
  <2> QED BY <2>1, <2>3, <2>4, <2>6
<1>8. /\ EntryAwaits(l, 0, {"SEND_REQ", "RECV_CRITICAL_SEG"})
      /\ EntryAwaits(l, 0, {"RECV_CRITICAL_SEG"}) <=> Entry(l).status = "RECV_CRITICAL_SEG"
  BY <1>1, <1>7 DEF EntryAwaits, Entry
<1>9. mshrRecvResp(l, 0, resp.subindex) /\ UNCHANGED tagram
  BY <1>3, <1>5, <1>8 DEF recvResp
<1>10. ASSUME NEW to, mshr' = [mshr EXCEPT ![l] = SetStatus(@, 0, to)]
       PROVE  EntryMoves(l, Entry(l).status, to)
  BY <1>1, <1>10, SetStatusMoves
<1>11. mshr[l].queue[0].req = req
  BY <1>4 DEF Entry
<1>12. CASE l = LevelNum
  <2>1. /\ mshr' = [mshr EXCEPT ![l] = SetStatus(@, 0, "RECV_WHOLE_LINE")]
        /\ Respond(l, makeResp(l, req)) /\ UNCHANGED failed /\ ev_handle_mshr' = ev_handle_mshr \cup {l}
    BY <1>1, <1>9, <1>11, <1>12 DEF mshrRecvResp
  <2>2. EntryMoves(l, "SEND_REQ", "RECV_WHOLE_LINE")
    BY <1>7, <1>10, <1>12, <2>1
  <2> QED BY <1>3, <1>4, <1>9, <1>12, <2>1, <2>2
<1>13. CASE l # LevelNum /\ resp.subindex = 0
  <2>1. /\ mshr' = [mshr EXCEPT ![l] = SetStatus(@, 0, "RECV_CRITICAL_SEG")]
        /\ Respond(l, makeCriticalResp(l, req)) /\ UNCHANGED failed
        /\ ev_handle_mshr' = ev_handle_mshr \cup {l}
    BY <1>1, <1>9, <1>11, <1>13 DEF mshrRecvResp
  <2>2. EntryMoves(l, "SEND_REQ", "RECV_CRITICAL_SEG")
    BY <1>7, <1>10, <1>13, <2>1
  <2> QED BY <1>3, <1>4, <1>9, <1>13, <2>1, <2>2
<1>14. CASE l # LevelNum /\ resp.subindex # 0 /\ resp.subindex = SegNum - 1
  <2>1. /\ mshr' = [mshr EXCEPT ![l] = SetStatus(@, 0, "RECV_WHOLE_LINE")]
        /\ Respond(l, makeNonCriticalResp(l, req)) /\ UNCHANGED failed
        /\ ev_handle_mshr' = ev_handle_mshr \cup {l}
    BY <1>1, <1>7, <1>8, <1>9, <1>11, <1>14 DEF mshrRecvResp
  <2>2. EntryMoves(l, "RECV_CRITICAL_SEG", "RECV_WHOLE_LINE")
    BY <1>7, <1>10, <1>14, <2>1
  <2> QED BY <1>3, <1>4, <1>9, <1>14, <2>1, <2>2
<1>15. CASE l # LevelNum /\ resp.subindex # 0 /\ resp.subindex # SegNum - 1
  <2>1. UNCHANGED <<mshr, out_resp_queue, failed>> /\ ev_handle_mshr' = ev_handle_mshr \cup {l}
    BY <1>1, <1>9, <1>15 DEF mshrRecvResp
  <2> QED BY <1>3, <1>4, <1>7, <1>9, <1>15, <2>1
<1> QED BY <1>12, <1>13, <1>14, <1>15

\* The link below a cache that takes a response.
LEMMA LinkTaken ==
  ASSUME DefaultChain, PortInv, NEW l \in Level, in_access_resp[l] # << >>,
         NEW to, Entry(l)'.status = to, UNCHANGED <<in_access_req, ev_handle_mem_req>>,
         in_access_resp'[l] = Tail(in_access_resp[l]),
         l + 1 # Memory => Entry(l + 1)' = Entry(l + 1) /\ out_resp_queue'[l + 1] = out_resp_queue[l + 1],
         NEW resp, resp = Head(in_access_resp[l]),
         \/ l = LevelNum /\ to = "RECV_WHOLE_LINE"
         \/ l # LevelNum /\ resp.subindex = 0 /\ to = "RECV_CRITICAL_SEG"
         \/ l # LevelNum /\ resp.subindex # 0 /\ resp.subindex = SegNum - 1 /\ to = "RECV_WHOLE_LINE"
         \/ l # LevelNum /\ resp.subindex # 0 /\ resp.subindex # SegNum - 1 /\ to = Entry(l).status
  PROVE  LinkInv(l)'
<1>1. in_access_resp[l] \in Seq(Request) /\ LinkInv(l)
  BY LinkParts
<1>2. PICK a \in Seq(Request), b \in Seq(Request) :
         a = in_access_resp[l] /\ Stream(l) = a \o b /\ Stream(l)' = Tail(a) \o b
  <2>1. l + 1 # Memory => out_resp_queue[l + 1] \in Seq(Request)
    BY LinkParts
  <2>2. << >> \in Seq(Request)
    OBVIOUS
  <2> QED BY <1>1, <2>1, <2>2 DEF Stream
<1>3. Tail(a) \o b = Tail(a \o b) /\ Head(a \o b) = Head(a) /\ a \o b # << >> /\ a \o b \in Seq(Request)
  <2>1. a # << >>
    BY <1>2
  <2> QED BY <2>1, StreamTaken
<1>4. PICK q \in Seq(Request) : q = Stream(l) /\ q # << >> /\ Head(q) = resp /\ Stream(l)' = Tail(q)
  <2>1. Stream(l) \in Seq(Request) /\ Stream(l) # << >> /\ Head(Stream(l)) = resp
        /\ Stream(l)' = Tail(Stream(l))
    BY <1>2, <1>3, Zenon
  <2> QED BY <2>1
<1>5. PICK last \in BOOLEAN, half \in BOOLEAN : (last <=> l = LevelNum) /\ (half <=> Half(l + 1))
  OBVIOUS
<1>6. PICK st, n : st = Entry(l).status /\ n = Pending(l + 1)
  OBVIOUS
<1>7. LinkFits(last, st, n, half, q)
  BY <1>1, <1>4, <1>5, <1>6, LinkIs
<1>8. LinkFits(last, to, n, half, Tail(q))
  <2>1. /\ last => LinkFits(last, "RECV_WHOLE_LINE", n, half, Tail(q))
        /\ ~last /\ Head(q).subindex = 0 => LinkFits(last, "RECV_CRITICAL_SEG", n, half, Tail(q))
        /\ ~last /\ Head(q).subindex # 0 /\ Head(q).subindex = SegNum - 1 =>
               LinkFits(last, "RECV_WHOLE_LINE", n, half, Tail(q))
        /\ ~last /\ Head(q).subindex # 0 /\ Head(q).subindex # SegNum - 1 =>
               LinkFits(last, st, n, half, Tail(q))
    BY SMTT(60), <1>4, <1>7, FitsTaken
  <2> QED BY <1>4, <1>5, <1>6, <2>1
<1>9. Pending(l + 1)' = n /\ (half <=> Half(l + 1)')
  BY <1>5, <1>6 DEF Pending, Half
<1> QED BY <1>4, <1>5, <1>8, <1>9, LinkIsNext

\* The receipt of an answer keeps every link's protocol.
LEMMA RecvRespFits ==
  ASSUME DefaultChain, PortInv, NEW l \in Level, recvResp(l), UNCHANGED ev_handle_mem_req
  PROVE  Running' /\ IdsAreZero' /\ \A k \in Level : LinkInv(k)'
<1>1. ChainInv /\ IdsAreZero /\ Running
  BY DEF PortInv, CreditInv
<1>2. /\ in_access_resp[l] # << >> /\ in_access_resp' = [in_access_resp EXCEPT ![l] = Tail(@)]
      /\ UNCHANGED in_access_req
  BY DEF recvResp
<1>3. in_access_resp \in [Requester -> Seq(Answer)] /\ out_resp_queue \in [Level -> Seq(Answer)]
      /\ l \in Requester
  BY <1>1, LevelFacts DEF IdsAreZero
<1>4. /\ in_access_resp' \in [Requester -> Seq(Answer)] /\ in_access_resp'[l] = Tail(in_access_resp[l])
      /\ \A k \in Requester : k # l => in_access_resp'[k] = in_access_resp[k]
  <2>1. Tail(in_access_resp[l]) \in Seq(Answer)
    BY <1>2, <1>3, HeadAndTail
  <2> QED BY <1>2, <1>3, <2>1
<1>5. PICK resp \in Answer, req \in Question :
           /\ resp = Head(in_access_resp[l]) /\ req = Entry(l).req
           /\ UNCHANGED <<failed, tagram>>
           /\ \/ l = LevelNum /\ EntryMoves(l, "SEND_REQ", "RECV_WHOLE_LINE") /\ Respond(l, makeResp(l, req))
              \/ /\ l # LevelNum /\ resp.subindex = 0
                 /\ EntryMoves(l, "SEND_REQ", "RECV_CRITICAL_SEG") /\ Respond(l, makeCriticalResp(l, req))
              \/ /\ l # LevelNum /\ resp.subindex # 0 /\ resp.subindex = SegNum - 1
                 /\ EntryMoves(l, "RECV_CRITICAL_SEG", "RECV_WHOLE_LINE")
                 /\ Respond(l, makeNonCriticalResp(l, req))
              \/ /\ l # LevelNum /\ resp.subindex # 0 /\ resp.subindex # SegNum - 1
                 /\ UNCHANGED <<mshr, out_resp_queue>>
  BY RecvRespMoves
<1>6. \A k \in Level : LinkInv(k)
  BY DEF PortInv
<1>7. ASSUME NEW k \in Level PROVE k + 1 # Memory => k + 1 \in Level
  BY LevelFacts, LinkFacts
<1>8. ASSUME NEW from, NEW to, EntryMoves(l, from, to), NEW resps \in Seq(Answer), Respond(l, resps),
             \/ l = LevelNum /\ to = "RECV_WHOLE_LINE"
             \/ l # LevelNum /\ resp.subindex = 0 /\ to = "RECV_CRITICAL_SEG"
             \/ l # LevelNum /\ resp.subindex # 0 /\ resp.subindex = SegNum - 1 /\ to = "RECV_WHOLE_LINE",
             l # 1 =>
               \/ from = "SEND_REQ" /\ to = "RECV_WHOLE_LINE" /\ resps = Segments(req, 0)
               \/ from = "SEND_REQ" /\ to = "RECV_CRITICAL_SEG" /\ resps = <<[req EXCEPT !.subindex = 0]>>
               \/ from = "RECV_CRITICAL_SEG" /\ to = "RECV_WHOLE_LINE" /\ resps = Segments(req, 1)
      PROVE  IdsAreZero' /\ \A k \in Level : LinkInv(k)'
  <2>1. Entry(l)'.status = to /\ Entry(l)'.req = Entry(l).req /\ \A k \in Level : k # l => Entry(k)' = Entry(k)
    BY <1>8 DEF EntryMoves
  <2>2. /\ out_resp_queue'[l] = out_resp_queue[l] \o resps /\ out_resp_queue' \in [Level -> Seq(Answer)]
        /\ \A k \in Level : k # l => out_resp_queue'[k] = out_resp_queue[k]
    <3>1. out_resp_queue[l] \o resps \in Seq(Answer)
      BY <1>3, ConcatProperties
    <3> QED BY <1>3, <1>8, <3>1 DEF Respond
  <2>3. IdsAreZero'
    <3>1. \A k \in Level : Entry(k)'.req \in Question
      BY <1>1, <2>1 DEF IdsAreZero
    <3> QED BY <1>1, <1>2, <1>4, <2>2, <3>1 DEF IdsAreZero
  <2>4. ASSUME NEW k \in Level PROVE LinkInv(k)'
    <3>1. CASE k = l
      <4>1. l + 1 # Memory => Entry(l + 1)' = Entry(l + 1) /\ out_resp_queue'[l + 1] = out_resp_queue[l + 1]
        BY <1>7, <2>1, <2>2, LevelFacts
      <4>2. LinkInv(l)'
        BY <1>2, <1>4, <1>5, <1>8, <2>1, <4>1, LinkTaken
      <4> QED BY <3>1, <4>2
    <3>2. CASE k + 1 = l
      <4>1. k # l /\ l # 1 /\ k \in Requester
        BY <3>2, LevelFacts, AboveFacts
      <4>2. req \in Request /\ resps \in Seq(Request) /\ in_access_resp'[k] = in_access_resp[k]
        BY <1>4, <4>1, Kinds
      <4> QED BY <1>2, <1>8, <2>2, <3>2, <4>1, <4>2, AnswerAbove
    <3>3. CASE k # l /\ k + 1 # l
      <4>1. Stream(k)' = Stream(k)
        BY <1>4, <1>7, <2>2, <3>3, LevelFacts, StreamSame
      <4> QED BY <1>2, <1>6, <1>7, <2>1, <3>3, <4>1, LinkSame
    <3> QED BY <3>1, <3>2, <3>3
  <2> QED BY <2>3, <2>4
<1>9. CASE l = LevelNum /\ EntryMoves(l, "SEND_REQ", "RECV_WHOLE_LINE") /\ Respond(l, makeResp(l, req))
  <2>1. makeResp(l, req) \in Seq(Answer) /\ (l # 1 => makeResp(l, req) = Segments(req, 0))
    BY AnswersToAll DEF makeResp
  <2>2. IdsAreZero' /\ \A k \in Level : LinkInv(k)'
    BY <1>8, <1>9, <2>1
  <2> QED BY <1>1, <1>5, <2>2 DEF Running
<1>10. CASE /\ l # LevelNum /\ resp.subindex = 0
            /\ EntryMoves(l, "SEND_REQ", "RECV_CRITICAL_SEG") /\ Respond(l, makeCriticalResp(l, req))
  <2>1. /\ makeCriticalResp(l, req) \in Seq(Answer)
        /\ l # 1 => makeCriticalResp(l, req) = <<[req EXCEPT !.subindex = 0]>>
    BY AnswersToAll DEF makeCriticalResp
  <2>2. IdsAreZero' /\ \A k \in Level : LinkInv(k)'
    BY <1>8, <1>10, <2>1
  <2> QED BY <1>1, <1>5, <2>2 DEF Running
<1>11. CASE /\ l # LevelNum /\ resp.subindex # 0 /\ resp.subindex = SegNum - 1
            /\ EntryMoves(l, "RECV_CRITICAL_SEG", "RECV_WHOLE_LINE")
            /\ Respond(l, makeNonCriticalResp(l, req))
  <2>1. makeNonCriticalResp(l, req) \in Seq(Answer) /\ (l # 1 => makeNonCriticalResp(l, req) = Segments(req, 1))
    BY AnswersToAll DEF makeNonCriticalResp
  <2>2. IdsAreZero' /\ \A k \in Level : LinkInv(k)'
    BY <1>8, <1>11, <2>1
  <2> QED BY <1>1, <1>5, <2>2 DEF Running
<1>12. CASE /\ l # LevelNum /\ resp.subindex # 0 /\ resp.subindex # SegNum - 1
            /\ UNCHANGED <<mshr, out_resp_queue>>
  <2>1. \A k \in Level : Entry(k)' = Entry(k)
    BY <1>12 DEF Entry
  <2>2. IdsAreZero'
    BY <1>1, <1>2, <1>4, <1>12, <2>1 DEF IdsAreZero
  <2>3. ASSUME NEW k \in Level PROVE LinkInv(k)'
    <3>1. CASE k = l
      <4>1. l + 1 # Memory => Entry(l + 1)' = Entry(l + 1) /\ out_resp_queue'[l + 1] = out_resp_queue[l + 1]
        BY <1>7, <1>12, <2>1
      <4>2. LinkInv(l)'
        BY <1>2, <1>4, <1>5, <1>12, <2>1, <4>1, LinkTaken
      <4> QED BY <3>1, <4>2
    <3>2. CASE k # l
      <4>1. Stream(k)' = Stream(k)
        BY <1>4, <1>12, <3>2, LevelFacts, StreamSame
      <4> QED BY <1>2, <1>6, <1>7, <2>1, <4>1, LinkSame
    <3> QED BY <3>1, <3>2
  <2> QED BY <1>1, <1>5, <2>2, <2>3 DEF Running
<1> QED BY <1>5, <1>9, <1>10, <1>11, <1>12

\* A response goes from the queue of a cache to the port above.
LEMMA ArbiterParts ==
  ASSUME ChainInv, IdsAreZero, NEW l \in Level, outRespArbiter(l)
  PROVE  /\ l - 1 \in Requester /\ out_resp_queue[l] \in Seq(Answer) /\ out_resp_queue[l] # << >>
         /\ in_access_resp[l - 1] \in Seq(Answer)
         /\ in_access_resp'[l - 1] = Append(in_access_resp[l - 1], Head(out_resp_queue[l]))
         /\ in_access_resp' \in [Requester -> Seq(Answer)]
         /\ \A k \in Requester : k # l - 1 => in_access_resp'[k] = in_access_resp[k]
         /\ out_resp_queue'[l] = Tail(out_resp_queue[l]) /\ out_resp_queue' \in [Level -> Seq(Answer)]
         /\ \A k \in Level : k # l => out_resp_queue'[k] = out_resp_queue[k]
         /\ UNCHANGED <<mshr, in_access_req, failed>>
<1>1. /\ l \in ev_out_resp_arbiter /\ SendResp(l, Head(out_resp_queue[l]))
      /\ out_resp_queue' = [out_resp_queue EXCEPT ![l] = Tail(@)]
      /\ UNCHANGED <<mshr, in_access_req, failed>>
  BY DEF outRespArbiter
<1>2. in_access_resp \in [Requester -> Seq(Answer)] /\ out_resp_queue \in [Level -> Seq(Answer)]
  BY DEF IdsAreZero
<1>3. l - 1 \in Requester /\ out_resp_queue[l] # << >>
  BY <1>1, LevelFacts DEF ChainInv, NoLostMshrWakeup
<1>4. PICK a \in Seq(Answer), b \in Seq(Answer) : a = in_access_resp[l - 1] /\ b = out_resp_queue[l]
  BY <1>2, <1>3
<1>5. Append(a, Head(b)) \in Seq(Answer) /\ Tail(b) \in Seq(Answer)
  BY <1>3, <1>4, HeadAndTail
<1>6. in_access_resp' = [in_access_resp EXCEPT ![l - 1] = Append(a, Head(b))]
  BY <1>1, <1>4 DEF SendResp
<1>7. /\ in_access_resp' \in [Requester -> Seq(Answer)] /\ in_access_resp'[l - 1] = Append(a, Head(b))
      /\ \A k \in Requester : k # l - 1 => in_access_resp'[k] = in_access_resp[k]
  BY <1>2, <1>3, <1>5, <1>6, Updated
<1>8. /\ out_resp_queue' \in [Level -> Seq(Answer)] /\ out_resp_queue'[l] = Tail(b)
      /\ \A k \in Level : k # l => out_resp_queue'[k] = out_resp_queue[k]
  BY <1>1, <1>2, <1>4, <1>5
<1> QED BY <1>1, <1>3, <1>4, <1>7, <1>8

\* The arbiter passes answers on within a stream.
LEMMA ArbiterStream ==
  ASSUME PortInv, NEW l \in Level, outRespArbiter(l), NEW k \in Level
  PROVE  Stream(k)' = Stream(k)
<1>0. ChainInv /\ IdsAreZero
  BY DEF PortInv, CreditInv
<1>1. CASE k + 1 = l
  <2>1. k + 1 # Memory /\ k = l - 1
    <3>1. k + 1 # Memory /\ k \in Nat
      BY <1>1, AboveFacts, LevelFacts
    <3> QED BY <1>1, <3>1
  <2>2. PICK a \in Seq(Answer), b \in Seq(Answer) :
           a = in_access_resp[k] /\ b = out_resp_queue[l] /\ b # << >>
    BY <1>0, <2>1, ArbiterParts
  <2>3. Append(a, Head(b)) \o Tail(b) = a \o b
    BY <2>2, StreamPassed
  <2>4. in_access_resp'[k] = Append(a, Head(b)) /\ out_resp_queue'[k + 1] = Tail(b)
    BY <1>0, <1>1, <2>1, <2>2, ArbiterParts
  <2>5. Stream(k)' = Append(a, Head(b)) \o Tail(b) /\ Stream(k) = a \o b
    BY <1>1, <2>1, <2>2, <2>4 DEF Stream
  <2> QED BY <2>3, <2>5, Zenon
<1>2. CASE k + 1 # l
  <2>1. k # l - 1 /\ k \in Requester /\ (k + 1 # Memory => k + 1 \in Level)
    BY <1>2, LevelFacts, LinkFacts
  <2> QED BY <1>0, <1>2, <2>1, ArbiterParts, StreamSame
<1> QED BY <1>1, <1>2

\* A round of the arbiter keeps every link's protocol.
LEMMA OutRespFits ==
  ASSUME DefaultChain, PortInv, NEW l \in Level, outRespArbiter(l), UNCHANGED ev_handle_mem_req
  PROVE  Running' /\ IdsAreZero' /\ \A k \in Level : LinkInv(k)'
<1>1. ChainInv /\ IdsAreZero /\ Running
  BY DEF PortInv, CreditInv
<1>2. UNCHANGED <<mshr, in_access_req, failed>> /\ \A k \in Level : Entry(k)' = Entry(k)
  BY <1>1, ArbiterParts DEF Entry
<1>3. IdsAreZero'
  BY <1>1, <1>2, ArbiterParts DEF IdsAreZero
<1>4. ASSUME NEW k \in Level PROVE LinkInv(k)'
  <2>1. Stream(k)' = Stream(k)
    BY ArbiterStream
  <2>2. k + 1 # Memory => k + 1 \in Level
    BY LevelFacts, LinkFacts
  <2> QED BY <1>2, <2>1, <2>2, LinkSame DEF PortInv
<1> QED BY <1>1, <1>2, <1>3, <1>4 DEF Running

\* Whether a request is under way and whether the first segment is sent, as the
\* cache above sees them.
Begun(st) == st \in {"ALLOCATE", "SEND_REQ"}

\* A round of handleMshr keeps every link's protocol.
LEMMA HandleMshrFits ==
  ASSUME DefaultChain, PortInv, NEW l \in Level, handleMshr(l), UNCHANGED ev_handle_mem_req
  PROVE  Running' /\ IdsAreZero' /\ \A k \in Level : LinkInv(k)'
<1>1. ChainInv /\ IdsAreZero /\ Running
  BY DEF PortInv, CreditInv
<1>2. UNCHANGED <<out_resp_queue, in_access_resp, failed>>
  BY DEF handleMshr
<1>3. \A k \in Level : Stream(k)' = Stream(k)
  BY <1>2, StreamSame
<1>4. \A k \in Level : LinkInv(k) /\ (k + 1 # Memory => k + 1 \in Level)
  BY LevelFacts, LinkFacts DEF PortInv
<1>5. l + 1 \in Server /\ l # l + 1 /\ l # Memory
  BY LevelFacts, LinkFacts
<1>6. PICK r \in Question : r = Entry(l).req
  BY <1>1 DEF IdsAreZero
<1>7. in_access_req \in [Server -> Seq(Question)] /\ in_access_req[l + 1] \in Seq(Question)
  BY <1>1, <1>5 DEF IdsAreZero
<1>8. ASSUME NEW from, NEW to, EntryMoves(l, from, to), Begun(from) <=> Begun(to),
             from # "RECV_CRITICAL_SEG", to # "RECV_CRITICAL_SEG",
             LinkInv(l)', in_access_req' \in [Server -> Seq(Question)],
             \A k \in Server : k # l + 1 => in_access_req'[k] = in_access_req[k]
      PROVE  IdsAreZero' /\ \A k \in Level : LinkInv(k)'
  <2>1. /\ Entry(l).status = from /\ Entry(l)'.status = to /\ Entry(l)'.req = r
        /\ \A k \in Level : k # l => Entry(k)' = Entry(k)
    BY <1>6, <1>8 DEF EntryMoves
  <2>2. IdsAreZero'
    <3>1. \A k \in Level : Entry(k)'.req \in Question
      BY <1>1, <2>1 DEF IdsAreZero
    <3> QED BY <1>1, <1>2, <1>8, <3>1 DEF IdsAreZero
  <2>3. ASSUME NEW k \in Level PROVE LinkInv(k)'
    <3>1. CASE k = l
      BY <1>8, <3>1
    <3>2. CASE k + 1 = l
      <4>1. k # l /\ in_access_req'[l] = in_access_req[l] /\ l \in Server
        BY <1>5, <1>8, <3>2, LevelFacts
      <4>2. Pending(l)' = Pending(l)
        BY <1>5, <1>8, <2>1, <4>1 DEF Pending, Begun
      <4>3. Half(l)' = Half(l)
        BY <1>8, <2>1 DEF Half
      <4> QED BY <1>3, <1>4, <2>1, <3>2, <4>1, <4>2, <4>3 DEF LinkInv
    <3>3. CASE k # l /\ k + 1 # l
      <4>1. k + 1 \in Server /\ k + 1 # l + 1
        BY <3>3, LevelFacts
      <4> QED BY <1>3, <1>4, <1>8, <2>1, <3>3, <4>1, LinkSame
    <3> QED BY <3>1, <3>2, <3>3
  <2> QED BY <2>2, <2>3
<1>9. ASSUME NEW from, NEW to, EntryMoves(l, from, to), UNCHANGED in_access_req,
             from \in {"RECV_WHOLE_LINE", "REFILL"}, to \in {"REFILL", "NO_TYPE"}
      PROVE  IdsAreZero' /\ \A k \in Level : LinkInv(k)'
  <2>1. /\ Entry(l).status = from /\ Entry(l)'.status = to
        /\ \A k \in Level : k # l => Entry(k)' = Entry(k)
    BY <1>9 DEF EntryMoves
  <2>2. Pending(l + 1)' = Pending(l + 1) /\ Half(l + 1)' = Half(l + 1)
    BY <1>4, <1>5, <1>9, <2>1 DEF Pending, Half
  <2>3. LinkFits(l = LevelNum, from, Pending(l + 1), Half(l + 1), Stream(l))
    BY <1>4, <2>1 DEF LinkInv
  <2>4. LinkFits(l = LevelNum, to, Pending(l + 1), Half(l + 1), Stream(l))
    BY <1>9, <2>3, FitsElsewhere
  <2>5. LinkInv(l)'
    BY <1>3, <2>1, <2>2, <2>4 DEF LinkInv
  <2>6. Begun(from) <=> Begun(to)
    BY <1>9 DEF Begun
  <2> QED BY <1>7, <1>8, <1>9, <2>5, <2>6
<1>10. CASE /\ EntryMoves(l, "ALLOCATE", "SEND_REQ")
            /\ in_access_req' = [in_access_req EXCEPT ![l + 1] = Append(@, Entry(l).req)]
  <2>1. PICK s \in Seq(Question) : s = in_access_req[l + 1]
    BY <1>7
  <2>2. Append(s, r) \in Seq(Question) /\ Len(Append(s, r)) = Len(s) + 1 /\ Len(s) \in Nat
    OBVIOUS
  <2>3. /\ in_access_req' \in [Server -> Seq(Question)] /\ in_access_req'[l + 1] = Append(s, r)
        /\ \A k \in Server : k # l + 1 => in_access_req'[k] = in_access_req[k]
    BY <1>5, <1>6, <1>7, <1>10, <2>1, <2>2
  <2>4. /\ Entry(l).status = "ALLOCATE" /\ Entry(l)'.status = "SEND_REQ"
        /\ \A k \in Level : k # l => Entry(k)' = Entry(k)
    BY <1>10 DEF EntryMoves
  <2>5. PICK half \in BOOLEAN, last \in BOOLEAN : (half <=> Half(l + 1)) /\ (last <=> l = LevelNum)
    OBVIOUS
  <2>6. half <=> Half(l + 1)'
    BY <1>4, <1>5, <2>4, <2>5 DEF Half
  <2>7. LinkFits(last, "ALLOCATE", Pending(l + 1), half, Stream(l))
    BY <1>4, <2>4, <2>5, LinkIs
  <2>8. Pending(l + 1) = 0 /\ LinkFits(last, "SEND_REQ", 1, half, Stream(l))
    BY <2>7, FitsAsked
  <2>9. Pending(l + 1)' = 1
    <3>1. PICK n \in Nat : n = Len(s)
      BY <2>2
    <3>2. PICK b \in Nat : b = IF l + 1 = Memory THEN Len(ev_handle_mem_req)
                               ELSE IF Entry(l + 1).status \in {"ALLOCATE", "SEND_REQ"} THEN 1 ELSE 0
      <4>1. Len(ev_handle_mem_req) \in Nat
        BY <1>1 DEF IdsAreZero
      <4> QED BY <4>1
    <3>3. Pending(l + 1) = n + b
      BY <2>1, <3>1, <3>2 DEF Pending
    <3>4. Len(in_access_req'[l + 1]) = n + 1
      BY <2>2, <2>3, <3>1
    <3>5. b = IF l + 1 = Memory THEN Len(ev_handle_mem_req')
              ELSE IF Entry(l + 1)'.status \in {"ALLOCATE", "SEND_REQ"} THEN 1 ELSE 0
      BY <1>4, <1>5, <2>4, <3>2
    <3>6. Pending(l + 1)' = (n + 1) + b
      BY <3>4, <3>5 DEF Pending
    <3>7. n + b = 0 => (n + 1) + b = 1
      OBVIOUS
    <3> QED BY <2>8, <3>3, <3>6, <3>7
  <2>10. LinkInv(l)'
    BY <1>3, <2>4, <2>5, <2>6, <2>8, <2>9, LinkIsNext
  <2>11. Begun("ALLOCATE") <=> Begun("SEND_REQ")
    BY DEF Begun
  <2>12. IdsAreZero' /\ \A k \in Level : LinkInv(k)'
    BY <1>8, <1>10, <2>3, <2>10, <2>11
  <2> QED BY <1>1, <1>2, <2>12 DEF Running
<1>11. CASE EntryMoves(l, "RECV_WHOLE_LINE", "REFILL") /\ UNCHANGED in_access_req
  <2>1. IdsAreZero' /\ \A k \in Level : LinkInv(k)'
    BY <1>9, <1>11
  <2> QED BY <1>1, <1>2, <2>1 DEF Running
<1>12. CASE EntryMoves(l, "REFILL", "NO_TYPE") /\ UNCHANGED in_access_req
  <2>1. IdsAreZero' /\ \A k \in Level : LinkInv(k)'
    BY <1>9, <1>12
  <2> QED BY <1>1, <1>2, <2>1 DEF Running
<1>13. CASE (\A k \in Level : Entry(k)' = Entry(k)) /\ UNCHANGED in_access_req
  <2>1. IdsAreZero'
    BY <1>1, <1>2, <1>13 DEF IdsAreZero
  <2>2. \A k \in Level : LinkInv(k)'
    BY <1>3, <1>4, <1>13, LinkSame
  <2> QED BY <1>1, <1>2, <2>1, <2>2 DEF Running
<1> QED BY <1>1, <1>10, <1>11, <1>12, <1>13, EntryRound

\* The memory moves a request from its port to its schedule, and answers it.
LEMMA MemoryFits ==
  ASSUME DefaultChain, PortInv, MemoryStep
  PROVE  Running' /\ IdsAreZero' /\ \A k \in Level : LinkInv(k)'
<1>1. ChainInv /\ IdsAreZero /\ Running /\ UNCHANGED <<mshr, out_resp_queue>>
  BY DEF PortInv, CreditInv, MemoryStep, cacheVars
<1>2. \A k \in Level : Entry(k)' = Entry(k)
  BY <1>1 DEF Entry
<1>3. /\ in_access_req \in [Server -> Seq(Question)] /\ in_access_resp \in [Requester -> Seq(Answer)]
      /\ ev_handle_mem_req \in Seq(Question)
  BY <1>1 DEF IdsAreZero
<1>4. PICK s \in Seq(Question), e \in Seq(Question) : s = in_access_req[Memory] /\ e = ev_handle_mem_req
  BY <1>3, LinkFacts
<1>5. \A k \in Level : /\ LinkInv(k) /\ (k + 1 = Memory <=> k = LevelNum) /\ k + 1 \in Server
                       /\ k \in Requester /\ (k + 1 # Memory => k + 1 \in Level)
  BY LevelFacts, LinkFacts, LinkParts
<1>6. CASE receive_mem_req
  <2>1. /\ s # << >> /\ ev_handle_mem_req' = Append(e, Head(s))
        /\ in_access_req' = [in_access_req EXCEPT ![Memory] = Tail(@)]
        /\ UNCHANGED <<in_access_resp, failed>>
    BY <1>4, <1>6 DEF receive_mem_req
  <2>2. /\ Append(e, Head(s)) \in Seq(Question) /\ Tail(s) \in Seq(Question)
        /\ Len(Append(e, Head(s))) = Len(e) + 1 /\ Len(Tail(s)) = Len(s) - 1
        /\ Len(s) \in Nat \ {0} /\ Len(e) \in Nat
    BY <2>1, HeadAndTail
  <2>3. /\ in_access_req' \in [Server -> Seq(Question)] /\ in_access_req'[Memory] = Tail(s)
        /\ \A k \in Server : k # Memory => in_access_req'[k] = in_access_req[k]
    BY <1>3, <1>4, <2>1, <2>2, LinkFacts
  <2>4. IdsAreZero'
    BY <1>1, <1>2, <2>1, <2>2, <2>3 DEF IdsAreZero
  <2>5. Pending(Memory)' = Pending(Memory)
    <3>1. PICK n \in Nat \ {0}, m \in Nat : n = Len(s) /\ m = Len(e)
      BY <2>2
    <3>2. Pending(Memory) = n + m
      BY <1>4, <3>1 DEF Pending
    <3>3. Len(in_access_req'[Memory]) = n - 1 /\ Len(ev_handle_mem_req') = m + 1
      BY <2>1, <2>2, <2>3, <3>1
    <3>4. Pending(Memory)' = (n - 1) + (m + 1)
      BY <3>3 DEF Pending
    <3>5. (n - 1) + (m + 1) = n + m
      OBVIOUS
    <3> QED BY <3>2, <3>4, <3>5
  <2>6. \A k \in Level : Stream(k)' = Stream(k)
    BY <1>1, <2>1, StreamSame
  <2>7. ASSUME NEW k \in Level PROVE LinkInv(k)'
    <3>1. CASE k = LevelNum
      <4>1. k + 1 = Memory
        BY <1>5, <3>1
      <4>2. Half(k + 1)' = Half(k + 1)
        BY <4>1 DEF Half
      <4> QED BY <1>2, <1>5, <2>5, <2>6, <4>1, <4>2 DEF LinkInv
    <3>2. CASE k # LevelNum
      BY <1>2, <1>5, <2>3, <2>6, <3>2, LinkSame
    <3> QED BY <3>1, <3>2
  <2> QED BY <1>1, <2>1, <2>4, <2>7 DEF Running
<1>7. CASE handle_mem_req
  <2>1. /\ e # << >> /\ ev_handle_mem_req' = Tail(e) /\ SendResp(Memory, Head(e))
        /\ UNCHANGED <<in_access_req, failed>>
    BY <1>4, <1>7 DEF handle_mem_req
  <2>2. PICK r \in Question : r = Head(e)
    BY <2>1, HeadAndTail
  <2>3. Tail(e) \in Seq(Question) /\ Len(Tail(e)) = Len(e) - 1 /\ Len(e) \in Nat \ {0} /\ Len(s) \in Nat
    BY <2>1, HeadAndTail
  <2>4. Memory - 1 = LevelNum /\ LevelNum \in Requester /\ LevelNum \in Level
    <3>1. Memory - 1 = LevelNum
      BY UncoreAssumption DEF Memory
    <3> QED BY <3>1, LinkFacts, LevelFacts
  <2>5. PICK a \in Seq(Answer) : a = in_access_resp[LevelNum]
    BY <1>3, <2>4
  <2>6. Append(a, r) \in Seq(Answer)
    BY Kinds
  <2>7. in_access_resp' = [in_access_resp EXCEPT ![LevelNum] = Append(a, r)]
    BY <2>1, <2>2, <2>4, <2>5 DEF SendResp
  <2>8. /\ in_access_resp' \in [Requester -> Seq(Answer)] /\ in_access_resp'[LevelNum] = Append(a, r)
        /\ \A k \in Requester : k # LevelNum => in_access_resp'[k] = in_access_resp[k]
    BY <1>3, <2>4, <2>6, <2>7, Updated
  <2>9. IdsAreZero'
    BY <1>1, <1>2, <2>1, <2>3, <2>8 DEF IdsAreZero
  <2>10. ASSUME NEW k \in Level PROVE LinkInv(k)'
    <3>1. CASE k # LevelNum
      <4>1. Stream(k)' = Stream(k)
        BY <1>1, <1>5, <2>8, <3>1, StreamSame
      <4> QED BY <1>2, <1>5, <2>1, <3>1, <4>1, LinkSame
    <3>2. CASE k = LevelNum
      <4>1. k + 1 = Memory
        BY <1>5, <3>2
      <4>2. ~Half(k + 1) /\ ~Half(k + 1)'
        BY <4>1 DEF Half
      <4>3. PICK n \in Nat, m \in Nat \ {0} : n = Len(s) /\ m = Len(e)
        BY <2>3
      <4>4. Pending(k + 1) = n + m
        BY <1>4, <4>1, <4>3 DEF Pending
      <4>5. Len(in_access_req'[Memory]) = n /\ Len(ev_handle_mem_req') = m - 1
        BY <1>4, <2>1, <2>3, <4>3
      <4>6. Pending(k + 1)' = n + (m - 1)
        BY <4>1, <4>5 DEF Pending
      <4>7. LinkFits(TRUE, Entry(k).status, n + m, FALSE, Stream(k))
        BY <1>5, <3>2, <4>2, <4>4, LinkIs
      <4>8. n + m = 1
        <5>1. n + m \in Nat /\ n + m # 0
          OBVIOUS
        <5> QED BY <4>7, <5>1, FitsPending
      <4>9. n + (m - 1) = 0
        BY <4>8
      <4>10. PICK q \in Seq(Request) : q = Stream(k)
        BY LinkParts
      <4>11. a \o << >> = a /\ Append(a, r) \o << >> = Append(a, r)
        BY <2>6
      <4>12. q = a /\ Stream(k)' = Append(q, r)
        <5>1. Stream(k) = a \o << >> /\ Stream(k)' = Append(a, r) \o << >>
          BY <2>5, <2>8, <3>2, <4>1 DEF Stream
        <5> QED BY <4>10, <4>11, <5>1, Zenon
      <4>13. LinkFits(TRUE, Entry(k).status, 0, FALSE, Append(q, r))
        BY <4>7, <4>8, <4>10, FitsMemory
      <4> QED BY <1>2, <3>2, <4>2, <4>6, <4>9, <4>12, <4>13, LinkIsNext
    <3> QED BY <3>1, <3>2
  <2> QED BY <1>1, <2>1, <2>9, <2>10 DEF Running
<1> QED BY <1>6, <1>7 DEF MemoryStep

\* The core's own steps and the credits leave the links between caches alone.
LEMMA OutsideFits ==
  ASSUME PortInv, UNCHANGED <<mshr, out_resp_queue, ev_handle_mem_req, failed>>,
         in_access_req' \in [Server -> Seq(Question)], in_access_resp' \in [Requester -> Seq(Answer)],
         \A k \in Server : k # 1 => in_access_req'[k] = in_access_req[k],
         \A k \in Requester : k # 0 => in_access_resp'[k] = in_access_resp[k]
  PROVE  Running' /\ IdsAreZero' /\ \A k \in Level : LinkInv(k)'
<1>1. \A k \in Level : Entry(k)' = Entry(k)
  BY DEF Entry
<1>2. IdsAreZero'
  BY <1>1 DEF PortInv, IdsAreZero
<1>3. ASSUME NEW k \in Level PROVE LinkInv(k)'
  <2>1. k \in Requester /\ k # 0 /\ k + 1 \in Server /\ k + 1 # 1 /\ (k + 1 # Memory => k + 1 \in Level)
    BY LevelFacts, LinkFacts
  <2>2. Stream(k)' = Stream(k)
    BY <2>1, StreamSame
  <2> QED BY <1>1, <2>1, <2>2, LinkSame DEF PortInv
<1> QED BY <1>2, <1>3 DEF PortInv, Running

\* The core's request keeps every link's protocol.
LEMMA CoreAskFits ==
  ASSUME PortInv, NEW line \in Line, CoreAsk(line)
  PROVE  Running' /\ IdsAreZero' /\ \A k \in Level : LinkInv(k)'
<1>1. /\ in_access_req \in [Server -> Seq(Question)] /\ in_access_resp \in [Requester -> Seq(Answer)]
      /\ 1 \in Server /\ answers \in Seq(Nat)
  BY LinkFacts DEF PortInv, IdsAreZero, CreditInv, ChainInv, OtherTypes
<1>2. PICK r : r = [id |-> Len(answers) + 1, line |-> line, mshrid |-> 0, subindex |-> 0]
  OBVIOUS
<1>3. /\ in_access_req' = [in_access_req EXCEPT ![1] = Append(@, r)] /\ UNCHANGED in_access_resp
      /\ UNCHANGED <<mshr, out_resp_queue, ev_handle_mem_req, failed>> /\ Len(answers) < ReqNum
  BY <1>2 DEF CoreAsk, cacheVars
<1>4. r \in Question
  <2>1. PICK n \in Nat : n = Len(answers)
    BY <1>1
  <2>2. n + 1 \in 0 .. ReqNum
    BY <1>3, <2>1, UncoreAssumption
  <2> QED BY <1>2, <2>1, <2>2 DEF Question
<1>5. /\ in_access_req' \in [Server -> Seq(Question)]
      /\ \A k \in Server : k # 1 => in_access_req'[k] = in_access_req[k]
  <2>1. Append(in_access_req[1], r) \in Seq(Question)
    BY <1>1, <1>4
  <2> QED BY <1>1, <1>3, <2>1
<1> QED BY <1>1, <1>3, <1>5, OutsideFits

\* The core's receipt of an answer keeps every link's protocol.
LEMMA CoreRecvFits ==
  ASSUME PortInv, CoreRecvResp
  PROVE  Running' /\ IdsAreZero' /\ \A k \in Level : LinkInv(k)'
<1>1. /\ in_access_req \in [Server -> Seq(Question)] /\ in_access_resp \in [Requester -> Seq(Answer)]
      /\ 0 \in Requester
  BY LinkFacts DEF PortInv, IdsAreZero
<1>2. /\ in_access_resp[0] # << >> /\ in_access_resp' = [in_access_resp EXCEPT ![0] = Tail(@)]
      /\ UNCHANGED in_access_req /\ UNCHANGED <<mshr, out_resp_queue, ev_handle_mem_req, failed>>
  BY DEF CoreRecvResp, cacheVars
<1>3. Tail(in_access_resp[0]) \in Seq(Answer)
  BY <1>1, <1>2, HeadAndTail
<1>4. /\ in_access_resp' \in [Requester -> Seq(Answer)]
      /\ \A k \in Requester : k # 0 => in_access_resp'[k] = in_access_resp[k]
  BY <1>1, <1>2, <1>3
<1> QED BY <1>1, <1>2, <1>4, OutsideFits

\* The walk over the miss queue stays inside it.
LEMMA NoOverrun ==
  ASSUME DefaultChain, ChainInv, NEW l \in Level
  PROVE  ~OverrunMshr(l)
<1>1. PICK m : m = mshrDeallocate(mshr[l])
  OBVIOUS
<1>2. MissQueue(1, m) /\ MshrSize[l] = 1 /\ mshr[l].header = 0
  BY <1>1, AfterWalk, EntryFacts DEF DefaultChain
<1>3. m.used \in 0 .. 1
  BY <1>2, MissQueueFields
<1>4. ~(0 + m.used > 1)
  BY <1>3
<1> QED BY <1>1, <1>2, <1>4 DEF OverrunMshr

\* The initial states satisfy PortInv.
LEMMA PortInit == Init /\ DefaultChain => PortInv
<1> SUFFICES ASSUME Init, DefaultChain PROVE PortInv
  OBVIOUS
<1>1. CreditInv
  BY ChainInit, CreditsInit DEF CreditInv, Init, PortsInit, None
<1>2. /\ in_access_req = [s \in Server |-> << >>] /\ in_access_resp = [k \in Requester |-> << >>]
      /\ out_resp_queue = [k \in Level |-> << >>] /\ ev_handle_mem_req = << >> /\ Running
      /\ mshr = [k \in Level |-> NewMshr(MshrSize[k], NoRequest)]
  BY DEF Init, PortsInit, CacheInit, MemoryInit, Running
<1>3. \A k \in Level : Entry(k).status = "NO_TYPE" /\ Entry(k).req = NoRequest
  <2>1. 0 \in 0 .. 1 - 1
    OBVIOUS
  <2> QED BY <1>2, <2>1 DEF Entry, NewMshr, DefaultChain
<1>4. NoRequest \in Question
  <2>1. 0 \in 0 .. ReqNum /\ 0 \in Line
    BY UncoreAssumption DEF Line
  <2> QED BY <2>1 DEF NoRequest, Question
<1>5. IdsAreZero
  BY <1>2, <1>3, <1>4 DEF IdsAreZero
<1>6. ASSUME NEW k \in Level PROVE LinkInv(k)
  <2>1. k \in Requester /\ k + 1 \in Server /\ (k + 1 # Memory => k + 1 \in Level)
    BY LevelFacts, LinkFacts
  <2>2. Stream(k) = << >>
    BY <1>2, <2>1 DEF Stream
  <2>3. Pending(k + 1) = 0
    <3>1. Len(in_access_req[k + 1]) = 0 /\ Len(ev_handle_mem_req) = 0
      BY <1>2, <2>1
    <3> QED BY <1>3, <2>1, <3>1 DEF Pending
  <2>4. ~Half(k + 1)
    BY <1>3, <2>1 DEF Half
  <2> QED BY <1>3, <2>2, <2>3, <2>4 DEF LinkInv, LinkFits
<1> QED BY <1>1, <1>2, <1>5, <1>6 DEF PortInv

\* Every step keeps PortInv.
LEMMA PortStepKeeps == DefaultChain /\ PortInv /\ [Next]_vars => PortInv'
<1> SUFFICES ASSUME DefaultChain, PortInv, [Next]_vars PROVE PortInv'
  OBVIOUS
<1>1. CreditInv' /\ ChainInv
  BY DefaultFits, CreditStepKeeps DEF PortInv, CreditInv
<1>2. ASSUME Running' /\ IdsAreZero' /\ \A k \in Level : LinkInv(k)' PROVE PortInv'
  BY <1>1, <1>2 DEF PortInv
<1>3. ASSUME NEW line \in Line, CoreAsk(line) PROVE PortInv'
  BY <1>2, <1>3, CoreAskFits
<1>4. ASSUME CoreRecvResp PROVE PortInv'
  BY <1>2, <1>4, CoreRecvFits
<1>5. ASSUME MemoryStep PROVE PortInv'
  BY <1>2, <1>5, MemoryFits
<1>6. /\ in_access_req \in [Server -> Seq(Question)] /\ in_access_resp \in [Requester -> Seq(Answer)]
  BY DEF PortInv, IdsAreZero
<1>7. ASSUME NEW l \in Requester, CreditStep(l) PROVE PortInv'
  <2>1. /\ UNCHANGED <<mshr, out_resp_queue, ev_handle_mem_req, failed>>
        /\ UNCHANGED <<in_access_req, in_access_resp>>
    BY <1>7 DEF CreditStep, recvCredit, cacheVars
  <2> QED BY <1>2, <1>6, <2>1, OutsideFits
<1>8. ASSUME NEW l \in Level, CacheStep(l) PROVE PortInv'
  <2>1. UNCHANGED ev_handle_mem_req
    BY <1>8 DEF CacheStep
  <2>2. CASE funcaccess(l)
    BY <1>2, <2>1, <2>2, FuncaccessFits
  <2>3. CASE recvResp(l)
    BY <1>2, <2>1, <2>3, RecvRespFits
  <2>4. CASE handleMshr(l)
    BY <1>2, <2>1, <2>4, HandleMshrFits
  <2>5. CASE outRespArbiter(l)
    BY <1>2, <2>1, <2>5, OutRespFits
  <2> QED BY <1>1, <1>8, <2>2, <2>3, <2>4, <2>5, NoOverrun DEF CacheStep
<1>9. ASSUME UNCHANGED vars PROVE PortInv'
  <2>1. /\ UNCHANGED <<mshr, out_resp_queue, ev_handle_mem_req, failed>>
        /\ UNCHANGED <<in_access_req, in_access_resp>>
    BY <1>9 DEF vars, portVars, cacheVars
  <2> QED BY <1>2, <1>6, <2>1, OutsideFits
<1> QED BY <1>3, <1>4, <1>5, <1>7, <1>8, <1>9 DEF Next, CoreStep, Handlers

\* No assertion of the caches and of the memory fails, in every chain of caches
\* with the default parameters, however long: a miss finds a free entry, each
\* response finds the entry that waits for it and the last segment comes after
\* the first (mshr_avail and the assertions of recvResp, mshrRecvResp and
\* MSHR::deallocate).
THEOREM AssertionsNeverFail == ASSUME DefaultChain PROVE Spec => []AssertionsHold
<1>1. Init => PortInv
  BY PortInit
<1>2. PortInv /\ [Next]_vars => PortInv'
  BY PortStepKeeps
<1>3. PortInv => AssertionsHold
  BY DEF PortInv, AssertionsHold
<1> QED BY <1>1, <1>2, <1>3, PTL DEF Spec

-----------------------------------------------------------------------------
(* The chain implements MemoryPort, and its caches are inclusive.          *)

\* The miss under way in the first cache that has not been answered yet.
MissWaiting == IF Begun(Entry(1).status) THEN <<Entry(1).req>> ELSE << >>

\* The requests of the core that have no answer yet, in the order of asking.
Waiting == in_access_resp[0] \o out_resp_queue[1] \o MissWaiting \o in_access_req[1]

\* The last requests made wait, in order; the ones before them have their answer.
Ordered(w, ans) ==
    /\ Len(w) <= Len(ans)
    /\ \A i \in 1 .. Len(w) : w[i].id = Len(ans) - Len(w) + i
    /\ \A r \in 1 .. Len(ans) : ans[r] = IF r <= Len(ans) - Len(w) THEN 1 ELSE 0

AnswersInv == Ordered(Waiting, answers)

-----------------------------------------------------------------------------
(* The queue of the requests that wait.                                    *)

\* A new request comes last in the line of those that wait.
LEMMA OrderedAsked ==
  ASSUME NEW w \in Seq(Request), NEW ans \in Seq(Nat), Ordered(w, ans),
         NEW r \in Request, r.id = Len(ans) + 1
  PROVE  Ordered(Append(w, r), Append(ans, 0))
<1>1. PICK n \in Nat, m \in Nat : n = Len(w) /\ m = Len(ans)
  OBVIOUS
<1>2. PICK v \in Seq(Request), b \in Seq(Nat) : v = Append(w, r) /\ b = Append(ans, 0)
  <2>1. Append(w, r) \in Seq(Request) /\ Append(ans, 0) \in Seq(Nat)
    OBVIOUS
  <2> QED BY <2>1
<1>3. /\ Len(v) = n + 1 /\ v[n + 1] = r /\ \A i \in 1 .. n : v[i] = w[i]
      /\ Len(b) = m + 1 /\ b[m + 1] = 0 /\ \A i \in 1 .. m : b[i] = ans[i]
  BY <1>1, <1>2
<1>4. /\ n <= m /\ \A i \in 1 .. n : w[i].id = m - n + i
      /\ \A i \in 1 .. m : ans[i] = IF i <= m - n THEN 1 ELSE 0
  BY <1>1 DEF Ordered
<1>5. n + 1 <= m + 1
  BY <1>4
<1>6. ASSUME NEW i \in 1 .. n + 1 PROVE v[i].id = (m + 1) - (n + 1) + i
  <2>1. CASE i \in 1 .. n
    <3>1. v[i].id = m - n + i
      BY <1>3, <1>4, <2>1
    <3>2. m - n + i = (m + 1) - (n + 1) + i
      OBVIOUS
    <3> QED BY <3>1, <3>2
  <2>2. CASE i = n + 1
    BY <1>1, <1>3, <2>2
  <2> QED BY <2>1, <2>2
<1>7. ASSUME NEW i \in 1 .. m + 1 PROVE b[i] = IF i <= (m + 1) - (n + 1) THEN 1 ELSE 0
  <2>1. CASE i \in 1 .. m
    BY <1>3, <1>4, <2>1
  <2>2. CASE i = m + 1
    BY <1>3, <2>2
  <2> QED BY <2>1, <2>2
<1> QED BY <1>2, <1>3, <1>5, <1>6, <1>7 DEF Ordered

\* The first in the line is answered, and leaves it.
LEMMA OrderedAnswered ==
  ASSUME NEW w \in Seq(Request), NEW ans \in Seq(Nat), Ordered(w, ans), w # << >>,
         NEW r, r = Head(w).id
  PROVE  /\ r \in 1 .. Len(ans) /\ ans[r] = 0
         /\ Ordered(Tail(w), [ans EXCEPT ![r] = 1])
<1>1. PICK n \in Nat \ {0}, m \in Nat : n = Len(w) /\ m = Len(ans)
  BY HeadAndTail
<1>2. PICK v \in Seq(Request) : /\ v = Tail(w) /\ Len(v) = n - 1 /\ Head(w) = w[1]
                                /\ \A i \in 1 .. n - 1 : v[i] = w[i + 1]
  BY <1>1, HeadAndTail
<1>3. /\ n <= m /\ \A i \in 1 .. n : w[i].id = m - n + i
      /\ \A i \in 1 .. m : ans[i] = IF i <= m - n THEN 1 ELSE 0
  BY <1>1 DEF Ordered
<1>4. r = m - n + 1 /\ r \in 1 .. m
  BY <1>2, <1>3
<1>5. ans[r] = 0
  BY <1>3, <1>4
<1>6. PICK b : b = [ans EXCEPT ![r] = 1]
  OBVIOUS
<1>7. Len(b) = m /\ b[r] = 1 /\ \A i \in 1 .. m : i # r => b[i] = ans[i]
  BY <1>1, <1>4, <1>6
<1>8. n - 1 <= m
  BY <1>3
<1>9. ASSUME NEW i \in 1 .. n - 1 PROVE v[i].id = m - (n - 1) + i
  <2>1. i + 1 \in 1 .. n /\ m - n + (i + 1) = m - (n - 1) + i
    OBVIOUS
  <2> QED BY <1>2, <1>3, <2>1
<1>10. ASSUME NEW i \in 1 .. m PROVE b[i] = IF i <= m - (n - 1) THEN 1 ELSE 0
  <2>1. CASE i = r
    BY <1>4, <1>7, <2>1
  <2>2. CASE i # r
    <3>1. b[i] = IF i <= m - n THEN 1 ELSE 0
      BY <1>3, <1>7, <2>2
    <3>2. i <= m - n <=> i <= m - (n - 1)
      <4>1. PICK k \in Nat : k = m - n
        BY <1>3
      <4>2. i # k + 1 /\ m - (n - 1) = k + 1
        BY <1>4, <2>2, <4>1
      <4> QED BY <4>1, <4>2
    <3> QED BY <3>1, <3>2
  <2> QED BY <2>1, <2>2
<1>11. Ordered(v, b)
  BY <1>2, <1>7, <1>8, <1>9, <1>10 DEF Ordered
<1> QED BY <1>1, <1>2, <1>4, <1>5, <1>6, <1>11

\* A request that goes from one part of the queue to the next: from the queue
\* of the cache to its port, and from the port above to an entry, from there to
\* the queue, or from the port to the queue at once.
LEMMA QueueIsSeq ==
  ASSUME NEW s \in Seq(Request), NEW t \in Seq(Request), NEW u \in Seq(Request), NEW v \in Seq(Request)
  PROVE  s \o t \o u \o v \in Seq(Request)
<1>1. PICK st \in Seq(Request) : st = s \o t
  <2>1. s \o t \in Seq(Request)
    BY ConcatProperties
  <2> QED BY <2>1
<1>2. PICK stu \in Seq(Request) : stu = st \o u
  <2>1. st \o u \in Seq(Request)
    BY ConcatProperties
  <2> QED BY <2>1
<1>3. stu \o v \in Seq(Request)
  BY ConcatProperties
<1> QED BY <1>1, <1>2, <1>3, Zenon

\* The line, when a miss is answered: only the boundary between its parts
\* moves.
LEMMA QueueAnswers ==
  ASSUME NEW s \in Seq(Request), NEW t \in Seq(Request), NEW x \in Request, NEW v
  PROVE  s \o (t \o <<x>>) \o << >> \o v = s \o t \o <<x>> \o v
<1>1. <<x>> \in Seq(Request)
  OBVIOUS
<1>2. s \o (t \o <<x>>) = (s \o t) \o <<x>> /\ t \o <<x>> \in Seq(Request)
  BY <1>1, StreamJoined
<1>3. PICK d \in Seq(Request) : d = s \o (t \o <<x>>)
  <2>1. s \o (t \o <<x>>) \in Seq(Request)
    BY <1>2, ConcatProperties
  <2> QED BY <2>1
<1>4. d \o << >> = d
  OBVIOUS
<1> QED BY <1>2, <1>3, <1>4, Zenon

\* The line, when a lookup misses.
LEMMA QueueMisses ==
  ASSUME NEW s \in Seq(Request), NEW t \in Seq(Request), NEW v \in Seq(Request), v # << >>
  PROVE  s \o t \o <<Head(v)>> \o Tail(v) = s \o t \o << >> \o v
<1>1. PICK st \in Seq(Request) : st = s \o t
  <2>1. s \o t \in Seq(Request)
    BY ConcatProperties
  <2> QED BY <2>1
<1>2. Append(st, Head(v)) \o Tail(v) = st \o v
  BY StreamPassed
<1>3. Head(v) \in Request
  BY HeadAndTail
<1>4. Append(st, Head(v)) = st \o <<Head(v)>> /\ st \o << >> = st
  BY <1>3
<1> QED BY <1>1, <1>2, <1>4, Zenon

\* The line, when a lookup hits.
LEMMA QueueHits ==
  ASSUME NEW s \in Seq(Request), NEW t \in Seq(Request), NEW v \in Seq(Request), v # << >>
  PROVE  s \o (t \o <<Head(v)>>) \o << >> \o Tail(v) = s \o t \o << >> \o v
<1>1. Head(v) \in Request
  BY HeadAndTail
<1>2. s \o (t \o <<Head(v)>>) \o << >> \o Tail(v) = s \o t \o <<Head(v)>> \o Tail(v)
  BY SMTT(60), <1>1, QueueAnswers
<1>3. s \o t \o <<Head(v)>> \o Tail(v) = s \o t \o << >> \o v
  BY QueueMisses
<1> QED BY <1>2, <1>3, Zenon

-----------------------------------------------------------------------------
(* Each action keeps the queue, asks or answers.                           *)

\* The parts of the line are sequences of requests.
LEMMA WaitingParts ==
  ASSUME PortInv
  PROVE  /\ in_access_resp[0] \in Seq(Request) /\ out_resp_queue[1] \in Seq(Request)
         /\ MissWaiting \in Seq(Request) /\ in_access_req[1] \in Seq(Request)
         /\ in_access_req[1] \in Seq(Question) /\ in_access_resp[0] \in Seq(Answer)
         /\ out_resp_queue[1] \in Seq(Answer)
         /\ Entry(1).req \in Question /\ Entry(1).req \in Request
         /\ Waiting \in Seq(Request)
<1>1. 1 \in Level /\ 1 \in Server /\ 0 \in Requester
  BY LinkFacts
<1>2. /\ in_access_resp[0] \in Seq(Answer) /\ out_resp_queue[1] \in Seq(Answer)
      /\ Entry(1).req \in Question /\ in_access_req[1] \in Seq(Question)
  BY <1>1 DEF PortInv, IdsAreZero
<1>3. /\ in_access_resp[0] \in Seq(Request) /\ out_resp_queue[1] \in Seq(Request)
      /\ Entry(1).req \in Request /\ in_access_req[1] \in Seq(Request)
  BY <1>2, Kinds
<1>4. MissWaiting \in Seq(Request)
  BY <1>3 DEF MissWaiting
<1>5. Waiting \in Seq(Request)
  BY <1>3, <1>4, QueueIsSeq DEF Waiting
<1> QED BY <1>2, <1>3, <1>4, <1>5

\* The line, when none of its parts moves.
LEMMA WaitingRests ==
  ASSUME in_access_resp'[0] = in_access_resp[0], out_resp_queue'[1] = out_resp_queue[1],
         Entry(1)'.req = Entry(1).req, Begun(Entry(1)'.status) <=> Begun(Entry(1).status),
         in_access_req'[1] = in_access_req[1]
  PROVE  Waiting' = Waiting
<1>1. MissWaiting' = MissWaiting
  BY DEF MissWaiting
<1> QED BY <1>1 DEF Waiting

\* A lookup keeps the line of those that wait.
LEMMA FuncaccessWaits ==
  ASSUME DefaultChain, PortInv, NEW l \in Level, funcaccess(l)
  PROVE  Waiting' = Waiting
<1>1. ChainInv /\ LinkCreditsConserved /\ CreditsFit /\ IdsAreZero /\ l \notin PerfectLevel
  BY DefaultFits DEF PortInv, CreditInv, DefaultChain
<1>2. /\ in_access_req[l] # << >> /\ in_access_req' = [in_access_req EXCEPT ![l] = Tail(@)]
  BY DEF funcaccess
<1>3. l \in Server /\ in_access_req \in [Server -> Seq(Question)] /\ in_access_req[l] \in Seq(Question)
  BY <1>1, LevelFacts DEF IdsAreZero
<1>4. PICK req \in Question : req = Head(in_access_req[l])
  BY <1>2, <1>3, HeadAndTail
<1>5. Hit(l, req) \/ Miss(l, req)
  BY <1>1, <1>4 DEF funcaccess, PerfectAccess
<1>6. MshrAvail(mshr[l]) /\ Entry(l).status = "NO_TYPE"
  BY <1>1, <1>2, PlaceIsFree, EntryFacts
<1>7. 1 \in Level /\ 1 \in Server /\ 0 \in Requester
  BY LinkFacts
<1>8. UNCHANGED in_access_resp /\ out_resp_queue \in [Level -> Seq(Answer)]
  BY <1>1, <1>5 DEF Hit, Miss, IdsAreZero
<1>9. CASE Hit(l, req)
  <2>1. \A k \in Level : Entry(k)' = Entry(k)
    BY <1>9 DEF Hit, Entry
  <2>2. out_resp_queue' = [out_resp_queue EXCEPT ![l] = out_resp_queue[l] \o makeResp(l, req)]
    BY <1>9 DEF Hit, Respond
  <2>3. CASE l # 1
    <3>1. out_resp_queue'[1] = out_resp_queue[1] /\ in_access_req'[1] = in_access_req[1]
      BY <1>2, <1>3, <1>7, <1>8, <2>2, <2>3
    <3> QED BY <1>7, <1>8, <2>1, <3>1, WaitingRests
  <2>4. CASE l = 1
    <3>1. out_resp_queue'[1] = out_resp_queue[1] \o <<req>> /\ in_access_req'[1] = Tail(in_access_req[1])
      BY <1>2, <1>3, <1>7, <1>8, <2>2, <2>4 DEF makeResp
    <3>2. MissWaiting = << >> /\ MissWaiting' = << >>
      BY <1>6, <1>7, <2>1, <2>4 DEF MissWaiting, Begun
    <3>3. PICK a \in Seq(Request), b \in Seq(Request), c \in Seq(Request) :
             a = in_access_resp[0] /\ b = out_resp_queue[1] /\ c = in_access_req[1] /\ c # << >>
      BY <1>2, <2>4, WaitingParts
    <3>4. a \o (b \o <<Head(c)>>) \o << >> \o Tail(c) = a \o b \o << >> \o c
      <4>1. c # << >>
        BY <3>3
      <4> QED BY SMTT(60), <4>1, QueueHits
    <3>5. Waiting = a \o b \o << >> \o c
      BY <3>2, <3>3 DEF Waiting
    <3>6. Waiting' = a \o (b \o <<Head(c)>>) \o << >> \o Tail(c)
      BY <1>4, <1>8, <2>4, <3>1, <3>2, <3>3 DEF Waiting
    <3> QED BY <3>4, <3>5, <3>6, Zenon
  <2> QED BY <2>3, <2>4
<1>10. CASE Miss(l, req)
  <2>1. /\ mshr' = [mshr EXCEPT ![l] = Allocate(mshr[l], [req EXCEPT !.mshrid = mshr[l].tail])]
        /\ UNCHANGED out_resp_queue
    BY <1>6, <1>10 DEF Miss
  <2>2. /\ Entry(l)' = [status |-> "ALLOCATE", req |-> req]
        /\ \A k \in Level : k # l => Entry(k)' = Entry(k)
    BY <1>1, <1>6, <2>1, AllocateMoves
  <2>3. CASE l # 1
    <3>1. in_access_req'[1] = in_access_req[1]
      BY <1>2, <1>3, <1>7, <2>3
    <3> QED BY <1>7, <1>8, <2>1, <2>2, <2>3, <3>1, WaitingRests
  <2>4. CASE l = 1
    <3>1. in_access_req'[1] = Tail(in_access_req[1])
      BY <1>2, <1>3, <2>4
    <3>2. MissWaiting = << >> /\ MissWaiting' = <<req>>
      BY <1>6, <2>2, <2>4 DEF MissWaiting, Begun
    <3>3. PICK a \in Seq(Request), b \in Seq(Request), c \in Seq(Request) :
             a = in_access_resp[0] /\ b = out_resp_queue[1] /\ c = in_access_req[1] /\ c # << >>
      BY <1>2, <2>4, WaitingParts
    <3>4. a \o b \o <<Head(c)>> \o Tail(c) = a \o b \o << >> \o c
      <4>1. c # << >>
        BY <3>3
      <4> QED BY <4>1, QueueMisses
    <3>5. Waiting = a \o b \o << >> \o c
      BY <3>2, <3>3 DEF Waiting
    <3>6. Waiting' = a \o b \o <<Head(c)>> \o Tail(c)
      BY <1>4, <1>8, <2>1, <2>4, <3>1, <3>2, <3>3 DEF Waiting
    <3> QED BY <3>4, <3>5, <3>6, Zenon
  <2> QED BY <2>3, <2>4
<1> QED BY <1>5, <1>9, <1>10

\* An answer from below keeps the line.
LEMMA RecvRespWaits ==
  ASSUME DefaultChain, PortInv, NEW l \in Level, recvResp(l)
  PROVE  Waiting' = Waiting
<1>1. ChainInv /\ IdsAreZero
  BY DEF PortInv, CreditInv
<1>2. /\ in_access_resp' = [in_access_resp EXCEPT ![l] = Tail(@)] /\ UNCHANGED in_access_req
  BY DEF recvResp
<1>3. /\ in_access_resp \in [Requester -> Seq(Answer)] /\ out_resp_queue \in [Level -> Seq(Answer)]
      /\ l # 0 /\ 0 \in Requester /\ 1 \in Level
  BY <1>1, LevelFacts, LinkFacts DEF IdsAreZero
<1>4. in_access_resp'[0] = in_access_resp[0]
  BY <1>2, <1>3
<1>5. PICK req \in Question :
           /\ req = Entry(l).req
           /\ \/ EntryMoves(l, "SEND_REQ", "RECV_WHOLE_LINE") /\ Respond(l, makeResp(l, req))
              \/ EntryMoves(l, "SEND_REQ", "RECV_CRITICAL_SEG") /\ Respond(l, makeCriticalResp(l, req))
              \/ EntryMoves(l, "RECV_CRITICAL_SEG", "RECV_WHOLE_LINE") /\ Respond(l, makeNonCriticalResp(l, req))
              \/ UNCHANGED <<mshr, out_resp_queue>>
  <2>1. PICK resp \in Answer, req \in Question :
           /\ req = Entry(l).req
           /\ \/ l = LevelNum /\ EntryMoves(l, "SEND_REQ", "RECV_WHOLE_LINE") /\ Respond(l, makeResp(l, req))
              \/ /\ l # LevelNum /\ resp.subindex = 0
                 /\ EntryMoves(l, "SEND_REQ", "RECV_CRITICAL_SEG") /\ Respond(l, makeCriticalResp(l, req))
              \/ /\ l # LevelNum /\ resp.subindex # 0 /\ resp.subindex = SegNum - 1
                 /\ EntryMoves(l, "RECV_CRITICAL_SEG", "RECV_WHOLE_LINE")
                 /\ Respond(l, makeNonCriticalResp(l, req))
              \/ /\ l # LevelNum /\ resp.subindex # 0 /\ resp.subindex # SegNum - 1
                 /\ UNCHANGED <<mshr, out_resp_queue>>
    BY RecvRespMoves
  <2> QED BY <2>1
<1>6. CASE UNCHANGED <<mshr, out_resp_queue>>
  BY <1>2, <1>4, <1>6, WaitingRests DEF Entry
<1>7. ASSUME NEW resps, Respond(l, resps)
      PROVE  /\ out_resp_queue'[l] = out_resp_queue[l] \o resps
             /\ l # 1 => out_resp_queue'[1] = out_resp_queue[1]
  <2>1. out_resp_queue' = [out_resp_queue EXCEPT ![l] = out_resp_queue[l] \o resps]
    BY <1>7 DEF Respond
  <2> QED BY <1>3, <2>1
<1>8. CASE l # 1 /\ ~UNCHANGED <<mshr, out_resp_queue>>
  <2>1. Entry(1)' = Entry(1)
    BY <1>3, <1>5, <1>8 DEF EntryMoves
  <2>2. out_resp_queue'[1] = out_resp_queue[1]
    BY <1>5, <1>7, <1>8
  <2> QED BY <1>2, <1>4, <2>1, <2>2, WaitingRests
<1>9. CASE l = 1 /\ EntryMoves(l, "RECV_CRITICAL_SEG", "RECV_WHOLE_LINE") /\ Respond(l, makeNonCriticalResp(l, req))
  <2>1. /\ Entry(1).status = "RECV_CRITICAL_SEG" /\ Entry(1)'.status = "RECV_WHOLE_LINE"
        /\ Entry(1)'.req = Entry(1).req
    BY <1>9 DEF EntryMoves
  <2>2. out_resp_queue'[1] = out_resp_queue[1] \o << >>
    BY <1>7, <1>9 DEF makeNonCriticalResp
  <2>3. out_resp_queue'[1] = out_resp_queue[1]
    <3>1. \A s \in Seq(Answer) : s \o << >> = s
      OBVIOUS
    <3> QED BY <2>2, <3>1, WaitingParts
  <2> QED BY <1>2, <1>4, <2>1, <2>3, WaitingRests DEF Begun
<1>10. ASSUME l = 1, NEW to, EntryMoves(l, "SEND_REQ", to), Respond(l, <<req>>), ~Begun(to)
       PROVE  Waiting' = Waiting
  <2>1. Entry(1).status = "SEND_REQ" /\ Entry(1)'.status = to
    BY <1>10 DEF EntryMoves
  <2>2. MissWaiting = <<req>> /\ MissWaiting' = << >>
    BY <1>5, <1>10, <2>1 DEF MissWaiting, Begun
  <2>3. PICK a \in Seq(Request), b \in Seq(Request), c \in Seq(Request) :
             a = in_access_resp[0] /\ b = out_resp_queue[1] /\ c = in_access_req[1]
    BY WaitingParts
  <2>4. a \o (b \o <<req>>) \o << >> \o c = a \o b \o <<req>> \o c
    <3>1. << >> \in Seq(Request) /\ req \in Request
      BY Kinds
    <3> QED BY <3>1, QueueAnswers
  <2>5. Waiting = a \o b \o <<req>> \o c
    BY <2>2, <2>3 DEF Waiting
  <2>6. Waiting' = a \o (b \o <<req>>) \o << >> \o c
    <3>1. out_resp_queue'[1] = b \o <<req>> /\ in_access_resp'[0] = a /\ in_access_req'[1] = c
      BY <1>2, <1>4, <1>7, <1>10, <2>3
    <3> QED BY <2>2, <3>1 DEF Waiting
  <2> QED BY <2>4, <2>5, <2>6, Zenon
<1>11. CASE l = 1 /\ EntryMoves(l, "SEND_REQ", "RECV_WHOLE_LINE") /\ Respond(l, makeResp(l, req))
  BY <1>10, <1>11 DEF makeResp, Begun
<1>12. CASE l = 1 /\ EntryMoves(l, "SEND_REQ", "RECV_CRITICAL_SEG") /\ Respond(l, makeCriticalResp(l, req))
  BY <1>10, <1>12 DEF makeCriticalResp, Begun
<1> QED BY <1>5, <1>6, <1>8, <1>9, <1>11, <1>12

\* A round of handleMshr keeps the line.
LEMMA HandleMshrWaits ==
  ASSUME DefaultChain, PortInv, NEW l \in Level, handleMshr(l)
  PROVE  Waiting' = Waiting
<1>1. ChainInv /\ IdsAreZero
  BY DEF PortInv, CreditInv
<1>2. UNCHANGED <<out_resp_queue, in_access_resp>>
  BY DEF handleMshr
<1>3. 1 \in Level /\ 1 \in Server /\ l + 1 \in Server /\ l + 1 # 1
  BY LevelFacts, LinkFacts
<1>4. in_access_req \in [Server -> Seq(Question)]
  BY <1>1 DEF IdsAreZero
<1>5. ASSUME NEW from, NEW to, EntryMoves(l, from, to), Begun(from) <=> Begun(to)
      PROVE  Entry(1)'.req = Entry(1).req /\ (Begun(Entry(1)'.status) <=> Begun(Entry(1).status))
  BY <1>3, <1>5 DEF EntryMoves
<1>6. CASE /\ EntryMoves(l, "ALLOCATE", "SEND_REQ")
           /\ in_access_req' = [in_access_req EXCEPT ![l + 1] = Append(@, Entry(l).req)]
  <2>1. in_access_req'[1] = in_access_req[1]
    BY <1>3, <1>4, <1>6
  <2>2. Begun("ALLOCATE") <=> Begun("SEND_REQ")
    BY DEF Begun
  <2> QED BY <1>2, <1>5, <1>6, <2>1, <2>2, WaitingRests
<1>7. CASE EntryMoves(l, "RECV_WHOLE_LINE", "REFILL") /\ UNCHANGED in_access_req
  <2>1. Begun("RECV_WHOLE_LINE") <=> Begun("REFILL")
    BY DEF Begun
  <2> QED BY <1>2, <1>5, <1>7, <2>1, WaitingRests
<1>8. CASE EntryMoves(l, "REFILL", "NO_TYPE") /\ UNCHANGED in_access_req
  <2>1. Begun("REFILL") <=> Begun("NO_TYPE")
    BY DEF Begun
  <2> QED BY <1>2, <1>5, <1>8, <2>1, WaitingRests
<1>9. CASE (\A k \in Level : Entry(k)' = Entry(k)) /\ UNCHANGED in_access_req
  BY <1>2, <1>3, <1>9, WaitingRests
<1> QED BY <1>1, <1>6, <1>7, <1>8, <1>9, EntryRound

\* A round of the arbiter keeps the line.
LEMMA OutRespWaits ==
  ASSUME DefaultChain, PortInv, NEW l \in Level, outRespArbiter(l)
  PROVE  Waiting' = Waiting
<1>1. ChainInv /\ IdsAreZero /\ 1 \in Level /\ 0 \in Requester
  BY LinkFacts DEF PortInv, CreditInv
<1>2. UNCHANGED <<mshr, in_access_req>> /\ Entry(1)' = Entry(1)
  BY <1>1, ArbiterParts DEF Entry
<1>3. CASE l # 1
  <2>1. l - 1 # 0
    BY <1>3, LevelFacts
  <2>2. in_access_resp'[0] = in_access_resp[0] /\ out_resp_queue'[1] = out_resp_queue[1]
    BY <1>1, <1>3, <2>1, ArbiterParts
  <2> QED BY <1>2, <2>2, WaitingRests
<1>4. CASE l = 1
  <2>1. PICK a \in Seq(Request), b \in Seq(Request), m \in Seq(Request), c \in Seq(Request) :
             /\ a = in_access_resp[0] /\ b = out_resp_queue[1] /\ m = MissWaiting /\ c = in_access_req[1]
    BY WaitingParts
  <2>2. l - 1 = 0
    BY <1>4
  <2>3. b # << >> /\ in_access_resp'[0] = Append(a, Head(b)) /\ out_resp_queue'[1] = Tail(b)
    BY <1>1, <1>4, <2>1, <2>2, ArbiterParts
  <2>4. Append(a, Head(b)) \o Tail(b) \o m \o c = a \o b \o m \o c
    <3>1. Append(a, Head(b)) \o Tail(b) = a \o b
      BY <2>3, StreamPassed
    <3> QED BY <3>1, Zenon
  <2>5. Waiting = a \o b \o m \o c
    BY <2>1 DEF Waiting
  <2>6. Waiting' = Append(a, Head(b)) \o Tail(b) \o m \o c
    <3>1. MissWaiting' = m
      BY <1>2, <2>1 DEF MissWaiting
    <3> QED BY <1>2, <2>1, <2>3, <3>1 DEF Waiting
  <2> QED BY <2>4, <2>5, <2>6, Zenon
<1> QED BY <1>3, <1>4

\* The core asks for what it has not asked for before, and the answer it gets
\* is to the request that has waited longest.
LEMMA CoreAskWaits ==
  ASSUME PortInv, AnswersInv, NEW line \in Line, CoreAsk(line)
  PROVE  AnswersInv' /\ answers' = Append(answers, 0) /\ UNCHANGED unasked
<1>1. /\ in_access_req \in [Server -> Seq(Question)] /\ 1 \in Server /\ answers \in Seq(Nat)
  BY LinkFacts DEF PortInv, IdsAreZero, CreditInv, ChainInv, OtherTypes
<1>2. PICK r : r = [id |-> Len(answers) + 1, line |-> line, mshrid |-> 0, subindex |-> 0]
  OBVIOUS
<1>3. /\ in_access_req' = [in_access_req EXCEPT ![1] = Append(@, r)] /\ UNCHANGED in_access_resp
      /\ UNCHANGED <<mshr, out_resp_queue, unasked>> /\ Len(answers) < ReqNum
      /\ answers' = Append(answers, 0)
  BY <1>2 DEF CoreAsk, cacheVars
<1>4. r \in Request /\ r.id = Len(answers) + 1
  <2>1. PICK n \in Nat : n = Len(answers)
    BY <1>1
  <2>2. n + 1 \in 0 .. ReqNum /\ 0 \in 0 .. SegNum - 1
    BY <1>3, <2>1, UncoreAssumption
  <2> QED BY <1>2, <2>1, <2>2 DEF Request
<1>5. PICK a \in Seq(Request), b \in Seq(Request), m \in Seq(Request), c \in Seq(Request) :
             /\ a = in_access_resp[0] /\ b = out_resp_queue[1] /\ m = MissWaiting /\ c = in_access_req[1]
  BY WaitingParts
<1>6. in_access_req'[1] = Append(c, r) /\ MissWaiting' = m
  BY <1>1, <1>3, <1>5 DEF MissWaiting, Entry
<1>7. PICK w \in Seq(Request) : w = a \o b \o m \o c /\ a \o b \o m \o Append(c, r) = Append(w, r)
  <2>1. a \o b \o m \o c \in Seq(Request)
    BY QueueIsSeq
  <2>2. a \o b \o m \o Append(c, r) = Append(a \o b \o m \o c, r)
    <3>1. PICK abm \in Seq(Request) : abm = a \o b \o m
      <4>1. PICK ab \in Seq(Request) : ab = a \o b
        <5>1. a \o b \in Seq(Request)
          BY ConcatProperties
        <5> QED BY <5>1
      <4>2. ab \o m \in Seq(Request)
        BY ConcatProperties
      <4> QED BY <4>1, <4>2, Zenon
    <3>2. <<r>> \in Seq(Request) /\ Append(c, r) = c \o <<r>> /\ abm \o c \in Seq(Request)
      BY <1>4, ConcatProperties
    <3>3. abm \o (c \o <<r>>) = (abm \o c) \o <<r>>
      BY <3>2, StreamJoined
    <3>4. Append(abm \o c, r) = (abm \o c) \o <<r>>
      BY <1>4, <3>2
    <3> QED BY <3>1, <3>2, <3>3, <3>4, Zenon
  <2> QED BY <2>1, <2>2, Zenon
<1>8. Waiting = w /\ Waiting' = Append(w, r)
  <2>1. Waiting = a \o b \o m \o c /\ Waiting' = a \o b \o m \o Append(c, r)
    BY <1>3, <1>5, <1>6 DEF Waiting
  <2> QED BY <1>7, <2>1, Zenon
<1>9. Ordered(w, answers)
  BY <1>8 DEF AnswersInv
<1>10. Ordered(Append(w, r), Append(answers, 0))
  BY <1>1, <1>4, <1>9, OrderedAsked
<1> QED BY <1>3, <1>8, <1>10 DEF AnswersInv

\* The core takes the answer of the first in the line, for the first time.
LEMMA CoreRecvWaits ==
  ASSUME PortInv, AnswersInv, CoreRecvResp
  PROVE  /\ AnswersInv'
         /\ UNCHANGED unasked
         /\ \E r \in DOMAIN answers : answers[r] = 0 /\ answers' = [answers EXCEPT ![r] = 1]
<1>1. /\ in_access_resp \in [Requester -> Seq(Answer)] /\ 0 \in Requester /\ answers \in Seq(Nat)
  BY LinkFacts DEF PortInv, IdsAreZero, CreditInv, ChainInv, OtherTypes
<1>2. PICK r : r = Head(in_access_resp[0]).id
  OBVIOUS
<1>3. /\ in_access_resp[0] # << >>
      /\ r \in DOMAIN answers => answers' = [answers EXCEPT ![r] = @ + 1] /\ UNCHANGED unasked
      /\ in_access_resp' = [in_access_resp EXCEPT ![0] = Tail(@)]
      /\ UNCHANGED <<in_access_req, mshr, out_resp_queue>>
  BY <1>2 DEF CoreRecvResp, cacheVars
<1>4. PICK a \in Seq(Request), b \in Seq(Request), m \in Seq(Request), c \in Seq(Request) :
             /\ a = in_access_resp[0] /\ b = out_resp_queue[1] /\ m = MissWaiting /\ c = in_access_req[1]
  BY WaitingParts
<1>5. a # << >> /\ in_access_resp'[0] = Tail(a) /\ MissWaiting' = m
  BY <1>1, <1>3, <1>4 DEF MissWaiting, Entry
<1>6. PICK w \in Seq(Request) : /\ w = a \o b \o m \o c /\ w # << >> /\ Head(w) = Head(a)
                                /\ Tail(a) \o b \o m \o c = Tail(w)
  <2>1. a # << >>
    BY <1>5
  <2>2. a \o b \o m \o c \in Seq(Request)
    BY QueueIsSeq
  <2>3. /\ Tail(a) \o b \o m \o c = Tail(a \o b \o m \o c)
        /\ Head(a \o b \o m \o c) = Head(a) /\ a \o b \o m \o c # << >>
    <3>1. PICK ab \in Seq(Request) : ab = a \o b
      <4>1. a \o b \in Seq(Request)
        BY ConcatProperties
      <4> QED BY <4>1
    <3>2. PICK abm \in Seq(Request) : abm = ab \o m
      <4>1. ab \o m \in Seq(Request)
        BY ConcatProperties
      <4> QED BY <4>1
    <3>3. Tail(a) \o b = Tail(ab) /\ Head(ab) = Head(a) /\ ab # << >>
      BY <2>1, <3>1, StreamTaken
    <3>4. Tail(ab) \o m = Tail(abm) /\ Head(abm) = Head(ab) /\ abm # << >>
      BY <3>2, <3>3, StreamTaken
    <3>5. Tail(abm) \o c = Tail(abm \o c) /\ Head(abm \o c) = Head(abm) /\ abm \o c # << >>
      BY <3>4, StreamTaken
    <3> QED BY <3>1, <3>2, <3>3, <3>4, <3>5, Zenon
  <2> QED BY <2>2, <2>3, Zenon
<1>7. Waiting = w /\ Waiting' = Tail(w)
  <2>1. Waiting = a \o b \o m \o c /\ Waiting' = Tail(a) \o b \o m \o c
    BY <1>3, <1>4, <1>5 DEF Waiting
  <2> QED BY <1>6, <2>1, Zenon
<1>8. Ordered(w, answers) /\ r = Head(w).id
  BY <1>2, <1>4, <1>6, <1>7 DEF AnswersInv
<1>9. r \in 1 .. Len(answers) /\ answers[r] = 0 /\ Ordered(Tail(w), [answers EXCEPT ![r] = 1])
  BY <1>1, <1>6, <1>8, OrderedAnswered
<1>10. answers' = [answers EXCEPT ![r] = 1] /\ r \in DOMAIN answers /\ UNCHANGED unasked
  <2>1. answers[r] + 1 = 1 /\ DOMAIN answers = 1 .. Len(answers)
    BY <1>1, <1>9
  <2> QED BY <1>1, <1>3, <1>9, <2>1
<1> QED BY <1>7, <1>9, <1>10 DEF AnswersInv

\* The initial states satisfy AnswersInv.
LEMMA AnswersInit == Init /\ DefaultChain => AnswersInv
<1> SUFFICES ASSUME Init, DefaultChain PROVE AnswersInv
  OBVIOUS
<1>1. /\ in_access_req = [s \in Server |-> << >>] /\ in_access_resp = [k \in Requester |-> << >>]
      /\ out_resp_queue = [k \in Level |-> << >>] /\ answers = << >>
      /\ mshr = [k \in Level |-> NewMshr(MshrSize[k], NoRequest)]
  BY DEF Init, PortsInit, CacheInit
<1>2. 1 \in Level /\ 1 \in Server /\ 0 \in Requester
  BY LinkFacts
<1>3. Entry(1).status = "NO_TYPE"
  <2>1. 0 \in 0 .. 1 - 1
    OBVIOUS
  <2> QED BY <1>1, <1>2, <2>1 DEF Entry, NewMshr, DefaultChain
<1>4. MissWaiting = << >>
  BY <1>3 DEF MissWaiting, Begun
<1>5. Waiting = << >>
  BY <1>1, <1>2, <1>4 DEF Waiting
<1> QED BY <1>1, <1>5 DEF AnswersInv, Ordered

\* A step asks, answers a request for the first time, or is none of the core's.
LEMMA PortStep ==
  ASSUME DefaultChain, PortInv, AnswersInv, [Next]_vars
  PROVE  AnswersInv' /\ [Port!Next]_<<answers, unasked>>
<1>1. ASSUME Waiting' = Waiting, UNCHANGED <<answers, unasked>> PROVE AnswersInv' /\ [Port!Next]_<<answers, unasked>>
  BY <1>1 DEF AnswersInv
<1>2. ASSUME NEW line \in Line, CoreAsk(line) PROVE AnswersInv' /\ [Port!Next]_<<answers, unasked>>
  BY <1>2, CoreAskWaits DEF Port!Next, Port!Ask
<1>3. ASSUME CoreRecvResp PROVE AnswersInv' /\ [Port!Next]_<<answers, unasked>>
  BY <1>3, CoreRecvWaits DEF Port!Next, Port!Answer
<1>4. ASSUME MemoryStep PROVE AnswersInv' /\ [Port!Next]_<<answers, unasked>>
  <2>1. UNCHANGED <<mshr, out_resp_queue, answers, unasked>>
    BY <1>4 DEF MemoryStep, cacheVars
  <2>2. /\ in_access_req \in [Server -> Seq(Question)] /\ in_access_resp \in [Requester -> Seq(Answer)]
        /\ 1 \in Server /\ 0 \in Requester
    BY LinkFacts DEF PortInv, IdsAreZero
  <2>3. 1 # Memory /\ Memory - 1 # 0 /\ Memory - 1 \in Requester
    BY LinkFacts, UncoreAssumption DEF Memory
  <2>4. in_access_req'[1] = in_access_req[1] /\ in_access_resp'[0] = in_access_resp[0]
    <3>1. CASE receive_mem_req
      BY <2>2, <2>3, <3>1 DEF receive_mem_req
    <3>2. CASE handle_mem_req
      <4>1. in_access_resp' = [in_access_resp EXCEPT ![Memory - 1] = Append(@, Head(ev_handle_mem_req))]
        BY <3>2 DEF handle_mem_req, SendResp
      <4>2. UNCHANGED in_access_req
        BY <3>2 DEF handle_mem_req
      <4> QED BY <2>2, <2>3, <4>1, <4>2
    <3> QED BY <1>4, <3>1, <3>2 DEF MemoryStep
  <2> QED BY <1>1, <2>1, <2>4, WaitingRests DEF Entry
<1>5. ASSUME NEW l \in Requester, CreditStep(l) PROVE AnswersInv' /\ [Port!Next]_<<answers, unasked>>
  <2>1. UNCHANGED <<mshr, out_resp_queue, answers, unasked, in_access_req, in_access_resp>>
    BY <1>5 DEF CreditStep, recvCredit, cacheVars
  <2> QED BY <1>1, <2>1, WaitingRests DEF Entry
<1>6. ASSUME NEW l \in Level, CacheStep(l) PROVE AnswersInv' /\ [Port!Next]_<<answers, unasked>>
  <2>1. UNCHANGED <<answers, unasked>> /\ ChainInv
    BY <1>6 DEF CacheStep, PortInv, CreditInv
  <2>2. CASE funcaccess(l)
    BY <1>1, <2>1, <2>2, FuncaccessWaits
  <2>3. CASE recvResp(l)
    BY <1>1, <2>1, <2>3, RecvRespWaits
  <2>4. CASE handleMshr(l)
    BY <1>1, <2>1, <2>4, HandleMshrWaits
  <2>5. CASE outRespArbiter(l)
    BY <1>1, <2>1, <2>5, OutRespWaits
  <2> QED BY <1>6, <2>1, <2>2, <2>3, <2>4, <2>5, NoOverrun DEF CacheStep
<1>7. ASSUME UNCHANGED vars PROVE AnswersInv' /\ [Port!Next]_<<answers, unasked>>
  <2>1. UNCHANGED <<mshr, out_resp_queue, answers, unasked, in_access_req, in_access_resp>>
    BY <1>7 DEF vars, portVars, cacheVars
  <2> QED BY <1>1, <2>1, WaitingRests DEF Entry
<1> QED BY <1>2, <1>3, <1>4, <1>5, <1>6, <1>7 DEF Next, CoreStep, Handlers

\* The chain with the default parameters implements MemoryPort, however many
\* caches it has and however a line is cut into segments: the core gets at
\* most one answer to each request, and none that it did not ask for.
THEOREM ChainIsMemoryPort == ASSUME DefaultChain PROVE Spec => IsMemoryPort
<1>1. Init => PortInv /\ AnswersInv /\ Port!Init
  BY PortInit, AnswersInit DEF Init, Port!Init
<1>2. PortInv /\ [Next]_vars => PortInv'
  BY PortStepKeeps
<1>3. PortInv /\ AnswersInv /\ [Next]_vars => AnswersInv' /\ [Port!Next]_<<answers, unasked>>
  BY PortStep
<1> QED BY <1>1, <1>2, <1>3, PTL DEF Spec, IsMemoryPort, Port!Spec

-----------------------------------------------------------------------------
(* Inclusion.  The lines that two caches next to each other hold, and the  *)
(* misses they are working on.                                             *)

Held(l) == {line \in Line : tagCompare(l, line)}

SameSet(l, x, z) == getIndex(l, x) = getIndex(l, z)

\* A miss that has been asked for below, and one that has not been refilled yet.
Asked(st) == st \in {"SEND_REQ", "RECV_CRITICAL_SEG", "RECV_WHOLE_LINE", "REFILL"}
Missing(st) == st \in {"ALLOCATE", "SEND_REQ", "RECV_CRITICAL_SEG", "RECV_WHOLE_LINE"}

\* The entries e of a cache and f of the one below, whether a response is on its
\* way between them, and the lines they hold:
\*   - a miss below is for the line of the miss above, unless that is over and
\*     the line is held above, while it is still being written below;
\*   - a line that is coming up is held below, or the entry below still has it;
\*   - an entry that is refilled holds its line;
\*   - the caches are inclusive.
Nested(l, e, f, coming, above, below) ==
    /\ Missing(f.status) =>
          \/ Asked(e.status) /\ e.req.line = f.req.line
          \/ f.status = "RECV_WHOLE_LINE" /\ ~Asked(e.status) /\ f.req.line \in above
    /\ (Asked(e.status) /\ (e.status = "SEND_REQ" => coming)) =>
          \/ e.req.line \in below
          \/ f.status \in {"RECV_CRITICAL_SEG", "RECV_WHOLE_LINE"} /\ f.req.line = e.req.line
    /\ e.status = "REFILL" => e.req.line \in above
    /\ \A z \in above :
          \/ z \in below
          \/ f.status = "RECV_WHOLE_LINE" /\ f.req.line = z
          \/ Asked(e.status) /\ SameSet(l, e.req.line, z)

Nests(l) == l + 1 \in Level /\ IndexSpan(l) <= IndexSpan(l + 1)

PairInv(l) ==
    /\ Nested(l, Entry(l), Entry(l + 1), Stream(l) # << >>, Held(l), Held(l + 1))
    /\ in_access_req[l + 1] # << >> => Head(in_access_req[l + 1]).line = Entry(l).req.line

InclusionInv == \A l \in Level : Nests(l) => PairInv(l)

-----------------------------------------------------------------------------
(* The sets of a cache and of the one below it.                            *)

\* Division with remainder.
LEMMA Remainder ==
  ASSUME NEW x \in Nat, NEW q \in Nat \ {0}
  PROVE  \E a \in Nat : x = q * a + (x % q) /\ x % q \in 0 .. q - 1
<1>1. x \div q \in Nat /\ x % q \in 0 .. q - 1
  OBVIOUS
<1>2. x = q * (x \div q) + (x % q)
  OBVIOUS
<1> QED BY <1>1, <1>2

\* ... of which there is one.
LEMMA RemainderIsUnique ==
  ASSUME NEW q \in Nat \ {0}, NEW a \in Nat, NEW b \in Nat, NEW r \in 0 .. q - 1, NEW s \in 0 .. q - 1,
         q * a + r = q * b + s
  PROVE  r = s
<1>1. ASSUME NEW c \in Nat, NEW d \in Nat, c < d PROVE q * c + q <= q * d
  <2>1. PICK e \in Nat : d = c + 1 + e
    <3>1. d - (c + 1) \in Nat /\ d = c + 1 + (d - (c + 1))
      BY <1>1
    <3> QED BY <3>1
  <2>2. q * d = q * c + q + q * e
    BY <2>1
  <2>3. q * e \in Nat /\ q * c \in Nat
    OBVIOUS
  <2> QED BY <2>2, <2>3
<1>2. ~(a < b)
  <2>1. SUFFICES ASSUME a < b PROVE FALSE
    OBVIOUS
  <2>2. q * a + q <= q * b /\ q * a \in Nat /\ q * b \in Nat
    BY <2>1, <1>1
  <2> QED BY <2>2
<1>3. ~(b < a)
  <2>1. SUFFICES ASSUME b < a PROVE FALSE
    OBVIOUS
  <2>2. q * b + q <= q * a /\ q * a \in Nat /\ q * b \in Nat
    BY <2>1, <1>1
  <2> QED BY <2>2
<1>4. a = b /\ q * a \in Nat
  BY <1>2, <1>3
<1> QED BY <1>4

\* Lines in the same set of many are in the same of half as many.
LEMMA RemainderOfHalf ==
  ASSUME NEW x \in Nat, NEW z \in Nat, NEW q \in Nat \ {0}, x % (2 * q) = z % (2 * q)
  PROVE  x % q = z % q
<1>1. PICK p \in Nat \ {0} : p = 2 * q
  OBVIOUS
<1>2. ASSUME NEW y \in Nat PROVE y % q = (y % p) % q
  <2>1. PICK a \in Nat : y = p * a + (y % p) /\ y % p \in 0 .. p - 1
    BY Remainder
  <2>2. PICK t \in Nat : t = y % p
    BY <2>1
  <2>3. PICK b \in Nat : t = q * b + (t % q) /\ t % q \in 0 .. q - 1
    BY Remainder
  <2>4. PICK c \in Nat : y = q * c + (y % q) /\ y % q \in 0 .. q - 1
    BY Remainder
  <2>5. PICK r \in 0 .. q - 1, s \in 0 .. q - 1 : r = t % q /\ s = y % q
    BY <2>3, <2>4
  <2>6. p * a = q * (2 * a)
    BY <1>1
  <2>7. q * (2 * a) + q * b = q * (2 * a + b)
    OBVIOUS
  <2>8. y = q * (2 * a + b) + r
    <3>1. q * (2 * a) \in Nat /\ q * b \in Nat
      OBVIOUS
    <3>2. y = q * (2 * a) + t /\ t = q * b + r
      BY <2>1, <2>2, <2>3, <2>5, <2>6
    <3> QED BY <2>7, <3>1, <3>2
  <2>9. y = q * c + s /\ 2 * a + b \in Nat
    BY <2>4, <2>5
  <2>10. r = s
    <3>1. q * (2 * a + b) + r = q * c + s
      BY <2>8, <2>9
    <3> QED BY <2>9, <3>1, RemainderIsUnique
  <2> QED BY <2>2, <2>5, <2>10
<1> QED BY <1>1, <1>2

\* Equal remainders by a power of two are equal by a smaller one: the sets of a
\* larger cache are parts of the sets of a smaller one.
LEMMA PowersHalve ==
  ASSUME NEW x \in Nat, NEW z \in Nat, NEW m \in Nat
  PROVE  \A d \in Nat : 2^m <= 2^(m + d) /\ (x % 2^(m + d) = z % 2^(m + d) => x % 2^m = z % 2^m)
<1> DEFINE S == {d \in Nat : 2^m <= 2^(m + d) /\ (x % 2^(m + d) = z % 2^(m + d) => x % 2^m = z % 2^m)}
<1>1. 0 \in S
  <2>1. m + 0 = m /\ 2^m \in Nat
    BY PowerDoubles
  <2> QED BY <2>1
<1>2. ASSUME NEW d \in Nat, d \in S PROVE d + 1 \in S
  <2>1. m + (d + 1) = (m + d) + 1 /\ m + d \in Nat
    OBVIOUS
  <2>2. PICK q \in Nat \ {0}, r \in Nat \ {0} : q = 2^(m + d) /\ r = 2^m
    BY <2>1, PowerIsPositive
  <2>3. 2^(m + (d + 1)) = 2 * q
    BY <2>1, <2>2, PowerDoubles
  <2>4. r <= q /\ (x % q = z % q => x % r = z % r)
    BY <1>2, <2>2
  <2>5. x % (2 * q) = z % (2 * q) => x % q = z % q
    BY RemainderOfHalf
  <2>6. r <= 2 * q
    BY <2>4
  <2>7. r <= 2 * q /\ (x % (2 * q) = z % (2 * q) => x % r = z % r)
    BY <2>4, <2>5, <2>6
  <2>8. 2^m <= 2^(m + (d + 1)) /\ (x % 2^(m + (d + 1)) = z % 2^(m + (d + 1)) => x % 2^m = z % 2^m)
    BY <2>2, <2>3, <2>7, Zenon
  <2> QED BY <2>8
<1> HIDE DEF S
<1>3. \A d \in Nat : d \in S
  BY <1>1, <1>2, NatSetInduction
<1> QED BY <1>3 DEF S

\* Two lines that share a set share one in every cache with fewer sets.
LEMMA SameSetAbove ==
  ASSUME NEW l \in Level, Nests(l), NEW x \in Line, NEW z \in Line, SameSet(l + 1, x, z)
  PROVE  SameSet(l, x, z)
<1>1. l + 1 \in Level /\ IndexSpan(l) <= IndexSpan(l + 1) /\ x \in Nat /\ z \in Nat
  BY UncoreAssumption DEF Nests, Line
<1>2. PICK m \in Nat, n \in Nat : IndexSpan(l) = 2^m /\ IndexSpan(l + 1) = 2^n
  BY <1>1, IndexSpanIsPower
<1>3. m <= n
  <2>1. SUFFICES ASSUME n < m PROVE FALSE
    OBVIOUS
  <2>2. PICK d \in Nat : m = (n + 1) + d
    <3>1. m - (n + 1) \in Nat /\ m = (n + 1) + (m - (n + 1))
      BY <2>1
    <3> QED BY <3>1
  <2>3. 2^(n + 1) <= 2^((n + 1) + d)
    BY <1>1, PowersHalve
  <2>4. 2^(n + 1) = 2 * 2^n /\ 2^n \in Nat \ {0} /\ 2^m \in Nat
    BY PowerDoubles, PowerIsPositive
  <2>5. 2 * 2^n <= 2^m
    BY <2>2, <2>3, <2>4, Zenon
  <2>6. 2^m <= 2^n
    BY <1>1, <1>2
  <2> QED BY <2>4, <2>5, <2>6
<1>4. PICK d \in Nat : n = m + d
  <2>1. n - m \in Nat /\ n = m + (n - m)
    BY <1>3
  <2> QED BY <2>1
<1>5. x % 2^n = z % 2^n
  BY <1>2 DEF SameSet, getIndex
<1>6. x % 2^m = z % 2^m
  BY <1>1, <1>4, <1>5, PowersHalve
<1> QED BY <1>2, <1>6 DEF SameSet, getIndex

\* Way 0 is the only one that holds a line, so a set holds one.
LEMMA OneWayHeld ==
  ASSUME DefaultChain, ChainInv, NEW l \in Level, NEW x \in Line
  PROVE  x \in Held(l) <=> /\ tagram[l][getIndex(l, x)][0].valid
                           /\ tagram[l][getIndex(l, x)][0].tag = getTag(l, x)
<1>1. getIndex(l, x) \in 0 .. SetNum[l] - 1 /\ 0 \in Way(l) /\ WayNum[l] > 1
  BY IndexIsSet, LevelFacts DEF Way, DefaultChain
<1>2. \A w \in Way(l) \ {0} : ~tagram[l][getIndex(l, x)][w].valid
  BY <1>1, QueueFacts DEF WaysInv
<1> QED BY <1>1, <1>2 DEF Held, tagCompare

\* With one way, a set holds at most one line.
LEMMA OneLineHeld ==
  ASSUME DefaultChain, ChainInv, NEW l \in Level, NEW x \in Held(l), NEW z \in Held(l), SameSet(l, x, z)
  PROVE  x = z
<1>1. x \in Line /\ z \in Line
  BY DEF Held
<1>2. getTag(l, x) = getTag(l, z) /\ getIndex(l, x) = getIndex(l, z)
  BY <1>1, OneWayHeld DEF SameSet
<1>3. getTag(l, x) + getIndex(l, x) = x /\ getTag(l, z) + getIndex(l, z) = z
  BY <1>1, IndexIsSet
<1> QED BY <1>2, <1>3

\* A refill replaces its set's line, at its own level alone.
LEMMA RefillHolds ==
  ASSUME DefaultChain, ChainInv, NEW l \in Level, NEW x \in Line, ramRefill(l, x)
  PROVE  /\ Held(l)' = {z \in Held(l) : ~SameSet(l, x, z)} \cup {x}
         /\ \A k \in Level : k # l => Held(k)' = Held(k)
<1>1. TagTypes
  BY DEF ChainInv
<1>2. /\ tagram'[l][getIndex(l, x)][0] = [tag |-> getTag(l, x), valid |-> TRUE]
      /\ \A s \in 0 .. SetNum[l] - 1 : \A w \in Way(l) :
               s # getIndex(l, x) \/ w # 0 => tagram'[l][s][w] = tagram[l][s][w]
      /\ \A k \in Level : k # l => tagram'[k] = tagram[k]
  BY <1>1, RamRefillEffect
<1>3. WayNum[l] > 1 /\ 0 \in Way(l)
  BY LevelFacts DEF DefaultChain, Way
<1>4. ASSUME NEW z \in Line
      PROVE  z \in Held(l)' <=> (z \in Held(l) /\ ~SameSet(l, x, z)) \/ z = x
  <2>1. getIndex(l, z) \in 0 .. SetNum[l] - 1
    BY IndexIsSet
  <2>2. \A w \in Way(l) \ {0} : ~tagram'[l][getIndex(l, z)][w].valid
    <3>1. \A w \in Way(l) \ {0} : ~tagram[l][getIndex(l, z)][w].valid
      BY <1>3, <2>1, QueueFacts DEF WaysInv
    <3> QED BY <1>2, <2>1, <3>1
  <2>3. z \in Held(l)' <=> /\ tagram'[l][getIndex(l, z)][0].valid
                           /\ tagram'[l][getIndex(l, z)][0].tag = getTag(l, z)
    BY <1>3, <2>2 DEF Held, tagCompare
  <2>4. CASE SameSet(l, x, z)
    <3>1. z \in Held(l)' <=> getTag(l, z) = getTag(l, x)
      BY <1>2, <2>3, <2>4 DEF SameSet
    <3>2. getTag(l, z) + getIndex(l, z) = z /\ getTag(l, x) + getIndex(l, x) = x
      BY IndexIsSet
    <3>3. getTag(l, z) = getTag(l, x) <=> z = x
      BY <2>4, <3>2 DEF SameSet
    <3> QED BY <2>4, <3>1, <3>3
  <2>5. CASE ~SameSet(l, x, z)
    <3>1. tagram'[l][getIndex(l, z)][0] = tagram[l][getIndex(l, z)][0] /\ z # x
      BY <1>2, <1>3, <2>1, <2>5 DEF SameSet
    <3> QED BY <2>3, <2>5, <3>1, OneWayHeld
  <2> QED BY <2>4, <2>5
<1>5. Held(l)' \subseteq Line /\ Held(l) \subseteq Line
  BY DEF Held
<1>6. \A k \in Level : k # l => Held(k)' = Held(k)
  BY <1>2 DEF Held, tagCompare
<1> QED BY <1>4, <1>5, <1>6

-----------------------------------------------------------------------------
(* What each kind of step does to a pair of caches.                        *)

\* The cache above takes a miss, asks for it, gets it, holds it and is done.
LEMMA NestedMissAbove ==
  ASSUME NEW l, NEW e, NEW g, NEW f, NEW coming \in BOOLEAN, NEW above, NEW below,
         Nested(l, e, f, coming, above, below), e.status = "NO_TYPE", g.status = "ALLOCATE"
  PROVE  Nested(l, g, f, coming, above, below)
BY DEF Nested, Asked, Missing

\* The upper entry asks below.
LEMMA NestedAsks ==
  ASSUME NEW l, NEW e, NEW g, NEW f, NEW above, NEW below, Nested(l, e, f, FALSE, above, below),
         e.status = "ALLOCATE", g.status = "SEND_REQ", f.status = "NO_TYPE"
  PROVE  Nested(l, g, f, FALSE, above, below)
BY DEF Nested, Asked, Missing

\* The upper entry gets a segment.
LEMMA NestedGets ==
  ASSUME NEW l, NEW e, NEW g, NEW f, NEW coming \in BOOLEAN, NEW above, NEW below,
         Nested(l, e, f, TRUE, above, below), e.status \in {"SEND_REQ", "RECV_CRITICAL_SEG"},
         g.status \in {"RECV_CRITICAL_SEG", "RECV_WHOLE_LINE"}, g.req = e.req
  PROVE  Nested(l, g, f, coming, above, below)
BY DEF Nested, Asked, Missing

\* The upper cache holds the line that the lower one sent.
LEMMA NestedHolds ==
  ASSUME NEW l, NEW e, NEW g, NEW f, NEW coming \in BOOLEAN, NEW above, NEW below, NEW held,
         Nested(l, e, f, coming, above, below), e.status = "RECV_WHOLE_LINE", g.status = "REFILL",
         g.req = e.req, held = {z \in above : ~SameSet(l, e.req.line, z)} \cup {e.req.line}
  PROVE  Nested(l, g, f, coming, held, below)
<1>1. Asked(e.status) /\ Asked(g.status) /\ g.req.line = e.req.line
  BY DEF Asked
<1>2. Missing(f.status) => e.req.line = f.req.line
  BY <1>1 DEF Nested
<1>3. \/ e.req.line \in below
      \/ f.status \in {"RECV_CRITICAL_SEG", "RECV_WHOLE_LINE"} /\ f.req.line = e.req.line
  BY <1>1 DEF Nested
<1>4. ASSUME NEW z \in held
      PROVE  \/ z \in below
             \/ f.status = "RECV_WHOLE_LINE" /\ f.req.line = z
             \/ Asked(g.status) /\ SameSet(l, g.req.line, z)
  <2>1. CASE z = e.req.line
    BY <1>1, <2>1 DEF SameSet
  <2>2. CASE z \in above /\ ~SameSet(l, e.req.line, z)
    BY <1>1, <2>2 DEF Nested
  <2> QED BY <2>1, <2>2
<1> QED BY <1>1, <1>2, <1>3, <1>4 DEF Nested

\* The upper entry is freed.
LEMMA NestedDone ==
  ASSUME NEW l, NEW e, NEW g, NEW f, NEW coming \in BOOLEAN, NEW above, NEW below,
         Nested(l, e, f, coming, above, below), e.status = "REFILL", g.status = "NO_TYPE",
         f.status \notin {"ALLOCATE", "SEND_REQ", "RECV_CRITICAL_SEG"},
         \A x, z \in above : SameSet(l, x, z) => x = z
  PROVE  Nested(l, g, f, coming, above, below)
<1>1. Asked(e.status) /\ ~Asked(g.status) /\ e.req.line \in above
  BY DEF Nested, Asked
<1>2. Missing(f.status) => f.status = "RECV_WHOLE_LINE" /\ e.req.line = f.req.line
  BY <1>1 DEF Nested, Missing
<1>3. e.req.line \in below \/ (f.status = "RECV_WHOLE_LINE" /\ f.req.line = e.req.line)
  BY <1>1 DEF Nested
<1>4. ASSUME NEW z \in above PROVE z \in below \/ (f.status = "RECV_WHOLE_LINE" /\ f.req.line = z)
  <2>1. CASE SameSet(l, e.req.line, z)
    BY <1>1, <1>3, <2>1
  <2>2. CASE ~SameSet(l, e.req.line, z)
    BY <2>2 DEF Nested
  <2> QED BY <2>1, <2>2
<1> QED BY <1>1, <1>2, <1>4 DEF Nested

\* The cache below answers at once, takes a miss, asks for it, gets it and
\* passes it on, holds it and is done.
LEMMA NestedHitBelow ==
  ASSUME NEW l, NEW e, NEW f, NEW coming \in BOOLEAN, NEW later \in BOOLEAN, NEW above, NEW below,
         Nested(l, e, f, coming, above, below), e.status = "SEND_REQ", e.req.line \in below
  PROVE  Nested(l, e, f, later, above, below)
BY DEF Nested

\* The upper entry's request misses below.
LEMMA NestedMissBelow ==
  ASSUME NEW l, NEW e, NEW f, NEW h, NEW above, NEW below, Nested(l, e, f, FALSE, above, below),
         e.status = "SEND_REQ", f.status = "NO_TYPE", h.status = "ALLOCATE", h.req.line = e.req.line
  PROVE  Nested(l, e, h, FALSE, above, below)
BY DEF Nested, Asked, Missing

\* The lower entry asks further below.
LEMMA NestedAsksBelow ==
  ASSUME NEW l, NEW e, NEW f, NEW h, NEW coming \in BOOLEAN, NEW above, NEW below,
         Nested(l, e, f, coming, above, below), f.status = "ALLOCATE", h.status = "SEND_REQ", h.req = f.req
  PROVE  Nested(l, e, h, coming, above, below)
BY DEF Nested, Asked, Missing

\* The lower entry gets a segment.
LEMMA NestedGetsBelow ==
  ASSUME NEW l, NEW e, NEW f, NEW h, NEW coming \in BOOLEAN, NEW later \in BOOLEAN, NEW above, NEW below,
         Nested(l, e, f, coming, above, below), f.status \in {"SEND_REQ", "RECV_CRITICAL_SEG"},
         h.status \in {"RECV_CRITICAL_SEG", "RECV_WHOLE_LINE"}, h.req = f.req
  PROVE  Nested(l, e, h, later, above, below)
<1>1. Asked(e.status) /\ e.req.line = f.req.line /\ h.req.line = f.req.line /\ Missing(h.status)
  BY DEF Nested, Missing
<1>2. \A z \in above : z \in below \/ SameSet(l, e.req.line, z)
  BY DEF Nested
<1> QED BY <1>1, <1>2 DEF Nested

\* The lower cache replaces a line that the upper one gives up too.
LEMMA NestedHoldsBelow ==
  ASSUME NEW l, NEW e, NEW f, NEW h, NEW coming \in BOOLEAN, NEW above, NEW below, NEW held,
         Nested(l, e, f, coming, above, below), f.status = "RECV_WHOLE_LINE", h.status = "REFILL",
         held = {z \in below : ~SameSet(l + 1, f.req.line, z)} \cup {f.req.line},
         \A x, z \in above : SameSet(l, x, z) => x = z,
         \A z \in above : SameSet(l + 1, f.req.line, z) => SameSet(l, f.req.line, z)
  PROVE  Nested(l, e, h, coming, above, held)
<1>1. Missing(f.status) /\ ~Missing(h.status)
  BY DEF Missing
<1>2. \/ Asked(e.status) /\ e.req.line = f.req.line
      \/ ~Asked(e.status) /\ f.req.line \in above
  BY <1>1 DEF Nested
<1>3. ASSUME NEW z \in above
      PROVE  z \in held \/ (Asked(e.status) /\ SameSet(l, e.req.line, z))
  <2>1. CASE z = f.req.line
    BY <2>1
  <2>2. CASE z # f.req.line /\ ~SameSet(l + 1, f.req.line, z)
    <3>1. z \in below \/ (Asked(e.status) /\ SameSet(l, e.req.line, z))
      BY <2>2 DEF Nested
    <3> QED BY <2>2, <3>1
  <2>3. CASE z # f.req.line /\ SameSet(l + 1, f.req.line, z)
    BY <1>2, <2>3
  <2> QED BY <2>1, <2>2, <2>3
<1>4. Asked(e.status) => e.req.line \in held
  BY <1>2
<1>5. e.status = "REFILL" => e.req.line \in above
  BY DEF Nested
<1> QED BY <1>1, <1>3, <1>4, <1>5 DEF Nested

\* The lower entry is freed.
LEMMA NestedDoneBelow ==
  ASSUME NEW l, NEW e, NEW f, NEW h, NEW coming \in BOOLEAN, NEW above, NEW below,
         Nested(l, e, f, coming, above, below), f.status = "REFILL", h.status = "NO_TYPE"
  PROVE  Nested(l, e, h, coming, above, below)
BY DEF Nested, Missing

-----------------------------------------------------------------------------
(* Each action keeps the pairs nested.                                     *)

\* PairInv in terms of its values.
LEMMA PairIs ==
  ASSUME NEW l \in Level, NEW coming \in BOOLEAN, coming <=> Stream(l) # << >>, PairInv(l)
  PROVE  Nested(l, Entry(l), Entry(l + 1), coming, Held(l), Held(l + 1))
BY DEF PairInv, Nested

\* PairInv of the next state in terms of its values.
LEMMA PairNext ==
  ASSUME NEW l \in Level, NEW g, NEW h, NEW coming \in BOOLEAN, NEW above, NEW below,
         Entry(l)' = g, Entry(l + 1)' = h, coming <=> Stream(l)' # << >>,
         Held(l)' = above, Held(l + 1)' = below, Nested(l, g, h, coming, above, below),
         in_access_req'[l + 1] # << >> => Head(in_access_req'[l + 1]).line = g.req.line
  PROVE  PairInv(l)'
<1>1. Nested(l, g, h, Stream(l)' # << >>, above, below)
  BY DEF Nested
<1> QED BY <1>1 DEF PairInv

\* A step that leaves both levels alone keeps their pair.
LEMMA PairSame ==
  ASSUME NEW l \in Level, PairInv(l), Entry(l)' = Entry(l), Entry(l + 1)' = Entry(l + 1),
         Stream(l)' = Stream(l), Held(l)' = Held(l), Held(l + 1)' = Held(l + 1),
         in_access_req'[l + 1] = in_access_req[l + 1]
  PROVE  PairInv(l)'
BY DEF PairInv

\* What the caches hold, when no tag changes.
LEMMA HeldSame == ASSUME UNCHANGED tagram PROVE \A k \in Level : Held(k)' = Held(k)
BY DEF Held, tagCompare

\* A lookup keeps the caches nested.
LEMMA FuncaccessNests ==
  ASSUME DefaultChain, PortInv, InclusionInv, NEW l \in Level, funcaccess(l)
  PROVE  InclusionInv'
<1>1. ChainInv /\ LinkCreditsConserved /\ CreditsFit /\ IdsAreZero /\ l \notin PerfectLevel
  BY DefaultFits DEF PortInv, CreditInv, DefaultChain
<1>2. /\ in_access_req[l] # << >> /\ in_access_req' = [in_access_req EXCEPT ![l] = Tail(@)]
  BY DEF funcaccess
<1>3. l \in Server /\ in_access_req \in [Server -> Seq(Question)] /\ in_access_req[l] \in Seq(Question)
  BY <1>1, LevelFacts DEF IdsAreZero
<1>4. PICK req \in Question : req = Head(in_access_req[l])
  BY <1>2, <1>3, HeadAndTail
<1>5. Hit(l, req) \/ Miss(l, req)
  BY <1>1, <1>4 DEF funcaccess, PerfectAccess
<1>6. MshrAvail(mshr[l]) /\ Entry(l).status = "NO_TYPE"
  BY <1>1, <1>2, PlaceIsFree, EntryFacts
<1>7. UNCHANGED <<tagram, in_access_resp>> /\ out_resp_queue \in [Level -> Seq(Answer)]
  BY <1>1, <1>5 DEF Hit, Miss, IdsAreZero
<1>8. \A k \in Level : Held(k)' = Held(k)
  BY <1>7, HeldSame
<1>9. in_access_req'[l] = Tail(in_access_req[l]) /\ \A s \in Server : s # l => in_access_req'[s] = in_access_req[s]
  BY <1>2, <1>3
<1>10. SUFFICES ASSUME NEW k \in Level, Nests(k) PROVE PairInv(k)'
  BY DEF InclusionInv
<1>11. PairInv(k) /\ k + 1 \in Level /\ k + 1 # Memory /\ k # k + 1 /\ k + 1 \in Server
  BY <1>10, LevelFacts, LinkFacts DEF InclusionInv, Nests
<1>12. ASSUME k + 1 = l
       PROVE  /\ Entry(k).status = "SEND_REQ" /\ Stream(k) = << >> /\ in_access_req'[k + 1] = << >>
              /\ req.line = Entry(k).req.line /\ k # l
  <2>1. /\ Entry(k).status = "SEND_REQ" /\ Stream(k) = << >> /\ Len(Tail(in_access_req[l])) = 0
    BY <1>2, <1>11, <1>12, RequestAbove
  <2>2. Tail(in_access_req[l]) \in Seq(Question)
    BY <1>2, <1>3, HeadAndTail
  <2>3. Tail(in_access_req[l]) = << >>
    BY <2>1, <2>2, EmptyLen
  <2> QED BY <1>2, <1>4, <1>9, <1>11, <1>12, <2>1, <2>3 DEF PairInv
<1>13. CASE Hit(l, req)
  <2>1. \A j \in Level : Entry(j)' = Entry(j)
    BY <1>13 DEF Hit, Entry
  <2>2. CASE k + 1 # l
    <3>1. out_resp_queue' = [out_resp_queue EXCEPT ![l] = out_resp_queue[l] \o makeResp(l, req)]
      BY <1>13 DEF Hit, Respond
    <3>2. out_resp_queue'[k + 1] = out_resp_queue[k + 1]
      BY <1>7, <1>11, <2>2, <3>1
    <3>3. Stream(k)' = Stream(k)
      BY <1>7, <3>2, StreamSame
    <3> QED BY <1>8, <1>9, <1>11, <2>1, <2>2, <3>3, PairSame
  <2>3. CASE k + 1 = l
    <3>1. PICK now \in BOOLEAN, later \in BOOLEAN : (now <=> Stream(k) # << >>) /\ (later <=> Stream(k)' # << >>)
      OBVIOUS
    <3>2. Nested(k, Entry(k), Entry(k + 1), now, Held(k), Held(k + 1))
      BY <1>11, <3>1, PairIs
    <3>3. Entry(k).req.line \in Held(k + 1)
      BY <1>12, <1>13, <2>3 DEF Hit, Held, Question
    <3>4. Nested(k, Entry(k), Entry(k + 1), later, Held(k), Held(k + 1))
      BY <1>12, <2>3, <3>2, <3>3, NestedHitBelow
    <3> QED BY <1>8, <1>11, <1>12, <2>1, <2>3, <3>1, <3>4, PairNext
  <2> QED BY <2>2, <2>3
<1>14. CASE Miss(l, req)
  <2>1. /\ mshr' = [mshr EXCEPT ![l] = Allocate(mshr[l], [req EXCEPT !.mshrid = mshr[l].tail])]
        /\ UNCHANGED out_resp_queue
    BY <1>6, <1>14 DEF Miss
  <2>2. /\ Entry(l)' = [status |-> "ALLOCATE", req |-> req]
        /\ \A j \in Level : j # l => Entry(j)' = Entry(j)
    BY <1>1, <1>6, <2>1, AllocateMoves
  <2>3. Stream(k)' = Stream(k)
    BY <1>7, <2>1, StreamSame
  <2>4. PICK h : h = Entry(l)' /\ h.status = "ALLOCATE" /\ h.req = req
    BY <2>2
  <2>5. PICK now \in BOOLEAN : now <=> Stream(k) # << >>
    OBVIOUS
  <2>6. Nested(k, Entry(k), Entry(k + 1), now, Held(k), Held(k + 1))
    BY <1>11, <2>5, PairIs
  <2>7. CASE k # l /\ k + 1 # l
    BY <1>8, <1>9, <1>11, <2>2, <2>3, <2>7, PairSame
  <2>8. CASE k = l
    <3>1. in_access_req'[k + 1] = in_access_req[k + 1] /\ Entry(k + 1)' = Entry(k + 1)
      BY <1>9, <1>11, <2>2, <2>8
    <3>2. in_access_req[k + 1] = << >>
      <4>1. in_access_req[k + 1] # << >> => Entry(k).status = "SEND_REQ"
        BY <1>11, RequestAbove
      <4> QED BY <1>6, <2>8, <4>1
    <3>3. Nested(k, h, Entry(k + 1), now, Held(k), Held(k + 1))
      BY <1>6, <2>4, <2>6, <2>8, NestedMissAbove
    <3> QED BY <1>8, <1>11, <2>3, <2>4, <2>5, <2>8, <3>1, <3>2, <3>3, PairNext
  <2>9. CASE k + 1 = l
    <3>1. ~now
      BY <1>12, <2>5, <2>9
    <3>2. Nested(k, Entry(k), h, FALSE, Held(k), Held(k + 1))
      <4>1. Nested(k, Entry(k), Entry(k + 1), FALSE, Held(k), Held(k + 1))
        BY <2>6, <3>1
      <4> QED BY <1>6, <1>12, <2>4, <2>9, <4>1, NestedMissBelow
    <3>3. Entry(k)' = Entry(k) /\ in_access_req'[k + 1] = << >>
      BY <1>12, <2>2, <2>9
    <3> QED BY <1>8, <1>11, <2>3, <2>4, <2>5, <2>9, <3>1, <3>2, <3>3, PairNext
  <2> QED BY <2>7, <2>8, <2>9
<1> QED BY <1>5, <1>13, <1>14

\* An answer from below keeps the caches nested.
LEMMA RecvRespNests ==
  ASSUME DefaultChain, PortInv, InclusionInv, NEW l \in Level, recvResp(l)
  PROVE  InclusionInv'
<1>1. ChainInv /\ IdsAreZero
  BY DEF PortInv, CreditInv
<1>2. /\ in_access_resp[l] # << >> /\ in_access_resp' = [in_access_resp EXCEPT ![l] = Tail(@)]
      /\ UNCHANGED in_access_req
  BY DEF recvResp
<1>3. in_access_resp \in [Requester -> Seq(Answer)] /\ out_resp_queue \in [Level -> Seq(Answer)]
      /\ l \in Requester
  BY <1>1, LevelFacts DEF IdsAreZero
<1>4. \A k \in Requester : k # l => in_access_resp'[k] = in_access_resp[k]
  BY <1>2, <1>3
<1>5. PICK from \in {"SEND_REQ", "RECV_CRITICAL_SEG"}, to \in {"RECV_CRITICAL_SEG", "RECV_WHOLE_LINE"} :
         /\ EntryMoves(l, from, to) \/ (from = to /\ Entry(l).status = from /\ UNCHANGED <<mshr, out_resp_queue>>)
         /\ \A k \in Level : k # l => out_resp_queue'[k] = out_resp_queue[k]
         /\ UNCHANGED tagram
  <2>1. PICK resp \in Answer, req \in Question :
           /\ UNCHANGED tagram
           /\ \/ l = LevelNum /\ EntryMoves(l, "SEND_REQ", "RECV_WHOLE_LINE") /\ Respond(l, makeResp(l, req))
              \/ /\ l # LevelNum /\ resp.subindex = 0
                 /\ EntryMoves(l, "SEND_REQ", "RECV_CRITICAL_SEG") /\ Respond(l, makeCriticalResp(l, req))
              \/ /\ l # LevelNum /\ resp.subindex # 0 /\ resp.subindex = SegNum - 1
                 /\ EntryMoves(l, "RECV_CRITICAL_SEG", "RECV_WHOLE_LINE")
                 /\ Respond(l, makeNonCriticalResp(l, req))
              \/ /\ l # LevelNum /\ resp.subindex # 0 /\ resp.subindex # SegNum - 1
                 /\ Entry(l).status = "RECV_CRITICAL_SEG" /\ UNCHANGED <<mshr, out_resp_queue>>
    BY RecvRespMoves
  <2>2. ASSUME NEW resps, Respond(l, resps)
        PROVE  \A k \in Level : k # l => out_resp_queue'[k] = out_resp_queue[k]
    <3>1. out_resp_queue' = [out_resp_queue EXCEPT ![l] = out_resp_queue[l] \o resps]
      BY <2>2 DEF Respond
    <3> QED BY <1>3, <3>1
  <2>3. CASE EntryMoves(l, "SEND_REQ", "RECV_WHOLE_LINE") /\ Respond(l, makeResp(l, req))
    BY <2>1, <2>2, <2>3
  <2>4. CASE EntryMoves(l, "SEND_REQ", "RECV_CRITICAL_SEG") /\ Respond(l, makeCriticalResp(l, req))
    BY <2>1, <2>2, <2>4
  <2>5. CASE EntryMoves(l, "RECV_CRITICAL_SEG", "RECV_WHOLE_LINE") /\ Respond(l, makeNonCriticalResp(l, req))
    BY <2>1, <2>2, <2>5
  <2>6. CASE Entry(l).status = "RECV_CRITICAL_SEG" /\ UNCHANGED <<mshr, out_resp_queue>>
    BY <2>1, <2>6
  <2> QED BY <2>1, <2>3, <2>4, <2>5, <2>6
<1>6. PICK g : /\ g = Entry(l)' /\ Entry(l).status = from /\ g.status = to /\ g.req = Entry(l).req
               /\ \A k \in Level : k # l => Entry(k)' = Entry(k)
  <2>1. CASE EntryMoves(l, from, to)
    BY <2>1 DEF EntryMoves
  <2>2. CASE from = to /\ Entry(l).status = from /\ UNCHANGED <<mshr, out_resp_queue>>
    <3>1. \A k \in Level : Entry(k)' = Entry(k)
      BY <2>2 DEF Entry
    <3> QED BY <2>2, <3>1
  <2> QED BY <1>5, <2>1, <2>2
<1>7. \A k \in Level : Held(k)' = Held(k)
  BY <1>5, HeldSame
<1>8. SUFFICES ASSUME NEW k \in Level, Nests(k) PROVE PairInv(k)'
  BY DEF InclusionInv
<1>9. PairInv(k) /\ k + 1 \in Level /\ k # k + 1 /\ k \in Requester /\ k + 1 # Memory
  BY <1>8, LevelFacts, LinkFacts DEF InclusionInv, Nests
<1>10. PICK now \in BOOLEAN, later \in BOOLEAN : (now <=> Stream(k) # << >>) /\ (later <=> Stream(k)' # << >>)
  OBVIOUS
<1>11. Nested(k, Entry(k), Entry(k + 1), now, Held(k), Held(k + 1))
  BY <1>9, <1>10, PairIs
<1>12. in_access_req[k + 1] # << >> => Head(in_access_req[k + 1]).line = Entry(k).req.line
  BY <1>9 DEF PairInv
<1>13. CASE k = l
  <2>1. now
    <3>1. PICK a \in Seq(Request), b \in Seq(Request) : a = in_access_resp[k] /\ Stream(k) = a \o b /\ a # << >>
      BY <1>2, <1>9, <1>13, LinkParts
    <3>2. a \o b # << >>
      BY <3>1, StreamTaken
    <3> QED BY <1>10, <3>1, <3>2, Zenon
  <2>2. Nested(k, Entry(k), Entry(k + 1), TRUE, Held(k), Held(k + 1))
    BY <1>11, <2>1
  <2>3. Nested(k, g, Entry(k + 1), later, Held(k), Held(k + 1))
    BY <1>6, <1>13, <2>2, NestedGets
  <2>4. Entry(k + 1)' = Entry(k + 1) /\ Entry(k)' = g
    BY <1>6, <1>9, <1>13
  <2> QED BY <1>2, <1>6, <1>7, <1>9, <1>10, <1>12, <1>13, <2>3, <2>4, PairNext
<1>14. CASE k + 1 = l
  <2>1. Nested(k, Entry(k), g, later, Held(k), Held(k + 1))
    BY <1>6, <1>11, <1>14, NestedGetsBelow
  <2>2. Entry(k + 1)' = g /\ Entry(k)' = Entry(k)
    BY <1>6, <1>9, <1>14
  <2> QED BY <1>2, <1>7, <1>9, <1>10, <1>12, <2>1, <2>2, PairNext
<1>15. CASE k # l /\ k + 1 # l
  <2>1. Stream(k)' = Stream(k)
    BY <1>4, <1>5, <1>9, <1>15, StreamSame
  <2> QED BY <1>2, <1>6, <1>7, <1>9, <1>15, <2>1, PairSame
<1> QED BY <1>13, <1>14, <1>15

\* A cache that has a credit for the one below finds it idle.
LEMMA IdleBelow ==
  ASSUME DefaultChain, PortInv, NEW l \in Level, l + 1 \in Level, next_level_credit[l] > 0
  PROVE  Entry(l + 1).status = "NO_TYPE" /\ in_access_req[l + 1] = << >>
<1>1. ChainInv /\ LinkCreditsConserved
  BY DEF PortInv, CreditInv
<1>2. l \in Requester /\ l + 1 # Memory /\ InitCredits[l + 1] = 1
  BY LevelFacts, LinkFacts DEF DefaultChain
<1>3. PICK c \in Nat, u \in Nat, n \in Nat, o \in Nat :
         /\ c = next_level_credit[l] /\ u = CreditsUnderWay(l) /\ n = Len(in_access_req[l + 1])
         /\ o = Occupied(l + 1)
  BY <1>1, <1>2, LinkNumbers
<1>4. c + u + n + o = 1
  BY <1>1, <1>2, <1>3 DEF LinkCreditsConserved
<1>5. n = 0 /\ o = 0
  <2>1. c > 0
    BY <1>3
  <2> QED BY <1>4, <2>1
<1>6. in_access_req[l + 1] \in Seq(Request) /\ mshr[l + 1].used = 0
  BY <1>1, <1>2, <1>3, <1>5, LinkNumbers DEF Occupied
<1> QED BY <1>1, <1>3, <1>5, <1>6, EntryFacts, EmptyLen

\* A cache that is not waiting has nothing under way below it.
LEMMA NothingBelow ==
  ASSUME DefaultChain, PortInv, NEW l \in Level, l + 1 \in Level,
         Entry(l).status \notin {"SEND_REQ", "RECV_CRITICAL_SEG"}
  PROVE  /\ Entry(l + 1).status \notin {"ALLOCATE", "SEND_REQ", "RECV_CRITICAL_SEG"}
         /\ Stream(l) = << >> /\ in_access_req[l + 1] = << >>
<1>1. l + 1 # Memory /\ LinkInv(l)
  BY LinkFacts, LinkParts
<1>2. Pending(l + 1) = 0 /\ ~Half(l + 1) /\ Stream(l) = << >>
  BY <1>1 DEF LinkInv, LinkFits
<1>3. in_access_req[l + 1] \in Seq(Request)
  BY LinkParts
<1>4. PICK n \in Nat : n = Len(in_access_req[l + 1])
  BY <1>3
<1>5. PICK b \in 0 .. 1 : b = IF Entry(l + 1).status \in {"ALLOCATE", "SEND_REQ"} THEN 1 ELSE 0
  OBVIOUS
<1>6. n + b = 0
  BY <1>1, <1>2, <1>4, <1>5 DEF Pending
<1>7. n = 0 /\ b = 0
  BY <1>6
<1>8. in_access_req[l + 1] = << >>
  BY <1>3, <1>4, <1>7, EmptyLen
<1>9. Entry(l + 1).status \notin {"ALLOCATE", "SEND_REQ"}
  BY <1>5, <1>7
<1> QED BY <1>1, <1>2, <1>8, <1>9 DEF Half

\* A round of handleMshr keeps the caches nested.
LEMMA HandleMshrNests ==
  ASSUME DefaultChain, PortInv, InclusionInv, NEW l \in Level, handleMshr(l)
  PROVE  InclusionInv'
<1>1. ChainInv /\ IdsAreZero
  BY DEF PortInv, CreditInv
<1>2. UNCHANGED <<out_resp_queue, in_access_resp>>
  BY DEF handleMshr
<1>3. SUFFICES ASSUME NEW k \in Level, Nests(k) PROVE PairInv(k)'
  BY DEF InclusionInv
<1>4. /\ PairInv(k) /\ k + 1 \in Level /\ k # k + 1 /\ k \in Requester /\ k + 1 # Memory /\ k + 1 \in Server
      /\ l + 1 \in Server
  BY <1>3, LevelFacts, LinkFacts DEF InclusionInv, Nests
<1>5. Stream(k)' = Stream(k)
  BY <1>2, StreamSame
<1>6. PICK now \in BOOLEAN : now <=> Stream(k) # << >>
  OBVIOUS
<1>7. Nested(k, Entry(k), Entry(k + 1), now, Held(k), Held(k + 1))
  BY <1>4, <1>6, PairIs
<1>8. in_access_req[k + 1] # << >> => Head(in_access_req[k + 1]).line = Entry(k).req.line
  BY <1>4 DEF PairInv
<1>9. in_access_req \in [Server -> Seq(Question)] /\ Entry(l).req \in Question /\ Entry(l).req.line \in Line
  BY <1>1 DEF IdsAreZero, Question
<1>10. \A x, z \in Held(k) : SameSet(k, x, z) => x = z
  BY <1>1, OneLineHeld
<1>11. ASSUME NEW from, NEW to, EntryMoves(l, from, to)
       PROVE  \E g : /\ g = Entry(l)' /\ Entry(l).status = from /\ g.status = to /\ g.req = Entry(l).req
                     /\ \A j \in Level : j # l => Entry(j)' = Entry(j)
  BY <1>11 DEF EntryMoves
<1>12. CASE /\ EntryMoves(l, "ALLOCATE", "SEND_REQ") /\ UNCHANGED tagram /\ next_level_credit[l] > 0
            /\ in_access_req' = [in_access_req EXCEPT ![l + 1] = Append(@, Entry(l).req)]
  <2>1. PICK g : /\ g = Entry(l)' /\ Entry(l).status = "ALLOCATE" /\ g.status = "SEND_REQ" /\ g.req = Entry(l).req
                 /\ \A j \in Level : j # l => Entry(j)' = Entry(j)
    BY <1>11, <1>12
  <2>2. \A j \in Level : Held(j)' = Held(j)
    BY <1>12, HeldSame
  <2>3. /\ in_access_req'[l + 1] = Append(in_access_req[l + 1], Entry(l).req)
        /\ \A s \in Server : s # l + 1 => in_access_req'[s] = in_access_req[s]
    BY <1>4, <1>9, <1>12
  <2>4. CASE k = l
    <3>1. Entry(k + 1).status = "NO_TYPE" /\ in_access_req[k + 1] = << >>
      BY <1>4, <1>12, <2>4, IdleBelow
    <3>2. ~now
      BY <1>4, <1>6, <2>1, <2>4, NothingBelow
    <3>3. Nested(k, g, Entry(k + 1), FALSE, Held(k), Held(k + 1))
      <4>1. Nested(k, Entry(k), Entry(k + 1), FALSE, Held(k), Held(k + 1))
        BY <1>7, <3>2
      <4> QED BY <2>1, <2>4, <3>1, <4>1, NestedAsks
    <3>4. Head(in_access_req'[k + 1]).line = g.req.line
      <4>1. in_access_req'[k + 1] = Append(<< >>, Entry(l).req)
        BY <2>3, <2>4, <3>1
      <4>2. Head(Append(<< >>, Entry(l).req)) = Entry(l).req
        OBVIOUS
      <4> QED BY <2>1, <4>1, <4>2
    <3>5. Entry(k)' = g /\ Entry(k + 1)' = Entry(k + 1) /\ (now <=> Stream(k)' # << >>)
      BY <1>4, <1>5, <1>6, <2>1, <2>4
    <3> QED BY <1>4, <2>2, <3>2, <3>3, <3>4, <3>5, PairNext
  <2>5. CASE k # l
    <3>1. k + 1 # l + 1
      BY <2>5, LevelFacts
    <3>2. in_access_req'[k + 1] = in_access_req[k + 1] /\ Entry(k)' = Entry(k)
      BY <1>4, <2>1, <2>3, <2>5, <3>1
    <3>3. CASE k + 1 = l
      <4>1. Nested(k, Entry(k), g, now, Held(k), Held(k + 1))
        BY <1>7, <2>1, <3>3, NestedAsksBelow
      <4>2. Entry(k + 1)' = g /\ (now <=> Stream(k)' # << >>)
        BY <1>5, <1>6, <2>1, <3>3
      <4> QED BY <1>4, <1>8, <2>2, <3>2, <4>1, <4>2, PairNext
    <3>4. CASE k + 1 # l
      BY <1>4, <1>5, <2>1, <2>2, <3>2, <3>4, PairSame
    <3> QED BY <3>3, <3>4
  <2> QED BY <2>4, <2>5
<1>13. CASE EntryMoves(l, "RECV_WHOLE_LINE", "REFILL") /\ UNCHANGED in_access_req
            /\ ramRefill(l, Entry(l).req.line)
  <2>1. PICK g : /\ g = Entry(l)' /\ Entry(l).status = "RECV_WHOLE_LINE" /\ g.status = "REFILL"
                 /\ g.req = Entry(l).req /\ \A j \in Level : j # l => Entry(j)' = Entry(j)
    BY <1>11, <1>13
  <2>2. PICK held : /\ held = {z \in Held(l) : ~SameSet(l, Entry(l).req.line, z)} \cup {Entry(l).req.line}
                    /\ Held(l)' = held /\ \A j \in Level : j # l => Held(j)' = Held(j)
    BY <1>1, <1>9, <1>13, RefillHolds
  <2>3. now <=> Stream(k)' # << >>
    BY <1>5, <1>6
  <2>4. CASE k = l
    <3>1. Nested(k, g, Entry(k + 1), now, held, Held(k + 1))
      BY <1>7, <2>1, <2>2, <2>4, NestedHolds
    <3>2. Entry(k)' = g /\ Entry(k + 1)' = Entry(k + 1) /\ Held(k)' = held /\ Held(k + 1)' = Held(k + 1)
      BY <1>4, <2>1, <2>2, <2>4
    <3>3. in_access_req'[k + 1] # << >> => Head(in_access_req'[k + 1]).line = g.req.line
      BY <1>8, <1>13, <2>1, <2>4
    <3> QED BY <2>3, <3>1, <3>2, <3>3, PairNext
  <2>5. CASE k + 1 = l
    <3>1. \A z \in Held(k) : SameSet(k + 1, Entry(l).req.line, z) => SameSet(k, Entry(l).req.line, z)
      BY <1>3, <1>9, SameSetAbove DEF Held
    <3>2. Nested(k, Entry(k), g, now, Held(k), held)
      BY <1>7, <1>10, <2>1, <2>2, <2>5, <3>1, NestedHoldsBelow
    <3>3. Entry(k + 1)' = g /\ Entry(k)' = Entry(k) /\ Held(k + 1)' = held /\ Held(k)' = Held(k)
      BY <1>4, <2>1, <2>2, <2>5
    <3>4. in_access_req'[k + 1] # << >> => Head(in_access_req'[k + 1]).line = Entry(k).req.line
      BY <1>8, <1>13
    <3> QED BY <2>3, <3>2, <3>3, <3>4, PairNext
  <2>6. CASE k # l /\ k + 1 # l
    BY <1>4, <1>5, <1>13, <2>1, <2>2, <2>6, PairSame
  <2> QED BY <2>4, <2>5, <2>6
<1>14. CASE EntryMoves(l, "REFILL", "NO_TYPE") /\ UNCHANGED <<in_access_req, tagram>>
  <2>1. PICK g : /\ g = Entry(l)' /\ Entry(l).status = "REFILL" /\ g.status = "NO_TYPE"
                 /\ g.req = Entry(l).req /\ \A j \in Level : j # l => Entry(j)' = Entry(j)
    BY <1>11, <1>14
  <2>2. \A j \in Level : Held(j)' = Held(j)
    BY <1>14, HeldSame
  <2>3. now <=> Stream(k)' # << >>
    BY <1>5, <1>6
  <2>4. CASE k = l
    <3>1. Entry(k + 1).status \notin {"ALLOCATE", "SEND_REQ", "RECV_CRITICAL_SEG"}
      BY <1>4, <2>1, <2>4, NothingBelow
    <3>2. Nested(k, g, Entry(k + 1), now, Held(k), Held(k + 1))
      BY <1>7, <1>10, <2>1, <2>4, <3>1, NestedDone
    <3>3. Entry(k)' = g /\ Entry(k + 1)' = Entry(k + 1)
      BY <1>4, <2>1, <2>4
    <3>4. in_access_req'[k + 1] # << >> => Head(in_access_req'[k + 1]).line = g.req.line
      BY <1>8, <1>14, <2>1, <2>4
    <3> QED BY <1>4, <2>2, <2>3, <3>2, <3>3, <3>4, PairNext
  <2>5. CASE k + 1 = l
    <3>1. Nested(k, Entry(k), g, now, Held(k), Held(k + 1))
      BY <1>7, <2>1, <2>5, NestedDoneBelow
    <3>2. Entry(k + 1)' = g /\ Entry(k)' = Entry(k)
      BY <1>4, <2>1, <2>5
    <3>3. in_access_req'[k + 1] # << >> => Head(in_access_req'[k + 1]).line = Entry(k).req.line
      BY <1>8, <1>14
    <3> QED BY <1>4, <2>2, <2>3, <3>1, <3>2, <3>3, PairNext
  <2>6. CASE k # l /\ k + 1 # l
    BY <1>4, <1>5, <1>14, <2>1, <2>2, <2>6, PairSame
  <2> QED BY <2>4, <2>5, <2>6
<1>15. CASE (\A j \in Level : Entry(j)' = Entry(j)) /\ UNCHANGED <<in_access_req, tagram>>
  BY <1>4, <1>5, <1>15, HeldSame, PairSame
<1> QED BY <1>1, <1>12, <1>13, <1>14, <1>15, EntryRound

\* The other steps do not touch a pair.
LEMMA ElsewhereNests ==
  ASSUME InclusionInv, UNCHANGED <<mshr, tagram>>,
         \A k \in Level : Nests(k) => Stream(k)' = Stream(k) /\ in_access_req'[k + 1] = in_access_req[k + 1]
  PROVE  InclusionInv'
<1>1. \A k \in Level : Entry(k)' = Entry(k) /\ Held(k)' = Held(k)
  BY HeldSame DEF Entry
<1>2. ASSUME NEW k \in Level, Nests(k) PROVE PairInv(k)'
  BY <1>1, <1>2, PairSame DEF InclusionInv, Nests
<1> QED BY <1>2 DEF InclusionInv

\* The initial states satisfy InclusionInv.
LEMMA InclusionInit == Init /\ DefaultChain => InclusionInv
<1> SUFFICES ASSUME Init, DefaultChain, NEW l \in Level, Nests(l) PROVE PairInv(l)
  BY DEF InclusionInv
<1>1. /\ in_access_req = [s \in Server |-> << >>] /\ mshr = [k \in Level |-> NewMshr(MshrSize[k], NoRequest)]
      /\ tagram = [k \in Level |-> [s \in 0 .. SetNum[k] - 1 |->
                                      [w \in Way(k) |-> [tag |-> 0, valid |-> FALSE]]]]
  BY DEF Init, PortsInit, CacheInit
<1>2. \A k \in Level : Entry(k).status = "NO_TYPE"
  <2>1. 0 \in 0 .. 1 - 1
    OBVIOUS
  <2> QED BY <1>1, <2>1 DEF Entry, NewMshr, DefaultChain
<1>3. Held(l) = {}
  <2>1. ASSUME NEW x \in Line, NEW w \in Way(l) PROVE ~tagram[l][getIndex(l, x)][w].valid
    BY <1>1, IndexIsSet
  <2> QED BY <2>1 DEF Held, tagCompare
<1>4. l + 1 \in Level /\ l + 1 \in Server
  BY LevelFacts DEF Nests
<1>5. in_access_req[l + 1] = << >>
  BY <1>1, <1>4
<1> QED BY <1>2, <1>3, <1>4, <1>5 DEF PairInv, Nested, Asked, Missing

\* Every step keeps InclusionInv.
LEMMA InclusionStep ==
  ASSUME DefaultChain, PortInv, InclusionInv, [Next]_vars
  PROVE  InclusionInv'
<1>1. /\ in_access_req \in [Server -> Seq(Question)] /\ in_access_resp \in [Requester -> Seq(Answer)]
  BY DEF PortInv, IdsAreZero
<1>2. ASSUME NEW k \in Level, Nests(k)
      PROVE  /\ k \in Requester /\ k # 0 /\ k # LevelNum /\ k + 1 # 1 /\ k + 1 \in Server
             /\ k + 1 # Memory /\ k + 1 \in Level
  BY <1>2, LevelFacts, LinkFacts, UncoreAssumption DEF Nests, Memory
<1>3. ASSUME NEW line \in Line, CoreAsk(line) PROVE InclusionInv'
  <2>1. UNCHANGED <<mshr, tagram, out_resp_queue, in_access_resp>>
    BY <1>3 DEF CoreAsk, cacheVars
  <2>2. \A s \in Server : s # 1 => in_access_req'[s] = in_access_req[s]
    BY <1>1, <1>3, LinkFacts DEF CoreAsk
  <2> QED BY <1>2, <2>1, <2>2, StreamSame, ElsewhereNests
<1>4. ASSUME CoreRecvResp PROVE InclusionInv'
  <2>1. UNCHANGED <<mshr, tagram, out_resp_queue, in_access_req>>
    BY <1>4 DEF CoreRecvResp, cacheVars
  <2>2. \A k \in Requester : k # 0 => in_access_resp'[k] = in_access_resp[k]
    BY <1>1, <1>4, LinkFacts DEF CoreRecvResp
  <2> QED BY <1>2, <2>1, <2>2, StreamSame, ElsewhereNests
<1>5. ASSUME MemoryStep PROVE InclusionInv'
  <2>1. UNCHANGED <<mshr, tagram, out_resp_queue>>
    BY <1>5 DEF MemoryStep, cacheVars
  <2>2. \A s \in Server : s # Memory => in_access_req'[s] = in_access_req[s]
    BY <1>1, <1>5, LinkFacts DEF MemoryStep, receive_mem_req, handle_mem_req
  <2>3. \A k \in Requester : k # LevelNum => in_access_resp'[k] = in_access_resp[k]
    <3>1. Memory - 1 = LevelNum
      BY UncoreAssumption DEF Memory
    <3> QED BY <1>1, <1>5, <3>1 DEF MemoryStep, receive_mem_req, handle_mem_req, SendResp
  <2> QED BY <1>2, <2>1, <2>2, <2>3, StreamSame, ElsewhereNests
<1>6. ASSUME NEW l \in Requester, CreditStep(l) PROVE InclusionInv'
  <2>1. UNCHANGED <<mshr, tagram, out_resp_queue, in_access_req, in_access_resp>>
    BY <1>6 DEF CreditStep, recvCredit, cacheVars
  <2> QED BY <2>1, StreamSame, ElsewhereNests
<1>7. ASSUME NEW l \in Level, CacheStep(l) PROVE InclusionInv'
  <2>1. ChainInv
    BY DEF PortInv, CreditInv
  <2>2. CASE funcaccess(l)
    BY <2>2, FuncaccessNests
  <2>3. CASE recvResp(l)
    BY <2>3, RecvRespNests
  <2>4. CASE handleMshr(l)
    BY <2>4, HandleMshrNests
  <2>5. CASE outRespArbiter(l)
    <3>1. UNCHANGED <<mshr, tagram, in_access_req>>
      BY <2>5 DEF outRespArbiter
    <3> QED BY <2>5, <3>1, ArbiterStream, ElsewhereNests
  <2> QED BY <1>7, <2>1, <2>2, <2>3, <2>4, <2>5, NoOverrun DEF CacheStep
<1>8. ASSUME UNCHANGED vars PROVE InclusionInv'
  <2>1. UNCHANGED <<mshr, tagram, out_resp_queue, in_access_req, in_access_resp>>
    BY <1>8 DEF vars, portVars, cacheVars
  <2> QED BY <2>1, StreamSame, ElsewhereNests
<1> QED BY <1>3, <1>4, <1>5, <1>6, <1>7, <1>8 DEF Next, CoreStep, Handlers

\* The only entry is in use unless it is free.
LEMMA EntryInUse ==
  ASSUME DefaultChain, ChainInv, NEW l \in Level, Entry(l).status # "NO_TYPE"
  PROVE  0 \in InUse(mshr[l])
<1>1. MissQueue(1, mshr[l]) /\ mshr[l].header = 0 /\ mshr[l].used \in 0 .. 1 /\ mshr[l].used # 0
  BY EntryFacts
<1>2. 1 \in Nat \ {0} /\ 0 \in 0 .. 1 - 1
  OBVIOUS
<1>3. RingOffset(mshr[l], 0) < mshr[l].used
  BY <1>1 DEF RingOffset
<1> QED BY <1>1, <1>2, <1>3, InUseIsRing

\* Nested pairs are inclusive caches.
LEMMA PairsAreInclusive == ASSUME DefaultChain, PortInv, InclusionInv PROVE CachesAreInclusive
<1>1. ChainInv
  BY DEF PortInv, CreditInv
<1> SUFFICES ASSUME NEW l \in Level, l + 1 \in Level, IndexSpan(l) <= IndexSpan(l + 1),
                    NEW line \in Line, tagCompare(l, line)
             PROVE  \/ tagCompare(l + 1, line)
                    \/ \E id \in InUse(mshr[l + 1]) :
                          /\ mshr[l + 1].queue[id].status = "RECV_WHOLE_LINE"
                          /\ mshr[l + 1].queue[id].req.line = line
                    \/ \E id \in InUse(mshr[l]) :
                          /\ mshr[l].queue[id].status # "ALLOCATE"
                          /\ getIndex(l, mshr[l].queue[id].req.line) = getIndex(l, line)
  BY DEF CachesAreInclusive
<1>2. line \in Held(l) /\ PairInv(l)
  BY DEF Held, InclusionInv, Nests
<1>3. \/ line \in Held(l + 1)
      \/ Entry(l + 1).status = "RECV_WHOLE_LINE" /\ Entry(l + 1).req.line = line
      \/ Asked(Entry(l).status) /\ SameSet(l, Entry(l).req.line, line)
  BY <1>2 DEF PairInv, Nested
<1>4. CASE line \in Held(l + 1)
  BY <1>4 DEF Held
<1>5. CASE Entry(l + 1).status = "RECV_WHOLE_LINE" /\ Entry(l + 1).req.line = line
  <2>1. 0 \in InUse(mshr[l + 1])
    BY <1>1, <1>5, EntryInUse
  <2> QED BY <1>5, <2>1 DEF Entry
<1>6. CASE Asked(Entry(l).status) /\ SameSet(l, Entry(l).req.line, line)
  <2>1. Entry(l).status # "NO_TYPE" /\ Entry(l).status # "ALLOCATE"
    BY <1>6 DEF Asked
  <2>2. 0 \in InUse(mshr[l])
    BY <1>1, <2>1, EntryInUse
  <2> QED BY <1>6, <2>1, <2>2 DEF Entry, SameSet
<1> QED BY <1>3, <1>4, <1>5, <1>6

\* With the default parameters every line of a cache is in the cache below when
\* that has at least as many sets, but while the line is being written below or
\* replaced above, for every number of caches, sets and ways.
THEOREM ChainIsInclusive == ASSUME DefaultChain PROVE Spec => []CachesAreInclusive
<1>1. Init => PortInv /\ InclusionInv
  BY PortInit, InclusionInit
<1>2. PortInv /\ [Next]_vars => PortInv'
  BY PortStepKeeps
<1>3. PortInv /\ InclusionInv /\ [Next]_vars => InclusionInv'
  BY InclusionStep
<1>4. PortInv /\ InclusionInv => CachesAreInclusive
  BY PairsAreInclusive
<1> QED BY <1>1, <1>2, <1>3, <1>4, PTL DEF Spec
=============================================================================
