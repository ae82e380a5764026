-------------------------------- MODULE Mshr --------------------------------
(***************************************************************************)
(* The miss queue of a cache, src/uncore/cache/Mshr.hpp: a ring of entries *)
(* as a record of its fields, each method an operator on it.  An entry is  *)
(* its status and the request that missed; the members addr and valid are  *)
(* written and never read.                                                 *)
(***************************************************************************)
EXTENDS Naturals

MshrStatus ==
    {"NO_TYPE", "ALLOCATE", "SEND_REQ", "RECV_CRITICAL_SEG", "RECV_WHOLE_LINE",
     "EVICT", "REFILL"}

\* resize(): all entries free.
NewMshr(size, req) ==
    [qsize  |-> size,
     queue  |-> [i \in 0 .. size - 1 |-> [status |-> "NO_TYPE", req |-> req]],
     used   |-> 0,
     header |-> 0,
     tail   |-> 0]

MshrAvail(m) == m.used # m.qsize

MshrEmpty(m) == m.used = 0

Wrapped(m, i) == IF i = m.qsize THEN 0 ELSE i

\* Faulty: the tail wraps one entry too late.
FaultyAllocate(m, req) ==
    [m EXCEPT !.queue[m.tail] = [status |-> "ALLOCATE", req |-> req],
              !.used = @ + 1,
              !.tail = IF @ = m.qsize THEN 0 ELSE @ + 1]

\* allocate(), and the entry as BaseCache::allocMshr fills it.
Allocate(m, req) ==
    [m EXCEPT !.queue[m.tail] = [status |-> "ALLOCATE", req |-> req],
              !.used = @ + 1,
              !.tail = Wrapped(m, @ + 1)]

\* Faulty: the status of the entry is left as it was.
FaultyDeallocate(m, id) ==
    [m EXCEPT !.used = @ - 1,
              !.header = Wrapped(m, @ + 1)]

\* deallocate(id): the header moves on whatever id is.
Deallocate(m, id) ==
    [m EXCEPT !.queue[id].status = "NO_TYPE",
              !.used = @ - 1,
              !.header = Wrapped(m, @ + 1)]

SetStatus(m, id, status) == [m EXCEPT !.queue[id].status = status]
=============================================================================
