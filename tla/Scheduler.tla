------------------------------ MODULE Scheduler ------------------------------
(***************************************************************************)
(* Sparta's scheduler, as far as the units in src/core use it, and the     *)
(* instructions the units pass around by pointer.  Sparta is not part of   *)
(* the repository.                                                         *)
(*                                                                         *)
(*   now     what is to run in this cycle: for a port the messages that    *)
(*           arrive, in the order they were sent; for an event <<Go>>      *)
(*   later   the same for the next cycle                                   *)
(*   fired   the events that have run in this cycle                        *)
(*   inst    the instructions fetched so far, in program order.  A unit    *)
(*           holds an instruction as its index here.                       *)
(***************************************************************************)
EXTENDS Wiring

VARIABLES now, later, fired, inst

schedulerVars == <<now, later, fired>>

Go == 0

Pending(c) == now[c] # << >>

\* Any handler whose turn it may be: the order of unrelated ones is open.
Ready(c) == Pending(c) /\ \A d \in Earlier[c] : ~Pending(d)

Message(c) == Head(now[c])

\* What a handler sends: at most one pair for a port, the port and the messages.
Nothing == {}

Post(c, messages) == {<<c, messages>>}

Sent(out, c) ==
    IF \E mail \in out : mail[1] = c THEN (CHOOSE mail \in out : mail[1] = c)[2] ELSE << >>

\* The handler of c runs.  It schedules the events in soon for this cycle and
\* those in next for the next one, and sends out.  A unique event runs at most
\* once in a cycle, however often it is scheduled.
Fire(c, soon, next, out) ==
    /\ fired' = IF c \in UniqueEvent THEN fired \cup {c} ELSE fired
    /\ now' = [d \in Source |->
                 LET left == IF d = c THEN Tail(now[d]) ELSE now[d] IN
                 IF d \in ZeroDelayPort THEN left \o Sent(out, d)
                 ELSE IF d \in soon \ fired' THEN <<Go>>
                 ELSE left]
    /\ later' = [d \in Source |->
                   IF d \in OneDelayPort THEN later[d] \o Sent(out, d)
                   ELSE IF d \in next THEN <<Go>>
                   ELSE later[d]]

\* Nothing is left to run, in this cycle or later: the simulation ends.
Stopped == \A c \in Source : now[c] = << >> /\ later[c] = << >>

\* The next cycle begins when this one has nothing left to run.
Tick ==
    /\ \A c \in Source : ~Pending(c)
    /\ ~Stopped
    /\ now' = later
    /\ later' = [c \in Source |-> << >>]
    /\ fired' = {}
    /\ UNCHANGED inst

\* All the startup events have run: the credits they sent are on their way.
SchedulerInit(credits) ==
    /\ now = [c \in Source |-> Sent(credits, c)]
    /\ later = [c \in Source |-> << >>]
    /\ fired = {}
=============================================================================
