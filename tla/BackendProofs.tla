---------------------------- MODULE BackendProofs ---------------------------
(***************************************************************************)
(* The credits of the whole core are conserved, for every number of pipes, *)
(* every width, every depth and every well predicted program.              *)
(*                                                                         *)
(* The invariant, CreditInv, needs more than the five sums.  What is on a  *)
(* wire is of that wire's kind (WiresOK), so that a handler moves as much  *)
(* from one part of a sum as it adds to another.  The reorder buffer is a  *)
(* ring (LoopQueueProofs) of known instructions that never overflows,      *)
(* because its link's sum leaves room for whatever is on its way.  And no  *)
(* instruction is in the dispatch queue twice, or one choice of SelectInst *)
(* would mark two entries and free two places: from the head of that queue *)
(* back to the fetch stage the instructions are in program order           *)
(* (FrontLine).  Every handler is a lemma; CreditStep puts them together.  *)
(***************************************************************************)
EXTENDS BackendProperties, DataLemmas

-----------------------------------------------------------------------------
(* The scheduler.                                                          *)

Port == ZeroDelayPort \cup OneDelayPort

\* A name is that of a port with delay, of one without, or of an event.
LEMMA PortsApart ==
  /\ \A d \in ZeroDelayPort : d \notin OneDelayPort /\ d \notin UniqueEvent
  /\ \A d \in OneDelayPort : d \notin UniqueEvent
BY DEF ZeroDelayPort, OneDelayPort, UniqueEvent, backend_fetch_credit_in,
   following_renaming_credit_in, rob_renaming_credit_in, Rob_cmt_inst_in,
   rs_dispatch_credit_in, preceding_write_back_inst_in, rob_flush_manager_in,
   following_reservation_credit_in, preceding_renaming_inst_in, preceding_rob_inst_in,
   write_back_rob_finish_in, preceding_dispatch_inst_in, write_back_dispatch_port_in,
   global_flush_in, preceding_reservation_inst_in, forwarding_reservation_inst_in,
   preceding_func_inst_in, produce_inst_event_, rename_event, commit_event,
   dispatch_pop_events_, dispatch_select_events_, dispatch_issue_events_,
   arbitrate_inst_event, flush_event_, passing_event, pop_event, write_back_event

\* The messages of a port are in M, and a port without delay has none for later.
Typed(d, M) ==
    /\ now[d] \in Seq(M) /\ later[d] \in Seq(M)
    /\ d \in ZeroDelayPort => later[d] = << >>

\* A handler's events.
Events(soon, next) == soon \subseteq UniqueEvent /\ next \subseteq UniqueEvent

\* A handler takes the first message of its port; what it sends to a port comes
\* after everything that is already on its way there.
LEMMA Delivery ==
  ASSUME NEW M, NEW c, NEW soon, NEW next, NEW out, NEW d \in Port, Typed(d, M),
         Events(soon, next), Fire(c, soon, next, out), Sent(out, d) \in Seq(M),
         d = c => Pending(c)
  PROVE  /\ Typed(d, M)'
         /\ OnTheWay(d) \in Seq(M)
         /\ OnTheWay(d)' = (IF d = c THEN Tail(OnTheWay(d)) ELSE OnTheWay(d)) \o Sent(out, d)
         /\ d = c => OnTheWay(d) # << >> /\ Message(c) = Head(OnTheWay(d))
<1>1. PICK a \in Seq(M), b \in Seq(M), s \in Seq(M) :
         a = now[d] /\ b = later[d] /\ s = Sent(out, d)
  BY DEF Typed
<1>2. PICK l \in Seq(M) : l = IF d = c THEN Tail(a) ELSE a
  <2>1. d = c => a # << >>
    BY <1>1 DEF Pending
  <2>2. a # << >> => Tail(a) \in Seq(M)
    BY HeadTail
  <2> QED BY <2>1, <2>2
<1>3. d \in Source /\ d \notin UniqueEvent
  BY PortsApart DEF Port, Source
<1>4. d \notin soon /\ d \notin next
  BY <1>3 DEF Events
<1>5. CASE d \in ZeroDelayPort
  <2>1. d \notin OneDelayPort /\ b = << >>
    BY <1>1, <1>5, PortsApart DEF Typed
  <2>2. now'[d] = l \o s /\ later'[d] = << >>
    BY <1>1, <1>2, <1>3, <1>4, <1>5, <2>1 DEF Fire
  <2>3. (l \o s) \o << >> = l \o s /\ a \o << >> = a /\ l \o s \in Seq(M)
    BY EmptyConcat
  <2>4. << >> \in Seq(M)
    OBVIOUS
  <2> QED BY <1>1, <1>2, <1>5, <2>1, <2>2, <2>3, <2>4 DEF Typed, OnTheWay, Message, Pending
<1>6. CASE d \notin ZeroDelayPort
  <2>1. d \in OneDelayPort
    BY <1>6 DEF Port
  <2>2. now'[d] = l /\ later'[d] = b \o s
    BY <1>1, <1>2, <1>3, <1>4, <1>6, <2>1 DEF Fire
  <2>3. l \o (b \o s) = (l \o b) \o s /\ b \o s \in Seq(M) /\ a \o b \in Seq(M)
    <3>1. Associates(l, b, s)
      BY ConcatAssociates, Zenon
    <3>2. b \o s \in Seq(M) /\ a \o b \in Seq(M)
      BY ConcatFacts
    <3> QED BY <3>1, <3>2, Zenon DEF Associates
  <2>4. OnTheWay(d)' = (l \o b) \o s /\ OnTheWay(d) = a \o b
    BY <1>1, <2>2, <2>3 DEF OnTheWay
  <2>5. ASSUME d = c PROVE Tail(a \o b) = Tail(a) \o b /\ a \o b # << >> /\ Head(a \o b) = Head(a)
    <3>1. a # << >>
      BY <1>1, <2>5 DEF Pending
    <3> QED BY <3>1
  <2> QED BY <1>1, <1>2, <1>6, <2>2, <2>3, <2>4, <2>5 DEF Typed, Message
<1> QED BY <1>5, <1>6

\* Nothing arrives at or leaves for the port.
Quiet(d) == now'[d] = now[d] /\ later'[d] = later[d]

\* A port that a handler neither takes from nor sends to keeps its messages.
LEMMA QuietPort ==
  ASSUME NEW M, NEW c, NEW soon, NEW next, NEW out, NEW d \in Port, Typed(d, M),
         Events(soon, next), Fire(c, soon, next, out), d # c, \A mail \in out : mail[1] # d
  PROVE  Quiet(d)
<1>1. Sent(out, d) = << >>
  BY DEF Sent
<1>2. d \in Source /\ d \notin UniqueEvent
  BY PortsApart DEF Port, Source
<1>3. d \notin soon /\ d \notin next
  BY <1>2 DEF Events
<1>4. PICK a \in Seq(M), b \in Seq(M) : a = now[d] /\ b = later[d]
  BY DEF Typed
<1>5. a \o << >> = a /\ b \o << >> = b
  BY EmptyConcat
<1>6. CASE d \in ZeroDelayPort
  <2>1. d \notin OneDelayPort
    BY <1>6, PortsApart
  <2> QED BY <1>1, <1>2, <1>3, <1>4, <1>5, <1>6, <2>1 DEF Fire, Quiet
<1>7. CASE d \notin ZeroDelayPort
  <2>1. d \in OneDelayPort
    BY <1>7 DEF Port
  <2> QED BY <1>1, <1>2, <1>3, <1>4, <1>5, <1>7, <2>1 DEF Fire, Quiet
<1> QED BY <1>6, <1>7

\* What a handler sends to a port.
LEMMA SentIs ==
  ASSUME NEW c, NEW m
  PROVE  /\ Sent(Post(c, m), c) = m
         /\ \A d : Sent(Nothing, d) = << >>
         /\ \A d : d # c => Sent(Post(c, m), d) = << >>
         /\ \A out, d : d # c => Sent(Post(c, m) \cup out, d) = Sent(out, d)
         /\ \A out : (\A mail \in out : mail[1] # c) => Sent(Post(c, m) \cup out, c) = m
<1>1. ASSUME NEW out, \A mail \in out : mail[1] # c PROVE Sent(Post(c, m) \cup out, c) = m
  <2>1. PICK both : both = Post(c, m) \cup out
    OBVIOUS
  <2>2. <<c, m>> \in both /\ \A mail \in both : mail[1] = c => mail = <<c, m>>
    BY <1>1, <2>1 DEF Post
  <2>3. (CHOOSE mail \in both : mail[1] = c) = <<c, m>>
    BY <2>2
  <2> QED BY <2>1, <2>2, <2>3 DEF Sent
<1>2. ASSUME NEW out, NEW d, d # c PROVE Sent(Post(c, m) \cup out, d) = Sent(out, d)
  <2>1. PICK both : both = Post(c, m) \cup out
    OBVIOUS
  <2>2. \A mail : (mail \in both /\ mail[1] = d) <=> (mail \in out /\ mail[1] = d)
    BY <1>2, <2>1 DEF Post
  <2>3. (CHOOSE mail \in both : mail[1] = d) = (CHOOSE mail \in out : mail[1] = d)
    BY <2>2
  <2> QED BY <2>1, <2>2, <2>3 DEF Sent
<1>3. \A d : Sent(Nothing, d) = << >>
  BY DEF Sent, Nothing
<1>4. Post(c, m) \cup {} = Post(c, m)
  OBVIOUS
<1>5. Sent(Post(c, m), c) = m
  <2>1. \A mail \in {} : mail[1] # c
    OBVIOUS
  <2>2. Sent(Post(c, m) \cup {}, c) = m
    BY <1>1, <2>1, Zenon
  <2> QED BY <1>4, <2>2
<1>6. \A d : d # c => Sent(Post(c, m), d) = << >>
  BY <1>2, <1>3, <1>4 DEF Nothing
<1> QED BY <1>1, <1>2, <1>3, <1>5, <1>6

-----------------------------------------------------------------------------
(* The ports of the credit links.                                          *)

CreditPort ==
    {backend_fetch_credit_in, rob_renaming_credit_in, following_renaming_credit_in}
    \cup {following_reservation_credit_in(p) : p \in Pipe}

GroupPort ==
    {preceding_renaming_inst_in, preceding_rob_inst_in, preceding_dispatch_inst_in}
    \cup {preceding_reservation_inst_in(p) : p \in Pipe}
    \cup {preceding_func_inst_in(p) : p \in Pipe}

LinkPort == CreditPort \cup GroupPort \cup {rs_dispatch_credit_in}

StationCredit == [name : Pipe, credit : Nat]

\* The messages of a port, when the instructions are those in ids.
MessageOf(d, ids) ==
    IF d \in CreditPort THEN Nat ELSE IF d \in GroupPort THEN Seq(ids) ELSE StationCredit

WiresOK == \A d \in LinkPort : Typed(d, MessageOf(d, DOMAIN inst))

\* The wires of the links are ports; a wire carries credits or instructions.
LEMMA LinkPortsAre ==
  /\ LinkPort \subseteq Port
  /\ \A d \in GroupPort : d \notin CreditPort
  /\ rs_dispatch_credit_in \notin CreditPort /\ rs_dispatch_credit_in \notin GroupPort
BY DEF LinkPort, CreditPort, GroupPort, Port, ZeroDelayPort, OneDelayPort,
   backend_fetch_credit_in, following_renaming_credit_in, rob_renaming_credit_in,
   rs_dispatch_credit_in, following_reservation_credit_in, preceding_renaming_inst_in,
   preceding_rob_inst_in, preceding_dispatch_inst_in, preceding_reservation_inst_in,
   preceding_func_inst_in

\* Sequences over a set are sequences over a larger one.
LEMMA SeqGrows ==
  ASSUME NEW S, NEW T, S \subseteq T PROVE Seq(S) \subseteq Seq(T)
OBVIOUS

\* The messages of a wire stay typed when the program grows.
LEMMA MessagesGrow ==
  ASSUME NEW d, NEW I, NEW J, I \subseteq J PROVE Seq(MessageOf(d, I)) \subseteq Seq(MessageOf(d, J))
<1>1. MessageOf(d, I) \subseteq MessageOf(d, J)
  <2>1. Seq(I) \subseteq Seq(J)
    BY SeqGrows
  <2> QED BY <2>1, Zenon DEF MessageOf
<1> QED BY <1>1, SeqGrows

\* What a handler does to the links: well-typed messages stay so, and the ports
\* it neither reads nor sends to are left alone.
LEMMA LinksStep ==
  ASSUME NEW c, NEW soon, NEW next, NEW out, WiresOK, Ready(c), Fire(c, soon, next, out),
         Events(soon, next), DOMAIN inst \subseteq DOMAIN inst',
         \A mail \in out : mail[1] \in LinkPort =>
            mail[2] \in Seq(MessageOf(mail[1], DOMAIN inst'))
  PROVE  /\ WiresOK'
         /\ \A d \in LinkPort :
              /\ OnTheWay(d)' = (IF d = c THEN Tail(OnTheWay(d)) ELSE OnTheWay(d)) \o Sent(out, d)
              /\ d = c => OnTheWay(d) # << >> /\ Message(c) = Head(OnTheWay(d))
              /\ d # c /\ (\A mail \in out : mail[1] # d) => Quiet(d)
<1> SUFFICES
      ASSUME NEW d \in LinkPort
      PROVE  /\ Typed(d, MessageOf(d, DOMAIN inst))'
             /\ OnTheWay(d)' = (IF d = c THEN Tail(OnTheWay(d)) ELSE OnTheWay(d)) \o Sent(out, d)
             /\ d = c => OnTheWay(d) # << >> /\ Message(c) = Head(OnTheWay(d))
             /\ d # c /\ (\A mail \in out : mail[1] # d) => Quiet(d)
  BY Zenon DEF WiresOK
<1>1. PICK M : M = MessageOf(d, DOMAIN inst')
  OBVIOUS
<1>2. Typed(d, M)
  <2>1. Seq(MessageOf(d, DOMAIN inst)) \subseteq Seq(M)
    BY <1>1, MessagesGrow
  <2>2. Typed(d, MessageOf(d, DOMAIN inst))
    BY Zenon DEF WiresOK
  <2> QED BY <2>1, <2>2, Zenon DEF Typed
<1>3. d \in Port
  BY LinkPortsAre
<1>4. Sent(out, d) \in Seq(M)
  <2>1. CASE \E mail \in out : mail[1] = d
    <3>1. PICK mail \in out : mail[1] = d /\ mail = CHOOSE x \in out : x[1] = d
      BY <2>1, Zenon
    <3>2. Sent(out, d) = mail[2]
      BY <2>1, <3>1, Zenon DEF Sent
    <3> QED BY <1>1, <3>1, <3>2, Zenon
  <2>2. CASE ~ \E mail \in out : mail[1] = d
    <3>1. Sent(out, d) = << >>
      BY <2>2, Zenon DEF Sent
    <3>2. << >> \in Seq(M)
      OBVIOUS
    <3> QED BY <3>1, <3>2
  <2> QED BY <2>1, <2>2
<1>5. d = c => Pending(c)
  BY Zenon DEF Ready
<1>6. /\ Typed(d, M)'
      /\ OnTheWay(d)' = (IF d = c THEN Tail(OnTheWay(d)) ELSE OnTheWay(d)) \o Sent(out, d)
      /\ d = c => OnTheWay(d) # << >> /\ Message(c) = Head(OnTheWay(d))
  BY <1>2, <1>3, <1>4, <1>5, Delivery
<1>7. d # c /\ (\A mail \in out : mail[1] # d) => Quiet(d)
  BY <1>2, <1>3, QuietPort, Zenon
<1>8. Typed(d, MessageOf(d, DOMAIN inst))'
  BY <1>1, <1>6, Zenon DEF Typed, MessageOf, CreditPort, GroupPort, Pipe
<1> QED BY <1>6, <1>7, <1>8, Zenon

-----------------------------------------------------------------------------
(* The invariant: the links, one by one.                                   *)

\* The instructions fetched, none of which ends in a wrong prediction.
Foreseen(r) ==
    /\ {"IsMissPrediction", "RobTag", "PhyRd", "PhyRs1", "PhyRs2",
        "IsRs1Forward", "IsRs2Forward"} \subseteq DOMAIN r
    /\ ~r.IsMissPrediction

\* Instruction i has the same registers in the programs f and g, and waits for
\* the same sources; it waits for none.
SameRegs(f, g, i) ==
    g[i].PhyRd = f[i].PhyRd /\ g[i].PhyRs1 = f[i].PhyRs1 /\ g[i].PhyRs2 = f[i].PhyRs2

SameFlags(f, g, i) ==
    g[i].IsRs1Forward = f[i].IsRs1Forward /\ g[i].IsRs2Forward = f[i].IsRs2Forward

Unflagged(f, i) == ~f[i].IsRs1Forward /\ ~f[i].IsRs2Forward

Program(f, n) == f = [i \in 1 .. n |-> f[i]] /\ \A i \in 1 .. n : Foreseen(f[i])

InstInv == \E n \in Nat : Program(inst, n)

FetchLink ==
    fetch_credit + CreditsOn(backend_fetch_credit_in) + Len(Unrenamed) = RenameDepth

FetchInv ==
    /\ fetch_credit \in Nat
    /\ renaming_stage_queue \in Seq(DOMAIN inst)
    /\ FetchLink

RobLink ==
    rob_credit + CreditsOn(rob_renaming_credit_in)
      + Len(Instructions(preceding_rob_inst_in)) + RobQueue!size(rob) = RobDepth

\* The proofs about the ring, for the reorder buffer's.
RobRing == INSTANCE LoopQueueProofs WITH Depth <- RobDepth, Value <- RobEntry, queue <- rob

RobHolds(ids) == \A k \in 1 .. rob.usage : RobQueue!Contents(rob)[k].inst \in ids

RobInv ==
    /\ rob_credit \in Nat
    /\ RobRing!Ring(rob)
    /\ RobHolds(DOMAIN inst)
    /\ RobLink

DispatchEntry(ids) == [inst : ids, is_issued : BOOLEAN]

DispatchLink ==
    dispatch_credit + CreditsOn(following_renaming_credit_in)
      + Len(Instructions(preceding_dispatch_inst_in)) + Len(Unissued(inst_queue))
      = DispatchDepth

DispatchInv ==
    /\ dispatch_credit \in Nat
    /\ inst_queue \in Seq(DispatchEntry(DOMAIN inst))
    /\ DispatchLink

StationEntry(ids) ==
    [inst : ids, rs1_valid : BOOLEAN, rs2_valid : BOOLEAN, is_issued : BOOLEAN]

StationLink(p) ==
    credit_map[p] + StationCredits(p) + Len(dispatch_pending_queue[p])
      + Len(Instructions(preceding_reservation_inst_in(p)))
      + Len(Unissued(reservation_station[p])) = RsDepth

StationInv ==
    /\ credit_map \in [Pipe -> Nat]
    /\ dispatch_pending_queue \in [Pipe -> Seq(DOMAIN inst)]
    /\ reservation_station \in [Pipe -> Seq(StationEntry(DOMAIN inst))]
    /\ \A p \in Pipe : StationLink(p)

FuLink(p) ==
    rs_credit[p] + CreditsOn(following_reservation_credit_in(p))
      + Len(Instructions(preceding_func_inst_in(p))) + Len(alu_queue[p]) = FuDepth

FuInv ==
    /\ rs_credit \in [Pipe -> Nat]
    /\ alu_queue \in [Pipe -> Seq(DOMAIN inst)]
    /\ \A p \in Pipe : FuLink(p)

\* From the head of the dispatch queue to the frontend the instructions are in
\* program order.  So no instruction is in the dispatch queue twice.
DispatchInsts == [k \in DOMAIN inst_queue |-> inst_queue[k].inst]

FrontLine ==
    DispatchInsts \o Instructions(preceding_dispatch_inst_in) \o renaming_stage_queue
      \o Instructions(preceding_renaming_inst_in)

CreditInv ==
    /\ InstInv /\ WiresOK /\ FetchInv /\ RobInv /\ DispatchInv /\ StationInv /\ FuInv
    /\ Increasing(FrontLine)

-----------------------------------------------------------------------------
(* What leaves a link alone.                                               *)

SameFetch ==
    /\ UNCHANGED <<fetch_credit, renaming_stage_queue>>
    /\ Quiet(backend_fetch_credit_in) /\ Quiet(preceding_renaming_inst_in)

SameRob ==
    /\ UNCHANGED <<rob_credit, rob>>
    /\ Quiet(rob_renaming_credit_in) /\ Quiet(preceding_rob_inst_in)

SameDispatch ==
    /\ UNCHANGED <<dispatch_credit, inst_queue>>
    /\ Quiet(following_renaming_credit_in) /\ Quiet(preceding_dispatch_inst_in)

SameStation(p) ==
    /\ credit_map'[p] = credit_map[p]
    /\ dispatch_pending_queue'[p] = dispatch_pending_queue[p]
    /\ reservation_station'[p] = reservation_station[p]
    /\ Quiet(preceding_reservation_inst_in(p))

SameFu(p) ==
    /\ rs_credit'[p] = rs_credit[p] /\ alu_queue'[p] = alu_queue[p]
    /\ Quiet(following_reservation_credit_in(p)) /\ Quiet(preceding_func_inst_in(p))

SameLine ==
    /\ UNCHANGED <<inst_queue, renaming_stage_queue>>
    /\ Quiet(preceding_dispatch_inst_in) /\ Quiet(preceding_renaming_inst_in)

More == DOMAIN inst \subseteq DOMAIN inst'

\* What a quiet wire carries is what it carried.
LEMMA QuietPortSame ==
  ASSUME NEW d, Quiet(d)
  PROVE  /\ OnTheWay(d)' = OnTheWay(d) /\ Instructions(d)' = Instructions(d)
         /\ CreditsOn(d)' = CreditsOn(d)
BY Zenon DEF Quiet, OnTheWay, Instructions, CreditsOn

\* A step that leaves the link between fetch and renaming alone keeps its sum.
LEMMA FetchFrame == ASSUME FetchInv, SameFetch, More PROVE FetchInv'
<1>1. /\ Instructions(preceding_renaming_inst_in)' = Instructions(preceding_renaming_inst_in)
      /\ CreditsOn(backend_fetch_credit_in)' = CreditsOn(backend_fetch_credit_in)
  BY QuietPortSame, Zenon DEF SameFetch
<1>2. Unrenamed' = Unrenamed
  BY <1>1, Zenon DEF Unrenamed, SameFetch
<1>3. Seq(DOMAIN inst) \subseteq Seq(DOMAIN inst')
  BY SeqGrows DEF More
<1> QED BY <1>1, <1>2, <1>3, Zenon DEF FetchInv, SameFetch, FetchLink

\* A reorder buffer that is left alone holds known instructions of the longer
\* program.
LEMMA RobSame ==
  ASSUME RobRing!Ring(rob), RobHolds(DOMAIN inst), rob' = rob, More
  PROVE  /\ RobRing!Ring(rob)' /\ RobHolds(DOMAIN inst)'
         /\ RobQueue!size(rob)' = RobQueue!size(rob)
<1>1. RobRing!Ring(rob)' /\ RobQueue!size(rob)' = RobQueue!size(rob)
  BY Zenon DEF RobQueue!size, RobRing!Ring, RobRing!LoopQueueType, RobRing!Slot,
     RobRing!SizeAssertion, RobRing!size
<1>2. RobHolds(DOMAIN inst)'
  BY Zenon DEF RobHolds, More, RobQueue!Contents, RobQueue!SlotOf
<1> QED BY <1>1, <1>2

\* A step that leaves the link between renaming and the reorder buffer alone.
LEMMA RobFrame == ASSUME RobInv, SameRob, More PROVE RobInv'
<1>1. /\ Instructions(preceding_rob_inst_in)' = Instructions(preceding_rob_inst_in)
      /\ CreditsOn(rob_renaming_credit_in)' = CreditsOn(rob_renaming_credit_in)
  BY QuietPortSame, Zenon DEF SameRob
<1>2. rob' = rob /\ rob_credit' = rob_credit
  BY Zenon DEF SameRob
<1>3. /\ RobRing!Ring(rob)' /\ RobHolds(DOMAIN inst)'
      /\ RobQueue!size(rob)' = RobQueue!size(rob)
  BY <1>2, RobSame, Zenon DEF RobInv
<1> QED BY <1>1, <1>2, <1>3, Zenon DEF RobInv, RobLink

\* A step that leaves the link between renaming and dispatch alone.
LEMMA DispatchFrame == ASSUME DispatchInv, SameDispatch, More PROVE DispatchInv'
<1>1. /\ Instructions(preceding_dispatch_inst_in)' = Instructions(preceding_dispatch_inst_in)
      /\ CreditsOn(following_renaming_credit_in)' = CreditsOn(following_renaming_credit_in)
  BY QuietPortSame, Zenon DEF SameDispatch
<1>2. Unissued(inst_queue)' = Unissued(inst_queue)
  BY Zenon DEF Unissued, SameDispatch, PickAt
<1>3. DispatchEntry(DOMAIN inst) \subseteq DispatchEntry(DOMAIN inst')
  BY DEF DispatchEntry, More
<1>4. Seq(DispatchEntry(DOMAIN inst)) \subseteq Seq(DispatchEntry(DOMAIN inst'))
  BY <1>3, SeqGrows
<1> QED BY <1>1, <1>2, <1>4, Zenon DEF DispatchInv, SameDispatch, DispatchLink, DispatchEntry

\* The stations' queues hold instructions.
StationTypes ==
    /\ credit_map \in [Pipe -> Nat]
    /\ dispatch_pending_queue \in [Pipe -> Seq(DOMAIN inst)]
    /\ reservation_station \in [Pipe -> Seq(StationEntry(DOMAIN inst))]

\* A step that leaves a station's link alone.
LEMMA StationFrame ==
  ASSUME NEW p \in Pipe, StationLink(p), SameStation(p), StationCredits(p)' = StationCredits(p)
  PROVE  StationLink(p)'
<1>1. Instructions(preceding_reservation_inst_in(p))' = Instructions(preceding_reservation_inst_in(p))
  BY QuietPortSame, Zenon DEF SameStation
<1>2. Unissued(reservation_station[p])' = Unissued(reservation_station[p])
  BY Zenon DEF Unissued, SameStation, PickAt
<1> QED BY <1>1, <1>2, Zenon DEF SameStation, StationLink

\* The stations' shared credit wire, when nothing moves on it.
LEMMA StationCreditsSame ==
  ASSUME NEW p, Quiet(rs_dispatch_credit_in) PROVE StationCredits(p)' = StationCredits(p)
<1>1. OnTheWay(rs_dispatch_credit_in)' = OnTheWay(rs_dispatch_credit_in)
  BY QuietPortSame, Zenon
<1> QED BY <1>1, Zenon DEF StationCredits

\* A step that leaves all the stations' links alone.
LEMMA StationsFrame ==
  ASSUME StationInv, More, UNCHANGED <<credit_map, dispatch_pending_queue, reservation_station>>,
         Quiet(rs_dispatch_credit_in), \A p \in Pipe : Quiet(preceding_reservation_inst_in(p))
  PROVE  StationInv'
<1>1. \A p \in Pipe : StationLink(p)'
  BY StationFrame, StationCreditsSame, Zenon DEF SameStation, StationInv
<1>2. Seq(DOMAIN inst) \subseteq Seq(DOMAIN inst')
  BY SeqGrows DEF More
<1>3. StationEntry(DOMAIN inst) \subseteq StationEntry(DOMAIN inst')
  BY DEF StationEntry, More
<1>4. Seq(StationEntry(DOMAIN inst)) \subseteq Seq(StationEntry(DOMAIN inst'))
  BY <1>3, SeqGrows
<1>5. dispatch_pending_queue' \in [Pipe -> Seq(DOMAIN inst')]
  BY <1>2 DEF StationInv
<1>6. reservation_station' \in [Pipe -> Seq(StationEntry(DOMAIN inst'))]
  BY <1>4 DEF StationInv
<1>7. credit_map' \in [Pipe -> Nat]
  BY DEF StationInv
<1> QED BY <1>1, <1>5, <1>6, <1>7, Zenon DEF StationInv, StationEntry, Pipe

\* A step that leaves the link of a function unit alone.
LEMMA FuFrame == ASSUME NEW p \in Pipe, FuLink(p), SameFu(p) PROVE FuLink(p)'
<1>1. /\ Instructions(preceding_func_inst_in(p))' = Instructions(preceding_func_inst_in(p))
      /\ CreditsOn(following_reservation_credit_in(p))' = CreditsOn(following_reservation_credit_in(p))
  BY QuietPortSame, Zenon DEF SameFu
<1> QED BY <1>1, Zenon DEF SameFu, FuLink

\* A step that leaves all the function units' links alone.
LEMMA FusFrame ==
  ASSUME FuInv, More, UNCHANGED <<rs_credit, alu_queue>>,
         \A p \in Pipe : Quiet(following_reservation_credit_in(p)) /\ Quiet(preceding_func_inst_in(p))
  PROVE  FuInv'
<1>1. \A p \in Pipe : FuLink(p)'
  BY FuFrame, Zenon DEF SameFu, FuInv
<1>2. Seq(DOMAIN inst) \subseteq Seq(DOMAIN inst')
  BY SeqGrows DEF More
<1>3. alu_queue' \in [Pipe -> Seq(DOMAIN inst')]
  BY <1>2 DEF FuInv
<1> QED BY <1>1, <1>3, Zenon DEF FuInv, Pipe

\* A step that leaves the line between fetch and dispatch alone.
LEMMA LineFrame == ASSUME Increasing(FrontLine), SameLine PROVE Increasing(FrontLine)'
<1>1. /\ Instructions(preceding_dispatch_inst_in)' = Instructions(preceding_dispatch_inst_in)
      /\ Instructions(preceding_renaming_inst_in)' = Instructions(preceding_renaming_inst_in)
  BY QuietPortSame, Zenon DEF SameLine
<1>2. DispatchInsts' = DispatchInsts
  BY Zenon DEF DispatchInsts, SameLine
<1>3. FrontLine' = FrontLine
  BY <1>1, <1>2, Zenon DEF FrontLine, SameLine
<1> QED BY <1>3, Zenon DEF Increasing

-----------------------------------------------------------------------------
(* What a handler does to a link, in numbers.                              *)

\* What is on a wire, due now or later, is one sequence.
LEMMA WireIsSeq ==
  ASSUME NEW d, NEW M, now[d] \in Seq(M), later[d] \in Seq(M) PROVE OnTheWay(d) \in Seq(M)
<1>1. \A S : \A s, t \in Seq(S) : s \o t \in Seq(S)
  OBVIOUS
<1> QED BY <1>1, Zenon DEF OnTheWay

\* A handler that takes a credit message: the wire carries that much less.
LEMMA TakesCredit ==
  ASSUME NEW d \in CreditPort, WiresOK, OnTheWay(d) # << >>,
         OnTheWay(d)' = Tail(OnTheWay(d)) \o << >>
  PROVE  /\ Head(OnTheWay(d)) \in Nat /\ CreditsOn(d) \in Nat /\ CreditsOn(d)' \in Nat
         /\ CreditsOn(d) = Head(OnTheWay(d)) + CreditsOn(d)'
<1>1. d \in LinkPort /\ MessageOf(d, DOMAIN inst) = Nat
  BY DEF LinkPort, MessageOf
<1>2. now[d] \in Seq(Nat) /\ later[d] \in Seq(Nat)
  BY <1>1, Zenon DEF WiresOK, Typed
<1>3. PICK w \in Seq(Nat) : w = OnTheWay(d) /\ w # << >>
  BY <1>2, WireIsSeq, Zenon
<1>4. PICK t \in Seq(Nat), h \in Nat : t = Tail(w) /\ h = Head(w)
  BY <1>3
<1>5. OnTheWay(d)' = t
  BY <1>3, <1>4, EmptyConcat
<1>6. SumOf(w) \in Nat /\ SumOf(t) \in Nat /\ SumOf(w) = h + SumOf(t)
  BY <1>3, <1>4, SumIsNat, SumOfTail
<1> QED BY <1>3, <1>4, <1>5, <1>6, Zenon DEF CreditsOn

\* A handler that sends a credit message: the wire carries that much more.
LEMMA SendsCredit ==
  ASSUME NEW d \in CreditPort, WiresOK, NEW k \in Nat, OnTheWay(d)' = OnTheWay(d) \o <<k>>
  PROVE  CreditsOn(d) \in Nat /\ CreditsOn(d)' = CreditsOn(d) + k
<1>1. d \in LinkPort /\ MessageOf(d, DOMAIN inst) = Nat
  BY DEF LinkPort, MessageOf
<1>2. now[d] \in Seq(Nat) /\ later[d] \in Seq(Nat)
  BY <1>1, Zenon DEF WiresOK, Typed
<1>3. PICK w \in Seq(Nat) : w = OnTheWay(d)
  BY <1>2, WireIsSeq, Zenon
<1>4. SumOf(w) \in Nat /\ SumOf(w \o <<k>>) = SumOf(w) + k
  BY SumIsNat, SumOfAppend
<1> QED BY <1>3, <1>4, Zenon DEF CreditsOn

\* What a wire of instruction groups carries.
LEMMA GroupWire ==
  ASSUME NEW d \in GroupPort, WiresOK
  PROVE  /\ OnTheWay(d) \in Seq(Seq(DOMAIN inst)) /\ Instructions(d) \in Seq(DOMAIN inst)
         /\ Len(Instructions(d)) \in Nat
<1>1. d \in LinkPort /\ MessageOf(d, DOMAIN inst) = Seq(DOMAIN inst)
  BY LinkPortsAre, Zenon DEF LinkPort, MessageOf
<1>2. now[d] \in Seq(Seq(DOMAIN inst)) /\ later[d] \in Seq(Seq(DOMAIN inst))
  BY <1>1, Zenon DEF WiresOK, Typed
<1>3. OnTheWay(d) \in Seq(Seq(DOMAIN inst))
  BY <1>2, WireIsSeq, Zenon
<1>4. Instructions(d) \in Seq(DOMAIN inst)
  BY <1>3, JoinedIsSeq, Zenon DEF Instructions
<1> QED BY <1>3, <1>4

\* A handler that takes a group: the wire carries its instructions less.
LEMMA TakesGroup ==
  ASSUME NEW d \in GroupPort, WiresOK, OnTheWay(d) # << >>,
         OnTheWay(d)' = Tail(OnTheWay(d)) \o << >>
  PROVE  /\ Head(OnTheWay(d)) \in Seq(DOMAIN inst) /\ Instructions(d)' \in Seq(DOMAIN inst)
         /\ Instructions(d) = Head(OnTheWay(d)) \o Instructions(d)'
         /\ Len(Head(OnTheWay(d))) \in Nat /\ Len(Instructions(d)') \in Nat
         /\ Len(Instructions(d)) = Len(Head(OnTheWay(d))) + Len(Instructions(d)')
<1>1. OnTheWay(d) \in Seq(Seq(DOMAIN inst))
  BY GroupWire, Zenon
<1>2. OnTheWay(d)' = Tail(OnTheWay(d))
  <2>1. \A S : \A s \in Seq(S) : s # << >> => Tail(s) \o << >> = Tail(s)
    OBVIOUS
  <2> QED BY <1>1, <2>1, Zenon
<1>3. PICK h \in Seq(DOMAIN inst), t \in Seq(DOMAIN inst) :
         /\ h = Head(OnTheWay(d)) /\ t = Joined(Tail(OnTheWay(d)))
         /\ Joined(OnTheWay(d)) = h \o t
  BY <1>1, JoinedHead, Zenon
<1>4. Len(h \o t) = Len(h) + Len(t) /\ Len(h) \in Nat /\ Len(t) \in Nat
  BY ConcatFacts
<1> QED BY <1>2, <1>3, <1>4, Zenon DEF Instructions

\* A handler that sends a group: the wire carries its instructions more, last.
LEMMA SendsGroup ==
  ASSUME NEW d \in GroupPort, WiresOK, More, NEW g \in Seq(DOMAIN inst'),
         OnTheWay(d)' = OnTheWay(d) \o <<g>>
  PROVE  /\ Instructions(d)' = Instructions(d) \o g
         /\ Len(Instructions(d)) \in Nat /\ Len(g) \in Nat
         /\ Len(Instructions(d)') = Len(Instructions(d)) + Len(g)
<1>1. PICK I : I = DOMAIN inst'
  OBVIOUS
<1>2. Seq(DOMAIN inst) \subseteq Seq(I)
  BY <1>1, SeqGrows DEF More
<1>3. Seq(Seq(DOMAIN inst)) \subseteq Seq(Seq(I))
  BY <1>2, SeqGrows
<1>4. OnTheWay(d) \in Seq(Seq(I))
  BY <1>3, GroupWire, Zenon
<1>5. g \in Seq(I)
  BY <1>1
<1>6. Joined(OnTheWay(d) \o <<g>>) = Joined(OnTheWay(d)) \o g
  BY <1>4, <1>5, JoinedAppend, Zenon
<1>7. /\ Len(Joined(OnTheWay(d))) \in Nat /\ Len(g) \in Nat
      /\ Len(Joined(OnTheWay(d) \o <<g>>)) = Len(Joined(OnTheWay(d))) + Len(g)
  BY <1>4, <1>5, LenJoined, Zenon
<1> QED BY <1>6, <1>7, Zenon DEF Instructions

\* The station's credits.
CreditsFor(p, pairs) ==
    [k \in DOMAIN pairs |-> IF pairs[k].name = p THEN pairs[k].credit ELSE 0]

\* A station's share of the messages on the shared credit wire.
LEMMA CreditsOfStation ==
  ASSUME NEW p \in Pipe, NEW pairs \in Seq(StationCredit)
  PROVE  /\ CreditsFor(p, pairs) \in Seq(Nat) /\ Len(CreditsFor(p, pairs)) = Len(pairs)
         /\ \A k \in 1 .. Len(pairs) :
              CreditsFor(p, pairs)[k] = IF pairs[k].name = p THEN pairs[k].credit ELSE 0
<1>1. PICK n \in Nat : n = Len(pairs) /\ DOMAIN pairs = 1 .. n
  OBVIOUS
<1>2. \A k \in 1 .. n : pairs[k] \in StationCredit
  BY <1>1
<1>3. \A k \in 1 .. n : (IF pairs[k].name = p THEN pairs[k].credit ELSE 0) \in Nat
  BY <1>2 DEF StationCredit
<1> QED BY <1>1, <1>3 DEF CreditsFor

\* ... when one more message is sent on it.
LEMMA CreditsForMore ==
  ASSUME NEW p \in Pipe, NEW w \in Seq(StationCredit), NEW x \in StationCredit, NEW k \in Nat,
         k = IF x.name = p THEN x.credit ELSE 0
  PROVE  CreditsFor(p, w \o <<x>>) = CreditsFor(p, w) \o <<k>>
<1>1. PICK v : v = w \o <<x>>
  OBVIOUS
<1>2. /\ v \in Seq(StationCredit) /\ Len(v) = Len(w) + 1 /\ v[Len(w) + 1] = x
      /\ \A i \in 1 .. Len(w) : v[i] = w[i]
  BY <1>1, AppendOne
<1>3. PICK a \in Seq(Nat) :
        /\ a = CreditsFor(p, w) /\ Len(a) = Len(w)
        /\ \A i \in 1 .. Len(w) : a[i] = IF w[i].name = p THEN w[i].credit ELSE 0
  BY CreditsOfStation
<1>4. PICK e \in Seq(Nat) :
        /\ e = CreditsFor(p, v) /\ Len(e) = Len(v)
        /\ \A i \in 1 .. Len(v) : e[i] = IF v[i].name = p THEN v[i].credit ELSE 0
  BY <1>2, CreditsOfStation
<1>5. PICK b : b = a \o <<k>>
  OBVIOUS
<1>6. /\ b \in Seq(Nat) /\ Len(b) = Len(a) + 1 /\ b[Len(a) + 1] = k
      /\ \A i \in 1 .. Len(a) : b[i] = a[i]
  BY <1>5, AppendOne
<1>7. PICK m \in Nat : m = Len(w)
  OBVIOUS
<1>8. ASSUME NEW i \in 1 .. m + 1 PROVE e[i] = b[i]
  <2>1. CASE i = m + 1
    BY <1>2, <1>3, <1>4, <1>6, <1>7, <2>1
  <2>2. CASE i # m + 1
    <3>1. i \in 1 .. m
      BY <2>2
    <3>2. i \in 1 .. Len(w) /\ i \in 1 .. Len(v) /\ i \in 1 .. Len(a)
      BY <3>1, <1>2, <1>3, <1>7
    <3>3. v[i] = w[i] /\ b[i] = a[i]
      BY <3>2, <1>2, <1>6, Zenon
    <3>4. a[i] = IF w[i].name = p THEN w[i].credit ELSE 0
      BY <3>2, <1>3, Zenon
    <3>5. e[i] = IF v[i].name = p THEN v[i].credit ELSE 0
      BY <3>2, <1>4, Zenon
    <3> QED BY <3>3, <3>4, <3>5, Zenon
  <2> QED BY <2>1, <2>2
<1>9. Len(e) = m + 1 /\ Len(b) = m + 1
  BY <1>2, <1>3, <1>4, <1>6, <1>7
<1>10. e = b
  BY <1>6, <1>8, <1>9, SameSeq
<1> QED BY <1>1, <1>3, <1>4, <1>5, <1>10, Zenon

\* The dispatch stage takes a message of the shared wire: its station's share
\* falls.
LEMMA TakesPair ==
  ASSUME NEW p \in Pipe, WiresOK, OnTheWay(rs_dispatch_credit_in) # << >>,
         OnTheWay(rs_dispatch_credit_in)' = Tail(OnTheWay(rs_dispatch_credit_in)) \o << >>
  PROVE  /\ Head(OnTheWay(rs_dispatch_credit_in)) \in StationCredit
         /\ StationCredits(p)' \in Nat
         /\ StationCredits(p) =
               (IF Head(OnTheWay(rs_dispatch_credit_in)).name = p
                  THEN Head(OnTheWay(rs_dispatch_credit_in)).credit ELSE 0)
               + StationCredits(p)'
<1> DEFINE d == rs_dispatch_credit_in
           Of(pairs) == CreditsFor(p, pairs)
<1>1. d \in LinkPort /\ MessageOf(d, DOMAIN inst) = StationCredit
  BY LinkPortsAre, Zenon DEF LinkPort, MessageOf
<1>2. now[d] \in Seq(StationCredit) /\ later[d] \in Seq(StationCredit)
  BY <1>1, Zenon DEF WiresOK, Typed
<1>3. PICK w \in Seq(StationCredit) : w = OnTheWay(d) /\ w # << >>
  BY <1>2, WireIsSeq, Zenon
<1>4. PICK t \in Seq(StationCredit), h \in StationCredit : t = Tail(w) /\ h = Head(w)
  BY <1>3
<1>5. OnTheWay(d)' = t
  BY <1>3, <1>4, EmptyConcat
<1>6. Of(w) \in Seq(Nat) /\ Of(t) \in Seq(Nat)
  BY CreditsOfStation
<1>7. Of(w) # << >> /\ Head(Of(w)) = (IF h.name = p THEN h.credit ELSE 0) /\ Tail(Of(w)) = Of(t)
  BY <1>3, <1>4 DEF CreditsFor
<1>8. SumOf(Of(w)) \in Nat /\ SumOf(Of(t)) \in Nat /\ SumOf(Of(w)) = Head(Of(w)) + SumOf(Tail(Of(w)))
  <2> HIDE DEF Of
  <2> QED BY <1>6, <1>7, SumIsNat, SumOfTail
<1>9. StationCredits(p) = SumOf(Of(w)) /\ StationCredits(p)' = SumOf(Of(t))
  BY <1>3, <1>5, Zenon DEF StationCredits, CreditsFor
<1> HIDE DEF Of
<1> QED BY <1>3, <1>4, <1>7, <1>8, <1>9, Zenon

\* A station sends a message on the shared wire: its own share rises.
LEMMA SendsPair ==
  ASSUME NEW p \in Pipe, NEW q \in Pipe, NEW n \in Nat, WiresOK,
         OnTheWay(rs_dispatch_credit_in)' =
            OnTheWay(rs_dispatch_credit_in) \o <<[name |-> q, credit |-> n]>>
  PROVE  /\ StationCredits(p) \in Nat
         /\ StationCredits(p)' = StationCredits(p) + (IF p = q THEN n ELSE 0)
<1> DEFINE d == rs_dispatch_credit_in
           Of(pairs) == CreditsFor(p, pairs)
<1>1. d \in LinkPort /\ MessageOf(d, DOMAIN inst) = StationCredit
  BY LinkPortsAre, Zenon DEF LinkPort, MessageOf
<1>2. now[d] \in Seq(StationCredit) /\ later[d] \in Seq(StationCredit)
  BY <1>1, Zenon DEF WiresOK, Typed
<1>3. PICK w \in Seq(StationCredit) : w = OnTheWay(d)
  BY <1>2, WireIsSeq, Zenon
<1>4. PICK x \in StationCredit : x = [name |-> q, credit |-> n] /\ x.name = q /\ x.credit = n
  <2>1. [name |-> q, credit |-> n] \in StationCredit
    BY DEF StationCredit
  <2> QED BY <2>1
<1>5. PICK k \in Nat : k = IF p = q THEN n ELSE 0
  OBVIOUS
<1>6. Of(w) \in Seq(Nat)
  BY CreditsOfStation
<1>7. Of(w \o <<x>>) = Of(w) \o <<k>>
  BY <1>4, <1>5, CreditsForMore
<1>8. SumOf(Of(w)) \in Nat /\ SumOf(Of(w) \o <<k>>) = SumOf(Of(w)) + k
  <2> HIDE DEF Of
  <2> QED BY <1>6, SumIsNat, SumOfAppend
<1>9. StationCredits(p) = SumOf(Of(w)) /\ StationCredits(p)' = SumOf(Of(w \o <<x>>))
  BY <1>3, <1>4, Zenon DEF StationCredits, CreditsFor
<1> HIDE DEF Of
<1> QED BY <1>5, <1>7, <1>8, <1>9, Zenon

-----------------------------------------------------------------------------
(* Each handler keeps the invariant.                                       *)

\* Which wires carry credits and which carry instructions.
LEMMA LinkPortHas ==
  /\ backend_fetch_credit_in \in CreditPort /\ rob_renaming_credit_in \in CreditPort
  /\ following_renaming_credit_in \in CreditPort
  /\ preceding_renaming_inst_in \in GroupPort /\ preceding_rob_inst_in \in GroupPort
  /\ preceding_dispatch_inst_in \in GroupPort
  /\ \A p \in Pipe : /\ following_reservation_credit_in(p) \in CreditPort
                     /\ preceding_reservation_inst_in(p) \in GroupPort
                     /\ preceding_func_inst_in(p) \in GroupPort
  /\ rs_dispatch_credit_in \in LinkPort
  /\ \A d \in CreditPort : d \in LinkPort
  /\ \A d \in GroupPort : d \in LinkPort
BY DEF LinkPort, CreditPort, GroupPort

\* The ports of the links are different.
LEMMA LinkPortsDiffer ==
  /\ backend_fetch_credit_in # rob_renaming_credit_in
  /\ backend_fetch_credit_in # following_renaming_credit_in
  /\ rob_renaming_credit_in # following_renaming_credit_in
  /\ preceding_renaming_inst_in # preceding_rob_inst_in
  /\ preceding_renaming_inst_in # preceding_dispatch_inst_in
  /\ preceding_rob_inst_in # preceding_dispatch_inst_in
  /\ \A p, q \in Pipe :
       /\ preceding_reservation_inst_in(p) # preceding_func_inst_in(q)
       /\ p # q => /\ following_reservation_credit_in(p) # following_reservation_credit_in(q)
                   /\ preceding_reservation_inst_in(p) # preceding_reservation_inst_in(q)
                   /\ preceding_func_inst_in(p) # preceding_func_inst_in(q)
       /\ following_reservation_credit_in(p) \notin
             {backend_fetch_credit_in, rob_renaming_credit_in, following_renaming_credit_in}
       /\ preceding_reservation_inst_in(p) \notin
             {preceding_renaming_inst_in, preceding_rob_inst_in, preceding_dispatch_inst_in}
       /\ preceding_func_inst_in(p) \notin
             {preceding_renaming_inst_in, preceding_rob_inst_in, preceding_dispatch_inst_in}
  /\ \A d \in CreditPort, e \in GroupPort :
        d # e /\ d # rs_dispatch_credit_in /\ e # rs_dispatch_credit_in
  /\ \A d \in LinkPort : d \notin UniqueEvent
BY PortsApart, LinkPortsAre DEF Port, backend_fetch_credit_in, following_renaming_credit_in,
   rob_renaming_credit_in, rs_dispatch_credit_in, following_reservation_credit_in,
   preceding_renaming_inst_in, preceding_rob_inst_in, preceding_dispatch_inst_in,
   preceding_reservation_inst_in, preceding_func_inst_in

\* What the links and the queues are made of.
linkVars ==
    <<fetch_credit, renaming_stage_queue, rob_credit, rob, dispatch_credit, inst_queue,
      credit_map, dispatch_pending_queue, reservation_station, rs_credit, alu_queue>>

\* A step that leaves the program alone keeps what is known of it.
LEMMA InstSame == ASSUME InstInv, inst' = inst PROVE InstInv' /\ More
BY Zenon DEF InstInv, Program, More

\* A step that touches no link keeps the invariant.
LEMMA QuietStep ==
  ASSUME CreditInv, WiresOK', \A d \in LinkPort : Quiet(d), UNCHANGED inst, UNCHANGED linkVars
  PROVE  CreditInv'
<1>1. InstInv' /\ More
  BY InstSame, Zenon DEF CreditInv
<1>2. SameFetch /\ SameRob /\ SameDispatch /\ SameLine
  BY LinkPortHas, Zenon DEF SameFetch, SameRob, SameDispatch, SameLine, linkVars
<1>3. FetchInv' /\ RobInv' /\ DispatchInv' /\ Increasing(FrontLine)'
  BY <1>1, <1>2, FetchFrame, RobFrame, DispatchFrame, LineFrame, Zenon DEF CreditInv
<1>4. StationInv'
  BY <1>1, LinkPortHas, StationsFrame, Zenon DEF CreditInv, linkVars
<1>5. FuInv'
  BY <1>1, LinkPortHas, FusFrame, Zenon DEF CreditInv, linkVars
<1> QED BY <1>1, <1>3, <1>4, <1>5, Zenon DEF CreditInv

\* A handler of nothing in the links that sends nothing there.
LEMMA ElsewhereStep ==
  ASSUME CreditInv, NEW c, NEW soon, NEW next, NEW out, Ready(c), Fire(c, soon, next, out),
         Events(soon, next), c \notin LinkPort, \A mail \in out : mail[1] \notin LinkPort,
         UNCHANGED inst, UNCHANGED linkVars
  PROVE  CreditInv'
<1>1. More
  BY InstSame, Zenon DEF CreditInv
<1>2. WiresOK' /\ \A d \in LinkPort : Quiet(d)
  BY <1>1, LinksStep DEF CreditInv, More
<1> QED BY <1>2, QuietStep, Zenon

\* The handler of a port that takes its message and sends nothing.
LEMMA TakingStep ==
  ASSUME CreditInv, NEW c \in LinkPort, NEW soon, NEW next, Ready(c),
         Fire(c, soon, next, Nothing), Events(soon, next), More
  PROVE  /\ WiresOK' /\ \A d \in LinkPort : d # c => Quiet(d)
         /\ OnTheWay(c) # << >> /\ Message(c) = Head(OnTheWay(c))
         /\ OnTheWay(c)' = Tail(OnTheWay(c)) \o << >>
<1>1. Sent(Nothing, c) = << >>
  BY DEF Sent, Nothing
<1>2. \A mail \in Nothing : FALSE
  BY DEF Nothing
<1>3. WiresOK
  BY Zenon DEF CreditInv
<1>4. /\ WiresOK'
      /\ \A d \in LinkPort :
           /\ OnTheWay(d)' = (IF d = c THEN Tail(OnTheWay(d)) ELSE OnTheWay(d)) \o Sent(Nothing, d)
           /\ d = c => OnTheWay(d) # << >> /\ Message(c) = Head(OnTheWay(d))
           /\ d # c /\ (\A mail \in Nothing : mail[1] # d) => Quiet(d)
  BY <1>2, <1>3, LinksStep, Zenon DEF More
<1> QED BY <1>1, <1>2, <1>4

\* The instructions fetched and not yet renamed: their number.
LEMMA UnrenamedIs ==
  ASSUME CreditInv
  PROVE  /\ Unrenamed \in Seq(DOMAIN inst) /\ Len(Unrenamed) \in Nat
         /\ Len(renaming_stage_queue) \in Nat
         /\ Len(Unrenamed) =
               Len(renaming_stage_queue) + Len(Instructions(preceding_renaming_inst_in))
<1>1. PICK a \in Seq(DOMAIN inst), b \in Seq(DOMAIN inst) :
         a = renaming_stage_queue /\ b = Instructions(preceding_renaming_inst_in)
  BY GroupWire, LinkPortHas, Zenon DEF CreditInv, FetchInv
<1>2. /\ a \o b \in Seq(DOMAIN inst) /\ Len(a \o b) = Len(a) + Len(b)
      /\ Len(a) \in Nat /\ Len(a \o b) \in Nat
  OBVIOUS
<1> QED BY <1>1, <1>2, Zenon DEF Unrenamed

\* The ports in front of the stations.
FrontPort ==
    {backend_fetch_credit_in, rob_renaming_credit_in, following_renaming_credit_in,
     preceding_renaming_inst_in, preceding_rob_inst_in, preceding_dispatch_inst_in}

frontVars ==
    <<fetch_credit, renaming_stage_queue, rob_credit, rob, dispatch_credit, inst_queue>>

backVars ==
    <<credit_map, dispatch_pending_queue, reservation_station, rs_credit, alu_queue>>

\* The wires of the front end are not those of a station or a function unit.
LEMMA FrontPortsAre ==
  /\ FrontPort \subseteq LinkPort
  /\ rs_dispatch_credit_in \notin FrontPort
  /\ \A p \in Pipe : /\ following_reservation_credit_in(p) \notin FrontPort
                     /\ preceding_reservation_inst_in(p) \notin FrontPort
                     /\ preceding_func_inst_in(p) \notin FrontPort
BY LinkPortHas, LinkPortsDiffer DEF FrontPort

\* A step of the front end keeps the links of the back end.
LEMMA BackSame ==
  ASSUME CreditInv, More, UNCHANGED backVars, \A d \in LinkPort : d \notin FrontPort => Quiet(d)
  PROVE  StationInv' /\ FuInv'
<1>1. StationInv'
  <2>1. Quiet(rs_dispatch_credit_in) /\ \A p \in Pipe : Quiet(preceding_reservation_inst_in(p))
    BY FrontPortsAre, LinkPortHas, Zenon
  <2> QED BY <2>1, StationsFrame, Zenon DEF CreditInv, backVars
<1>2. FuInv'
  <2>1. \A p \in Pipe : Quiet(following_reservation_credit_in(p)) /\ Quiet(preceding_func_inst_in(p))
    BY FrontPortsAre, LinkPortHas, Zenon
  <2> QED BY <2>1, FusFrame, Zenon DEF CreditInv, backVars
<1> QED BY <1>1, <1>2

\* A step of the back end keeps the links of the front end.
LEMMA FrontSame ==
  ASSUME CreditInv, More, UNCHANGED frontVars, \A d \in FrontPort : Quiet(d)
  PROVE  FetchInv' /\ RobInv' /\ DispatchInv' /\ Increasing(FrontLine)'
<1>1. SameFetch /\ SameRob /\ SameDispatch /\ SameLine
  BY DEF SameFetch, SameRob, SameDispatch, SameLine, frontVars, FrontPort
<1> QED BY <1>1, FetchFrame, RobFrame, DispatchFrame, LineFrame, Zenon DEF CreditInv

\* The ring of the reorder buffer and the number of its entries.
LEMMA RobCount ==
  ASSUME RobRing!Ring(rob)
  PROVE  RobQueue!size(rob) = rob.usage /\ rob.usage \in Nat
<1>1. RobDepth \in Nat \ {0}
  BY SizesAssumption
<1>2. RobRing!Fields(rob)
  BY <1>1, RobRing!RingFields
<1> QED BY <1>2 DEF RobRing!Fields, RobQueue!size

\* The fetch stage takes credits (PerfectFrontend::AcceptCredit).
LEMMA AcceptCreditStep ==
  ASSUME CreditInv, AcceptCredit, UNCHANGED <<renamingVars, rob, dispatchVars, rsVars, fuVars>>
  PROVE  CreditInv'
<1> DEFINE c == backend_fetch_credit_in
<1>1. /\ Ready(c) /\ Fire(c, {produce_inst_event_}, {}, Nothing)
      /\ fetch_credit' = fetch_credit + Message(c) /\ inst' = inst
  BY Zenon DEF AcceptCredit
<1>2. Events({produce_inst_event_}, {})
  BY DEF Events, UniqueEvent
<1>3. c \in CreditPort /\ c \in LinkPort /\ c \in FrontPort
  BY LinkPortHas DEF FrontPort
<1>4. InstInv' /\ More
  BY <1>1, InstSame, Zenon DEF CreditInv
<1>5. /\ WiresOK' /\ \A d \in LinkPort : d # c => Quiet(d)
      /\ OnTheWay(c) # << >> /\ Message(c) = Head(OnTheWay(c))
      /\ OnTheWay(c)' = Tail(OnTheWay(c)) \o << >>
  BY <1>1, <1>2, <1>3, <1>4, TakingStep
<1>6. /\ Head(OnTheWay(c)) \in Nat /\ CreditsOn(c) \in Nat /\ CreditsOn(c)' \in Nat
      /\ CreditsOn(c) = Head(OnTheWay(c)) + CreditsOn(c)'
  BY <1>3, <1>5, TakesCredit DEF CreditInv
<1> HIDE DEF c
<1>7. UNCHANGED <<renaming_stage_queue, rob_credit, rob, dispatch_credit, inst_queue>>
  BY Zenon DEF renamingVars, dispatchVars
<1>8. SameRob /\ SameDispatch /\ SameLine
  BY <1>5, <1>7, LinkPortHas, LinkPortsDiffer DEF SameRob, SameDispatch, SameLine, c
<1>9. RobInv' /\ DispatchInv' /\ Increasing(FrontLine)'
  BY <1>4, <1>8, RobFrame, DispatchFrame, LineFrame, Zenon DEF CreditInv
<1>10. StationInv' /\ FuInv'
  <2>1. UNCHANGED backVars
    BY Zenon DEF backVars, dispatchVars, rsVars, fuVars
  <2> QED BY <1>3, <1>4, <1>5, <2>1, BackSame, Zenon
<1>11. FetchInv'
  <2>1. Quiet(preceding_renaming_inst_in)
    BY <1>5, LinkPortHas, LinkPortsDiffer DEF c
  <2>2. Unrenamed' = Unrenamed /\ Seq(DOMAIN inst) \subseteq Seq(DOMAIN inst')
    BY <1>1, <1>7, <2>1, QuietPortSame, Zenon DEF Unrenamed
  <2>3. fetch_credit \in Nat /\ fetch_credit + CreditsOn(c) + Len(Unrenamed) = RenameDepth
    BY DEF CreditInv, FetchInv, FetchLink, c
  <2>4. PICK f \in Nat, n \in Nat, a \in Nat, b \in Nat, l \in Nat :
          /\ f = fetch_credit /\ n = Message(c) /\ a = CreditsOn(c) /\ b = CreditsOn(c)'
          /\ l = Len(Unrenamed)
    BY <1>5, <1>6, <2>3, UnrenamedIs, Zenon
  <2>5. f + a + l = RenameDepth /\ a = n + b
    BY <1>5, <1>6, <2>3, <2>4, Zenon
  <2>6. (f + n) + b + l = RenameDepth /\ f + n \in Nat
    BY <2>5
  <2>7. FetchLink' /\ fetch_credit' \in Nat
    BY <1>1, <2>2, <2>4, <2>6, Zenon DEF FetchLink, c
  <2>8. renaming_stage_queue' \in Seq(DOMAIN inst')
    BY <1>7, <2>2, Zenon DEF CreditInv, FetchInv
  <2> QED BY <2>7, <2>8, Zenon DEF FetchInv
<1> QED BY <1>4, <1>5, <1>9, <1>10, <1>11, Zenon DEF CreditInv

\* The renaming stage takes the reorder buffer's credits.
LEMMA AcceptRobCreditStep ==
  ASSUME CreditInv, AcceptRobCredit_,
         UNCHANGED <<fetch_credit, rob, dispatchVars, rsVars, fuVars>>
  PROVE  CreditInv'
<1> DEFINE c == rob_renaming_credit_in
<1>1. /\ Ready(c) /\ Fire(c, {rename_event}, {}, Nothing)
      /\ rob_credit' = rob_credit + Message(c) /\ inst' = inst
      /\ UNCHANGED <<renaming_stage_queue, dispatch_credit>>
  BY Zenon DEF AcceptRobCredit_
<1>2. Events({rename_event}, {})
  BY DEF Events, UniqueEvent
<1>3. c \in CreditPort /\ c \in LinkPort /\ c \in FrontPort
  BY LinkPortHas DEF FrontPort
<1>4. InstInv' /\ More
  BY <1>1, InstSame, Zenon DEF CreditInv
<1>5. /\ WiresOK' /\ \A d \in LinkPort : d # c => Quiet(d)
      /\ OnTheWay(c) # << >> /\ Message(c) = Head(OnTheWay(c))
      /\ OnTheWay(c)' = Tail(OnTheWay(c)) \o << >>
  BY <1>1, <1>2, <1>3, <1>4, TakingStep
<1>6. /\ Head(OnTheWay(c)) \in Nat /\ CreditsOn(c) \in Nat /\ CreditsOn(c)' \in Nat
      /\ CreditsOn(c) = Head(OnTheWay(c)) + CreditsOn(c)'
  BY <1>3, <1>5, TakesCredit DEF CreditInv
<1> HIDE DEF c
<1>7. UNCHANGED <<fetch_credit, renaming_stage_queue, rob, dispatch_credit, inst_queue>>
  BY <1>1, Zenon DEF dispatchVars
<1>8. SameFetch /\ SameDispatch /\ SameLine
  BY <1>5, <1>7, LinkPortHas, LinkPortsDiffer DEF SameFetch, SameDispatch, SameLine, c
<1>9. FetchInv' /\ DispatchInv' /\ Increasing(FrontLine)'
  BY <1>4, <1>8, FetchFrame, DispatchFrame, LineFrame, Zenon DEF CreditInv
<1>10. StationInv' /\ FuInv'
  <2>1. UNCHANGED backVars
    BY Zenon DEF backVars, dispatchVars, rsVars, fuVars
  <2> QED BY <1>3, <1>4, <1>5, <2>1, BackSame, Zenon
<1>11. RobInv'
  <2>1. Quiet(preceding_rob_inst_in)
    BY <1>5, LinkPortHas, LinkPortsDiffer DEF c
  <2>2. Instructions(preceding_rob_inst_in)' = Instructions(preceding_rob_inst_in)
    BY <2>1, QuietPortSame, Zenon
  <2>3. /\ rob_credit \in Nat /\ RobRing!Ring(rob) /\ RobHolds(DOMAIN inst) /\ rob' = rob
        /\ rob_credit + CreditsOn(c) + Len(Instructions(preceding_rob_inst_in))
             + RobQueue!size(rob) = RobDepth
    BY <1>7, Zenon DEF CreditInv, RobInv, RobLink, c
  <2>4. /\ RobRing!Ring(rob)' /\ RobHolds(DOMAIN inst)' /\ RobQueue!size(rob)' = RobQueue!size(rob)
    BY <1>4, <2>3, RobSame, Zenon
  <2>5. RobQueue!size(rob) \in Nat /\ Len(Instructions(preceding_rob_inst_in)) \in Nat
    BY <2>3, RobCount, GroupWire, LinkPortHas, Zenon DEF CreditInv
  <2>6. PICK f \in Nat, n \in Nat, a \in Nat, b \in Nat, l \in Nat, u \in Nat :
          /\ f = rob_credit /\ n = Message(c) /\ a = CreditsOn(c) /\ b = CreditsOn(c)'
          /\ l = Len(Instructions(preceding_rob_inst_in)) /\ u = RobQueue!size(rob)
    BY <1>5, <1>6, <2>3, <2>5, Zenon
  <2>7. f + a + l + u = RobDepth /\ a = n + b
    BY <1>5, <1>6, <2>3, <2>6, Zenon
  <2>8. (f + n) + b + l + u = RobDepth /\ f + n \in Nat
    BY <2>7
  <2>9. RobLink' /\ rob_credit' \in Nat
    BY <1>1, <2>2, <2>4, <2>6, <2>8, Zenon DEF RobLink, c
  <2> QED BY <2>4, <2>9, Zenon DEF RobInv
<1> QED BY <1>4, <1>5, <1>9, <1>10, <1>11, Zenon DEF CreditInv

\* The entries not issued, in numbers.
LEMMA UnissuedIs ==
  ASSUME NEW I, NEW E, \A e \in E : e.inst \in I, NEW entries \in Seq(E)
  PROVE  /\ Len(Unissued(entries)) = Cardinality(Open(entries))
         /\ Cardinality(Open(entries)) \in Nat /\ IsFiniteSet(Open(entries))
<1>1. PICK n \in Nat : n = Len(entries) /\ DOMAIN entries = 1 .. n
  OBVIOUS
<1>2. PICK s \in Seq(I) : s = [k \in DOMAIN entries |-> entries[k].inst] /\ Len(s) = n
  <2>1. \A k \in 1 .. n : entries[k].inst \in I
    BY <1>1
  <2>2. PICK s : s = [k \in 1 .. n |-> entries[k].inst]
    OBVIOUS
  <2>3. s \in Seq(I) /\ Len(s) = n
    BY <2>1, <2>2
  <2> QED BY <1>1, <2>2, <2>3, Zenon
<1>3. Open(entries) \in SUBSET (1 .. Len(s))
  BY <1>1, <1>2 DEF Open
<1>4. Unissued(entries) = PickAt(s, Open(entries))
  BY <1>1, <1>2, Zenon DEF Unissued, Open
<1> QED BY <1>3, <1>4, PickAtIs, Zenon

\* The entries of the dispatch queue that are not issued, counted by position.
LEMMA DispatchUnissued ==
  ASSUME NEW I, NEW entries \in Seq(DispatchEntry(I))
  PROVE  /\ Len(Unissued(entries)) = Cardinality(Open(entries))
         /\ Cardinality(Open(entries)) \in Nat /\ IsFiniteSet(Open(entries))
<1>1. \A e \in DispatchEntry(I) : e.inst \in I
  BY DEF DispatchEntry
<1> QED BY <1>1, UnissuedIs, Zenon

\* The same for a station's entries.
LEMMA StationUnissued ==
  ASSUME NEW I, NEW entries \in Seq(StationEntry(I))
  PROVE  /\ Len(Unissued(entries)) = Cardinality(Open(entries))
         /\ Cardinality(Open(entries)) \in Nat /\ IsFiniteSet(Open(entries))
<1>1. \A e \in StationEntry(I) : e.inst \in I
  BY DEF StationEntry
<1> QED BY <1>1, UnissuedIs, Zenon

\* The renaming stage takes the dispatch stage's credits.
LEMMA AcceptDispatchCreditStep ==
  ASSUME CreditInv, AcceptDispatchCredit_,
         UNCHANGED <<fetch_credit, rob, dispatchVars, rsVars, fuVars>>
  PROVE  CreditInv'
<1> DEFINE c == following_renaming_credit_in
<1>1. /\ Ready(c) /\ Fire(c, {rename_event}, {}, Nothing)
      /\ dispatch_credit' = dispatch_credit + Message(c) /\ inst' = inst
      /\ UNCHANGED <<renaming_stage_queue, rob_credit>>
  BY Zenon DEF AcceptDispatchCredit_
<1>2. Events({rename_event}, {})
  BY DEF Events, UniqueEvent
<1>3. c \in CreditPort /\ c \in LinkPort /\ c \in FrontPort
  BY LinkPortHas DEF FrontPort
<1>4. InstInv' /\ More
  BY <1>1, InstSame, Zenon DEF CreditInv
<1>5. /\ WiresOK' /\ \A d \in LinkPort : d # c => Quiet(d)
      /\ OnTheWay(c) # << >> /\ Message(c) = Head(OnTheWay(c))
      /\ OnTheWay(c)' = Tail(OnTheWay(c)) \o << >>
  BY <1>1, <1>2, <1>3, <1>4, TakingStep
<1>6. /\ Head(OnTheWay(c)) \in Nat /\ CreditsOn(c) \in Nat /\ CreditsOn(c)' \in Nat
      /\ CreditsOn(c) = Head(OnTheWay(c)) + CreditsOn(c)'
  BY <1>3, <1>5, TakesCredit DEF CreditInv
<1> HIDE DEF c
<1>7. UNCHANGED <<fetch_credit, renaming_stage_queue, rob, rob_credit, inst_queue>>
  BY <1>1, Zenon DEF dispatchVars
<1>8. SameFetch /\ SameRob /\ SameLine
  BY <1>5, <1>7, LinkPortHas, LinkPortsDiffer DEF SameFetch, SameRob, SameLine, c
<1>9. FetchInv' /\ RobInv' /\ Increasing(FrontLine)'
  BY <1>4, <1>8, FetchFrame, RobFrame, LineFrame, Zenon DEF CreditInv
<1>10. StationInv' /\ FuInv'
  <2>1. UNCHANGED backVars
    BY Zenon DEF backVars, dispatchVars, rsVars, fuVars
  <2> QED BY <1>3, <1>4, <1>5, <2>1, BackSame, Zenon
<1>11. DispatchInv'
  <2>1. Quiet(preceding_dispatch_inst_in)
    BY <1>5, LinkPortHas, LinkPortsDiffer DEF c
  <2>2. /\ Instructions(preceding_dispatch_inst_in)' = Instructions(preceding_dispatch_inst_in)
        /\ Unissued(inst_queue)' = Unissued(inst_queue)
        /\ (inst_queue \in Seq(DispatchEntry(DOMAIN inst)))'
    BY <1>1, <1>7, <2>1, QuietPortSame, Zenon
       DEF Unissued, PickAt, CreditInv, DispatchInv, DispatchEntry
  <2>3. /\ dispatch_credit \in Nat /\ inst_queue \in Seq(DispatchEntry(DOMAIN inst))
        /\ dispatch_credit + CreditsOn(c) + Len(Instructions(preceding_dispatch_inst_in))
             + Len(Unissued(inst_queue)) = DispatchDepth
    BY Zenon DEF CreditInv, DispatchInv, DispatchLink, c
  <2>4. Len(Unissued(inst_queue)) \in Nat /\ Len(Instructions(preceding_dispatch_inst_in)) \in Nat
    BY <2>3, DispatchUnissued, GroupWire, LinkPortHas, Zenon DEF CreditInv
  <2>5. PICK f \in Nat, n \in Nat, a \in Nat, b \in Nat, l \in Nat, u \in Nat :
          /\ f = dispatch_credit /\ n = Message(c) /\ a = CreditsOn(c) /\ b = CreditsOn(c)'
          /\ l = Len(Instructions(preceding_dispatch_inst_in)) /\ u = Len(Unissued(inst_queue))
    BY <1>5, <1>6, <2>3, <2>4, Zenon
  <2>6. f + a + l + u = DispatchDepth /\ a = n + b
    BY <1>5, <1>6, <2>3, <2>5, Zenon
  <2>7. (f + n) + b + l + u = DispatchDepth /\ f + n \in Nat
    BY <2>6
  <2>8. DispatchLink' /\ dispatch_credit' \in Nat
    BY <1>1, <2>2, <2>5, <2>7, Zenon DEF DispatchLink, c
  <2> QED BY <2>2, <2>8, Zenon DEF DispatchInv
<1> QED BY <1>4, <1>5, <1>9, <1>10, <1>11, Zenon DEF CreditInv

\* The four parts of the line.
LEMMA LineParts ==
  ASSUME CreditInv
  PROVE  /\ DispatchInsts \in Seq(DOMAIN inst)
         /\ Len(DispatchInsts) = Len(inst_queue)
         /\ Instructions(preceding_dispatch_inst_in) \in Seq(DOMAIN inst)
         /\ renaming_stage_queue \in Seq(DOMAIN inst)
         /\ Instructions(preceding_renaming_inst_in) \in Seq(DOMAIN inst)
<1>1. inst_queue \in Seq(DispatchEntry(DOMAIN inst))
  BY Zenon DEF CreditInv, DispatchInv
<1>2. \A k \in DOMAIN inst_queue : inst_queue[k].inst \in DOMAIN inst
  <2>1. \A k \in DOMAIN inst_queue : inst_queue[k] \in DispatchEntry(DOMAIN inst)
    BY <1>1
  <2> QED BY <2>1 DEF DispatchEntry
<1>3. DispatchInsts \in Seq(DOMAIN inst) /\ Len(DispatchInsts) = Len(inst_queue)
  BY <1>1, <1>2 DEF DispatchInsts
<1> QED BY <1>3, GroupWire, LinkPortHas, Zenon DEF CreditInv, FetchInv

\* The renaming stage puts the fetched instructions in its queue.
LEMMA RenamingAllocateStep ==
  ASSUME CreditInv, RenamingAllocateInst_,
         UNCHANGED <<fetch_credit, rob, dispatchVars, rsVars, fuVars>>
  PROVE  CreditInv'
<1> DEFINE c == preceding_renaming_inst_in
<1>1. /\ Ready(c) /\ Fire(c, {rename_event}, {}, Nothing)
      /\ renaming_stage_queue' = renaming_stage_queue \o Message(c) /\ inst' = inst
      /\ UNCHANGED <<dispatch_credit, rob_credit>>
  BY Zenon DEF RenamingAllocateInst_
<1>2. Events({rename_event}, {})
  BY DEF Events, UniqueEvent
<1>3. c \in GroupPort /\ c \in LinkPort /\ c \in FrontPort
  BY LinkPortHas DEF FrontPort
<1>4. InstInv' /\ More
  BY <1>1, InstSame, Zenon DEF CreditInv
<1>5. /\ WiresOK' /\ \A d \in LinkPort : d # c => Quiet(d)
      /\ OnTheWay(c) # << >> /\ Message(c) = Head(OnTheWay(c))
      /\ OnTheWay(c)' = Tail(OnTheWay(c)) \o << >>
  BY <1>1, <1>2, <1>3, <1>4, TakingStep
<1>6. /\ Message(c) \in Seq(DOMAIN inst) /\ Instructions(c)' \in Seq(DOMAIN inst)
      /\ Instructions(c) = Message(c) \o Instructions(c)'
  BY <1>3, <1>5, TakesGroup, Zenon DEF CreditInv
<1> HIDE DEF c
<1>7. UNCHANGED <<fetch_credit, rob, rob_credit, dispatch_credit, inst_queue>>
  BY <1>1, Zenon DEF dispatchVars
<1>8. SameDispatch /\ SameRob
  BY <1>5, <1>7, LinkPortHas, LinkPortsDiffer DEF SameDispatch, SameRob, c
<1>9. DispatchInv' /\ RobInv'
  BY <1>4, <1>8, DispatchFrame, RobFrame, Zenon DEF CreditInv
<1>10. StationInv' /\ FuInv'
  <2>1. UNCHANGED backVars
    BY Zenon DEF backVars, dispatchVars, rsVars, fuVars
  <2> QED BY <1>3, <1>4, <1>5, <2>1, BackSame, Zenon
<1>11. PICK q \in Seq(DOMAIN inst), g \in Seq(DOMAIN inst), r \in Seq(DOMAIN inst) :
         q = renaming_stage_queue /\ g = Message(c) /\ r = Instructions(c)'
  BY <1>6, LineParts
<1>12. (q \o g) \o r = q \o (g \o r) /\ q \o g \in Seq(DOMAIN inst)
  OBVIOUS
<1>13. Unrenamed' = Unrenamed
  BY <1>1, <1>6, <1>11, <1>12, Zenon DEF Unrenamed, c
<1>14. FetchInv'
  <2>1. Quiet(backend_fetch_credit_in)
    BY <1>5, LinkPortHas, LinkPortsDiffer DEF c
  <2>2. CreditsOn(backend_fetch_credit_in)' = CreditsOn(backend_fetch_credit_in)
    BY <2>1, QuietPortSame, Zenon
  <2> QED BY <1>1, <1>7, <1>11, <1>12, <1>13, <2>2, Zenon DEF FetchInv, FetchLink, CreditInv
<1>15. Increasing(FrontLine)'
  <2>1. PICK a \in Seq(DOMAIN inst), b \in Seq(DOMAIN inst) :
          a = DispatchInsts /\ b = Instructions(preceding_dispatch_inst_in)
    BY LineParts
  <2>2. /\ ((a \o b) \o (q \o g)) \o r = ((a \o b) \o q) \o (g \o r)
    <3>1. PICK ab \in Seq(DOMAIN inst) : ab = a \o b
      BY ConcatFacts
    <3>2. Regrouped(ab, q, g, r)
      BY Regroup, Zenon
    <3> QED BY <3>1, <3>2, Zenon DEF Regrouped
  <2>3. DispatchInsts' = DispatchInsts
    BY <1>7, Zenon DEF DispatchInsts
  <2>4. Instructions(preceding_dispatch_inst_in)' = Instructions(preceding_dispatch_inst_in)
    BY <1>8, QuietPortSame, Zenon DEF SameDispatch
  <2>5. FrontLine' = FrontLine
    BY <1>1, <1>6, <1>11, <2>1, <2>2, <2>3, <2>4, Zenon DEF FrontLine, c
  <2> QED BY <2>5, Zenon DEF Increasing, CreditInv
<1> QED BY <1>4, <1>5, <1>9, <1>10, <1>14, <1>15, Zenon DEF CreditInv

\* A program is a sequence.
LEMMA ProgramIsSeq ==
  ASSUME NEW f, NEW n \in Nat, Program(f, n)
  PROVE  DOMAIN f = 1 .. n /\ \E S : f \in Seq(S) /\ Len(f) = n
<1>1. f = [i \in 1 .. n |-> f[i]]
  BY Zenon DEF Program
<1>2. PICK S : S = {f[i] : i \in 1 .. n}
  OBVIOUS
<1>3. f \in [1 .. n -> S] /\ DOMAIN f = 1 .. n
  BY <1>1, <1>2
<1>4. f \in Seq(S) /\ Len(f) = n
  BY <1>3
<1> QED BY <1>3, <1>4, Zenon

\* What a handler may send over the links.
LEMMA PostTyped ==
  ASSUME NEW d, NEW m, NEW I, m \in Seq(MessageOf(d, I))
  PROVE  \A mail \in Post(d, m) : mail[1] = d /\ mail[2] \in Seq(MessageOf(mail[1], I))
<1>1. \A mail \in Post(d, m) : mail[1] = d /\ mail[2] = m
  BY DEF Post
<1> QED BY <1>1, Zenon

\* The handler of an event takes no message from the links.
LEMMA SendingStep ==
  ASSUME CreditInv, NEW c, c \notin LinkPort, NEW soon, NEW next, NEW out, Ready(c),
         Fire(c, soon, next, out), Events(soon, next), More,
         \A mail \in out : mail[1] \in LinkPort =>
            mail[2] \in Seq(MessageOf(mail[1], DOMAIN inst'))
  PROVE  /\ WiresOK'
         /\ \A d \in LinkPort :
              /\ OnTheWay(d)' = OnTheWay(d) \o Sent(out, d)
              /\ (\A mail \in out : mail[1] # d) => Quiet(d)
<1>1. WiresOK
  BY Zenon DEF CreditInv
<1>2. /\ WiresOK'
      /\ \A d \in LinkPort :
           /\ OnTheWay(d)' = (IF d = c THEN Tail(OnTheWay(d)) ELSE OnTheWay(d)) \o Sent(out, d)
           /\ d = c => OnTheWay(d) # << >> /\ Message(c) = Head(OnTheWay(d))
           /\ d # c /\ (\A mail \in out : mail[1] # d) => Quiet(d)
  BY <1>1, LinksStep, Zenon DEF More
<1>3. \A d \in LinkPort : d # c
  OBVIOUS
<1> QED BY <1>2, <1>3, Zenon

\* The least of two numbers.
LEMMA MinOfTwo ==
  ASSUME NEW a \in Int, NEW b \in Int
  PROVE  /\ Min({a, b}) \in {a, b} /\ Min({a, b}) <= a /\ Min({a, b}) <= b
         /\ Min({a, b}) \in Int
<1>1. \E x \in {a, b} : \A y \in {a, b} : x <= y
  OBVIOUS
<1>2. PICK m : m = Min({a, b})
  OBVIOUS
<1>3. m \in {a, b} /\ \A y \in {a, b} : m <= y
  BY <1>1, <1>2, Zenon DEF Min
<1> QED BY <1>2, <1>3

\* The whole line.
LEMMA LineIsSeq ==
  ASSUME CreditInv PROVE FrontLine \in Seq(DOMAIN inst)
<1>1. PICK a \in Seq(DOMAIN inst), b \in Seq(DOMAIN inst), q \in Seq(DOMAIN inst), r \in Seq(DOMAIN inst) :
        /\ a = DispatchInsts /\ b = Instructions(preceding_dispatch_inst_in)
        /\ q = renaming_stage_queue /\ r = Instructions(preceding_renaming_inst_in)
  BY LineParts
<1>2. ((a \o b) \o q) \o r \in Seq(DOMAIN inst)
  OBVIOUS
<1> QED BY <1>1, <1>2, Zenon DEF FrontLine

\* No instruction is marked as predicted wrongly.  ProduceInst sets the mark with
\* is_speculation_ only, which this machine has not.
WellPredicted == \A k \in UNION Range(InstKind) : ~k.IsMissPrediction

\* The fetched instructions are numbered after all the earlier ones, and none
\* of them is mispredicted.
LEMMA NewProgram ==
  ASSUME NEW n \in Nat, Program(inst, n), NEW m \in Nat,
         NEW kinds \in [1 .. m -> UNION Range(InstKind)], WellPredicted,
         inst' = inst \o [i \in DOMAIN kinds |-> NewInst(kinds[i])]
  PROVE  /\ Program(inst', n + m) /\ DOMAIN inst = 1 .. n /\ DOMAIN inst' = 1 .. (n + m)
         /\ Len(inst) = n /\ \A i \in 1 .. n : inst'[i] = inst[i]
         /\ \A i \in 1 .. m : Unflagged(inst', n + i)
<1>1. PICK S : inst \in Seq(S) /\ Len(inst) = n /\ DOMAIN inst = 1 .. n
  BY ProgramIsSeq
<1>2. PICK new : new = [i \in 1 .. m |-> NewInst(kinds[i])]
  OBVIOUS
<1>3. \A i \in 1 .. m : Foreseen(new[i])
  <2>1. ASSUME NEW k, ~k.IsMissPrediction PROVE Foreseen(NewInst(k))
    <3>1. NewInst(k).IsMissPrediction = k.IsMissPrediction
      BY DEF NewInst
    <3>2. {"IsMissPrediction", "RobTag", "PhyRd", "PhyRs1", "PhyRs2",
           "IsRs1Forward", "IsRs2Forward"} \subseteq DOMAIN NewInst(k)
      BY DEF NewInst
    <3> QED BY <2>1, <3>1, <3>2, Zenon DEF Foreseen
  <2>2. \A i \in 1 .. m : ~kinds[i].IsMissPrediction
    BY DEF WellPredicted
  <2> QED BY <1>2, <2>1, <2>2
<1>4. PICK T : T = S \cup {new[i] : i \in 1 .. m}
  OBVIOUS
<1>5. new \in Seq(T) /\ Len(new) = m /\ inst \in Seq(T)
  <2>1. new \in [1 .. m -> T]
    BY <1>2, <1>4
  <2>2. S \subseteq T
    BY <1>4
  <2>3. Seq(S) \subseteq Seq(T)
    BY <2>2, SeqGrows
  <2> QED BY <1>1, <2>1, <2>3
<1>6. PICK old \in Seq(T), nw \in Seq(T) : old = inst /\ nw = new
  BY <1>5
<1>14. PICK t : t = old \o nw
  OBVIOUS
<1>7. /\ t \in Seq(T) /\ Len(t) = Len(old) + Len(nw)
      /\ \A i \in 1 .. Len(old) : t[i] = old[i]
      /\ \A i \in 1 .. Len(nw) : t[Len(old) + i] = nw[i]
  BY <1>14, ConcatOf
<1>8. inst' = t
  <2>1. DOMAIN kinds = 1 .. m
    OBVIOUS
  <2> QED BY <1>2, <1>6, <1>14, <2>1, Zenon
<1>9. t \in Seq(T) /\ Len(t) = n + m
  BY <1>1, <1>5, <1>6, <1>7
<1>10. DOMAIN t = 1 .. (n + m) /\ t = [i \in 1 .. (n + m) |-> t[i]]
  BY <1>9
<1>11. \A i \in 1 .. n : t[i] = inst[i]
  BY <1>1, <1>6, <1>7
<1>12. \A i \in 1 .. m : t[n + i] = new[i]
  BY <1>1, <1>5, <1>6, <1>7
<1>13. ASSUME NEW i \in 1 .. (n + m) PROVE Foreseen(t[i])
  <2>1. CASE i \in 1 .. n
    BY <1>11, <2>1, Zenon DEF Program
  <2>2. CASE i \notin 1 .. n
    <3>1. PICK j \in 1 .. m : i = n + j
      BY <2>2
    <3> QED BY <1>3, <1>12, <3>1, Zenon
  <2> QED BY <2>1, <2>2
<1>15. ASSUME NEW i \in 1 .. m PROVE Unflagged(t, n + i)
  <2>1. ~new[i].IsRs1Forward /\ ~new[i].IsRs2Forward
    BY <1>2 DEF NewInst
  <2> QED BY <1>12, <2>1, Zenon DEF Unflagged
<1> QED BY <1>1, <1>8, <1>10, <1>11, <1>13, <1>15, Zenon DEF Program

\* The credits on a wire are a natural number.
LEMMA CreditsAreNat ==
  ASSUME NEW d \in CreditPort, WiresOK PROVE CreditsOn(d) \in Nat
<1>1. d \in LinkPort /\ MessageOf(d, DOMAIN inst) = Nat
  BY DEF LinkPort, MessageOf
<1>2. now[d] \in Seq(Nat) /\ later[d] \in Seq(Nat)
  BY <1>1, Zenon DEF WiresOK, Typed
<1>3. OnTheWay(d) \in Seq(Nat)
  BY <1>2, WireIsSeq, Zenon
<1> QED BY <1>3, SumIsNat, Zenon DEF CreditsOn

\* The fetch stage produces as many instructions as it has credits for, at
\* most, and numbers them after those there are.
LEMMA ProduceDoes ==
  ASSUME CreditInv, WellPredicted, ProduceInst, Min({FetchWidth, fetch_credit}) # 0
  PROVE  \E n \in Nat, m \in Nat : \E nxt, group :
           /\ Program(inst, n) /\ Program(inst', n + m)
           /\ DOMAIN inst = 1 .. n /\ DOMAIN inst' = 1 .. (n + m)
           /\ \A i \in 1 .. n : inst'[i] = inst[i]
           /\ \A i \in 1 .. m : Unflagged(inst', n + i)
           /\ group \in Seq(DOMAIN inst') /\ group \in Seq(Nat) /\ Len(group) = m
           /\ \A i \in 1 .. m : group[i] = n + i
           /\ m <= fetch_credit /\ fetch_credit' = fetch_credit - m
           /\ nxt \subseteq {produce_inst_event_}
           /\ Fire(produce_inst_event_, {}, nxt, Post(preceding_renaming_inst_in, <<group>>))
<1> DEFINE c == produce_inst_event_
           d == preceding_renaming_inst_in
<1>1. PICK n \in Nat : Program(inst, n)
  BY Zenon DEF CreditInv, InstInv
<1>2. Len(inst) = n /\ DOMAIN inst = 1 .. n
  BY <1>1, ProgramIsSeq
<1>3. PICK kinds, nxt, group :
         /\ kinds \in Programs(Len(inst), Min({Min({FetchWidth, fetch_credit}),
                                                 InstNum - Len(inst)}))
         /\ group = [i \in DOMAIN kinds |-> Len(inst) + i]
         /\ inst' = inst \o [i \in DOMAIN kinds |-> NewInst(kinds[i])]
         /\ fetch_credit' = fetch_credit - Len(group)
         /\ nxt \subseteq {c} /\ Fire(c, {}, nxt, Post(d, <<group>>))
  BY DEF ProduceInst
<1>4. fetch_credit \in Nat /\ FetchLink /\ renaming_stage_queue \in Seq(DOMAIN inst)
  BY Zenon DEF CreditInv, FetchInv
<1>5. PICK m \in Nat : kinds \in [1 .. m -> UNION Range(InstKind)] /\ m <= fetch_credit
  <2>1. FetchWidth \in Int /\ InstNum \in Int
    BY SizesAssumption
  <2>10. PICK x \in Int : x = fetch_credit /\ x \in Nat
    BY <1>4
  <2>2. PICK a \in Int : a = Min({FetchWidth, x}) /\ a <= x
    BY <2>1, MinOfTwo
  <2>3. InstNum - Len(inst) \in Int
    BY <1>2, <2>1
  <2>4. PICK b \in Int : b = Min({a, InstNum - Len(inst)}) /\ b <= a
    BY <2>2, <2>3, MinOfTwo
  <2>5. kinds \in [1 .. b -> UNION Range(InstKind)]
    <3>1. kinds \in Programs(Len(inst), b)
      BY <1>3, <2>10, <2>2, <2>4, Zenon
    <3> QED BY <3>1 DEF Programs
  <2>6. CASE b >= 0
    <3>1. b \in Nat /\ b <= x
      BY <2>2, <2>4, <2>6
    <3> QED BY <2>5, <2>10, <3>1, Zenon
  <2>7. CASE b < 0
    <3>1. 1 .. b = 1 .. 0 /\ 0 <= x /\ 0 \in Nat
      BY <2>7, <2>10
    <3> QED BY <2>5, <2>10, <3>1, Zenon
  <2> QED BY <2>6, <2>7
<1>6. DOMAIN kinds = 1 .. m
  BY <1>5
<1>7. /\ Program(inst', n + m) /\ DOMAIN inst' = 1 .. (n + m)
      /\ \A i \in 1 .. n : inst'[i] = inst[i]
      /\ \A i \in 1 .. m : Unflagged(inst', n + i)
  BY <1>1, <1>3, <1>5, NewProgram
<1>9. /\ group \in Seq(DOMAIN inst') /\ group \in Seq(Nat) /\ Len(group) = m
      /\ \A i \in 1 .. m : group[i] = n + i
  <2>1. group = [i \in 1 .. m |-> n + i]
    BY <1>2, <1>3, <1>6, Zenon
  <2> QED BY <1>7, <2>1
<1> QED BY <1>1, <1>2, <1>3, <1>5, <1>7, <1>9

\* The fetch stage produces instructions.
LEMMA ProduceStep ==
  ASSUME CreditInv, WellPredicted, ProduceInst,
         UNCHANGED <<renamingVars, rob, dispatchVars, rsVars, fuVars>>
  PROVE  CreditInv'
<1> DEFINE c == produce_inst_event_
           d == preceding_renaming_inst_in
<1>1. c \notin LinkPort /\ c \in UniqueEvent
  BY LinkPortsDiffer DEF UniqueEvent
<1>2. Ready(c)
  BY Zenon DEF ProduceInst
<1>3. CASE Min({FetchWidth, fetch_credit}) = 0
  <2>1. Fire(c, {}, {}, Nothing) /\ UNCHANGED <<fetch_credit, inst>>
    BY <1>3, Zenon DEF ProduceInst
  <2>2. UNCHANGED linkVars
    BY <2>1, Zenon DEF linkVars, renamingVars, dispatchVars, rsVars, fuVars
  <2>3. Events({}, {}) /\ \A mail \in Nothing : mail[1] \notin LinkPort
    BY DEF Events, Nothing
  <2> QED BY <1>1, <1>2, <2>1, <2>2, <2>3, ElsewhereStep, Zenon
<1>4. CASE Min({FetchWidth, fetch_credit}) # 0
  <2>2. PICK n \in Nat, m \in Nat : \E nxt, group :
           /\ Program(inst, n) /\ Program(inst', n + m)
           /\ DOMAIN inst = 1 .. n /\ DOMAIN inst' = 1 .. (n + m)
           /\ group \in Seq(DOMAIN inst') /\ group \in Seq(Nat) /\ Len(group) = m
           /\ \A i \in 1 .. m : group[i] = n + i
           /\ m <= fetch_credit /\ fetch_credit' = fetch_credit - m
           /\ nxt \subseteq {c} /\ Fire(c, {}, nxt, Post(d, <<group>>))
    BY <1>4, ProduceDoes, Zenon
  <2>1. PICK nxt, group :
           /\ Program(inst, n) /\ Program(inst', n + m)
           /\ DOMAIN inst = 1 .. n /\ DOMAIN inst' = 1 .. (n + m)
           /\ group \in Seq(DOMAIN inst') /\ group \in Seq(Nat) /\ Len(group) = m
           /\ \A i \in 1 .. m : group[i] = n + i
           /\ m <= fetch_credit /\ fetch_credit' = fetch_credit - m
           /\ nxt \subseteq {c} /\ Fire(c, {}, nxt, Post(d, <<group>>))
    BY <2>2, Zenon
  <2>4. fetch_credit \in Nat /\ FetchLink /\ renaming_stage_queue \in Seq(DOMAIN inst)
    BY Zenon DEF CreditInv, FetchInv
  <2>8. InstInv' /\ More
    <3>1. n + m \in Nat /\ 1 .. n \subseteq 1 .. (n + m)
      OBVIOUS
    <3> QED BY <2>1, <3>1, Zenon DEF InstInv, More, Program
  <2>10. d \in LinkPort /\ d \in GroupPort
    BY LinkPortHas
  <2>11. <<group>> \in Seq(MessageOf(d, DOMAIN inst'))
    <3>1. MessageOf(d, DOMAIN inst') = Seq(DOMAIN inst')
      BY <2>10, LinkPortsAre, Zenon DEF MessageOf
    <3>2. \A T : \A x \in T : <<x>> \in Seq(T)
      OBVIOUS
    <3> QED BY <2>1, <3>1, <3>2, Zenon
  <2>12. \A mail \in Post(d, <<group>>) :
            mail[1] = d /\ mail[2] \in Seq(MessageOf(mail[1], DOMAIN inst'))
    BY <2>11, PostTyped, Zenon
  <2>13. Events({}, nxt)
    BY <1>1, <2>1 DEF Events
  <2>14. /\ WiresOK'
         /\ \A e \in LinkPort :
              /\ OnTheWay(e)' = OnTheWay(e) \o Sent(Post(d, <<group>>), e)
              /\ (\A mail \in Post(d, <<group>>) : mail[1] # e) => Quiet(e)
    <3>1. PICK out : out = Post(d, <<group>>)
      OBVIOUS
    <3>2. Fire(c, {}, nxt, out)
      BY <2>1, <3>1, Zenon
    <3>3. More /\ c \notin LinkPort
      BY <1>1, <2>8, Zenon
    <3>4. \A mail \in out : mail[1] \in LinkPort =>
             mail[2] \in Seq(MessageOf(mail[1], DOMAIN inst'))
      BY <2>12, <3>1, Zenon
    <3>5. /\ WiresOK'
          /\ \A e \in LinkPort :
               /\ OnTheWay(e)' = OnTheWay(e) \o Sent(out, e)
               /\ (\A mail \in out : mail[1] # e) => Quiet(e)
      BY <1>2, <2>13, <3>2, <3>3, <3>4, SendingStep, Zenon
    <3> QED BY <3>1, <3>5, Zenon
  <2>15. \A e \in LinkPort : e # d => Quiet(e)
    BY <2>12, <2>14, Zenon
  <2>16. /\ Instructions(d)' = Instructions(d) \o group
         /\ Len(Instructions(d)) \in Nat
         /\ Len(Instructions(d)') = Len(Instructions(d)) + Len(group)
    <3>2. Sent(Post(d, <<group>>), d) = <<group>>
      BY SentIs
    <3>1. OnTheWay(d)' = OnTheWay(d) \o <<group>>
      BY <2>10, <2>14, <3>2, Zenon
    <3>3. WiresOK /\ More /\ group \in Seq(DOMAIN inst')
      BY <2>1, <2>8, Zenon DEF CreditInv
    <3> QED BY <2>10, <3>1, <3>3, SendsGroup, Zenon
  <2> HIDE DEF c, d
  <2>17. UNCHANGED <<renaming_stage_queue, rob, rob_credit, dispatch_credit, inst_queue>>
    BY Zenon DEF dispatchVars, renamingVars
  <2>18. SameDispatch /\ SameRob
    BY <2>15, <2>17, LinkPortHas, LinkPortsDiffer DEF SameDispatch, SameRob, d
  <2>19. DispatchInv' /\ RobInv'
    BY <2>8, <2>18, DispatchFrame, RobFrame, Zenon DEF CreditInv
  <2>20. StationInv' /\ FuInv'
    <3>1. UNCHANGED backVars
      BY Zenon DEF backVars, dispatchVars, rsVars, fuVars
    <3>2. d \in FrontPort
      BY DEF FrontPort, d
    <3> QED BY <2>8, <2>15, <3>1, <3>2, BackSame, Zenon
  <2>21. FetchInv'
    <3>1. Quiet(backend_fetch_credit_in)
      BY <2>15, LinkPortHas, LinkPortsDiffer DEF d
    <3>2. CreditsOn(backend_fetch_credit_in)' = CreditsOn(backend_fetch_credit_in)
      BY <3>1, QuietPortSame, Zenon
    <3>3. CreditsOn(backend_fetch_credit_in) \in Nat
      BY LinkPortHas, CreditsAreNat, Zenon DEF CreditInv
    <3>4. PICK x \in Seq(DOMAIN inst), y \in Seq(DOMAIN inst), xx \in Seq(DOMAIN inst'),
               yy \in Seq(DOMAIN inst'), g \in Seq(DOMAIN inst') :
            x = renaming_stage_queue /\ y = Instructions(d) /\ g = group /\ xx = x /\ yy = y
      <4>1. renaming_stage_queue \in Seq(DOMAIN inst) /\ Instructions(d) \in Seq(DOMAIN inst)
        BY LineParts, Zenon DEF d
      <4>2. Seq(DOMAIN inst) \subseteq Seq(DOMAIN inst')
        BY <2>8, SeqGrows DEF More
      <4> QED BY <2>1, <4>1, <4>2
    <3>5. /\ Len(xx \o (yy \o g)) = Len(xx \o yy) + Len(g) /\ Len(xx \o yy) \in Nat
      OBVIOUS
    <3>6. Unrenamed' = xx \o (yy \o g) /\ Unrenamed = xx \o yy
      BY <2>16, <2>17, <3>4, Zenon DEF Unrenamed, d
    <3>7. PICK f \in Nat, a \in Nat, l \in Nat :
            f = fetch_credit /\ a = CreditsOn(backend_fetch_credit_in) /\ l = Len(Unrenamed)
      BY <2>4, <3>3, <3>5, <3>6, Zenon
    <3>8. fetch_credit' = f - m /\ Len(Unrenamed') = l + m /\ f + a + l = RenameDepth
      BY <2>1, <2>4, <2>1, <3>4, <3>5, <3>6, <3>7, Zenon DEF FetchLink
    <3>9. (f - m) + a + (l + m) = RenameDepth /\ f - m \in Nat
      <4>1. m <= f
        BY <2>1, <3>7, Zenon
      <4> QED BY <3>8, <4>1
    <3>10. FetchLink' /\ fetch_credit' \in Nat
      BY <3>2, <3>7, <3>8, <3>9, Zenon DEF FetchLink
    <3>11. renaming_stage_queue' \in Seq(DOMAIN inst')
      BY <2>17, <3>4, Zenon
    <3> QED BY <3>10, <3>11, Zenon DEF FetchInv
  <2>22. Increasing(FrontLine)'
    <3>1. FrontLine' = FrontLine \o group
      <4>1. DispatchInsts' = DispatchInsts
        BY <2>17, Zenon DEF DispatchInsts
      <4>2. Instructions(preceding_dispatch_inst_in)' = Instructions(preceding_dispatch_inst_in)
        BY <2>18, QuietPortSame, Zenon DEF SameDispatch
      <4>3. PICK a \in Seq(Nat), b \in Seq(Nat), q \in Seq(Nat), r \in Seq(Nat), g \in Seq(Nat) :
              /\ a = DispatchInsts /\ b = Instructions(preceding_dispatch_inst_in)
              /\ q = renaming_stage_queue /\ r = Instructions(d) /\ g = group
        <5>1. DOMAIN inst \subseteq Nat
          BY <2>1
        <5>2. Seq(DOMAIN inst) \subseteq Seq(Nat)
          BY <5>1, SeqGrows
        <5>3. /\ DispatchInsts \in Seq(Nat) /\ Instructions(preceding_dispatch_inst_in) \in Seq(Nat)
              /\ renaming_stage_queue \in Seq(Nat) /\ Instructions(d) \in Seq(Nat)
          BY <5>2, LineParts, Zenon DEF d
        <5> QED BY <2>1, <5>3
      <4>4. ((a \o b) \o q) \o (r \o g) = (((a \o b) \o q) \o r) \o g
        <5>1. (a \o b) \o q \in Seq(Nat)
          BY ConcatFacts
        <5>2. Associates((a \o b) \o q, r, g)
          BY <5>1, ConcatAssociates, Zenon
        <5> QED BY <5>2, Zenon DEF Associates
      <4> QED BY <2>16, <2>17, <4>1, <4>2, <4>3, <4>4, Zenon DEF FrontLine, d
    <3>2. Increasing(FrontLine)
      BY Zenon DEF CreditInv
    <3>3. FrontLine \in Seq(Nat) /\ \A i \in 1 .. Len(FrontLine) : FrontLine[i] \in 1 .. n
      <4>1. FrontLine \in Seq(1 .. n)
        BY <2>1, LineIsSeq, Zenon
      <4>2. \A s \in Seq(1 .. n) : s \in Seq(Nat) /\ \A i \in 1 .. Len(s) : s[i] \in 1 .. n
        OBVIOUS
      <4> QED BY <4>1, <4>2, Zenon
    <3>4. \A i \in 1 .. Len(group) : group[i] = n + i
      BY <2>1
    <3>5. Increasing(FrontLine \o group)
      BY <2>1, <3>2, <3>3, <3>4, IncreasingMore
    <3> QED BY <3>1, <3>5, Zenon DEF Increasing
  <2> QED BY <2>8, <2>14, <2>19, <2>20, <2>21, <2>22, Zenon DEF CreditInv
<1> QED BY <1>3, <1>4

\* What is sent to two or three ports.
LEMMA SentTwo ==
  ASSUME NEW a, NEW b, a # b, NEW x, NEW y, NEW out,
         <<a, x>> \in out, <<b, y>> \in out,
         \A mail \in out : mail = <<a, x>> \/ mail = <<b, y>>
  PROVE  Sent(out, a) = x /\ Sent(out, b) = y
<1>1. (CHOOSE mail \in out : mail[1] = a) = <<a, x>>
  OBVIOUS
<1>2. (CHOOSE mail \in out : mail[1] = b) = <<b, y>>
  OBVIOUS
<1> QED BY <1>1, <1>2 DEF Sent

\* What a handler sends on each of three different ports.
LEMMA SentThree ==
  ASSUME NEW a, NEW b, NEW c, a # b, a # c, b # c, NEW x, NEW y, NEW z, NEW out,
         <<a, x>> \in out, <<b, y>> \in out, <<c, z>> \in out,
         \A mail \in out : mail = <<a, x>> \/ mail = <<b, y>> \/ mail = <<c, z>>
  PROVE  Sent(out, a) = x /\ Sent(out, b) = y /\ Sent(out, c) = z
<1>1. (CHOOSE mail \in out : mail[1] = a) = <<a, x>>
  OBVIOUS
<1>2. (CHOOSE mail \in out : mail[1] = b) = <<b, y>>
  OBVIOUS
<1>3. (CHOOSE mail \in out : mail[1] = c) = <<c, z>>
  OBVIOUS
<1> QED BY <1>1, <1>2, <1>3 DEF Sent

\* A new value for one instruction that is as foreseen as the old one.
LEMMA ProgramExcept ==
  ASSUME NEW f, NEW n \in Nat, Program(f, n), NEW g, NEW i,
         DOMAIN g = DOMAIN f, g = [j \in DOMAIN g |-> g[j]],
         \A j \in DOMAIN f : j # i => g[j] = f[j],
         i \in DOMAIN f => Foreseen(g[i])
  PROVE  Program(g, n)
<1>1. DOMAIN f = 1 .. n /\ \A j \in 1 .. n : Foreseen(f[j])
  BY ProgramIsSeq, Zenon DEF Program
<1>2. \A j \in 1 .. n : Foreseen(g[j])
  BY <1>1, Zenon
<1> QED BY <1>1, <1>2, Zenon DEF Program

\* A program with the tags of the current one, that waits for the same sources
\* and has the same registers, but for what is still to be renamed.
TaggedAlike(f, n) ==
    /\ Program(f, n)
    /\ \A j \in 1 .. n :
          /\ f[j].RobTag = inst[j].RobTag /\ SameFlags(inst, f, j)
          /\ SameRegs(inst, f, j) \/ \E k \in DOMAIN renaming_stage_queue : renaming_stage_queue[k] = j

\* Renaming an instruction changes its registers, and no other property the
\* invariant needs.
LEMMA RenamingKeeps ==
  ASSUME NEW n \in Nat, NEW s, TaggedAlike(s.inst, n), NEW i,
         \E k \in DOMAIN renaming_stage_queue : renaming_stage_queue[k] = i
  PROVE  TaggedAlike(RenameInstImp_(s, i).inst, n)
<1>1. PICK f, g : f = s.inst /\ g = RenameInstImp_(s, i).inst
  OBVIOUS
<1>2. PICK a, b, c, d :
        g = [f EXCEPT ![i].PhyRs1 = a, ![i].PhyRs2 = b, ![i].LPhyRd = c, ![i].PhyRd = d]
  BY <1>1 DEF RenameInstImp_
<1>3. /\ DOMAIN g = DOMAIN f /\ g = [j \in DOMAIN g |-> g[j]]
      /\ \A j \in DOMAIN f : j # i => g[j] = f[j]
  BY <1>2
<1>4. /\ Program(f, n) /\ DOMAIN f = 1 .. n
      /\ \A j \in 1 .. n :
            /\ f[j].RobTag = inst[j].RobTag /\ SameFlags(inst, f, j)
            /\ SameRegs(inst, f, j) \/ \E k \in DOMAIN renaming_stage_queue : renaming_stage_queue[k] = j
  BY <1>1, ProgramIsSeq, Zenon DEF TaggedAlike
<1>5. ASSUME i \in DOMAIN f
      PROVE  Foreseen(g[i]) /\ g[i].RobTag = f[i].RobTag /\ SameFlags(f, g, i)
  <2>1. g[i] = [f[i] EXCEPT !.PhyRs1 = a, !.PhyRs2 = b, !.LPhyRd = c, !.PhyRd = d]
    BY <1>2, <1>5
  <2>2. Foreseen(f[i])
    BY <1>4, <1>5, Zenon DEF Program
  <2> QED BY <2>1, <2>2 DEF Foreseen, SameFlags
<1>6. Program(g, n)
  <2>1. Program(f, n) /\ (i \in DOMAIN f => Foreseen(g[i]))
    BY <1>4, <1>5, Zenon
  <2> QED BY <1>3, <2>1, ProgramExcept, Zenon
<1>7. ASSUME NEW j \in 1 .. n
      PROVE  /\ g[j].RobTag = inst[j].RobTag /\ SameFlags(inst, g, j)
             /\ SameRegs(inst, g, j) \/ \E k \in DOMAIN renaming_stage_queue : renaming_stage_queue[k] = j
  <2>1. CASE j = i
    BY <1>4, <1>5, <2>1, Zenon DEF SameFlags
  <2>2. CASE j # i
    BY <1>3, <1>4, <2>2, Zenon DEF SameFlags, SameRegs
  <2> QED BY <2>1, <2>2
<1> QED BY <1>1, <1>6, <1>7, Zenon DEF TaggedAlike

\* However many turns the loop takes.
LEMMA RenamingProgram ==
  ASSUME NEW n \in Nat, Program(inst, n), NEW S, renaming_stage_queue \in Seq(S),
         NEW t \in Nat, t <= Len(renaming_stage_queue), NEW progress,
         progress = CHOOSE f : f = [k \in 0 .. t |->
                       IF k = 0 THEN RenamingProgress
                       ELSE RenameInstImp_(f[k - 1], renaming_stage_queue[k])]
  PROVE  \A k \in 0 .. t : TaggedAlike(progress[k].inst, n)
<1> DEFINE Turns(m, u) ==
             u = [k \in 0 .. m |-> IF k = 0 THEN RenamingProgress
                                   ELSE RenameInstImp_(u[k - 1], renaming_stage_queue[k])]
           T == {m \in Nat : \E u : Turns(m, u)}
<1>1. 0 \in T
  <2>1. PICK u : u = [k \in 0 .. 0 |-> RenamingProgress]
    OBVIOUS
  <2>2. Turns(0, u)
    BY <2>1
  <2> QED BY <2>2
<1>2. ASSUME NEW m \in Nat, m \in T PROVE m + 1 \in T
  <2>1. PICK u : Turns(m, u)
    BY <1>2
  <2>2. PICK x : x = RenameInstImp_(u[m], renaming_stage_queue[m + 1])
    OBVIOUS
  <2>3. PICK v : v = [k \in 0 .. m + 1 |-> IF k = m + 1 THEN x ELSE u[k]]
    OBVIOUS
  <2>4. ASSUME NEW k \in 0 .. m + 1
        PROVE  v[k] = IF k = 0 THEN RenamingProgress
                      ELSE RenameInstImp_(v[k - 1], renaming_stage_queue[k])
    <3>1. CASE k = m + 1
      <4>1. v[k] = x /\ v[k - 1] = u[m] /\ k # 0
        BY <2>3, <3>1
      <4> QED BY <2>2, <3>1, <4>1, Zenon
    <3>2. CASE k # m + 1
      <4>1. k \in 0 .. m /\ v[k] = u[k] /\ (k # 0 => v[k - 1] = u[k - 1])
        BY <2>3, <3>2
      <4>2. u[k] = IF k = 0 THEN RenamingProgress
                   ELSE RenameInstImp_(u[k - 1], renaming_stage_queue[k])
        BY <2>1, <4>1, Zenon
      <4> QED BY <4>1, <4>2, Zenon
    <3> QED BY <3>1, <3>2
  <2>5. Turns(m + 1, v)
    BY <2>3, <2>4, Zenon
  <2> QED BY <2>5
<1>3. t \in T
  <2> HIDE DEF T
  <2> QED BY <1>1, <1>2, NatSetInduction
<1>4. Turns(t, progress)
  BY <1>3, Zenon
<1>5. /\ progress[0] = RenamingProgress
      /\ \A k \in 1 .. t : progress[k] = RenameInstImp_(progress[k - 1], renaming_stage_queue[k])
  <2>1. \A k \in 0 .. t : progress[k] = IF k = 0 THEN RenamingProgress
                             ELSE RenameInstImp_(progress[k - 1], renaming_stage_queue[k])
    BY <1>4, Zenon
  <2>2. 0 \in 0 .. t /\ \A k \in 1 .. t : k \in 0 .. t /\ k # 0
    OBVIOUS
  <2> QED BY <2>1, <2>2, Zenon
<1> DEFINE H == {m \in Nat : m <= t => TaggedAlike(progress[m].inst, n)}
<1>6. 0 \in H
  <2>1. progress[0].inst = inst
    BY <1>5 DEF RenamingProgress
  <2>2. TaggedAlike(progress[0].inst, n)
    BY <2>1, Zenon DEF TaggedAlike, SameFlags, SameRegs
  <2> QED BY <2>2
<1>7. ASSUME NEW m \in Nat, m \in H PROVE m + 1 \in H
  <2>1. ASSUME m + 1 <= t PROVE TaggedAlike(progress[m + 1].inst, n)
    <3>1. m + 1 \in 1 .. t /\ (m + 1) - 1 = m /\ TaggedAlike(progress[m].inst, n)
      BY <1>7, <2>1
    <3>2. progress[m + 1] = RenameInstImp_(progress[m], renaming_stage_queue[m + 1])
      BY <1>5, <3>1
    <3>3. m + 1 \in DOMAIN renaming_stage_queue
      BY <2>1
    <3> QED BY <3>1, <3>2, <3>3, RenamingKeeps, Zenon
  <2> QED BY <2>1
<1>8. \A m \in Nat : m \in H
  <2> HIDE DEF H
  <2> QED BY <1>6, <1>7, NatSetInduction
<1> QED BY <1>8

\* The largest of a set of numbers up to n that has 0.
LEMMA MaxIs ==
  ASSUME NEW n \in Nat, NEW S \in SUBSET (0 .. n), 0 \in S
  PROVE  Max(S) \in S /\ Max(S) \in 0 .. n /\ \A y \in S : Max(S) >= y
<1>1. \E x \in S : \A y \in S : x >= y
  BY GreatestOf
<1>2. PICK m : m = Max(S)
  OBVIOUS
<1>3. m \in S /\ \A y \in S : m >= y
  BY <1>1, <1>2, Zenon DEF Max
<1> QED BY <1>2, <1>3

\* The smallest of three numbers exceeds none of them.
LEMMA MinOfThree ==
  ASSUME NEW a \in Nat, NEW b \in Nat, NEW c \in Nat
  PROVE  /\ Min({a, b, c}) \in Nat
         /\ Min({a, b, c}) <= a /\ Min({a, b, c}) <= b /\ Min({a, b, c}) <= c
<1>1. \E x \in {a, b, c} : \A y \in {a, b, c} : x <= y
  OBVIOUS
<1>2. PICK m : m = Min({a, b, c})
  OBVIOUS
<1>3. m \in {a, b, c} /\ \A y \in {a, b, c} : m <= y
  BY <1>1, <1>2, Zenon DEF Min
<1> QED BY <1>2, <1>3

\* What the loop of the renaming stage does to the links: one group leaves the
\* queue, in order, for the reorder buffer and for the dispatch stage.
LEMMA RenameDoes ==
  ASSUME CreditInv, RenameInst_, ~(renaming_stage_queue # << >> /\ IsEmpty(free_list))
  PROVE  \E n \in Nat, m \in Nat :
           /\ Program(inst, n) /\ TaggedAlike(inst', n)
           /\ m <= dispatch_credit /\ m <= rob_credit /\ m <= Len(renaming_stage_queue)
           /\ renaming_stage_queue' = SubSeq(renaming_stage_queue, m + 1, Len(renaming_stage_queue))
           /\ dispatch_credit' = dispatch_credit - m
           /\ rob_credit' = rob_credit - m
           /\ Fire(rename_event, {}, {},
                   IF m = 0 THEN Nothing
                   ELSE Post(backend_fetch_credit_in, <<m>>)
                        \cup Post(preceding_rob_inst_in, <<SubSeq(renaming_stage_queue, 1, m)>>)
                        \cup Post(preceding_dispatch_inst_in, <<SubSeq(renaming_stage_queue, 1, m)>>))
<1>1. PICK n \in Nat : Program(inst, n)
  BY Zenon DEF CreditInv, InstInv
<1>2. /\ dispatch_credit \in Nat /\ rob_credit \in Nat /\ RenameWidth \in Nat
      /\ renaming_stage_queue \in Seq(DOMAIN inst) /\ Len(renaming_stage_queue) \in Nat
  <2>1. RenameWidth \in Nat
    BY SizesAssumption
  <2> QED BY <2>1, UnrenamedIs, Zenon DEF CreditInv, DispatchInv, RobInv, FetchInv
<1> DEFINE turns == Min({Min({dispatch_credit, rob_credit, RenameWidth}), Len(renaming_stage_queue)})
           progress == CHOOSE f : f = [k \in 0 .. turns |->
                          IF k = 0 THEN RenamingProgress
                          ELSE RenameInstImp_(f[k - 1], renaming_stage_queue[k])]
           S == {k \in 0 .. turns : \A j \in 0 .. k - 1 : ~IsEmpty(progress[j].fl)}
           renamed == Max(S)
           group == SubSeq(renaming_stage_queue, 1, renamed)
<1>3. /\ inst' = progress[renamed].inst
      /\ renaming_stage_queue' =
            SubSeq(renaming_stage_queue, renamed + 1, Len(renaming_stage_queue))
      /\ dispatch_credit' = dispatch_credit - renamed
      /\ rob_credit' = rob_credit - renamed
      /\ Fire(rename_event, {}, {},
              IF renamed = 0 THEN Nothing
              ELSE Post(backend_fetch_credit_in, <<renamed>>)
                   \cup Post(preceding_rob_inst_in, <<group>>)
                   \cup Post(preceding_dispatch_inst_in, <<group>>))
  BY Zenon DEF RenameInst_
<1>4. PICK x \in Nat : x = Min({dispatch_credit, rob_credit, RenameWidth})
                       /\ x <= dispatch_credit /\ x <= rob_credit
  BY <1>2, MinOfThree
<1>5. PICK t \in Nat : t = turns /\ t <= x /\ t <= Len(renaming_stage_queue)
  <2>1. /\ Min({x, Len(renaming_stage_queue)}) \in {x, Len(renaming_stage_queue)}
        /\ Min({x, Len(renaming_stage_queue)}) <= x
        /\ Min({x, Len(renaming_stage_queue)}) <= Len(renaming_stage_queue)
    BY <1>2, MinOfTwo
  <2>2. turns = Min({x, Len(renaming_stage_queue)})
    BY <1>4, Zenon
  <2> QED BY <1>2, <1>4, <2>1, <2>2, Zenon
<1>6. \A k \in 0 .. t : TaggedAlike(progress[k].inst, n)
  BY <1>1, <1>2, <1>5, RenamingProgram
<1>7. renamed \in 0 .. t
  <2> HIDE DEF turns, progress
  <2>1. S \in SUBSET (0 .. t) /\ 0 \in S
    BY <1>5
  <2> HIDE DEF S
  <2> QED BY <2>1, MaxIs
<1> HIDE DEF turns, progress, S, renamed
<1>8. renamed \in Nat /\ renamed <= dispatch_credit /\ renamed <= rob_credit
      /\ renamed <= Len(renaming_stage_queue)
  BY <1>2, <1>4, <1>5, <1>7
<1>9. TaggedAlike(inst', n)
  BY <1>3, <1>6, <1>7, Zenon
<1> QED BY <1>1, <1>3, <1>8, <1>9, Zenon

\* A group more on its way to a port, when there is one.
LEMMA GroupIsTyped ==
  ASSUME NEW d \in GroupPort, NEW I, NEW g \in Seq(I)
  PROVE  <<g>> \in Seq(MessageOf(d, I))
<1>1. MessageOf(d, I) = Seq(I)
  BY LinkPortsAre, Zenon DEF MessageOf
<1>2. \A T : \A x \in T : <<x>> \in Seq(T)
  OBVIOUS
<1> QED BY <1>1, <1>2, Zenon

\* A number is a message of a credit wire.
LEMMA CreditIsTyped ==
  ASSUME NEW d \in CreditPort, NEW I, NEW k \in Nat
  PROVE  <<k>> \in Seq(MessageOf(d, I))
<1>1. MessageOf(d, I) = Nat
  BY Zenon DEF MessageOf
<1>2. \A T : \A x \in T : <<x>> \in Seq(T)
  OBVIOUS
<1> QED BY <1>1, <1>2, Zenon

\* What RenameInst_ sends: the credit it frees, and the group to both its
\* consumers.
LEMMA RenameSends ==
  ASSUME CreditInv, More, Ready(rename_event), NEW m \in Nat, NEW g \in Seq(DOMAIN inst'),
         Len(g) = m,
         Fire(rename_event, {}, {},
              IF m = 0 THEN Nothing
              ELSE Post(backend_fetch_credit_in, <<m>>)
                   \cup Post(preceding_rob_inst_in, <<g>>)
                   \cup Post(preceding_dispatch_inst_in, <<g>>))
  PROVE  /\ WiresOK'
         /\ CreditsOn(backend_fetch_credit_in)' = CreditsOn(backend_fetch_credit_in) + m
         /\ Instructions(preceding_rob_inst_in)' = Instructions(preceding_rob_inst_in) \o g
         /\ Instructions(preceding_dispatch_inst_in)' = Instructions(preceding_dispatch_inst_in) \o g
         /\ \A d \in LinkPort :
               d \notin {backend_fetch_credit_in, preceding_rob_inst_in, preceding_dispatch_inst_in}
                  => Quiet(d)
<1> DEFINE c == rename_event
           x == backend_fetch_credit_in
           y == preceding_rob_inst_in
           z == preceding_dispatch_inst_in
<1>1. c \notin LinkPort /\ c \in UniqueEvent
  BY LinkPortsDiffer DEF UniqueEvent
<1>2. Events({}, {})
  BY DEF Events
<1>3. /\ x \in CreditPort /\ y \in GroupPort /\ z \in GroupPort
      /\ x \in LinkPort /\ y \in LinkPort /\ z \in LinkPort
  BY LinkPortHas
<1>4. x # y /\ x # z /\ y # z
  BY <1>3, LinkPortsDiffer, Zenon
<1>5. WiresOK
  BY Zenon DEF CreditInv
<1>8. Ready(c)
  OBVIOUS
<1> HIDE DEF c, x, y, z
<1>6. CASE m = 0
  <2>1. Fire(c, {}, {}, Nothing)
    BY <1>6, Zenon DEF c
  <2>2. \A mail \in Nothing : FALSE
    BY DEF Nothing
  <2>3. WiresOK' /\ \A d \in LinkPort : Quiet(d)
    BY <1>1, <1>2, <2>1, <2>2, SendingStep, Zenon DEF c
  <2>4. g = << >>
    BY <1>6
  <2>5. /\ CreditsOn(x)' = CreditsOn(x) /\ Instructions(y)' = Instructions(y)
        /\ Instructions(z)' = Instructions(z)
    BY <1>3, <2>3, QuietPortSame, Zenon
  <2>6. /\ CreditsOn(x) \in Nat /\ Instructions(y) \in Seq(DOMAIN inst)
        /\ Instructions(z) \in Seq(DOMAIN inst)
    BY <1>3, <1>5, CreditsAreNat, GroupWire, Zenon
  <2>7. PICK k \in Nat, a \in Seq(DOMAIN inst), b \in Seq(DOMAIN inst) :
          k = CreditsOn(x) /\ a = Instructions(y) /\ b = Instructions(z)
    BY <2>6, Zenon
  <2>8. k + 0 = k /\ a \o << >> = a /\ b \o << >> = b
    OBVIOUS
  <2> QED BY <1>6, <2>3, <2>4, <2>5, <2>7, <2>8, Zenon DEF x, y, z
<1>7. CASE m # 0
  <2>1. PICK out : /\ out = Post(x, <<m>>) \cup Post(y, <<g>>) \cup Post(z, <<g>>)
                   /\ Fire(c, {}, {}, out)
    BY <1>7, Zenon DEF c, x, y, z
  <2>2. /\ Sent(out, x) = <<m>> /\ Sent(out, y) = <<g>> /\ Sent(out, z) = <<g>>
        /\ \A d : d \notin {x, y, z} => \A mail \in out : mail[1] # d
        /\ \A mail \in out : mail \in {<<x, <<m>> >>, <<y, <<g>> >>, <<z, <<g>> >>}
    <3>1. PICK mm, gg : mm = <<m>> /\ gg = <<g>>
      OBVIOUS
    <3>2. /\ <<x, mm>> \in out /\ <<y, gg>> \in out /\ <<z, gg>> \in out
          /\ \A mail \in out : mail = <<x, mm>> \/ mail = <<y, gg>> \/ mail = <<z, gg>>
      BY <2>1, <3>1 DEF Post
    <3>3. Sent(out, x) = mm /\ Sent(out, y) = gg /\ Sent(out, z) = gg
      BY <1>4, <3>2, SentThree
    <3>4. /\ \A d : d \notin {x, y, z} => \A mail \in out : mail[1] # d
          /\ \A mail \in out : mail \in {<<x, mm>>, <<y, gg>>, <<z, gg>>}
      BY <3>2
    <3> QED BY <3>1, <3>3, <3>4, Zenon
  <2>3. ASSUME NEW mail \in out PROVE mail[2] \in Seq(MessageOf(mail[1], DOMAIN inst'))
    <3>1. /\ <<m>> \in Seq(MessageOf(x, DOMAIN inst'))
          /\ <<g>> \in Seq(MessageOf(y, DOMAIN inst')) /\ <<g>> \in Seq(MessageOf(z, DOMAIN inst'))
      BY <1>3, GroupIsTyped, CreditIsTyped
    <3>2. \/ mail[1] = x /\ mail[2] = <<m>>
          \/ mail[1] = y /\ mail[2] = <<g>>
          \/ mail[1] = z /\ mail[2] = <<g>>
      BY <2>2
    <3> QED BY <3>1, <3>2, Zenon
  <2>4. /\ WiresOK'
        /\ \A d \in LinkPort :
             /\ OnTheWay(d)' = OnTheWay(d) \o Sent(out, d)
             /\ (\A mail \in out : mail[1] # d) => Quiet(d)
    <3>1. \A mail \in out : mail[1] \in LinkPort => mail[2] \in Seq(MessageOf(mail[1], DOMAIN inst'))
      BY <2>3, Zenon
    <3>2. Fire(c, {}, {}, out)
      BY <2>1, Zenon
    <3> QED BY <1>1, <1>2, <1>8, <3>1, <3>2, SendingStep
  <2>5. CreditsOn(x)' = CreditsOn(x) + m
    BY <1>3, <1>5, <2>2, <2>4, SendsCredit, Zenon
  <2>6. Instructions(y)' = Instructions(y) \o g
    BY <1>3, <1>5, <2>2, <2>4, SendsGroup, Zenon
  <2>7. Instructions(z)' = Instructions(z) \o g
    BY <1>3, <1>5, <2>2, <2>4, SendsGroup, Zenon
  <2> QED BY <2>2, <2>4, <2>5, <2>6, <2>7, Zenon DEF x, y, z
<1> QED BY <1>6, <1>7

\* The renaming stage renames as many instructions as both its credits allow.
LEMMA RenameStep ==
  ASSUME CreditInv, RenameInst_, UNCHANGED <<fetch_credit, rob, dispatchVars, rsVars, fuVars>>
  PROVE  CreditInv'
<1>1. Ready(rename_event)
  BY Zenon DEF RenameInst_
<1>2. CASE renaming_stage_queue # << >> /\ IsEmpty(free_list)
  <2>1. Fire(rename_event, {}, {rename_event}, Nothing) /\ UNCHANGED <<inst, renamingVars>>
    BY <1>2, Zenon DEF RenameInst_
  <2>2. UNCHANGED linkVars
    BY <2>1, Zenon DEF linkVars, renamingVars, dispatchVars, rsVars, fuVars
  <2>3. /\ Events({}, {rename_event}) /\ rename_event \notin LinkPort
        /\ \A mail \in Nothing : mail[1] \notin LinkPort
    BY LinkPortsDiffer DEF Events, Nothing, UniqueEvent
  <2> QED BY <1>1, <2>1, <2>2, <2>3, ElsewhereStep, Zenon
<1>3. CASE ~(renaming_stage_queue # << >> /\ IsEmpty(free_list))
  <2>1. PICK n \in Nat, m \in Nat :
           /\ Program(inst, n) /\ Program(inst', n)
           /\ m <= dispatch_credit /\ m <= rob_credit /\ m <= Len(renaming_stage_queue)
           /\ renaming_stage_queue' = SubSeq(renaming_stage_queue, m + 1, Len(renaming_stage_queue))
           /\ dispatch_credit' = dispatch_credit - m
           /\ rob_credit' = rob_credit - m
           /\ Fire(rename_event, {}, {},
                   IF m = 0 THEN Nothing
                   ELSE Post(backend_fetch_credit_in, <<m>>)
                        \cup Post(preceding_rob_inst_in, <<SubSeq(renaming_stage_queue, 1, m)>>)
                        \cup Post(preceding_dispatch_inst_in, <<SubSeq(renaming_stage_queue, 1, m)>>))
    BY <1>3, RenameDoes, Zenon DEF TaggedAlike
  <2>2. PICK I : I = DOMAIN inst /\ I = DOMAIN inst' /\ I \subseteq Nat
    <3>1. DOMAIN inst = 1 .. n /\ DOMAIN inst' = 1 .. n /\ 1 .. n \subseteq Nat
      BY <2>1, ProgramIsSeq
    <3> QED BY <3>1
  <2>3. InstInv' /\ More
    BY <2>1, <2>2, Zenon DEF InstInv, More
  <2>4. renaming_stage_queue \in Seq(I)
    BY <2>2, LineParts, Zenon
  <2>5. PICK g \in Seq(I), q \in Seq(I) :
          /\ g = SubSeq(renaming_stage_queue, 1, m)
          /\ q = SubSeq(renaming_stage_queue, m + 1, Len(renaming_stage_queue))
          /\ Len(g) = m /\ Len(q) = Len(renaming_stage_queue) - m
          /\ renaming_stage_queue = g \o q
    <3>1. PICK s \in Seq(I) : s = renaming_stage_queue /\ m <= Len(s)
      BY <2>1, <2>4, Zenon
    <3>2. /\ SubSeq(s, 1, m) \in Seq(I) /\ SubSeq(s, m + 1, Len(s)) \in Seq(I)
          /\ Len(SubSeq(s, 1, m)) = m /\ Len(SubSeq(s, m + 1, Len(s))) = Len(s) - m
          /\ s = SubSeq(s, 1, m) \o SubSeq(s, m + 1, Len(s))
      BY <3>1, SplitIs, Zenon DEF Splits
    <3> QED BY <3>1, <3>2, Zenon
  <2>6. /\ WiresOK'
        /\ CreditsOn(backend_fetch_credit_in)' = CreditsOn(backend_fetch_credit_in) + m
        /\ Instructions(preceding_rob_inst_in)' = Instructions(preceding_rob_inst_in) \o g
        /\ Instructions(preceding_dispatch_inst_in)' = Instructions(preceding_dispatch_inst_in) \o g
        /\ \A d \in LinkPort :
              d \notin {backend_fetch_credit_in, preceding_rob_inst_in, preceding_dispatch_inst_in}
                 => Quiet(d)
    <3>1. g \in Seq(DOMAIN inst')
      BY <2>2
    <3>2. Fire(rename_event, {}, {},
               IF m = 0 THEN Nothing
               ELSE Post(backend_fetch_credit_in, <<m>>)
                    \cup Post(preceding_rob_inst_in, <<g>>)
                    \cup Post(preceding_dispatch_inst_in, <<g>>))
      BY <2>1, <2>5, Zenon
    <3> QED BY <1>1, <2>3, <2>5, <3>1, <3>2, RenameSends, Zenon
  <2>7. /\ Quiet(preceding_renaming_inst_in) /\ Quiet(rob_renaming_credit_in)
        /\ Quiet(following_renaming_credit_in)
    BY <2>6, LinkPortHas, LinkPortsDiffer
  <2>8. /\ Instructions(preceding_renaming_inst_in)' = Instructions(preceding_renaming_inst_in)
        /\ CreditsOn(rob_renaming_credit_in)' = CreditsOn(rob_renaming_credit_in)
        /\ CreditsOn(following_renaming_credit_in)' = CreditsOn(following_renaming_credit_in)
    BY <2>7, QuietPortSame, Zenon
  <2>9. /\ CreditsOn(backend_fetch_credit_in) \in Nat /\ CreditsOn(rob_renaming_credit_in) \in Nat
        /\ CreditsOn(following_renaming_credit_in) \in Nat
    BY LinkPortHas, CreditsAreNat, Zenon DEF CreditInv
  <2>10. PICK y \in Seq(I), z \in Seq(I), r \in Seq(I) :
           /\ y = Instructions(preceding_rob_inst_in) /\ z = Instructions(preceding_dispatch_inst_in)
           /\ r = Instructions(preceding_renaming_inst_in)
    BY <2>2, GroupWire, LinkPortHas, Zenon DEF CreditInv
  <2>11. /\ Len(y \o g) = Len(y) + Len(g) /\ Len(z \o g) = Len(z) + Len(g)
         /\ Len(y) \in Nat /\ Len(z) \in Nat /\ Len(q \o r) \in Nat
         /\ Len((g \o q) \o r) = Len(g) + Len(q \o r)
    OBVIOUS
  <2>12. UNCHANGED <<fetch_credit, rob, inst_queue>>
    BY Zenon DEF dispatchVars
  <2>13. FetchInv'
    <3>1. fetch_credit \in Nat /\ FetchLink
      BY Zenon DEF CreditInv, FetchInv
    <3>2. Unrenamed = (g \o q) \o r /\ Unrenamed' = q \o r
      BY <2>1, <2>5, <2>8, <2>10, Zenon DEF Unrenamed
    <3>3. PICK f \in Nat, a \in Nat, l \in Nat :
            f = fetch_credit /\ a = CreditsOn(backend_fetch_credit_in) /\ l = Len(q \o r)
      BY <2>9, <2>11, <3>1, Zenon
    <3>4. f + a + (m + l) = RenameDepth
      BY <2>5, <2>11, <3>1, <3>2, <3>3, Zenon DEF FetchLink
    <3>5. f + (a + m) + l = RenameDepth
      BY <3>4
    <3>6. FetchLink'
      BY <2>6, <2>12, <3>2, <3>3, <3>5, Zenon DEF FetchLink
    <3>7. renaming_stage_queue' \in Seq(DOMAIN inst')
      BY <2>1, <2>2, <2>5, Zenon
    <3>8. fetch_credit' \in Nat
      BY <2>12, <3>1, Zenon
    <3> QED BY <3>6, <3>7, <3>8, Zenon DEF FetchInv
  <2>14. RobInv'
    <3>1. /\ rob_credit \in Nat /\ RobRing!Ring(rob) /\ RobHolds(DOMAIN inst) /\ RobLink
      BY Zenon DEF CreditInv, RobInv
    <3>2. rob' = rob
      BY <2>12, Zenon
    <3>3. /\ RobRing!Ring(rob)' /\ RobHolds(DOMAIN inst)' /\ RobQueue!size(rob)' = RobQueue!size(rob)
      BY <2>3, <3>1, <3>2, RobSame, Zenon
    <3>4. RobQueue!size(rob) \in Nat
      BY <3>1, RobCount, Zenon
    <3>5. PICK f \in Nat, a \in Nat, l \in Nat, u \in Nat :
            /\ f = rob_credit /\ a = CreditsOn(rob_renaming_credit_in)
            /\ l = Len(y) /\ u = RobQueue!size(rob)
      BY <2>9, <2>11, <3>1, <3>4, Zenon
    <3>6. f + a + l + u = RobDepth /\ m <= f
      BY <2>1, <2>10, <3>1, <3>5, Zenon DEF RobLink
    <3>7. (f - m) + a + (l + m) + u = RobDepth /\ f - m \in Nat
      BY <3>6
    <3>8. Len(Instructions(preceding_rob_inst_in))' = l + m
      BY <2>5, <2>6, <2>10, <2>11, <3>5, Zenon
    <3>9. RobLink' /\ rob_credit' \in Nat
      BY <2>1, <2>8, <3>3, <3>5, <3>7, <3>8, Zenon DEF RobLink
    <3> QED BY <3>3, <3>9, Zenon DEF RobInv
  <2>15. DispatchInv'
    <3>1. dispatch_credit \in Nat /\ inst_queue \in Seq(DispatchEntry(DOMAIN inst)) /\ DispatchLink
      BY Zenon DEF CreditInv, DispatchInv
    <3>2. inst_queue' \in Seq(DispatchEntry(DOMAIN inst'))
      BY <2>2, <2>12, <3>1, Zenon
    <3>3. Len(Unissued(inst_queue)) \in Nat
      BY <3>1, DispatchUnissued, Zenon
    <3>4. Unissued(inst_queue)' = Unissued(inst_queue)
      BY <2>12, Zenon DEF Unissued, PickAt
    <3>5. PICK f \in Nat, a \in Nat, l \in Nat, u \in Nat :
            /\ f = dispatch_credit /\ a = CreditsOn(following_renaming_credit_in)
            /\ l = Len(z) /\ u = Len(Unissued(inst_queue))
      BY <2>9, <2>11, <3>1, <3>3, Zenon
    <3>6. f + a + l + u = DispatchDepth /\ m <= f
      BY <2>1, <2>10, <3>1, <3>5, Zenon DEF DispatchLink
    <3>7. (f - m) + a + (l + m) + u = DispatchDepth /\ f - m \in Nat
      BY <3>6
    <3>8. Len(Instructions(preceding_dispatch_inst_in))' = l + m
      BY <2>5, <2>6, <2>10, <2>11, <3>5, Zenon
    <3>9. DispatchLink' /\ dispatch_credit' \in Nat
      BY <2>1, <2>8, <3>4, <3>5, <3>7, <3>8, Zenon DEF DispatchLink
    <3> QED BY <3>2, <3>9, Zenon DEF DispatchInv, DispatchEntry
  <2>16. StationInv' /\ FuInv'
    <3>1. UNCHANGED backVars
      BY Zenon DEF backVars, dispatchVars, rsVars, fuVars
    <3>2. \A d \in LinkPort : d \notin FrontPort => Quiet(d)
      BY <2>6 DEF FrontPort
    <3> QED BY <2>3, <3>1, <3>2, BackSame, Zenon
  <2>17. Increasing(FrontLine)'
    <3>1. PICK a \in Seq(I) : a = DispatchInsts
      BY <2>2, LineParts, Zenon
    <3>2. ((a \o (z \o g)) \o q) \o r = ((a \o z) \o (g \o q)) \o r
      OBVIOUS
    <3>3. DispatchInsts' = DispatchInsts
      BY <2>12, Zenon DEF DispatchInsts
    <3>4. FrontLine' = FrontLine
      BY <2>1, <2>5, <2>6, <2>8, <2>10, <3>1, <3>2, <3>3, Zenon DEF FrontLine
    <3> QED BY <3>4, Zenon DEF Increasing, CreditInv
  <2> QED BY <2>3, <2>6, <2>13, <2>14, <2>15, <2>16, <2>17, Zenon DEF CreditInv
<1> QED BY <1>2, <1>3

\* The ports that carry what the links do not.
LEMMA OtherPorts ==
  /\ Rob_cmt_inst_in \notin LinkPort /\ write_back_dispatch_port_in \notin LinkPort
  /\ write_back_rob_finish_in \notin LinkPort /\ preceding_write_back_inst_in \notin LinkPort
  /\ rob_flush_manager_in \notin LinkPort
  /\ \A p \in Pipe : forwarding_reservation_inst_in(p) \notin LinkPort
BY DEF LinkPort, CreditPort, GroupPort, Rob_cmt_inst_in, write_back_dispatch_port_in,
   write_back_rob_finish_in, preceding_write_back_inst_in, rob_flush_manager_in,
   forwarding_reservation_inst_in, backend_fetch_credit_in, following_renaming_credit_in,
   rob_renaming_credit_in, rs_dispatch_credit_in, following_reservation_credit_in,
   preceding_renaming_inst_in, preceding_rob_inst_in, preceding_dispatch_inst_in,
   preceding_reservation_inst_in, preceding_func_inst_in

\* A handler outside the links only tells others of them.
LEMMA RobCommitStep ==
  ASSUME CreditInv, RobCommit_, UNCHANGED <<fetch_credit, rob, dispatchVars, rsVars, fuVars>>
  PROVE  CreditInv'
<1>1. PICK next : /\ next \in {{rename_event}, {}} /\ Ready(Rob_cmt_inst_in)
                  /\ Fire(Rob_cmt_inst_in, {}, next, Nothing)
                  /\ UNCHANGED <<inst, renaming_stage_queue, dispatch_credit, rob_credit>>
  BY DEF RobCommit_
<1>2. Events({}, next) /\ \A mail \in Nothing : mail[1] \notin LinkPort
  BY <1>1 DEF Events, Nothing, UniqueEvent
<1>3. Rob_cmt_inst_in \notin LinkPort
  BY OtherPorts
<1>4. UNCHANGED inst /\ UNCHANGED linkVars
  BY <1>1, Zenon DEF linkVars, dispatchVars, rsVars, fuVars
<1> QED BY <1>1, <1>2, <1>3, <1>4, ElsewhereStep

\* The dispatch stage hears that an instruction wrote its result back.
LEMMA FuncUnitBackStep ==
  ASSUME CreditInv, FuncUnitBack_, UNCHANGED <<fetch_credit, renamingVars, rob, rsVars, fuVars>>
  PROVE  CreditInv'
<1>1. /\ Ready(write_back_dispatch_port_in)
      /\ Fire(write_back_dispatch_port_in, {}, {}, Nothing)
      /\ UNCHANGED <<inst, inst_queue, credit_map, dispatch_pending_queue>>
  BY Zenon DEF FuncUnitBack_
<1>2. Events({}, {}) /\ \A mail \in Nothing : mail[1] \notin LinkPort
  BY DEF Events, Nothing
<1>3. write_back_dispatch_port_in \notin LinkPort
  BY OtherPorts
<1>4. UNCHANGED inst /\ UNCHANGED linkVars
  BY <1>1, Zenon DEF linkVars, renamingVars, rsVars, fuVars
<1> QED BY <1>1, <1>2, <1>3, <1>4, ElsewhereStep

\* The write-back stage takes the instructions of the function units.
LEMMA AcceptFuncInstStep ==
  ASSUME CreditInv, AcceptFuncInst_,
         UNCHANGED <<fetch_credit, renamingVars, rob, dispatchVars, rsVars>>
  PROVE  CreditInv'
<1>1. /\ Ready(preceding_write_back_inst_in)
      /\ Fire(preceding_write_back_inst_in, {arbitrate_inst_event}, {}, Nothing)
      /\ UNCHANGED <<inst, alu_queue>>
  BY Zenon DEF AcceptFuncInst_
<1>2. Events({arbitrate_inst_event}, {}) /\ \A mail \in Nothing : mail[1] \notin LinkPort
  BY DEF Events, Nothing, UniqueEvent
<1>3. preceding_write_back_inst_in \notin LinkPort
  BY OtherPorts
<1>4. UNCHANGED inst /\ UNCHANGED linkVars
  BY <1>1, Zenon DEF linkVars, renamingVars, dispatchVars, rsVars
<1> QED BY <1>1, <1>2, <1>3, <1>4, ElsewhereStep

\* The write-back stage broadcasts what it has.
LEMMA ArbitrateStep ==
  ASSUME CreditInv, ArbitrateInst_,
         UNCHANGED <<fetch_credit, renamingVars, rob, dispatchVars, rsVars>>
  PROVE  CreditInv'
<1> DEFINE heard == {write_back_rob_finish_in, write_back_dispatch_port_in}
                       \cup {forwarding_reservation_inst_in(p) : p \in Pipe}
<1>1. PICK next, out, group :
        /\ Ready(arbitrate_inst_event) /\ next \in {{arbitrate_inst_event}, {}}
        /\ out \in {Nothing, heard \X {<<group>>}}
        /\ Fire(arbitrate_inst_event, {}, next, out)
        /\ UNCHANGED <<inst, alu_queue>>
  BY Zenon DEF ArbitrateInst_
<1>2. \A d \in heard : d \notin LinkPort
  BY OtherPorts
<1>3. Events({}, next) /\ \A mail \in out : mail[1] \notin LinkPort
  <2>1. \A mail \in out : mail[1] \in heard
    <3> HIDE DEF heard
    <3> QED BY <1>1 DEF Nothing
  <2> QED BY <1>1, <1>2, <2>1 DEF Events, UniqueEvent
<1>4. arbitrate_inst_event \notin LinkPort
  BY LinkPortsDiffer DEF UniqueEvent
<1>5. UNCHANGED inst /\ UNCHANGED linkVars
  BY <1>1, Zenon DEF linkVars, renamingVars, dispatchVars, rsVars
<1> HIDE DEF heard
<1> QED BY <1>1, <1>3, <1>4, <1>5, ElsewhereStep

\* The quantities of a station's link and of a unit's.
LEMMA StationNumbers ==
  ASSUME CreditInv, NEW p \in Pipe
  PROVE  /\ credit_map[p] \in Nat /\ Len(dispatch_pending_queue[p]) \in Nat
         /\ Len(Instructions(preceding_reservation_inst_in(p))) \in Nat
         /\ Len(Unissued(reservation_station[p])) \in Nat
         /\ dispatch_pending_queue[p] \in Seq(DOMAIN inst)
         /\ reservation_station[p] \in Seq(StationEntry(DOMAIN inst))
<1>1. credit_map[p] \in Nat /\ dispatch_pending_queue[p] \in Seq(DOMAIN inst)
  BY DEF CreditInv, StationInv
<1>2. reservation_station[p] \in Seq(StationEntry(DOMAIN inst))
  BY DEF CreditInv, StationInv
<1>3. Len(dispatch_pending_queue[p]) \in Nat
  BY <1>1
<1>4. Len(Unissued(reservation_station[p])) \in Nat
  BY <1>2, StationUnissued, Zenon
<1>5. Len(Instructions(preceding_reservation_inst_in(p))) \in Nat
  BY GroupWire, LinkPortHas, Zenon DEF CreditInv
<1> QED BY <1>1, <1>2, <1>3, <1>4, <1>5

\* The parts of a function unit's sum are natural numbers.
LEMMA FuNumbers ==
  ASSUME CreditInv, NEW p \in Pipe
  PROVE  /\ rs_credit[p] \in Nat /\ alu_queue[p] \in Seq(DOMAIN inst) /\ Len(alu_queue[p]) \in Nat
         /\ CreditsOn(following_reservation_credit_in(p)) \in Nat
         /\ Len(Instructions(preceding_func_inst_in(p))) \in Nat
<1>1. rs_credit[p] \in Nat /\ alu_queue[p] \in Seq(DOMAIN inst)
  BY DEF CreditInv, FuInv
<1>2. Len(alu_queue[p]) \in Nat
  BY <1>1
<1>3. /\ CreditsOn(following_reservation_credit_in(p)) \in Nat
      /\ Len(Instructions(preceding_func_inst_in(p))) \in Nat
  BY GroupWire, CreditsAreNat, LinkPortHas, Zenon DEF CreditInv
<1> QED BY <1>1, <1>2, <1>3

\* The dispatch stage takes a station's credits.
LEMMA DispatchAcceptCreditStep ==
  ASSUME CreditInv, DispatchAcceptCredit_,
         UNCHANGED <<fetch_credit, renamingVars, rob, rsVars, fuVars>>
  PROVE  CreditInv'
<1> DEFINE c == rs_dispatch_credit_in
<1>1. /\ Ready(c) /\ Fire(c, {}, {}, Nothing)
      /\ credit_map' = [credit_map EXCEPT ![Message(c).name] = @ + Message(c).credit]
      /\ inst' = inst /\ UNCHANGED <<inst_queue, dispatch_pending_queue>>
  BY DEF DispatchAcceptCredit_
<1>2. Events({}, {})
  BY DEF Events
<1>3. c \in LinkPort /\ c \notin FrontPort
  BY LinkPortHas, FrontPortsAre
<1>4. InstInv' /\ More
  BY <1>1, InstSame, Zenon DEF CreditInv
<1>5. /\ WiresOK' /\ \A d \in LinkPort : d # c => Quiet(d)
      /\ OnTheWay(c) # << >> /\ Message(c) = Head(OnTheWay(c))
      /\ OnTheWay(c)' = Tail(OnTheWay(c)) \o << >>
  BY <1>1, <1>2, <1>3, <1>4, TakingStep
<1>6. UNCHANGED <<fetch_credit, renaming_stage_queue, rob_credit, rob, dispatch_credit,
                  inst_queue, dispatch_pending_queue, reservation_station, rs_credit, alu_queue>>
  BY <1>1, Zenon DEF renamingVars, rsVars, fuVars
<1>7. FetchInv' /\ RobInv' /\ DispatchInv' /\ Increasing(FrontLine)'
  <2>1. UNCHANGED frontVars
    BY <1>6, Zenon DEF frontVars
  <2>2. \A d \in FrontPort : Quiet(d)
    BY <1>3, <1>5, FrontPortsAre, Zenon
  <2> QED BY <1>4, <2>1, <2>2, FrontSame, Zenon
<1>8. FuInv'
  <2>1. \A p \in Pipe : Quiet(following_reservation_credit_in(p)) /\ Quiet(preceding_func_inst_in(p))
    BY <1>5, LinkPortHas, LinkPortsDiffer, Zenon
  <2> QED BY <1>4, <1>6, <2>1, FusFrame, Zenon DEF CreditInv
<1>9. PICK h \in StationCredit : h = Message(c) /\ h = Head(OnTheWay(c))
  <2>1. 1 \in Pipe
    BY PipeNumAssumption DEF Pipe
  <2> QED BY <1>5, <2>1, TakesPair, Zenon DEF CreditInv
<1>10. \A p \in Pipe : StationCredits(p)' \in Nat
           /\ StationCredits(p) = (IF h.name = p THEN h.credit ELSE 0) + StationCredits(p)'
  BY <1>5, <1>9, TakesPair, Zenon DEF CreditInv
<1> HIDE DEF c
<1>11. /\ credit_map' \in [Pipe -> Nat]
       /\ \A p \in Pipe : credit_map'[p] = credit_map[p] + (IF h.name = p THEN h.credit ELSE 0)
  <2>1. credit_map \in [Pipe -> Nat]
    BY Zenon DEF CreditInv, StationInv
  <2>2. h.name \in Pipe /\ h.credit \in Nat
    BY DEF StationCredit
  <2>3. credit_map' = [credit_map EXCEPT ![h.name] = credit_map[h.name] + h.credit]
    BY <1>1, <1>9, Zenon
  <2> QED BY <2>1, <2>2, <2>3
<1>12. ASSUME NEW p \in Pipe PROVE StationLink(p)'
  <2>1. Quiet(preceding_reservation_inst_in(p))
    BY <1>5, LinkPortHas, LinkPortsDiffer, Zenon DEF c
  <2>2. /\ Instructions(preceding_reservation_inst_in(p))' = Instructions(preceding_reservation_inst_in(p))
        /\ Unissued(reservation_station[p])' = Unissued(reservation_station[p])
        /\ dispatch_pending_queue'[p] = dispatch_pending_queue[p]
    BY <1>6, <2>1, QuietPortSame, Zenon DEF Unissued, PickAt
  <2>3. StationLink(p) /\ h.credit \in Nat
    BY DEF CreditInv, StationInv, StationCredit
  <2>4. PICK x \in Nat, a \in Nat, b \in Nat, l \in Nat, i \in Nat, u \in Nat :
          /\ x = IF h.name = p THEN h.credit ELSE 0
          /\ a = credit_map[p] /\ b = StationCredits(p)' /\ l = Len(dispatch_pending_queue[p])
          /\ i = Len(Instructions(preceding_reservation_inst_in(p)))
          /\ u = Len(Unissued(reservation_station[p]))
    <3>1. (IF h.name = p THEN h.credit ELSE 0) \in Nat
      BY <2>3
    <3> QED BY <1>10, <3>1, StationNumbers, Zenon
  <2>5. a + (x + b) + l + i + u = RsDepth
    BY <1>10, <2>3, <2>4, Zenon DEF StationLink
  <2>6. (a + x) + b + l + i + u = RsDepth
    BY <2>5
  <2> QED BY <1>11, <2>2, <2>4, <2>6, Zenon DEF StationLink
<1>13. StationInv'
  <2>1. dispatch_pending_queue' \in [Pipe -> Seq(DOMAIN inst')]
    BY <1>1, <1>6, Zenon DEF CreditInv, StationInv
  <2>2. reservation_station' \in [Pipe -> Seq(StationEntry(DOMAIN inst'))]
    BY <1>1, <1>6, Zenon DEF CreditInv, StationInv
  <2> QED BY <1>11, <1>12, <2>1, <2>2, Zenon DEF StationInv, StationEntry, Pipe
<1> QED BY <1>4, <1>5, <1>7, <1>8, <1>13, Zenon DEF CreditInv

\* Only the links of one pipe change.
LEMMA OneStation ==
  ASSUME CreditInv, NEW p \in Pipe, More, UNCHANGED <<credit_map, dispatch_pending_queue>>,
         reservation_station' \in [Pipe -> Seq(StationEntry(DOMAIN inst'))],
         \A q \in Pipe : q # p => SameStation(q) /\ StationCredits(q)' = StationCredits(q),
         StationLink(p)'
  PROVE  StationInv'
<1>1. \A q \in Pipe : StationLink(q)'
  BY StationFrame, Zenon DEF CreditInv, StationInv
<1>2. Seq(DOMAIN inst) \subseteq Seq(DOMAIN inst')
  BY SeqGrows DEF More
<1>3. dispatch_pending_queue' \in [Pipe -> Seq(DOMAIN inst')]
  BY <1>2 DEF CreditInv, StationInv
<1>4. credit_map' \in [Pipe -> Nat]
  BY DEF CreditInv, StationInv
<1> QED BY <1>1, <1>3, <1>4, Zenon DEF StationInv, StationEntry, Pipe

\* A step of one function unit keeps the sums of the others.
LEMMA OneFu ==
  ASSUME CreditInv, NEW p \in Pipe, rs_credit' \in [Pipe -> Nat],
         alu_queue' \in [Pipe -> Seq(DOMAIN inst')],
         \A q \in Pipe : q # p => SameFu(q), FuLink(p)'
  PROVE  FuInv'
<1>1. \A q \in Pipe : FuLink(q)'
  BY FuFrame, Zenon DEF CreditInv, FuInv
<1> QED BY <1>1, Zenon DEF FuInv, Pipe

\* A station takes its function unit's credits.
LEMMA RsAcceptCreditStep ==
  ASSUME CreditInv, NEW p \in Pipe, RsAcceptCredit_(p),
         UNCHANGED <<fetch_credit, renamingVars, rob, dispatchVars, fuVars>>
  PROVE  CreditInv'
<1> DEFINE c == following_reservation_credit_in(p)
<1>1. /\ Ready(c) /\ Fire(c, {passing_event(p)}, {}, Nothing)
      /\ rs_credit' = [rs_credit EXCEPT ![p] = rs_credit[p] + Message(c)]
      /\ inst' = inst /\ reservation_station' = reservation_station
  BY DEF RsAcceptCredit_
<1>2. Events({passing_event(p)}, {})
  BY DEF Events, UniqueEvent
<1>3. c \in LinkPort /\ c \in CreditPort /\ c \notin FrontPort
  BY LinkPortHas, FrontPortsAre
<1>4. InstInv' /\ More
  BY <1>1, InstSame, Zenon DEF CreditInv
<1>5. /\ WiresOK' /\ \A d \in LinkPort : d # c => Quiet(d)
      /\ OnTheWay(c) # << >> /\ Message(c) = Head(OnTheWay(c))
      /\ OnTheWay(c)' = Tail(OnTheWay(c)) \o << >>
  BY <1>1, <1>2, <1>3, <1>4, TakingStep
<1>6. UNCHANGED <<fetch_credit, renaming_stage_queue, rob_credit, rob, dispatch_credit, inst_queue,
                  credit_map, dispatch_pending_queue, reservation_station, alu_queue>>
  BY <1>1, Zenon DEF renamingVars, dispatchVars, fuVars
<1>7. FetchInv' /\ RobInv' /\ DispatchInv' /\ Increasing(FrontLine)'
  <2>1. UNCHANGED frontVars
    BY <1>6, Zenon DEF frontVars
  <2>2. \A d \in FrontPort : Quiet(d)
    BY <1>3, <1>5, FrontPortsAre, Zenon
  <2> QED BY <1>4, <2>1, <2>2, FrontSame, Zenon
<1>8. StationInv'
  <2>1. Quiet(rs_dispatch_credit_in) /\ \A q \in Pipe : Quiet(preceding_reservation_inst_in(q))
    BY <1>3, <1>5, LinkPortHas, LinkPortsDiffer, Zenon
  <2> QED BY <1>4, <1>6, <2>1, StationsFrame, Zenon DEF CreditInv
<1>9. /\ Message(c) \in Nat /\ CreditsOn(c) \in Nat /\ CreditsOn(c)' \in Nat
      /\ CreditsOn(c) = Message(c) + CreditsOn(c)'
  BY <1>3, <1>5, TakesCredit, Zenon DEF CreditInv
<1> HIDE DEF c
<1>10. /\ rs_credit' \in [Pipe -> Nat] /\ rs_credit'[p] = rs_credit[p] + Message(c)
       /\ \A q \in Pipe : q # p => rs_credit'[q] = rs_credit[q]
  <2>1. rs_credit \in [Pipe -> Nat]
    BY Zenon DEF CreditInv, FuInv
  <2> QED BY <1>1, <1>9, <2>1
<1>11. \A q \in Pipe : Quiet(preceding_func_inst_in(q))
  BY <1>3, <1>5, LinkPortHas, LinkPortsDiffer, Zenon DEF c
<1>12. ASSUME NEW q \in Pipe, q # p PROVE SameFu(q)
  <2>1. Quiet(following_reservation_credit_in(q))
    BY <1>5, <1>12, LinkPortHas, LinkPortsDiffer, Zenon DEF c
  <2> QED BY <1>6, <1>10, <1>11, <1>12, <2>1, Zenon DEF SameFu
<1>13. FuLink(p)'
  <2>1. PICK x \in Nat, m \in Nat, a \in Nat, b \in Nat, i \in Nat, u \in Nat :
          /\ x = rs_credit[p] /\ m = Message(c) /\ a = CreditsOn(c) /\ b = CreditsOn(c)'
          /\ i = Len(Instructions(preceding_func_inst_in(p))) /\ u = Len(alu_queue[p])
    BY <1>9, FuNumbers, Zenon
  <2>2. x + a + i + u = FuDepth /\ a = m + b
    BY <1>9, <2>1, Zenon DEF CreditInv, FuInv, FuLink, c
  <2>3. (x + m) + b + i + u = FuDepth
    BY <2>2
  <2>4. Instructions(preceding_func_inst_in(p))' = Instructions(preceding_func_inst_in(p))
    BY <1>11, QuietPortSame, Zenon
  <2> QED BY <1>6, <1>10, <2>1, <2>3, <2>4, Zenon DEF FuLink, c
<1>14. alu_queue' \in [Pipe -> Seq(DOMAIN inst')]
  BY <1>1, <1>6, Zenon DEF CreditInv, FuInv
<1>15. FuInv'
  BY <1>10, <1>12, <1>13, <1>14, OneFu
<1> QED BY <1>4, <1>5, <1>7, <1>8, <1>15, Zenon DEF CreditInv

\* A function unit puts the issued instructions in its queue.
LEMMA AllocateFuStep ==
  ASSUME CreditInv, NEW p \in Pipe, Allocate_(p),
         UNCHANGED <<fetch_credit, renamingVars, rob, dispatchVars, rsVars>>
  PROVE  CreditInv'
<1> DEFINE c == preceding_func_inst_in(p)
<1>1. /\ Ready(c) /\ Fire(c, {write_back_event(p)}, {}, Nothing)
      /\ alu_queue' = [alu_queue EXCEPT ![p] = alu_queue[p] \o Message(c)]
      /\ inst' = inst
  BY DEF Allocate_
<1>2. Events({write_back_event(p)}, {})
  BY DEF Events, UniqueEvent
<1>3. c \in LinkPort /\ c \in GroupPort /\ c \notin FrontPort
  BY LinkPortHas, FrontPortsAre
<1>4. InstInv' /\ More
  BY <1>1, InstSame, Zenon DEF CreditInv
<1>5. /\ WiresOK' /\ \A d \in LinkPort : d # c => Quiet(d)
      /\ OnTheWay(c) # << >> /\ Message(c) = Head(OnTheWay(c))
      /\ OnTheWay(c)' = Tail(OnTheWay(c)) \o << >>
  BY <1>1, <1>2, <1>3, <1>4, TakingStep
<1>6. UNCHANGED <<fetch_credit, renaming_stage_queue, rob_credit, rob, dispatch_credit, inst_queue,
                  credit_map, dispatch_pending_queue, reservation_station, rs_credit>>
  BY <1>1, Zenon DEF renamingVars, dispatchVars, rsVars
<1>7. FetchInv' /\ RobInv' /\ DispatchInv' /\ Increasing(FrontLine)'
  <2>1. UNCHANGED frontVars
    BY <1>6, Zenon DEF frontVars
  <2>2. \A d \in FrontPort : Quiet(d)
    BY <1>3, <1>5, FrontPortsAre, Zenon
  <2> QED BY <1>4, <2>1, <2>2, FrontSame, Zenon
<1>8. StationInv'
  <2>1. Quiet(rs_dispatch_credit_in) /\ \A q \in Pipe : Quiet(preceding_reservation_inst_in(q))
    BY <1>3, <1>5, LinkPortHas, LinkPortsDiffer, Zenon
  <2> QED BY <1>4, <1>6, <2>1, StationsFrame, Zenon DEF CreditInv
<1>9. /\ Message(c) \in Seq(DOMAIN inst) /\ Len(Message(c)) \in Nat /\ Len(Instructions(c)') \in Nat
      /\ Len(Instructions(c)) = Len(Message(c)) + Len(Instructions(c)')
  BY <1>3, <1>5, TakesGroup, Zenon DEF CreditInv
<1> HIDE DEF c
<1>10. /\ alu_queue' \in [Pipe -> Seq(DOMAIN inst')]
       /\ Len(alu_queue'[p]) = Len(alu_queue[p]) + Len(Message(c))
       /\ \A q \in Pipe : q # p => alu_queue'[q] = alu_queue[q]
  <2>1. alu_queue \in [Pipe -> Seq(DOMAIN inst)]
    BY Zenon DEF CreditInv, FuInv
  <2>2. PICK a \in Seq(DOMAIN inst), g \in Seq(DOMAIN inst) : a = alu_queue[p] /\ g = Message(c)
    BY <1>9, <2>1
  <2>3. PICK t \in Seq(DOMAIN inst) : t = a \o g /\ Len(t) = Len(a) + Len(g)
    BY ConcatFacts, Zenon
  <2>4. alu_queue' = [alu_queue EXCEPT ![p] = t]
    BY <1>1, <2>2, <2>3, Zenon
  <2>5. /\ alu_queue' \in [Pipe -> Seq(DOMAIN inst)] /\ alu_queue'[p] = t
        /\ \A q \in Pipe : q # p => alu_queue'[q] = alu_queue[q]
    BY <2>1, <2>4
  <2> QED BY <1>1, <2>2, <2>3, <2>5, Zenon
<1>11. \A q \in Pipe : Quiet(following_reservation_credit_in(q))
  BY <1>3, <1>5, LinkPortHas, LinkPortsDiffer, Zenon DEF c
<1>12. ASSUME NEW q \in Pipe, q # p PROVE SameFu(q)
  <2>1. Quiet(preceding_func_inst_in(q))
    BY <1>5, <1>12, LinkPortHas, LinkPortsDiffer, Zenon DEF c
  <2> QED BY <1>6, <1>10, <1>11, <1>12, <2>1, Zenon DEF SameFu
<1>13. FuLink(p)'
  <2>1. PICK x \in Nat, m \in Nat, a \in Nat, b \in Nat, i \in Nat, u \in Nat :
          /\ x = rs_credit[p] /\ m = Len(Message(c)) /\ i = Len(Instructions(c))
          /\ b = Len(Instructions(c)')
          /\ a = CreditsOn(following_reservation_credit_in(p)) /\ u = Len(alu_queue[p])
    BY <1>9, FuNumbers, Zenon DEF c
  <2>2. x + a + i + u = FuDepth /\ i = m + b
    BY <1>9, <2>1, Zenon DEF CreditInv, FuInv, FuLink, c
  <2>3. x + a + b + (u + m) = FuDepth
    BY <2>2
  <2>4. CreditsOn(following_reservation_credit_in(p))' = CreditsOn(following_reservation_credit_in(p))
    BY <1>11, QuietPortSame, Zenon
  <2> QED BY <1>6, <1>10, <2>1, <2>3, <2>4, Zenon DEF FuLink, c
<1>14. rs_credit' \in [Pipe -> Nat]
  BY <1>6, Zenon DEF CreditInv, FuInv
<1>15. FuInv'
  BY <1>10, <1>12, <1>13, <1>14, OneFu
<1> QED BY <1>4, <1>5, <1>7, <1>8, <1>15, Zenon DEF CreditInv

\* A new queue in one station.
LEMMA StationQueue ==
  ASSUME CreditInv, NEW p \in Pipe, inst' = inst, NEW t \in Seq(StationEntry(DOMAIN inst)),
         reservation_station' = [reservation_station EXCEPT ![p] = t]
  PROVE  /\ reservation_station' \in [Pipe -> Seq(StationEntry(DOMAIN inst'))]
         /\ Len(Unissued(reservation_station[p]))' = Cardinality(Open(t))
         /\ Len(Unissued(reservation_station[p])) = Cardinality(Open(reservation_station[p]))
         /\ \A q \in Pipe : q # p => reservation_station'[q] = reservation_station[q]
<1>1. PICK I : I = DOMAIN inst
  OBVIOUS
<1>2. reservation_station \in [Pipe -> Seq(StationEntry(I))] /\ t \in Seq(StationEntry(I))
  BY <1>1, Zenon DEF CreditInv, StationInv
<1>3. /\ reservation_station' \in [Pipe -> Seq(StationEntry(I))] /\ reservation_station'[p] = t
      /\ \A q \in Pipe : q # p => reservation_station'[q] = reservation_station[q]
  BY <1>2
<1>4. reservation_station' \in [Pipe -> Seq(StationEntry(DOMAIN inst'))]
  BY <1>1, <1>3, Zenon
<1>5. Unissued(reservation_station[p])' = Unissued(t)
  BY <1>3, Zenon DEF Unissued, PickAt
<1>6. Len(Unissued(t)) = Cardinality(Open(t))
  BY <1>2, StationUnissued, Zenon
<1>7. Len(Unissued(reservation_station[p])) = Cardinality(Open(reservation_station[p]))
  BY <1>1, StationNumbers, StationUnissued, Zenon
<1> QED BY <1>3, <1>4, <1>5, <1>6, <1>7, Zenon

\* A handler of one station, of nothing in the links, that sends nothing and
\* leaves as many entries open.
LEMMA StationOnlyStep ==
  ASSUME CreditInv, NEW p \in Pipe, NEW c, NEW soon, NEW next, c \notin LinkPort, Ready(c),
         Fire(c, soon, next, Nothing), Events(soon, next), inst' = inst, rs_credit' = rs_credit,
         UNCHANGED <<fetch_credit, renamingVars, rob, dispatchVars, fuVars>>,
         NEW t \in Seq(StationEntry(DOMAIN inst)),
         reservation_station' = [reservation_station EXCEPT ![p] = t],
         Cardinality(Open(t)) = Cardinality(Open(reservation_station[p]))
  PROVE  CreditInv'
<1>1. InstInv' /\ More
  BY InstSame, Zenon DEF CreditInv
<1>2. WiresOK' /\ \A d \in LinkPort : Quiet(d)
  <2>1. \A mail \in Nothing : FALSE
    BY DEF Nothing
  <2> QED BY <1>1, <2>1, LinksStep, Zenon DEF CreditInv, More
<1>3. UNCHANGED <<fetch_credit, renaming_stage_queue, rob_credit, rob, dispatch_credit, inst_queue,
                  credit_map, dispatch_pending_queue, rs_credit, alu_queue>>
  BY Zenon DEF renamingVars, dispatchVars, fuVars
<1>4. FetchInv' /\ RobInv' /\ DispatchInv' /\ Increasing(FrontLine)'
  <2>1. UNCHANGED frontVars
    BY <1>3, Zenon DEF frontVars
  <2>2. \A d \in FrontPort : Quiet(d)
    BY <1>2, FrontPortsAre, Zenon
  <2> QED BY <1>1, <2>1, <2>2, FrontSame, Zenon
<1>5. FuInv'
  <2>1. \A q \in Pipe : Quiet(following_reservation_credit_in(q)) /\ Quiet(preceding_func_inst_in(q))
    BY <1>2, LinkPortHas, Zenon
  <2> QED BY <1>1, <1>3, <2>1, FusFrame, Zenon DEF CreditInv
<1>6. /\ reservation_station' \in [Pipe -> Seq(StationEntry(DOMAIN inst'))]
      /\ Len(Unissued(reservation_station[p]))' = Len(Unissued(reservation_station[p]))
      /\ \A q \in Pipe : q # p => reservation_station'[q] = reservation_station[q]
  BY StationQueue, Zenon
<1>7. Quiet(rs_dispatch_credit_in) /\ \A q \in Pipe : Quiet(preceding_reservation_inst_in(q))
  BY <1>2, LinkPortHas, Zenon
<1>8. ASSUME NEW q \in Pipe, q # p PROVE SameStation(q) /\ StationCredits(q)' = StationCredits(q)
  BY <1>3, <1>6, <1>7, <1>8, StationCreditsSame, Zenon DEF SameStation
<1>9. StationLink(p)'
  <2>1. /\ StationCredits(p)' = StationCredits(p)
        /\ Instructions(preceding_reservation_inst_in(p))' = Instructions(preceding_reservation_inst_in(p))
    BY <1>7, StationCreditsSame, QuietPortSame, Zenon
  <2>2. StationLink(p)
    BY Zenon DEF CreditInv, StationInv
  <2> QED BY <1>3, <1>6, <2>1, <2>2, Zenon DEF StationLink
<1>10. StationInv'
  BY <1>1, <1>3, <1>6, <1>8, <1>9, OneStation, Zenon
<1> QED BY <1>1, <1>2, <1>4, <1>5, <1>10, Zenon DEF CreditInv

\* A station marks the operands that are broadcast ready.
LEMMA GetForwardingStep ==
  ASSUME CreditInv, NEW p \in Pipe, GetForwardingData(p),
         UNCHANGED <<fetch_credit, renamingVars, rob, dispatchVars, fuVars>>
  PROVE  CreditInv'
<1> DEFINE c == forwarding_reservation_inst_in(p)
<1>1. PICK regs :
        /\ Ready(c) /\ Fire(c, {}, {}, Nothing)
        /\ reservation_station' = [reservation_station EXCEPT ![p] =
              [k \in DOMAIN reservation_station[p] |-> Resolve(reservation_station[p][k], regs)]]
        /\ inst' = inst /\ rs_credit' = rs_credit
  BY DEF GetForwardingData
<1>2. Events({}, {}) /\ c \notin LinkPort
  BY OtherPorts DEF Events
<1> HIDE DEF c
<1>3. PICK s \in Seq(StationEntry(DOMAIN inst)) : s = reservation_station[p]
  BY StationNumbers
<1>4. PICK t : t = [k \in DOMAIN s |-> Resolve(s[k], regs)]
  OBVIOUS
<1>5. /\ t \in Seq(StationEntry(DOMAIN inst)) /\ Len(t) = Len(s)
      /\ \A k \in 1 .. Len(s) : ~t[k].is_issued <=> ~s[k].is_issued
  <2>1. ASSUME NEW e \in StationEntry(DOMAIN inst)
        PROVE  Resolve(e, regs) \in StationEntry(DOMAIN inst) /\ Resolve(e, regs).is_issued = e.is_issued
    BY DEF Resolve, StationEntry
  <2>2. DOMAIN s = 1 .. Len(s) /\ Len(s) \in Nat
    BY <1>3
  <2>3. \A k \in 1 .. Len(s) : s[k] \in StationEntry(DOMAIN inst)
    BY <1>3
  <2>4. \A k \in 1 .. Len(s) : t[k] \in StationEntry(DOMAIN inst) /\ t[k].is_issued = s[k].is_issued
    BY <1>4, <2>1, <2>2, <2>3
  <2>5. t = [k \in 1 .. Len(s) |-> t[k]]
    BY <1>4, <2>2
  <2>6. t \in Seq(StationEntry(DOMAIN inst)) /\ Len(t) = Len(s)
    BY <2>2, <2>4, <2>5
  <2> QED BY <2>4, <2>6, Zenon
<1>6. Cardinality(Open(t)) = Cardinality(Open(s))
  <2>1. Open(t) = Open(s)
    BY <1>5 DEF Open
  <2> QED BY <2>1, Zenon
<1>7. reservation_station' = [reservation_station EXCEPT ![p] = t]
  BY <1>1, <1>3, <1>4, Zenon
<1> QED BY <1>1, <1>2, <1>3, <1>5, <1>6, <1>7, StationOnlyStep, Zenon

\* A station drops the entries it has issued.
LEMMA PopInstStep ==
  ASSUME CreditInv, NEW p \in Pipe, PopInst_(p),
         UNCHANGED <<fetch_credit, renamingVars, rob, dispatchVars, fuVars>>
  PROVE  CreditInv'
<1>1. PICK s \in Seq(StationEntry(DOMAIN inst)) : s = reservation_station[p]
  BY StationNumbers
<1> DEFINE c == pop_event(p)
           turns == (Len(s) + 1) \div 2
           S == {k \in 0 .. turns : \A j \in 1 .. k : s[j].is_issued}
<1>2. Len(s) \in Nat /\ turns \in Nat /\ turns <= Len(s)
  <2>1. PICK n \in Nat : n = Len(s)
    BY <1>1
  <2>2. (n + 1) \div 2 \in Nat /\ (n + 1) \div 2 <= n
    OBVIOUS
  <2> QED BY <2>1, <2>2
<1>3. Max(S) \in S /\ Max(S) \in 0 .. turns
  <2>1. S \in SUBSET (0 .. turns) /\ 0 \in S
    BY <1>2
  <2> HIDE DEF S, turns
  <2> QED BY <1>2, <2>1, MaxIs
<1>4. \A i \in 1 .. Max(S) : s[i].is_issued
  BY <1>3
<1>5. /\ Ready(c)
      /\ Fire(c, {}, IF reservation_station'[p] = << >> THEN {} ELSE {c}, Nothing)
      /\ reservation_station' = [reservation_station EXCEPT ![p] = SubSeq(s, Max(S) + 1, Len(s))]
      /\ inst' = inst /\ rs_credit' = rs_credit
  BY <1>1, Zenon DEF PopInst_
<1>6. c \notin LinkPort /\ c \in UniqueEvent
  BY LinkPortsDiffer DEF UniqueEvent
<1> HIDE DEF S, turns, c
<1>7. PICK next : /\ next = IF reservation_station'[p] = << >> THEN {} ELSE {c}
                  /\ Fire(c, {}, next, Nothing)
  BY <1>5, Zenon
<1>8. Events({}, next)
  BY <1>6, <1>7 DEF Events
<1>9. PICK k \in Nat : k = Max(S) /\ k <= Len(s) /\ \A i \in 1 .. k : s[i].is_issued
  <2>1. Max(S) \in Nat /\ Max(S) <= Len(s)
    BY <1>2, <1>3
  <2> QED BY <1>4, <2>1, Zenon
<1>10. PICK t \in Seq(StationEntry(DOMAIN inst)) :
         t = SubSeq(s, k + 1, Len(s)) /\ Cardinality(Open(t)) = Cardinality(Open(s))
  BY <1>9, OpenDropped, Zenon
<1>11. reservation_station' = [reservation_station EXCEPT ![p] = t]
  BY <1>5, <1>9, <1>10, Zenon
<1> QED BY <1>1, <1>5, <1>6, <1>7, <1>8, <1>10, <1>11, StationOnlyStep, Zenon

\* A station's share of the shared credit wire is a natural number.
LEMMA StationCreditsNat ==
  ASSUME NEW p \in Pipe, WiresOK PROVE StationCredits(p) \in Nat
<1> DEFINE d == rs_dispatch_credit_in
<1>1. d \in LinkPort /\ MessageOf(d, DOMAIN inst) = StationCredit
  BY LinkPortsAre, Zenon DEF LinkPort, MessageOf
<1>2. now[d] \in Seq(StationCredit) /\ later[d] \in Seq(StationCredit)
  BY <1>1, Zenon DEF WiresOK, Typed
<1>3. PICK w \in Seq(StationCredit) : w = OnTheWay(d)
  BY <1>2, WireIsSeq, Zenon
<1>4. CreditsFor(p, w) \in Seq(Nat)
  BY CreditsOfStation, Zenon
<1>5. SumOf(CreditsFor(p, w)) \in Nat
  BY <1>4, SumIsNat, Zenon
<1> QED BY <1>3, <1>5, Zenon DEF StationCredits, CreditsFor

\* A station puts the dispatched instructions in its queue.
LEMMA AllocateReStationStep ==
  ASSUME CreditInv, NEW p \in Pipe, AllocateReStation(p),
         UNCHANGED <<fetch_credit, renamingVars, rob, dispatchVars, fuVars>>
  PROVE  CreditInv'
<1> DEFINE c == preceding_reservation_inst_in(p)
           entry(i) == [inst |-> i, rs1_valid |-> ~inst[i].IsRs1Forward,
                        rs2_valid |-> ~inst[i].IsRs2Forward, is_issued |-> FALSE]
<1>1. /\ Ready(c) /\ Fire(c, {passing_event(p)}, {pop_event(p)}, Nothing)
      /\ reservation_station' = [reservation_station EXCEPT ![p] = reservation_station[p] \o
            [k \in DOMAIN Message(c) |-> entry(Message(c)[k])]]
      /\ inst' = inst /\ rs_credit' = rs_credit
  BY DEF AllocateReStation
<1>2. Events({passing_event(p)}, {pop_event(p)})
  BY DEF Events, UniqueEvent
<1>3. c \in LinkPort /\ c \in GroupPort /\ c \notin FrontPort
  BY LinkPortHas, FrontPortsAre
<1>4. InstInv' /\ More
  BY <1>1, InstSame, Zenon DEF CreditInv
<1>5. /\ WiresOK' /\ \A d \in LinkPort : d # c => Quiet(d)
      /\ OnTheWay(c) # << >> /\ Message(c) = Head(OnTheWay(c))
      /\ OnTheWay(c)' = Tail(OnTheWay(c)) \o << >>
  BY <1>1, <1>2, <1>3, <1>4, TakingStep
<1>6. UNCHANGED <<fetch_credit, renaming_stage_queue, rob_credit, rob, dispatch_credit, inst_queue,
                  credit_map, dispatch_pending_queue, rs_credit, alu_queue>>
  BY <1>1, Zenon DEF renamingVars, dispatchVars, fuVars
<1>7. FetchInv' /\ RobInv' /\ DispatchInv' /\ Increasing(FrontLine)'
  <2>1. UNCHANGED frontVars
    BY <1>6, Zenon DEF frontVars
  <2>2. \A d \in FrontPort : Quiet(d)
    BY <1>3, <1>5, FrontPortsAre, Zenon
  <2> QED BY <1>4, <2>1, <2>2, FrontSame, Zenon
<1>8. FuInv'
  <2>1. \A q \in Pipe : Quiet(following_reservation_credit_in(q)) /\ Quiet(preceding_func_inst_in(q))
    BY <1>3, <1>5, LinkPortHas, LinkPortsDiffer, Zenon
  <2> QED BY <1>4, <1>6, <2>1, FusFrame, Zenon DEF CreditInv
<1>9. /\ Message(c) \in Seq(DOMAIN inst) /\ Len(Message(c)) \in Nat /\ Len(Instructions(c)') \in Nat
      /\ Len(Instructions(c)) = Len(Message(c)) + Len(Instructions(c)')
  BY <1>3, <1>5, TakesGroup, Zenon DEF CreditInv
<1> HIDE DEF c
<1>10. PICK s \in Seq(StationEntry(DOMAIN inst)) : s = reservation_station[p]
  BY StationNumbers
<1>11. PICK g : g = [k \in DOMAIN Message(c) |-> entry(Message(c)[k])]
  OBVIOUS
<1>12. /\ g \in Seq(StationEntry(DOMAIN inst)) /\ Len(g) = Len(Message(c))
       /\ \A k \in 1 .. Len(g) : ~g[k].is_issued
  <2>1. ASSUME NEW i \in DOMAIN inst PROVE entry(i) \in StationEntry(DOMAIN inst) /\ ~entry(i).is_issued
    BY DEF StationEntry
  <2> HIDE DEF entry
  <2>2. DOMAIN Message(c) = 1 .. Len(Message(c)) /\ \A k \in 1 .. Len(Message(c)) : Message(c)[k] \in DOMAIN inst
    BY <1>9
  <2>3. \A k \in 1 .. Len(Message(c)) : g[k] \in StationEntry(DOMAIN inst) /\ ~g[k].is_issued
    BY <1>11, <2>1, <2>2
  <2>4. g = [k \in 1 .. Len(Message(c)) |-> g[k]]
    BY <1>11, <2>2
  <2>5. g \in Seq(StationEntry(DOMAIN inst)) /\ Len(g) = Len(Message(c))
    BY <1>9, <2>3, <2>4
  <2> QED BY <2>3, <2>5, Zenon
<1> HIDE DEF entry
<1>13. PICK t \in Seq(StationEntry(DOMAIN inst)) : t = s \o g
  BY <1>12, ConcatFacts, Zenon
<1>14. Cardinality(Open(t)) = Cardinality(Open(s)) + Len(Message(c))
  BY <1>12, <1>13, OpenMore, Zenon
<1>15. reservation_station' = [reservation_station EXCEPT ![p] = t]
  BY <1>1, <1>10, <1>11, <1>13, Zenon
<1>16. /\ reservation_station' \in [Pipe -> Seq(StationEntry(DOMAIN inst'))]
       /\ Len(Unissued(reservation_station[p]))' = Len(Unissued(reservation_station[p])) + Len(Message(c))
       /\ \A q \in Pipe : q # p => reservation_station'[q] = reservation_station[q]
  BY <1>1, <1>10, <1>14, <1>15, StationQueue, Zenon
<1>17. Quiet(rs_dispatch_credit_in)
  BY <1>3, <1>5, LinkPortHas, LinkPortsDiffer, Zenon
<1>18. ASSUME NEW q \in Pipe, q # p PROVE SameStation(q) /\ StationCredits(q)' = StationCredits(q)
  <2>1. Quiet(preceding_reservation_inst_in(q))
    BY <1>5, <1>18, LinkPortHas, LinkPortsDiffer, Zenon DEF c
  <2> QED BY <1>6, <1>16, <1>17, <1>18, <2>1, StationCreditsSame, Zenon DEF SameStation
<1>19. StationLink(p)'
  <2>1. StationCredits(p)' = StationCredits(p) /\ StationCredits(p) \in Nat
    BY <1>17, StationCreditsSame, StationCreditsNat, Zenon DEF CreditInv
  <2>2. PICK x \in Nat, m \in Nat, a \in Nat, b \in Nat, i \in Nat, u \in Nat, l \in Nat :
          /\ x = credit_map[p] /\ m = Len(Message(c)) /\ i = Len(Instructions(c))
          /\ b = Len(Instructions(c)') /\ a = StationCredits(p)
          /\ u = Len(Unissued(reservation_station[p])) /\ l = Len(dispatch_pending_queue[p])
    BY <1>9, <2>1, StationNumbers, Zenon DEF c
  <2>3. x + a + l + i + u = RsDepth /\ i = m + b
    BY <1>9, <2>2, Zenon DEF CreditInv, StationInv, StationLink, c
  <2>4. x + a + l + b + (u + m) = RsDepth
    BY <2>3
  <2> QED BY <1>6, <1>16, <2>1, <2>2, <2>4, Zenon DEF StationLink, c
<1>20. StationInv'
  BY <1>4, <1>6, <1>16, <1>18, <1>19, OneStation, Zenon
<1> QED BY <1>4, <1>5, <1>7, <1>8, <1>20, Zenon DEF CreditInv

\* Two posts.
AreSent(out, a, x, b, y) == out = Post(a, x) \cup Post(b, y)

Arrive(out, a, x, b, y) ==
    /\ Sent(out, a) = x /\ Sent(out, b) = y
    /\ \A mail \in out : (mail[1] = a /\ mail[2] = x) \/ (mail[1] = b /\ mail[2] = y)

\* What a handler that sends on two ports sends on each.
LEMMA TwoPosts ==
  ASSUME NEW a, NEW b, a # b, NEW x, NEW y, NEW out, AreSent(out, a, x, b, y)
  PROVE  Arrive(out, a, x, b, y)
<1>1. <<a, x>> \in out /\ <<b, y>> \in out
  BY DEF Post, AreSent
<1>2. \A mail \in out : mail = <<a, x>> \/ mail = <<b, y>>
  BY DEF Post, AreSent
<1>3. (CHOOSE mail \in out : mail[1] = a) = <<a, x>>
  BY <1>1, <1>2
<1>4. (CHOOSE mail \in out : mail[1] = b) = <<b, y>>
  BY <1>1, <1>2
<1>5. (\E mail \in out : mail[1] = a) /\ (\E mail \in out : mail[1] = b)
  BY <1>1
<1>6. Sent(out, a) = <<a, x>>[2] /\ Sent(out, b) = <<b, y>>[2]
  BY <1>3, <1>4, <1>5, Zenon DEF Sent
<1> QED BY <1>2, <1>6 DEF Arrive

\* A function unit hands its first instruction on and returns the credit.
LEMMA WriteBackStep ==
  ASSUME CreditInv, NEW p \in Pipe, WriteBack_(p),
         UNCHANGED <<fetch_credit, renamingVars, rob, dispatchVars, rsVars>>
  PROVE  CreditInv'
<1> DEFINE c == write_back_event(p)
           d == following_reservation_credit_in(p)
           w == preceding_write_back_inst_in
<1>1. PICK a \in Seq(DOMAIN inst) : a = alu_queue[p]
  BY FuNumbers
<1>2. PICK num \in Nat : num = Min({FuWidth, Len(a)}) /\ num <= Len(a)
  <2>1. FuWidth \in Int /\ Len(a) \in Int /\ FuWidth \in Nat /\ Len(a) \in Nat
    BY SizesAssumption
  <2>2. /\ Min({FuWidth, Len(a)}) \in {FuWidth, Len(a)} /\ Min({FuWidth, Len(a)}) <= Len(a)
    BY <2>1, MinOfTwo
  <2> QED BY <2>1, <2>2
<1>3. PICK pair, out :
        /\ Ready(c) /\ Fire(c, {}, {}, out)
        /\ out = IF num = 0 THEN Nothing ELSE Post(w, <<pair>>) \cup Post(d, <<num>>)
        /\ alu_queue' = [alu_queue EXCEPT ![p] = SubSeq(a, num + 1, Len(a))]
        /\ inst' = inst
  BY <1>1, <1>2, Zenon DEF WriteBack_
<1>4. c \notin LinkPort /\ w \notin LinkPort /\ d \in LinkPort /\ d \in CreditPort /\ d \notin FrontPort
  BY LinkPortsDiffer, LinkPortHas, FrontPortsAre, OtherPorts DEF UniqueEvent
<1>5. InstInv' /\ More
  BY <1>3, InstSame, Zenon DEF CreditInv
<1>6. UNCHANGED <<fetch_credit, renaming_stage_queue, rob_credit, rob, dispatch_credit, inst_queue,
                  credit_map, dispatch_pending_queue, reservation_station, rs_credit>>
  BY Zenon DEF renamingVars, dispatchVars, rsVars
<1>7. /\ \A mail \in out : mail[1] = w \/ (mail[1] = d /\ mail[2] = <<num>>)
      /\ num # 0 => Sent(out, d) = <<num>>
  <2> HIDE DEF w, d
  <2>1. CASE num = 0
    BY <1>3, <2>1 DEF Nothing
  <2>2. CASE num # 0
    <3>1. w # d
      BY <1>4, Zenon
    <3>2. out = Post(w, <<pair>>) \cup Post(d, <<num>>)
      BY <1>3, <2>2, Zenon
    <3>3. PICK mm, gg : mm = <<num>> /\ gg = <<pair>>
      OBVIOUS
    <3>4. AreSent(out, w, gg, d, mm)
      BY <3>2, <3>3, Zenon DEF AreSent
    <3>5. Arrive(out, w, gg, d, mm)
      BY <3>1, <3>4, TwoPosts, Zenon
    <3> QED BY <3>3, <3>5, Zenon DEF Arrive
  <2> QED BY <2>1, <2>2
<1>8. /\ WiresOK'
      /\ \A e \in LinkPort : e # d => Quiet(e)
      /\ OnTheWay(d)' = OnTheWay(d) \o Sent(out, d)
      /\ num = 0 => Quiet(d)
  <2> HIDE DEF c, d, w
  <2>1. Events({}, {})
    BY DEF Events
  <2>2. <<num>> \in Seq(MessageOf(d, DOMAIN inst'))
    BY <1>4, CreditIsTyped
  <2>3. \A mail \in out : mail[1] \in LinkPort => mail[2] \in Seq(MessageOf(mail[1], DOMAIN inst'))
    BY <1>4, <1>7, <2>2, Zenon
  <2>4. /\ WiresOK'
        /\ \A e \in LinkPort :
             /\ OnTheWay(e)' = OnTheWay(e) \o Sent(out, e)
             /\ (\A mail \in out : mail[1] # e) => Quiet(e)
    <3>1. Ready(c) /\ Fire(c, {}, {}, out) /\ c \notin LinkPort /\ More
      BY <1>3, <1>4, <1>5, Zenon
    <3> QED BY <2>1, <2>3, <3>1, SendingStep, Zenon
  <2>5. num = 0 => \A mail \in out : FALSE
    BY <1>3 DEF Nothing
  <2>6. \A e \in LinkPort : e # d => \A mail \in out : mail[1] # e
    BY <1>4, <1>7, Zenon
  <2> QED BY <1>4, <2>4, <2>5, <2>6, Zenon
<1>9. CreditsOn(d) \in Nat /\ CreditsOn(d)' = CreditsOn(d) + num
  <2> HIDE DEF d
  <2>1. CreditsOn(d) \in Nat
    BY <1>4, CreditsAreNat, Zenon DEF CreditInv
  <2>2. CASE num = 0
    <3>1. CreditsOn(d)' = CreditsOn(d)
      BY <1>8, <2>2, QuietPortSame, Zenon
    <3> QED BY <2>1, <2>2, <3>1
  <2>3. CASE num # 0
    BY <1>4, <1>7, <1>8, <2>3, SendsCredit, Zenon DEF CreditInv
  <2> QED BY <2>2, <2>3
<1> HIDE DEF c, d, w
<1>10. FetchInv' /\ RobInv' /\ DispatchInv' /\ Increasing(FrontLine)'
  <2>1. UNCHANGED frontVars
    BY <1>6, Zenon DEF frontVars
  <2>2. \A e \in FrontPort : Quiet(e)
    BY <1>4, <1>8, FrontPortsAre, Zenon
  <2> QED BY <1>5, <2>1, <2>2, FrontSame, Zenon
<1>11. StationInv'
  <2>1. Quiet(rs_dispatch_credit_in) /\ \A q \in Pipe : Quiet(preceding_reservation_inst_in(q))
    BY <1>4, <1>8, LinkPortHas, LinkPortsDiffer, Zenon
  <2> QED BY <1>5, <1>6, <2>1, StationsFrame, Zenon DEF CreditInv
<1>12. PICK t \in Seq(DOMAIN inst) : t = SubSeq(a, num + 1, Len(a)) /\ Len(t) = Len(a) - num
  <2>1. PICK I : I = DOMAIN inst
    OBVIOUS
  <2>2. a \in Seq(I)
    BY <1>1, <2>1, Zenon
  <2>3. SubSeq(a, num + 1, Len(a)) \in Seq(I) /\ Len(SubSeq(a, num + 1, Len(a))) = Len(a) - num
    <3>1. num \in Nat /\ num <= Len(a)
      BY <1>2, Zenon
    <3>2. Splits(I, a, num)
      BY <2>2, <3>1, SplitIs, Zenon
    <3> QED BY <3>2, Zenon DEF Splits
  <2> QED BY <2>1, <2>3, Zenon
<1>13. /\ alu_queue' \in [Pipe -> Seq(DOMAIN inst')] /\ alu_queue'[p] = t
       /\ \A q \in Pipe : q # p => alu_queue'[q] = alu_queue[q]
  <2>1. alu_queue \in [Pipe -> Seq(DOMAIN inst)]
    BY Zenon DEF CreditInv, FuInv
  <2>2. alu_queue' = [alu_queue EXCEPT ![p] = t]
    BY <1>3, <1>12, Zenon
  <2>3. /\ alu_queue' \in [Pipe -> Seq(DOMAIN inst)] /\ alu_queue'[p] = t
        /\ \A q \in Pipe : q # p => alu_queue'[q] = alu_queue[q]
    BY <2>1, <2>2
  <2> QED BY <1>3, <2>3, Zenon
<1>14. \A q \in Pipe : Quiet(preceding_func_inst_in(q))
  BY <1>4, <1>8, LinkPortHas, LinkPortsDiffer, Zenon
<1>15. ASSUME NEW q \in Pipe, q # p PROVE SameFu(q)
  <2>1. Quiet(following_reservation_credit_in(q))
    BY <1>8, <1>15, LinkPortHas, LinkPortsDiffer, Zenon DEF d
  <2> QED BY <1>6, <1>13, <1>14, <1>15, <2>1, Zenon DEF SameFu
<1>16. FuLink(p)'
  <2>1. Instructions(preceding_func_inst_in(p))' = Instructions(preceding_func_inst_in(p))
    BY <1>14, QuietPortSame, Zenon
  <2>2. PICK x \in Nat, k \in Nat, i \in Nat, u \in Nat :
          /\ x = rs_credit[p] /\ k = CreditsOn(d) /\ u = Len(a)
          /\ i = Len(Instructions(preceding_func_inst_in(p)))
    BY <1>1, FuNumbers, Zenon DEF d
  <2>3. x + k + i + u = FuDepth /\ num <= u
    BY <1>1, <1>2, <2>2, Zenon DEF CreditInv, FuInv, FuLink, d
  <2>4. x + (k + num) + i + (u - num) = FuDepth
    BY <2>3
  <2> QED BY <1>6, <1>9, <1>12, <1>13, <2>1, <2>2, <2>4, Zenon DEF FuLink, d
<1>17. rs_credit' \in [Pipe -> Nat]
  BY <1>6, Zenon DEF CreditInv, FuInv
<1>18. FuInv'
  BY <1>13, <1>15, <1>16, <1>17, OneFu
<1> QED BY <1>5, <1>8, <1>10, <1>11, <1>18, Zenon DEF CreditInv

\* What is sent over the links is typed, and arrives.
Carries(out, ids) ==
    \A mail \in out : mail[1] \in LinkPort => mail[2] \in Seq(MessageOf(mail[1], ids))

Delivered(out) ==
    \A d \in LinkPort : /\ OnTheWay(d)' = OnTheWay(d) \o Sent(out, d)
                        /\ (\A mail \in out : mail[1] # d) => Quiet(d)

\* A handler of an event keeps the wires typed, and what it sends comes last on
\* them.
LEMMA EventStep ==
  ASSUME CreditInv, NEW c, c \notin LinkPort, NEW soon, NEW next, NEW out, Ready(c),
         Fire(c, soon, next, out), Events(soon, next), More, Carries(out, DOMAIN inst')
  PROVE  WiresOK' /\ Delivered(out)
<1>1. \A mail \in out : mail[1] \in LinkPort => mail[2] \in Seq(MessageOf(mail[1], DOMAIN inst'))
  BY Zenon DEF Carries
<1> QED BY <1>1, SendingStep DEF Delivered

\* A station sends a group to its unit and gives as many places back.
LEMMA PassingSends ==
  ASSUME CreditInv, NEW p \in Pipe, inst' = inst, NEW soon, NEW next, Events(soon, next),
         Ready(passing_event(p)), NEW g \in Seq(DOMAIN inst), NEW n \in Nat, Len(g) = n,
         NEW out,
         out = IF n = 0 THEN Nothing
               ELSE Post(preceding_func_inst_in(p), <<g>>)
                    \cup Post(rs_dispatch_credit_in, <<[name |-> p, credit |-> n]>>),
         Fire(passing_event(p), soon, next, out)
  PROVE  /\ WiresOK'
         /\ Len(Instructions(preceding_func_inst_in(p)))'
               = Len(Instructions(preceding_func_inst_in(p))) + n
         /\ \A q \in Pipe : StationCredits(q)' = StationCredits(q) + (IF q = p THEN n ELSE 0)
         /\ \A d \in LinkPort :
               d # preceding_func_inst_in(p) /\ d # rs_dispatch_credit_in => Quiet(d)
<1> DEFINE c == passing_event(p)
           f == preceding_func_inst_in(p)
           w == rs_dispatch_credit_in
<1>1. c \notin LinkPort
  BY LinkPortsDiffer DEF UniqueEvent
<1>2. f \in GroupPort /\ f \in LinkPort /\ w \in LinkPort /\ f # w
  BY LinkPortHas, LinkPortsDiffer
<1>3. PICK pair : pair = [name |-> p, credit |-> n]
  OBVIOUS
<1>4. pair \in StationCredit
  BY <1>3 DEF StationCredit
<1>5. PICK gg, ww : gg = <<g>> /\ ww = <<pair>>
  OBVIOUS
<1>6. gg \in Seq(MessageOf(f, DOMAIN inst')) /\ ww \in Seq(MessageOf(w, DOMAIN inst'))
  <2>1. gg \in Seq(MessageOf(f, DOMAIN inst))
    BY <1>2, <1>5, GroupIsTyped, Zenon
  <2>2. MessageOf(w, DOMAIN inst) = StationCredit
    BY LinkPortsAre, Zenon DEF MessageOf
  <2>3. ww \in Seq(StationCredit)
    BY <1>4, <1>5
  <2> QED BY <2>1, <2>2, <2>3, Zenon
<1> HIDE DEF c, f, w
<1>7. /\ n # 0 => Arrive(out, f, gg, w, ww)
      /\ n = 0 => out = {}
  <2>1. ASSUME n # 0 PROVE AreSent(out, f, gg, w, ww)
    BY <1>3, <1>5, <2>1, Zenon DEF AreSent, f, w
  <2> QED BY <1>2, <2>1, TwoPosts, Zenon DEF Nothing
<1>8. \A mail \in out : /\ mail[1] = f \/ mail[1] = w
                        /\ mail[2] \in Seq(MessageOf(mail[1], DOMAIN inst'))
  <2>1. CASE n = 0
    BY <1>7, <2>1, Zenon
  <2>2. CASE n # 0
    BY <1>6, <1>7, <2>2, Zenon DEF Arrive
  <2> QED BY <2>1, <2>2
<1>9. More /\ InstInv'
  BY InstSame, Zenon DEF CreditInv
<1>10. WiresOK' /\ Delivered(out)
  <2>1. Ready(c) /\ Fire(c, soon, next, out)
    BY DEF c
  <2>2. Carries(out, DOMAIN inst')
    BY <1>8, Zenon DEF Carries
  <2> QED BY <1>1, <1>9, <2>1, <2>2, EventStep, Zenon
<1>11. Len(Instructions(f))' = Len(Instructions(f)) + n
  <2>1. CASE n = 0
    <3>1. Quiet(f)
      BY <1>2, <1>7, <1>10, <2>1, Zenon DEF Delivered
    <3>2. Instructions(f)' = Instructions(f)
      BY <3>1, QuietPortSame, Zenon
    <3>3. Len(Instructions(f)) \in Nat
      BY <1>2, GroupWire, Zenon DEF CreditInv
    <3> QED BY <2>1, <3>2, <3>3
  <2>2. CASE n # 0
    <3>1. OnTheWay(f)' = OnTheWay(f) \o <<g>>
      BY <1>2, <1>5, <1>7, <1>10, <2>2, Zenon DEF Arrive, Delivered
    <3>2. g \in Seq(DOMAIN inst')
      OBVIOUS
    <3>3. Len(Instructions(f)') = Len(Instructions(f)) + Len(g)
      BY <1>2, <1>9, <3>1, <3>2, SendsGroup, Zenon DEF CreditInv
    <3> QED BY <3>3
  <2> QED BY <2>1, <2>2
<1>12. ASSUME NEW q \in Pipe
       PROVE  StationCredits(q)' = StationCredits(q) + (IF q = p THEN n ELSE 0)
  <2>1. CASE n = 0
    <3>1. Quiet(w)
      BY <1>2, <1>7, <1>10, <2>1, Zenon DEF Delivered
    <3>2. StationCredits(q)' = StationCredits(q) /\ StationCredits(q) \in Nat
      BY <3>1, StationCreditsSame, StationCreditsNat, Zenon DEF CreditInv, w
    <3> QED BY <2>1, <3>2
  <2>2. CASE n # 0
    <3>1. OnTheWay(rs_dispatch_credit_in)' =
            OnTheWay(rs_dispatch_credit_in) \o <<[name |-> p, credit |-> n]>>
      BY <1>2, <1>3, <1>5, <1>7, <1>10, <2>2, Zenon DEF Arrive, Delivered, w
    <3> QED BY <3>1, SendsPair, Zenon DEF CreditInv
  <2> QED BY <2>1, <2>2
<1>13. \A d \in LinkPort : d # f /\ d # w => Quiet(d)
  BY <1>8, <1>10, Zenon DEF Delivered
<1> QED BY <1>10, <1>11, <1>12, <1>13, Zenon DEF f, w

\* What a station chooses to pass on: at most as much as it has credits for.
LEMMA PassingDoes ==
  ASSUME CreditInv, NEW p \in Pipe, PassingInst(p)
  PROVE  \E t \in Seq(StationEntry(DOMAIN inst)), g \in Seq(DOMAIN inst), n \in Nat :
         \E next, out :
           /\ Len(g) = n /\ n <= rs_credit[p]
           /\ Cardinality(Open(t)) + n = Cardinality(Open(reservation_station[p]))
           /\ Cardinality(Open(t)) \in Nat
           /\ inst' = inst
           /\ reservation_station' = [reservation_station EXCEPT ![p] = t]
           /\ rs_credit' = [rs_credit EXCEPT ![p] = rs_credit[p] - n]
           /\ Ready(passing_event(p)) /\ Events({}, next)
           /\ Fire(passing_event(p), {}, next, out)
           /\ out = IF n = 0 THEN Nothing
                    ELSE Post(preceding_func_inst_in(p), <<g>>)
                         \cup Post(rs_dispatch_credit_in, <<[name |-> p, credit |-> n]>>)
<1>1. PICK I : I = DOMAIN inst
  OBVIOUS
<1>2. PICK s \in Seq(StationEntry(I)) : s = reservation_station[p]
  BY <1>1, StationNumbers
<1>3. PICK k0 \in Nat : k0 = rs_credit[p]
  BY FuNumbers
<1> DEFINE ready == {k \in DOMAIN s : /\ ~s[k].is_issued
                                      /\ s[k].rs1_valid /\ s[k].rs2_valid}
           m == Min({k0, RsWidth})
           passing == {k \in ready : Cardinality({j \in ready : j <= k}) <= m}
           ids == [k \in DOMAIN s |-> s[k].inst]
           g == PickAt(ids, passing)
           t == [k \in DOMAIN s |-> [s[k] EXCEPT !.is_issued = @ \/ k \in passing]]
           next == IF s # << >> /\ rs_credit'[p] > 0 THEN {passing_event(p)} ELSE {}
           out == IF g = << >> THEN Nothing
                  ELSE Post(preceding_func_inst_in(p), <<g>>)
                       \cup Post(rs_dispatch_credit_in, <<[name |-> p, credit |-> Len(g)]>>)
<1>4. /\ Ready(passing_event(p)) /\ inst' = inst
      /\ reservation_station' = [reservation_station EXCEPT ![p] = t]
      /\ rs_credit' = [rs_credit EXCEPT ![p] = k0 - Len(g)]
      /\ Fire(passing_event(p), {}, next, out)
  BY <1>2, <1>3, Zenon DEF PassingInst
<1>5. Events({}, next)
  BY DEF Events, UniqueEvent
<1>6. m \in Nat /\ m <= k0
  <2>1. k0 \in Int /\ RsWidth \in Int /\ RsWidth \in Nat
    BY SizesAssumption
  <2>2. Min({k0, RsWidth}) \in {k0, RsWidth} /\ Min({k0, RsWidth}) <= k0
    BY <2>1, MinOfTwo
  <2> QED BY <2>1, <2>2
<1>7. Len(s) \in Nat /\ DOMAIN s = 1 .. Len(s) /\ \A k \in 1 .. Len(s) : s[k] \in StationEntry(I)
  BY <1>2
<1>8. ready \in SUBSET (1 .. Len(s)) /\ ready \subseteq Open(s)
  BY <1>7 DEF Open
<1> HIDE DEF ready, m
<1>9. Cardinality(passing) <= m /\ passing \in SUBSET ready
  <2>1. PICK F : F = passing
    OBVIOUS
  <2>2. F = {k \in ready : Cardinality({j \in ready : j <= k}) <= m}
    BY <2>1, Zenon
  <2>3. Cardinality(F) <= m /\ F \in SUBSET ready
    BY <1>6, <1>7, <1>8, <2>2, CountFirst
  <2> QED BY <2>1, <2>3, Zenon
<1> HIDE DEF passing
<1>10. ids \in Seq(I) /\ Len(ids) = Len(s)
  <2>1. \A k \in 1 .. Len(s) : s[k].inst \in I
    BY <1>7 DEF StationEntry
  <2>2. ids = [k \in 1 .. Len(s) |-> s[k].inst]
    BY <1>7, Zenon
  <2> QED BY <1>7, <2>1, <2>2
<1> HIDE DEF ids
<1>11. g \in Seq(I) /\ Len(g) = Cardinality(passing) /\ Cardinality(passing) \in Nat
  <2>1. passing \in SUBSET (1 .. Len(ids))
    BY <1>8, <1>9, <1>10, Zenon
  <2> QED BY <1>10, <2>1, PickAtIs
<1>12. /\ t \in Seq(StationEntry(I)) /\ Len(t) = Len(s)
       /\ \A k \in 1 .. Len(s) : ~t[k].is_issued <=> ~s[k].is_issued /\ k \notin passing
  <2>1. ASSUME NEW e \in StationEntry(I), NEW P, NEW k
        PROVE  /\ [e EXCEPT !.is_issued = @ \/ k \in P] \in StationEntry(I)
               /\ ~[e EXCEPT !.is_issued = @ \/ k \in P].is_issued <=> ~e.is_issued /\ k \notin P
    BY DEF StationEntry
  <2>2. ASSUME NEW k \in 1 .. Len(s)
        PROVE  t[k] \in StationEntry(I) /\ (~t[k].is_issued <=> ~s[k].is_issued /\ k \notin passing)
    <3>1. t[k] = [s[k] EXCEPT !.is_issued = @ \/ k \in passing]
      BY <1>7, Zenon
    <3>2. s[k] \in StationEntry(I)
      BY <1>7
    <3>3. /\ [s[k] EXCEPT !.is_issued = @ \/ k \in passing] \in StationEntry(I)
          /\ ~[s[k] EXCEPT !.is_issued = @ \/ k \in passing].is_issued
               <=> ~s[k].is_issued /\ k \notin passing
      BY <2>1, <3>2, Zenon
    <3> QED BY <3>1, <3>3, Zenon
  <2>3. t = [k \in 1 .. Len(s) |-> t[k]]
    BY <1>7, Zenon
  <2> HIDE DEF t
  <2>4. t \in Seq(StationEntry(I)) /\ Len(t) = Len(s)
    BY <1>7, <2>2, <2>3
  <2> QED BY <2>2, <2>4, Zenon
<1> HIDE DEF t, g
<1>13. Cardinality(Open(t)) + Cardinality(passing) = Cardinality(Open(s)) /\ Cardinality(Open(t)) \in Nat
  <2>1. passing \in SUBSET Open(s)
    BY <1>8, <1>9
  <2> QED BY <1>12, <2>1, OpenMarked
<1>14. PICK n \in Nat : n = Len(g) /\ n <= k0 /\ n = Cardinality(passing)
  BY <1>6, <1>9, <1>11
<1>15. out = IF n = 0 THEN Nothing
             ELSE Post(preceding_func_inst_in(p), <<g>>)
                  \cup Post(rs_dispatch_credit_in, <<[name |-> p, credit |-> n]>>)
  <2>1. g = << >> <=> n = 0
    BY <1>11, <1>14
  <2> QED BY <1>14, <2>1, Zenon
<1>16. Cardinality(Open(t)) + n = Cardinality(Open(s))
  BY <1>13, <1>14, Zenon
<1> HIDE DEF out, next
<1> QED BY <1>1, <1>2, <1>3, <1>4, <1>5, <1>11, <1>12, <1>13, <1>14, <1>15, <1>16, Zenon

\* A station issues the entries that are ready, and returns their credits.
LEMMA PassingStep ==
  ASSUME CreditInv, NEW p \in Pipe, PassingInst(p),
         UNCHANGED <<fetch_credit, renamingVars, rob, dispatchVars, fuVars>>
  PROVE  CreditInv'
<1>0. PICK t \in Seq(StationEntry(DOMAIN inst)), g \in Seq(DOMAIN inst), n \in Nat :
      \E next, out :
        /\ Len(g) = n /\ n <= rs_credit[p]
        /\ Cardinality(Open(t)) + n = Cardinality(Open(reservation_station[p]))
        /\ Cardinality(Open(t)) \in Nat
        /\ inst' = inst
        /\ reservation_station' = [reservation_station EXCEPT ![p] = t]
        /\ rs_credit' = [rs_credit EXCEPT ![p] = rs_credit[p] - n]
        /\ Ready(passing_event(p)) /\ Events({}, next)
        /\ Fire(passing_event(p), {}, next, out)
        /\ out = IF n = 0 THEN Nothing
                 ELSE Post(preceding_func_inst_in(p), <<g>>)
                      \cup Post(rs_dispatch_credit_in, <<[name |-> p, credit |-> n]>>)
  BY PassingDoes, Zenon
<1>1. PICK next, out :
        /\ Len(g) = n /\ n <= rs_credit[p]
        /\ Cardinality(Open(t)) + n = Cardinality(Open(reservation_station[p]))
        /\ Cardinality(Open(t)) \in Nat
        /\ inst' = inst
        /\ reservation_station' = [reservation_station EXCEPT ![p] = t]
        /\ rs_credit' = [rs_credit EXCEPT ![p] = rs_credit[p] - n]
        /\ Ready(passing_event(p)) /\ Events({}, next)
        /\ Fire(passing_event(p), {}, next, out)
        /\ out = IF n = 0 THEN Nothing
                 ELSE Post(preceding_func_inst_in(p), <<g>>)
                      \cup Post(rs_dispatch_credit_in, <<[name |-> p, credit |-> n]>>)
  BY <1>0, Zenon
<1> DEFINE f == preceding_func_inst_in(p)
<1>2. /\ WiresOK'
      /\ Len(Instructions(f))' = Len(Instructions(f)) + n
      /\ \A q \in Pipe : StationCredits(q)' = StationCredits(q) + (IF q = p THEN n ELSE 0)
      /\ \A d \in LinkPort : d # f /\ d # rs_dispatch_credit_in => Quiet(d)
  BY <1>1, PassingSends
<1>3. InstInv' /\ More
  BY <1>1, InstSame, Zenon DEF CreditInv
<1>4. UNCHANGED <<fetch_credit, renaming_stage_queue, rob_credit, rob, dispatch_credit, inst_queue,
                  credit_map, dispatch_pending_queue, alu_queue>>
  BY Zenon DEF renamingVars, dispatchVars, fuVars
<1>5. FetchInv' /\ RobInv' /\ DispatchInv' /\ Increasing(FrontLine)'
  <2>1. UNCHANGED frontVars
    BY <1>4, Zenon DEF frontVars
  <2>2. \A d \in FrontPort : Quiet(d)
    BY <1>2, FrontPortsAre, Zenon
  <2> QED BY <1>3, <2>1, <2>2, FrontSame, Zenon
<1>6. /\ reservation_station' \in [Pipe -> Seq(StationEntry(DOMAIN inst'))]
      /\ Len(Unissued(reservation_station[p]))' = Cardinality(Open(t))
      /\ Len(Unissued(reservation_station[p])) = Cardinality(Open(reservation_station[p]))
      /\ \A q \in Pipe : q # p => reservation_station'[q] = reservation_station[q]
  BY <1>1, StationQueue
<1>7. /\ rs_credit' \in [Pipe -> Nat] /\ rs_credit'[p] = rs_credit[p] - n
      /\ \A q \in Pipe : q # p => rs_credit'[q] = rs_credit[q]
  <2>1. rs_credit \in [Pipe -> Nat]
    BY Zenon DEF CreditInv, FuInv
  <2>2. PICK k \in Nat : k = rs_credit[p] - n
    BY <1>1, <2>1
  <2>3. rs_credit' = [rs_credit EXCEPT ![p] = k]
    BY <1>1, <2>2, Zenon
  <2>4. /\ rs_credit' \in [Pipe -> Nat] /\ rs_credit'[p] = k
        /\ \A q \in Pipe : q # p => rs_credit'[q] = rs_credit[q]
    BY <2>1, <2>3
  <2> QED BY <2>2, <2>4, Zenon
<1>8. \A q \in Pipe : /\ Quiet(following_reservation_credit_in(q))
                      /\ Quiet(preceding_reservation_inst_in(q))
                      /\ q # p => Quiet(preceding_func_inst_in(q))
  BY <1>2, LinkPortHas, LinkPortsDiffer, Zenon
<1>9. ASSUME NEW q \in Pipe, q # p
      PROVE  /\ SameStation(q) /\ StationCredits(q)' = StationCredits(q)
             /\ SameFu(q)
  <2>1. StationCredits(q) \in Nat
    BY StationCreditsNat DEF CreditInv
  <2>2. StationCredits(q)' = StationCredits(q) + 0
    BY <1>2, <1>9, Zenon
  <2>3. StationCredits(q)' = StationCredits(q)
    BY <2>1, <2>2
  <2> QED BY <1>4, <1>6, <1>7, <1>8, <1>9, <2>3, Zenon DEF SameStation, SameFu
<1>10. StationLink(p)'
  <2>1. Instructions(preceding_reservation_inst_in(p))' = Instructions(preceding_reservation_inst_in(p))
    BY <1>8, QuietPortSame, Zenon
  <2>2. PICK x \in Nat, a \in Nat, i \in Nat, u \in Nat, l \in Nat :
          /\ x = credit_map[p] /\ i = Len(Instructions(preceding_reservation_inst_in(p)))
          /\ a = StationCredits(p) /\ u = Cardinality(Open(t)) /\ l = Len(dispatch_pending_queue[p])
    BY <1>1, StationNumbers, StationCreditsNat, Zenon DEF CreditInv
  <2>3. x + a + l + i + (u + n) = RsDepth
    BY <1>1, <1>6, <2>2, Zenon DEF CreditInv, StationInv, StationLink
  <2>4. x + (a + n) + l + i + u = RsDepth
    BY <2>3
  <2>5. StationCredits(p)' = StationCredits(p) + n
    BY <1>2, Zenon
  <2> QED BY <1>4, <1>6, <2>1, <2>2, <2>4, <2>5, Zenon DEF StationLink
<1>11. StationInv'
  BY <1>3, <1>4, <1>6, <1>9, <1>10, OneStation, Zenon
<1>12. FuLink(p)'
  <2>1. CreditsOn(following_reservation_credit_in(p))' = CreditsOn(following_reservation_credit_in(p))
    BY <1>8, QuietPortSame, Zenon
  <2>2. PICK x \in Nat, k \in Nat, i \in Nat, u \in Nat :
          /\ x = rs_credit[p] /\ k = CreditsOn(following_reservation_credit_in(p))
          /\ u = Len(alu_queue[p]) /\ i = Len(Instructions(f))
    BY FuNumbers, Zenon
  <2>3. x + k + i + u = FuDepth /\ n <= x
    BY <1>1, <2>2, Zenon DEF CreditInv, FuInv, FuLink
  <2>4. (x - n) + k + (i + n) + u = FuDepth
    BY <2>3
  <2> QED BY <1>2, <1>4, <1>7, <2>1, <2>2, <2>4, Zenon DEF FuLink
<1>13. alu_queue' \in [Pipe -> Seq(DOMAIN inst')]
  BY <1>1, <1>4, Zenon DEF CreditInv, FuInv
<1>14. FuInv'
  BY <1>7, <1>9, <1>12, <1>13, OneFu
<1> QED BY <1>2, <1>3, <1>5, <1>11, <1>14, Zenon DEF CreditInv

\* The dispatch stage sends each station what it chose for it.
LEMMA IssueInstStep ==
  ASSUME CreditInv, IssueInst_, UNCHANGED <<fetch_credit, renamingVars, rob, rsVars, fuVars>>
  PROVE  CreditInv'
<1> DEFINE c == dispatch_issue_events_
           to(p) == preceding_reservation_inst_in(p)
           dpq == dispatch_pending_queue
<1>1. PICK next, out :
        /\ next = IF inst_queue = << >> THEN {} ELSE {dispatch_select_events_}
        /\ out = UNION {Post(to(p), <<dpq[p]>>) : p \in {q \in Pipe : dpq[q] # << >>}}
        /\ Ready(c) /\ Fire(c, {}, next, out)
        /\ dispatch_pending_queue' = [p \in Pipe |-> << >>]
        /\ inst' = inst /\ inst_queue' = inst_queue /\ credit_map' = credit_map
  BY Zenon DEF IssueInst_
<1>2. Events({}, next) /\ c \notin LinkPort
  BY <1>1, LinkPortsDiffer DEF Events, UniqueEvent
<1>3. \A p \in Pipe : dpq[p] \in Seq(DOMAIN inst)
  BY StationNumbers, Zenon
<1>4. \A p \in Pipe : to(p) \in GroupPort /\ to(p) \in LinkPort /\ to(p) \notin FrontPort
  BY LinkPortHas, FrontPortsAre, Zenon
<1>5. \A p, q \in Pipe : p # q => to(p) # to(q)
  BY LinkPortsDiffer, Zenon
<1>6. \A p \in Pipe : dpq[p] # << >> => <<to(p), <<dpq[p]>>>> \in out
  BY <1>1 DEF Post
<1>7. ASSUME NEW mail \in out
      PROVE  \E p \in Pipe : dpq[p] # << >> /\ mail = <<to(p), <<dpq[p]>>>>
  BY <1>1, <1>7 DEF Post
<1> HIDE DEF to, dpq, c
<1>8. InstInv' /\ More
  BY <1>1, InstSame, Zenon DEF CreditInv
<1>9. Carries(out, DOMAIN inst')
  <2>1. ASSUME NEW mail \in out PROVE mail[2] \in Seq(MessageOf(mail[1], DOMAIN inst'))
    <3>0. PICK p \in Pipe : mail = <<to(p), <<dpq[p]>>>>
      BY <1>7
    <3>1. PICK g : g = <<dpq[p]>> /\ mail = <<to(p), g>>
      BY <3>0, Zenon
    <3>2. g \in Seq(MessageOf(to(p), DOMAIN inst))
      BY <1>3, <1>4, <3>1, GroupIsTyped, Zenon
    <3>3. mail[1] = to(p) /\ mail[2] = g
      BY <3>1
    <3> QED BY <1>1, <3>2, <3>3, Zenon
  <2> QED BY <2>1, Zenon DEF Carries
<1>10. WiresOK' /\ Delivered(out)
  BY <1>1, <1>2, <1>8, <1>9, EventStep, Zenon
<1>11. \A d \in LinkPort : (\A p \in Pipe : d # to(p)) => Quiet(d)
  <2>1. ASSUME NEW d \in LinkPort, \A p \in Pipe : d # to(p), NEW mail \in out
        PROVE  mail[1] # d
    <3>1. PICK p \in Pipe : mail = <<to(p), <<dpq[p]>>>>
      BY <1>7
    <3>2. mail[1] = to(p)
      BY <3>1
    <3> QED BY <2>1, <3>2, Zenon
  <2> QED BY <1>10, <2>1, Zenon DEF Delivered
<1>12. ASSUME NEW p \in Pipe
       PROVE  Len(Instructions(to(p)))' = Len(Instructions(to(p))) + Len(dpq[p])
  <2>1. Len(Instructions(to(p))) \in Nat
    BY <1>4, GroupWire, Zenon DEF CreditInv
  <2>2. CASE dpq[p] = << >>
    <3>1. ASSUME NEW mail \in out PROVE mail[1] # to(p)
      <4>1. PICK q \in Pipe : dpq[q] # << >> /\ mail = <<to(q), <<dpq[q]>>>>
        BY <1>7
      <4>2. mail[1] = to(q) /\ p # q
        BY <2>2, <4>1
      <4> QED BY <1>5, <4>2, Zenon
    <3>2. Quiet(to(p))
      BY <1>4, <1>10, <3>1, Zenon DEF Delivered
    <3>3. Instructions(to(p))' = Instructions(to(p))
      BY <3>2, QuietPortSame, Zenon
    <3>4. Len(dpq[p]) = 0
      BY <2>2
    <3> QED BY <2>1, <3>3, <3>4
  <2>3. CASE dpq[p] # << >>
    <3>1. PICK g : g = <<dpq[p]>>
      OBVIOUS
    <3>2. <<to(p), g>> \in out
      BY <1>6, <2>3, <3>1, Zenon
    <3>3. ASSUME NEW mail \in out, mail[1] = to(p) PROVE mail = <<to(p), g>>
      <4>1. PICK q \in Pipe : mail = <<to(q), <<dpq[q]>>>>
        BY <1>7
      <4>2. mail[1] = to(q)
        BY <4>1
      <4>3. p = q
        BY <1>5, <3>3, <4>2, Zenon
      <4> QED BY <3>1, <4>1, <4>3, Zenon
    <3>4. <<to(p), g>>[1] = to(p) /\ <<to(p), g>>[2] = g
      OBVIOUS
    <3>5. (CHOOSE mail \in out : mail[1] = to(p)) = <<to(p), g>>
      BY <3>2, <3>3, <3>4
    <3>6. Sent(out, to(p)) = g
      BY <3>2, <3>4, <3>5, Zenon DEF Sent
    <3>7. OnTheWay(to(p))' = OnTheWay(to(p)) \o <<dpq[p]>>
      BY <1>4, <1>10, <3>1, <3>6, Zenon DEF Delivered
    <3>8. dpq[p] \in Seq(DOMAIN inst')
      BY <1>1, <1>3, Zenon
    <3>9. Len(Instructions(to(p))') = Len(Instructions(to(p))) + Len(dpq[p])
      BY <1>4, <1>8, <3>7, <3>8, SendsGroup, Zenon DEF CreditInv
    <3> QED BY <3>9
  <2> QED BY <2>2, <2>3
<1>13. UNCHANGED <<fetch_credit, renaming_stage_queue, rob_credit, rob, dispatch_credit, inst_queue,
                   credit_map, reservation_station, rs_credit, alu_queue>>
  BY <1>1, Zenon DEF renamingVars, rsVars, fuVars
<1>14. FetchInv' /\ RobInv' /\ DispatchInv' /\ Increasing(FrontLine)'
  <2>1. UNCHANGED frontVars
    BY <1>13, Zenon DEF frontVars
  <2>2. \A d \in FrontPort : Quiet(d)
    BY <1>4, <1>11, FrontPortsAre, Zenon
  <2> QED BY <1>8, <2>1, <2>2, FrontSame, Zenon
<1>15. /\ \A q \in Pipe : Quiet(following_reservation_credit_in(q)) /\ Quiet(preceding_func_inst_in(q))
       /\ Quiet(rs_dispatch_credit_in)
  BY <1>11, LinkPortHas, LinkPortsDiffer, Zenon DEF to
<1>16. FuInv'
  BY <1>8, <1>13, <1>15, FusFrame, Zenon DEF CreditInv
<1>17. ASSUME NEW p \in Pipe PROVE StationLink(p)'
  <2>1. StationCredits(p)' = StationCredits(p) /\ StationCredits(p) \in Nat
    BY <1>15, StationCreditsSame, StationCreditsNat, Zenon DEF CreditInv
  <2>2. PICK x \in Nat, a \in Nat, i \in Nat, u \in Nat, l \in Nat :
          /\ x = credit_map[p] /\ i = Len(Instructions(to(p)))
          /\ a = StationCredits(p) /\ u = Len(Unissued(reservation_station[p]))
          /\ l = Len(dispatch_pending_queue[p])
    BY <2>1, StationNumbers, Zenon DEF to
  <2>3. x + a + l + i + u = RsDepth
    BY <2>2, Zenon DEF CreditInv, StationInv, StationLink, to
  <2>4. x + a + 0 + (i + l) + u = RsDepth
    BY <2>3
  <2>5. dispatch_pending_queue'[p] = << >> /\ Len(<< >>) = 0
    BY <1>1
  <2>6. Unissued(reservation_station[p])' = Unissued(reservation_station[p])
    BY <1>13, Zenon DEF Unissued
  <2>7. Len(Instructions(to(p)))' = i + l
    BY <1>12, <2>2, Zenon DEF dpq
  <2> QED BY <1>13, <2>1, <2>2, <2>4, <2>5, <2>6, <2>7, Zenon DEF StationLink, to
<1>18. StationInv'
  <2>1. << >> \in Seq(DOMAIN inst')
    OBVIOUS
  <2>2. dispatch_pending_queue' \in [Pipe -> Seq(DOMAIN inst')]
    BY <1>1, <2>1
  <2> QED BY <1>1, <1>13, <1>17, <2>2, Zenon DEF StationInv, CreditInv
<1> QED BY <1>8, <1>10, <1>14, <1>16, <1>18, Zenon DEF CreditInv

\* The line in front of the reorder buffer, and the entries' instructions in it.
LEMMA LineIs ==
  FrontLine = InLine(InstsOf(inst_queue), Instructions(preceding_dispatch_inst_in),
                     renaming_stage_queue, Instructions(preceding_renaming_inst_in))
BY Zenon DEF FrontLine, DispatchInsts, InLine, InstsOf

\* The line after a step, part by part.
LEMMA LineIsPrime ==
  FrontLine' = InLine(InstsOf(inst_queue'), Instructions(preceding_dispatch_inst_in)',
                      renaming_stage_queue', Instructions(preceding_renaming_inst_in)')
BY Zenon DEF FrontLine, DispatchInsts, InLine, InstsOf

\* The instructions of the dispatch queue's entries.
LEMMA EntryInsts ==
  ASSUME NEW I, NEW s \in Seq(DispatchEntry(I))
  PROVE  /\ InstsOf(s) \in Seq(I) /\ Len(InstsOf(s)) = Len(s)
         /\ \A k \in Nat : k <= Len(s) =>
               InstsOf(SubSeq(s, k + 1, Len(s))) = SubSeq(InstsOf(s), k + 1, Len(s))
         /\ \A g \in Seq(DispatchEntry(I)) : InstsOf(s \o g) = InstsOf(s) \o InstsOf(g)
<1>1. \A e \in DispatchEntry(I) : e.inst \in I
  BY DEF DispatchEntry
<1> QED BY <1>1, InstsOfParts

\* Entries that have been issued leave the dispatch queue.
LEMMA PopIssueQueueStep ==
  ASSUME CreditInv, PopIssueQueue_, UNCHANGED <<fetch_credit, renamingVars, rob, rsVars, fuVars>>
  PROVE  CreditInv'
<1>1. PICK I : I = DOMAIN inst
  OBVIOUS
<1>2. PICK s \in Seq(DispatchEntry(I)) : s = inst_queue
  BY <1>1, Zenon DEF CreditInv, DispatchInv
<1> DEFINE c == dispatch_pop_events_
           S == {k \in 0 .. Len(s) : \A j \in 1 .. k : s[j].is_issued}
<1>3. Len(s) \in Nat /\ S \in SUBSET (0 .. Len(s)) /\ 0 \in S
  BY <1>2
<1>4. Max(S) \in S /\ Max(S) \in 0 .. Len(s)
  <2> HIDE DEF S
  <2> QED BY <1>3, MaxIs
<1>5. PICK k \in Nat : k = Max(S) /\ k <= Len(s) /\ \A j \in 1 .. k : s[j].is_issued
  <2>1. \A j \in 1 .. Max(S) : s[j].is_issued
    BY <1>4
  <2> HIDE DEF S
  <2>2. Max(S) \in Nat /\ Max(S) <= Len(s)
    BY <1>3, <1>4
  <2> QED BY <2>1, <2>2, Zenon
<1>6. PICK next :
        /\ next = IF inst_queue' = << >> THEN {}
                  ELSE {dispatch_pop_events_, dispatch_select_events_}
        /\ Ready(c) /\ Fire(c, {}, next, Nothing)
        /\ inst_queue' = SubSeq(s, k + 1, Len(s))
        /\ inst' = inst /\ credit_map' = credit_map
        /\ dispatch_pending_queue' = dispatch_pending_queue
  BY <1>2, <1>5, Zenon DEF PopIssueQueue_
<1>7. Events({}, next) /\ c \notin LinkPort
  BY <1>6, LinkPortsDiffer DEF Events, UniqueEvent
<1> HIDE DEF S, c
<1>8. InstInv' /\ More
  BY <1>6, InstSame, Zenon DEF CreditInv
<1>9. WiresOK' /\ \A d \in LinkPort : Quiet(d)
  <2>1. Carries(Nothing, DOMAIN inst')
    BY DEF Carries, Nothing
  <2>2. WiresOK' /\ Delivered(Nothing)
    BY <1>6, <1>7, <1>8, <2>1, EventStep, Zenon
  <2>3. ASSUME NEW d \in LinkPort PROVE Quiet(d)
    <3>1. \A mail \in Nothing : mail[1] # d
      BY DEF Nothing
    <3> QED BY <2>2, <3>1, Zenon DEF Delivered
  <2> QED BY <2>2, <2>3
<1>10. UNCHANGED <<fetch_credit, renaming_stage_queue, rob_credit, rob, dispatch_credit,
                   credit_map, dispatch_pending_queue, reservation_station, rs_credit, alu_queue>>
  BY <1>6, Zenon DEF renamingVars, rsVars, fuVars
<1>11. FetchInv' /\ RobInv'
  <2>1. SameFetch /\ SameRob
    BY <1>9, <1>10, LinkPortHas, Zenon DEF SameFetch, SameRob
  <2> QED BY <1>8, <2>1, FetchFrame, RobFrame, Zenon DEF CreditInv
<1>12. StationInv' /\ FuInv'
  <2>1. UNCHANGED backVars
    BY <1>10, Zenon DEF backVars
  <2> QED BY <1>8, <1>9, <2>1, BackSame, Zenon
<1>13. PICK t \in Seq(DispatchEntry(I)) :
         t = SubSeq(s, k + 1, Len(s)) /\ Cardinality(Open(t)) = Cardinality(Open(s))
  BY <1>5, OpenDropped, Zenon
<1>14. DispatchInv'
  <2>1. Len(Unissued(s)) = Cardinality(Open(s)) /\ Len(Unissued(t)) = Cardinality(Open(t))
    BY DispatchUnissued, Zenon
  <2>2. CreditsOn(following_renaming_credit_in)' = CreditsOn(following_renaming_credit_in)
        /\ Instructions(preceding_dispatch_inst_in)' = Instructions(preceding_dispatch_inst_in)
    BY <1>9, LinkPortHas, QuietPortSame, Zenon
  <2>3. inst_queue' = t /\ t \in Seq(DispatchEntry(DOMAIN inst'))
    BY <1>1, <1>6, <1>13, Zenon
  <2>4. Unissued(inst_queue)' = Unissued(t)
    BY <2>3, Zenon DEF Unissued
  <2> QED BY <1>2, <1>10, <1>13, <2>1, <2>2, <2>3, <2>4, Zenon DEF DispatchInv, DispatchLink, CreditInv
<1>15. Increasing(FrontLine)'
  <2>1. PICK a \in Seq(I), b \in Seq(I), r \in Seq(I), f \in Seq(I) :
          /\ a = InstsOf(s) /\ b = Instructions(preceding_dispatch_inst_in)
          /\ r = renaming_stage_queue /\ f = Instructions(preceding_renaming_inst_in)
    BY <1>1, EntryInsts, LineParts, Zenon
  <2>2. Len(a) = Len(s) /\ InstsOf(SubSeq(s, k + 1, Len(s))) = SubSeq(a, k + 1, Len(a))
    <3>1. Len(InstsOf(s)) = Len(s)
      BY EntryInsts, Zenon
    <3>2. InstsOf(SubSeq(s, k + 1, Len(s))) = SubSeq(InstsOf(s), k + 1, Len(s))
      BY <1>5, EntryInsts
    <3> QED BY <2>1, <3>1, <3>2, Zenon
  <2>3. Increasing(InLine(a, b, r, f))
    BY <1>2, <2>1, LineIs, Zenon DEF CreditInv
  <2>4. Increasing(InLine(SubSeq(a, k + 1, Len(a)), b, r, f))
    BY <1>5, <2>2, <2>3, LineDropped, Zenon
  <2>5. /\ Instructions(preceding_dispatch_inst_in)' = b /\ renaming_stage_queue' = r
        /\ Instructions(preceding_renaming_inst_in)' = f
    BY <1>9, <1>10, <2>1, LinkPortHas, QuietPortSame, Zenon
  <2>6. FrontLine' = InLine(SubSeq(a, k + 1, Len(a)), b, r, f)
    BY <1>6, <2>2, <2>5, LineIsPrime, Zenon
  <2> QED BY <2>4, <2>6, Zenon DEF Increasing
<1> QED BY <1>8, <1>9, <1>11, <1>12, <1>14, <1>15, Zenon DEF CreditInv

\* New instructions come to the dispatch queue.
LEMMA DispatchAllocateStep ==
  ASSUME CreditInv, DispatchAllocateInst_,
         UNCHANGED <<fetch_credit, renamingVars, rob, rsVars, fuVars>>
  PROVE  CreditInv'
<1> DEFINE c == preceding_dispatch_inst_in
           entry(i) == [inst |-> i, is_issued |-> FALSE]
<1>1. /\ Ready(c) /\ Fire(c, {dispatch_select_events_, dispatch_pop_events_}, {}, Nothing)
      /\ inst_queue' = inst_queue \o [k \in DOMAIN Message(c) |-> entry(Message(c)[k])]
      /\ inst' = inst /\ credit_map' = credit_map
      /\ dispatch_pending_queue' = dispatch_pending_queue
  BY DEF DispatchAllocateInst_
<1>2. Events({dispatch_select_events_, dispatch_pop_events_}, {})
  BY DEF Events, UniqueEvent
<1>3. c \in LinkPort /\ c \in GroupPort
  BY LinkPortHas
<1>4. InstInv' /\ More
  BY <1>1, InstSame, Zenon DEF CreditInv
<1>5. /\ WiresOK' /\ \A d \in LinkPort : d # c => Quiet(d)
      /\ OnTheWay(c) # << >> /\ Message(c) = Head(OnTheWay(c))
      /\ OnTheWay(c)' = Tail(OnTheWay(c)) \o << >>
  BY <1>1, <1>2, <1>3, <1>4, TakingStep
<1>6. UNCHANGED <<fetch_credit, renaming_stage_queue, rob_credit, rob, dispatch_credit,
                  credit_map, dispatch_pending_queue, reservation_station, rs_credit, alu_queue>>
  BY <1>1, Zenon DEF renamingVars, rsVars, fuVars
<1>7. FetchInv' /\ RobInv'
  <2>1. SameFetch /\ SameRob
    BY <1>5, <1>6, LinkPortHas, LinkPortsDiffer, Zenon DEF SameFetch, SameRob
  <2> QED BY <1>4, <2>1, FetchFrame, RobFrame, Zenon DEF CreditInv
<1>8. StationInv' /\ FuInv'
  <2>1. UNCHANGED backVars
    BY <1>6, Zenon DEF backVars
  <2>2. \A d \in LinkPort : d \notin FrontPort => Quiet(d)
    BY <1>5, Zenon DEF FrontPort
  <2> QED BY <1>4, <2>1, <2>2, BackSame, Zenon
<1>9. PICK I : I = DOMAIN inst
  OBVIOUS
<1>10. PICK s \in Seq(DispatchEntry(I)) : s = inst_queue
  BY <1>9, Zenon DEF CreditInv, DispatchInv
<1>11. PICK m \in Seq(I) : m = Message(c) /\ m \o Instructions(c)' = Instructions(c)
                         /\ Instructions(c)' \in Seq(I)
                         /\ Len(m) \in Nat /\ Len(Instructions(c)') \in Nat
                         /\ Len(Instructions(c)) = Len(m) + Len(Instructions(c)')
  BY <1>3, <1>5, <1>9, TakesGroup, Zenon DEF CreditInv
<1> HIDE DEF c
<1>12. PICK g : g = [k \in DOMAIN m |-> entry(m[k])]
  OBVIOUS
<1>13. /\ g \in Seq(DispatchEntry(I)) /\ Len(g) = Len(m)
       /\ \A k \in 1 .. Len(g) : ~g[k].is_issued
       /\ InstsOf(g) = m
  <2>1. ASSUME NEW i \in I PROVE entry(i) \in DispatchEntry(I) /\ ~entry(i).is_issued /\ entry(i).inst = i
    BY DEF DispatchEntry
  <2> HIDE DEF entry
  <2>2. DOMAIN m = 1 .. Len(m) /\ \A k \in 1 .. Len(m) : m[k] \in I
    OBVIOUS
  <2>3. \A k \in 1 .. Len(m) : g[k] \in DispatchEntry(I) /\ ~g[k].is_issued /\ g[k].inst = m[k]
    BY <1>12, <2>1, <2>2
  <2>4. g = [k \in 1 .. Len(m) |-> g[k]]
    BY <1>12, <2>2
  <2>5. g \in Seq(DispatchEntry(I)) /\ Len(g) = Len(m)
    BY <1>11, <2>3, <2>4
  <2>6. InstsOf(g) \in Seq(I) /\ Len(InstsOf(g)) = Len(g)
    BY <2>5, EntryInsts, Zenon
  <2>7. DOMAIN g = 1 .. Len(g)
    BY <2>5
  <2>8. \A i \in 1 .. Len(g) : InstsOf(g)[i] = m[i]
    BY <2>3, <2>5, <2>7 DEF InstsOf
  <2>9. InstsOf(g) = m
    BY <2>5, <2>6, <2>8, SameSeq
  <2> QED BY <2>3, <2>5, <2>9, Zenon
<1> HIDE DEF entry
<1>14. PICK t \in Seq(DispatchEntry(I)) : t = s \o g
  BY <1>13, ConcatFacts, Zenon
<1>15. Cardinality(Open(t)) = Cardinality(Open(s)) + Len(m)
  BY <1>13, <1>14, OpenMore, Zenon
<1>16. inst_queue' = t
  BY <1>1, <1>10, <1>11, <1>12, <1>14, Zenon
<1>17. DispatchInv'
  <2>1. /\ Len(Unissued(s)) = Cardinality(Open(s)) /\ Cardinality(Open(s)) \in Nat
        /\ Len(Unissued(t)) = Cardinality(Open(t))
    BY DispatchUnissued, Zenon
  <2>2. CreditsOn(following_renaming_credit_in)' = CreditsOn(following_renaming_credit_in)
    BY <1>5, LinkPortHas, LinkPortsDiffer, QuietPortSame, Zenon DEF c
  <2>3. Unissued(inst_queue)' = Unissued(t)
    BY <1>16, Zenon DEF Unissued
  <2>4. PICK x \in Nat, a \in Nat, i \in Nat, b \in Nat, n \in Nat, u \in Nat :
          /\ x = dispatch_credit /\ a = CreditsOn(following_renaming_credit_in)
          /\ i = Len(Instructions(c)) /\ b = Len(Instructions(c)') /\ n = Len(m)
          /\ u = Cardinality(Open(s)) /\ i = n + b
    <3>1. CreditsOn(following_renaming_credit_in) \in Nat
      BY LinkPortHas, CreditsAreNat, Zenon DEF CreditInv
    <3>2. Len(Instructions(c)) \in Nat
      BY <1>3, GroupWire, Zenon DEF CreditInv
    <3> QED BY <1>11, <2>1, <3>1, <3>2, Zenon DEF CreditInv, DispatchInv
  <2>5. x + a + i + u = DispatchDepth
    BY <1>10, <2>1, <2>4, Zenon DEF CreditInv, DispatchInv, DispatchLink, c
  <2>6. x + a + b + (u + n) = DispatchDepth
    <3>1. i = n + b
      BY <2>4, Zenon
    <3> QED BY <2>5, <3>1
  <2>7. DispatchLink'
    BY <1>6, <1>15, <2>1, <2>2, <2>3, <2>4, <2>6, Zenon DEF DispatchLink, c
  <2>8. inst_queue' \in Seq(DispatchEntry(DOMAIN inst'))
    BY <1>1, <1>9, <1>16, Zenon
  <2> QED BY <1>6, <2>4, <2>7, <2>8, Zenon DEF DispatchInv
<1>18. Increasing(FrontLine)'
  <2>1. PICK a \in Seq(I), b \in Seq(I), r \in Seq(I), f \in Seq(I) :
          /\ a = InstsOf(s) /\ b = Instructions(c)'
          /\ r = renaming_stage_queue /\ f = Instructions(preceding_renaming_inst_in)
    BY <1>9, <1>11, EntryInsts, LineParts, Zenon
  <2>2. InstsOf(s \o g) = InstsOf(s) \o InstsOf(g)
    BY <1>13, EntryInsts
  <2>3. InstsOf(t) = a \o m
    BY <1>13, <1>14, <2>1, <2>2, Zenon
  <2>4. FrontLine = InLine(a, m \o b, r, f)
    BY <1>10, <1>11, <2>1, LineIs, Zenon DEF c
  <2>5. InLine(a, m \o b, r, f) = InLine(a \o m, b, r, f)
    BY LineMoved
  <2>6. renaming_stage_queue' = r /\ Instructions(preceding_renaming_inst_in)' = f
    BY <1>5, <1>6, <2>1, LinkPortHas, LinkPortsDiffer, QuietPortSame, Zenon DEF c
  <2>7. FrontLine' = InLine(a \o m, b, r, f)
    BY <1>16, <2>1, <2>3, <2>6, LineIsPrime, Zenon DEF c
  <2> QED BY <2>4, <2>5, <2>7, Zenon DEF Increasing, CreditInv
<1> QED BY <1>4, <1>5, <1>7, <1>8, <1>17, <1>18, Zenon DEF CreditInv

\* The ring as the reorder buffer names it and as the proofs about it do.
LEMMA RingOps ==
  ASSUME NEW q, NEW v
  PROVE  /\ RobQueue!push(q, v) = RobRing!push(q, v)
         /\ RobQueue!pop(q) = RobRing!pop(q)
         /\ RobQueue!Contents(q) = RobRing!Contents(q)
         /\ RobQueue!size(q) = RobRing!size(q)
BY Zenon DEF RobQueue!push, RobRing!push, RobQueue!pop, RobRing!pop, RobQueue!Contents,
   RobRing!Contents, RobQueue!SlotOf, RobRing!SlotOf, RobQueue!size, RobRing!size,
   RobQueue!incrementIndexValue_, RobRing!incrementIndexValue_

\* The entries of a ring are of the instructions in ids.
RingHolds(q, ids) == \A k \in 1 .. q.usage : RobQueue!Contents(q)[k].inst \in ids

\* A push on a reorder buffer that has room: one entry more, all of known
\* instructions.
LEMMA RingPushed ==
  ASSUME NEW q, RobRing!Ring(q), q.usage < RobDepth, NEW ids, RingHolds(q, ids),
         NEW v \in RobEntry, v.inst \in ids
  PROVE  /\ RobRing!Ring(RobQueue!push(q, v)) /\ RingHolds(RobQueue!push(q, v), ids)
         /\ RobQueue!push(q, v).usage = q.usage + 1
<1>1. RobDepth \in Nat \ {0}
  BY SizesAssumption
<1>2. RobRing!Fields(q)
  BY <1>1, RobRing!RingFields
<1>3. ~RobRing!full(q) /\ q.usage \in Nat
  BY <1>1, <1>2 DEF RobRing!Fields, RobRing!full, RobRing!size
<1>4. PICK p : p = RobQueue!push(q, v) /\ p = RobRing!push(q, v)
  BY RingOps, Zenon
<1>5. RobRing!Ring(p) /\ p.usage = q.usage + 1
  BY <1>1, <1>3, <1>4, RobRing!PushKeepsRing, ZenonT(40)
<1>6. RobRing!Contents(q) \in Seq(RobEntry) /\ Len(RobRing!Contents(q)) = q.usage
  BY <1>1, RobRing!ContentsIsSeq
<1>7. RobRing!Contents(p) = Append(RobRing!Contents(q), v)
  BY <1>1, <1>3, <1>4, RobRing!PushAppends
<1>8. PICK s \in Seq(RobEntry) : s = RobRing!Contents(q) /\ s = RobQueue!Contents(q) /\ Len(s) = q.usage
  BY <1>6, RingOps, Zenon
<1>9. RobQueue!Contents(p) = Append(s, v)
  BY <1>7, <1>8, RingOps, Zenon
<1>10. ASSUME NEW k \in 1 .. p.usage PROVE Append(s, v)[k].inst \in ids
  <2>1. CASE k = Len(s) + 1
    BY <2>1
  <2>2. CASE k # Len(s) + 1
    <3>1. k \in 1 .. q.usage
      BY <1>3, <1>5, <1>8, <2>2
    <3>2. Append(s, v)[k] = s[k]
      BY <1>8, <3>1
    <3>3. s[k].inst \in ids
      BY <1>8, <3>1, Zenon DEF RingHolds
    <3> QED BY <3>2, <3>3, Zenon
  <2> QED BY <2>1, <2>2
<1>11. RingHolds(p, ids)
  BY <1>9, <1>10, Zenon DEF RingHolds
<1> QED BY <1>4, <1>5, <1>11, Zenon

\* A pop of a reorder buffer that is not empty: one entry less.
LEMMA RingPopped ==
  ASSUME NEW q, RobRing!Ring(q), q.usage # 0, NEW ids, RingHolds(q, ids)
  PROVE  /\ RobRing!Ring(RobQueue!pop(q)) /\ RingHolds(RobQueue!pop(q), ids)
         /\ RobQueue!pop(q).usage = q.usage - 1
<1>1. RobDepth \in Nat \ {0}
  BY SizesAssumption
<1>2. RobRing!Fields(q)
  BY <1>1, RobRing!RingFields
<1>3. ~RobRing!empty(q) /\ q.usage \in Nat
  BY <1>1, <1>2 DEF RobRing!Fields, RobRing!empty, RobRing!size
<1>4. PICK p : p = RobQueue!pop(q) /\ p = RobRing!pop(q)
  BY RingOps, Zenon
<1>5. RobRing!Ring(p) /\ p.usage = q.usage - 1
  BY <1>1, <1>3, <1>4, RobRing!PopKeepsRing
<1>6. RobRing!Contents(q) \in Seq(RobEntry) /\ Len(RobRing!Contents(q)) = q.usage
  BY <1>1, RobRing!ContentsIsSeq
<1>7. RobRing!Contents(q) # << >> /\ RobRing!Contents(p) = Tail(RobRing!Contents(q))
  BY <1>1, <1>3, <1>4, RobRing!PopTakesTail
<1>8. PICK s \in Seq(RobEntry) :
        s = RobRing!Contents(q) /\ s = RobQueue!Contents(q) /\ Len(s) = q.usage /\ s # << >>
  BY <1>6, <1>7, RingOps, Zenon
<1>9. RobQueue!Contents(p) = Tail(s)
  BY <1>7, <1>8, RingOps, Zenon
<1>10. ASSUME NEW k \in 1 .. p.usage PROVE Tail(s)[k].inst \in ids
  <2>1. k + 1 \in 1 .. q.usage
    BY <1>3, <1>5
  <2>2. Tail(s)[k] = s[k + 1]
    <3>1. k \in 1 .. Len(s) - 1
      BY <1>3, <1>5, <1>8
    <3> QED BY <1>8, <3>1, HeadTail
  <2>3. s[k + 1].inst \in ids
    BY <1>8, <2>1, Zenon DEF RingHolds
  <2> QED BY <2>2, <2>3, Zenon
<1>11. RingHolds(p, ids)
  BY <1>9, <1>10, Zenon DEF RingHolds
<1> QED BY <1>4, <1>5, <1>11, Zenon

\* One turn of the loop that allocates entries.
PushEntry(s, i) ==
    [rob |-> RobQueue!push(s.rob, [inst |-> i, finish |-> FALSE]),
     inst |-> [s.inst EXCEPT ![i].RobTag = s.rob.tail]]

Unfolded(allocated, t, start, group) ==
    /\ allocated[0] = start
    /\ \A k \in 1 .. t : allocated[k] = PushEntry(allocated[k - 1], group[k])

\* AllocateRob_ pushes the group's instructions one after the other.
LEMMA AllocatedUnfolds ==
  ASSUME NEW t \in Nat, NEW group, NEW start, NEW allocated,
         allocated = CHOOSE f : f = [k \in 0 .. t |->
                        IF k = 0 THEN start ELSE PushEntry(f[k - 1], group[k])]
  PROVE  Unfolded(allocated, t, start, group)
<1> DEFINE Turns(m, u) ==
             u = [k \in 0 .. m |-> IF k = 0 THEN start ELSE PushEntry(u[k - 1], group[k])]
           T == {m \in Nat : \E u : Turns(m, u)}
<1>1. 0 \in T
  <2>1. PICK u : u = [k \in 0 .. 0 |-> start]
    OBVIOUS
  <2>2. Turns(0, u)
    BY <2>1
  <2> QED BY <2>2
<1>2. ASSUME NEW m \in Nat, m \in T PROVE m + 1 \in T
  <2>1. PICK u : Turns(m, u)
    BY <1>2
  <2>2. PICK x : x = PushEntry(u[m], group[m + 1])
    OBVIOUS
  <2>3. PICK v : v = [k \in 0 .. m + 1 |-> IF k = m + 1 THEN x ELSE u[k]]
    OBVIOUS
  <2>4. ASSUME NEW k \in 0 .. m + 1
        PROVE  v[k] = IF k = 0 THEN start ELSE PushEntry(v[k - 1], group[k])
    <3>1. CASE k = m + 1
      <4>1. v[k] = x /\ v[k - 1] = u[m] /\ k # 0
        BY <2>3, <3>1
      <4> QED BY <2>2, <3>1, <4>1, Zenon
    <3>2. CASE k # m + 1
      <4>1. k \in 0 .. m /\ v[k] = u[k] /\ (k # 0 => v[k - 1] = u[k - 1])
        BY <2>3, <3>2
      <4>2. u[k] = IF k = 0 THEN start ELSE PushEntry(u[k - 1], group[k])
        BY <2>1, <4>1, Zenon
      <4> QED BY <4>1, <4>2, Zenon
    <3> QED BY <3>1, <3>2
  <2>5. Turns(m + 1, v)
    BY <2>3, <2>4, Zenon
  <2> QED BY <2>5
<1>3. t \in T
  <2> HIDE DEF T
  <2> QED BY <1>1, <1>2, NatSetInduction
<1>4. Turns(t, allocated)
  BY <1>3, Zenon
<1>5. \A k \in 0 .. t : allocated[k] = IF k = 0 THEN start
                                       ELSE PushEntry(allocated[k - 1], group[k])
  BY <1>4, Zenon
<1>6. 0 \in 0 .. t /\ \A k \in 1 .. t : k \in 0 .. t /\ k # 0
  OBVIOUS
<1> QED BY <1>5, <1>6, Zenon DEF Unfolded

\* What a turn keeps.
Allocated(s, n, u) ==
    /\ \A j \in 1 .. n : SameRegs(inst, s.inst, j) /\ SameFlags(inst, s.inst, j)
    /\ Program(s.inst, n) /\ RobRing!Ring(s.rob) /\ RingHolds(s.rob, 1 .. n)
    /\ s.rob.usage = u

\* One of those pushes.
LEMMA PushEntryKeeps ==
  ASSUME NEW n \in Nat, NEW u \in Nat, u < RobDepth, NEW s, Allocated(s, n, u), NEW i \in 1 .. n
  PROVE  Allocated(PushEntry(s, i), n, u + 1)
<1>1. PICK e : e = [inst |-> i, finish |-> FALSE]
  OBVIOUS
<1>2. e \in RobEntry /\ e.inst \in 1 .. n
  BY <1>1 DEF RobEntry
<1>3. PICK q, f, g : q = s.rob /\ f = s.inst /\ g = [f EXCEPT ![i].RobTag = q.tail]
  OBVIOUS
<1>4. PushEntry(s, i).rob = RobQueue!push(q, e) /\ PushEntry(s, i).inst = g
  BY <1>1, <1>3 DEF PushEntry
<1>5. /\ RobRing!Ring(RobQueue!push(q, e)) /\ RingHolds(RobQueue!push(q, e), 1 .. n)
      /\ RobQueue!push(q, e).usage = u + 1
  <2>1. RobRing!Ring(q) /\ q.usage = u /\ RingHolds(q, 1 .. n)
    BY <1>3, Zenon DEF Allocated
  <2>2. q.usage < RobDepth
    BY <2>1, Zenon
  <2>3. /\ RobRing!Ring(RobQueue!push(q, e)) /\ RingHolds(RobQueue!push(q, e), 1 .. n)
        /\ RobQueue!push(q, e).usage = q.usage + 1
    BY <1>2, <2>1, <2>2, RingPushed
  <2> QED BY <2>1, <2>3, Zenon
<1>6. Program(g, n) /\ \A j \in 1 .. n : SameRegs(inst, g, j) /\ SameFlags(inst, g, j)
  <2>1. Program(f, n)
    BY <1>3, Zenon DEF Allocated
  <2>2. /\ DOMAIN g = DOMAIN f /\ g = [j \in DOMAIN g |-> g[j]]
        /\ \A j \in DOMAIN f : j # i => g[j] = f[j]
    BY <1>3
  <2>3. ASSUME i \in DOMAIN f PROVE Foreseen(g[i]) /\ SameRegs(f, g, i) /\ SameFlags(f, g, i)
    <3>1. PICK r : g[i] = [f[i] EXCEPT !.RobTag = r]
      BY <1>3, <2>3
    <3>2. Foreseen(f[i])
      BY <2>1, <2>3, ProgramIsSeq, Zenon DEF Program
    <3> QED BY <3>1, <3>2 DEF Foreseen, SameRegs, SameFlags
  <2>4. DOMAIN f = 1 .. n
    BY <2>1, ProgramIsSeq, Zenon
  <2>5. \A j \in 1 .. n : SameRegs(f, g, j) /\ SameFlags(f, g, j)
    BY <2>2, <2>3, <2>4, Zenon DEF SameRegs, SameFlags
  <2>6. \A j \in 1 .. n : SameRegs(inst, f, j) /\ SameFlags(inst, f, j)
    BY <1>3, Zenon DEF Allocated
  <2>7. \A j \in 1 .. n : SameRegs(inst, g, j) /\ SameFlags(inst, g, j)
    BY <2>5, <2>6, Zenon DEF SameRegs, SameFlags
  <2> QED BY <2>1, <2>2, <2>3, <2>7, ProgramExcept, Zenon
<1> QED BY <1>4, <1>5, <1>6, Zenon DEF Allocated

\* All of those pushes: the reorder buffer holds the group, and overflows
\* nowhere.
LEMMA AllocatedIs ==
  ASSUME NEW n \in Nat, NEW group \in Seq(1 .. n), NEW start, NEW u \in Nat,
         u + Len(group) <= RobDepth, Allocated(start, n, u), NEW allocated,
         allocated = CHOOSE f : f = [k \in 0 .. Len(group) |->
                        IF k = 0 THEN start ELSE PushEntry(f[k - 1], group[k])]
  PROVE  Allocated(allocated[Len(group)], n, u + Len(group))
<1>1. PICK t \in Nat : t = Len(group) /\ u + t <= RobDepth
  OBVIOUS
<1>2. RobDepth \in Nat
  BY SizesAssumption
<1>3. /\ allocated[0] = start
      /\ \A k \in 1 .. t : allocated[k] = PushEntry(allocated[k - 1], group[k])
  <2>1. allocated = CHOOSE f : f = [k \in 0 .. t |->
                        IF k = 0 THEN start ELSE PushEntry(f[k - 1], group[k])]
    BY <1>1, Zenon
  <2>2. Unfolded(allocated, t, start, group)
    BY <2>1, AllocatedUnfolds, Zenon
  <2> QED BY <2>2, Zenon DEF Unfolded
<1> DEFINE H == {m \in Nat : m <= t => Allocated(allocated[m], n, u + m)}
<1>4. 0 \in H
  <2>1. u + 0 = u
    OBVIOUS
  <2> QED BY <1>3, <2>1
<1>5. ASSUME NEW m \in Nat, m \in H PROVE m + 1 \in H
  <2>1. ASSUME m + 1 <= t PROVE Allocated(allocated[m + 1], n, u + (m + 1))
    <3>1. /\ m + 1 \in 1 .. t /\ (m + 1) - 1 = m /\ Allocated(allocated[m], n, u + m)
          /\ u + m \in Nat /\ u + m < RobDepth /\ (u + m) + 1 = u + (m + 1)
      BY <1>1, <1>2, <1>5, <2>1
    <3>2. allocated[m + 1] = PushEntry(allocated[m], group[m + 1])
      BY <1>3, <3>1
    <3>3. group[m + 1] \in 1 .. n
      BY <1>1, <3>1
    <3>4. Allocated(PushEntry(allocated[m], group[m + 1]), n, (u + m) + 1)
      BY <3>1, <3>3, PushEntryKeeps, Zenon
    <3> QED BY <3>1, <3>2, <3>4, Zenon
  <2> QED BY <2>1
<1>6. \A m \in Nat : m \in H
  <2> HIDE DEF H
  <2> QED BY <1>4, <1>5, NatSetInduction
<1>7. t <= t
  OBVIOUS
<1>8. Allocated(allocated[t], n, u + t)
  BY <1>6, <1>7, Zenon
<1> QED BY <1>1, <1>8, Zenon

\* allocated is what AllocateRob_ computes from start, one entry of g after another.
AllocatedBy(allocated, start, g) ==
  allocated = CHOOSE f : f = [k \in 0 .. Len(g) |->
                 IF k = 0 THEN start ELSE PushEntry(f[k - 1], g[k])]

\* The step of AllocateRob_ that pushes an entry for each instruction of g.
Allocating(n, g, start, allocated) ==
  /\ DOMAIN inst = 1 .. n
  /\ g = Message(preceding_rob_inst_in)
  /\ Ready(preceding_rob_inst_in)
  /\ Fire(preceding_rob_inst_in, {}, {commit_event}, Nothing)
  /\ start.rob = rob /\ start.inst = inst /\ Allocated(start, n, rob.usage)
  /\ rob.usage \in Nat /\ rob.usage + Len(g) <= RobDepth
  /\ AllocatedBy(allocated, start, g)
  /\ rob' = allocated[Len(g)].rob /\ inst' = allocated[Len(g)].inst

\* AllocateRob_ is such a step.
LEMMA AllocateRobUnfolds ==
  ASSUME CreditInv, AllocateRob_
  PROVE  \E n \in Nat, g \in Seq(DOMAIN inst) : \E start, allocated : Allocating(n, g, start, allocated)
<1>1. PICK n \in Nat : Program(inst, n)
  BY Zenon DEF CreditInv, InstInv
<1>2. DOMAIN inst = 1 .. n
  BY <1>1, ProgramIsSeq, Zenon
<1> DEFINE c == preceding_rob_inst_in
<1>3. c \in GroupPort /\ c \in LinkPort /\ Ready(c)
  BY LinkPortHas, Zenon DEF AllocateRob_
<1>4. Message(c) \in Seq(1 .. n) /\ Len(Message(c)) \in Nat /\ Len(Message(c)) <= Len(Instructions(c))
  <2>1. PICK w \in Seq(Seq(DOMAIN inst)) : w = OnTheWay(c)
    BY <1>3, GroupWire, Zenon DEF CreditInv
  <2>2. OnTheWay(c) # << >> /\ Message(c) = Head(OnTheWay(c))
    <3>1. now[c] # << >> /\ Message(c) = Head(now[c])
      BY <1>3, Zenon DEF Ready, Pending, Message
    <3>2. PICK M : now[c] \in Seq(M) /\ later[c] \in Seq(M)
      BY <1>3, Zenon DEF CreditInv, WiresOK, Typed
    <3>3. PICK a \in Seq(M), b \in Seq(M) : a = now[c] /\ b = later[c]
      BY <3>2, Zenon
    <3>4. a # << >> => a \o b # << >> /\ Head(a \o b) = Head(a)
      OBVIOUS
    <3> QED BY <3>1, <3>3, <3>4, Zenon DEF OnTheWay
  <2> HIDE DEF c
  <2>3. /\ Head(w) \in Seq(DOMAIN inst) /\ Len(Head(w)) \in Nat /\ Len(Joined(Tail(w))) \in Nat
        /\ Len(Joined(w)) = Len(Head(w)) + Len(Joined(Tail(w)))
    BY <2>1, <2>2, LenJoinedTail, Zenon
  <2>4. Len(Head(w)) <= Len(Joined(w))
    <3>1. PICK x \in Nat, y \in Nat : x = Len(Head(w)) /\ y = Len(Joined(Tail(w)))
      BY <2>3, Zenon
    <3>2. Len(Joined(w)) = x + y
      BY <2>3, <3>1, Zenon
    <3> QED BY <3>1, <3>2
  <2> QED BY <1>2, <2>1, <2>2, <2>3, <2>4, Zenon DEF Instructions
<1>5. PICK g \in Seq(1 .. n) : g = Message(c) /\ Len(g) \in Nat /\ Len(g) <= Len(Instructions(c))
  BY <1>4, Zenon
<1>6. RobRing!Ring(rob) /\ RobHolds(1 .. n) /\ RobLink /\ rob_credit \in Nat
  BY <1>2, Zenon DEF CreditInv, RobInv
<1>7. rob.usage \in Nat /\ rob.usage + Len(g) <= RobDepth
  <2>1. RobQueue!size(rob) = rob.usage /\ rob.usage \in Nat
    BY <1>6, RobCount, Zenon
  <2>2. CreditsOn(rob_renaming_credit_in) \in Nat /\ Len(Instructions(c)) \in Nat
    BY <1>3, LinkPortHas, CreditsAreNat, GroupWire, Zenon DEF CreditInv
  <2> HIDE DEF c
  <2>3. PICK x \in Nat, k \in Nat, i \in Nat, u \in Nat, l \in Nat :
          /\ x = rob_credit /\ k = CreditsOn(rob_renaming_credit_in) /\ i = Len(Instructions(c))
          /\ u = rob.usage /\ l = Len(g) /\ l <= i
    BY <1>5, <1>6, <2>1, <2>2, Zenon
  <2>4. x + k + i + u = RobDepth
    BY <1>6, <2>1, <2>3, Zenon DEF RobLink, c
  <2>5. u + l <= RobDepth
    <3>1. l <= i
      BY <2>3, Zenon
    <3> QED BY <2>4, <3>1
  <2> QED BY <2>1, <2>3, <2>5, Zenon
<1> DEFINE start == [rob |-> rob, inst |-> inst]
<1>8. PICK allocated :
        allocated = CHOOSE f : f = [k \in 0 .. Len(g) |->
                       IF k = 0 THEN start ELSE PushEntry(f[k - 1], g[k])]
  OBVIOUS
<1>9. /\ rob' = allocated[Len(g)].rob /\ inst' = allocated[Len(g)].inst
      /\ Fire(c, {}, {commit_event}, Nothing)
  BY <1>5, <1>8, ZenonT(60) DEF AllocateRob_, PushEntry
<1>13. AllocatedBy(allocated, start, g)
  BY <1>8, Zenon DEF AllocatedBy
<1>10. Allocated(start, n, rob.usage)
  <2>1. start.rob = rob /\ start.inst = inst
    OBVIOUS
  <2>2. RingHolds(rob, 1 .. n)
    BY <1>6, Zenon DEF RobHolds, RingHolds
  <2> HIDE DEF start
  <2> QED BY <1>1, <1>6, <2>1, <2>2, Zenon DEF Allocated, SameRegs, SameFlags
<1>11. start.rob = rob /\ start.inst = inst
  OBVIOUS
<1> HIDE DEF start, c
<1>12. c = preceding_rob_inst_in
  BY DEF c
<1>14. Allocating(n, g, start, allocated)
  BY <1>2, <1>3, <1>5, <1>7, <1>9, <1>10, <1>11, <1>12, <1>13, Zenon DEF Allocating
<1>15. g \in Seq(DOMAIN inst)
  BY <1>2, <1>5, Zenon
<1> QED BY <1>14, <1>15, Zenon

\* What AllocateRob_ does to the reorder buffer and to the wires.
LEMMA AllocateRobDoes ==
  ASSUME CreditInv, AllocateRob_
  PROVE  \E n \in Nat, g \in Seq(DOMAIN inst) :
           /\ DOMAIN inst = 1 .. n
           /\ g = Message(preceding_rob_inst_in)
           /\ Ready(preceding_rob_inst_in)
           /\ Fire(preceding_rob_inst_in, {}, {commit_event}, Nothing)
           /\ Program(inst', n) /\ RobRing!Ring(rob)' /\ RobHolds(1 .. n)'
           /\ rob'.usage = rob.usage + Len(g)
<1>1. PICK n \in Nat, g \in Seq(DOMAIN inst) : \E start, allocated : Allocating(n, g, start, allocated)
  BY AllocateRobUnfolds, Zenon
<1>2. PICK start, allocated : Allocating(n, g, start, allocated)
  BY <1>1, Zenon
<1>3. /\ DOMAIN inst = 1 .. n /\ g = Message(preceding_rob_inst_in) /\ Ready(preceding_rob_inst_in)
      /\ Fire(preceding_rob_inst_in, {}, {commit_event}, Nothing)
      /\ Allocated(start, n, rob.usage) /\ rob.usage \in Nat /\ rob.usage + Len(g) <= RobDepth
      /\ rob' = allocated[Len(g)].rob /\ inst' = allocated[Len(g)].inst /\ g \in Seq(1 .. n)
  BY <1>2, Zenon DEF Allocating
<1>4. allocated = CHOOSE f : f = [k \in 0 .. Len(g) |->
                     IF k = 0 THEN start ELSE PushEntry(f[k - 1], g[k])]
  BY <1>2, Zenon DEF Allocating, AllocatedBy
<1>11. Allocated(allocated[Len(g)], n, rob.usage + Len(g))
  BY <1>3, <1>4, AllocatedIs, ZenonT(60)
<1>12. PICK q : q = rob' /\ RobRing!Ring(q) /\ RingHolds(q, 1 .. n) /\ q.usage = rob.usage + Len(g)
  BY <1>3, <1>11, Zenon DEF Allocated
<1>13. RobRing!Ring(rob)' /\ RobHolds(1 .. n)'
  <2>1. RobRing!Ring(rob)'
    BY <1>12, Zenon DEF RobRing!Ring, RobRing!LoopQueueType, RobRing!Slot,
       RobRing!SizeAssertion, RobRing!size
  <2>2. RobHolds(1 .. n)'
    BY <1>12, Zenon DEF RobHolds, RingHolds, RobQueue!Contents, RobQueue!SlotOf
  <2> QED BY <2>1, <2>2
<1>14. Program(inst', n)
  BY <1>3, <1>11, Zenon DEF Allocated
<1> QED BY <1>3, <1>12, <1>13, <1>14, Zenon

\* Renamed instructions get their entries in the reorder buffer.
LEMMA AllocateRobStep ==
  ASSUME CreditInv, AllocateRob_,
         UNCHANGED <<fetch_credit, renamingVars, dispatchVars, rsVars, fuVars>>
  PROVE  CreditInv'
<1> DEFINE c == preceding_rob_inst_in
<1>1. PICK n \in Nat, g \in Seq(DOMAIN inst) :
        /\ DOMAIN inst = 1 .. n
        /\ g = Message(c)
        /\ Ready(c)
        /\ Fire(c, {}, {commit_event}, Nothing)
        /\ Program(inst', n) /\ RobRing!Ring(rob)' /\ RobHolds(1 .. n)'
        /\ rob'.usage = rob.usage + Len(g)
  BY AllocateRobDoes, Zenon
<1>2. Events({}, {commit_event}) /\ c \in LinkPort /\ c \in GroupPort
  BY LinkPortHas DEF Events, UniqueEvent
<1>3. DOMAIN inst' = DOMAIN inst /\ More /\ InstInv'
  <2>1. DOMAIN inst' = 1 .. n
    BY <1>1, ProgramIsSeq, Zenon
  <2> QED BY <1>1, <2>1, Zenon DEF More, InstInv
<1>4. /\ WiresOK' /\ \A d \in LinkPort : d # c => Quiet(d)
      /\ OnTheWay(c) # << >> /\ Message(c) = Head(OnTheWay(c))
      /\ OnTheWay(c)' = Tail(OnTheWay(c)) \o << >>
  BY <1>1, <1>2, <1>3, TakingStep
<1>5. UNCHANGED <<fetch_credit, renaming_stage_queue, rob_credit, dispatch_credit, inst_queue,
                  credit_map, dispatch_pending_queue, reservation_station, rs_credit, alu_queue>>
  BY Zenon DEF renamingVars, dispatchVars, rsVars, fuVars
<1>6. FetchInv' /\ DispatchInv' /\ Increasing(FrontLine)'
  <2>1. SameFetch /\ SameDispatch /\ SameLine
    BY <1>4, <1>5, LinkPortHas, LinkPortsDiffer, Zenon DEF SameFetch, SameDispatch, SameLine
  <2> QED BY <1>3, <2>1, FetchFrame, DispatchFrame, LineFrame, Zenon DEF CreditInv
<1>7. StationInv' /\ FuInv'
  <2>1. UNCHANGED backVars
    BY <1>5, Zenon DEF backVars
  <2>2. \A d \in LinkPort : d \notin FrontPort => Quiet(d)
    BY <1>4, Zenon DEF FrontPort
  <2> QED BY <1>3, <2>1, <2>2, BackSame, Zenon
<1>8. /\ Len(g) \in Nat /\ Len(Instructions(c)') \in Nat
      /\ Len(Instructions(c)) = Len(g) + Len(Instructions(c)')
  BY <1>1, <1>2, <1>4, TakesGroup, Zenon DEF CreditInv
<1>9. CreditsOn(rob_renaming_credit_in)' = CreditsOn(rob_renaming_credit_in)
  BY <1>4, LinkPortHas, LinkPortsDiffer, QuietPortSame, Zenon
<1>10. RobLink'
  <2>1. RobQueue!size(rob) = rob.usage /\ rob.usage \in Nat
    BY RobCount, Zenon DEF CreditInv, RobInv
  <2>2. RobQueue!size(rob)' = rob'.usage
    <3>1. RobDepth \in Nat \ {0}
      BY SizesAssumption
    <3>2. RobRing!Ring(rob)' => RobQueue!size(rob)' = rob'.usage
      BY Zenon DEF RobRing!Ring, RobRing!SizeAssertion, RobRing!size, RobQueue!size
    <3> QED BY <1>1, <3>2, Zenon
  <2> HIDE DEF c
  <2>3. PICK x \in Nat, k \in Nat, i \in Nat, u \in Nat, l \in Nat, j \in Nat :
          /\ x = rob_credit /\ k = CreditsOn(rob_renaming_credit_in) /\ i = Len(Instructions(c))
          /\ u = rob.usage /\ l = Len(g) /\ j = Len(Instructions(c)')
    <3>1. CreditsOn(rob_renaming_credit_in) \in Nat /\ Len(Instructions(c)) \in Nat
      BY <1>2, LinkPortHas, CreditsAreNat, GroupWire, Zenon DEF CreditInv
    <3> QED BY <1>8, <2>1, <3>1, Zenon DEF CreditInv, RobInv
  <2>4. x + k + i + u = RobDepth
    BY <2>1, <2>3, Zenon DEF CreditInv, RobInv, RobLink, c
  <2>5. i = l + j
    BY <1>8, <2>3, Zenon
  <2>6. x + k + j + (u + l) = RobDepth
    BY <2>4, <2>5
  <2> QED BY <1>1, <1>5, <1>9, <2>2, <2>3, <2>6, Zenon DEF RobLink, c
<1>11. RobInv'
  BY <1>1, <1>3, <1>5, <1>10, Zenon DEF RobInv, CreditInv
<1> QED BY <1>3, <1>4, <1>6, <1>7, <1>11, Zenon DEF CreditInv

\* A handler outside the links that sends nothing over them.
LEMMA SilentStep ==
  ASSUME CreditInv, NEW c, c \notin LinkPort, NEW soon, NEW next, NEW out, Ready(c),
         Fire(c, soon, next, out), Events(soon, next), More,
         \A mail \in out : mail[1] \notin LinkPort
  PROVE  WiresOK' /\ \A d \in LinkPort : Quiet(d)
<1>1. Carries(out, DOMAIN inst')
  BY Zenon DEF Carries
<1>2. WiresOK' /\ Delivered(out)
  BY <1>1, EventStep, Zenon
<1> QED BY <1>2, Zenon DEF Delivered

\* Entries of the ring are marked.
MarkedList(q, tags) ==
    [s \in DOMAIN q.dataList |-> [q.dataList[s] EXCEPT !.finish = @ \/ s \in tags]]

Marked(q, tags, r) ==
    r = [q EXCEPT !.dataList = MarkedList(q, tags)]

\* r holds no other instructions than q does, and as many.
HoldsAs(q, r, ids) == RobRing!Ring(r) /\ RingHolds(r, ids) /\ r.usage = q.usage

\* Marking the finished entries changes neither the size nor whose entries they
\* are.
LEMMA RingMarked ==
  ASSUME NEW q, RobRing!Ring(q), NEW ids, RingHolds(q, ids), NEW tags, NEW r, Marked(q, tags, r)
  PROVE  HoldsAs(q, r, ids)
<1>0. PICK marked :
        /\ marked = [s \in DOMAIN q.dataList |-> [q.dataList[s] EXCEPT !.finish = @ \/ s \in tags]]
        /\ r = [q EXCEPT !.dataList = marked]
  BY Zenon DEF Marked, MarkedList
<1>1. RobDepth \in Nat \ {0}
  BY SizesAssumption
<1>2. q \in RobRing!LoopQueueType /\ RobRing!SizeAssertion(q)
  BY Zenon DEF RobRing!Ring
<1>3. PICK D : D = q.dataList /\ D \in [RobRing!Slot -> RobEntry] /\ DOMAIN D = RobRing!Slot
  BY <1>2 DEF RobRing!LoopQueueType
<1>4. ASSUME NEW e \in RobEntry, NEW s
      PROVE  /\ [e EXCEPT !.finish = @ \/ s \in tags] \in RobEntry
             /\ [e EXCEPT !.finish = @ \/ s \in tags].inst = e.inst
  BY DEF RobEntry
<1>5. ASSUME NEW s \in RobRing!Slot
      PROVE  marked[s] \in RobEntry /\ marked[s].inst = D[s].inst
  <2>1. marked[s] = [D[s] EXCEPT !.finish = @ \/ s \in tags] /\ D[s] \in RobEntry
    BY <1>0, <1>3
  <2> QED BY <1>4, <2>1
<1>6. marked \in [RobRing!Slot -> RobEntry]
  <2>1. marked = [s \in RobRing!Slot |-> marked[s]]
    BY <1>0, <1>3, Zenon
  <2> QED BY <1>5, <2>1
<1>7. /\ r \in RobRing!LoopQueueType /\ r.dataList = marked
      /\ r.head = q.head /\ r.tail = q.tail /\ r.usage = q.usage /\ r.is_rolling = q.is_rolling
  <2> HIDE DEF RobEntry
  <2> QED BY <1>0, <1>2, <1>6 DEF RobRing!LoopQueueType
<1>8. RobRing!Ring(r)
  BY <1>2, <1>7, Zenon DEF RobRing!Ring, RobRing!SizeAssertion, RobRing!size
<1>9. RingHolds(r, ids)
  <2>1. ASSUME NEW k \in 1 .. q.usage
        PROVE  RobQueue!Contents(r)[k].inst = RobQueue!Contents(q)[k].inst
    <3>1. RobQueue!SlotOf(q, k) \in RobRing!Slot
      <4>1. RobRing!SlotOf(q, k) \in RobRing!Slot
        BY <1>1, RobRing!SlotOfIsSlot
      <4> QED BY <4>1, Zenon DEF RobRing!SlotOf, RobQueue!SlotOf
    <3>2. RobQueue!SlotOf(r, k) = RobQueue!SlotOf(q, k)
      BY <1>7 DEF RobQueue!SlotOf
    <3>3. /\ RobQueue!Contents(r)[k] = marked[RobQueue!SlotOf(q, k)]
          /\ RobQueue!Contents(q)[k] = D[RobQueue!SlotOf(q, k)]
      BY <1>3, <1>7, <3>2, Zenon DEF RobQueue!Contents
    <3> QED BY <1>5, <3>1, <3>3, Zenon
  <2> QED BY <1>7, <2>1, Zenon DEF RingHolds
<1> QED BY <1>7, <1>8, <1>9, Zenon DEF HoldsAs

\* The reorder buffer's part of the invariant, of a state of the ring.
RobNow(q, ids) == RobRing!Ring(rob)' /\ RobHolds(ids)' /\ RobQueue!size(rob)' = q.usage

\* The reorder buffer that a step leaves behind.
LEMMA RobAfter ==
  ASSUME NEW q, rob' = q, RobRing!Ring(q), NEW ids, RingHolds(q, ids)
  PROVE  RobNow(q, ids)
<1>1. RobRing!Ring(rob)'
  BY Zenon DEF RobRing!Ring, RobRing!LoopQueueType, RobRing!Slot, RobRing!SizeAssertion, RobRing!size
<1>2. RobHolds(ids)'
  BY Zenon DEF RobHolds, RingHolds, RobQueue!Contents, RobQueue!SlotOf
<1>3. RobQueue!size(rob)' = q.usage
  BY Zenon DEF RobQueue!size, RobRing!Ring, RobRing!SizeAssertion, RobRing!size
<1> QED BY <1>1, <1>2, <1>3, Zenon DEF RobNow

\* Entries are marked finished.
LEMMA FinishStep ==
  ASSUME CreditInv, Finish_,
         UNCHANGED <<fetch_credit, renamingVars, dispatchVars, rsVars, fuVars>>
  PROVE  CreditInv'
<1> DEFINE c == write_back_rob_finish_in
<1>1. PICK tags, marked :
        /\ Ready(c) /\ Fire(c, {}, {}, Nothing) /\ inst' = inst
        /\ marked = [s \in DOMAIN rob.dataList |->
                       [rob.dataList[s] EXCEPT !.finish = @ \/ s \in tags]]
        /\ rob' = [rob EXCEPT !.dataList = marked]
  BY Zenon DEF Finish_
<1>2. Events({}, {}) /\ c \notin LinkPort /\ \A mail \in Nothing : mail[1] \notin LinkPort
  BY OtherPorts DEF Events, Nothing
<1>3. InstInv' /\ More
  BY <1>1, InstSame, Zenon DEF CreditInv
<1>4. WiresOK' /\ \A d \in LinkPort : Quiet(d)
  BY <1>1, <1>2, <1>3, SilentStep, Zenon
<1>5. UNCHANGED <<fetch_credit, renaming_stage_queue, rob_credit, dispatch_credit, inst_queue,
                  credit_map, dispatch_pending_queue, reservation_station, rs_credit, alu_queue>>
  BY Zenon DEF renamingVars, dispatchVars, rsVars, fuVars
<1>6. FetchInv' /\ DispatchInv' /\ Increasing(FrontLine)' /\ StationInv' /\ FuInv'
  <2>1. SameFetch /\ SameDispatch /\ SameLine /\ UNCHANGED backVars
    BY <1>4, <1>5, LinkPortHas, Zenon DEF SameFetch, SameDispatch, SameLine, backVars
  <2> QED BY <1>3, <1>4, <2>1, FetchFrame, DispatchFrame, LineFrame, BackSame, Zenon DEF CreditInv
<1>7. PICK I : /\ I = DOMAIN inst /\ RobRing!Ring(rob) /\ RingHolds(rob, I)
               /\ RobLink /\ rob_credit \in Nat
  BY Zenon DEF CreditInv, RobInv, RobHolds, RingHolds
<1>8. PICK q : q = rob' /\ RobRing!Ring(q) /\ RingHolds(q, I) /\ q.usage = rob.usage
  <2>1. PICK q : q = rob'
    OBVIOUS
  <2>2. Marked(rob, tags, q)
    BY <1>1, <2>1, Zenon DEF Marked, MarkedList
  <2>3. HoldsAs(rob, q, I)
    BY <1>7, <2>2, RingMarked, Zenon
  <2> QED BY <2>1, <2>3, Zenon DEF HoldsAs
<1>9. RobRing!Ring(rob)' /\ RobHolds(I)' /\ RobQueue!size(rob)' = rob.usage
  <2>1. RobNow(q, I)
    BY <1>8, RobAfter, Zenon
  <2> QED BY <1>8, <2>1, Zenon DEF RobNow
<1>10. RobQueue!size(rob) = rob.usage
  BY <1>7, RobCount, Zenon
<1>11. /\ CreditsOn(rob_renaming_credit_in)' = CreditsOn(rob_renaming_credit_in)
       /\ Instructions(preceding_rob_inst_in)' = Instructions(preceding_rob_inst_in)
  BY <1>4, LinkPortHas, QuietPortSame, Zenon
<1>12. RobInv'
  BY <1>1, <1>5, <1>7, <1>9, <1>10, <1>11, Zenon DEF RobInv, RobLink
<1> QED BY <1>3, <1>4, <1>6, <1>12, Zenon DEF CreditInv

\* The loop that pops entries, and what a turn keeps.
Popping(popped, t, start) ==
    /\ popped[0] = start
    /\ \A k \in 1 .. t : popped[k] = RobQueue!pop(popped[k - 1])

\* Commit_ pops the committed entries one after the other.
LEMMA PoppedUnfolds ==
  ASSUME NEW t \in Nat, NEW start, NEW popped,
         popped = CHOOSE f : f = [k \in 0 .. t |->
                     IF k = 0 THEN start ELSE RobQueue!pop(f[k - 1])]
  PROVE  Popping(popped, t, start)
<1> DEFINE Turns(m, u) ==
             u = [k \in 0 .. m |-> IF k = 0 THEN start ELSE RobQueue!pop(u[k - 1])]
           T == {m \in Nat : \E u : Turns(m, u)}
<1>1. 0 \in T
  <2>1. PICK u : u = [k \in 0 .. 0 |-> start]
    OBVIOUS
  <2>2. Turns(0, u)
    BY <2>1
  <2> QED BY <2>2
<1>2. ASSUME NEW m \in Nat, m \in T PROVE m + 1 \in T
  <2>1. PICK u : Turns(m, u)
    BY <1>2
  <2>2. PICK x : x = RobQueue!pop(u[m])
    OBVIOUS
  <2>3. PICK v : v = [k \in 0 .. m + 1 |-> IF k = m + 1 THEN x ELSE u[k]]
    OBVIOUS
  <2>4. ASSUME NEW k \in 0 .. m + 1
        PROVE  v[k] = IF k = 0 THEN start ELSE RobQueue!pop(v[k - 1])
    <3>1. CASE k = m + 1
      <4>1. v[k] = x /\ v[k - 1] = u[m] /\ k # 0
        BY <2>3, <3>1
      <4> QED BY <2>2, <3>1, <4>1, Zenon
    <3>2. CASE k # m + 1
      <4>1. k \in 0 .. m /\ v[k] = u[k] /\ (k # 0 => v[k - 1] = u[k - 1])
        BY <2>3, <3>2
      <4>2. u[k] = IF k = 0 THEN start ELSE RobQueue!pop(u[k - 1])
        BY <2>1, <4>1, Zenon
      <4> QED BY <4>1, <4>2, Zenon
    <3> QED BY <3>1, <3>2
  <2>5. Turns(m + 1, v)
    BY <2>3, <2>4, Zenon
  <2> QED BY <2>5
<1>3. t \in T
  <2> HIDE DEF T
  <2> QED BY <1>1, <1>2, NatSetInduction
<1>4. Turns(t, popped)
  BY <1>3, Zenon
<1>5. \A k \in 0 .. t : popped[k] = IF k = 0 THEN start ELSE RobQueue!pop(popped[k - 1])
  BY <1>4, Zenon
<1>6. 0 \in 0 .. t /\ \A k \in 1 .. t : k \in 0 .. t /\ k # 0
  OBVIOUS
<1> QED BY <1>5, <1>6, Zenon DEF Popping

\* The ring q holds u instructions of ids.
Holding(q, ids, u) == RobRing!Ring(q) /\ RingHolds(q, ids) /\ q.usage = u

\* All of those pops: that many entries less.
LEMMA PoppedIs ==
  ASSUME NEW u \in Nat, NEW t \in Nat, t <= u, NEW start, NEW ids, Holding(start, ids, u),
         NEW popped, Popping(popped, t, start)
  PROVE  Holding(popped[t], ids, u - t)
<1>1. popped[0] = start /\ \A k \in 1 .. t : popped[k] = RobQueue!pop(popped[k - 1])
  BY Zenon DEF Popping
<1> DEFINE H == {m \in Nat : m <= t => Holding(popped[m], ids, u - m)}
<1>2. 0 \in H
  <2>1. u - 0 = u
    OBVIOUS
  <2> QED BY <1>1, <2>1
<1>3. ASSUME NEW m \in Nat, m \in H PROVE m + 1 \in H
  <2>1. ASSUME m + 1 <= t PROVE Holding(popped[m + 1], ids, u - (m + 1))
    <3>1. /\ m + 1 \in 1 .. t /\ (m + 1) - 1 = m /\ Holding(popped[m], ids, u - m)
          /\ u - m # 0 /\ (u - m) - 1 = u - (m + 1)
      BY <1>3, <2>1
    <3>2. popped[m + 1] = RobQueue!pop(popped[m])
      BY <1>1, <3>1
    <3>3. PICK q : q = popped[m] /\ RobRing!Ring(q) /\ RingHolds(q, ids) /\ q.usage = u - m
      BY <3>1, Zenon DEF Holding
    <3>4. q.usage # 0
      BY <3>1, <3>3, Zenon
    <3>5. /\ RobRing!Ring(RobQueue!pop(q)) /\ RingHolds(RobQueue!pop(q), ids)
          /\ RobQueue!pop(q).usage = q.usage - 1
      BY <3>3, <3>4, RingPopped
    <3> QED BY <3>1, <3>2, <3>3, <3>5, Zenon DEF Holding
  <2> QED BY <2>1
<1>4. \A m \in Nat : m \in H
  <2> HIDE DEF H
  <2> QED BY <1>2, <1>3, NatSetInduction
<1>5. t <= t
  OBVIOUS
<1> QED BY <1>4, <1>5, Zenon

\* The step of Commit_ that takes the first m entries, which are finished, out.
Committing(m, ids, group, next, out) ==
    /\ ids = DOMAIN inst /\ m <= rob.usage /\ rob.usage \in Nat
    /\ \A j \in 1 .. m : RobQueue!Contents(rob)[j].finish
    /\ \E popped : Popping(popped, m, rob) /\ rob' = popped[m]
    /\ Holding(rob', ids, rob.usage - m)
    /\ Ready(commit_event) /\ Events({}, next) /\ inst' = inst
    /\ Fire(commit_event, {}, next, out)
    /\ out = IF m = 0 THEN Nothing
             ELSE Post(Rob_cmt_inst_in, <<group>>) \cup Post(rob_renaming_credit_in, <<m>>)

\* How many entries are committed: none of them waits for a flush.
LEMMA CommitDoes ==
  ASSUME CreditInv, Commit_
  PROVE  \E m \in Nat : \E ids, group, next, out : Committing(m, ids, group, next, out)
<1>1. PICK ids : ids = DOMAIN inst
  OBVIOUS
<1>2. RobRing!Ring(rob) /\ RingHolds(rob, ids)
  BY <1>1, Zenon DEF CreditInv, RobInv, RobHolds, RingHolds
<1>3. RobQueue!size(rob) = rob.usage /\ rob.usage \in Nat
  BY <1>2, RobCount, Zenon
<1> DEFINE entries == RobQueue!Contents(rob)
           missed(k) == inst[entries[k].inst].IsMissPrediction
           issue_num == Min({RobWidth, RobQueue!size(rob)})
           S == {k \in 0 .. issue_num :
                   \A j \in 1 .. k : entries[j].finish /\ (j < k => ~missed(j))}
           m == Max(S)
           group == [k \in 1 .. m |-> entries[k].inst]
           do_flush == m > 0 /\ missed(m)
<1>4. issue_num \in Nat /\ issue_num <= rob.usage
  <2>1. RobWidth \in Int /\ RobWidth \in Nat /\ rob.usage \in Int
    BY <1>3, SizesAssumption
  <2>2. /\ Min({RobWidth, rob.usage}) \in {RobWidth, rob.usage}
        /\ Min({RobWidth, rob.usage}) <= rob.usage
    BY <2>1, MinOfTwo
  <2> QED BY <1>3, <2>1, <2>2
<1>5. m \in Nat /\ m <= rob.usage /\ \A j \in 1 .. m : entries[j].finish
  <2>1. S \in SUBSET (0 .. issue_num) /\ 0 \in S
    BY <1>4
  <2>2. \A k \in S : \A j \in 1 .. k : entries[j].finish
    OBVIOUS
  <2> HIDE DEF S
  <2>3. Max(S) \in S /\ Max(S) \in 0 .. issue_num
    BY <1>4, <2>1, MaxIs
  <2>4. \A j \in 1 .. m : entries[j].finish
    BY <2>2, <2>3, Zenon
  <2> HIDE DEF issue_num
  <2> QED BY <1>3, <1>4, <2>3, <2>4
<1> HIDE DEF S
<1>6. ~do_flush
  <2>1. ASSUME m > 0 PROVE ~missed(m)
    <3>1. m \in 1 .. rob.usage
      BY <1>3, <1>5, <2>1
    <3>2. entries[m].inst \in ids
      BY <1>2, <3>1, Zenon DEF RingHolds
    <3>3. PICK n \in Nat : Program(inst, n)
      BY Zenon DEF CreditInv, InstInv
    <3>4. DOMAIN inst = 1 .. n
      BY <3>3, ProgramIsSeq, Zenon
    <3>5. Foreseen(inst[entries[m].inst])
      BY <1>1, <3>2, <3>3, <3>4, Zenon DEF Program
    <3> QED BY <3>5, Zenon DEF Foreseen
  <2> QED BY <2>1
<1>7. PICK popped : popped = CHOOSE f : f = [k \in 0 .. m |->
                       IF k = 0 THEN rob ELSE RobQueue!pop(f[k - 1])]
  OBVIOUS
<1> DEFINE sent == IF m = 0 THEN Nothing
                   ELSE Post(Rob_cmt_inst_in, <<group>>) \cup Post(rob_renaming_credit_in, <<m>>)
           next == IF RobQueue!empty(rob') THEN {} ELSE {commit_event}
<1>8. /\ rob' = popped[IF do_flush THEN m - 1 ELSE m]
      /\ Fire(commit_event, {}, next,
              sent \cup (IF do_flush THEN Post(rob_flush_manager_in, <<1>>) ELSE Nothing))
      /\ Ready(commit_event) /\ inst' = inst
  BY <1>7, Zenon DEF Commit_, S
<1>9. Events({}, next)
  BY DEF Events, UniqueEvent
<1> HIDE DEF m, sent, next, do_flush
<1>10. sent \cup Nothing = sent
  BY DEF Nothing
<1>11. rob' = popped[m] /\ Fire(commit_event, {}, next, sent)
  BY <1>6, <1>8, <1>10, Zenon
<1>12. Popping(popped, m, rob)
  BY <1>5, <1>7, PoppedUnfolds, Zenon
<1>13. Holding(rob, ids, rob.usage)
  BY <1>2, Zenon DEF Holding
<1>14. Holding(popped[m], ids, rob.usage - m)
  BY <1>3, <1>5, <1>12, <1>13, PoppedIs, Zenon
<1>15. sent = IF m = 0 THEN Nothing
              ELSE Post(Rob_cmt_inst_in, <<group>>) \cup Post(rob_renaming_credit_in, <<m>>)
  BY Zenon DEF sent
<1> HIDE DEF group
<1>16. Committing(m, ids, group, next, sent)
  BY <1>1, <1>3, <1>5, <1>8, <1>9, <1>11, <1>12, <1>14, <1>15, Zenon DEF Committing
<1> QED BY <1>5, <1>16, Zenon

\* Instructions are committed, and their places are free again.
LEMMA CommitStep ==
  ASSUME CreditInv, Commit_,
         UNCHANGED <<fetch_credit, renamingVars, dispatchVars, rsVars, fuVars>>
  PROVE  CreditInv'
<1> DEFINE c == commit_event
           w == Rob_cmt_inst_in
           d == rob_renaming_credit_in
<1>0. PICK m \in Nat : \E ids, group, next, out : Committing(m, ids, group, next, out)
  BY CommitDoes, Zenon
<1>01. PICK ids, group, next, out : Committing(m, ids, group, next, out)
  BY <1>0, Zenon
<1>1. /\ ids = DOMAIN inst /\ m <= rob.usage /\ rob.usage \in Nat
      /\ Holding(rob', ids, rob.usage - m)
      /\ Ready(c) /\ Events({}, next) /\ inst' = inst
      /\ Fire(c, {}, next, out)
      /\ out = IF m = 0 THEN Nothing ELSE Post(w, <<group>>) \cup Post(d, <<m>>)
  BY <1>01, Zenon DEF Committing
<1>2. c \notin LinkPort /\ w \notin LinkPort /\ d \in LinkPort /\ d \in CreditPort
  BY LinkPortsDiffer, LinkPortHas, OtherPorts DEF UniqueEvent
<1>3. InstInv' /\ More
  BY <1>1, InstSame, Zenon DEF CreditInv
<1> HIDE DEF c, w, d
<1>4. PICK gg, mm : gg = <<group>> /\ mm = <<m>>
  OBVIOUS
<1>5. /\ m # 0 => Arrive(out, w, gg, d, mm)
      /\ m = 0 => out = {}
  <2>1. m # 0 => AreSent(out, w, gg, d, mm)
    BY <1>1, <1>4, Zenon DEF AreSent
  <2>2. w # d
    BY <1>2, Zenon
  <2>3. m = 0 => out = {}
    BY <1>1, Zenon DEF Nothing
  <2>4. AreSent(out, w, gg, d, mm) => Arrive(out, w, gg, d, mm)
    BY <2>2, TwoPosts, Zenon
  <2> QED BY <2>1, <2>3, <2>4
<1>6. \A mail \in out : mail[1] = w \/ (mail[1] = d /\ mail[2] = mm)
  <2>1. CASE m = 0
    BY <1>5, <2>1, Zenon
  <2>2. CASE m # 0
    BY <1>5, <2>2, Zenon DEF Arrive
  <2> QED BY <2>1, <2>2
<1>7. WiresOK' /\ Delivered(out)
  <2>1. mm \in Seq(MessageOf(d, DOMAIN inst'))
    BY <1>2, <1>4, CreditIsTyped, Zenon
  <2>2. Carries(out, DOMAIN inst')
    BY <1>2, <1>6, <2>1, Zenon DEF Carries
  <2> QED BY <1>1, <1>2, <1>3, <2>2, EventStep, Zenon
<1>8. \A e \in LinkPort : e # d => Quiet(e)
  BY <1>2, <1>6, <1>7, Zenon DEF Delivered
<1>9. CreditsOn(d) \in Nat /\ CreditsOn(d)' = CreditsOn(d) + m
  <2>1. CreditsOn(d) \in Nat
    BY <1>2, CreditsAreNat, Zenon DEF CreditInv
  <2>2. CASE m = 0
    <3>1. Quiet(d)
      BY <1>2, <1>5, <1>7, <2>2, Zenon DEF Delivered
    <3>2. CreditsOn(d)' = CreditsOn(d)
      BY <3>1, QuietPortSame, Zenon
    <3> QED BY <2>1, <2>2, <3>2
  <2>3. CASE m # 0
    <3>1. OnTheWay(d)' = OnTheWay(d) \o <<m>>
      BY <1>2, <1>4, <1>5, <1>7, <2>3, Zenon DEF Delivered, Arrive
    <3> QED BY <1>2, <3>1, SendsCredit, Zenon DEF CreditInv
  <2> QED BY <2>2, <2>3
<1>10. UNCHANGED <<fetch_credit, renaming_stage_queue, rob_credit, dispatch_credit, inst_queue,
                   credit_map, dispatch_pending_queue, reservation_station, rs_credit, alu_queue>>
  BY Zenon DEF renamingVars, dispatchVars, rsVars, fuVars
<1>11. FetchInv' /\ DispatchInv' /\ Increasing(FrontLine)'
  <2>1. SameFetch /\ SameDispatch /\ SameLine
    BY <1>8, <1>10, LinkPortHas, LinkPortsDiffer, Zenon DEF SameFetch, SameDispatch, SameLine, d
  <2> QED BY <1>3, <2>1, FetchFrame, DispatchFrame, LineFrame, Zenon DEF CreditInv
<1>12. StationInv' /\ FuInv'
  <2>1. UNCHANGED backVars
    BY <1>10, Zenon DEF backVars
  <2>2. \A e \in LinkPort : e \notin FrontPort => Quiet(e)
    BY <1>8, Zenon DEF FrontPort, d
  <2> QED BY <1>3, <2>1, <2>2, BackSame, Zenon
<1>13. RobRing!Ring(rob)' /\ RobHolds(ids)' /\ RobQueue!size(rob)' = rob.usage - m
  <2>1. PICK q : q = rob'
    OBVIOUS
  <2>2. RobRing!Ring(q) /\ RingHolds(q, ids) /\ q.usage = rob.usage - m
    BY <1>1, <2>1, Zenon DEF Holding
  <2>3. RobNow(q, ids)
    BY <2>1, <2>2, RobAfter, Zenon
  <2> QED BY <2>2, <2>3, Zenon DEF RobNow
<1>14. Instructions(preceding_rob_inst_in)' = Instructions(preceding_rob_inst_in)
  BY <1>8, LinkPortHas, LinkPortsDiffer, QuietPortSame, Zenon DEF d
<1>15. RobLink'
  <2>1. RobQueue!size(rob) = rob.usage
    BY RobCount, Zenon DEF CreditInv, RobInv
  <2>2. PICK x \in Nat, k \in Nat, i \in Nat, u \in Nat :
          /\ x = rob_credit /\ k = CreditsOn(d) /\ i = Len(Instructions(preceding_rob_inst_in))
          /\ u = rob.usage
    <3>1. Len(Instructions(preceding_rob_inst_in)) \in Nat
      BY LinkPortHas, GroupWire, Zenon DEF CreditInv
    <3> QED BY <1>1, <1>9, <3>1, Zenon DEF CreditInv, RobInv
  <2>3. x + k + i + u = RobDepth
    BY <2>1, <2>2, Zenon DEF CreditInv, RobInv, RobLink, d
  <2>4. x + (k + m) + i + (u - m) = RobDepth
    BY <2>3
  <2> QED BY <1>9, <1>10, <1>13, <1>14, <2>2, <2>4, Zenon DEF RobLink, d
<1>16. RobInv'
  BY <1>1, <1>10, <1>13, <1>15, Zenon DEF RobInv, CreditInv
<1> QED BY <1>3, <1>7, <1>11, <1>12, <1>16, Zenon DEF CreditInv

\* The entries of a queue at the given places are marked as issued.
MarkAt(queue, places) ==
    [k \in DOMAIN queue |-> [queue[k] EXCEPT !.is_issued = @ \/ k \in places]]

\* q is s with the entries at F issued.
IssuedAt(q, s, F, I) ==
    /\ q \in Seq(DispatchEntry(I)) /\ Len(q) = Len(s)
    /\ \A k \in 1 .. Len(s) : /\ q[k].inst = s[k].inst
                              /\ ~q[k].is_issued <=> ~s[k].is_issued /\ k \notin F

\* Marking the chosen entries issued changes nothing else of the queue.
LEMMA MarkAtIs ==
  ASSUME NEW I, NEW s, NEW q, NEW F, IssuedAt(q, s, F, I), NEW C, NEW G, G = F \cup C
  PROVE  IssuedAt(MarkAt(q, C), s, G, I)
<1>1. /\ q \in Seq(DispatchEntry(I)) /\ Len(q) = Len(s) /\ Len(q) \in Nat
      /\ DOMAIN q = 1 .. Len(q) /\ \A k \in 1 .. Len(q) : q[k] \in DispatchEntry(I)
  BY DEF IssuedAt
<1>2. ASSUME NEW e \in DispatchEntry(I), NEW k
      PROVE  /\ [e EXCEPT !.is_issued = @ \/ k \in C] \in DispatchEntry(I)
             /\ [e EXCEPT !.is_issued = @ \/ k \in C].inst = e.inst
             /\ ~[e EXCEPT !.is_issued = @ \/ k \in C].is_issued <=> ~e.is_issued /\ k \notin C
  BY DEF DispatchEntry
<1>3. PICK t : t = MarkAt(q, C)
  OBVIOUS
<1>4. ASSUME NEW k \in 1 .. Len(q)
      PROVE  /\ t[k] \in DispatchEntry(I) /\ t[k].inst = q[k].inst
             /\ ~t[k].is_issued <=> ~q[k].is_issued /\ k \notin C
  <2>1. t[k] = [q[k] EXCEPT !.is_issued = @ \/ k \in C]
    BY <1>1, <1>3, Zenon DEF MarkAt
  <2>2. q[k] \in DispatchEntry(I)
    BY <1>1
  <2>3. /\ [q[k] EXCEPT !.is_issued = @ \/ k \in C] \in DispatchEntry(I)
        /\ [q[k] EXCEPT !.is_issued = @ \/ k \in C].inst = q[k].inst
        /\ ~[q[k] EXCEPT !.is_issued = @ \/ k \in C].is_issued <=> ~q[k].is_issued /\ k \notin C
    BY <1>2, <2>2, Zenon
  <2> QED BY <2>1, <2>3, Zenon
<1>5. t \in Seq(DispatchEntry(I)) /\ Len(t) = Len(q)
  <2>1. t = [k \in 1 .. Len(q) |-> t[k]]
    BY <1>1, <1>3, Zenon DEF MarkAt
  <2> QED BY <1>1, <1>4, <2>1
<1>6. \A k \in 1 .. Len(s) : /\ q[k].inst = s[k].inst
                             /\ ~q[k].is_issued <=> ~s[k].is_issued /\ k \notin F
  BY Zenon DEF IssuedAt
<1>7. \A k : k \notin G <=> k \notin F /\ k \notin C
  OBVIOUS
<1> QED BY <1>1, <1>3, <1>4, <1>5, <1>6, <1>7, Zenon DEF IssuedAt

\* A station takes entries that are open, and no more than it has credits for.
LEMMA ChosenIs ==
  ASSUME NEW p \in Pipe, credit_map[p] \in Nat, NEW I, NEW queue \in Seq(DispatchEntry(I))
  PROVE  /\ Chosen(queue, p) \subseteq Open(queue)
         /\ Cardinality(Chosen(queue, p)) <= credit_map[p]
<1>1. PICK c \in Nat : c = credit_map[p]
  OBVIOUS
<1> DEFINE fits == {k \in DOMAIN queue : /\ ~queue[k].is_issued
                                         /\ inst[queue[k].inst].Fu \in DispatchMap[p]}
           m == Min({c, PipeIssueWidth})
<1>2. Len(queue) \in Nat /\ DOMAIN queue = 1 .. Len(queue)
  OBVIOUS
<1>3. m \in Nat /\ m <= c
  <2>1. c \in Int /\ PipeIssueWidth \in Int /\ PipeIssueWidth \in Nat
    BY SizesAssumption
  <2>2. Min({c, PipeIssueWidth}) \in {c, PipeIssueWidth} /\ Min({c, PipeIssueWidth}) <= c
    BY <2>1, MinOfTwo
  <2> QED BY <2>1, <2>2
<1>4. PICK F : F = Chosen(queue, p) /\ F = {k \in fits : Cardinality({j \in fits : j <= k}) <= m}
  BY <1>1, Zenon DEF Chosen
<1>5. fits \in SUBSET (1 .. Len(queue)) /\ fits \subseteq Open(queue)
  BY <1>2 DEF Open
<1> HIDE DEF fits, m
<1>6. Cardinality(F) <= m /\ F \in SUBSET fits
  BY <1>2, <1>3, <1>4, <1>5, CountFirst
<1>7. Cardinality(F) <= c
  <2>1. F \in SUBSET (1 .. Len(queue))
    BY <1>5, <1>6
  <2>2. IsFiniteSet(1 .. Len(queue))
    BY <1>2, FS_Interval
  <2>3. IsFiniteSet(F)
    BY <2>1, <2>2, FS_Subset
  <2>4. Cardinality(F) \in Nat
    BY <2>3, FS_CardinalityType, Zenon
  <2> QED BY <1>3, <1>6, <2>4
<1> QED BY <1>1, <1>4, <1>5, <1>6, <1>7, Zenon

\* The loop over the stations.
Choosing(queues, t, start) ==
    /\ queues[0] = start
    /\ \A p \in 1 .. t : queues[p] = MarkAt(queues[p - 1], Chosen(queues[p - 1], p))

\* SelectInst_ chooses for one pipe after the other, each time from what is
\* left.
LEMMA ChoosingUnfolds ==
  ASSUME NEW t \in Nat, NEW start, NEW queues,
         queues = CHOOSE f : f = [p \in 0 .. t |->
                     IF p = 0 THEN start ELSE MarkAt(f[p - 1], Chosen(f[p - 1], p))]
  PROVE  Choosing(queues, t, start)
<1> DEFINE Turns(m, u) ==
             u = [p \in 0 .. m |->
                    IF p = 0 THEN start ELSE MarkAt(u[p - 1], Chosen(u[p - 1], p))]
           T == {m \in Nat : \E u : Turns(m, u)}
<1>1. 0 \in T
  <2>1. PICK u : u = [p \in 0 .. 0 |-> start]
    OBVIOUS
  <2>2. Turns(0, u)
    BY <2>1
  <2> QED BY <2>2
<1>2. ASSUME NEW m \in Nat, m \in T PROVE m + 1 \in T
  <2>1. PICK u : Turns(m, u)
    BY <1>2
  <2>2. PICK x : x = MarkAt(u[m], Chosen(u[m], m + 1))
    OBVIOUS
  <2>3. PICK v : v = [p \in 0 .. m + 1 |-> IF p = m + 1 THEN x ELSE u[p]]
    OBVIOUS
  <2>4. ASSUME NEW p \in 0 .. m + 1
        PROVE  v[p] = IF p = 0 THEN start ELSE MarkAt(v[p - 1], Chosen(v[p - 1], p))
    <3>1. CASE p = m + 1
      <4>1. v[p] = x /\ v[p - 1] = u[m] /\ p # 0
        BY <2>3, <3>1
      <4> QED BY <2>2, <3>1, <4>1, Zenon
    <3>2. CASE p # m + 1
      <4>1. p \in 0 .. m /\ v[p] = u[p] /\ (p # 0 => v[p - 1] = u[p - 1])
        BY <2>3, <3>2
      <4>2. u[p] = IF p = 0 THEN start ELSE MarkAt(u[p - 1], Chosen(u[p - 1], p))
        BY <2>1, <4>1, Zenon
      <4> QED BY <4>1, <4>2, Zenon
    <3> QED BY <3>1, <3>2
  <2>5. Turns(m + 1, v)
    BY <2>3, <2>4, Zenon
  <2> QED BY <2>5
<1>3. t \in T
  <2> HIDE DEF T
  <2> QED BY <1>1, <1>2, NatSetInduction
<1>4. Turns(t, queues)
  BY <1>3, Zenon
<1>5. \A p \in 0 .. t :
        queues[p] = IF p = 0 THEN start ELSE MarkAt(queues[p - 1], Chosen(queues[p - 1], p))
  BY <1>4, Zenon
<1>6. 0 \in 0 .. t /\ \A p \in 1 .. t : p \in 0 .. t /\ p # 0
  OBVIOUS
<1> QED BY <1>5, <1>6, Zenon DEF Choosing

\* What the stations have chosen in the end: entries that were open.
Chooses(queues, s, I) ==
    LET chosen(p) == Chosen(queues[p - 1], p)
        all == UNION {chosen(p) : p \in Pipe}
    IN /\ \A p \in Pipe : /\ chosen(p) \subseteq Open(s)
                          /\ Cardinality(chosen(p)) <= credit_map[p]
       /\ all \subseteq Open(s)
       /\ IssuedAt(queues[PipeNum], s, all, I)

\* After the first m stations' choices, what those chose is issued and nothing else.
LEMMA ChosenBefore ==
  ASSUME NEW I, NEW s \in Seq(DispatchEntry(I)), NEW queues, Choosing(queues, PipeNum, s)
  PROVE  \A m \in Nat : m <= PipeNum =>
            IssuedAt(queues[m], s, UNION {Chosen(queues[p - 1], p) : p \in 1 .. m}, I)
<1>1. queues[0] = s /\ \A p \in 1 .. PipeNum : queues[p] = MarkAt(queues[p - 1], Chosen(queues[p - 1], p))
  BY Zenon DEF Choosing
<1>2. PipeNum \in Nat
  BY PipeNumAssumption
<1> DEFINE chosen(p) == Chosen(queues[p - 1], p)
           before(m) == UNION {chosen(p) : p \in 1 .. m}
           H == {m \in Nat : m <= PipeNum => IssuedAt(queues[m], s, before(m), I)}
<1>3. 0 \in H
  <2>1. before(0) = {}
    OBVIOUS
  <2>2. \A k : k \notin {}
    OBVIOUS
  <2>3. IssuedAt(s, s, {}, I)
    BY <2>2, Zenon DEF IssuedAt
  <2> QED BY <1>1, <2>1, <2>3
<1>4. ASSUME NEW m \in Nat, m \in H PROVE m + 1 \in H
  <2>1. ASSUME m + 1 <= PipeNum PROVE IssuedAt(queues[m + 1], s, before(m + 1), I)
    <3>1. m + 1 \in 1 .. PipeNum /\ (m + 1) - 1 = m /\ m <= PipeNum
      BY <1>2, <2>1
    <3>2. IssuedAt(queues[m], s, before(m), I)
      BY <1>4, <3>1
    <3>3. queues[m + 1] = MarkAt(queues[m], chosen(m + 1)) /\ chosen(m + 1) = Chosen(queues[m], m + 1)
      BY <1>1, <3>1, Zenon
    <3>4. before(m + 1) = before(m) \cup chosen(m + 1)
      <4>1. 1 .. (m + 1) = (1 .. m) \cup {m + 1}
        OBVIOUS
      <4> HIDE DEF chosen
      <4> QED BY <4>1
    <3> HIDE DEF before, chosen
    <3>5. PICK q, F, C, G : q = queues[m] /\ F = before(m) /\ C = chosen(m + 1) /\ G = before(m + 1)
      OBVIOUS
    <3>6. IssuedAt(MarkAt(q, C), s, G, I)
      BY <3>2, <3>4, <3>5, MarkAtIs, Zenon
    <3> QED BY <3>3, <3>5, <3>6, Zenon
  <2> QED BY <2>1
<1>5. \A m \in Nat : m \in H
  <2> HIDE DEF H
  <2> QED BY <1>3, <1>4, NatSetInduction
<1> QED BY <1>5

\* A pipe is given at most as many entries as it has credits, and no entry
\* twice.
LEMMA ChoosingIs ==
  ASSUME credit_map \in [Pipe -> Nat], NEW I, NEW s \in Seq(DispatchEntry(I)), NEW queues,
         Choosing(queues, PipeNum, s)
  PROVE  Chooses(queues, s, I)
<1>2. PipeNum \in Nat
  BY PipeNumAssumption
<1> DEFINE chosen(p) == Chosen(queues[p - 1], p)
           before(m) == UNION {chosen(p) : p \in 1 .. m}
<1>5. \A m \in Nat : m <= PipeNum => IssuedAt(queues[m], s, before(m), I)
  BY ChosenBefore
<1>6. ASSUME NEW p \in Pipe
      PROVE  chosen(p) \subseteq Open(s) /\ Cardinality(chosen(p)) <= credit_map[p]
  <2>1. PICK m \in Nat : p = m + 1 /\ m <= PipeNum /\ p - 1 = m
    <3>1. p - 1 \in Nat /\ p = (p - 1) + 1 /\ p - 1 <= PipeNum
      BY <1>2 DEF Pipe
    <3> QED BY <3>1
  <2>2. PICK q : q = queues[m]
    OBVIOUS
  <2>3. IssuedAt(q, s, before(m), I)
    BY <1>5, <2>1, <2>2
  <2> HIDE DEF before
  <2>4. q \in Seq(DispatchEntry(I)) /\ credit_map[p] \in Nat
    BY <2>3 DEF IssuedAt
  <2>5. Chosen(q, p) \subseteq Open(q) /\ Cardinality(Chosen(q, p)) <= credit_map[p]
    BY <2>4, ChosenIs
  <2>6. Open(q) \subseteq Open(s)
    BY <2>3 DEF Open, IssuedAt
  <2>7. chosen(p) = Chosen(q, p)
    BY <2>1, <2>2, Zenon
  <2> QED BY <2>5, <2>6, <2>7
<1>7. IssuedAt(queues[PipeNum], s, UNION {chosen(p) : p \in Pipe}, I)
  <2>1. PipeNum <= PipeNum
    BY <1>2
  <2> QED BY <1>2, <1>5, <2>1 DEF Pipe
<1>8. UNION {chosen(p) : p \in Pipe} \subseteq Open(s)
  <2> HIDE DEF chosen
  <2> QED BY <1>6
<1> QED BY <1>6, <1>7, <1>8, Zenon DEF Chooses

\* What a source waits for is noted; the prediction stays as it is.
LEMMA CheckedProgram ==
  ASSUME NEW n \in Nat, Program(inst, n), NEW T, NEW g,
         g = [i \in DOMAIN inst |-> IF i \in T THEN CheckRegStatusImp_(inst[i]) ELSE inst[i]]
  PROVE  Program(g, n)
<1>1. DOMAIN inst = 1 .. n /\ \A i \in 1 .. n : Foreseen(inst[i])
  BY ProgramIsSeq, Zenon DEF Program
<1>2. ASSUME NEW r, Foreseen(r) PROVE Foreseen(CheckRegStatusImp_(r))
  BY <1>2 DEF Foreseen, CheckRegStatusImp_
<1>3. ASSUME NEW i \in 1 .. n PROVE Foreseen(g[i])
  <2>1. g[i] = IF i \in T THEN CheckRegStatusImp_(inst[i]) ELSE inst[i]
    BY <1>1, Zenon
  <2>2. Foreseen(inst[i])
    BY <1>1
  <2> QED BY <1>2, <2>1, <2>2, Zenon
<1>4. g = [i \in 1 .. n |-> g[i]]
  BY <1>1, Zenon
<1> QED BY <1>3, <1>4, Zenon DEF Program

\* What SelectInst_ does with the queues of its loop.
Selecting(queues, s) ==
    LET chosen(p) == Chosen(queues[p - 1], p)
        selected == {s[k].inst : k \in UNION {chosen(p) : p \in Pipe}}
    IN /\ Ready(dispatch_select_events_)
       /\ inst_queue' = queues[PipeNum]
       /\ dispatch_pending_queue' = [p \in Pipe |-> dispatch_pending_queue[p] \o
                                        PickAt(InstsOf(s), chosen(p))]
       /\ credit_map' = [p \in Pipe |-> credit_map[p] - Cardinality(chosen(p))]
       /\ inst' = [i \in DOMAIN inst |->
                     IF i \in selected THEN CheckRegStatusImp_(inst[i]) ELSE inst[i]]
       /\ Fire(dispatch_select_events_, {dispatch_issue_events_}, {},
               IF selected = {} THEN Nothing
               ELSE Post(following_renaming_credit_in, <<Cardinality(selected)>>))

\* What SelectInst_ leaves in the dispatch queue.
LEMMA SelectUnfolds ==
  ASSUME SelectInst_
  PROVE  \E queues :
           /\ queues = CHOOSE f : f = [p \in 0 .. PipeNum |->
                         IF p = 0 THEN inst_queue ELSE MarkAt(f[p - 1], Chosen(f[p - 1], p))]
           /\ Selecting(queues, inst_queue)
<1> DEFINE queues == CHOOSE f : f = [p \in 0 .. PipeNum |->
                        IF p = 0 THEN inst_queue ELSE MarkAt(f[p - 1], Chosen(f[p - 1], p))]
<1>1. Selecting(queues, inst_queue)
  BY Zenon DEF SelectInst_, Selecting, MarkAt, InstsOf
<1> HIDE DEF queues
<1>2. queues = CHOOSE f : f = [p \in 0 .. PipeNum |->
                  IF p = 0 THEN inst_queue ELSE MarkAt(f[p - 1], Chosen(f[p - 1], p))]
  BY DEF queues
<1> QED BY <1>1, <1>2, Zenon

\* The stations' choice: each takes what it has credits for, and the renaming
\* stage gets as many back.
LEMMA SelectDoes ==
  ASSUME CreditInv, SelectInst_
  PROVE  \E n \in Nat, m \in Nat : \E t \in Seq(DispatchEntry(DOMAIN inst)) : \E g, out :
           /\ Program(inst', n) /\ DOMAIN inst = 1 .. n
           /\ inst_queue' = t /\ InstsOf(t) = InstsOf(inst_queue)
           /\ Cardinality(Open(t)) + m = Cardinality(Open(inst_queue))
           /\ Cardinality(Open(t)) \in Nat
           /\ \A p \in Pipe : /\ g[p] \in Seq(DOMAIN inst) /\ Len(g[p]) \in Nat
                              /\ Len(g[p]) <= credit_map[p]
           /\ dispatch_pending_queue' = [p \in Pipe |-> dispatch_pending_queue[p] \o g[p]]
           /\ credit_map' = [p \in Pipe |-> credit_map[p] - Len(g[p])]
           /\ Ready(dispatch_select_events_) /\ Events({dispatch_issue_events_}, {})
           /\ Fire(dispatch_select_events_, {dispatch_issue_events_}, {}, out)
           /\ out = IF m = 0 THEN Nothing ELSE Post(following_renaming_credit_in, <<m>>)
<1>1. PICK n \in Nat : Program(inst, n)
  BY Zenon DEF CreditInv, InstInv
<1>2. DOMAIN inst = 1 .. n
  BY <1>1, ProgramIsSeq, Zenon
<1>3. PICK s \in Seq(DispatchEntry(1 .. n)) : s = inst_queue
  BY <1>2, Zenon DEF CreditInv, DispatchInv
<1>4. PICK queues :
        /\ queues = CHOOSE f : f = [p \in 0 .. PipeNum |->
                       IF p = 0 THEN s ELSE MarkAt(f[p - 1], Chosen(f[p - 1], p))]
        /\ Selecting(queues, s)
  BY <1>3, SelectUnfolds, Zenon
<1> DEFINE chosen(p) == Chosen(queues[p - 1], p)
           all == UNION {chosen(p) : p \in Pipe}
           selected == {s[k].inst : k \in all}
           g == [p \in Pipe |-> PickAt(InstsOf(s), chosen(p))]
           t == queues[PipeNum]
           m == Cardinality(all)
           out == IF selected = {} THEN Nothing
                  ELSE Post(following_renaming_credit_in, <<Cardinality(selected)>>)
<1>5. /\ Ready(dispatch_select_events_)
      /\ inst_queue' = t
      /\ dispatch_pending_queue' = [p \in Pipe |-> dispatch_pending_queue[p] \o
                                       PickAt(InstsOf(s), chosen(p))]
      /\ credit_map' = [p \in Pipe |-> credit_map[p] - Cardinality(chosen(p))]
      /\ inst' = [i \in DOMAIN inst |->
                    IF i \in selected THEN CheckRegStatusImp_(inst[i]) ELSE inst[i]]
      /\ Fire(dispatch_select_events_, {dispatch_issue_events_}, {}, out)
  BY <1>4, Zenon DEF Selecting
<1>6. Chooses(queues, s, 1 .. n)
  <2>1. PipeNum \in Nat
    BY PipeNumAssumption
  <2>2. Choosing(queues, PipeNum, s)
    BY <1>4, <2>1, ChoosingUnfolds, Zenon
  <2>3. credit_map \in [Pipe -> Nat]
    BY Zenon DEF CreditInv, StationInv
  <2> QED BY <2>2, <2>3, ChoosingIs, Zenon
<1>7. /\ \A p \in Pipe : chosen(p) \subseteq Open(s) /\ Cardinality(chosen(p)) <= credit_map[p]
      /\ all \subseteq Open(s) /\ IssuedAt(t, s, all, 1 .. n)
  BY <1>6, Zenon DEF Chooses
<1> HIDE DEF chosen, t
<1>8. Program(inst', n)
  <2> HIDE DEF selected
  <2>1. PICK T, f : T = selected /\ f = inst'
    OBVIOUS
  <2>2. f = [i \in DOMAIN inst |-> IF i \in T THEN CheckRegStatusImp_(inst[i]) ELSE inst[i]]
    BY <1>5, <2>1, Zenon
  <2>3. Program(f, n)
    BY <1>1, <2>2, CheckedProgram, Zenon
  <2> QED BY <2>1, <2>3, Zenon
<1> HIDE DEF all
<1>9. /\ t \in Seq(DispatchEntry(1 .. n)) /\ Len(t) = Len(s)
      /\ \A k \in 1 .. Len(s) : /\ t[k].inst = s[k].inst
                                /\ ~t[k].is_issued <=> ~s[k].is_issued /\ k \notin all
  BY <1>7, Zenon DEF IssuedAt
<1>10. InstsOf(t) = InstsOf(s)
  <2>1. DOMAIN t = 1 .. Len(s) /\ DOMAIN s = 1 .. Len(s)
    BY <1>9
  <2> QED BY <1>9, <2>1 DEF InstsOf
<1>11. Cardinality(Open(t)) + m = Cardinality(Open(s)) /\ Cardinality(Open(t)) \in Nat /\ m \in Nat
  <2>1. PICK F \in SUBSET Open(s) : F = all
    BY <1>7
  <2>2. \A k \in 1 .. Len(s) : ~t[k].is_issued <=> ~s[k].is_issued /\ k \notin F
    BY <1>9, <2>1, Zenon
  <2>3. /\ Cardinality(Open(t)) + Cardinality(F) = Cardinality(Open(s))
        /\ Cardinality(Open(t)) \in Nat /\ Cardinality(F) \in Nat
    BY <1>9, <2>2, OpenMarked
  <2> QED BY <2>1, <2>3, Zenon
<1>12. PICK ids \in Seq(1 .. n) : ids = InstsOf(s) /\ Len(ids) = Len(s)
  BY EntryInsts, Zenon
<1>13. Increasing(ids)
  <2>1. PICK a \in Seq(1 .. n), b \in Seq(1 .. n), r \in Seq(1 .. n), f \in Seq(1 .. n) :
          /\ a = InstsOf(s) /\ b = Instructions(preceding_dispatch_inst_in)
          /\ r = renaming_stage_queue /\ f = Instructions(preceding_renaming_inst_in)
    BY <1>2, <1>12, LineParts, Zenon
  <2>2. Increasing(InLine(a, b, r, f))
    BY <1>3, <2>1, LineIs, Zenon DEF CreditInv
  <2>3. Increasing(a)
    BY <2>2, LineFirst, Zenon
  <2> QED BY <1>12, <2>1, <2>3, Zenon
<1>14. Cardinality(selected) = m /\ (selected = {} <=> m = 0)
  <2>1. PICK F \in SUBSET (1 .. Len(ids)) : F = all
    BY <1>7, <1>12 DEF Open
  <2>2. ids \in Seq(Nat)
    BY <1>12
  <2>3. PICK T : T = selected
    OBVIOUS
  <2>4. T = {ids[k] : k \in F}
    <3>1. \A k \in F : ids[k] = s[k].inst
      BY <1>12, <2>1 DEF InstsOf
    <3> QED BY <2>1, <2>3, <3>1
  <2>5. Cardinality(T) = Cardinality(F) /\ (T = {} <=> Cardinality(F) = 0)
    BY <1>13, <2>2, <2>4, CountAt
  <2> QED BY <2>1, <2>3, <2>5, Zenon
<1> HIDE DEF m, selected
<1>15. out = IF m = 0 THEN Nothing ELSE Post(following_renaming_credit_in, <<m>>)
  BY <1>14, Zenon
<1> HIDE DEF out
<1>16. ASSUME NEW p \in Pipe
       PROVE  /\ g[p] \in Seq(DOMAIN inst) /\ Len(g[p]) \in Nat
              /\ Len(g[p]) = Cardinality(chosen(p)) /\ Len(g[p]) <= credit_map[p]
  <2>1. PICK F \in SUBSET (1 .. Len(ids)) : F = chosen(p) /\ Cardinality(F) <= credit_map[p]
    BY <1>7, <1>12 DEF Open
  <2>2. PickAt(ids, F) \in Seq(1 .. n) /\ Len(PickAt(ids, F)) = Cardinality(F) /\ Cardinality(F) \in Nat
    BY PickAtIs
  <2>3. g[p] = PickAt(ids, F)
    BY <1>12, <2>1, Zenon
  <2> QED BY <1>2, <2>1, <2>2, <2>3, Zenon
<1>17. dispatch_pending_queue' = [p \in Pipe |-> dispatch_pending_queue[p] \o g[p]]
  <2>1. \A p \in Pipe : g[p] = PickAt(InstsOf(s), chosen(p))
    BY Zenon
  <2> HIDE DEF g
  <2> QED BY <1>5, <2>1, Zenon
<1> HIDE DEF g
<1>18. credit_map' = [p \in Pipe |-> credit_map[p] - Len(g[p])]
  BY <1>5, <1>16, Zenon
<1>19. Events({dispatch_issue_events_}, {})
  BY DEF Events, UniqueEvent
<1>20. /\ t \in Seq(DispatchEntry(DOMAIN inst)) /\ InstsOf(t) = InstsOf(inst_queue)
       /\ Cardinality(Open(t)) + m = Cardinality(Open(inst_queue))
  BY <1>2, <1>3, <1>9, <1>10, <1>11, Zenon
<1> QED BY <1>2, <1>5, <1>8, <1>11, <1>15, <1>16, <1>17, <1>18, <1>19, <1>20, Zenon

\* Instructions are chosen: their places are credited, and places in the
\* stations spent on them.
LEMMA SelectInstStep ==
  ASSUME CreditInv, SelectInst_, UNCHANGED <<fetch_credit, renamingVars, rob, rsVars, fuVars>>
  PROVE  CreditInv'
<1> DEFINE c == dispatch_select_events_
           d == following_renaming_credit_in
<1>1. PICK I : I = DOMAIN inst
  OBVIOUS
<1>2. PICK n \in Nat, m \in Nat : \E t \in Seq(DispatchEntry(DOMAIN inst)) : \E g, out :
           /\ Program(inst', n) /\ DOMAIN inst = 1 .. n
           /\ inst_queue' = t /\ InstsOf(t) = InstsOf(inst_queue)
           /\ Cardinality(Open(t)) + m = Cardinality(Open(inst_queue))
           /\ Cardinality(Open(t)) \in Nat
           /\ \A p \in Pipe : /\ g[p] \in Seq(DOMAIN inst) /\ Len(g[p]) \in Nat
                              /\ Len(g[p]) <= credit_map[p]
           /\ dispatch_pending_queue' = [p \in Pipe |-> dispatch_pending_queue[p] \o g[p]]
           /\ credit_map' = [p \in Pipe |-> credit_map[p] - Len(g[p])]
           /\ Ready(c) /\ Events({dispatch_issue_events_}, {})
           /\ Fire(c, {dispatch_issue_events_}, {}, out)
           /\ out = IF m = 0 THEN Nothing ELSE Post(d, <<m>>)
  BY SelectDoes, Zenon
<1>21. PICK t \in Seq(DispatchEntry(DOMAIN inst)) : \E g, out :
           /\ Program(inst', n) /\ DOMAIN inst = 1 .. n
           /\ inst_queue' = t /\ InstsOf(t) = InstsOf(inst_queue)
           /\ Cardinality(Open(t)) + m = Cardinality(Open(inst_queue))
           /\ Cardinality(Open(t)) \in Nat
           /\ \A p \in Pipe : /\ g[p] \in Seq(DOMAIN inst) /\ Len(g[p]) \in Nat
                              /\ Len(g[p]) <= credit_map[p]
           /\ dispatch_pending_queue' = [p \in Pipe |-> dispatch_pending_queue[p] \o g[p]]
           /\ credit_map' = [p \in Pipe |-> credit_map[p] - Len(g[p])]
           /\ Ready(c) /\ Events({dispatch_issue_events_}, {})
           /\ Fire(c, {dispatch_issue_events_}, {}, out)
           /\ out = IF m = 0 THEN Nothing ELSE Post(d, <<m>>)
  BY <1>2, Zenon
<1>22. PICK g, out :
           /\ Program(inst', n) /\ DOMAIN inst = 1 .. n
           /\ inst_queue' = t /\ InstsOf(t) = InstsOf(inst_queue)
           /\ Cardinality(Open(t)) + m = Cardinality(Open(inst_queue))
           /\ Cardinality(Open(t)) \in Nat
           /\ \A p \in Pipe : /\ g[p] \in Seq(DOMAIN inst) /\ Len(g[p]) \in Nat
                              /\ Len(g[p]) <= credit_map[p]
           /\ dispatch_pending_queue' = [p \in Pipe |-> dispatch_pending_queue[p] \o g[p]]
           /\ credit_map' = [p \in Pipe |-> credit_map[p] - Len(g[p])]
           /\ Ready(c) /\ Events({dispatch_issue_events_}, {})
           /\ Fire(c, {dispatch_issue_events_}, {}, out)
           /\ out = IF m = 0 THEN Nothing ELSE Post(d, <<m>>)
  BY <1>21, Zenon
<1>3. /\ t \in Seq(DispatchEntry(I)) /\ I = 1 .. n
      /\ \A p \in Pipe : /\ g[p] \in Seq(I) /\ Len(g[p]) \in Nat
                         /\ Len(g[p]) <= credit_map[p]
      /\ Program(inst', n)
      /\ inst_queue' = t /\ InstsOf(t) = InstsOf(inst_queue)
      /\ Cardinality(Open(t)) + m = Cardinality(Open(inst_queue))
      /\ Cardinality(Open(t)) \in Nat
      /\ dispatch_pending_queue' = [p \in Pipe |-> dispatch_pending_queue[p] \o g[p]]
      /\ credit_map' = [p \in Pipe |-> credit_map[p] - Len(g[p])]
      /\ Ready(c) /\ Events({dispatch_issue_events_}, {})
      /\ Fire(c, {dispatch_issue_events_}, {}, out)
      /\ out = IF m = 0 THEN Nothing ELSE Post(d, <<m>>)
  <2>1. t \in Seq(DispatchEntry(I)) /\ I = 1 .. n
    BY <1>1, <1>22, Zenon
  <2>2. ASSUME NEW p \in Pipe
        PROVE  g[p] \in Seq(I) /\ Len(g[p]) \in Nat /\ Len(g[p]) <= credit_map[p]
    BY <1>1, <1>22, Zenon
  <2> QED BY <1>22, <2>1, <2>2, Zenon
<1>4. c \notin LinkPort /\ d \in LinkPort /\ d \in CreditPort
  BY LinkPortsDiffer, LinkPortHas DEF UniqueEvent
<1> HIDE DEF c, d
<1>5. InstInv' /\ More /\ DOMAIN inst' = I
  <2>1. DOMAIN inst' = 1 .. n
    BY <1>3, ProgramIsSeq, Zenon
  <2> QED BY <1>1, <1>3, <2>1, Zenon DEF InstInv, More
<1>6. PICK mm : mm = <<m>>
  OBVIOUS
<1>7. /\ \A mail \in out : mail[1] = d /\ mail[2] = mm
      /\ m = 0 => out = {}
      /\ m # 0 => Sent(out, d) = mm
  <2>1. CASE m = 0
    BY <1>3, <2>1 DEF Nothing
  <2>2. CASE m # 0
    <3>1. out = Post(d, mm)
      BY <1>3, <1>6, <2>2, Zenon
    <3>2. Sent(Post(d, mm), d) = mm
      BY SentIs
    <3>3. \A mail \in Post(d, mm) : mail[1] = d /\ mail[2] = mm
      BY DEF Post
    <3> QED BY <2>2, <3>1, <3>2, <3>3, Zenon
  <2> QED BY <2>1, <2>2
<1>8. WiresOK' /\ Delivered(out)
  <2>1. mm \in Seq(MessageOf(d, DOMAIN inst'))
    BY <1>4, <1>6, CreditIsTyped, Zenon
  <2>2. Carries(out, DOMAIN inst')
    BY <1>7, <2>1, Zenon DEF Carries
  <2> QED BY <1>3, <1>4, <1>5, <2>2, EventStep, Zenon
<1>9. \A e \in LinkPort : e # d => Quiet(e)
  BY <1>7, <1>8, Zenon DEF Delivered
<1>10. CreditsOn(d) \in Nat /\ CreditsOn(d)' = CreditsOn(d) + m
  <2>1. CreditsOn(d) \in Nat
    BY <1>4, CreditsAreNat, Zenon DEF CreditInv
  <2>2. CASE m = 0
    <3>1. \A mail \in out : mail[1] # d
      BY <1>7, <2>2
    <3>2. Quiet(d)
      BY <1>4, <1>8, <3>1, Zenon DEF Delivered
    <3>3. CreditsOn(d)' = CreditsOn(d)
      BY <3>2, QuietPortSame, Zenon
    <3> QED BY <2>1, <2>2, <3>3
  <2>3. CASE m # 0
    <3>1. OnTheWay(d)' = OnTheWay(d) \o <<m>>
      BY <1>4, <1>6, <1>7, <1>8, <2>3, Zenon DEF Delivered
    <3> QED BY <1>4, <3>1, SendsCredit, Zenon DEF CreditInv
  <2> QED BY <2>2, <2>3
<1>11. UNCHANGED <<fetch_credit, renaming_stage_queue, rob_credit, rob, dispatch_credit,
                   reservation_station, rs_credit, alu_queue>>
  BY Zenon DEF renamingVars, rsVars, fuVars
<1>12. /\ \A p \in Pipe : Quiet(following_reservation_credit_in(p)) /\ Quiet(preceding_func_inst_in(p))
       /\ \A p \in Pipe : Quiet(preceding_reservation_inst_in(p))
       /\ Quiet(rs_dispatch_credit_in) /\ Quiet(preceding_dispatch_inst_in)
       /\ Quiet(preceding_renaming_inst_in)
  BY <1>9, LinkPortHas, LinkPortsDiffer, Zenon DEF d
<1>13. FetchInv' /\ RobInv'
  <2>1. SameFetch /\ SameRob
    BY <1>9, <1>11, LinkPortHas, LinkPortsDiffer, Zenon DEF SameFetch, SameRob, d
  <2> QED BY <1>5, <2>1, FetchFrame, RobFrame, Zenon DEF CreditInv
<1>14. FuInv'
  BY <1>5, <1>11, <1>12, FusFrame, Zenon DEF CreditInv
<1>15. DispatchInv'
  <2>1. PICK s \in Seq(DispatchEntry(I)) : s = inst_queue
    BY <1>1, Zenon DEF CreditInv, DispatchInv
  <2>2. /\ Len(Unissued(s)) = Cardinality(Open(s)) /\ Len(Unissued(t)) = Cardinality(Open(t))
        /\ Cardinality(Open(s)) \in Nat
    BY DispatchUnissued, Zenon
  <2>3. Unissued(inst_queue)' = Unissued(t)
    BY <1>3, Zenon DEF Unissued
  <2>4. Instructions(preceding_dispatch_inst_in)' = Instructions(preceding_dispatch_inst_in)
    BY <1>12, QuietPortSame, Zenon
  <2>5. PICK x \in Nat, k \in Nat, i \in Nat, u \in Nat, v \in Nat :
          /\ x = dispatch_credit /\ k = CreditsOn(d)
          /\ i = Len(Instructions(preceding_dispatch_inst_in))
          /\ u = Cardinality(Open(s)) /\ v = Cardinality(Open(t))
    <3>1. Len(Instructions(preceding_dispatch_inst_in)) \in Nat
      BY LinkPortHas, GroupWire, Zenon DEF CreditInv
    <3> QED BY <1>3, <1>10, <2>2, <3>1, Zenon DEF CreditInv, DispatchInv
  <2>6. x + k + i + u = DispatchDepth /\ v + m = u
    BY <1>3, <2>1, <2>2, <2>5, Zenon DEF CreditInv, DispatchInv, DispatchLink, d
  <2>7. x + (k + m) + i + v = DispatchDepth
    BY <2>6
  <2>8. DispatchLink'
    BY <1>10, <1>11, <2>2, <2>3, <2>4, <2>5, <2>7, Zenon DEF DispatchLink, d
  <2> QED BY <1>3, <1>5, <1>11, <2>8, Zenon DEF DispatchInv, CreditInv
<1>16. ASSUME NEW p \in Pipe
       PROVE  /\ StationLink(p)' /\ credit_map[p] - Len(g[p]) \in Nat
              /\ dispatch_pending_queue[p] \o g[p] \in Seq(I)
  <2>1. StationCredits(p)' = StationCredits(p) /\ StationCredits(p) \in Nat
    BY <1>12, StationCreditsSame, StationCreditsNat, Zenon DEF CreditInv
  <2>2. PICK x \in Nat, a \in Nat, i \in Nat, u \in Nat, l \in Nat, k \in Nat :
          /\ x = credit_map[p] /\ i = Len(Instructions(preceding_reservation_inst_in(p)))
          /\ a = StationCredits(p) /\ u = Len(Unissued(reservation_station[p]))
          /\ l = Len(dispatch_pending_queue[p]) /\ k = Len(g[p])
    BY <1>3, <2>1, StationNumbers, Zenon
  <2>3. x + a + l + i + u = RsDepth
    BY <2>2, Zenon DEF CreditInv, StationInv, StationLink
  <2>4. k <= x
    BY <1>3, <2>2, Zenon
  <2>5. (x - k) + a + (l + k) + i + u = RsDepth /\ x - k \in Nat
    BY <2>3, <2>4
  <2>6. Unissued(reservation_station[p])' = Unissued(reservation_station[p])
    BY <1>11, Zenon DEF Unissued
  <2>7. Instructions(preceding_reservation_inst_in(p))' = Instructions(preceding_reservation_inst_in(p))
    BY <1>12, QuietPortSame, Zenon
  <2>12. PICK q \in Seq(I), h \in Seq(I) : q = dispatch_pending_queue[p] /\ h = g[p]
    BY <1>1, <1>3, StationNumbers, Zenon
  <2>8. PICK qh : q = dispatch_pending_queue[p] /\ h = g[p] /\ qh = q \o h
    BY <2>12
  <2>9. qh \in Seq(I) /\ Len(qh) = Len(q) + Len(h)
    BY <2>8, ConcatOf
  <2>10. dispatch_pending_queue'[p] = qh /\ credit_map'[p] = x - k
    BY <1>3, <2>2, <2>8, Zenon
  <2>11. Len(qh) = l + k
    BY <2>2, <2>8, <2>9, Zenon
  <2> QED BY <2>1, <2>2, <2>5, <2>6, <2>7, <2>8, <2>9, <2>10, <2>11, Zenon DEF StationLink
<1>17. StationInv'
  <2>1. credit_map' \in [Pipe -> Nat]
    BY <1>3, <1>16
  <2>2. dispatch_pending_queue' \in [Pipe -> Seq(I)]
    BY <1>3, <1>16
  <2>3. reservation_station' \in [Pipe -> Seq(StationEntry(I))]
    BY <1>1, <1>11, Zenon DEF CreditInv, StationInv
  <2> QED BY <1>5, <1>16, <2>1, <2>2, <2>3, Zenon DEF StationInv
<1>18. Increasing(FrontLine)'
  <2>1. /\ Instructions(preceding_dispatch_inst_in)' = Instructions(preceding_dispatch_inst_in)
        /\ Instructions(preceding_renaming_inst_in)' = Instructions(preceding_renaming_inst_in)
    BY <1>12, QuietPortSame, Zenon
  <2>2. InstsOf(inst_queue') = InstsOf(inst_queue)
    BY <1>3, Zenon
  <2>3. FrontLine' = FrontLine
    BY <1>11, <2>1, <2>2, LineIs, LineIsPrime, Zenon
  <2> QED BY <2>3, Zenon DEF CreditInv, Increasing
<1> QED BY <1>5, <1>8, <1>13, <1>14, <1>15, <1>17, <1>18, Zenon DEF CreditInv

\* What was sent for the next cycle is now for this one, and as much on its way.
LEMMA TickMoves ==
  ASSUME CreditInv, Tick
  PROVE  WiresOK' /\ \A d \in LinkPort : OnTheWay(d)' = OnTheWay(d)
<1>1. inst' = inst /\ now' = later /\ later' = [c \in Source |-> << >>]
      /\ \A c \in Source : now[c] = << >>
  BY Zenon DEF Tick, Pending
<1>2. ASSUME NEW d \in LinkPort
      PROVE  Typed(d, MessageOf(d, DOMAIN inst))' /\ OnTheWay(d)' = OnTheWay(d)
  <2>1. d \in Source
    BY LinkPortsAre DEF Port, Source
  <2>2. PICK M : M = MessageOf(d, DOMAIN inst)
    OBVIOUS
  <2>3. Typed(d, M)
    BY <2>2, Zenon DEF CreditInv, WiresOK
  <2>4. PICK a \in Seq(M) : a = later[d]
    BY <2>3, Zenon DEF Typed
  <2>5. now[d] = << >> /\ now'[d] = a /\ later'[d] = << >>
    BY <1>1, <2>1, <2>4, Zenon
  <2>6. << >> \o a = a /\ a \o << >> = a
    BY EmptyConcat
  <2>7. OnTheWay(d) = a /\ OnTheWay(d)' = a
    BY <2>4, <2>5, <2>6, Zenon DEF OnTheWay
  <2>8. << >> \in Seq(M)
    OBVIOUS
  <2>9. Typed(d, M)'
    BY <2>4, <2>5, <2>8, Zenon DEF Typed
  <2>10. MessageOf(d, DOMAIN inst)' = M
    BY <1>1, <2>2, Zenon
  <2> QED BY <2>7, <2>9, <2>10, Zenon
<1>3. WiresOK'
  BY <1>1, <1>2, Zenon DEF WiresOK
<1> QED BY <1>2, <1>3, Zenon

\* A new cycle.
LEMMA TickStep ==
  ASSUME CreditInv, Tick,
         UNCHANGED <<fetch_credit, renamingVars, rob, dispatchVars, rsVars, fuVars>>
  PROVE  CreditInv'
<1>1. WiresOK' /\ inst' = inst
  BY TickMoves, Zenon DEF Tick
<1>2. \A d \in LinkPort : /\ OnTheWay(d)' = OnTheWay(d) /\ Instructions(d)' = Instructions(d)
                          /\ CreditsOn(d)' = CreditsOn(d)
  BY TickMoves, Zenon DEF Instructions, CreditsOn
<1>3. \A p \in Pipe : StationCredits(p)' = StationCredits(p)
  BY <1>2, LinkPortHas, Zenon DEF StationCredits
<1>4. UNCHANGED linkVars
  BY Zenon DEF linkVars, renamingVars, dispatchVars, rsVars, fuVars
<1>5. InstInv' /\ More
  BY <1>1, InstSame, Zenon DEF CreditInv
<1>6. FetchInv'
  <2>1. Unrenamed' = Unrenamed
    BY <1>2, <1>4, LinkPortHas, Zenon DEF Unrenamed, linkVars
  <2> QED BY <1>1, <1>2, <1>4, <2>1, LinkPortHas, Zenon DEF CreditInv, FetchInv, FetchLink, linkVars
<1>7. RobInv'
  <2>1. /\ RobRing!Ring(rob)' /\ RobHolds(DOMAIN inst)'
        /\ RobQueue!size(rob)' = RobQueue!size(rob)
    BY <1>4, <1>5, RobSame, Zenon DEF CreditInv, RobInv, linkVars
  <2> QED BY <1>2, <1>4, <2>1, LinkPortHas, Zenon DEF CreditInv, RobInv, RobLink, linkVars
<1>8. DispatchInv'
  <2>1. Unissued(inst_queue)' = Unissued(inst_queue)
    BY <1>4, Zenon DEF Unissued, linkVars
  <2> QED BY <1>1, <1>2, <1>4, <2>1, LinkPortHas, Zenon
          DEF CreditInv, DispatchInv, DispatchLink, linkVars
<1>9. StationInv'
  <2>1. ASSUME NEW p \in Pipe PROVE StationLink(p)'
    <3>1. Unissued(reservation_station[p])' = Unissued(reservation_station[p])
      BY <1>4, Zenon DEF Unissued, linkVars
    <3> QED BY <1>2, <1>3, <1>4, <3>1, LinkPortHas, Zenon
            DEF CreditInv, StationInv, StationLink, linkVars
  <2> QED BY <1>1, <1>4, <2>1, Zenon DEF CreditInv, StationInv, linkVars
<1>10. FuInv'
  <2>1. ASSUME NEW p \in Pipe PROVE FuLink(p)'
    BY <1>2, <1>4, LinkPortHas, Zenon DEF CreditInv, FuInv, FuLink, linkVars
  <2> QED BY <1>1, <1>4, <2>1, Zenon DEF CreditInv, FuInv, linkVars
<1>11. Increasing(FrontLine)'
  <2>1. FrontLine' = FrontLine
    BY <1>2, <1>4, LinkPortHas, LineIs, LineIsPrime, Zenon DEF linkVars
  <2> QED BY <2>1, Zenon DEF CreditInv, Increasing
<1> QED BY <1>1, <1>5, <1>6, <1>7, <1>8, <1>9, <1>10, <1>11, Zenon DEF CreditInv

\* What a port receives when only one message goes to it.
LEMMA SentOnly ==
  ASSUME NEW out, NEW d, NEW x, <<d, x>> \in out, \A mail \in out : mail[1] = d => mail = <<d, x>>
  PROVE  Sent(out, d) = x
<1>1. <<d, x>>[1] = d /\ <<d, x>>[2] = x
  OBVIOUS
<1>2. (CHOOSE mail \in out : mail[1] = d) = <<d, x>>
  BY <1>1
<1> QED BY <1>1, <1>2, Zenon DEF Sent

\* Each receiver of credits has all of them when it starts.
StartCredits(p) == [name |-> p, credit |-> RsDepth]

\* At the start every consumer's whole depth is on its credit wire.
LEMMA InitWires ==
  ASSUME Init
  PROVE  /\ OnTheWay(backend_fetch_credit_in) = <<RenameDepth>>
         /\ OnTheWay(rob_renaming_credit_in) = <<RobDepth>>
         /\ OnTheWay(following_renaming_credit_in) = <<DispatchDepth>>
         /\ OnTheWay(rs_dispatch_credit_in) = [p \in Pipe |-> StartCredits(p)]
         /\ \A p \in Pipe : OnTheWay(following_reservation_credit_in(p)) = <<FuDepth>>
         /\ \A d \in GroupPort : OnTheWay(d) = << >>
         /\ \A d \in LinkPort : now[d] = OnTheWay(d) /\ later[d] = << >>
<1>1. PICK C : /\ C = RenamingInitCredit_ \cup RobInitCredit_ \cup DispatchInitCredit_
                        \cup RsInitCredit_ \cup FuSendInitCredit_
               /\ now = [c \in Source |-> Sent(C, c)] /\ later = [c \in Source |-> << >>]
  BY Zenon DEF Init, SchedulerInit
<1>2. PICK bf, rr, fr, rd : /\ bf = backend_fetch_credit_in /\ rr = rob_renaming_credit_in
                            /\ fr = following_renaming_credit_in /\ rd = rs_dispatch_credit_in
  OBVIOUS
<1>3. PICK x1, x2, x3, x4, x5 :
         /\ x1 = <<RenameDepth>> /\ x2 = <<RobDepth>> /\ x3 = <<DispatchDepth>>
         /\ x4 = [p \in Pipe |-> StartCredits(p)] /\ x5 = <<FuDepth>>
  OBVIOUS
<1> DEFINE to(p) == following_reservation_credit_in(p)
<1>4. /\ <<bf, x1>> \in C /\ <<rr, x2>> \in C /\ <<fr, x3>> \in C /\ <<rd, x4>> \in C
      /\ \A p \in Pipe : <<to(p), x5>> \in C
      /\ \A mail \in C : \/ mail = <<bf, x1>> \/ mail = <<rr, x2>> \/ mail = <<fr, x3>>
                         \/ mail = <<rd, x4>> \/ \E p \in Pipe : mail = <<to(p), x5>>
  BY <1>1, <1>2, <1>3 DEF RenamingInitCredit_, RobInitCredit_, DispatchInitCredit_,
     RsInitCredit_, FuSendInitCredit_, Post, StartCredits
<1> HIDE DEF to
<1>5. /\ bf # rr /\ bf # fr /\ bf # rd /\ rr # fr /\ rr # rd /\ fr # rd
      /\ \A p \in Pipe : to(p) # bf /\ to(p) # rr /\ to(p) # fr /\ to(p) # rd
      /\ \A p, q \in Pipe : p # q => to(p) # to(q)
      /\ \A e \in GroupPort : e # bf /\ e # rr /\ e # fr /\ e # rd /\ \A p \in Pipe : e # to(p)
  BY <1>2, LinkPortsDiffer, LinkPortHas, Zenon DEF to
<1>6. /\ Sent(C, bf) = x1 /\ Sent(C, rr) = x2 /\ Sent(C, fr) = x3 /\ Sent(C, rd) = x4
  <2>1. /\ \A mail \in C : mail[1] = bf => mail = <<bf, x1>>
        /\ \A mail \in C : mail[1] = rr => mail = <<rr, x2>>
        /\ \A mail \in C : mail[1] = fr => mail = <<fr, x3>>
        /\ \A mail \in C : mail[1] = rd => mail = <<rd, x4>>
    BY <1>4, <1>5
  <2> QED BY <1>4, <2>1, SentOnly
<1>7. ASSUME NEW p \in Pipe PROVE Sent(C, to(p)) = x5
  <2>1. \A mail \in C : mail[1] = to(p) => mail = <<to(p), x5>>
    BY <1>4, <1>5
  <2> QED BY <1>4, <2>1, SentOnly
<1>8. ASSUME NEW e \in GroupPort PROVE Sent(C, e) = << >>
  <2>1. \A mail \in C : mail[1] # e
    BY <1>4, <1>5
  <2> QED BY <2>1, Zenon DEF Sent
<1>9. \A d \in LinkPort : now[d] = Sent(C, d) /\ later[d] = << >>
  <2>1. \A d \in LinkPort : d \in Source
    BY LinkPortsAre DEF Port, Source
  <2> QED BY <1>1, <2>1
<1>10. x1 \o << >> = x1 /\ x2 \o << >> = x2 /\ x3 \o << >> = x3 /\ x5 \o << >> = x5 /\ << >> \o << >> = << >>
  BY <1>3
<1>11. x4 \o << >> = x4
  <2>1. PICK n \in Nat : n = PipeNum
    BY PipeNumAssumption
  <2>2. PICK S : \A p \in Pipe : StartCredits(p) \in S
    <3>1. \A p \in Pipe : StartCredits(p) \in {StartCredits(q) : q \in Pipe}
      OBVIOUS
    <3> QED BY <3>1
  <2>3. x4 \in Seq(S)
    BY <1>3, <2>1, <2>2 DEF Pipe
  <2> QED BY <2>3, EmptyConcat
<1>12. bf \in LinkPort /\ rr \in LinkPort /\ fr \in LinkPort /\ rd \in LinkPort
       /\ \A p \in Pipe : to(p) \in LinkPort
  BY <1>2, LinkPortHas, Zenon DEF to
<1>13. \A d \in LinkPort : OnTheWay(d) = Sent(C, d) \o << >>
  BY <1>9, Zenon DEF OnTheWay
<1>14. /\ OnTheWay(bf) = x1 /\ OnTheWay(rr) = x2 /\ OnTheWay(fr) = x3 /\ OnTheWay(rd) = x4
       /\ \A p \in Pipe : OnTheWay(to(p)) = x5
       /\ \A e \in GroupPort : OnTheWay(e) = << >>
  BY <1>6, <1>7, <1>8, <1>10, <1>11, <1>12, <1>13, LinkPortHas, Zenon
<1>15. ASSUME NEW d \in LinkPort PROVE now[d] = OnTheWay(d)
  <2>1. \/ d = bf \/ d = rr \/ d = fr \/ d = rd \/ d \in GroupPort \/ \E p \in Pipe : d = to(p)
    BY <1>2 DEF LinkPort, CreditPort, to
  <2>2. now[d] = Sent(C, d)
    BY <1>9
  <2> QED BY <1>6, <1>7, <1>8, <1>14, <2>1, <2>2, Zenon
<1> QED BY <1>2, <1>3, <1>9, <1>14, <1>15, Zenon DEF to

\* An empty queue has no entry that is not issued.
LEMMA EmptyUnissued == Unissued(<< >>) = << >>
<1>1. PICK places : places = {k \in DOMAIN << >> : ~<< >>[k].is_issued}
  OBVIOUS
<1>2. [k \in DOMAIN << >> |-> << >>[k].inst] = << >>
  OBVIOUS
<1>3. Unissued(<< >>) = PickAt(<< >>, places)
  BY <1>1, <1>2, Zenon DEF Unissued
<1>4. [i \in 1 .. Len(<< >>) |-> IF i \in places THEN <<<< >>[i]>> ELSE << >>] = << >>
  OBVIOUS
<1>5. PickAt(<< >>, places) = Joined(<< >>)
  BY <1>4, Zenon DEF PickAt
<1> QED BY <1>3, <1>5, JoinedEmpty, Zenon

\* At the start the credits of every link are on their way to its sender.
LEMMA InitCredits == ASSUME Init PROVE CreditInv
<1>1. /\ inst = << >> /\ fetch_credit = 0 /\ renaming_stage_queue = << >>
      /\ dispatch_credit = 0 /\ rob_credit = 0 /\ inst_queue = << >>
      /\ credit_map = [p \in Pipe |-> 0] /\ dispatch_pending_queue = [p \in Pipe |-> << >>]
      /\ reservation_station = [p \in Pipe |-> << >>] /\ rs_credit = [p \in Pipe |-> 0]
      /\ alu_queue = [p \in Pipe |-> << >>] /\ RobInit
  BY Zenon DEF Init, FrontendInit, RenamingInit, DispatchInit, RsInit, FuInit
<1>2. /\ OnTheWay(backend_fetch_credit_in) = <<RenameDepth>>
      /\ OnTheWay(rob_renaming_credit_in) = <<RobDepth>>
      /\ OnTheWay(following_renaming_credit_in) = <<DispatchDepth>>
      /\ OnTheWay(rs_dispatch_credit_in) = [p \in Pipe |-> StartCredits(p)]
      /\ \A p \in Pipe : OnTheWay(following_reservation_credit_in(p)) = <<FuDepth>>
      /\ \A d \in GroupPort : OnTheWay(d) = << >>
      /\ \A d \in LinkPort : now[d] = OnTheWay(d) /\ later[d] = << >>
  BY InitWires, Zenon
<1>3. RenameDepth \in Nat /\ RobDepth \in Nat /\ DispatchDepth \in Nat /\ RsDepth \in Nat /\ FuDepth \in Nat
  BY SizesAssumption
<1>4. PICK n \in Nat : n = PipeNum
  BY PipeNumAssumption
<1>5. /\ CreditsOn(backend_fetch_credit_in) = RenameDepth
      /\ CreditsOn(rob_renaming_credit_in) = RobDepth
      /\ CreditsOn(following_renaming_credit_in) = DispatchDepth
      /\ \A p \in Pipe : CreditsOn(following_reservation_credit_in(p)) = FuDepth
  <2>1. /\ SumOf(<<RenameDepth>>) = RenameDepth /\ SumOf(<<RobDepth>>) = RobDepth
        /\ SumOf(<<DispatchDepth>>) = DispatchDepth /\ SumOf(<<FuDepth>>) = FuDepth
    BY <1>3, SumOfOne
  <2> QED BY <1>2, <2>1, Zenon DEF CreditsOn
<1>6. \A d \in GroupPort : Instructions(d) = << >>
  BY <1>2, JoinedEmpty, Zenon DEF Instructions
<1>7. ASSUME NEW p \in Pipe PROVE StationCredits(p) = RsDepth
  <2>1. PICK pairs : pairs = [q \in Pipe |-> StartCredits(q)]
    OBVIOUS
  <2>2. /\ DOMAIN pairs = 1 .. n
        /\ \A q \in 1 .. n : pairs[q].name = q /\ pairs[q].credit = RsDepth
    BY <1>4, <2>1 DEF Pipe, StartCredits
  <2>3. [k \in DOMAIN pairs |-> IF pairs[k].name = p THEN pairs[k].credit ELSE 0]
          = [k \in 1 .. n |-> IF k = p THEN RsDepth ELSE 0]
    BY <2>2
  <2>4. p \in 1 .. n
    BY <1>4 DEF Pipe
  <2>5. SumOf([k \in 1 .. n |-> IF k = p THEN RsDepth ELSE 0]) = RsDepth
    BY <1>3, <2>4, SumOfSingle
  <2>6. OnTheWay(rs_dispatch_credit_in) = pairs
    BY <1>2, <2>1
  <2> QED BY <2>3, <2>5, <2>6, Zenon DEF StationCredits
<1>8. WiresOK
  <2>1. ASSUME NEW d \in LinkPort
        PROVE  Typed(d, MessageOf(d, DOMAIN inst))
    <3>1. PICK M : M = MessageOf(d, DOMAIN inst)
      OBVIOUS
    <3>2. later[d] = << >> /\ << >> \in Seq(M)
      BY <1>2
    <3>3. OnTheWay(d) \in Seq(M)
      <4>1. CASE d \in CreditPort
        <5>1. M = Nat
          BY <3>1, <4>1 DEF MessageOf
        <5>2. \A k \in Nat : <<k>> \in Seq(Nat)
          OBVIOUS
        <5>3. \/ OnTheWay(d) = <<RenameDepth>> \/ OnTheWay(d) = <<RobDepth>>
              \/ OnTheWay(d) = <<DispatchDepth>> \/ OnTheWay(d) = <<FuDepth>>
          BY <1>2, <4>1 DEF CreditPort
        <5> QED BY <1>3, <5>1, <5>2, <5>3, Zenon
      <4>2. CASE d \in GroupPort
        BY <1>2, <3>2, <4>2, Zenon
      <4>3. CASE d = rs_dispatch_credit_in
        <5>1. M = StationCredit
          BY <3>1, <4>3, LinkPortsAre, Zenon DEF MessageOf
        <5>2. \A p \in Pipe : StartCredits(p) \in StationCredit
          BY <1>3 DEF StartCredits, StationCredit
        <5>3. [p \in Pipe |-> StartCredits(p)] \in Seq(StationCredit)
          BY <1>4, <5>2 DEF Pipe
        <5> QED BY <1>2, <4>3, <5>1, <5>3, Zenon
      <4> QED BY <4>1, <4>2, <4>3 DEF LinkPort
    <3>4. now[d] \in Seq(M)
      BY <1>2, <3>3
    <3> QED BY <3>1, <3>2, <3>4, Zenon DEF Typed
  <2> QED BY <2>1, Zenon DEF WiresOK
<1>9. InstInv
  <2>1. Program(<< >>, 0)
    BY DEF Program
  <2>2. 0 \in Nat
    OBVIOUS
  <2> QED BY <1>1, <2>1, <2>2, Zenon DEF InstInv
<1>10. << >> \in Seq(DOMAIN inst) /\ Len(<< >>) = 0 /\ << >> \o << >> = << >> /\ 0 \in Nat
  OBVIOUS
<1>11. FetchInv
  <2>1. Unrenamed = << >>
    BY <1>1, <1>6, <1>10, LinkPortHas, Zenon DEF Unrenamed
  <2>2. 0 + RenameDepth + 0 = RenameDepth
    BY <1>3
  <2> QED BY <1>1, <1>5, <1>10, <2>1, <2>2, Zenon DEF FetchInv, FetchLink
<1>12. RobInv
  <2>1. RobRing!Ring(rob) /\ rob.usage = 0
    BY <1>1, <1>3, SizesAssumption DEF RobInit, NoEntry, RobEntry, RobRing!Ring,
       RobRing!LoopQueueType, RobRing!Slot, RobRing!SizeAssertion, RobRing!size
  <2>2. RobQueue!size(rob) = 0
    BY <2>1, RobCount, Zenon
  <2>3. RobHolds(DOMAIN inst)
    BY <2>1 DEF RobHolds
  <2>4. 0 + RobDepth + 0 + 0 = RobDepth
    BY <1>3
  <2>5. Len(Instructions(preceding_rob_inst_in)) = 0
    BY <1>6, <1>10, LinkPortHas, Zenon
  <2> QED BY <1>1, <1>5, <1>10, <2>1, <2>2, <2>3, <2>4, <2>5, Zenon DEF RobInv, RobLink
<1>13. DispatchInv
  <2>1. 0 + DispatchDepth + 0 + 0 = DispatchDepth
    BY <1>3
  <2>2. Len(Instructions(preceding_dispatch_inst_in)) = 0 /\ Len(Unissued(inst_queue)) = 0
    BY <1>1, <1>6, <1>10, LinkPortHas, EmptyUnissued, Zenon
  <2>3. << >> \in Seq(DispatchEntry(DOMAIN inst))
    OBVIOUS
  <2> QED BY <1>1, <1>5, <1>10, <2>1, <2>2, <2>3, Zenon DEF DispatchInv, DispatchLink
<1>14. StationInv
  <2>1. << >> \in Seq(StationEntry(DOMAIN inst))
    OBVIOUS
  <2>2. /\ credit_map \in [Pipe -> Nat]
        /\ dispatch_pending_queue \in [Pipe -> Seq(DOMAIN inst)]
        /\ reservation_station \in [Pipe -> Seq(StationEntry(DOMAIN inst))]
    BY <1>1, <1>10, <2>1
  <2>3. ASSUME NEW p \in Pipe PROVE StationLink(p)
    <3>1. /\ credit_map[p] = 0 /\ dispatch_pending_queue[p] = << >>
          /\ reservation_station[p] = << >>
      BY <1>1
    <3>2. Instructions(preceding_reservation_inst_in(p)) = << >>
      BY <1>6, LinkPortHas, Zenon
    <3>3. 0 + RsDepth + 0 + 0 + 0 = RsDepth
      BY <1>3
    <3> QED BY <1>7, <1>10, <3>1, <3>2, <3>3, EmptyUnissued, Zenon DEF StationLink
  <2> QED BY <2>2, <2>3, Zenon DEF StationInv
<1>15. FuInv
  <2>1. rs_credit \in [Pipe -> Nat] /\ alu_queue \in [Pipe -> Seq(DOMAIN inst)]
    BY <1>1, <1>10
  <2>2. ASSUME NEW p \in Pipe PROVE FuLink(p)
    <3>1. rs_credit[p] = 0 /\ alu_queue[p] = << >>
      BY <1>1
    <3>2. Instructions(preceding_func_inst_in(p)) = << >>
      BY <1>6, LinkPortHas, Zenon
    <3>3. 0 + FuDepth + 0 + 0 = FuDepth
      BY <1>3
    <3> QED BY <1>5, <1>10, <3>1, <3>2, <3>3, Zenon DEF FuLink
  <2> QED BY <2>1, <2>2, Zenon DEF FuInv
<1>16. Increasing(FrontLine)
  <2>1. DispatchInsts = << >>
    BY <1>1 DEF DispatchInsts
  <2>2. FrontLine = << >>
    BY <1>1, <1>6, <1>10, <2>1, LinkPortHas, Zenon DEF FrontLine
  <2>3. Increasing(<< >>)
    BY DEF Increasing
  <2> QED BY <2>2, <2>3, Zenon
<1> QED BY <1>8, <1>9, <1>11, <1>12, <1>13, <1>14, <1>15, <1>16, Zenon DEF CreditInv

\* Every handler and every new cycle keeps the credits.
LEMMA CreditStep ==
  ASSUME CreditInv, WellPredicted, [Next]_vars PROVE CreditInv'
<1>1. CASE FrontendStep
  BY <1>1, AcceptCreditStep, ProduceStep, Zenon DEF FrontendStep
<1>2. CASE RenamingStep
  BY <1>2, AcceptRobCreditStep, AcceptDispatchCreditStep, RenamingAllocateStep, RenameStep,
     RobCommitStep, Zenon DEF RenamingStep
<1>3. CASE RobStep
  BY <1>3, AllocateRobStep, FinishStep, CommitStep, Zenon DEF RobStep
<1>4. CASE DispatchStep
  BY <1>4, DispatchAllocateStep, FuncUnitBackStep, DispatchAcceptCreditStep,
     PopIssueQueueStep, SelectInstStep, IssueInstStep, Zenon DEF DispatchStep
<1>5. CASE StationStep
  BY <1>5, RsAcceptCreditStep, AllocateReStationStep, GetForwardingStep, PopInstStep,
     PassingStep, Zenon DEF StationStep
<1>6. CASE FuStep
  BY <1>6, AllocateFuStep, WriteBackStep, AcceptFuncInstStep, ArbitrateStep, Zenon DEF FuStep
<1>7. CASE NextCycle
  BY <1>7, TickStep, Zenon DEF NextCycle
<1>8. CASE UNCHANGED vars
  <2>1. UNCHANGED inst /\ UNCHANGED linkVars /\ now' = now /\ later' = later
    BY <1>8, Zenon DEF vars, schedulerVars, linkVars, renamingVars, dispatchVars, rsVars, fuVars
  <2>2. \A d \in LinkPort : Quiet(d)
    BY <2>1, Zenon DEF Quiet
  <2>3. WiresOK'
    BY <2>1, Zenon DEF CreditInv, WiresOK, Typed
  <2> QED BY <2>1, <2>2, <2>3, QuietStep, Zenon
<1> QED BY <1>1, <1>2, <1>3, <1>4, <1>5, <1>6, <1>7, <1>8, Zenon DEF Next

\* The invariant contains what CreditsConserved says.
LEMMA CreditInvConserves == ASSUME CreditInv PROVE CreditsConserved
BY Zenon DEF CreditInv, FetchInv, FetchLink, RobInv, RobLink, DispatchInv, DispatchLink,
   StationInv, StationLink, FuInv, FuLink, CreditsConserved

\* CreditsConserved, for every number of pipes, every width, every depth and
\* every program without mispredicted branches, which is what the machine
\* without speculation runs: along every link the credits, what is on its way
\* and the occupied places always add up to the depth.
THEOREM CoreCreditsAreConserved ==
  ASSUME WellPredicted PROVE Spec => []CreditsConserved
<1>1. Init => CreditInv
  BY InitCredits
<1>2. CreditInv /\ [Next]_vars => CreditInv'
  BY CreditStep
<1>3. CreditInv => CreditsConserved
  BY CreditInvConserves
<1> QED BY <1>1, <1>2, <1>3, PTL DEF Spec
=============================================================================
