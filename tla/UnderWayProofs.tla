--------------------------- MODULE UnderWayProofs ---------------------------
(***************************************************************************)
(* The reorder buffer waits for exactly what is under way, and each such   *)
(* instruction is in one place and carries the slot of its own entry:      *)
(* RobAwaitsWhatIsUnderWay and RobTagIsOwn, for every number of pipes,     *)
(* every width, every depth and every program without mispredicted         *)
(* branches.                                                               *)
(*                                                                         *)
(* The inductive invariant is FateInv.  An instruction has one of four     *)
(* fates: fetched and not renamed, renamed and not yet taken by the        *)
(* reorder buffer, awaited, or finished.  The second needs that dispatch   *)
(* cannot issue it before the reorder buffer has taken it, which the order *)
(* of the handlers and the equal delay of the two wires ensure (SameSent). *)
(* A handler moves a group from one place to another, from each pipe's     *)
(* place to one, or from one to each pipe's.                               *)
(***************************************************************************)
EXTENDS BackendProofs

-----------------------------------------------------------------------------
(* The places an instruction can be in.                                    *)

AtDispatchWire == <<"dispatch wire", 0>>
AtDispatchQueue == <<"dispatch queue", 0>>
AtPending(p) == <<"pending", p>>
AtStationWire(p) == <<"station wire", p>>
AtStation(p) == <<"station", p>>
AtUnitWire(p) == <<"unit wire", p>>
AtUnit(p) == <<"unit", p>>
AtWriteBackWire == <<"write back wire", 0>>
AtWriteBack(p) == <<"write back", p>>
AtFinishWire == <<"finish wire", 0>>

Place ==
    {AtDispatchWire, AtDispatchQueue, AtWriteBackWire, AtFinishWire}
    \cup {AtPending(p) : p \in Pipe} \cup {AtStationWire(p) : p \in Pipe}
    \cup {AtStation(p) : p \in Pipe} \cup {AtUnitWire(p) : p \in Pipe}
    \cup {AtUnit(p) : p \in Pipe} \cup {AtWriteBack(p) : p \in Pipe}

\* Where an instruction may be that the reorder buffer has not taken yet.
EarlyPlace == {AtDispatchWire, AtDispatchQueue} \cup {AtPending(p) : p \in Pipe}

\* The groups on the wire to the write back stage.
GroupsOf(pairs) == [k \in DOMAIN pairs |-> pairs[k].inst_group]

WriteBackGroups == GroupsOf(OnTheWay(preceding_write_back_inst_in))

\* What is there.
held ==
    [x \in Place |->
        CASE x[1] = "dispatch wire" -> Instructions(preceding_dispatch_inst_in)
          [] x[1] = "dispatch queue" -> OpenInsts(inst_queue)
          [] x[1] = "pending" -> dispatch_pending_queue[x[2]]
          [] x[1] = "station wire" -> Instructions(preceding_reservation_inst_in(x[2]))
          [] x[1] = "station" -> OpenInsts(reservation_station[x[2]])
          [] x[1] = "unit wire" -> Instructions(preceding_func_inst_in(x[2]))
          [] x[1] = "unit" -> alu_queue[x[2]]
          [] x[1] = "write back wire" -> Joined(WriteBackGroups)
          [] x[1] = "write back" -> inst_queue_map[x[2]]
          [] x[1] = "finish wire" -> Instructions(write_back_rob_finish_in)]

\* Instruction i is at x, once, and nowhere else.
IsAt(i, x, h) == Single(i, h[x]) /\ \A y \in Place : y # x => Absent(i, h[y])

Nowhere(i, h) == \A y \in Place : Absent(i, h[y])

-----------------------------------------------------------------------------
(* The fates of an instruction: with un the instructions not renamed, rw   *)
(* those on their way to the reorder buffer, es its entries and h what the *)
(* places hold.                                                            *)

IsFetched(i, un, rw, es, h) ==
    Single(i, un) /\ Absent(i, rw) /\ Absent(i, InstsOf(es)) /\ Nowhere(i, h)

IsRenamed(i, un, rw, es, h) ==
    /\ Absent(i, un) /\ Single(i, rw) /\ Absent(i, InstsOf(es))
    /\ \E x \in EarlyPlace : IsAt(i, x, h)

IsAwaited(i, un, rw, es, h) ==
    /\ Absent(i, un) /\ Absent(i, rw) /\ Single(i, InstsOf(es))
    /\ \A k \in DOMAIN es : es[k].inst = i => ~es[k].finish
    /\ \E x \in Place : IsAt(i, x, h)

IsFinished(i, un, rw, es, h) ==
    /\ Absent(i, un) /\ Absent(i, rw)
    /\ Single(i, InstsOf(es)) \/ Absent(i, InstsOf(es))
    /\ \A k \in DOMAIN es : es[k].inst = i => es[k].finish
    /\ Nowhere(i, h)

HasFate(i, un, rw, es, h) ==
    \/ IsFetched(i, un, rw, es, h) \/ IsRenamed(i, un, rw, es, h)
    \/ IsAwaited(i, un, rw, es, h) \/ IsFinished(i, un, rw, es, h)

RobWire == Instructions(preceding_rob_inst_in)

Entries == RobQueue!Contents(rob)

Fates == \A i \in DOMAIN inst : HasFate(i, Unrenamed, RobWire, Entries, held)

\* The tag an entry's instruction carries is the entry's slot.
OwnTags ==
    \A k \in 1 .. rob.usage : inst[Entries[k].inst].RobTag = RobQueue!SlotOf(rob, k)

\* The renaming stage sends the same to the reorder buffer and to dispatch.
SameSent == later[preceding_rob_inst_in] = later[preceding_dispatch_inst_in]

WriteBackGroup(ids) == [name : Pipe, inst_group : Seq(ids)]

\* The wires from the function units to the reorder buffer.
LatePort == {write_back_rob_finish_in, preceding_write_back_inst_in}

LateMessage(d, ids) == IF d = write_back_rob_finish_in THEN Seq(ids) ELSE WriteBackGroup(ids)

LateWires == \A d \in LatePort : Typed(d, LateMessage(d, DOMAIN inst))

LateQueues == inst_queue_map \in [Pipe -> Seq(DOMAIN inst)]

FateInv == CreditInv /\ LateWires /\ LateQueues /\ SameSent /\ OwnTags /\ Fates

-----------------------------------------------------------------------------
(* From place to place.                                                    *)

\* An instruction that is somewhere stays or moves, and is not lost or copied.
Moves(i, h, g) ==
    /\ Nowhere(i, h) => Nowhere(i, g)
    /\ \A x \in Place : IsAt(i, x, h) => \E y \in Place : IsAt(i, y, g)

StaysEarly(i, h, g) ==
    \A x \in EarlyPlace : IsAt(i, x, h) => \E y \in EarlyPlace : IsAt(i, y, g)

\* Moving changes no fate, as long as what the reorder buffer has not taken yet
\* does not move on too far.
LEMMA FateMoves ==
  ASSUME NEW i, NEW un, NEW rw, NEW es, NEW h, NEW g, HasFate(i, un, rw, es, h),
         Moves(i, h, g), Single(i, rw) => StaysEarly(i, h, g)
  PROVE  HasFate(i, un, rw, es, g)
<1>1. CASE IsFetched(i, un, rw, es, h)
  BY <1>1 DEF IsFetched, Moves, HasFate
<1>2. CASE IsRenamed(i, un, rw, es, h)
  BY <1>2 DEF IsRenamed, StaysEarly, HasFate
<1>3. CASE IsAwaited(i, un, rw, es, h)
  <2>1. \E x \in Place : IsAt(i, x, g)
    BY <1>3 DEF IsAwaited, Moves
  <2> QED BY <1>3, <2>1 DEF IsAwaited, HasFate
<1>4. CASE IsFinished(i, un, rw, es, h)
  <2>1. Nowhere(i, g)
    BY <1>4 DEF IsFinished, Moves
  <2> QED BY <1>4, <2>1 DEF IsFinished, HasFate
<1> QED BY <1>1, <1>2, <1>3, <1>4 DEF HasFate

\* A group moves from x to y.
GroupMoves(h, g, x, y, group) ==
    /\ Parts(h[x], group, g[x]) /\ Parts(g[y], h[y], group)
    /\ \A z \in Place : z # x /\ z # y => g[z] = h[z]

\* Then each instruction moves with it or stays.
LEMMA GroupMovesOne ==
  ASSUME NEW h, NEW g, NEW x \in Place, NEW y \in Place, x # y, NEW group,
         GroupMoves(h, g, x, y, group), NEW i
  PROVE  /\ Moves(i, h, g)
         /\ x \notin EarlyPlace \/ y \in EarlyPlace => StaysEarly(i, h, g)
<1>1. /\ Absent(i, h[x]) => Absent(i, group) /\ Absent(i, g[x])
      /\ Single(i, h[x]) => \/ Single(i, group) /\ Absent(i, g[x])
                            \/ Absent(i, group) /\ Single(i, g[x])
      /\ Absent(i, h[y]) /\ Absent(i, group) => Absent(i, g[y])
      /\ Absent(i, h[y]) /\ Single(i, group) => Single(i, g[y])
      /\ Single(i, h[y]) /\ Absent(i, group) => Single(i, g[y])
  BY DEF GroupMoves, Parts
<1>2. \A z \in Place : z # x /\ z # y => g[z] = h[z]
  BY DEF GroupMoves
<1>3. Nowhere(i, h) => Nowhere(i, g)
  BY <1>1, <1>2, Zenon DEF Nowhere
<1>4. ASSUME IsAt(i, x, h) PROVE IsAt(i, x, g) \/ IsAt(i, y, g)
  <2>1. \A z \in Place : z # x /\ z # y => Absent(i, g[z])
    BY <1>2, <1>4, Zenon DEF IsAt
  <2>2. Single(i, h[x]) /\ Absent(i, h[y])
    BY <1>4, Zenon DEF IsAt
  <2>3. CASE Single(i, group) /\ Absent(i, g[x])
    BY <1>1, <2>1, <2>2, <2>3, Zenon DEF IsAt
  <2>4. CASE Absent(i, group) /\ Single(i, g[x])
    BY <1>1, <2>1, <2>2, <2>4, Zenon DEF IsAt
  <2> QED BY <1>1, <2>2, <2>3, <2>4
<1>5. ASSUME NEW z \in Place, z # x, IsAt(i, z, h) PROVE IsAt(i, z, g)
  <2>1. Absent(i, h[x])
    BY <1>5, Zenon DEF IsAt
  <2>2. Absent(i, group) /\ Absent(i, g[x])
    BY <1>1, <2>1
  <2>3. CASE z = y
    <3>1. Single(i, g[y])
      BY <1>1, <1>5, <2>2, <2>3, Zenon DEF IsAt
    <3>2. \A v \in Place : v # y => Absent(i, g[v])
      BY <1>2, <1>5, <2>2, <2>3, Zenon DEF IsAt
    <3> QED BY <2>3, <3>1, <3>2, Zenon DEF IsAt
  <2>4. CASE z # y
    <3>1. Single(i, g[z]) /\ Absent(i, g[y])
      <4>1. Absent(i, h[y])
        BY <1>5, <2>4, Zenon DEF IsAt
      <4>2. g[z] = h[z]
        BY <1>2, <1>5, <2>4, Zenon
      <4> QED BY <1>1, <1>5, <2>2, <4>1, <4>2, Zenon DEF IsAt
    <3>2. \A v \in Place : v # z => Absent(i, g[v])
      BY <1>2, <1>5, <2>2, <3>1, Zenon DEF IsAt
    <3> QED BY <3>1, <3>2, Zenon DEF IsAt
  <2> QED BY <2>3, <2>4
<1>6. Moves(i, h, g)
  BY <1>3, <1>4, <1>5, Zenon DEF Moves
<1>7. \A z \in EarlyPlace : z \in Place
  BY DEF EarlyPlace, Place
<1>8. ASSUME x \notin EarlyPlace \/ y \in EarlyPlace PROVE StaysEarly(i, h, g)
  BY <1>4, <1>5, <1>7, <1>8, Zenon DEF StaysEarly
<1> QED BY <1>6, <1>8

\* Nothing moves.
LEMMA AlikeMoves ==
  ASSUME NEW h, NEW g, \A z \in Place : Alike(h[z], g[z]), NEW i
  PROVE  Moves(i, h, g) /\ StaysEarly(i, h, g)
<1>1. \A z \in Place : /\ Absent(i, h[z]) => Absent(i, g[z])
                       /\ Single(i, h[z]) => Single(i, g[z])
  BY DEF Alike
<1>2. \A z \in EarlyPlace : z \in Place
  BY DEF EarlyPlace, Place
<1>3. \A z \in Place : IsAt(i, z, h) => IsAt(i, z, g)
  BY <1>1, Zenon DEF IsAt
<1> QED BY <1>1, <1>2, <1>3, Zenon DEF Moves, StaysEarly, Nowhere

-----------------------------------------------------------------------------
(* What the places hold.                                                   *)

\* Place by place.
LEMMA HeldIs ==
  /\ held[AtDispatchWire] = Instructions(preceding_dispatch_inst_in)
  /\ held[AtDispatchQueue] = OpenInsts(inst_queue)
  /\ held[AtWriteBackWire] = Joined(WriteBackGroups)
  /\ held[AtFinishWire] = Instructions(write_back_rob_finish_in)
  /\ \A p \in Pipe :
       /\ held[AtPending(p)] = dispatch_pending_queue[p]
       /\ held[AtStationWire(p)] = Instructions(preceding_reservation_inst_in(p))
       /\ held[AtStation(p)] = OpenInsts(reservation_station[p])
       /\ held[AtUnitWire(p)] = Instructions(preceding_func_inst_in(p))
       /\ held[AtUnit(p)] = alu_queue[p]
       /\ held[AtWriteBack(p)] = inst_queue_map[p]
BY DEF held, Place, AtDispatchWire, AtDispatchQueue, AtWriteBackWire, AtFinishWire, AtPending,
   AtStationWire, AtStation, AtUnitWire, AtUnit, AtWriteBack

\* After a step.
LEMMA HeldIsPrime ==
  /\ held'[AtDispatchWire] = Instructions(preceding_dispatch_inst_in)'
  /\ held'[AtDispatchQueue] = OpenInsts(inst_queue')
  /\ held'[AtWriteBackWire] = Joined(WriteBackGroups')
  /\ held'[AtFinishWire] = Instructions(write_back_rob_finish_in)'
  /\ \A p \in Pipe :
       /\ held'[AtPending(p)] = dispatch_pending_queue'[p]
       /\ held'[AtStationWire(p)] = Instructions(preceding_reservation_inst_in(p))'
       /\ held'[AtStation(p)] = OpenInsts(reservation_station'[p])
       /\ held'[AtUnitWire(p)] = Instructions(preceding_func_inst_in(p))'
       /\ held'[AtUnit(p)] = alu_queue'[p]
       /\ held'[AtWriteBack(p)] = inst_queue_map'[p]
BY DEF held, Place, AtDispatchWire, AtDispatchQueue, AtWriteBackWire, AtFinishWire, AtPending,
   AtStationWire, AtStation, AtUnitWire, AtUnit, AtWriteBack, OpenInsts, InstsOf, Open

\* The places are different.
LEMMA PlacesDiffer ==
  /\ AtDispatchWire \in Place /\ AtDispatchQueue \in Place /\ AtWriteBackWire \in Place
  /\ AtFinishWire \in Place
  /\ AtDispatchWire # AtDispatchQueue /\ AtWriteBackWire # AtFinishWire
  /\ \A p \in Pipe :
       /\ AtPending(p) \in Place /\ AtStationWire(p) \in Place /\ AtStation(p) \in Place
       /\ AtUnitWire(p) \in Place /\ AtUnit(p) \in Place /\ AtWriteBack(p) \in Place
       /\ AtDispatchQueue # AtPending(p) /\ AtPending(p) # AtStationWire(p)
       /\ AtStationWire(p) # AtStation(p) /\ AtStation(p) # AtUnitWire(p)
       /\ AtUnitWire(p) # AtUnit(p) /\ AtUnit(p) # AtWriteBackWire
       /\ AtWriteBackWire # AtWriteBack(p) /\ AtWriteBack(p) # AtFinishWire
  /\ \A p \in Pipe :
       /\ AtStationWire(p) \notin EarlyPlace /\ AtStation(p) \notin EarlyPlace
       /\ AtUnitWire(p) \notin EarlyPlace /\ AtUnit(p) \notin EarlyPlace
       /\ AtWriteBack(p) \notin EarlyPlace /\ AtPending(p) \in EarlyPlace
  /\ AtWriteBackWire \notin EarlyPlace /\ AtFinishWire \notin EarlyPlace
  /\ AtDispatchWire \in EarlyPlace /\ AtDispatchQueue \in EarlyPlace
BY DEF Place, EarlyPlace, AtDispatchWire, AtDispatchQueue, AtWriteBackWire, AtFinishWire,
   AtPending, AtStationWire, AtStation, AtUnitWire, AtUnit, AtWriteBack

\* Nothing changes but in the places X.
Kept(X) ==
    /\ AtDispatchWire \in X \/ OnTheWay(preceding_dispatch_inst_in)' = OnTheWay(preceding_dispatch_inst_in)
    /\ AtDispatchQueue \in X \/ inst_queue' = inst_queue
    /\ AtWriteBackWire \in X
         \/ OnTheWay(preceding_write_back_inst_in)' = OnTheWay(preceding_write_back_inst_in)
    /\ AtFinishWire \in X
         \/ OnTheWay(write_back_rob_finish_in)' = OnTheWay(write_back_rob_finish_in)
    /\ \A p \in Pipe :
         /\ AtPending(p) \in X \/ dispatch_pending_queue'[p] = dispatch_pending_queue[p]
         /\ \/ AtStationWire(p) \in X
            \/ OnTheWay(preceding_reservation_inst_in(p))' = OnTheWay(preceding_reservation_inst_in(p))
         /\ AtStation(p) \in X \/ reservation_station'[p] = reservation_station[p]
         /\ \/ AtUnitWire(p) \in X
            \/ OnTheWay(preceding_func_inst_in(p))' = OnTheWay(preceding_func_inst_in(p))
         /\ AtUnit(p) \in X \/ alu_queue'[p] = alu_queue[p]
         /\ AtWriteBack(p) \in X \/ inst_queue_map'[p] = inst_queue_map[p]

\* Then the others hold what they held.
LEMMA KeptHeld ==
  ASSUME NEW X, Kept(X)
  PROVE  \A z \in Place : z \notin X => held'[z] = held[z]
<1>1. /\ AtDispatchWire \notin X => held'[AtDispatchWire] = held[AtDispatchWire]
      /\ AtDispatchQueue \notin X => held'[AtDispatchQueue] = held[AtDispatchQueue]
      /\ AtFinishWire \notin X => held'[AtFinishWire] = held[AtFinishWire]
  BY HeldIs, HeldIsPrime, Zenon DEF Kept, Instructions
<1>2. AtWriteBackWire \notin X => held'[AtWriteBackWire] = held[AtWriteBackWire]
  <2>1. ASSUME OnTheWay(preceding_write_back_inst_in)' = OnTheWay(preceding_write_back_inst_in)
        PROVE  WriteBackGroups' = WriteBackGroups
    BY <2>1, Zenon DEF WriteBackGroups
  <2> QED BY <2>1, HeldIs, HeldIsPrime, Zenon DEF Kept
<1>3. ASSUME NEW p \in Pipe
      PROVE  /\ AtPending(p) \notin X => held'[AtPending(p)] = held[AtPending(p)]
             /\ AtStationWire(p) \notin X => held'[AtStationWire(p)] = held[AtStationWire(p)]
             /\ AtStation(p) \notin X => held'[AtStation(p)] = held[AtStation(p)]
             /\ AtUnitWire(p) \notin X => held'[AtUnitWire(p)] = held[AtUnitWire(p)]
             /\ AtUnit(p) \notin X => held'[AtUnit(p)] = held[AtUnit(p)]
             /\ AtWriteBack(p) \notin X => held'[AtWriteBack(p)] = held[AtWriteBack(p)]
  <2>1. /\ AtPending(p) \notin X => held'[AtPending(p)] = held[AtPending(p)]
        /\ AtUnit(p) \notin X => held'[AtUnit(p)] = held[AtUnit(p)]
        /\ AtWriteBack(p) \notin X => held'[AtWriteBack(p)] = held[AtWriteBack(p)]
    BY HeldIs, HeldIsPrime, Zenon DEF Kept
  <2>2. AtStationWire(p) \notin X => held'[AtStationWire(p)] = held[AtStationWire(p)]
    BY HeldIs, HeldIsPrime, Zenon DEF Kept, Instructions
  <2>3. AtStation(p) \notin X => held'[AtStation(p)] = held[AtStation(p)]
    BY HeldIs, HeldIsPrime, Zenon DEF Kept
  <2>4. AtUnitWire(p) \notin X => held'[AtUnitWire(p)] = held[AtUnitWire(p)]
    BY HeldIs, HeldIsPrime, Zenon DEF Kept, Instructions
  <2> QED BY <2>1, <2>2, <2>3, <2>4
<1> QED BY <1>1, <1>2, <1>3, Zenon DEF Place

-----------------------------------------------------------------------------
(* The wires.                                                              *)

\* The late wires are ports of their own, and one of them has delay.
LEMMA LatePortsAre ==
  /\ LatePort \subseteq Port
  /\ write_back_rob_finish_in \in LatePort /\ preceding_write_back_inst_in \in LatePort
  /\ write_back_rob_finish_in # preceding_write_back_inst_in
  /\ \A d \in LatePort : d \notin LinkPort
BY OtherPorts DEF LatePort, Port, OneDelayPort, ZeroDelayPort, write_back_rob_finish_in,
   preceding_write_back_inst_in

\* Their messages stay typed when the program grows.
LEMMA LateGrow ==
  ASSUME NEW d, NEW I, NEW J, I \subseteq J PROVE Seq(LateMessage(d, I)) \subseteq Seq(LateMessage(d, J))
<1>1. Seq(I) \subseteq Seq(J)
  BY SeqGrows
<1>2. WriteBackGroup(I) \subseteq WriteBackGroup(J)
  BY <1>1 DEF WriteBackGroup
<1>3. LateMessage(d, I) \subseteq LateMessage(d, J)
  BY <1>1, <1>2 DEF LateMessage
<1> QED BY <1>3, SeqGrows

\* What a handler does to the late wires.
LEMMA LateStep ==
  ASSUME NEW c, NEW soon, NEW next, NEW out, LateWires, Ready(c), Fire(c, soon, next, out),
         Events(soon, next), More,
         \A mail \in out : mail[1] \in LatePort =>
            mail[2] \in Seq(LateMessage(mail[1], DOMAIN inst'))
  PROVE  /\ LateWires'
         /\ \A d \in LatePort :
              /\ OnTheWay(d) \in Seq(LateMessage(d, DOMAIN inst'))
              /\ OnTheWay(d)' = (IF d = c THEN Tail(OnTheWay(d)) ELSE OnTheWay(d)) \o Sent(out, d)
              /\ d = c => OnTheWay(d) # << >> /\ Message(c) = Head(OnTheWay(d))
              /\ d # c /\ (\A mail \in out : mail[1] # d) => OnTheWay(d)' = OnTheWay(d)
<1> SUFFICES
      ASSUME NEW d \in LatePort
      PROVE  /\ Typed(d, LateMessage(d, DOMAIN inst))'
             /\ OnTheWay(d) \in Seq(LateMessage(d, DOMAIN inst'))
             /\ OnTheWay(d)' = (IF d = c THEN Tail(OnTheWay(d)) ELSE OnTheWay(d)) \o Sent(out, d)
             /\ d = c => OnTheWay(d) # << >> /\ Message(c) = Head(OnTheWay(d))
             /\ d # c /\ (\A mail \in out : mail[1] # d) => OnTheWay(d)' = OnTheWay(d)
  BY Zenon DEF LateWires
<1>1. PICK M : M = LateMessage(d, DOMAIN inst')
  OBVIOUS
<1>2. Typed(d, M)
  <2>1. Seq(LateMessage(d, DOMAIN inst)) \subseteq Seq(M)
    BY <1>1, LateGrow DEF More
  <2>2. Typed(d, LateMessage(d, DOMAIN inst))
    BY Zenon DEF LateWires
  <2> QED BY <2>1, <2>2, Zenon DEF Typed
<1>3. d \in Port
  BY LatePortsAre
<1>4. Sent(out, d) \in Seq(M)
  <2>1. CASE \E mail \in out : mail[1] = d
    <3>1. PICK mail \in out : mail[1] = d /\ mail = CHOOSE x \in out : x[1] = d
      BY <2>1, Zenon
    <3>2. Sent(out, d) = mail[2]
      BY <2>1, <3>1, Zenon DEF Sent
    <3> QED BY <1>1, <3>1, <3>2, Zenon
  <2>2. CASE ~ \E mail \in out : mail[1] = d
    <3>1. Sent(out, d) = << >>
      BY <2>2, Zenon DEF Sent
    <3>2. << >> \in Seq(M)
      OBVIOUS
    <3> QED BY <3>1, <3>2
  <2> QED BY <2>1, <2>2
<1>5. d = c => Pending(c)
  BY Zenon DEF Ready
<1>6. /\ Typed(d, M)'
      /\ OnTheWay(d) \in Seq(M)
      /\ OnTheWay(d)' = (IF d = c THEN Tail(OnTheWay(d)) ELSE OnTheWay(d)) \o Sent(out, d)
      /\ d = c => OnTheWay(d) # << >> /\ Message(c) = Head(OnTheWay(d))
  BY <1>2, <1>3, <1>4, <1>5, Delivery
<1>7. d # c /\ (\A mail \in out : mail[1] # d) => OnTheWay(d)' = OnTheWay(d)
  <2>1. ASSUME d # c, \A mail \in out : mail[1] # d PROVE Quiet(d)
    BY <1>2, <1>3, <2>1, QuietPort, Zenon
  <2> QED BY <2>1, QuietPortSame, Zenon
<1>8. Typed(d, LateMessage(d, DOMAIN inst))'
  BY <1>1, <1>6, Zenon DEF Typed, LateMessage, WriteBackGroup, Pipe
<1> QED BY <1>1, <1>6, <1>7, <1>8, Zenon

\* A handler that has nothing to do with them.
LEMMA LateQuiet ==
  ASSUME NEW c, NEW soon, NEW next, NEW out, LateWires, Ready(c), Fire(c, soon, next, out),
         Events(soon, next), More, c \notin LatePort, \A mail \in out : mail[1] \notin LatePort
  PROVE  /\ LateWires'
         /\ OnTheWay(write_back_rob_finish_in)' = OnTheWay(write_back_rob_finish_in)
         /\ OnTheWay(preceding_write_back_inst_in)' = OnTheWay(preceding_write_back_inst_in)
<1>1. \A mail \in out : mail[1] \in LatePort => mail[2] \in Seq(LateMessage(mail[1], DOMAIN inst'))
  BY Zenon
<1>2. \A d \in LatePort : d # c /\ \A mail \in out : mail[1] # d
  BY Zenon
<1>3. LateWires' /\ \A d \in LatePort : OnTheWay(d)' = OnTheWay(d)
  BY <1>1, <1>2, LateStep, ZenonT(60)
<1> QED BY <1>3, LatePortsAre, Zenon

\* What is sent over a port with delay is there in the next cycle.
LEMMA LaterIs ==
  ASSUME NEW c, NEW soon, NEW next, NEW out, Fire(c, soon, next, out), NEW d \in OneDelayPort
  PROVE  later'[d] = later[d] \o Sent(out, d)
BY DEF Fire, Source

\* The wires from the renaming stage stay alike when the same is sent over both.
LEMMA SameSentStep ==
  ASSUME SameSent, NEW c, NEW soon, NEW next, NEW out, Fire(c, soon, next, out),
         Sent(out, preceding_rob_inst_in) = Sent(out, preceding_dispatch_inst_in)
  PROVE  SameSent'
<1>1. preceding_rob_inst_in \in OneDelayPort /\ preceding_dispatch_inst_in \in OneDelayPort
  BY DEF OneDelayPort
<1>2. /\ later'[preceding_rob_inst_in] = later[preceding_rob_inst_in] \o Sent(out, preceding_rob_inst_in)
      /\ later'[preceding_dispatch_inst_in] =
            later[preceding_dispatch_inst_in] \o Sent(out, preceding_dispatch_inst_in)
  BY <1>1, LaterIs, Zenon
<1> QED BY <1>2, Zenon DEF SameSent

\* In particular when nothing is.
LEMMA SameSentQuiet ==
  ASSUME SameSent, NEW c, NEW soon, NEW next, NEW out, Fire(c, soon, next, out),
         \A mail \in out : mail[1] # preceding_rob_inst_in /\ mail[1] # preceding_dispatch_inst_in
  PROVE  SameSent'
<1>1. /\ Sent(out, preceding_rob_inst_in) = << >>
      /\ Sent(out, preceding_dispatch_inst_in) = << >>
  BY Zenon DEF Sent
<1> QED BY <1>1, SameSentStep, Zenon

-----------------------------------------------------------------------------
(* Steps that only move instructions from place to place.                  *)

SameTags == \A i \in DOMAIN inst : inst'[i].RobTag = inst[i].RobTag

\* The tags stay the entries' own when neither changes.
LEMMA TagsFrame ==
  ASSUME CreditInv, OwnTags, rob' = rob, SameTags PROVE OwnTags'
<1>1. Entries' = Entries
  BY Zenon DEF Entries
<1>2. \A k \in 1 .. rob.usage : Entries[k].inst \in DOMAIN inst
  BY Zenon DEF CreditInv, RobInv, RobHolds, Entries
<1>3. \A k \in 1 .. rob'.usage : k \in 1 .. rob.usage
  OBVIOUS
<1> QED BY <1>1, <1>2, <1>3, Zenon DEF OwnTags, SameTags

\* What the reorder buffer and the stages before it have does not change.
RestKept ==
    /\ CreditInv' /\ LateWires' /\ LateQueues' /\ SameSent'
    /\ rob' = rob /\ DOMAIN inst' = DOMAIN inst /\ SameTags
    /\ Unrenamed' = Unrenamed /\ RobWire' = RobWire

\* Then the fates only depend on the moves.
LEMMA MovesFate ==
  ASSUME FateInv, RestKept,
         \A i \in DOMAIN inst : /\ Moves(i, held, held')
                                /\ Single(i, RobWire) => StaysEarly(i, held, held')
  PROVE  FateInv'
<1>1. OwnTags'
  BY TagsFrame, Zenon DEF FateInv, RestKept
<1>2. Entries' = Entries
  BY Zenon DEF Entries, RestKept
<1>3. PICK h, g : h = held /\ g = held'
  OBVIOUS
<1>4. PICK un, rw, es : un = Unrenamed /\ rw = RobWire /\ es = Entries
  OBVIOUS
<1>5. un = Unrenamed' /\ rw = RobWire' /\ es = Entries'
  BY <1>2, <1>4, Zenon DEF RestKept
<1>6. ASSUME NEW i \in DOMAIN inst PROVE HasFate(i, un, rw, es, g)
  <2>1. HasFate(i, un, rw, es, h)
    BY <1>3, <1>4, Zenon DEF FateInv, Fates
  <2>2. Moves(i, h, g) /\ (Single(i, rw) => StaysEarly(i, h, g))
    BY <1>3, <1>4, Zenon
  <2> QED BY <2>1, <2>2, FateMoves, Zenon
<1>7. Fates'
  BY <1>3, <1>5, <1>6, Zenon DEF Fates, RestKept
<1> QED BY <1>1, <1>7, Zenon DEF FateInv, RestKept

\* Nothing moves.
LEMMA NoneMoves ==
  ASSUME FateInv, RestKept, NEW X, Kept(X), \A z \in X : Alike(held[z], held'[z])
  PROVE  FateInv'
<1>1. PICK h, g : h = held /\ g = held'
  OBVIOUS
<1>2. ASSUME NEW z \in Place PROVE Alike(h[z], g[z])
  <2>1. CASE z \in X
    BY <1>1, <2>1, Zenon
  <2>2. CASE z \notin X
    <3>1. g[z] = h[z]
      BY <1>1, <2>2, KeptHeld, Zenon
    <3> QED BY <3>1 DEF Alike
  <2> QED BY <2>1, <2>2
<1>3. \A i : Moves(i, h, g) /\ StaysEarly(i, h, g)
  BY <1>2, AlikeMoves, Zenon
<1> QED BY <1>1, <1>3, MovesFate, Zenon

\* A group moves.
LEMMA GroupFate ==
  ASSUME FateInv, RestKept, NEW x \in Place, NEW y \in Place, x # y, NEW group, Kept({x, y}),
         Parts(held[x], group, held'[x]), Parts(held'[y], held[y], group),
         x \notin EarlyPlace \/ y \in EarlyPlace
  PROVE  FateInv'
<1>1. PICK h, g : h = held /\ g = held'
  OBVIOUS
<1>2. \A z \in Place : z # x /\ z # y => g[z] = h[z]
  <2>1. \A z \in Place : z # x /\ z # y => z \notin {x, y}
    OBVIOUS
  <2> QED BY <1>1, <2>1, KeptHeld, Zenon
<1>3. GroupMoves(h, g, x, y, group)
  BY <1>1, <1>2, Zenon DEF GroupMoves
<1>4. \A i : Moves(i, h, g) /\ StaysEarly(i, h, g)
  BY <1>3, GroupMovesOne, Zenon
<1> QED BY <1>1, <1>4, MovesFate, Zenon

-----------------------------------------------------------------------------
(* The handlers behind the reorder buffer.                                 *)

\* The wires that carry instructions.
WorkPort == GroupPort \cup LatePort

\* Wires that a handler has nothing to do with.
LEMMA WorkQuiet ==
  ASSUME CreditInv, LateWires, NEW c, NEW soon, NEW next, NEW out, Fire(c, soon, next, out),
         Events(soon, next), NEW d \in WorkPort, d # c, \A mail \in out : mail[1] # d
  PROVE  Quiet(d) /\ OnTheWay(d)' = OnTheWay(d)
<1>1. \E M : Typed(d, M)
  BY LinkPortHas, Zenon DEF CreditInv, WiresOK, LateWires, WorkPort
<1>2. d \in Port
  BY LinkPortHas, LinkPortsAre, LatePortsAre, Zenon DEF WorkPort
<1>3. Quiet(d)
  BY <1>1, <1>2, QuietPort, Zenon
<1> QED BY <1>3, QuietPortSame, Zenon

\* The reorder buffer's wire and those before it.
FirstPort == {preceding_renaming_inst_in, preceding_rob_inst_in}

\* Such a handler leaves the rest alone.
LEMMA RestIs ==
  ASSUME FateInv, CreditInv', LateQueues', NEW c, NEW soon, NEW next, NEW out, Ready(c),
         Fire(c, soon, next, out), Events(soon, next),
         DOMAIN inst' = DOMAIN inst, SameTags, rob' = rob,
         renaming_stage_queue' = renaming_stage_queue, c \notin FirstPort,
         \A mail \in out : mail[1] \notin FirstPort \cup {preceding_dispatch_inst_in},
         \A mail \in out : mail[1] \in LatePort =>
            mail[2] \in Seq(LateMessage(mail[1], DOMAIN inst'))
  PROVE  /\ RestKept
         /\ \A d \in WorkPort :
              d # c /\ (\A mail \in out : mail[1] # d) => OnTheWay(d)' = OnTheWay(d)
<1>1. CreditInv /\ LateWires /\ SameSent
  BY Zenon DEF FateInv
<1>2. More
  BY DEF More
<1>3. LateWires'
  BY <1>1, <1>2, LateStep, Zenon
<1>4. SameSent'
  <2>1. \A mail \in out : mail[1] # preceding_rob_inst_in /\ mail[1] # preceding_dispatch_inst_in
    BY DEF FirstPort
  <2> QED BY <1>1, <2>1, SameSentQuiet, Zenon
<1>5. \A d \in WorkPort : d # c /\ (\A mail \in out : mail[1] # d) => OnTheWay(d)' = OnTheWay(d)
  <2>1. ASSUME NEW d \in WorkPort, d # c, \A mail \in out : mail[1] # d
        PROVE  OnTheWay(d)' = OnTheWay(d)
    BY <1>1, <2>1, WorkQuiet
  <2> QED BY <2>1, Zenon
<1>6. \A d \in FirstPort : d \in WorkPort /\ d # c /\ \A mail \in out : mail[1] # d
  BY LinkPortHas DEF FirstPort, WorkPort
<1>7. /\ OnTheWay(preceding_renaming_inst_in)' = OnTheWay(preceding_renaming_inst_in)
      /\ OnTheWay(preceding_rob_inst_in)' = OnTheWay(preceding_rob_inst_in)
  BY <1>5, <1>6 DEF FirstPort
<1>8. Unrenamed' = Unrenamed /\ RobWire' = RobWire
  BY <1>7, Zenon DEF Unrenamed, RobWire, Instructions
<1> QED BY <1>3, <1>4, <1>5, <1>8, Zenon DEF RestKept

\* Such a handler, its conditions under one name.
LeavesRest(c, soon, next, out) ==
  /\ LateQueues' /\ Ready(c) /\ Fire(c, soon, next, out) /\ Events(soon, next)
  /\ DOMAIN inst' = DOMAIN inst /\ SameTags
  /\ rob' = rob /\ renaming_stage_queue' = renaming_stage_queue
  /\ c \notin FirstPort
  /\ \A mail \in out : mail[1] \notin FirstPort \cup {preceding_dispatch_inst_in}
  /\ \A mail \in out : mail[1] \in LatePort =>
        mail[2] \in Seq(LateMessage(mail[1], DOMAIN inst'))

\* It leaves the rest alone.
LEMMA RestOf ==
  ASSUME FateInv, CreditInv', NEW c, NEW soon, NEW next, NEW out, LeavesRest(c, soon, next, out)
  PROVE  /\ RestKept
         /\ \A d \in WorkPort :
              d # c /\ (\A mail \in out : mail[1] # d) => OnTheWay(d)' = OnTheWay(d)
<1>1. /\ Ready(c) /\ Fire(c, soon, next, out) /\ Events(soon, next) /\ LateQueues'
      /\ DOMAIN inst' = DOMAIN inst /\ SameTags /\ rob' = rob
      /\ renaming_stage_queue' = renaming_stage_queue
  BY Zenon DEF LeavesRest
<1>2. /\ c \notin FirstPort
      /\ \A mail \in out : mail[1] \notin FirstPort \cup {preceding_dispatch_inst_in}
      /\ \A mail \in out : mail[1] \in LatePort =>
            mail[2] \in Seq(LateMessage(mail[1], DOMAIN inst'))
  BY Zenon DEF LeavesRest
<1> QED BY <1>1, <1>2, RestIs

\* A handler that has nothing to do with any of these wires.
LEMMA RestAlone ==
  ASSUME FateInv, CreditInv', LateQueues', NEW c, NEW soon, NEW next, NEW out, Ready(c),
         Fire(c, soon, next, out), Events(soon, next),
         DOMAIN inst' = DOMAIN inst, SameTags, rob' = rob,
         renaming_stage_queue' = renaming_stage_queue, c \notin WorkPort,
         \A mail \in out : mail[1] \notin WorkPort
  PROVE  RestKept /\ \A d \in WorkPort : OnTheWay(d)' = OnTheWay(d)
<1>1. /\ \A d \in FirstPort \cup {preceding_dispatch_inst_in} : d \in WorkPort
      /\ \A d \in LatePort : d \in WorkPort
  BY LinkPortHas DEF FirstPort, WorkPort
<1>2. /\ c \notin FirstPort
      /\ \A mail \in out : mail[1] \notin FirstPort \cup {preceding_dispatch_inst_in}
      /\ \A mail \in out : mail[1] \in LatePort =>
            mail[2] \in Seq(LateMessage(mail[1], DOMAIN inst'))
  BY <1>1, Zenon
<1>3. \A d \in WorkPort : d # c /\ \A mail \in out : mail[1] # d
  BY Zenon
<1> QED BY <1>2, <1>3, RestIs, Zenon

\* No place changes when no queue does.
LEMMA AllKept ==
  ASSUME \A d \in WorkPort : OnTheWay(d)' = OnTheWay(d),
         UNCHANGED <<inst_queue, dispatch_pending_queue, reservation_station, alu_queue, inst_queue_map>>
  PROVE  Kept({})
<1>1. /\ preceding_dispatch_inst_in \in WorkPort /\ preceding_write_back_inst_in \in WorkPort
      /\ write_back_rob_finish_in \in WorkPort
      /\ \A p \in Pipe : /\ preceding_reservation_inst_in(p) \in WorkPort
                         /\ preceding_func_inst_in(p) \in WorkPort
  BY LinkPortHas, LatePortsAre, Zenon DEF WorkPort
<1> QED BY <1>1, Zenon DEF Kept

\* A handler that moves no instruction and changes none's tag.
LEMMA NoEffect ==
  ASSUME FateInv, CreditInv', NEW c, NEW soon, NEW next, NEW out, Ready(c),
         Fire(c, soon, next, out), Events(soon, next), inst' = inst, rob' = rob,
         renaming_stage_queue' = renaming_stage_queue, c \notin WorkPort,
         \A mail \in out : mail[1] \notin WorkPort,
         UNCHANGED <<inst_queue, dispatch_pending_queue, reservation_station, alu_queue, inst_queue_map>>
  PROVE  FateInv'
<1>1. LateQueues'
  BY Zenon DEF LateQueues, FateInv
<1>2. DOMAIN inst' = DOMAIN inst /\ SameTags
  BY Zenon DEF SameTags
<1>3. RestKept /\ \A d \in WorkPort : OnTheWay(d)' = OnTheWay(d)
  BY <1>1, <1>2, RestAlone, Zenon
<1>4. Kept({})
  BY <1>3, AllKept, Zenon
<1>5. \A z \in {} : Alike(held[z], held'[z])
  OBVIOUS
<1> QED BY <1>3, <1>4, <1>5, NoneMoves, Zenon

\* The ports and the events that no instruction comes by.
LEMMA NotWork ==
  /\ \A c \in UniqueEvent : c \notin WorkPort
  /\ \A c \in CreditPort : c \notin WorkPort
  /\ rs_dispatch_credit_in \notin WorkPort /\ Rob_cmt_inst_in \notin WorkPort
  /\ write_back_dispatch_port_in \notin WorkPort
  /\ \A p \in Pipe : forwarding_reservation_inst_in(p) \notin WorkPort
  /\ \A mail \in Nothing : FALSE
<1>1. \A d \in LatePort : d \in Port
  BY LatePortsAre
<1>2. \A d \in WorkPort : d \in Port
  BY <1>1, LinkPortHas, LinkPortsAre, Zenon DEF WorkPort
<1>3. \A d \in Port : d \notin UniqueEvent
  BY PortsApart, Zenon DEF Port, Source, UniqueEvent, ZeroDelayPort
<1>4. \A c \in CreditPort : c \notin WorkPort
  BY LinkPortHas, LinkPortsAre, LatePortsAre, Zenon DEF WorkPort
<1>5. rs_dispatch_credit_in \notin WorkPort
  BY LinkPortHas, LinkPortsAre, LatePortsAre, Zenon DEF WorkPort
<1>6. \A c : c \notin LinkPort /\ c \notin LatePort => c \notin WorkPort
  BY LinkPortHas, Zenon DEF WorkPort
<1>7. /\ Rob_cmt_inst_in \notin LatePort /\ write_back_dispatch_port_in \notin LatePort
      /\ \A p \in Pipe : forwarding_reservation_inst_in(p) \notin LatePort
  BY DEF LatePort, Rob_cmt_inst_in, write_back_dispatch_port_in, forwarding_reservation_inst_in,
     write_back_rob_finish_in, preceding_write_back_inst_in
<1>8. \A mail \in Nothing : FALSE
  BY DEF Nothing
<1> QED BY <1>2, <1>3, <1>4, <1>5, <1>6, <1>7, <1>8, OtherPorts, Zenon

\* The fetch stage takes credits.
LEMMA AcceptCreditFate ==
  ASSUME FateInv, AcceptCredit, UNCHANGED <<renamingVars, rob, dispatchVars, rsVars, fuVars>>
  PROVE  FateInv'
<1>1. /\ Ready(backend_fetch_credit_in) /\ inst' = inst
      /\ Fire(backend_fetch_credit_in, {produce_inst_event_}, {}, Nothing)
  BY Zenon DEF AcceptCredit
<1>2. Events({produce_inst_event_}, {})
  BY DEF Events, UniqueEvent
<1>3. CreditInv'
  BY AcceptCreditStep, Zenon DEF FateInv
<1>4. backend_fetch_credit_in \notin WorkPort /\ \A mail \in Nothing : mail[1] \notin WorkPort
  BY NotWork, LinkPortHas, Zenon
<1>5. UNCHANGED <<rob, renaming_stage_queue, inst_queue, dispatch_pending_queue,
                  reservation_station, alu_queue, inst_queue_map>>
  BY Zenon DEF renamingVars, dispatchVars, rsVars, fuVars
<1> QED BY <1>1, <1>2, <1>3, <1>4, <1>5, NoEffect, Zenon

\* The renaming stage takes credits.
LEMMA AcceptRobCreditFate ==
  ASSUME FateInv, AcceptRobCredit_,
         UNCHANGED <<fetch_credit, rob, dispatchVars, rsVars, fuVars>>
  PROVE  FateInv'
<1>1. /\ Ready(rob_renaming_credit_in) /\ inst' = inst
      /\ Fire(rob_renaming_credit_in, {rename_event}, {}, Nothing)
      /\ renaming_stage_queue' = renaming_stage_queue
  BY Zenon DEF AcceptRobCredit_
<1>2. Events({rename_event}, {})
  BY DEF Events, UniqueEvent
<1>3. CreditInv'
  BY AcceptRobCreditStep, Zenon DEF FateInv
<1>4. rob_renaming_credit_in \notin WorkPort /\ \A mail \in Nothing : mail[1] \notin WorkPort
  BY NotWork, LinkPortHas, Zenon
<1>5. UNCHANGED <<rob, inst_queue, dispatch_pending_queue, reservation_station, alu_queue,
                  inst_queue_map>>
  BY Zenon DEF dispatchVars, rsVars, fuVars
<1> QED BY <1>1, <1>2, <1>3, <1>4, <1>5, NoEffect, Zenon

\* The dispatch stage's as well.
LEMMA AcceptDispatchCreditFate ==
  ASSUME FateInv, AcceptDispatchCredit_,
         UNCHANGED <<fetch_credit, rob, dispatchVars, rsVars, fuVars>>
  PROVE  FateInv'
<1>1. /\ Ready(following_renaming_credit_in) /\ inst' = inst
      /\ Fire(following_renaming_credit_in, {rename_event}, {}, Nothing)
      /\ renaming_stage_queue' = renaming_stage_queue
  BY Zenon DEF AcceptDispatchCredit_
<1>2. Events({rename_event}, {})
  BY DEF Events, UniqueEvent
<1>3. CreditInv'
  BY AcceptDispatchCreditStep, Zenon DEF FateInv
<1>4. following_renaming_credit_in \notin WorkPort /\ \A mail \in Nothing : mail[1] \notin WorkPort
  BY NotWork, LinkPortHas, Zenon
<1>5. UNCHANGED <<rob, inst_queue, dispatch_pending_queue, reservation_station, alu_queue,
                  inst_queue_map>>
  BY Zenon DEF dispatchVars, rsVars, fuVars
<1> QED BY <1>1, <1>2, <1>3, <1>4, <1>5, NoEffect, Zenon

\* The renaming stage hears of committed instructions.
LEMMA RobCommitFate ==
  ASSUME FateInv, RobCommit_, UNCHANGED <<fetch_credit, rob, dispatchVars, rsVars, fuVars>>
  PROVE  FateInv'
<1>1. PICK next : /\ next \in {{rename_event}, {}} /\ Ready(Rob_cmt_inst_in)
                  /\ Fire(Rob_cmt_inst_in, {}, next, Nothing)
                  /\ UNCHANGED <<inst, renaming_stage_queue>>
  BY DEF RobCommit_
<1>2. Events({}, next)
  BY <1>1 DEF Events, UniqueEvent
<1>3. CreditInv'
  BY RobCommitStep, Zenon DEF FateInv
<1>4. Rob_cmt_inst_in \notin WorkPort /\ \A mail \in Nothing : mail[1] \notin WorkPort
  BY NotWork, Zenon
<1>5. UNCHANGED <<rob, inst_queue, dispatch_pending_queue, reservation_station, alu_queue,
                  inst_queue_map>>
  BY Zenon DEF dispatchVars, rsVars, fuVars
<1>6. inst' = inst /\ renaming_stage_queue' = renaming_stage_queue
  BY <1>1
<1> QED BY <1>1, <1>2, <1>3, <1>4, <1>5, <1>6, NoEffect, Zenon

\* The dispatch stage hears of finished instructions.
LEMMA FuncUnitBackFate ==
  ASSUME FateInv, FuncUnitBack_, UNCHANGED <<fetch_credit, renamingVars, rob, rsVars, fuVars>>
  PROVE  FateInv'
<1>1. /\ Ready(write_back_dispatch_port_in) /\ inst' = inst
      /\ Fire(write_back_dispatch_port_in, {}, {}, Nothing)
      /\ inst_queue' = inst_queue /\ dispatch_pending_queue' = dispatch_pending_queue
  BY Zenon DEF FuncUnitBack_
<1>2. Events({}, {})
  BY DEF Events
<1>3. CreditInv'
  BY FuncUnitBackStep, Zenon DEF FateInv
<1>4. write_back_dispatch_port_in \notin WorkPort /\ \A mail \in Nothing : mail[1] \notin WorkPort
  BY NotWork, Zenon
<1>5. UNCHANGED <<rob, renaming_stage_queue, reservation_station, alu_queue, inst_queue_map>>
  BY Zenon DEF renamingVars, rsVars, fuVars
<1> QED BY <1>1, <1>2, <1>3, <1>4, <1>5, NoEffect, Zenon

\* The dispatch stage takes credits.
LEMMA DispatchAcceptCreditFate ==
  ASSUME FateInv, DispatchAcceptCredit_,
         UNCHANGED <<fetch_credit, renamingVars, rob, rsVars, fuVars>>
  PROVE  FateInv'
<1>1. /\ Ready(rs_dispatch_credit_in) /\ inst' = inst
      /\ Fire(rs_dispatch_credit_in, {}, {}, Nothing)
      /\ inst_queue' = inst_queue /\ dispatch_pending_queue' = dispatch_pending_queue
  BY Zenon DEF DispatchAcceptCredit_
<1>2. Events({}, {})
  BY DEF Events
<1>3. CreditInv'
  BY DispatchAcceptCreditStep, Zenon DEF FateInv
<1>4. rs_dispatch_credit_in \notin WorkPort /\ \A mail \in Nothing : mail[1] \notin WorkPort
  BY NotWork, Zenon
<1>5. UNCHANGED <<rob, renaming_stage_queue, reservation_station, alu_queue, inst_queue_map>>
  BY Zenon DEF renamingVars, rsVars, fuVars
<1> QED BY <1>1, <1>2, <1>3, <1>4, <1>5, NoEffect, Zenon

\* A station takes credits.
LEMMA RsAcceptCreditFate ==
  ASSUME FateInv, NEW p \in Pipe, RsAcceptCredit_(p),
         UNCHANGED <<fetch_credit, renamingVars, rob, dispatchVars, fuVars>>
  PROVE  FateInv'
<1>1. /\ Ready(following_reservation_credit_in(p)) /\ inst' = inst
      /\ Fire(following_reservation_credit_in(p), {passing_event(p)}, {}, Nothing)
      /\ reservation_station' = reservation_station
  BY Zenon DEF RsAcceptCredit_
<1>2. Events({passing_event(p)}, {})
  BY DEF Events, UniqueEvent
<1>3. CreditInv'
  BY RsAcceptCreditStep, Zenon DEF FateInv
<1>4. following_reservation_credit_in(p) \notin WorkPort /\ \A mail \in Nothing : mail[1] \notin WorkPort
  BY NotWork, LinkPortHas, Zenon
<1>5. UNCHANGED <<rob, renaming_stage_queue, inst_queue, dispatch_pending_queue, alu_queue,
                  inst_queue_map>>
  BY Zenon DEF renamingVars, dispatchVars, fuVars
<1> QED BY <1>1, <1>2, <1>3, <1>4, <1>5, NoEffect, Zenon

\* What an entry of a queue is of.
LEMMA EntriesAre ==
  ASSUME NEW I
  PROVE  /\ \A e \in DispatchEntry(I) : e.inst \in I
         /\ \A e \in StationEntry(I) : e.inst \in I
BY DEF DispatchEntry, StationEntry

\* One station's queue changes.
LEMMA StationBecomes ==
  ASSUME CreditInv, NEW p \in Pipe, NEW t,
         reservation_station' = [reservation_station EXCEPT ![p] = t]
  PROVE  /\ reservation_station'[p] = t
         /\ \A q \in Pipe : q # p => reservation_station'[q] = reservation_station[q]
BY DEF CreditInv, StationInv

\* A station changes its queue, but not what it holds.
LEMMA StationAlone ==
  ASSUME FateInv, CreditInv', NEW p \in Pipe, NEW c, NEW soon, NEW next, Ready(c),
         Fire(c, soon, next, Nothing), Events(soon, next), inst' = inst, c \notin WorkPort,
         UNCHANGED <<renamingVars, rob, dispatchVars, fuVars>>, NEW t,
         reservation_station' = [reservation_station EXCEPT ![p] = t],
         Alike(OpenInsts(reservation_station[p]), OpenInsts(t))
  PROVE  FateInv'
<1>1. UNCHANGED <<rob, renaming_stage_queue, inst_queue, dispatch_pending_queue, alu_queue,
                  inst_queue_map>>
  BY Zenon DEF renamingVars, dispatchVars, fuVars
<1>2. LateQueues'
  BY <1>1, Zenon DEF LateQueues, FateInv
<1>3. DOMAIN inst' = DOMAIN inst /\ SameTags /\ \A mail \in Nothing : mail[1] \notin WorkPort
  BY NotWork, Zenon DEF SameTags
<1>4. RestKept /\ \A d \in WorkPort : OnTheWay(d)' = OnTheWay(d)
  BY <1>1, <1>2, <1>3, RestAlone, Zenon
<1>5. /\ reservation_station'[p] = t
      /\ \A q \in Pipe : q # p => reservation_station'[q] = reservation_station[q]
  BY StationBecomes, Zenon DEF FateInv
<1>6. Kept({AtStation(p)})
  <2>1. /\ preceding_dispatch_inst_in \in WorkPort /\ preceding_write_back_inst_in \in WorkPort
        /\ write_back_rob_finish_in \in WorkPort
        /\ \A q \in Pipe : /\ preceding_reservation_inst_in(q) \in WorkPort
                           /\ preceding_func_inst_in(q) \in WorkPort
    BY LinkPortHas, LatePortsAre, Zenon DEF WorkPort
  <2>2. \A q \in Pipe : AtStation(q) \in {AtStation(p)} \/ reservation_station'[q] = reservation_station[q]
    BY <1>5, Zenon
  <2> QED BY <1>1, <1>4, <2>1, <2>2, Zenon DEF Kept
<1>7. \A z \in {AtStation(p)} : Alike(held[z], held'[z])
  <2>1. /\ held[AtStation(p)] = OpenInsts(reservation_station[p])
        /\ held'[AtStation(p)] = OpenInsts(reservation_station'[p])
    BY HeldIs, HeldIsPrime, Zenon
  <2>2. Alike(held[AtStation(p)], held'[AtStation(p)])
    BY <1>5, <2>1, Zenon
  <2> QED BY <2>2, Zenon
<1> QED BY <1>4, <1>6, <1>7, NoneMoves, Zenon

\* A broadcast marks operands, and no entry issued.
LEMMA GetForwardingFate ==
  ASSUME FateInv, NEW p \in Pipe, GetForwardingData(p),
         UNCHANGED <<fetch_credit, renamingVars, rob, dispatchVars, fuVars>>
  PROVE  FateInv'
<1> DEFINE c == forwarding_reservation_inst_in(p)
<1>1. PICK regs :
        /\ Ready(c) /\ Fire(c, {}, {}, Nothing)
        /\ reservation_station' = [reservation_station EXCEPT ![p] =
              [k \in DOMAIN reservation_station[p] |-> Resolve(reservation_station[p][k], regs)]]
        /\ inst' = inst /\ rs_credit' = rs_credit
  BY DEF GetForwardingData
<1>2. Events({}, {}) /\ c \notin WorkPort
  BY NotWork DEF Events
<1> HIDE DEF c
<1>3. CreditInv' /\ CreditInv
  BY GetForwardingStep, Zenon DEF FateInv
<1>4. PICK s \in Seq(StationEntry(DOMAIN inst)) : s = reservation_station[p]
  BY <1>3, StationNumbers
<1>5. PICK t : t = [k \in DOMAIN s |-> Resolve(s[k], regs)]
  OBVIOUS
<1>6. OpenInsts(t) = OpenInsts(s)
  <2>1. ASSUME NEW e \in StationEntry(DOMAIN inst)
        PROVE  Resolve(e, regs).inst = e.inst /\ Resolve(e, regs).is_issued = e.is_issued
    BY DEF Resolve, StationEntry
  <2>2. DOMAIN s = 1 .. Len(s) /\ Len(s) \in Nat /\ \A k \in 1 .. Len(s) : s[k] \in StationEntry(DOMAIN inst)
    BY <1>4
  <2>3. DOMAIN t = 1 .. Len(s)
    BY <1>5, <2>2
  <2>4. Len(t) = Len(s)
    <3>1. t = [k \in 1 .. Len(s) |-> t[k]]
      BY <1>5, <2>3
    <3> QED BY <2>2, <3>1
  <2>5. \A k \in 1 .. Len(s) : t[k].inst = s[k].inst /\ t[k].is_issued = s[k].is_issued
    BY <1>5, <2>1, <2>2
  <2>6. Open(t) = Open(s)
    BY <2>4, <2>5 DEF Open
  <2>7. InstsOf(t) = InstsOf(s)
    BY <2>2, <2>3, <2>5 DEF InstsOf
  <2> QED BY <2>6, <2>7, Zenon DEF OpenInsts
<1>7. reservation_station' = [reservation_station EXCEPT ![p] = t]
  BY <1>1, <1>4, <1>5, Zenon
<1>8. Alike(OpenInsts(reservation_station[p]), OpenInsts(t))
  BY <1>4, <1>6 DEF Alike
<1> QED BY <1>1, <1>2, <1>3, <1>7, <1>8, StationAlone, Zenon

\* The entries a station drops have been issued.
LEMMA PopInstFate ==
  ASSUME FateInv, NEW p \in Pipe, PopInst_(p),
         UNCHANGED <<fetch_credit, renamingVars, rob, dispatchVars, fuVars>>
  PROVE  FateInv'
<1>1. CreditInv' /\ CreditInv
  BY PopInstStep, Zenon DEF FateInv
<1>2. PICK I : I = DOMAIN inst
  OBVIOUS
<1>3. PICK s \in Seq(StationEntry(I)) : s = reservation_station[p]
  BY <1>1, <1>2, StationNumbers, Zenon
<1> DEFINE c == pop_event(p)
           turns == (Len(s) + 1) \div 2
           S == {k \in 0 .. turns : \A j \in 1 .. k : s[j].is_issued}
<1>4. Len(s) \in Nat /\ turns \in Nat /\ turns <= Len(s)
  <2>1. PICK n \in Nat : n = Len(s)
    BY <1>3
  <2>2. (n + 1) \div 2 \in Nat /\ (n + 1) \div 2 <= n
    OBVIOUS
  <2> QED BY <2>1, <2>2
<1>5. Max(S) \in S /\ Max(S) \in 0 .. turns
  <2>1. S \in SUBSET (0 .. turns) /\ 0 \in S
    BY <1>4
  <2> HIDE DEF S, turns
  <2> QED BY <1>4, <2>1, MaxIs
<1>6. \A i \in 1 .. Max(S) : s[i].is_issued
  BY <1>5
<1>7. /\ Ready(c)
      /\ Fire(c, {}, IF reservation_station'[p] = << >> THEN {} ELSE {c}, Nothing)
      /\ reservation_station' = [reservation_station EXCEPT ![p] = SubSeq(s, Max(S) + 1, Len(s))]
      /\ inst' = inst
  BY <1>3, Zenon DEF PopInst_
<1>8. c \notin WorkPort /\ c \in UniqueEvent
  BY NotWork DEF UniqueEvent
<1> HIDE DEF S, turns, c
<1>9. PICK next : /\ next = IF reservation_station'[p] = << >> THEN {} ELSE {c}
                  /\ Fire(c, {}, next, Nothing)
  BY <1>7, Zenon
<1>10. Events({}, next)
  BY <1>8, <1>9 DEF Events
<1>11. PICK k \in Nat : k = Max(S) /\ k <= Len(s) /\ \A i \in 1 .. k : s[i].is_issued
  <2>1. Max(S) \in Nat /\ Max(S) <= Len(s)
    BY <1>4, <1>5
  <2> QED BY <1>6, <2>1, Zenon
<1>12. PICK t : t = SubSeq(s, k + 1, Len(s))
  OBVIOUS
<1>13. Alike(OpenInsts(s), OpenInsts(t))
  <2>1. \A e \in StationEntry(I) : e.inst \in I
    BY EntriesAre
  <2> QED BY <1>11, <1>12, <2>1, OpenLeft, Zenon
<1>14. reservation_station' = [reservation_station EXCEPT ![p] = t]
  BY <1>7, <1>11, <1>12, Zenon
<1>15. Alike(OpenInsts(reservation_station[p]), OpenInsts(t))
  BY <1>3, <1>13, Zenon
<1> QED BY <1>1, <1>7, <1>8, <1>9, <1>10, <1>14, <1>15, StationAlone, Zenon

\* The entries the dispatch stage drops have been issued.
LEMMA PopIssueQueueFate ==
  ASSUME FateInv, PopIssueQueue_, UNCHANGED <<fetch_credit, renamingVars, rob, rsVars, fuVars>>
  PROVE  FateInv'
<1>1. CreditInv' /\ CreditInv
  BY PopIssueQueueStep, Zenon DEF FateInv
<1>2. PICK I : I = DOMAIN inst
  OBVIOUS
<1>3. PICK s \in Seq(DispatchEntry(I)) : s = inst_queue
  BY <1>1, <1>2, Zenon DEF CreditInv, DispatchInv
<1> DEFINE c == dispatch_pop_events_
           S == {k \in 0 .. Len(s) : \A j \in 1 .. k : s[j].is_issued}
<1>4. Len(s) \in Nat /\ S \in SUBSET (0 .. Len(s)) /\ 0 \in S
  BY <1>3
<1>5. Max(S) \in S /\ Max(S) \in 0 .. Len(s)
  <2> HIDE DEF S
  <2> QED BY <1>4, MaxIs
<1>6. PICK k \in Nat : k = Max(S) /\ k <= Len(s) /\ \A j \in 1 .. k : s[j].is_issued
  <2>1. \A j \in 1 .. Max(S) : s[j].is_issued
    BY <1>5
  <2> HIDE DEF S
  <2>2. Max(S) \in Nat /\ Max(S) <= Len(s)
    BY <1>4, <1>5
  <2> QED BY <2>1, <2>2, Zenon
<1>7. PICK next :
        /\ next = IF inst_queue' = << >> THEN {}
                  ELSE {dispatch_pop_events_, dispatch_select_events_}
        /\ Ready(c) /\ Fire(c, {}, next, Nothing)
        /\ inst_queue' = SubSeq(s, k + 1, Len(s))
        /\ inst' = inst /\ dispatch_pending_queue' = dispatch_pending_queue
  BY <1>3, <1>6, Zenon DEF PopIssueQueue_
<1>8. Events({}, next) /\ c \notin WorkPort
  BY <1>7, NotWork DEF Events, UniqueEvent
<1> HIDE DEF S, c
<1>9. UNCHANGED <<rob, renaming_stage_queue, reservation_station, alu_queue, inst_queue_map>>
  BY Zenon DEF renamingVars, rsVars, fuVars
<1>10. LateQueues' /\ DOMAIN inst' = DOMAIN inst /\ SameTags
  BY <1>7, <1>9, Zenon DEF LateQueues, FateInv, SameTags
<1>11. \A mail \in Nothing : mail[1] \notin WorkPort
  BY NotWork, Zenon
<1>12. RestKept /\ \A d \in WorkPort : OnTheWay(d)' = OnTheWay(d)
  BY <1>1, <1>7, <1>8, <1>9, <1>10, <1>11, RestAlone, Zenon
<1>13. Kept({AtDispatchQueue})
  <2>1. /\ preceding_dispatch_inst_in \in WorkPort /\ preceding_write_back_inst_in \in WorkPort
        /\ write_back_rob_finish_in \in WorkPort
        /\ \A q \in Pipe : /\ preceding_reservation_inst_in(q) \in WorkPort
                           /\ preceding_func_inst_in(q) \in WorkPort
    BY LinkPortHas, LatePortsAre, Zenon DEF WorkPort
  <2> QED BY <1>7, <1>9, <1>12, <2>1, Zenon DEF Kept
<1>14. PICK t : t = SubSeq(s, k + 1, Len(s))
  OBVIOUS
<1>15. Alike(OpenInsts(s), OpenInsts(t))
  <2>1. \A e \in DispatchEntry(I) : e.inst \in I
    BY EntriesAre
  <2> QED BY <1>6, <1>14, <2>1, OpenLeft, Zenon
<1>16. \A z \in {AtDispatchQueue} : Alike(held[z], held'[z])
  <2>1. held[AtDispatchQueue] = OpenInsts(inst_queue) /\ held'[AtDispatchQueue] = OpenInsts(inst_queue')
    BY HeldIs, HeldIsPrime, Zenon
  <2>2. Alike(held[AtDispatchQueue], held'[AtDispatchQueue])
    BY <1>3, <1>7, <1>14, <1>15, <2>1, Zenon
  <2> QED BY <2>2, Zenon
<1> QED BY <1>12, <1>13, <1>16, NoneMoves, Zenon

\* A handler takes a group from a wire.
LEMMA TakenGroup ==
  ASSUME CreditInv, NEW c \in GroupPort, NEW soon, NEW next, Ready(c),
         Fire(c, soon, next, Nothing), Events(soon, next), More
  PROVE  /\ Message(c) \in Seq(DOMAIN inst)
         /\ Parts(Instructions(c), Message(c), Instructions(c)')
<1>1. c \in LinkPort
  BY LinkPortHas
<1>2. /\ OnTheWay(c) # << >> /\ Message(c) = Head(OnTheWay(c))
      /\ OnTheWay(c)' = Tail(OnTheWay(c)) \o << >>
  BY <1>1, TakingStep
<1>3. PICK g, w : g = Message(c) /\ w = Instructions(c)'
  OBVIOUS
<1>4. /\ g \in Seq(DOMAIN inst) /\ w \in Seq(DOMAIN inst) /\ Instructions(c) = g \o w
  BY <1>2, <1>3, TakesGroup, Zenon DEF CreditInv
<1>5. Parts(Instructions(c), g, w)
  BY <1>4, ConcatParts, Zenon
<1> QED BY <1>3, <1>4, <1>5, Zenon

\* New instructions come to the dispatch queue.
LEMMA DispatchAllocateFate ==
  ASSUME FateInv, DispatchAllocateInst_,
         UNCHANGED <<fetch_credit, renamingVars, rob, rsVars, fuVars>>
  PROVE  /\ FateInv' /\ Message(preceding_dispatch_inst_in) \in Seq(DOMAIN inst)
         /\ Parts(held[AtDispatchWire], Message(preceding_dispatch_inst_in), held'[AtDispatchWire])
         /\ Parts(held'[AtDispatchQueue], held[AtDispatchQueue], Message(preceding_dispatch_inst_in))
<1> DEFINE c == preceding_dispatch_inst_in
           entry(i) == [inst |-> i, is_issued |-> FALSE]
<1>1. CreditInv' /\ CreditInv
  BY DispatchAllocateStep, Zenon DEF FateInv
<1>2. /\ Ready(c) /\ Fire(c, {dispatch_select_events_, dispatch_pop_events_}, {}, Nothing)
      /\ inst_queue' = inst_queue \o [k \in DOMAIN Message(c) |-> entry(Message(c)[k])]
      /\ inst' = inst /\ dispatch_pending_queue' = dispatch_pending_queue
  BY DEF DispatchAllocateInst_
<1>3. Events({dispatch_select_events_, dispatch_pop_events_}, {})
  BY DEF Events, UniqueEvent
<1>4. c \in GroupPort /\ c \in WorkPort /\ c \notin FirstPort
  BY LinkPortHas, LinkPortsDiffer, Zenon DEF WorkPort, FirstPort
<1>5. UNCHANGED <<rob, renaming_stage_queue, reservation_station, alu_queue, inst_queue_map>>
  BY Zenon DEF renamingVars, rsVars, fuVars
<1>6. LateQueues' /\ DOMAIN inst' = DOMAIN inst /\ SameTags /\ More
  BY <1>2, <1>5, Zenon DEF LateQueues, FateInv, SameTags, More
<1>7. \A mail \in Nothing : FALSE
  BY NotWork, Zenon
<1>8. RestKept /\ \A d \in WorkPort : d # c => OnTheWay(d)' = OnTheWay(d)
  BY <1>1, <1>2, <1>3, <1>4, <1>5, <1>6, <1>7, RestIs, Zenon
<1>9. PICK group : group = Message(c)
  OBVIOUS
<1>10. group \in Seq(DOMAIN inst) /\ Parts(Instructions(c), group, Instructions(c)')
  BY <1>1, <1>2, <1>3, <1>4, <1>6, <1>9, TakenGroup
<1>11. Kept({AtDispatchWire, AtDispatchQueue})
  <2>1. /\ preceding_write_back_inst_in \in WorkPort /\ write_back_rob_finish_in \in WorkPort
        /\ \A q \in Pipe : /\ preceding_reservation_inst_in(q) \in WorkPort
                           /\ preceding_func_inst_in(q) \in WorkPort
    BY LinkPortHas, LatePortsAre, Zenon DEF WorkPort
  <2>2. /\ preceding_write_back_inst_in # c /\ write_back_rob_finish_in # c
        /\ \A q \in Pipe : preceding_reservation_inst_in(q) # c /\ preceding_func_inst_in(q) # c
    BY <1>4, LinkPortHas, LinkPortsDiffer, LatePortsAre, Zenon
  <2> HIDE DEF c
  <2> QED BY <1>2, <1>5, <1>8, <2>1, <2>2, Zenon DEF Kept
<1> HIDE DEF entry
<1>12. PICK I : I = DOMAIN inst
  OBVIOUS
<1>13. PICK s \in Seq(DispatchEntry(I)) : s = inst_queue
  BY <1>1, <1>12, Zenon DEF CreditInv, DispatchInv
<1>14. PICK g : g = [k \in DOMAIN group |-> entry(group[k])]
  OBVIOUS
<1>15. /\ g \in Seq(DispatchEntry(I)) /\ Len(g) = Len(group)
       /\ \A k \in 1 .. Len(g) : ~g[k].is_issued
       /\ InstsOf(g) = group
  <2>1. \A i \in I : entry(i) \in DispatchEntry(I) /\ ~entry(i).is_issued /\ entry(i).inst = i
    BY DEF DispatchEntry, entry
  <2>2. group \in Seq(I) /\ Len(group) \in Nat /\ DOMAIN group = 1 .. Len(group)
        /\ \A k \in 1 .. Len(group) : group[k] \in I
    BY <1>10, <1>12
  <2>3. \A k \in 1 .. Len(group) : /\ g[k] \in DispatchEntry(I) /\ ~g[k].is_issued
                                   /\ g[k].inst = group[k]
    BY <1>14, <2>1, <2>2
  <2>4. g = [k \in 1 .. Len(group) |-> g[k]]
    BY <1>14, <2>2
  <2>5. g \in Seq(DispatchEntry(I)) /\ Len(g) = Len(group) /\ DOMAIN g = 1 .. Len(group)
    BY <2>2, <2>3, <2>4
  <2>6. InstsOf(g) = [k \in 1 .. Len(group) |-> group[k]]
    BY <2>3, <2>5 DEF InstsOf
  <2>7. group = [k \in 1 .. Len(group) |-> group[k]]
    BY <2>2
  <2> QED BY <2>3, <2>5, <2>6, <2>7, Zenon
<1>16. PICK u : u = s \o g
  OBVIOUS
<1>17. Parts(OpenInsts(u), OpenInsts(s), group)
  <2>1. \A e \in DispatchEntry(I) : e.inst \in I
    BY EntriesAre
  <2>2. Parts(OpenInsts(u), OpenInsts(s), InstsOf(g))
    BY <1>15, <1>16, <2>1, OpenAppended, Zenon
  <2> QED BY <1>15, <2>2, Zenon
<1>18. inst_queue' = u
  BY <1>2, <1>9, <1>13, <1>14, <1>16, Zenon
<1>19. /\ Parts(held[AtDispatchWire], group, held'[AtDispatchWire])
       /\ Parts(held'[AtDispatchQueue], held[AtDispatchQueue], group)
  BY <1>10, <1>13, <1>17, <1>18, HeldIs, HeldIsPrime, Zenon
<1>20. FateInv'
  <2> HIDE DEF c
  <2> QED BY <1>8, <1>11, <1>19, PlacesDiffer, GroupFate, Zenon
<1> QED BY <1>9, <1>10, <1>19, <1>20, Zenon

\* New instructions come to a station.
LEMMA AllocateReStationFate ==
  ASSUME FateInv, NEW p \in Pipe, AllocateReStation(p),
         UNCHANGED <<fetch_credit, renamingVars, rob, dispatchVars, fuVars>>
  PROVE  FateInv'
<1> DEFINE c == preceding_reservation_inst_in(p)
           entry(i) == [inst |-> i, rs1_valid |-> ~inst[i].IsRs1Forward,
                        rs2_valid |-> ~inst[i].IsRs2Forward, is_issued |-> FALSE]
<1>1. CreditInv' /\ CreditInv
  BY AllocateReStationStep, Zenon DEF FateInv
<1>2. /\ Ready(c) /\ Fire(c, {passing_event(p)}, {pop_event(p)}, Nothing)
      /\ reservation_station' = [reservation_station EXCEPT ![p] = reservation_station[p] \o
            [k \in DOMAIN Message(c) |-> entry(Message(c)[k])]]
      /\ inst' = inst
  BY DEF AllocateReStation
<1>3. Events({passing_event(p)}, {pop_event(p)})
  BY DEF Events, UniqueEvent
<1>4. c \in GroupPort /\ c \in WorkPort /\ c \notin FirstPort
  BY LinkPortHas, LinkPortsDiffer, Zenon DEF WorkPort, FirstPort
<1>5. UNCHANGED <<rob, renaming_stage_queue, inst_queue, dispatch_pending_queue, alu_queue,
                  inst_queue_map>>
  BY Zenon DEF renamingVars, dispatchVars, fuVars
<1>6. LateQueues' /\ DOMAIN inst' = DOMAIN inst /\ SameTags /\ More
  BY <1>2, <1>5, Zenon DEF LateQueues, FateInv, SameTags, More
<1>7. \A mail \in Nothing : FALSE
  BY NotWork, Zenon
<1>8. RestKept /\ \A d \in WorkPort : d # c => OnTheWay(d)' = OnTheWay(d)
  BY <1>1, <1>2, <1>3, <1>4, <1>5, <1>6, <1>7, RestIs, Zenon
<1>9. PICK group : group = Message(c)
  OBVIOUS
<1>10. group \in Seq(DOMAIN inst) /\ Parts(Instructions(c), group, Instructions(c)')
  BY <1>1, <1>2, <1>3, <1>4, <1>6, <1>9, TakenGroup
<1> HIDE DEF entry
<1>11. PICK I : I = DOMAIN inst
  OBVIOUS
<1>12. PICK s \in Seq(StationEntry(I)) : s = reservation_station[p]
  BY <1>1, <1>11, StationNumbers, Zenon
<1>13. PICK g : g = [k \in DOMAIN group |-> entry(group[k])]
  OBVIOUS
<1>14. /\ g \in Seq(StationEntry(I)) /\ Len(g) = Len(group)
       /\ \A k \in 1 .. Len(g) : ~g[k].is_issued
       /\ InstsOf(g) = group
  <2>1. \A i \in I : entry(i) \in StationEntry(I) /\ ~entry(i).is_issued /\ entry(i).inst = i
    BY DEF StationEntry, entry
  <2>2. group \in Seq(I) /\ Len(group) \in Nat /\ DOMAIN group = 1 .. Len(group)
        /\ \A k \in 1 .. Len(group) : group[k] \in I
    BY <1>10, <1>11
  <2>3. \A k \in 1 .. Len(group) : /\ g[k] \in StationEntry(I) /\ ~g[k].is_issued
                                   /\ g[k].inst = group[k]
    BY <1>13, <2>1, <2>2
  <2>4. g = [k \in 1 .. Len(group) |-> g[k]]
    BY <1>13, <2>2
  <2>5. g \in Seq(StationEntry(I)) /\ Len(g) = Len(group) /\ DOMAIN g = 1 .. Len(group)
    BY <2>2, <2>3, <2>4
  <2>6. InstsOf(g) = [k \in 1 .. Len(group) |-> group[k]]
    BY <2>3, <2>5 DEF InstsOf
  <2>7. group = [k \in 1 .. Len(group) |-> group[k]]
    BY <2>2
  <2> QED BY <2>3, <2>5, <2>6, <2>7, Zenon
<1>15. PICK u : u = s \o g
  OBVIOUS
<1>16. Parts(OpenInsts(u), OpenInsts(s), group)
  <2>1. \A e \in StationEntry(I) : e.inst \in I
    BY EntriesAre
  <2>2. Parts(OpenInsts(u), OpenInsts(s), InstsOf(g))
    BY <1>14, <1>15, <2>1, OpenAppended, Zenon
  <2> QED BY <1>14, <2>2, Zenon
<1>17. reservation_station' = [reservation_station EXCEPT ![p] = u]
  BY <1>2, <1>9, <1>12, <1>13, <1>15, Zenon
<1>18. /\ reservation_station'[p] = u
       /\ \A q \in Pipe : q # p => reservation_station'[q] = reservation_station[q]
  BY <1>1, <1>17, StationBecomes, Zenon
<1>19. Kept({AtStationWire(p), AtStation(p)})
  <2>1. /\ preceding_write_back_inst_in \in WorkPort /\ write_back_rob_finish_in \in WorkPort
        /\ preceding_dispatch_inst_in \in WorkPort
        /\ \A q \in Pipe : /\ preceding_reservation_inst_in(q) \in WorkPort
                           /\ preceding_func_inst_in(q) \in WorkPort
    BY LinkPortHas, LatePortsAre, Zenon DEF WorkPort
  <2>2. /\ preceding_write_back_inst_in # c /\ write_back_rob_finish_in # c
        /\ preceding_dispatch_inst_in # c
        /\ \A q \in Pipe : preceding_func_inst_in(q) # c
    BY <1>4, LinkPortHas, LinkPortsDiffer, LatePortsAre, Zenon
  <2>3. \A q \in Pipe : q # p => preceding_reservation_inst_in(q) # c
    BY LinkPortsDiffer, Zenon
  <2>4. \A q \in Pipe : /\ \/ AtStationWire(q) \in {AtStationWire(p), AtStation(p)}
                           \/ OnTheWay(preceding_reservation_inst_in(q))' = OnTheWay(preceding_reservation_inst_in(q))
                        /\ \/ AtStation(q) \in {AtStationWire(p), AtStation(p)}
                           \/ reservation_station'[q] = reservation_station[q]
    BY <1>8, <1>18, <2>1, <2>3, Zenon
  <2>5. OnTheWay(preceding_dispatch_inst_in)' = OnTheWay(preceding_dispatch_inst_in)
        /\ OnTheWay(preceding_write_back_inst_in)' = OnTheWay(preceding_write_back_inst_in)
        /\ OnTheWay(write_back_rob_finish_in)' = OnTheWay(write_back_rob_finish_in)
        /\ \A q \in Pipe : OnTheWay(preceding_func_inst_in(q))' = OnTheWay(preceding_func_inst_in(q))
    BY <1>8, <2>1, <2>2, Zenon
  <2> QED BY <1>5, <2>4, <2>5, Zenon DEF Kept
<1>20. /\ Parts(held[AtStationWire(p)], group, held'[AtStationWire(p)])
       /\ Parts(held'[AtStation(p)], held[AtStation(p)], group)
  BY <1>10, <1>12, <1>16, <1>18, HeldIs, HeldIsPrime, Zenon
<1> HIDE DEF c
<1> QED BY <1>8, <1>19, <1>20, PlacesDiffer, GroupFate, Zenon

\* The wires that carry instructions, by name.
LEMMA WorkPortHas ==
  /\ preceding_renaming_inst_in \in WorkPort /\ preceding_rob_inst_in \in WorkPort
  /\ preceding_dispatch_inst_in \in WorkPort
  /\ preceding_write_back_inst_in \in WorkPort /\ write_back_rob_finish_in \in WorkPort
  /\ \A p \in Pipe : /\ preceding_reservation_inst_in(p) \in WorkPort
                     /\ preceding_func_inst_in(p) \in WorkPort
BY LinkPortHas, LatePortsAre, Zenon DEF WorkPort

\* A function unit's wire is not another one.
LEMMA UnitWireDiffers ==
  ASSUME NEW p \in Pipe
  PROVE  /\ preceding_func_inst_in(p) \notin FirstPort
         /\ preceding_dispatch_inst_in # preceding_func_inst_in(p)
         /\ preceding_write_back_inst_in # preceding_func_inst_in(p)
         /\ write_back_rob_finish_in # preceding_func_inst_in(p)
         /\ \A q \in Pipe : preceding_reservation_inst_in(q) # preceding_func_inst_in(p)
         /\ \A q \in Pipe : q # p => preceding_func_inst_in(q) # preceding_func_inst_in(p)
BY LinkPortsDiffer DEF FirstPort, write_back_rob_finish_in, preceding_write_back_inst_in,
   preceding_func_inst_in

\* New instructions come to a function unit.
LEMMA AllocateFuFate ==
  ASSUME FateInv, NEW p \in Pipe, Allocate_(p),
         UNCHANGED <<fetch_credit, renamingVars, rob, dispatchVars, rsVars>>
  PROVE  FateInv'
<1>1. CreditInv' /\ CreditInv
  BY AllocateFuStep, Zenon DEF FateInv
<1>2. PICK c : c = preceding_func_inst_in(p)
  OBVIOUS
<1>3. PICK group : group = Message(c)
  OBVIOUS
<1>4. /\ Ready(c) /\ Fire(c, {write_back_event(p)}, {}, Nothing)
      /\ alu_queue' = [alu_queue EXCEPT ![p] = alu_queue[p] \o group]
      /\ inst' = inst /\ inst_queue_map' = inst_queue_map
  BY <1>2, <1>3, Zenon DEF Allocate_
<1>5. Events({write_back_event(p)}, {})
  BY DEF Events, UniqueEvent
<1>6. c \in GroupPort /\ c \in WorkPort /\ c \notin FirstPort
  BY <1>2, LinkPortHas, UnitWireDiffers, Zenon DEF WorkPort
<1>7. UNCHANGED <<rob, renaming_stage_queue, inst_queue, dispatch_pending_queue, reservation_station>>
  BY Zenon DEF renamingVars, dispatchVars, rsVars
<1>8. LateQueues' /\ DOMAIN inst' = DOMAIN inst /\ SameTags /\ More
  BY <1>4, Zenon DEF LateQueues, FateInv, SameTags, More
<1>9. \A mail \in Nothing : FALSE
  BY NotWork, Zenon
<1>10. RestKept /\ \A d \in WorkPort : d # c => OnTheWay(d)' = OnTheWay(d)
  BY <1>1, <1>4, <1>5, <1>6, <1>7, <1>8, <1>9, RestIs, Zenon
<1>11. group \in Seq(DOMAIN inst) /\ Parts(Instructions(c), group, Instructions(c)')
  BY <1>1, <1>3, <1>4, <1>5, <1>6, <1>8, TakenGroup, Zenon
<1>12. /\ alu_queue'[p] = alu_queue[p] \o group
       /\ \A q \in Pipe : q # p => alu_queue'[q] = alu_queue[q]
  BY <1>1, <1>4 DEF CreditInv, FuInv
<1>13. Kept({AtUnitWire(p), AtUnit(p)})
  <2>1. /\ OnTheWay(preceding_dispatch_inst_in)' = OnTheWay(preceding_dispatch_inst_in)
        /\ OnTheWay(preceding_write_back_inst_in)' = OnTheWay(preceding_write_back_inst_in)
        /\ OnTheWay(write_back_rob_finish_in)' = OnTheWay(write_back_rob_finish_in)
        /\ \A q \in Pipe : OnTheWay(preceding_reservation_inst_in(q))' = OnTheWay(preceding_reservation_inst_in(q))
    BY <1>2, <1>10, WorkPortHas, UnitWireDiffers, Zenon
  <2>2. \A q \in Pipe : /\ \/ AtUnitWire(q) \in {AtUnitWire(p), AtUnit(p)}
                           \/ OnTheWay(preceding_func_inst_in(q))' = OnTheWay(preceding_func_inst_in(q))
                        /\ \/ AtUnit(q) \in {AtUnitWire(p), AtUnit(p)}
                           \/ alu_queue'[q] = alu_queue[q]
    BY <1>2, <1>10, <1>12, WorkPortHas, UnitWireDiffers, Zenon
  <2> QED BY <1>4, <1>7, <2>1, <2>2, Zenon DEF Kept
<1>14. PICK a \in Seq(DOMAIN inst) : a = alu_queue[p]
  BY <1>1, FuNumbers
<1>15. Parts(alu_queue'[p], a, group)
  BY <1>11, <1>12, <1>14, ConcatParts, Zenon
<1>16. /\ Parts(held[AtUnitWire(p)], group, held'[AtUnitWire(p)])
       /\ Parts(held'[AtUnit(p)], held[AtUnit(p)], group)
  BY <1>2, <1>11, <1>14, <1>15, HeldIs, HeldIsPrime, Zenon
<1> QED BY <1>10, <1>13, <1>16, PlacesDiffer, GroupFate, Zenon

\* A group is sent on a wire, or nothing is.
LEMMA SentGroup ==
  ASSUME CreditInv, More, NEW d \in GroupPort, NEW g \in Seq(DOMAIN inst'),
         \/ OnTheWay(d)' = OnTheWay(d) \o <<g>>
         \/ g = << >> /\ OnTheWay(d)' = OnTheWay(d)
  PROVE  Parts(Instructions(d)', Instructions(d), g)
<1>1. PICK I, J : I = DOMAIN inst /\ J = DOMAIN inst'
  OBVIOUS
<1>2. PICK w, x : w = Instructions(d) /\ x = Instructions(d)'
  OBVIOUS
<1>3. w \in Seq(J) /\ g \in Seq(J)
  <2>1. w \in Seq(I)
    BY <1>1, <1>2, GroupWire, Zenon DEF CreditInv
  <2>2. Seq(I) \subseteq Seq(J)
    BY <1>1, SeqGrows, Zenon DEF More
  <2> QED BY <1>1, <2>1, <2>2
<1>4. x = w \o g
  <2>1. CASE OnTheWay(d)' = OnTheWay(d) \o <<g>>
    BY <1>2, <2>1, SendsGroup, Zenon DEF CreditInv
  <2>2. CASE g = << >> /\ OnTheWay(d)' = OnTheWay(d)
    <3>1. x = w
      BY <1>2, <2>2, Zenon DEF Instructions
    <3>2. w \o << >> = w
      BY <1>3, EmptyConcat
    <3> QED BY <2>2, <3>1, <3>2, Zenon
  <2> QED BY <2>1, <2>2
<1> QED BY <1>2, <1>3, <1>4, ConcatParts, Zenon

\* The instructions a station passes on are open ones, and not open any more.
LEMMA PassingTakes ==
  ASSUME CreditInv, NEW p \in Pipe, PassingInst(p)
  PROVE  \E t \in Seq(StationEntry(DOMAIN inst)), g \in Seq(DOMAIN inst) :
         \E next, out :
           /\ Parts(OpenInsts(reservation_station[p]), g, OpenInsts(t))
           /\ inst' = inst
           /\ reservation_station' = [reservation_station EXCEPT ![p] = t]
           /\ Ready(passing_event(p)) /\ Events({}, next)
           /\ Fire(passing_event(p), {}, next, out)
           /\ out = IF g = << >> THEN Nothing
                    ELSE Post(preceding_func_inst_in(p), <<g>>)
                         \cup Post(rs_dispatch_credit_in, <<[name |-> p, credit |-> Len(g)]>>)
<1>1. PICK I : I = DOMAIN inst
  OBVIOUS
<1>2. PICK s \in Seq(StationEntry(I)) : s = reservation_station[p]
  BY <1>1, StationNumbers
<1>3. PICK k0 \in Nat : k0 = rs_credit[p]
  BY FuNumbers
<1> DEFINE ready == {k \in DOMAIN s : /\ ~s[k].is_issued
                                      /\ s[k].rs1_valid /\ s[k].rs2_valid}
           m == Min({k0, RsWidth})
           passing == {k \in ready : Cardinality({j \in ready : j <= k}) <= m}
           ids == [k \in DOMAIN s |-> s[k].inst]
           g == PickAt(ids, passing)
           t == [k \in DOMAIN s |-> [s[k] EXCEPT !.is_issued = @ \/ k \in passing]]
           next == IF s # << >> /\ rs_credit'[p] > 0 THEN {passing_event(p)} ELSE {}
           out == IF g = << >> THEN Nothing
                  ELSE Post(preceding_func_inst_in(p), <<g>>)
                       \cup Post(rs_dispatch_credit_in, <<[name |-> p, credit |-> Len(g)]>>)
<1>4. /\ Ready(passing_event(p)) /\ inst' = inst
      /\ reservation_station' = [reservation_station EXCEPT ![p] = t]
      /\ Fire(passing_event(p), {}, next, out)
  BY <1>2, <1>3, Zenon DEF PassingInst
<1>5. Events({}, next)
  BY DEF Events, UniqueEvent
<1>6. Len(s) \in Nat /\ DOMAIN s = 1 .. Len(s) /\ \A k \in 1 .. Len(s) : s[k] \in StationEntry(I)
  BY <1>2
<1>7. ready \subseteq Open(s)
  BY <1>6 DEF Open
<1> HIDE DEF ready, m
<1>8. passing \in SUBSET Open(s) /\ passing \in SUBSET (1 .. Len(s))
  BY <1>7 DEF Open
<1> HIDE DEF passing
<1>9. ids = InstsOf(s)
  BY DEF InstsOf
<1>10. ids \in Seq(I) /\ Len(ids) = Len(s)
  <2>1. \A k \in 1 .. Len(s) : s[k].inst \in I
    BY <1>6 DEF StationEntry
  <2>2. ids = [k \in 1 .. Len(s) |-> s[k].inst]
    BY <1>6, Zenon
  <2> QED BY <1>6, <2>1, <2>2
<1> HIDE DEF ids
<1>11. g \in Seq(I)
  <2>1. passing \in SUBSET (1 .. Len(ids))
    BY <1>8, <1>10, Zenon
  <2> QED BY <1>10, <2>1, PickAtIs
<1>12. /\ t \in Seq(StationEntry(I)) /\ Len(t) = Len(s)
       /\ \A k \in 1 .. Len(s) : t[k].inst = s[k].inst
       /\ \A k \in 1 .. Len(s) : ~t[k].is_issued <=> ~s[k].is_issued /\ k \notin passing
  <2>1. ASSUME NEW e \in StationEntry(I), NEW P, NEW k
        PROVE  /\ [e EXCEPT !.is_issued = @ \/ k \in P] \in StationEntry(I)
               /\ [e EXCEPT !.is_issued = @ \/ k \in P].inst = e.inst
               /\ ~[e EXCEPT !.is_issued = @ \/ k \in P].is_issued <=> ~e.is_issued /\ k \notin P
    BY DEF StationEntry
  <2>2. ASSUME NEW k \in 1 .. Len(s)
        PROVE  /\ t[k] \in StationEntry(I) /\ t[k].inst = s[k].inst
               /\ ~t[k].is_issued <=> ~s[k].is_issued /\ k \notin passing
    <3>1. t[k] = [s[k] EXCEPT !.is_issued = @ \/ k \in passing]
      BY <1>6, Zenon
    <3>2. s[k] \in StationEntry(I)
      BY <1>6
    <3>3. /\ [s[k] EXCEPT !.is_issued = @ \/ k \in passing] \in StationEntry(I)
          /\ [s[k] EXCEPT !.is_issued = @ \/ k \in passing].inst = s[k].inst
          /\ ~[s[k] EXCEPT !.is_issued = @ \/ k \in passing].is_issued
               <=> ~s[k].is_issued /\ k \notin passing
      BY <2>1, <3>2, Zenon
    <3> QED BY <3>1, <3>3, Zenon
  <2>3. t = [k \in 1 .. Len(s) |-> t[k]]
    BY <1>6, Zenon
  <2> HIDE DEF t
  <2>4. t \in Seq(StationEntry(I)) /\ Len(t) = Len(s)
    BY <1>6, <2>2, <2>3
  <2> QED BY <2>2, <2>4, Zenon
<1> HIDE DEF t
<1>13. Parts(OpenInsts(s), g, OpenInsts(t))
  <2>1. \A e \in StationEntry(I) : e.inst \in I
    BY EntriesAre
  <2>2. Parts(OpenInsts(s), PickAt(InstsOf(s), passing), OpenInsts(t))
    BY <1>8, <1>12, <2>1, OpenTaken, Zenon
  <2> QED BY <1>9, <2>2, Zenon
<1> HIDE DEF g
<1>14. out = IF g = << >> THEN Nothing
             ELSE Post(preceding_func_inst_in(p), <<g>>)
                  \cup Post(rs_dispatch_credit_in, <<[name |-> p, credit |-> Len(g)]>>)
  OBVIOUS
<1> HIDE DEF out, next
<1> QED BY <1>1, <1>2, <1>4, <1>5, <1>11, <1>12, <1>13, <1>14, Zenon

\* What a station sends: a group to its unit, and a number.
LEMMA PassingMails ==
  ASSUME NEW p \in Pipe, NEW I, NEW g \in Seq(I), NEW out,
         out = IF g = << >> THEN Nothing
               ELSE Post(preceding_func_inst_in(p), <<g>>)
                    \cup Post(rs_dispatch_credit_in, <<[name |-> p, credit |-> Len(g)]>>)
  PROVE  /\ Carries(out, I)
         /\ \A mail \in out : mail[1] \in {preceding_func_inst_in(p), rs_dispatch_credit_in}
         /\ Sent(out, preceding_func_inst_in(p)) = IF g = << >> THEN << >> ELSE <<g>>
<1>1. PICK d : d = preceding_func_inst_in(p)
  OBVIOUS
<1>2. PICK k \in Nat : k = Len(g)
  OBVIOUS
<1>3. PICK x : x = <<[name |-> p, credit |-> k]>>
  OBVIOUS
<1>4. /\ d \in GroupPort /\ d # rs_dispatch_credit_in
      /\ rs_dispatch_credit_in \notin CreditPort /\ rs_dispatch_credit_in \notin GroupPort
  BY <1>1, LinkPortHas, LinkPortsAre, Zenon
<1>5. CASE g = << >>
  <2>1. out = Nothing
    BY <1>5, Zenon
  <2>2. \A mail \in out : FALSE
    BY <2>1, NotWork, Zenon
  <2>3. Sent(out, d) = << >>
    BY <2>2, Zenon DEF Sent
  <2> QED BY <1>1, <1>5, <2>2, <2>3, Zenon DEF Carries
<1>6. CASE g # << >>
  <2>1. AreSent(out, d, <<g>>, rs_dispatch_credit_in, x)
    BY <1>1, <1>2, <1>3, <1>6, Zenon DEF AreSent
  <2>2. Arrive(out, d, <<g>>, rs_dispatch_credit_in, x)
    BY <1>4, <2>1, TwoPosts, Zenon
  <2>3. <<g>> \in Seq(MessageOf(d, I))
    BY <1>4, GroupIsTyped, Zenon
  <2>4. x \in Seq(MessageOf(rs_dispatch_credit_in, I))
    <3>1. [name |-> p, credit |-> k] \in StationCredit
      BY <1>2 DEF StationCredit
    <3>2. x \in Seq(StationCredit)
      BY <1>3, <3>1
    <3>3. MessageOf(rs_dispatch_credit_in, I) = StationCredit
      BY <1>4, Zenon DEF MessageOf
    <3> QED BY <3>2, <3>3, Zenon
  <2>5. Carries(out, I)
    BY <2>2, <2>3, <2>4, Zenon DEF Arrive, Carries
  <2>6. /\ \A mail \in out : mail[1] \in {d, rs_dispatch_credit_in}
        /\ Sent(out, d) = <<g>>
    BY <2>2, Zenon DEF Arrive
  <2> QED BY <1>1, <1>6, <2>5, <2>6, Zenon
<1> QED BY <1>5, <1>6

\* A station passes instructions on to its unit.
LEMMA PassingFate ==
  ASSUME FateInv, NEW p \in Pipe, PassingInst(p),
         UNCHANGED <<fetch_credit, renamingVars, rob, dispatchVars, fuVars>>
  PROVE  FateInv'
<1>1. CreditInv' /\ CreditInv
  BY PassingStep, Zenon DEF FateInv
<1>2. PICK t \in Seq(StationEntry(DOMAIN inst)), g \in Seq(DOMAIN inst) : \E next, out :
        /\ Parts(OpenInsts(reservation_station[p]), g, OpenInsts(t))
        /\ inst' = inst
        /\ reservation_station' = [reservation_station EXCEPT ![p] = t]
        /\ Ready(passing_event(p)) /\ Events({}, next)
        /\ Fire(passing_event(p), {}, next, out)
        /\ out = IF g = << >> THEN Nothing
                 ELSE Post(preceding_func_inst_in(p), <<g>>)
                      \cup Post(rs_dispatch_credit_in, <<[name |-> p, credit |-> Len(g)]>>)
  BY <1>1, PassingTakes, Zenon
<1>3. PICK next, out :
        /\ Parts(OpenInsts(reservation_station[p]), g, OpenInsts(t))
        /\ inst' = inst
        /\ reservation_station' = [reservation_station EXCEPT ![p] = t]
        /\ Ready(passing_event(p)) /\ Events({}, next)
        /\ Fire(passing_event(p), {}, next, out)
        /\ out = IF g = << >> THEN Nothing
                 ELSE Post(preceding_func_inst_in(p), <<g>>)
                      \cup Post(rs_dispatch_credit_in, <<[name |-> p, credit |-> Len(g)]>>)
  BY <1>2, Zenon
<1>4. PICK c, d : c = passing_event(p) /\ d = preceding_func_inst_in(p)
  OBVIOUS
<1>5. PICK I : I = DOMAIN inst
  OBVIOUS
<1>6. /\ Carries(out, I) /\ Sent(out, d) = IF g = << >> THEN << >> ELSE <<g>>
      /\ \A mail \in out : mail[1] \in {d, rs_dispatch_credit_in}
  BY <1>3, <1>4, <1>5, PassingMails, Zenon
<1>7. c \notin WorkPort /\ c \notin LinkPort /\ d \in GroupPort /\ d \in WorkPort /\ d \in LinkPort
  <2>1. c \in UniqueEvent
    BY <1>4 DEF UniqueEvent
  <2> QED BY <1>4, <2>1, NotWork, LinkPortsDiffer, LinkPortHas, WorkPortHas, Zenon
<1>8. UNCHANGED <<rob, renaming_stage_queue, inst_queue, dispatch_pending_queue, alu_queue,
                  inst_queue_map>>
  BY Zenon DEF renamingVars, dispatchVars, fuVars
<1>9. LateQueues' /\ DOMAIN inst' = DOMAIN inst /\ SameTags /\ More
  BY <1>3, <1>8, Zenon DEF LateQueues, FateInv, SameTags, More
<1>10. /\ c \notin FirstPort
       /\ \A mail \in out : mail[1] \notin FirstPort \cup {preceding_dispatch_inst_in}
       /\ \A mail \in out : mail[1] \notin LatePort
       /\ \A mail \in out : \A q \in WorkPort : q # d => mail[1] # q
  <2>1. \A q \in FirstPort \cup {preceding_dispatch_inst_in} : q \in WorkPort
    BY WorkPortHas DEF FirstPort
  <2>2. \A q \in LatePort : q \in WorkPort
    BY DEF WorkPort
  <2>3. d \notin FirstPort /\ d # preceding_dispatch_inst_in /\ d \notin LatePort
    BY <1>4, <1>7, UnitWireDiffers, LatePortsAre, Zenon
  <2> QED BY <1>6, <1>7, <2>1, <2>2, <2>3, NotWork, Zenon
<1>11. RestKept /\ \A q \in WorkPort : q # d => OnTheWay(q)' = OnTheWay(q)
  <2>1. RestKept /\ \A q \in WorkPort :
            q # c /\ (\A mail \in out : mail[1] # q) => OnTheWay(q)' = OnTheWay(q)
    <3>1. Ready(c) /\ Fire(c, {}, next, out) /\ Events({}, next)
      BY <1>3, <1>4, Zenon
    <3>2. rob' = rob /\ renaming_stage_queue' = renaming_stage_queue
      BY <1>8, Zenon
    <3>3. \A mail \in out : mail[1] \in LatePort =>
             mail[2] \in Seq(LateMessage(mail[1], DOMAIN inst'))
      BY <1>10, Zenon
    <3>4. /\ LateQueues' /\ DOMAIN inst' = DOMAIN inst /\ SameTags
          /\ c \notin FirstPort
          /\ \A mail \in out : mail[1] \notin FirstPort \cup {preceding_dispatch_inst_in}
      BY <1>9, <1>10, Zenon
    <3>5. LeavesRest(c, {}, next, out)
      BY <3>1, <3>2, <3>3, <3>4, Zenon DEF LeavesRest
    <3> QED BY <1>1, <3>5, RestOf, Zenon
  <2> QED BY <1>7, <1>10, <2>1, Zenon
<1>12. OnTheWay(d)' = OnTheWay(d) \o Sent(out, d)
  <2>1. Carries(out, DOMAIN inst')
    BY <1>5, <1>6, <1>9, Zenon
  <2>2. Delivered(out)
    BY <1>1, <1>3, <1>4, <1>7, <1>9, <2>1, EventStep, Zenon
  <2> QED BY <1>7, <2>2, Zenon DEF Delivered
<1>13. Parts(Instructions(d)', Instructions(d), g)
  <2>1. \/ OnTheWay(d)' = OnTheWay(d) \o <<g>>
        \/ g = << >> /\ OnTheWay(d)' = OnTheWay(d)
    <3>1. CASE g = << >>
      <4>1. OnTheWay(d) \in Seq(Seq(DOMAIN inst))
        BY <1>1, <1>7, GroupWire, Zenon DEF CreditInv
      <4>2. OnTheWay(d) \o << >> = OnTheWay(d)
        BY <4>1, EmptyConcat, Zenon
      <4> QED BY <1>6, <1>12, <3>1, <4>2, Zenon
    <3>2. CASE g # << >>
      BY <1>6, <1>12, <3>2, Zenon
    <3> QED BY <3>1, <3>2
  <2>2. g \in Seq(DOMAIN inst')
    BY <1>3, Zenon
  <2> QED BY <1>1, <1>7, <1>9, <2>1, <2>2, SentGroup, Zenon
<1>14. /\ reservation_station'[p] = t
       /\ \A q \in Pipe : q # p => reservation_station'[q] = reservation_station[q]
  BY <1>1, <1>3, StationBecomes, Zenon
<1>15. Kept({AtStation(p), AtUnitWire(p)})
  <2>1. /\ OnTheWay(preceding_dispatch_inst_in)' = OnTheWay(preceding_dispatch_inst_in)
        /\ OnTheWay(preceding_write_back_inst_in)' = OnTheWay(preceding_write_back_inst_in)
        /\ OnTheWay(write_back_rob_finish_in)' = OnTheWay(write_back_rob_finish_in)
        /\ \A q \in Pipe : OnTheWay(preceding_reservation_inst_in(q))' = OnTheWay(preceding_reservation_inst_in(q))
    BY <1>4, <1>11, WorkPortHas, UnitWireDiffers, Zenon
  <2>2. \A q \in Pipe : /\ \/ AtUnitWire(q) \in {AtStation(p), AtUnitWire(p)}
                           \/ OnTheWay(preceding_func_inst_in(q))' = OnTheWay(preceding_func_inst_in(q))
                        /\ \/ AtStation(q) \in {AtStation(p), AtUnitWire(p)}
                           \/ reservation_station'[q] = reservation_station[q]
    BY <1>4, <1>11, <1>14, WorkPortHas, UnitWireDiffers, Zenon
  <2> QED BY <1>8, <2>1, <2>2, Zenon DEF Kept
<1>16. /\ Parts(held[AtStation(p)], g, held'[AtStation(p)])
       /\ Parts(held'[AtUnitWire(p)], held[AtUnitWire(p)], g)
  BY <1>3, <1>4, <1>13, <1>14, HeldIs, HeldIsPrime, Zenon
<1> QED BY <1>11, <1>15, <1>16, PlacesDiffer, GroupFate, Zenon

-----------------------------------------------------------------------------
(* The write back stage.                                                   *)

\* The groups of pairs: of one more, and of those that are left.
LEMMA GroupsOfMore ==
  ASSUME NEW I, NEW w \in Seq(WriteBackGroup(I))
  PROVE  /\ GroupsOf(w) \in Seq(Seq(I))
         /\ \A x \in WriteBackGroup(I) : GroupsOf(w \o <<x>>) = GroupsOf(w) \o <<x.inst_group>>
         /\ w # << >> => /\ GroupsOf(w) # << >> /\ Head(w) \in WriteBackGroup(I)
                         /\ Head(GroupsOf(w)) = Head(w).inst_group
                         /\ GroupsOf(Tail(w)) = Tail(GroupsOf(w))
<1>1. PICK M : M = WriteBackGroup(I)
  OBVIOUS
<1>2. \A x \in M : x.inst_group \in Seq(I)
  BY <1>1 DEF WriteBackGroup
<1>3. PICK Q : Q = Seq(I)
  OBVIOUS
<1>4. \A v \in Seq(M) : /\ GroupsOf(v) \in Seq(Q) /\ Len(GroupsOf(v)) = Len(v)
                        /\ \A k \in 1 .. Len(v) : GroupsOf(v)[k] = v[k].inst_group
  <2> SUFFICES ASSUME NEW v \in Seq(M)
               PROVE  /\ GroupsOf(v) \in Seq(Q) /\ Len(GroupsOf(v)) = Len(v)
                      /\ \A k \in 1 .. Len(v) : GroupsOf(v)[k] = v[k].inst_group
    OBVIOUS
  <2>1. GroupsOf(v) = [k \in 1 .. Len(v) |-> v[k].inst_group]
    BY DEF GroupsOf
  <2>2. \A k \in 1 .. Len(v) : v[k].inst_group \in Q
    BY <1>2, <1>3
  <2> QED BY <2>1, <2>2
<1>5. ASSUME NEW x \in M PROVE GroupsOf(w \o <<x>>) = GroupsOf(w) \o <<x.inst_group>>
  <2>1. w \o <<x>> \in Seq(M) /\ w \in Seq(M) /\ x.inst_group \in Q
    BY <1>1, <1>2, <1>3
  <2>2. PICK v, gw, e, u : /\ v = w \o <<x>> /\ gw = GroupsOf(w) /\ e = x.inst_group
                           /\ u = gw \o <<e>>
    OBVIOUS
  <2>3. PICK gv : gv = GroupsOf(v)
    OBVIOUS
  <2>6. gw \in Seq(Q) /\ gv \in Seq(Q) /\ e \in Q /\ w \in Seq(M) /\ v \in Seq(M)
    BY <1>4, <2>1, <2>2, <2>3, Zenon
  <2>4. /\ Len(gv) = Len(v) /\ \A k \in 1 .. Len(v) : gv[k] = v[k].inst_group
        /\ Len(gw) = Len(w) /\ \A k \in 1 .. Len(w) : gw[k] = w[k].inst_group
    BY <1>4, <2>2, <2>3, <2>6, Zenon
  <2>5. gv = u
    <3>1. /\ Len(v) = Len(w) + 1 /\ v[Len(w) + 1] = x /\ \A k \in 1 .. Len(w) : v[k] = w[k]
      BY <2>1, <2>2, AppendOne
    <3>4. /\ gw \o <<e>> \in Seq(Q) /\ Len(gw \o <<e>>) = Len(gw) + 1
          /\ (gw \o <<e>>)[Len(gw) + 1] = e
          /\ \A k \in 1 .. Len(gw) : (gw \o <<e>>)[k] = gw[k]
      BY <2>6, AppendOne
    <3>5. /\ u \in Seq(Q) /\ Len(u) = Len(gw) + 1 /\ u[Len(gw) + 1] = e
          /\ \A k \in 1 .. Len(gw) : u[k] = gw[k]
      BY <2>2, <3>4, Zenon
    <3>2. /\ Len(u) = Len(w) + 1 /\ u[Len(w) + 1] = e
          /\ \A k \in 1 .. Len(w) : u[k] = gw[k]
      BY <2>4, <3>5
    <3>6. Len(w) \in Nat
      BY <2>6
    <3>3. \A k \in 1 .. Len(gv) : gv[k] = u[k]
      BY <2>2, <2>4, <3>1, <3>2, <3>6, SMTT(60)
    <3> QED BY <2>4, <2>6, <3>1, <3>2, <3>3, <3>5, SameSeq
  <2> QED BY <2>2, <2>3, <2>5
<1>6. ASSUME w # << >>
      PROVE  /\ GroupsOf(w) # << >> /\ Head(w) \in M
             /\ Head(GroupsOf(w)) = Head(w).inst_group
             /\ GroupsOf(Tail(w)) = Tail(GroupsOf(w))
  <2>1. w \in Seq(M)
    BY <1>1
  <2>2. /\ Head(w) \in M /\ Tail(w) \in Seq(M) /\ Len(w) \in Nat \ {0}
        /\ Len(Tail(w)) = Len(w) - 1 /\ Head(w) = w[1]
        /\ \A i \in 1 .. Len(w) - 1 : Tail(w)[i] = w[i + 1]
    BY <1>6, <2>1, HeadTail
  <2>3. PICK v \in Seq(M) : v = Tail(w)
    BY <2>2
  <2>4. PICK gw \in Seq(Q), gv \in Seq(Q) : gw = GroupsOf(w) /\ gv = GroupsOf(v)
    BY <1>4, <2>1
  <2>5. /\ Len(gv) = Len(v) /\ \A k \in 1 .. Len(v) : gv[k] = v[k].inst_group
        /\ Len(gw) = Len(w) /\ \A k \in 1 .. Len(w) : gw[k] = w[k].inst_group
    BY <1>4, <2>1, <2>4
  <2>6. gw # << >>
    BY <2>2, <2>5
  <2>7. /\ Head(gw) = gw[1] /\ Tail(gw) \in Seq(Q) /\ Len(Tail(gw)) = Len(gw) - 1
        /\ \A i \in 1 .. Len(gw) - 1 : Tail(gw)[i] = gw[i + 1]
    BY <2>6, HeadTail
  <2>8. \A k \in 1 .. Len(gv) : gv[k] = Tail(gw)[k]
    BY <2>2, <2>3, <2>5, <2>7
  <2>9. gv = Tail(gw)
    BY <2>2, <2>3, <2>5, <2>7, <2>8, SameSeq
  <2>10. Head(gw) = Head(w).inst_group
    BY <2>2, <2>5, <2>7
  <2> QED BY <2>2, <2>3, <2>4, <2>6, <2>9, <2>10
<1> QED BY <1>1, <1>3, <1>4, <1>5, <1>6

\* A pair is sent on the wire, or nothing is.
LEMMA SentPair ==
  ASSUME NEW I, NEW w \in Seq(WriteBackGroup(I)), NEW v, NEW p \in Pipe, NEW g \in Seq(I),
         \/ v = w \o <<[name |-> p, inst_group |-> g]>>
         \/ g = << >> /\ v = w
  PROVE  Parts(Joined(GroupsOf(v)), Joined(GroupsOf(w)), g)
<1>1. PICK ss \in Seq(Seq(I)) : ss = GroupsOf(w)
  BY GroupsOfMore
<1>2. Joined(ss) \in Seq(I)
  BY <1>1, JoinedIsSeq
<1>3. PICK a \in Seq(I) : a = Joined(ss)
  BY <1>2
<1>4. Joined(GroupsOf(v)) = a \o g
  <2>1. CASE v = w \o <<[name |-> p, inst_group |-> g]>>
    <3>1. PICK x \in WriteBackGroup(I) : x = [name |-> p, inst_group |-> g]
      BY DEF WriteBackGroup
    <3>2. GroupsOf(w \o <<x>>) = GroupsOf(w) \o <<x.inst_group>>
      BY GroupsOfMore
    <3>3. x.inst_group = g
      BY <3>1
    <3>4. GroupsOf(v) = ss \o <<g>>
      BY <1>1, <2>1, <3>1, <3>2, <3>3, Zenon
    <3> QED BY <1>3, <3>4, JoinedAppend
  <2>2. CASE g = << >> /\ v = w
    <3>1. a \o << >> = a
      BY EmptyConcat
    <3> QED BY <1>1, <1>3, <2>2, <3>1, Zenon
  <2> QED BY <2>1, <2>2
<1> QED BY <1>1, <1>3, <1>4, ConcatParts, Zenon

WritingBack(p, g, n, out) ==
    /\ n = 0 => g = << >>
    /\ out = IF n = 0 THEN Nothing
             ELSE Post(preceding_write_back_inst_in, <<[name |-> p, inst_group |-> g]>>)
                  \cup Post(following_reservation_credit_in(p), <<n>>)

WrittenBack(p, I, g, out) ==
    /\ \A mail \in out : mail[1] \in {preceding_write_back_inst_in,
                                      following_reservation_credit_in(p)}
    /\ \A mail \in out : mail[1] = preceding_write_back_inst_in =>
          mail[2] \in Seq(WriteBackGroup(I))
    /\ \/ Sent(out, preceding_write_back_inst_in) = <<[name |-> p, inst_group |-> g]>>
       \/ g = << >> /\ Sent(out, preceding_write_back_inst_in) = << >>

\* What a function unit sends to the write back stage, and the credit it
\* returns.
LEMMA WriteBackMails ==
  ASSUME NEW p \in Pipe, NEW I, NEW g \in Seq(I), NEW n \in Nat, NEW out,
         WritingBack(p, g, n, out)
  PROVE  WrittenBack(p, I, g, out)
<1> USE DEF WritingBack
<1> SUFFICES
      /\ \A mail \in out : mail[1] \in {preceding_write_back_inst_in,
                                        following_reservation_credit_in(p)}
      /\ \A mail \in out : mail[1] = preceding_write_back_inst_in =>
            mail[2] \in Seq(WriteBackGroup(I))
      /\ \/ Sent(out, preceding_write_back_inst_in) = <<[name |-> p, inst_group |-> g]>>
         \/ g = << >> /\ Sent(out, preceding_write_back_inst_in) = << >>
  BY Zenon DEF WrittenBack
<1>1. PICK d, e : d = preceding_write_back_inst_in /\ e = following_reservation_credit_in(p)
  OBVIOUS
<1>2. PICK x : x = <<[name |-> p, inst_group |-> g]>>
  OBVIOUS
<1>3. d # e
  BY <1>1, LinkPortHas, OtherPorts, Zenon
<1>4. x \in Seq(WriteBackGroup(I))
  <2>1. [name |-> p, inst_group |-> g] \in WriteBackGroup(I)
    BY DEF WriteBackGroup
  <2> QED BY <1>2, <2>1
<1>5. CASE n = 0
  <2>1. out = Nothing
    BY <1>5, Zenon
  <2>2. \A mail \in out : FALSE
    BY <2>1, NotWork, Zenon
  <2>3. Sent(out, d) = << >>
    BY <2>2, Zenon DEF Sent
  <2> QED BY <1>1, <1>5, <2>2, <2>3, Zenon
<1>6. CASE n # 0
  <2>1. AreSent(out, d, x, e, <<n>>)
    BY <1>1, <1>2, <1>6, Zenon DEF AreSent
  <2>2. Arrive(out, d, x, e, <<n>>)
    BY <1>3, <2>1, TwoPosts, Zenon
  <2>3. /\ \A mail \in out : mail[1] \in {d, e}
        /\ \A mail \in out : mail[1] = d => mail[2] \in Seq(WriteBackGroup(I))
        /\ Sent(out, d) = x
    BY <1>3, <1>4, <2>2, Zenon DEF Arrive
  <2> QED BY <1>1, <1>2, <2>3, Zenon
<1> QED BY <1>5, <1>6

\* A function unit writes its first instructions back.
LEMMA WriteBackFate ==
  ASSUME FateInv, NEW p \in Pipe, WriteBack_(p),
         UNCHANGED <<fetch_credit, renamingVars, rob, dispatchVars, rsVars>>
  PROVE  FateInv'
<1>1. CreditInv' /\ CreditInv
  BY WriteBackStep, Zenon DEF FateInv
<1>2. PICK I : I = DOMAIN inst
  OBVIOUS
<1>3. PICK a \in Seq(I) : a = alu_queue[p]
  BY <1>1, <1>2, FuNumbers
<1>4. PICK num : num = Min({FuWidth, Len(a)})
  OBVIOUS
<1>5. num \in Nat /\ num <= Len(a)
  <2>1. PICK x \in Int, y \in Int : x = FuWidth /\ y = Len(a) /\ x \in Nat /\ y \in Nat
    BY <1>3, SizesAssumption
  <2>2. Min({x, y}) \in {x, y} /\ Min({x, y}) <= y
    BY MinOfTwo
  <2> QED BY <1>4, <2>1, <2>2
<1>6. PICK g, r : g = SubSeq(a, 1, num) /\ r = SubSeq(a, num + 1, Len(a))
  OBVIOUS
<1>7. g \in Seq(I) /\ r \in Seq(I) /\ Len(g) = num /\ a = g \o r
  <2>1. Splits(I, a, num)
    BY <1>5, SplitIs
  <2> QED BY <1>6, <2>1, Zenon DEF Splits
<1>8. PICK c, d : c = write_back_event(p) /\ d = preceding_write_back_inst_in
  OBVIOUS
<1>9. PICK out : out = IF num = 0 THEN Nothing
                       ELSE Post(d, <<[name |-> p, inst_group |-> g]>>)
                            \cup Post(following_reservation_credit_in(p), <<num>>)
  OBVIOUS
<1>10. /\ Ready(c) /\ Fire(c, {}, {}, out)
       /\ alu_queue' = [alu_queue EXCEPT ![p] = r]
       /\ inst' = inst /\ inst_queue_map' = inst_queue_map
  BY <1>3, <1>4, <1>6, <1>8, <1>9, Zenon DEF WriteBack_
<1>11. Events({}, {})
  BY DEF Events
<1>12. /\ \A mail \in out : mail[1] \in {d, following_reservation_credit_in(p)}
       /\ \A mail \in out : mail[1] = d => mail[2] \in Seq(WriteBackGroup(I))
       /\ \/ Sent(out, d) = <<[name |-> p, inst_group |-> g]>>
          \/ g = << >> /\ Sent(out, d) = << >>
  <2>1. num = 0 => g = << >>
    BY <1>7
  <2>2. out = IF num = 0 THEN Nothing
              ELSE Post(preceding_write_back_inst_in, <<[name |-> p, inst_group |-> g]>>)
                   \cup Post(following_reservation_credit_in(p), <<num>>)
    BY <1>8, <1>9, Zenon
  <2>3. /\ \A mail \in out : mail[1] \in {preceding_write_back_inst_in,
                                           following_reservation_credit_in(p)}
        /\ \A mail \in out : mail[1] = preceding_write_back_inst_in =>
              mail[2] \in Seq(WriteBackGroup(I))
        /\ \/ Sent(out, preceding_write_back_inst_in) = <<[name |-> p, inst_group |-> g]>>
           \/ g = << >> /\ Sent(out, preceding_write_back_inst_in) = << >>
    <3>1. num \in Nat /\ g \in Seq(I)
      BY <1>5, <1>7
    <3>2. num \in Nat
      BY <3>1
    <3>3. g \in Seq(I)
      BY <3>1
    <3>4. WritingBack(p, g, num, out)
      BY <2>1, <2>2, Zenon DEF WritingBack
    <3>5. WrittenBack(p, I, g, out)
      BY <3>2, <3>3, <3>4, WriteBackMails, Zenon
    <3> QED BY <3>5, Zenon DEF WrittenBack
  <2> QED BY <1>8, <2>3
<1>13. c \notin WorkPort /\ d \in LatePort /\ d \in WorkPort
  <2>1. c \in UniqueEvent
    BY <1>8 DEF UniqueEvent
  <2> QED BY <1>8, <2>1, NotWork, LatePortsAre, WorkPortHas, Zenon
<1>14. UNCHANGED <<rob, renaming_stage_queue, inst_queue, dispatch_pending_queue, reservation_station>>
  BY Zenon DEF renamingVars, dispatchVars, rsVars
<1>15. LateQueues' /\ DOMAIN inst' = DOMAIN inst /\ SameTags /\ More
  BY <1>10, Zenon DEF LateQueues, FateInv, SameTags, More
<1>16. \A mail \in out : \A q \in WorkPort : q # d => mail[1] # q
  <2>1. following_reservation_credit_in(p) \notin WorkPort
    BY NotWork, LinkPortHas, Zenon
  <2> QED BY <1>12, <2>1, Zenon
<1>17. /\ c \notin FirstPort
       /\ \A mail \in out : mail[1] \notin FirstPort \cup {preceding_dispatch_inst_in}
       /\ \A mail \in out : mail[1] \in LatePort =>
            mail[2] \in Seq(LateMessage(mail[1], DOMAIN inst'))
  <2>1. \A q \in FirstPort \cup {preceding_dispatch_inst_in} : q \in WorkPort
    BY WorkPortHas DEF FirstPort
  <2>2. \A q \in LatePort : q \in WorkPort
    BY DEF WorkPort
  <2>3. d \notin FirstPort /\ d # preceding_dispatch_inst_in /\ d # write_back_rob_finish_in
    BY <1>8, LatePortsAre, LinkPortHas, Zenon DEF FirstPort
  <2>4. \A q \in FirstPort \cup {preceding_dispatch_inst_in} : q # d
    BY <2>3, Zenon
  <2>5. LateMessage(d, DOMAIN inst') = WriteBackGroup(I)
    BY <1>2, <1>15, <2>3, Zenon DEF LateMessage
  <2> QED BY <1>12, <1>13, <1>16, <2>1, <2>2, <2>4, <2>5, Zenon
<1>18. RestKept /\ \A q \in WorkPort : q # d => OnTheWay(q)' = OnTheWay(q)
  <2>1. rob' = rob /\ renaming_stage_queue' = renaming_stage_queue
    BY <1>14, Zenon
  <2>2. LateQueues' /\ DOMAIN inst' = DOMAIN inst /\ SameTags
    BY <1>15, Zenon
  <2>3. RestKept /\ \A q \in WorkPort :
            q # c /\ (\A mail \in out : mail[1] # q) => OnTheWay(q)' = OnTheWay(q)
    <3>1. LeavesRest(c, {}, {}, out)
      BY <1>10, <1>11, <1>17, <2>1, <2>2, Zenon DEF LeavesRest
    <3> QED BY <1>1, <3>1, RestOf, Zenon
  <2> QED BY <1>13, <1>16, <2>3, Zenon
<1>19. OnTheWay(d) \in Seq(WriteBackGroup(I)) /\ OnTheWay(d)' = OnTheWay(d) \o Sent(out, d)
  <2>1. LateWires
    BY Zenon DEF FateInv
  <2>2. LateMessage(d, DOMAIN inst') = WriteBackGroup(I)
    BY <1>2, <1>8, <1>15, LatePortsAre, Zenon DEF LateMessage
  <2>3. /\ OnTheWay(d) \in Seq(LateMessage(d, DOMAIN inst'))
        /\ OnTheWay(d)' = (IF d = c THEN Tail(OnTheWay(d)) ELSE OnTheWay(d)) \o Sent(out, d)
    BY <1>10, <1>11, <1>13, <1>15, <1>17, <2>1, LateStep
  <2> QED BY <1>13, <2>2, <2>3, Zenon
<1>20. Parts(held'[AtWriteBackWire], held[AtWriteBackWire], g)
  <2>1. PICK w \in Seq(WriteBackGroup(I)) : w = OnTheWay(d)
    BY <1>19
  <2>2. PICK v : v = OnTheWay(d)'
    OBVIOUS
  <2>3. \/ v = w \o <<[name |-> p, inst_group |-> g]>>
        \/ g = << >> /\ v = w
    <3>1. w \o << >> = w
      BY EmptyConcat
    <3> QED BY <1>12, <1>19, <2>1, <2>2, <3>1, Zenon
  <2>4. Parts(Joined(GroupsOf(v)), Joined(GroupsOf(w)), g)
    BY <1>7, <2>3, SentPair
  <2>5. WriteBackGroups = GroupsOf(w) /\ WriteBackGroups' = GroupsOf(v)
    BY <1>8, <2>1, <2>2, Zenon DEF WriteBackGroups
  <2> QED BY <2>4, <2>5, HeldIs, HeldIsPrime, Zenon
<1>21. /\ alu_queue'[p] = r
       /\ \A q \in Pipe : q # p => alu_queue'[q] = alu_queue[q]
  BY <1>1, <1>10 DEF CreditInv, FuInv
<1>22. Parts(held[AtUnit(p)], g, held'[AtUnit(p)])
  <2>1. Parts(a, g, r)
    BY <1>7, ConcatParts, Zenon
  <2> QED BY <1>3, <1>21, <2>1, HeldIs, HeldIsPrime, Zenon
<1>23. Kept({AtUnit(p), AtWriteBackWire})
  <2>1. /\ preceding_dispatch_inst_in # d /\ write_back_rob_finish_in # d
        /\ \A q \in Pipe : preceding_reservation_inst_in(q) # d /\ preceding_func_inst_in(q) # d
    BY <1>8, <1>13, LatePortsAre, LinkPortHas, Zenon
  <2>2. /\ OnTheWay(preceding_dispatch_inst_in)' = OnTheWay(preceding_dispatch_inst_in)
        /\ OnTheWay(write_back_rob_finish_in)' = OnTheWay(write_back_rob_finish_in)
        /\ \A q \in Pipe : OnTheWay(preceding_reservation_inst_in(q))' = OnTheWay(preceding_reservation_inst_in(q))
        /\ \A q \in Pipe : OnTheWay(preceding_func_inst_in(q))' = OnTheWay(preceding_func_inst_in(q))
    BY <1>18, <2>1, WorkPortHas, Zenon
  <2>3. \A q \in Pipe : \/ AtUnit(q) \in {AtUnit(p), AtWriteBackWire}
                        \/ alu_queue'[q] = alu_queue[q]
    BY <1>21, Zenon
  <2> QED BY <1>10, <1>14, <2>2, <2>3, Zenon DEF Kept
<1> QED BY <1>18, <1>20, <1>22, <1>23, PlacesDiffer, GroupFate, Zenon

\* The write back stage takes the instructions of a function unit.
LEMMA AcceptFuncInstFate ==
  ASSUME FateInv, AcceptFuncInst_,
         UNCHANGED <<fetch_credit, renamingVars, rob, dispatchVars, rsVars>>
  PROVE  FateInv'
<1>1. CreditInv' /\ CreditInv /\ LateWires
  BY AcceptFuncInstStep, Zenon DEF FateInv
<1>2. PICK I : I = DOMAIN inst
  OBVIOUS
<1>3. PICK d : d = preceding_write_back_inst_in
  OBVIOUS
<1>4. PICK pair : pair = Message(d)
  OBVIOUS
<1>5. /\ Ready(d) /\ Fire(d, {arbitrate_inst_event}, {}, Nothing)
      /\ inst_queue_map' = [inst_queue_map EXCEPT ![pair.name] = @ \o pair.inst_group]
      /\ inst' = inst /\ alu_queue' = alu_queue
  BY <1>3, <1>4, Zenon DEF AcceptFuncInst_
<1>6. Events({arbitrate_inst_event}, {})
  BY DEF Events, UniqueEvent
<1>7. d \in LatePort /\ d \in WorkPort /\ d # write_back_rob_finish_in
  BY <1>3, LatePortsAre, WorkPortHas, Zenon
<1>8. DOMAIN inst' = DOMAIN inst /\ SameTags /\ More
  BY <1>5, Zenon DEF SameTags, More
<1>9. \A mail \in Nothing : FALSE
  BY NotWork, Zenon
<1>10. PICK w \in Seq(WriteBackGroup(I)) :
         /\ w = OnTheWay(d) /\ w # << >> /\ pair = Head(w)
         /\ OnTheWay(d)' = Tail(w) \o Sent(Nothing, d)
  <2>1. LateMessage(d, DOMAIN inst') = WriteBackGroup(I)
    BY <1>2, <1>7, <1>8, Zenon DEF LateMessage
  <2>2. \A mail \in Nothing : mail[1] \in LatePort =>
            mail[2] \in Seq(LateMessage(mail[1], DOMAIN inst'))
    BY <1>9, Zenon
  <2>3. /\ OnTheWay(d) \in Seq(LateMessage(d, DOMAIN inst'))
        /\ OnTheWay(d)' = (IF d = d THEN Tail(OnTheWay(d)) ELSE OnTheWay(d)) \o Sent(Nothing, d)
        /\ d = d => OnTheWay(d) # << >> /\ Message(d) = Head(OnTheWay(d))
    BY <1>1, <1>5, <1>6, <1>7, <1>8, <2>2, LateStep
  <2> QED BY <1>4, <2>1, <2>3, Zenon
<1>11. PICK ss \in Seq(Seq(I)) : ss = GroupsOf(w)
  BY GroupsOfMore
<1>12. /\ ss # << >> /\ pair \in WriteBackGroup(I)
       /\ Head(ss) = pair.inst_group /\ GroupsOf(Tail(w)) = Tail(ss)
  BY <1>10, <1>11, GroupsOfMore, Zenon
<1>13. PICK p \in Pipe, g \in Seq(I) : p = pair.name /\ g = pair.inst_group
  BY <1>12 DEF WriteBackGroup
<1>14. PICK m \in [Pipe -> Seq(I)] : m = inst_queue_map
  BY <1>2, Zenon DEF FateInv, LateQueues
<1>15. PICK v \in Seq(I) : v = m[p] \o g
  <2>1. m[p] \in Seq(I)
    OBVIOUS
  <2>2. m[p] \o g \in Seq(I)
    BY <2>1, ConcatFacts
  <2> QED BY <2>2
<1>16. inst_queue_map' = [m EXCEPT ![p] = v]
  BY <1>5, <1>13, <1>14, <1>15, Zenon
<1>17. LateQueues' /\ inst_queue_map'[p] = v /\ \A q \in Pipe : q # p => inst_queue_map'[q] = m[q]
  BY <1>2, <1>8, <1>14, <1>16 DEF LateQueues
<1>18. UNCHANGED <<rob, renaming_stage_queue, inst_queue, dispatch_pending_queue, reservation_station>>
  BY Zenon DEF renamingVars, dispatchVars, rsVars
<1>19. RestKept /\ \A q \in WorkPort : q # d => OnTheWay(q)' = OnTheWay(q)
  <2>1. rob' = rob /\ renaming_stage_queue' = renaming_stage_queue
    BY <1>18, Zenon
  <2>2. LateQueues' /\ DOMAIN inst' = DOMAIN inst /\ SameTags
    BY <1>8, <1>17, Zenon
  <2>3. /\ d \notin FirstPort
        /\ \A mail \in Nothing : mail[1] \notin FirstPort \cup {preceding_dispatch_inst_in}
        /\ \A mail \in Nothing : mail[1] \in LatePort =>
             mail[2] \in Seq(LateMessage(mail[1], DOMAIN inst'))
    BY <1>7, <1>9, LatePortsAre, LinkPortHas, Zenon DEF FirstPort
  <2>4. RestKept /\ \A q \in WorkPort :
            q # d /\ (\A mail \in Nothing : mail[1] # q) => OnTheWay(q)' = OnTheWay(q)
    <3>1. LeavesRest(d, {arbitrate_inst_event}, {}, Nothing)
      BY <1>5, <1>6, <2>1, <2>2, <2>3, Zenon DEF LeavesRest
    <3> QED BY <1>1, <3>1, RestOf, Zenon
  <2> QED BY <1>9, <2>4, Zenon
<1>20. Parts(held[AtWriteBackWire], g, held'[AtWriteBackWire])
  <2>1. OnTheWay(d)' = Tail(w)
    <3>1. Sent(Nothing, d) = << >>
      BY <1>9, Zenon DEF Sent
    <3>2. PICK x : x = Tail(w)
      OBVIOUS
    <3>3. x \in Seq(WriteBackGroup(I))
      BY <1>10, <3>2
    <3>4. x \o << >> = x
      BY <3>3, EmptyConcat
    <3> QED BY <1>10, <3>1, <3>2, <3>4, Zenon
  <2>2. WriteBackGroups = ss /\ WriteBackGroups' = Tail(ss)
    BY <1>3, <1>10, <1>11, <1>12, <2>1, Zenon DEF WriteBackGroups
  <2>3. PICK j, k : j = Joined(ss) /\ k = Joined(Tail(ss))
    OBVIOUS
  <2>4. k \in Seq(I) /\ j = g \o k
    BY <1>12, <1>13, <2>3, JoinedHead, Zenon
  <2>5. Parts(j, g, k)
    BY <2>4, ConcatParts, Zenon
  <2> QED BY <2>2, <2>3, <2>5, HeldIs, HeldIsPrime, Zenon
<1>21. Parts(held'[AtWriteBack(p)], held[AtWriteBack(p)], g)
  <2>1. PICK a \in Seq(I) : a = m[p]
    OBVIOUS
  <2>2. Parts(v, a, g)
    BY <1>15, <2>1, ConcatParts, Zenon
  <2> QED BY <1>14, <1>17, <2>1, <2>2, HeldIs, HeldIsPrime, Zenon
<1>22. Kept({AtWriteBackWire, AtWriteBack(p)})
  <2>1. /\ preceding_dispatch_inst_in # d /\ write_back_rob_finish_in # d
        /\ \A q \in Pipe : preceding_reservation_inst_in(q) # d /\ preceding_func_inst_in(q) # d
    BY <1>7, LatePortsAre, LinkPortHas, Zenon
  <2>2. /\ OnTheWay(preceding_dispatch_inst_in)' = OnTheWay(preceding_dispatch_inst_in)
        /\ OnTheWay(write_back_rob_finish_in)' = OnTheWay(write_back_rob_finish_in)
        /\ \A q \in Pipe : OnTheWay(preceding_reservation_inst_in(q))' = OnTheWay(preceding_reservation_inst_in(q))
        /\ \A q \in Pipe : OnTheWay(preceding_func_inst_in(q))' = OnTheWay(preceding_func_inst_in(q))
    BY <1>19, <2>1, WorkPortHas, Zenon
  <2>3. \A q \in Pipe : \/ AtWriteBack(q) \in {AtWriteBackWire, AtWriteBack(p)}
                        \/ inst_queue_map'[q] = inst_queue_map[q]
    BY <1>14, <1>17, Zenon
  <2> QED BY <1>5, <1>18, <2>2, <2>3, Zenon DEF Kept
<1> QED BY <1>19, <1>20, <1>21, <1>22, PlacesDiffer, GroupFate, Zenon

-----------------------------------------------------------------------------
(* Many groups move at once, one for each pipe.                            *)

\* The group has what the groups of the pipes have.
Among(group, grp) ==
    \A i : /\ Absent(i, group) <=> AbsentAmong(i, grp, PipeNum)
           /\ Single(i, group) <=> SingleAmong(i, grp, PipeNum)

\* In terms of the pipes.
LEMMA AmongPipes ==
  ASSUME NEW grp, NEW group, Among(group, grp), NEW i
  PROVE  /\ Absent(i, group) <=> \A p \in Pipe : Absent(i, grp[p])
         /\ Single(i, group) <=>
               \E p \in Pipe : Single(i, grp[p]) /\ \A q \in Pipe : q # p => Absent(i, grp[q])
BY DEF Among, AbsentAmong, SingleAmong, Pipe

\* A group from each x[p], to the same place y.
LEMMA ManyToOne ==
  ASSUME NEW h, NEW g, NEW x \in [Pipe -> Place], NEW y \in Place,
         \A p \in Pipe : x[p] # y, \A p, q \in Pipe : p # q => x[p] # x[q],
         NEW grp, NEW group, Among(group, grp),
         \A p \in Pipe : Parts(h[x[p]], grp[p], g[x[p]]), Parts(g[y], h[y], group),
         \A z \in Place : z # y /\ (\A p \in Pipe : z # x[p]) => g[z] = h[z], NEW i
  PROVE  /\ Moves(i, h, g)
         /\ y \notin EarlyPlace /\ (\A p \in Pipe : x[p] \notin EarlyPlace) => StaysEarly(i, h, g)
<1>1. \A p \in Pipe : /\ x[p] \in Place
                      /\ Absent(i, h[x[p]]) => Absent(i, grp[p]) /\ Absent(i, g[x[p]])
                      /\ Single(i, h[x[p]]) => \/ Single(i, grp[p]) /\ Absent(i, g[x[p]])
                                               \/ Absent(i, grp[p]) /\ Single(i, g[x[p]])
  BY DEF Parts
<1>2. /\ Absent(i, h[y]) /\ Absent(i, group) => Absent(i, g[y])
      /\ Absent(i, h[y]) /\ Single(i, group) => Single(i, g[y])
      /\ Single(i, h[y]) /\ Absent(i, group) => Single(i, g[y])
  BY DEF Parts
<1>3. /\ (\A p \in Pipe : Absent(i, grp[p])) => Absent(i, group)
      /\ \A p \in Pipe : Single(i, grp[p]) /\ (\A q \in Pipe : q # p => Absent(i, grp[q]))
                            => Single(i, group)
  BY AmongPipes, Zenon
<1>4. Nowhere(i, h) => Nowhere(i, g)
  <2> SUFFICES ASSUME Nowhere(i, h), NEW z \in Place PROVE Absent(i, g[z])
    BY Zenon DEF Nowhere
  <2>1. \A v \in Place : Absent(i, h[v])
    BY Zenon DEF Nowhere
  <2>2. \A p \in Pipe : Absent(i, grp[p]) /\ Absent(i, g[x[p]])
    BY <1>1, <2>1, Zenon
  <2>3. Absent(i, g[y])
    BY <1>2, <1>3, <2>1, <2>2, Zenon
  <2> QED BY <2>1, <2>2, <2>3, Zenon
<1>5. ASSUME NEW p \in Pipe, IsAt(i, x[p], h) PROVE IsAt(i, x[p], g) \/ IsAt(i, y, g)
  <2>1. Single(i, h[x[p]]) /\ \A v \in Place : v # x[p] => Absent(i, h[v])
    BY <1>5, Zenon DEF IsAt
  <2>2. \A q \in Pipe : q # p => Absent(i, grp[q]) /\ Absent(i, g[x[q]])
    BY <1>1, <2>1, Zenon
  <2>3. \A z \in Place : z # y /\ z # x[p] => Absent(i, g[z])
    BY <2>1, <2>2, Zenon
  <2>4. Absent(i, h[y])
    BY <2>1, Zenon
  <2>5. CASE Single(i, grp[p]) /\ Absent(i, g[x[p]])
    <3>1. Single(i, g[y])
      BY <1>2, <1>3, <2>2, <2>4, <2>5, Zenon
    <3> QED BY <2>3, <2>5, <3>1, Zenon DEF IsAt
  <2>6. CASE Absent(i, grp[p]) /\ Single(i, g[x[p]])
    <3>1. Absent(i, g[y])
      BY <1>2, <1>3, <2>2, <2>4, <2>6, Zenon
    <3> QED BY <2>3, <2>6, <3>1, Zenon DEF IsAt
  <2> QED BY <1>1, <2>1, <2>5, <2>6, Zenon
<1>6. ASSUME NEW z \in Place, \A p \in Pipe : z # x[p], IsAt(i, z, h) PROVE IsAt(i, z, g)
  <2>1. Single(i, h[z]) /\ \A v \in Place : v # z => Absent(i, h[v])
    BY <1>6, Zenon DEF IsAt
  <2>2. \A p \in Pipe : Absent(i, grp[p]) /\ Absent(i, g[x[p]])
    BY <1>1, <1>6, <2>1, Zenon
  <2>3. Absent(i, group)
    BY <1>3, <2>2, Zenon
  <2>4. \A v \in Place : v # z /\ v # y => Absent(i, g[v])
    BY <2>1, <2>2, Zenon
  <2>5. CASE z = y
    BY <1>2, <2>1, <2>3, <2>4, <2>5, Zenon DEF IsAt
  <2>6. CASE z # y
    <3>1. Absent(i, g[y]) /\ g[z] = h[z]
      BY <1>2, <1>6, <2>1, <2>3, <2>6, Zenon
    <3> QED BY <2>1, <2>4, <3>1, Zenon DEF IsAt
  <2> QED BY <2>5, <2>6
<1>7. Moves(i, h, g)
  <2>1. ASSUME NEW z \in Place, IsAt(i, z, h) PROVE \E v \in Place : IsAt(i, v, g)
    BY <1>1, <1>5, <1>6, <2>1, Zenon
  <2> QED BY <1>4, <2>1, Zenon DEF Moves
<1>8. \A z \in EarlyPlace : z \in Place
  BY DEF EarlyPlace, Place
<1>9. ASSUME y \notin EarlyPlace, \A p \in Pipe : x[p] \notin EarlyPlace PROVE StaysEarly(i, h, g)
  BY <1>6, <1>8, <1>9, Zenon DEF StaysEarly
<1> QED BY <1>7, <1>9

\* A group from x to each y[p].
LEMMA OneToMany ==
  ASSUME NEW h, NEW g, NEW x \in Place, NEW y \in [Pipe -> Place],
         \A p \in Pipe : y[p] # x, \A p, q \in Pipe : p # q => y[p] # y[q],
         NEW grp, NEW group, Among(group, grp),
         \A p \in Pipe : Parts(g[y[p]], h[y[p]], grp[p]), Parts(h[x], group, g[x]),
         \A z \in Place : z # x /\ (\A p \in Pipe : z # y[p]) => g[z] = h[z], NEW i
  PROVE  /\ Moves(i, h, g)
         /\ (\A p \in Pipe : y[p] \in EarlyPlace) => StaysEarly(i, h, g)
<1>1. \A p \in Pipe : /\ y[p] \in Place
                      /\ Absent(i, h[y[p]]) /\ Absent(i, grp[p]) => Absent(i, g[y[p]])
                      /\ Absent(i, h[y[p]]) /\ Single(i, grp[p]) => Single(i, g[y[p]])
                      /\ Single(i, h[y[p]]) /\ Absent(i, grp[p]) => Single(i, g[y[p]])
  BY DEF Parts
<1>2. /\ Absent(i, h[x]) => Absent(i, group) /\ Absent(i, g[x])
      /\ Single(i, h[x]) => \/ Single(i, group) /\ Absent(i, g[x])
                            \/ Absent(i, group) /\ Single(i, g[x])
  BY DEF Parts
<1>3. /\ Absent(i, group) => \A p \in Pipe : Absent(i, grp[p])
      /\ Single(i, group) =>
            \E p \in Pipe : Single(i, grp[p]) /\ \A q \in Pipe : q # p => Absent(i, grp[q])
  BY AmongPipes, Zenon
<1>4. Nowhere(i, h) => Nowhere(i, g)
  <2> SUFFICES ASSUME Nowhere(i, h), NEW z \in Place PROVE Absent(i, g[z])
    BY Zenon DEF Nowhere
  <2>1. \A v \in Place : Absent(i, h[v])
    BY Zenon DEF Nowhere
  <2>2. Absent(i, g[x]) /\ \A p \in Pipe : Absent(i, grp[p])
    BY <1>2, <1>3, <2>1, Zenon
  <2>3. \A p \in Pipe : Absent(i, g[y[p]])
    BY <1>1, <2>1, <2>2, Zenon
  <2> QED BY <2>1, <2>2, <2>3, Zenon
<1>5. ASSUME IsAt(i, x, h) PROVE IsAt(i, x, g) \/ \E p \in Pipe : IsAt(i, y[p], g)
  <2>1. Single(i, h[x]) /\ \A v \in Place : v # x => Absent(i, h[v])
    BY <1>5, Zenon DEF IsAt
  <2>2. \A p \in Pipe : Absent(i, h[y[p]])
    BY <1>1, <2>1, Zenon
  <2>3. CASE Single(i, group) /\ Absent(i, g[x])
    <3>1. PICK p \in Pipe : Single(i, grp[p]) /\ \A q \in Pipe : q # p => Absent(i, grp[q])
      BY <1>3, <2>3, Zenon
    <3>2. Single(i, g[y[p]]) /\ \A q \in Pipe : q # p => Absent(i, g[y[q]])
      BY <1>1, <2>2, <3>1, Zenon
    <3>3. \A v \in Place : v # y[p] => Absent(i, g[v])
      BY <2>1, <2>3, <3>2, Zenon
    <3> QED BY <3>2, <3>3, Zenon DEF IsAt
  <2>4. CASE Absent(i, group) /\ Single(i, g[x])
    <3>1. \A p \in Pipe : Absent(i, g[y[p]])
      BY <1>1, <1>3, <2>2, <2>4, Zenon
    <3>2. \A v \in Place : v # x => Absent(i, g[v])
      BY <2>1, <3>1, Zenon
    <3> QED BY <2>4, <3>2, Zenon DEF IsAt
  <2> QED BY <1>2, <2>1, <2>3, <2>4, Zenon
<1>6. ASSUME NEW z \in Place, z # x, IsAt(i, z, h) PROVE IsAt(i, z, g)
  <2>1. Single(i, h[z]) /\ \A v \in Place : v # z => Absent(i, h[v])
    BY <1>6, Zenon DEF IsAt
  <2>2. Absent(i, g[x]) /\ \A p \in Pipe : Absent(i, grp[p])
    BY <1>2, <1>3, <1>6, <2>1, Zenon
  <2>3. \A p \in Pipe : y[p] # z => Absent(i, g[y[p]])
    BY <1>1, <2>1, <2>2, Zenon
  <2>4. \A v \in Place : v # z => Absent(i, g[v])
    BY <2>1, <2>2, <2>3, Zenon
  <2>5. Single(i, g[z])
    <3>1. CASE \E p \in Pipe : z = y[p]
      BY <1>1, <2>1, <2>2, <3>1, Zenon
    <3>2. CASE ~ \E p \in Pipe : z = y[p]
      BY <1>6, <2>1, <3>2, Zenon
    <3> QED BY <3>1, <3>2
  <2> QED BY <2>4, <2>5, Zenon DEF IsAt
<1>7. Moves(i, h, g)
  <2>1. ASSUME NEW z \in Place, IsAt(i, z, h) PROVE \E v \in Place : IsAt(i, v, g)
    BY <1>1, <1>5, <1>6, <2>1, Zenon
  <2> QED BY <1>4, <2>1, Zenon DEF Moves
<1>8. \A z \in EarlyPlace : z \in Place
  BY DEF EarlyPlace, Place
<1>9. ASSUME \A p \in Pipe : y[p] \in EarlyPlace PROVE StaysEarly(i, h, g)
  BY <1>5, <1>6, <1>8, <1>9, Zenon DEF StaysEarly
<1> QED BY <1>7, <1>9

\* All of each x[p] goes to its y[p].
Swept(h, g, x, y) ==
    /\ \A p, q \in Pipe : x[p] # y[q]
    /\ \A p, q \in Pipe : p # q => x[p] # x[q] /\ y[p] # y[q]
    /\ \A p \in Pipe : Parts(g[y[p]], h[y[p]], h[x[p]]) /\ g[x[p]] = << >>
    /\ \A z \in Place : (\A p \in Pipe : z # x[p] /\ z # y[p]) => g[z] = h[z]

\* Then an instruction moves from one place to another, or stays.
LEMMA ManyToMany ==
  ASSUME NEW h, NEW g, NEW x \in [Pipe -> Place], NEW y \in [Pipe -> Place],
         Swept(h, g, x, y), NEW i
  PROVE  /\ Moves(i, h, g)
         /\ \A z \in Place : (\A p \in Pipe : z # x[p]) /\ IsAt(i, z, h) => IsAt(i, z, g)
<1>10. /\ \A p, q \in Pipe : x[p] # y[q]
       /\ \A p, q \in Pipe : p # q => x[p] # x[q] /\ y[p] # y[q]
       /\ \A p \in Pipe : Parts(g[y[p]], h[y[p]], h[x[p]]) /\ g[x[p]] = << >>
       /\ \A z \in Place : (\A p \in Pipe : z # x[p] /\ z # y[p]) => g[z] = h[z]
  BY Zenon DEF Swept
<1>1. \A p \in Pipe : /\ x[p] \in Place /\ y[p] \in Place /\ Absent(i, g[x[p]])
                      /\ Absent(i, h[y[p]]) /\ Absent(i, h[x[p]]) => Absent(i, g[y[p]])
                      /\ Absent(i, h[y[p]]) /\ Single(i, h[x[p]]) => Single(i, g[y[p]])
                      /\ Single(i, h[y[p]]) /\ Absent(i, h[x[p]]) => Single(i, g[y[p]])
  BY <1>10, EmptyAbsent DEF Parts
<1>2. Nowhere(i, h) => Nowhere(i, g)
  <2> SUFFICES ASSUME Nowhere(i, h), NEW z \in Place PROVE Absent(i, g[z])
    BY Zenon DEF Nowhere
  <2>1. \A v \in Place : Absent(i, h[v])
    BY Zenon DEF Nowhere
  <2>2. \A p \in Pipe : Absent(i, g[x[p]]) /\ Absent(i, g[y[p]])
    BY <1>1, <1>10, <2>1, Zenon
  <2> QED BY <1>10, <2>1, <2>2, Zenon
<1>3. ASSUME NEW p \in Pipe, IsAt(i, x[p], h) PROVE IsAt(i, y[p], g)
  <2>1. Single(i, h[x[p]]) /\ \A v \in Place : v # x[p] => Absent(i, h[v])
    BY <1>3, Zenon DEF IsAt
  <2>2. Single(i, g[y[p]]) /\ \A q \in Pipe : q # p => Absent(i, g[y[q]])
    BY <1>1, <1>10, <2>1, Zenon
  <2>3. \A v \in Place : v # y[p] => Absent(i, g[v])
    BY <1>1, <1>10, <2>1, <2>2, Zenon
  <2> QED BY <2>2, <2>3, Zenon DEF IsAt
<1>4. ASSUME NEW z \in Place, \A p \in Pipe : z # x[p], IsAt(i, z, h) PROVE IsAt(i, z, g)
  <2>1. Single(i, h[z]) /\ \A v \in Place : v # z => Absent(i, h[v])
    BY <1>4, Zenon DEF IsAt
  <2>2. \A p \in Pipe : Absent(i, h[x[p]])
    BY <1>1, <1>10, <1>4, <2>1, Zenon
  <2>3. \A p \in Pipe : y[p] # z => Absent(i, g[y[p]])
    BY <1>1, <1>10, <2>1, <2>2, Zenon
  <2>4. ASSUME NEW v \in Place, v # z PROVE Absent(i, g[v])
    <3>1. ASSUME NEW p \in Pipe, v = x[p] PROVE Absent(i, g[v])
      BY <1>1, <1>10, <3>1, Zenon
    <3>2. ASSUME NEW p \in Pipe, v = y[p] PROVE Absent(i, g[v])
      BY <2>3, <2>4, <3>2, Zenon
    <3>3. CASE \A p \in Pipe : v # x[p] /\ v # y[p]
      <4>1. g[v] = h[v]
        BY <1>10, <3>3, Zenon
      <4> QED BY <2>1, <2>4, <4>1, Zenon
    <3> QED BY <3>1, <3>2, <3>3, Zenon
  <2>5. Single(i, g[z])
    <3>1. CASE \E p \in Pipe : z = y[p]
      BY <1>1, <1>10, <2>1, <2>2, <3>1, Zenon
    <3>2. CASE ~ \E p \in Pipe : z = y[p]
      BY <1>4, <1>10, <2>1, <3>2, Zenon
    <3> QED BY <3>1, <3>2
  <2> QED BY <2>4, <2>5, Zenon DEF IsAt
<1>5. Moves(i, h, g)
  <2>1. ASSUME NEW z \in Place, IsAt(i, z, h) PROVE \E v \in Place : IsAt(i, v, g)
    <3>1. ASSUME NEW p \in Pipe, z = x[p] PROVE \E v \in Place : IsAt(i, v, g)
      <4>1. IsAt(i, x[p], h) /\ y[p] \in Place
        BY <1>1, <1>10, <2>1, <3>1, Zenon
      <4> QED BY <1>3, <4>1, Zenon
    <3>2. CASE \A p \in Pipe : z # x[p]
      BY <1>4, <1>10, <2>1, <3>2, Zenon
    <3> QED BY <3>1, <3>2, Zenon
  <2> QED BY <1>2, <2>1, Zenon DEF Moves
<1> QED BY <1>4, <1>5, Zenon

\* A group is sent on a wire that carries groups, or nothing is.
LEMMA SentOver ==
  ASSUME NEW I, NEW w \in Seq(Seq(I)), NEW v, NEW g \in Seq(I),
         \/ v = w \o <<g>>
         \/ g = << >> /\ v = w
  PROVE  Parts(Joined(v), Joined(w), g)
<1>1. PICK a \in Seq(I) : a = Joined(w)
  BY JoinedIsSeq
<1>2. Joined(v) = a \o g
  <2>1. CASE v = w \o <<g>>
    BY <1>1, <2>1, JoinedAppend
  <2>2. CASE g = << >> /\ v = w
    <3>1. a \o << >> = a
      BY EmptyConcat
    <3> QED BY <1>1, <2>2, <3>1, Zenon
  <2> QED BY <2>1, <2>2
<1> QED BY <1>1, <1>2, ConcatParts, Zenon

\* How many instructions the units have given, one after the other.
Taking(taken, m) ==
    /\ taken[0] = 0
    /\ \A p \in Pipe : taken[p] = Min({WbWidth, taken[p - 1] + Len(m[p])})

ConsumedOf(taken, p) == taken[p] - taken[p - 1]

\* Each gives what it has, at most.
LEMMA TakingIs ==
  ASSUME NEW S, NEW m \in [Pipe -> Seq(S)], NEW taken, Taking(taken, m)
  PROVE  \A p \in Pipe : ConsumedOf(taken, p) \in Nat /\ ConsumedOf(taken, p) <= Len(m[p])
<1>1. WbWidth \in Nat
  BY SizesAssumption
<1> DEFINE T == {n \in Nat : n <= PipeNum => taken[n] \in Nat /\ taken[n] <= WbWidth}
<1>2. 0 \in T
  BY <1>1 DEF Taking
<1>3. ASSUME NEW p \in Pipe, NEW k \in Nat, k = taken[p - 1], k <= WbWidth
      PROVE  /\ taken[p] \in Nat /\ k <= taken[p] /\ taken[p] <= WbWidth
             /\ taken[p] <= k + Len(m[p])
  <2>1. PICK l \in Nat : l = Len(m[p])
    OBVIOUS
  <2>2. taken[p] = Min({WbWidth, k + l})
    BY <1>3, <2>1 DEF Taking
  <2>4. PICK a \in Int, b \in Int : a = WbWidth /\ b = k + l
    BY <1>1
  <2>5. Min({a, b}) \in {a, b} /\ Min({a, b}) <= a /\ Min({a, b}) <= b
    BY MinOfTwo
  <2>3. /\ Min({WbWidth, k + l}) \in {WbWidth, k + l}
        /\ Min({WbWidth, k + l}) <= WbWidth /\ Min({WbWidth, k + l}) <= k + l
    BY <2>4, <2>5
  <2> QED BY <1>1, <1>3, <2>1, <2>2, <2>3
<1>4. ASSUME NEW n \in Nat, n \in T PROVE n + 1 \in T
  <2> SUFFICES ASSUME n + 1 <= PipeNum PROVE taken[n + 1] \in Nat /\ taken[n + 1] <= WbWidth
    OBVIOUS
  <2>1. n + 1 \in Pipe /\ (n + 1) - 1 = n /\ n <= PipeNum
    BY PipeNumAssumption DEF Pipe
  <2>2. taken[n] \in Nat /\ taken[n] <= WbWidth
    BY <1>4, <2>1
  <2> QED BY <1>3, <2>1, <2>2
<1> HIDE DEF T
<1>5. \A n \in Nat : n \in T
  BY <1>2, <1>4, NatSetInduction
<1>6. ASSUME NEW p \in Pipe
      PROVE  ConsumedOf(taken, p) \in Nat /\ ConsumedOf(taken, p) <= Len(m[p])
  <2>1. p - 1 \in Nat /\ p - 1 <= PipeNum
    BY PipeNumAssumption DEF Pipe
  <2>2. taken[p - 1] \in Nat /\ taken[p - 1] <= WbWidth
    BY <1>5, <2>1 DEF T
  <2>3. /\ taken[p] \in Nat /\ taken[p - 1] <= taken[p]
        /\ taken[p] <= taken[p - 1] + Len(m[p])
    BY <1>3, <2>2
  <2> QED BY <2>2, <2>3 DEF ConsumedOf
<1> QED BY <1>6

\* What ArbitrateInst_ counts.
LEMMA TakingUnfolds ==
  ASSUME NEW S, NEW m \in [Pipe -> Seq(S)], NEW taken,
         taken = CHOOSE f : f = [p \in 0 .. PipeNum |->
                    IF p = 0 THEN 0 ELSE Min({WbWidth, f[p - 1] + Len(m[p])})]
  PROVE  Taking(taken, m)
<1> DEFINE cat == [ab \in Nat \X Nat |-> Min({WbWidth, ab[1] + ab[2]})]
           w == [p \in 1 .. PipeNum |-> Len(m[p])]
           Turns(f) == f = [p \in 0 .. PipeNum |->
                             IF p = 0 THEN 0 ELSE Min({WbWidth, f[p - 1] + Len(m[p])})]
<1>1. cat \in [Nat \X Nat -> Nat] /\ \A a, b \in Nat : cat[<<a, b>>] = Min({WbWidth, a + b})
  <2>1. ASSUME NEW a \in Nat, NEW b \in Nat PROVE Min({WbWidth, a + b}) \in Nat
    <3>1. PICK x \in Int, y \in Int : x = WbWidth /\ y = a + b /\ x \in Nat /\ y \in Nat
      BY SizesAssumption
    <3>2. Min({x, y}) \in {x, y}
      BY MinOfTwo
    <3> QED BY <3>1, <3>2
  <2> QED BY <2>1
<1>2. w \in [1 .. PipeNum -> Nat] /\ PipeNum \in Nat
  <2>1. \A p \in 1 .. PipeNum : Len(m[p]) \in Nat
    BY DEF Pipe
  <2> QED BY <2>1, PipeNumAssumption
<1>3. \A p \in 1 .. PipeNum : w[p] = Len(m[p])
  OBVIOUS
<1> HIDE DEF cat, w
<1>4. PICK u \in [0 .. PipeNum -> Nat] : Folds(PipeNum, 0, cat, w, u)
  BY <1>1, <1>2, FoldExists
<1>5. Turns(u)
  <2>1. ASSUME NEW p \in 0 .. PipeNum
        PROVE  u[p] = IF p = 0 THEN 0 ELSE Min({WbWidth, u[p - 1] + Len(m[p])})
    <3>1. CASE p = 0
      BY <1>4, <3>1 DEF Folds
    <3>2. CASE p # 0
      <4>1. p \in 1 .. PipeNum /\ u[p - 1] \in Nat
        BY <1>2, <1>4, <3>2
      <4>2. u[p] = cat[<<u[p - 1], w[p]>>]
        BY <1>4, <4>1 DEF Folds
      <4>3. w[p] \in Nat
        BY <1>2, <4>1
      <4> QED BY <1>1, <1>3, <3>2, <4>1, <4>2, <4>3
    <3> QED BY <3>1, <3>2
  <2> QED BY <1>4, <2>1
<1>6. Turns(taken)
  <2>1. taken = CHOOSE f : Turns(f)
    OBVIOUS
  <2> HIDE DEF Turns
  <2> QED BY <1>5, <2>1, Zenon
<1>7. \A p \in 0 .. PipeNum :
        taken[p] = IF p = 0 THEN 0 ELSE Min({WbWidth, taken[p - 1] + Len(m[p])})
  BY <1>6, Zenon
<1>8. 0 \in 0 .. PipeNum /\ \A p \in Pipe : p \in 0 .. PipeNum /\ p # 0
  BY <1>2 DEF Pipe
<1> QED BY <1>7, <1>8, Zenon DEF Taking

\* What the units give.
GivenBy(m, taken) == [p \in Pipe |-> SubSeq(m[p], 1, ConsumedOf(taken, p))]

\* ... is what ArbitrateInst_ joins.
LEMMA GroupsUnfold ==
  ASSUME NEW S, NEW m \in [Pipe -> Seq(S)], NEW taken, Taking(taken, m), NEW groups,
         groups = CHOOSE f : f = [p \in 0 .. PipeNum |->
                     IF p = 0 THEN << >> ELSE f[p - 1] \o SubSeq(m[p], 1, ConsumedOf(taken, p))]
  PROVE  GivenBy(m, taken) \in Seq(Seq(S)) /\ groups[PipeNum] = Joined(GivenBy(m, taken))
<1>1. PICK ss : ss = GivenBy(m, taken)
  OBVIOUS
<1>2. PipeNum \in Nat
  BY PipeNumAssumption
<1>3. PICK Q : Q = Seq(S)
  OBVIOUS
<1>4. \A p \in Pipe : SubSeq(m[p], 1, ConsumedOf(taken, p)) \in Q
  <2>1. ASSUME NEW p \in Pipe PROVE SubSeq(m[p], 1, ConsumedOf(taken, p)) \in Seq(S)
    <3>1. m[p] \in Seq(S)
      OBVIOUS
    <3>2. ConsumedOf(taken, p) \in Nat /\ ConsumedOf(taken, p) <= Len(m[p])
      BY TakingIs
    <3>3. Splits(S, m[p], ConsumedOf(taken, p))
      BY <3>1, <3>2, SplitIs
    <3> QED BY <3>3, Zenon DEF Splits
  <2> QED BY <1>3, <2>1
<1>5. ss \in Seq(Q) /\ Len(ss) = PipeNum
      /\ \A p \in 1 .. PipeNum : ss[p] = SubSeq(m[p], 1, ConsumedOf(taken, p))
  <2>1. PICK v : v = [p \in Pipe |-> SubSeq(m[p], 1, ConsumedOf(taken, p))]
    OBVIOUS
  <2>2. /\ DOMAIN v = Pipe /\ v = [p \in Pipe |-> v[p]]
        /\ \A p \in Pipe : v[p] = SubSeq(m[p], 1, ConsumedOf(taken, p))
    BY <2>1
  <2>3. \A p \in Pipe : v[p] \in Q
    BY <1>4, <2>2
  <2>4. DOMAIN v = 1 .. PipeNum /\ v = [p \in 1 .. PipeNum |-> v[p]]
        /\ \A p \in 1 .. PipeNum : v[p] \in Q
    BY <2>2, <2>3, Zenon DEF Pipe
  <2>5. v \in Seq(Q) /\ Len(v) = PipeNum
    BY <1>2, <2>4
  <2>6. ss = v
    BY <1>1, <2>1, Zenon DEF GivenBy
  <2> QED BY <2>2, <2>5, <2>6, Zenon DEF Pipe
<1> DEFINE One(f) == f = [p \in 0 .. PipeNum |->
                     IF p = 0 THEN << >> ELSE f[p - 1] \o SubSeq(m[p], 1, ConsumedOf(taken, p))]
           Two(f) == f = [p \in 0 .. PipeNum |-> IF p = 0 THEN << >> ELSE f[p - 1] \o ss[p]]
<1>6. \A f : One(f) <=> Two(f)
  <2>1. ASSUME NEW f
        PROVE  [p \in 0 .. PipeNum |->
                  IF p = 0 THEN << >> ELSE f[p - 1] \o SubSeq(m[p], 1, ConsumedOf(taken, p))]
               = [p \in 0 .. PipeNum |-> IF p = 0 THEN << >> ELSE f[p - 1] \o ss[p]]
    <3>1. \A p \in 0 .. PipeNum : p # 0 => ss[p] = SubSeq(m[p], 1, ConsumedOf(taken, p))
      BY <1>2, <1>5
    <3>2. ASSUME NEW p \in 0 .. PipeNum
          PROVE  (IF p = 0 THEN << >> ELSE f[p - 1] \o SubSeq(m[p], 1, ConsumedOf(taken, p)))
                 = (IF p = 0 THEN << >> ELSE f[p - 1] \o ss[p])
      BY <3>1, Zenon
    <3> QED BY <3>2, Zenon
  <2> QED BY <2>1, Zenon
<1>7. groups = CHOOSE f : One(f)
  OBVIOUS
<1>8. Joined(ss) = (CHOOSE f : Two(f))[PipeNum]
  BY <1>5, Zenon DEF Joined
<1> HIDE DEF One, Two
<1>9. groups = CHOOSE f : Two(f)
  BY <1>6, <1>7, Zenon
<1> QED BY <1>1, <1>3, <1>5, <1>8, <1>9, Zenon

\* The ports that hear of finished instructions.
Hearing ==
    {write_back_rob_finish_in, write_back_dispatch_port_in}
      \cup {forwarding_reservation_inst_in(p) : p \in Pipe}

Arbitrating(taken, group) ==
    /\ Ready(arbitrate_inst_event)
    /\ inst_queue_map' = [p \in Pipe |-> SubSeq(inst_queue_map[p], ConsumedOf(taken, p) + 1,
                                                Len(inst_queue_map[p]))]
    /\ Fire(arbitrate_inst_event, {},
            IF \A p \in Pipe : inst_queue_map'[p] = << >> THEN {} ELSE {arbitrate_inst_event},
            IF group = << >> THEN Nothing ELSE Hearing \X {<<group>>})
    /\ UNCHANGED <<inst, alu_queue>>

\* What ArbitrateInst_ does.
LEMMA ArbitrateUnfolds ==
  ASSUME ArbitrateInst_
  PROVE  \E taken, groups :
           /\ taken = CHOOSE f : f = [p \in 0 .. PipeNum |->
                    IF p = 0 THEN 0 ELSE Min({WbWidth, f[p - 1] + Len(inst_queue_map[p])})]
           /\ groups = CHOOSE f : f = [p \in 0 .. PipeNum |->
                 IF p = 0 THEN << >>
                 ELSE f[p - 1] \o SubSeq(inst_queue_map[p], 1, ConsumedOf(taken, p))]
           /\ Arbitrating(taken, groups[PipeNum])
<1> DEFINE taken == CHOOSE f : f = [p \in 0 .. PipeNum |->
                    IF p = 0 THEN 0 ELSE Min({WbWidth, f[p - 1] + Len(inst_queue_map[p])})]
           groups == CHOOSE f : f = [p \in 0 .. PipeNum |->
                 IF p = 0 THEN << >>
                 ELSE f[p - 1] \o SubSeq(inst_queue_map[p], 1, ConsumedOf(taken, p))]
<1>1. Arbitrating(taken, groups[PipeNum])
  BY Zenon DEF ArbitrateInst_, Arbitrating, ConsumedOf, Hearing
<1> HIDE DEF taken, groups
<1>2. taken = CHOOSE f : f = [p \in 0 .. PipeNum |->
                    IF p = 0 THEN 0 ELSE Min({WbWidth, f[p - 1] + Len(inst_queue_map[p])})]
  BY DEF taken
<1>3. groups = CHOOSE f : f = [p \in 0 .. PipeNum |->
                 IF p = 0 THEN << >>
                 ELSE f[p - 1] \o SubSeq(inst_queue_map[p], 1, ConsumedOf(taken, p))]
  BY DEF groups
<1> QED BY <1>1, <1>2, <1>3, ZenonT(60)

\* Each function unit's group is the front of its queue.
LEMMA GivenParts ==
  ASSUME NEW S, NEW m \in [Pipe -> Seq(S)], NEW taken, Taking(taken, m), NEW p \in Pipe
  PROVE  /\ Parts(m[p], GivenBy(m, taken)[p], SubSeq(m[p], ConsumedOf(taken, p) + 1, Len(m[p])))
         /\ SubSeq(m[p], ConsumedOf(taken, p) + 1, Len(m[p])) \in Seq(S)
<1>1. PICK k \in Nat : k = ConsumedOf(taken, p) /\ k <= Len(m[p])
  BY TakingIs
<1>2. PICK a \in Seq(S) : a = m[p]
  OBVIOUS
<1>3. Splits(S, a, k)
  BY <1>1, <1>2, SplitIs
<1>4. PICK b, c : b = SubSeq(a, 1, k) /\ c = SubSeq(a, k + 1, Len(a))
  OBVIOUS
<1>5. b \in Seq(S) /\ c \in Seq(S) /\ a = b \o c
  BY <1>3, <1>4, Zenon DEF Splits
<1>6. Parts(a, b, c)
  BY <1>5, ConcatParts, Zenon
<1>7. GivenBy(m, taken)[p] = b
  BY <1>1, <1>2, <1>4 DEF GivenBy
<1> QED BY <1>1, <1>2, <1>4, <1>5, <1>6, <1>7, Zenon

\* A step of the back end that moves instructions leaves them their fates.
LEMMA MovedFate ==
  ASSUME FateInv, RestKept, NEW h, NEW g, h = held, g = held',
         \A i \in DOMAIN inst : Moves(i, h, g) /\ (Single(i, RobWire) => StaysEarly(i, h, g))
  PROVE  FateInv'
BY MovesFate, Zenon

\* What the write back stage sends when it broadcasts the instructions of group.
BroadcastMail(group) == IF group = << >> THEN Nothing ELSE Hearing \X {<<group>>}

\* It takes them out of its queues, to the last of the places.
Broadcasts(group) ==
    /\ group \in Seq(DOMAIN inst) /\ inst' = inst
    /\ \E next \in SUBSET {arbitrate_inst_event} :
         Fire(arbitrate_inst_event, {}, next, BroadcastMail(group))
    /\ Parts(held'[AtFinishWire], held[AtFinishWire], group)
    /\ \A i : ~Absent(i, group) => \E p \in Pipe : ~Absent(i, held[AtWriteBack(p)])
    /\ \A z \in Place : z # AtFinishWire /\ (\A p \in Pipe : z # AtWriteBack(p)) => held'[z] = held[z]

\* The write back stage broadcasts finished instructions.
LEMMA ArbitrateFate ==
  ASSUME FateInv, ArbitrateInst_,
         UNCHANGED <<fetch_credit, renamingVars, rob, dispatchVars, rsVars>>
  PROVE  FateInv' /\ \E group : Broadcasts(group)
<1>1. CreditInv' /\ CreditInv /\ LateWires
  BY ArbitrateStep, Zenon DEF FateInv
<1>2. PICK I : I = DOMAIN inst
  OBVIOUS
<1>3. PICK m \in [Pipe -> Seq(I)] : m = inst_queue_map
  BY <1>2, Zenon DEF FateInv, LateQueues
<1>4. PICK taken, groups :
        /\ taken = CHOOSE f : f = [p \in 0 .. PipeNum |->
                    IF p = 0 THEN 0 ELSE Min({WbWidth, f[p - 1] + Len(inst_queue_map[p])})]
        /\ groups = CHOOSE f : f = [p \in 0 .. PipeNum |->
                 IF p = 0 THEN << >>
                 ELSE f[p - 1] \o SubSeq(inst_queue_map[p], 1, ConsumedOf(taken, p))]
        /\ Arbitrating(taken, groups[PipeNum])
  BY ArbitrateUnfolds, Zenon
<1>5. Taking(taken, m)
  <2>1. taken = CHOOSE f : f = [p \in 0 .. PipeNum |->
                    IF p = 0 THEN 0 ELSE Min({WbWidth, f[p - 1] + Len(m[p])})]
    BY <1>3, <1>4, Zenon
  <2> QED BY <2>1, TakingUnfolds
<1>6. PICK ss \in Seq(Seq(I)) : ss = GivenBy(m, taken) /\ groups[PipeNum] = Joined(ss)
  <2>1. inst_queue_map \in [Pipe -> Seq(I)] /\ Taking(taken, inst_queue_map)
    BY <1>3, <1>5, Zenon
  <2>2. groups = CHOOSE f : f = [p \in 0 .. PipeNum |->
                 IF p = 0 THEN << >>
                 ELSE f[p - 1] \o SubSeq(inst_queue_map[p], 1, ConsumedOf(taken, p))]
    BY <1>4, Zenon
  <2>3. /\ GivenBy(inst_queue_map, taken) \in Seq(Seq(I))
        /\ groups[PipeNum] = Joined(GivenBy(inst_queue_map, taken))
    BY <2>1, <2>2, GroupsUnfold, Zenon
  <2>4. GivenBy(m, taken) \in Seq(Seq(I)) /\ groups[PipeNum] = Joined(GivenBy(m, taken))
    BY <1>3, <2>3, Zenon
  <2> QED BY <2>4, Zenon
<1>7. PICK group \in Seq(I) : group = Joined(ss)
  BY JoinedIsSeq
<1>8. Among(group, ss)
  <2>1. Len(ss) = PipeNum
    BY <1>6, PipeNumAssumption DEF GivenBy, Pipe
  <2> QED BY <1>7, <2>1, JoinedHas DEF Among
<1>9. PICK c, d, next, out :
        /\ c = arbitrate_inst_event /\ d = write_back_rob_finish_in
        /\ next = IF \A p \in Pipe : inst_queue_map'[p] = << >> THEN {} ELSE {c}
        /\ out = IF group = << >> THEN Nothing ELSE Hearing \X {<<group>>}
  OBVIOUS
<1>10. /\ Ready(c) /\ Fire(c, {}, next, out)
       /\ inst_queue_map' = [p \in Pipe |-> SubSeq(m[p], ConsumedOf(taken, p) + 1, Len(m[p]))]
       /\ inst' = inst /\ alu_queue' = alu_queue
  <2>1. /\ Ready(c) /\ inst' = inst /\ alu_queue' = alu_queue
        /\ inst_queue_map' = [p \in Pipe |-> SubSeq(inst_queue_map[p], ConsumedOf(taken, p) + 1,
                                                    Len(inst_queue_map[p]))]
    BY <1>4, <1>9, Zenon DEF Arbitrating
  <2>2. groups[PipeNum] = group
    BY <1>6, <1>7, Zenon
  <2>3. Fire(c, {}, next, out)
    BY <1>4, <1>9, <2>2, Zenon DEF Arbitrating
  <2>4. inst_queue_map' = [p \in Pipe |-> SubSeq(m[p], ConsumedOf(taken, p) + 1, Len(m[p]))]
    BY <1>3, <2>1
  <2> QED BY <2>1, <2>3, <2>4, Zenon
<1>11. c \in UniqueEvent /\ Events({}, next)
  BY <1>9 DEF Events, UniqueEvent
<1>12. c \notin WorkPort /\ d \in LatePort /\ d \in WorkPort
  BY <1>9, <1>11, NotWork, LatePortsAre, WorkPortHas, Zenon
<1>13. /\ \A mail \in out : mail[1] \in Hearing /\ mail[2] = <<group>>
       /\ group # << >> => <<d, <<group>>>> \in out
  <2>1. CASE group = << >>
    BY <1>9, <2>1 DEF Nothing
  <2>2. CASE group # << >>
    BY <1>9, <2>2 DEF Hearing
  <2> QED BY <2>1, <2>2
<1>14. \A mail \in out : \A q \in WorkPort : q # d => mail[1] # q
  <2>1. \A q \in Hearing : q = d \/ q \notin WorkPort
    BY <1>9, NotWork DEF Hearing
  <2> QED BY <1>13, <2>1, Zenon
<1>15. inst_queue_map' \in [Pipe -> Seq(I)]
  <2>1. \A p \in Pipe : SubSeq(m[p], ConsumedOf(taken, p) + 1, Len(m[p])) \in Seq(I)
    BY <1>5, GivenParts
  <2> QED BY <1>10, <2>1
<1>16. LateQueues' /\ DOMAIN inst' = DOMAIN inst /\ SameTags /\ More
  BY <1>2, <1>10, <1>15, Zenon DEF LateQueues, SameTags, More
<1>17. UNCHANGED <<rob, renaming_stage_queue, inst_queue, dispatch_pending_queue, reservation_station>>
  BY Zenon DEF renamingVars, dispatchVars, rsVars
<1>18. LateMessage(d, DOMAIN inst') = Seq(I)
  BY <1>2, <1>9, <1>16, Zenon DEF LateMessage
<1>19. /\ c \notin FirstPort
       /\ \A mail \in out : mail[1] \notin FirstPort \cup {preceding_dispatch_inst_in}
       /\ \A mail \in out : mail[1] \in LatePort =>
            mail[2] \in Seq(LateMessage(mail[1], DOMAIN inst'))
  <2>1. \A q \in FirstPort \cup {preceding_dispatch_inst_in} : q \in WorkPort /\ q # d
    <3>1. \A q \in FirstPort \cup {preceding_dispatch_inst_in} : q \in WorkPort /\ q \in GroupPort
      BY WorkPortHas, LinkPortHas DEF FirstPort
    <3> QED BY <1>12, <3>1, LatePortsAre, LinkPortHas, Zenon
  <2>2. \A q \in LatePort : q \in WorkPort
    BY DEF WorkPort
  <2>3. <<group>> \in Seq(LateMessage(d, DOMAIN inst'))
    BY <1>18
  <2> QED BY <1>12, <1>13, <1>14, <2>1, <2>2, <2>3, Zenon
<1>20. RestKept /\ \A q \in WorkPort : q # d => OnTheWay(q)' = OnTheWay(q)
  <2>1. rob' = rob /\ renaming_stage_queue' = renaming_stage_queue
    BY <1>17, Zenon
  <2>2. LateQueues' /\ DOMAIN inst' = DOMAIN inst /\ SameTags
    BY <1>16, Zenon
  <2>3. RestKept /\ \A q \in WorkPort :
            q # c /\ (\A mail \in out : mail[1] # q) => OnTheWay(q)' = OnTheWay(q)
    <3>1. LeavesRest(c, {}, next, out)
      BY <1>10, <1>11, <1>19, <2>1, <2>2, Zenon DEF LeavesRest
    <3> QED BY <1>1, <3>1, RestOf, Zenon
  <2> QED BY <1>12, <1>14, <2>3, Zenon
<1>21. Parts(held'[AtFinishWire], held[AtFinishWire], group)
  <2>1. OnTheWay(d) \in Seq(Seq(I)) /\ OnTheWay(d)' = OnTheWay(d) \o Sent(out, d)
    <3>1. /\ OnTheWay(d) \in Seq(LateMessage(d, DOMAIN inst'))
          /\ OnTheWay(d)' = (IF d = c THEN Tail(OnTheWay(d)) ELSE OnTheWay(d)) \o Sent(out, d)
      BY <1>1, <1>10, <1>11, <1>12, <1>16, <1>19, LateStep
    <3> QED BY <1>12, <1>18, <3>1, Zenon
  <2>2. PICK w \in Seq(Seq(I)) : w = OnTheWay(d)
    BY <2>1
  <2>3. PICK v : v = OnTheWay(d)'
    OBVIOUS
  <2>4. v = w \o <<group>> \/ (group = << >> /\ v = w)
    <3>1. CASE group = << >>
      <4>1. \A mail \in out : FALSE
        BY <1>9, <3>1, NotWork, Zenon
      <4>2. Sent(out, d) = << >>
        BY <4>1, Zenon DEF Sent
      <4>3. w \o << >> = w
        BY EmptyConcat
      <4> QED BY <2>1, <2>2, <2>3, <3>1, <4>2, <4>3, Zenon
    <3>2. CASE group # << >>
      <4>1. Sent(out, d) = <<group>>
        <5>1. \E mail \in out : mail[1] = d
          <6>1. <<d, <<group>>>>[1] = d
            OBVIOUS
          <6> QED BY <1>13, <3>2, <6>1, Zenon
        <5>2. (CHOOSE mail \in out : mail[1] = d) \in out
          BY <5>1, Zenon
        <5> QED BY <1>13, <5>1, <5>2, Zenon DEF Sent
      <4> QED BY <2>1, <2>2, <2>3, <4>1, Zenon
    <3> QED BY <3>1, <3>2
  <2>5. Parts(Joined(v), Joined(w), group)
    BY <2>4, SentOver
  <2>6. Joined(w) = Instructions(d) /\ Joined(v) = Instructions(d)'
    BY <2>2, <2>3, Zenon DEF Instructions
  <2> QED BY <1>9, <2>5, <2>6, HeldIs, HeldIsPrime, Zenon
<1>22. \A p \in Pipe : Parts(held[AtWriteBack(p)], ss[p], held'[AtWriteBack(p)])
  <2>1. ASSUME NEW p \in Pipe PROVE Parts(held[AtWriteBack(p)], ss[p], held'[AtWriteBack(p)])
    <3>1. Parts(m[p], ss[p], SubSeq(m[p], ConsumedOf(taken, p) + 1, Len(m[p])))
      BY <1>5, <1>6, GivenParts, Zenon
    <3>2. inst_queue_map'[p] = SubSeq(m[p], ConsumedOf(taken, p) + 1, Len(m[p]))
      BY <1>10
    <3> QED BY <1>3, <3>1, <3>2, HeldIs, HeldIsPrime, Zenon
  <2> QED BY <2>1
<1>23. PICK x \in [Pipe -> Place] : \A p \in Pipe : x[p] = AtWriteBack(p)
  <2>1. \A p \in Pipe : AtWriteBack(p) \in Place
    BY PlacesDiffer
  <2>2. [p \in Pipe |-> AtWriteBack(p)] \in [Pipe -> Place]
    BY <2>1
  <2> QED BY <2>2
<1>24. PICK X : X = {x[p] : p \in Pipe} \cup {AtFinishWire}
  OBVIOUS
<1>25. Kept(X)
  <2>1. /\ preceding_dispatch_inst_in # d /\ preceding_write_back_inst_in # d
        /\ \A q \in Pipe : preceding_reservation_inst_in(q) # d /\ preceding_func_inst_in(q) # d
    BY <1>9, <1>12, LatePortsAre, LinkPortHas, Zenon
  <2>2. /\ OnTheWay(preceding_dispatch_inst_in)' = OnTheWay(preceding_dispatch_inst_in)
        /\ OnTheWay(preceding_write_back_inst_in)' = OnTheWay(preceding_write_back_inst_in)
        /\ \A q \in Pipe : OnTheWay(preceding_reservation_inst_in(q))' = OnTheWay(preceding_reservation_inst_in(q))
        /\ \A q \in Pipe : OnTheWay(preceding_func_inst_in(q))' = OnTheWay(preceding_func_inst_in(q))
    BY <1>20, <2>1, WorkPortHas, Zenon
  <2>3. AtFinishWire \in X /\ \A q \in Pipe : AtWriteBack(q) \in X
    BY <1>23, <1>24
  <2> QED BY <1>10, <1>17, <2>2, <2>3, Zenon DEF Kept
<1>26. PICK h, g : h = held /\ g = held'
  OBVIOUS
<1>27. \A z \in Place : z # AtFinishWire /\ (\A p \in Pipe : z # x[p]) => g[z] = h[z]
  <2>1. \A z \in Place : z # AtFinishWire /\ (\A p \in Pipe : z # x[p]) => z \notin X
    BY <1>24
  <2> QED BY <1>25, <1>26, <2>1, KeptHeld, Zenon
<1>28. /\ \A p \in Pipe : x[p] # AtFinishWire /\ x[p] \notin EarlyPlace
       /\ AtFinishWire \in Place /\ AtFinishWire \notin EarlyPlace
       /\ \A p, q \in Pipe : p # q => x[p] # x[q]
  <2>1. \A p, q \in Pipe : p # q => AtWriteBack(p) # AtWriteBack(q)
    BY DEF AtWriteBack
  <2> QED BY <1>23, <2>1, PlacesDiffer, Zenon
<1>29. ASSUME NEW i PROVE Moves(i, h, g) /\ StaysEarly(i, h, g)
  <2>1. \A p \in Pipe : Parts(h[x[p]], ss[p], g[x[p]])
    BY <1>22, <1>23, <1>26, Zenon
  <2>2. Parts(g[AtFinishWire], h[AtFinishWire], group)
    BY <1>21, <1>26, Zenon
  <2>3. /\ Moves(i, h, g)
        /\ AtFinishWire \notin EarlyPlace /\ (\A p \in Pipe : x[p] \notin EarlyPlace)
             => StaysEarly(i, h, g)
    BY <1>8, <1>27, <1>28, <2>1, <2>2, ManyToOne
  <2> QED BY <1>28, <2>3, Zenon
<1>30. FateInv'
  BY <1>20, <1>26, <1>29, MovedFate, Zenon
<1>31. ASSUME NEW i, ~Absent(i, group) PROVE \E p \in Pipe : ~Absent(i, held[AtWriteBack(p)])
  <2>1. PICK p \in Pipe : ~Absent(i, ss[p])
    BY <1>8, <1>31, Zenon DEF Among, AbsentAmong, Pipe
  <2> QED BY <1>22, <2>1, Zenon DEF Parts
<1>32. \A z \in Place : z # AtFinishWire /\ (\A p \in Pipe : z # AtWriteBack(p)) => held'[z] = held[z]
  BY <1>23, <1>26, <1>27, Zenon
<1>33. Fire(c, {}, next, BroadcastMail(group)) /\ next \in SUBSET {arbitrate_inst_event}
  <2>1. next \in SUBSET {c}
    BY <1>9
  <2> QED BY <1>9, <1>10, <2>1, Zenon DEF BroadcastMail
<1>34. Broadcasts(group)
  <2>1. group \in Seq(DOMAIN inst) /\ inst' = inst
    BY <1>2, <1>7, <1>10, Zenon
  <2>2. \E again \in SUBSET {arbitrate_inst_event} :
          Fire(arbitrate_inst_event, {}, again, BroadcastMail(group))
    BY <1>9, <1>33, Zenon
  <2> QED BY <1>21, <1>31, <1>32, <2>1, <2>2, Zenon DEF Broadcasts
<1> QED BY <1>30, <1>34, Zenon

\* No entry is chosen by two stations.
LEMMA ChosenApart ==
  ASSUME NEW I, NEW s \in Seq(DispatchEntry(I)), NEW queues, Choosing(queues, PipeNum, s),
         credit_map \in [Pipe -> Nat], NEW p \in Pipe, NEW q \in Pipe, p < q,
         NEW k \in Chosen(queues[p - 1], p)
  PROVE  k \notin Chosen(queues[q - 1], q)
<1>1. PICK m \in Nat : m = q - 1 /\ m <= PipeNum /\ p \in 1 .. m
  <2>1. q - 1 \in Nat /\ q - 1 <= PipeNum /\ p \in 1 .. (q - 1)
    BY PipeNumAssumption DEF Pipe
  <2> QED BY <2>1
<1>2. PICK t, F : t = queues[m] /\ F = UNION {Chosen(queues[l - 1], l) : l \in 1 .. m}
  OBVIOUS
<1>3. IssuedAt(t, s, F, I)
  BY <1>1, <1>2, ChosenBefore, Zenon
<1>4. k \in F
  BY <1>1, <1>2, Zenon
<1>5. Chosen(queues[q - 1], q) \subseteq Open(t)
  <2>1. t \in Seq(DispatchEntry(I)) /\ credit_map[q] \in Nat
    BY <1>3 DEF IssuedAt
  <2>2. Chosen(t, q) \subseteq Open(t)
    BY <2>1, ChosenIs
  <2> QED BY <1>1, <1>2, <2>2, Zenon
<1>6. \A l \in Open(t) : l \notin F
  BY <1>3 DEF IssuedAt, Open
<1> QED BY <1>4, <1>5, <1>6, Zenon

\* What is picked at places that are apart.
LEMMA PickAmong ==
  ASSUME NEW S, NEW s \in Seq(S), NEW C \in [Pipe -> SUBSET (1 .. Len(s))],
         \A p, q \in Pipe : \A k \in C[p] : p # q => k \notin C[q],
         NEW all, all = UNION {C[p] : p \in Pipe}
  PROVE  Among(PickAt(s, all), [p \in Pipe |-> PickAt(s, C[p])])
<1>1. all \in SUBSET (1 .. Len(s))
  BY SMT
<1>2. ASSUME NEW i
      PROVE  /\ Absent(i, PickAt(s, all)) <=> \A p \in Pipe : Absent(i, PickAt(s, C[p]))
             /\ Single(i, PickAt(s, all)) <=>
                  \E p \in Pipe : /\ Single(i, PickAt(s, C[p]))
                                  /\ \A q \in Pipe : q # p => Absent(i, PickAt(s, C[q]))
  <2>1. /\ Absent(i, PickAt(s, all)) <=> AbsentAt(i, s, all)
        /\ Single(i, PickAt(s, all)) <=> SingleAt(i, s, all)
    BY <1>1, PickHas
  <2>2. \A p \in Pipe : /\ Absent(i, PickAt(s, C[p])) <=> AbsentAt(i, s, C[p])
                        /\ Single(i, PickAt(s, C[p])) <=> SingleAt(i, s, C[p])
    <3>1. ASSUME NEW p \in Pipe
          PROVE  /\ Absent(i, PickAt(s, C[p])) <=> AbsentAt(i, s, C[p])
                 /\ Single(i, PickAt(s, C[p])) <=> SingleAt(i, s, C[p])
      <4>1. C[p] \in SUBSET (1 .. Len(s))
        OBVIOUS
      <4> QED BY <4>1, PickHas
    <3> QED BY <3>1
  <2>3. AbsentAt(i, s, all) <=> \A p \in Pipe : AbsentAt(i, s, C[p])
    BY Zenon DEF AbsentAt
  <2>4. ASSUME SingleAt(i, s, all)
        PROVE  \E p \in Pipe : /\ SingleAt(i, s, C[p])
                               /\ \A q \in Pipe : q # p => AbsentAt(i, s, C[q])
    <3>1. PICK k \in all : s[k] = i /\ \A j \in all : s[j] = i => j = k
      BY <2>4, Zenon DEF SingleAt
    <3>2. PICK p \in Pipe : k \in C[p]
      BY Zenon
    <3>3. \A q \in Pipe : \A j \in C[q] : j \in all
      BY Zenon
    <3>4. SingleAt(i, s, C[p])
      BY <3>1, <3>2, <3>3, Zenon DEF SingleAt
    <3>5. \A q \in Pipe : q # p => AbsentAt(i, s, C[q])
      BY <3>1, <3>2, <3>3, Zenon DEF AbsentAt
    <3> QED BY <3>4, <3>5, Zenon
  <2>5. ASSUME NEW p \in Pipe, SingleAt(i, s, C[p]), \A q \in Pipe : q # p => AbsentAt(i, s, C[q])
        PROVE  SingleAt(i, s, all)
    <3>1. PICK k \in C[p] : s[k] = i /\ \A j \in C[p] : s[j] = i => j = k
      BY <2>5, Zenon DEF SingleAt
    <3>2. k \in all
      BY <3>1, Zenon
    <3>3. ASSUME NEW j \in all, s[j] = i PROVE j = k
      <4>1. PICK q \in Pipe : j \in C[q]
        BY Zenon
      <4>2. q = p
        BY <2>5, <3>3, <4>1, Zenon DEF AbsentAt
      <4> QED BY <3>1, <3>3, <4>1, <4>2, Zenon
    <3> QED BY <3>1, <3>2, <3>3, Zenon DEF SingleAt
  <2> QED BY <2>1, <2>2, <2>3, <2>4, <2>5, Zenon
<1>3. PICK grp : grp = [p \in Pipe |-> PickAt(s, C[p])]
  OBVIOUS
<1>4. \A p \in Pipe : grp[p] = PickAt(s, C[p])
  BY <1>3
<1>5. ASSUME NEW i
      PROVE  /\ Absent(i, PickAt(s, all)) <=> AbsentAmong(i, grp, PipeNum)
             /\ Single(i, PickAt(s, all)) <=> SingleAmong(i, grp, PipeNum)
  <2>1. \A p \in Pipe : /\ Absent(i, grp[p]) <=> Absent(i, PickAt(s, C[p]))
                        /\ Single(i, grp[p]) <=> Single(i, PickAt(s, C[p]))
    BY <1>4, Zenon
  <2>2. Absent(i, PickAt(s, all)) <=> \A p \in Pipe : Absent(i, grp[p])
    BY <1>2, <2>1, Zenon
  <2>3. Single(i, PickAt(s, all)) <=>
          \E p \in Pipe : Single(i, grp[p]) /\ \A q \in Pipe : q # p => Absent(i, grp[q])
    <3>1. ASSUME Single(i, PickAt(s, all))
          PROVE  \E p \in Pipe : Single(i, grp[p]) /\ \A q \in Pipe : q # p => Absent(i, grp[q])
      BY <1>2, <2>1, <3>1, Zenon
    <3>2. ASSUME NEW p \in Pipe, Single(i, grp[p]), \A q \in Pipe : q # p => Absent(i, grp[q])
          PROVE  Single(i, PickAt(s, all))
      <4>1. /\ Single(i, PickAt(s, C[p]))
            /\ \A q \in Pipe : q # p => Absent(i, PickAt(s, C[q]))
        BY <2>1, <3>2, Zenon
      <4> QED BY <1>2, <4>1, Zenon
    <3> QED BY <3>1, <3>2, Zenon
  <2> QED BY <2>2, <2>3, Zenon DEF AbsentAmong, SingleAmong, Pipe
<1> QED BY <1>3, <1>5, Zenon DEF Among

\* It is noted of the instructions of T which of their sources are busy.
Noted(T) ==
    /\ DOMAIN inst' = DOMAIN inst /\ SameTags
    /\ \A i \in DOMAIN inst :
         /\ SameRegs(inst, inst', i) /\ (i \notin T => SameFlags(inst, inst', i))
         /\ inst'[i].IsRs1Forward => inst[i].IsRs1Forward \/ inst[i].PhyRs1 \in score_board
         /\ inst'[i].IsRs2Forward => inst[i].IsRs2Forward \/ inst[i].PhyRs2 \in score_board

\* That leaves their tags and their registers alone, and the other instructions.
LEMMA CheckedTags ==
  ASSUME CreditInv, NEW T,
         inst' = [i \in DOMAIN inst |-> IF i \in T THEN CheckRegStatusImp_(inst[i]) ELSE inst[i]]
  PROVE  Noted(T)
<1>1. PICK n \in Nat : Program(inst, n)
  BY Zenon DEF CreditInv, InstInv
<1>2. DOMAIN inst = 1 .. n /\ \A i \in 1 .. n : Foreseen(inst[i])
  BY <1>1, ProgramIsSeq, Zenon DEF Program
<1>3. ASSUME NEW r, Foreseen(r), NEW u, u = CheckRegStatusImp_(r)
      PROVE  /\ u.RobTag = r.RobTag
             /\ u.PhyRd = r.PhyRd /\ u.PhyRs1 = r.PhyRs1 /\ u.PhyRs2 = r.PhyRs2
             /\ u.IsRs1Forward => r.IsRs1Forward \/ r.PhyRs1 \in score_board
             /\ u.IsRs2Forward => r.IsRs2Forward \/ r.PhyRs2 \in score_board
  BY <1>3 DEF Foreseen, CheckRegStatusImp_
<1>4. ASSUME NEW i \in DOMAIN inst
      PROVE  /\ inst'[i].RobTag = inst[i].RobTag
             /\ SameRegs(inst, inst', i) /\ (i \notin T => SameFlags(inst, inst', i))
             /\ inst'[i].IsRs1Forward => inst[i].IsRs1Forward \/ inst[i].PhyRs1 \in score_board
             /\ inst'[i].IsRs2Forward => inst[i].IsRs2Forward \/ inst[i].PhyRs2 \in score_board
  <2>1. inst'[i] = IF i \in T THEN CheckRegStatusImp_(inst[i]) ELSE inst[i]
    BY Zenon
  <2>2. Foreseen(inst[i])
    BY <1>2
  <2>3. CASE i \in T
    BY <1>3, <2>1, <2>2, <2>3, Zenon DEF SameRegs
  <2>4. CASE i \notin T
    BY <2>1, <2>4, Zenon DEF SameRegs, SameFlags
  <2> QED BY <2>3, <2>4
<1>5. DOMAIN inst' = DOMAIN inst
  BY Zenon
<1> QED BY <1>4, <1>5, Zenon DEF SameTags, Noted

\* What SelectInst_ does to the queues: C[p] are the places of the entries that
\* station p has chosen.
LEMMA SelectTakes ==
  ASSUME CreditInv, SelectInst_
  PROVE  \E I : \E s \in Seq(DispatchEntry(I)), t \in Seq(DispatchEntry(I)) :
         \E C \in [Pipe -> SUBSET (1 .. Len(s))] : \E out, all, T :
           /\ I = DOMAIN inst /\ s = inst_queue /\ inst_queue' = t
           /\ \A p, q \in Pipe : \A k \in C[p] : p # q => k \notin C[q]
           /\ all = UNION {C[p] : p \in Pipe} /\ all \in SUBSET Open(s)
           /\ IssuedAt(t, s, all, I)
           /\ dispatch_pending_queue' = [p \in Pipe |-> dispatch_pending_queue[p] \o
                                            PickAt(InstsOf(s), C[p])]
           /\ T = {s[k].inst : k \in all} /\ Noted(T)
           /\ Ready(dispatch_select_events_)
           /\ Fire(dispatch_select_events_, {dispatch_issue_events_}, {}, out)
           /\ \A mail \in out : mail[1] = following_renaming_credit_in
<1>1. PICK I : I = DOMAIN inst
  OBVIOUS
<1>2. PICK s \in Seq(DispatchEntry(I)) : s = inst_queue
  BY <1>1, Zenon DEF CreditInv, DispatchInv
<1>3. PICK queues :
        /\ queues = CHOOSE f : f = [p \in 0 .. PipeNum |->
                       IF p = 0 THEN s ELSE MarkAt(f[p - 1], Chosen(f[p - 1], p))]
        /\ Selecting(queues, s)
  BY <1>2, SelectUnfolds, Zenon
<1> DEFINE chosen(p) == Chosen(queues[p - 1], p)
<1>4. PICK all : all = UNION {chosen(p) : p \in Pipe}
  OBVIOUS
<1>5. PICK T : T = {s[k].inst : k \in UNION {chosen(p) : p \in Pipe}}
  OBVIOUS
<1>6. PICK out : out = IF T = {} THEN Nothing
                       ELSE Post(following_renaming_credit_in, <<Cardinality(T)>>)
  OBVIOUS
<1>7. /\ Ready(dispatch_select_events_)
      /\ inst_queue' = queues[PipeNum]
      /\ dispatch_pending_queue' = [p \in Pipe |-> dispatch_pending_queue[p] \o
                                       PickAt(InstsOf(s), chosen(p))]
      /\ inst' = [i \in DOMAIN inst |-> IF i \in T THEN CheckRegStatusImp_(inst[i]) ELSE inst[i]]
      /\ Fire(dispatch_select_events_, {dispatch_issue_events_}, {}, out)
  BY <1>3, <1>5, <1>6, Zenon DEF Selecting
<1>8. Choosing(queues, PipeNum, s)
  <2>1. PipeNum \in Nat
    BY PipeNumAssumption
  <2> QED BY <1>3, <2>1, ChoosingUnfolds, Zenon
<1>9. credit_map \in [Pipe -> Nat]
  BY Zenon DEF CreditInv, StationInv
<1>10. Chooses(queues, s, I)
  BY <1>8, <1>9, ChoosingIs, Zenon
<1>11. /\ \A p \in Pipe : chosen(p) \subseteq Open(s)
       /\ all \subseteq Open(s) /\ IssuedAt(queues[PipeNum], s, all, I)
  BY <1>4, <1>10, Zenon DEF Chooses
<1>12. PICK t \in Seq(DispatchEntry(I)) : t = queues[PipeNum]
  BY <1>11 DEF IssuedAt
<1> HIDE DEF chosen
<1>13. PICK C \in [Pipe -> SUBSET (1 .. Len(s))] : \A p \in Pipe : C[p] = chosen(p)
  <2>1. \A p \in Pipe : chosen(p) \in SUBSET (1 .. Len(s))
    BY <1>11 DEF Open
  <2>2. [p \in Pipe |-> chosen(p)] \in [Pipe -> SUBSET (1 .. Len(s))]
    BY <2>1
  <2> QED BY <2>2
<1>14. ASSUME NEW p \in Pipe, NEW q \in Pipe, NEW k \in C[p], p # q PROVE k \notin C[q]
  <2>1. k \in chosen(p) /\ C[q] = chosen(q)
    BY <1>13
  <2>2. CASE p < q
    BY <1>8, <1>9, <2>1, <2>2, ChosenApart, Zenon DEF chosen
  <2>3. CASE q < p
    <3>1. ASSUME k \in chosen(q) PROVE k \notin chosen(p)
      BY <1>8, <1>9, <2>3, <3>1, ChosenApart, Zenon DEF chosen
    <3> QED BY <2>1, <3>1, Zenon
  <2>4. p < q \/ q < p
    BY <1>14, PipeNumAssumption DEF Pipe
  <2> QED BY <2>2, <2>3, <2>4
<1>15. all = UNION {C[p] : p \in Pipe} /\ all \in SUBSET Open(s)
  BY <1>4, <1>11, <1>13
<1>16. dispatch_pending_queue' = [p \in Pipe |-> dispatch_pending_queue[p] \o PickAt(InstsOf(s), C[p])]
  BY <1>7, <1>13, Zenon
<1>17. T = {s[k].inst : k \in all} /\ Noted(T)
  <2>1. T = {s[k].inst : k \in all}
    BY <1>4, <1>5
  <2>2. Noted(T)
    BY <1>7, CheckedTags, Zenon
  <2> QED BY <2>1, <2>2
<1>18. \A mail \in out : mail[1] = following_renaming_credit_in
  <2>1. \A mail \in Post(following_renaming_credit_in, <<Cardinality(T)>>) : mail[1] = following_renaming_credit_in
    BY DEF Post
  <2>2. \A mail \in Nothing : FALSE
    BY DEF Nothing
  <2> QED BY <1>6, <2>1, <2>2, Zenon
<1>19. IssuedAt(t, s, all, I) /\ inst_queue' = t
  BY <1>7, <1>11, <1>12, Zenon
<1>20. /\ I = DOMAIN inst /\ s = inst_queue /\ inst_queue' = t
       /\ \A p, q \in Pipe : \A k \in C[p] : p # q => k \notin C[q]
       /\ all = UNION {C[p] : p \in Pipe} /\ all \in SUBSET Open(s)
       /\ IssuedAt(t, s, all, I)
       /\ dispatch_pending_queue' = [p \in Pipe |-> dispatch_pending_queue[p] \o
                                        PickAt(InstsOf(s), C[p])]
       /\ T = {s[k].inst : k \in all} /\ Noted(T)
       /\ Ready(dispatch_select_events_)
       /\ Fire(dispatch_select_events_, {dispatch_issue_events_}, {}, out)
       /\ \A mail \in out : mail[1] = following_renaming_credit_in
  <2>1. \A p, q \in Pipe : \A k \in C[p] : p # q => k \notin C[q]
    BY <1>14, Zenon
  <2> QED BY <1>1, <1>2, <1>7, <1>15, <1>16, <1>17, <1>18, <1>19, <2>1, Zenon
<1> WITNESS I
<1> WITNESS s \in Seq(DispatchEntry(I))
<1> WITNESS t \in Seq(DispatchEntry(I))
<1> WITNESS C \in [Pipe -> SUBSET (1 .. Len(s))]
<1> WITNESS out, all, T
<1> QED BY <1>20, Zenon

\* The instructions of T go from the dispatch queue to the stations they are
\* pending for, and it is noted what they wait for.
Selects(T) ==
    /\ Noted(T) /\ T \subseteq DOMAIN inst
    /\ \A i \in T : ~Absent(i, held[AtDispatchQueue]) /\ \E p \in Pipe : ~Absent(i, held'[AtPending(p)])
    /\ \A i : Absent(i, held[AtDispatchQueue]) => Absent(i, held'[AtDispatchQueue])
    /\ \A p \in Pipe : \A i :
         ~Absent(i, held'[AtPending(p)]) => ~Absent(i, held[AtPending(p)]) \/ i \in T

\* It is to issue them in this cycle, and tells the renaming stage.
SelectFires ==
    /\ Ready(dispatch_select_events_)
    /\ \E out : /\ Fire(dispatch_select_events_, {dispatch_issue_events_}, {}, out)
                /\ \A mail \in out : mail[1] = following_renaming_credit_in

\* The dispatch stage chooses instructions for the stations.
LEMMA SelectInstFate ==
  ASSUME FateInv, SelectInst_, UNCHANGED <<fetch_credit, renamingVars, rob, rsVars, fuVars>>
  PROVE  FateInv' /\ SelectFires /\ \E T : Selects(T)
<1>1. CreditInv' /\ CreditInv
  BY SelectInstStep, Zenon DEF FateInv
<1>2. PICK I : \E s \in Seq(DispatchEntry(I)), t \in Seq(DispatchEntry(I)) :
         \E C \in [Pipe -> SUBSET (1 .. Len(s))] : \E out, all, T :
           /\ I = DOMAIN inst /\ s = inst_queue /\ inst_queue' = t
           /\ \A p, q \in Pipe : \A k \in C[p] : p # q => k \notin C[q]
           /\ all = UNION {C[p] : p \in Pipe} /\ all \in SUBSET Open(s)
           /\ IssuedAt(t, s, all, I)
           /\ dispatch_pending_queue' = [p \in Pipe |-> dispatch_pending_queue[p] \o
                                            PickAt(InstsOf(s), C[p])]
           /\ T = {s[k].inst : k \in all} /\ Noted(T)
           /\ Ready(dispatch_select_events_)
           /\ Fire(dispatch_select_events_, {dispatch_issue_events_}, {}, out)
           /\ \A mail \in out : mail[1] = following_renaming_credit_in
  BY <1>1, SelectTakes, Zenon
<1>3. PICK s \in Seq(DispatchEntry(I)), t \in Seq(DispatchEntry(I)) :
         \E C \in [Pipe -> SUBSET (1 .. Len(s))] : \E out, all, T :
           /\ I = DOMAIN inst /\ s = inst_queue /\ inst_queue' = t
           /\ \A p, q \in Pipe : \A k \in C[p] : p # q => k \notin C[q]
           /\ all = UNION {C[p] : p \in Pipe} /\ all \in SUBSET Open(s)
           /\ IssuedAt(t, s, all, I)
           /\ dispatch_pending_queue' = [p \in Pipe |-> dispatch_pending_queue[p] \o
                                            PickAt(InstsOf(s), C[p])]
           /\ T = {s[k].inst : k \in all} /\ Noted(T)
           /\ Ready(dispatch_select_events_)
           /\ Fire(dispatch_select_events_, {dispatch_issue_events_}, {}, out)
           /\ \A mail \in out : mail[1] = following_renaming_credit_in
  BY <1>2, Zenon
<1>4. PICK C \in [Pipe -> SUBSET (1 .. Len(s))] : \E out, all, T :
           /\ I = DOMAIN inst /\ s = inst_queue /\ inst_queue' = t
           /\ \A p, q \in Pipe : \A k \in C[p] : p # q => k \notin C[q]
           /\ all = UNION {C[p] : p \in Pipe} /\ all \in SUBSET Open(s)
           /\ IssuedAt(t, s, all, I)
           /\ dispatch_pending_queue' = [p \in Pipe |-> dispatch_pending_queue[p] \o
                                            PickAt(InstsOf(s), C[p])]
           /\ T = {s[k].inst : k \in all} /\ Noted(T)
           /\ Ready(dispatch_select_events_)
           /\ Fire(dispatch_select_events_, {dispatch_issue_events_}, {}, out)
           /\ \A mail \in out : mail[1] = following_renaming_credit_in
  BY <1>3, Zenon
<1>5. PICK c, out, all, T :
           /\ c = dispatch_select_events_
           /\ I = DOMAIN inst /\ s = inst_queue /\ inst_queue' = t
           /\ \A p, q \in Pipe : \A k \in C[p] : p # q => k \notin C[q]
           /\ all = UNION {C[p] : p \in Pipe} /\ all \in SUBSET Open(s)
           /\ IssuedAt(t, s, all, I)
           /\ dispatch_pending_queue' = [p \in Pipe |-> dispatch_pending_queue[p] \o
                                            PickAt(InstsOf(s), C[p])]
           /\ T = {s[k].inst : k \in all} /\ Noted(T)
           /\ Ready(c)
           /\ Fire(c, {dispatch_issue_events_}, {}, out)
           /\ \A mail \in out : mail[1] = following_renaming_credit_in
  BY <1>4, Zenon
<1>6. PICK ids \in Seq(I) : ids = InstsOf(s) /\ Len(ids) = Len(s)
  BY EntryInsts, Zenon
<1>7. Parts(OpenInsts(s), PickAt(ids, all), OpenInsts(t))
  <2>1. \A e \in DispatchEntry(I) : e.inst \in I
    BY EntriesAre
  <2>2. /\ Len(t) = Len(s) /\ \A k \in 1 .. Len(s) : t[k].inst = s[k].inst
        /\ \A k \in 1 .. Len(s) : ~t[k].is_issued <=> ~s[k].is_issued /\ k \notin all
    BY <1>5, Zenon DEF IssuedAt
  <2>3. all \in SUBSET Open(s)
    BY <1>5, Zenon
  <2>4. Parts(OpenInsts(s), PickAt(InstsOf(s), all), OpenInsts(t))
    BY <2>1, <2>2, <2>3, OpenTaken
  <2> QED BY <1>6, <2>4, Zenon
<1>8. PICK grp : grp = [p \in Pipe |-> PickAt(ids, C[p])]
  OBVIOUS
<1>9. Among(PickAt(ids, all), grp)
  <2>1. C \in [Pipe -> SUBSET (1 .. Len(ids))] /\ all = UNION {C[p] : p \in Pipe}
    BY <1>5, <1>6
  <2>2. \A p, q \in Pipe : \A k \in C[p] : p # q => k \notin C[q]
    BY <1>5, Zenon
  <2>3. Among(PickAt(ids, all), [p \in Pipe |-> PickAt(ids, C[p])])
    BY <2>1, <2>2, PickAmong
  <2> QED BY <1>8, <2>3, Zenon
<1>10. ASSUME NEW p \in Pipe
       PROVE  Parts(held'[AtPending(p)], held[AtPending(p)], grp[p])
  <2>1. C[p] \in SUBSET (1 .. Len(ids)) /\ grp[p] = PickAt(ids, C[p])
    BY <1>6, <1>8
  <2>2. grp[p] \in Seq(I)
    BY <2>1, PickAtIs
  <2>3. PICK a \in Seq(I) : a = dispatch_pending_queue[p]
    BY <1>1, <1>5 DEF CreditInv, StationInv
  <2>4. PICK u : u = a \o grp[p]
    OBVIOUS
  <2>5. Parts(u, a, grp[p])
    BY <2>2, <2>4, ConcatParts
  <2>6. dispatch_pending_queue'[p] = dispatch_pending_queue[p] \o PickAt(InstsOf(s), C[p])
    BY <1>5
  <2>7. dispatch_pending_queue'[p] = u
    BY <1>6, <2>1, <2>3, <2>4, <2>6, Zenon
  <2> QED BY <2>3, <2>5, <2>7, HeldIs, HeldIsPrime, Zenon
<1>11. Parts(held[AtDispatchQueue], PickAt(ids, all), held'[AtDispatchQueue])
  BY <1>5, <1>7, HeldIs, HeldIsPrime, Zenon
<1>12. UNCHANGED <<rob, renaming_stage_queue, reservation_station, alu_queue, inst_queue_map>>
  BY Zenon DEF renamingVars, rsVars, fuVars
<1>13. RestKept /\ \A d \in WorkPort : OnTheWay(d)' = OnTheWay(d)
  <2>1. c \notin WorkPort /\ \A mail \in out : mail[1] \notin WorkPort
    <3>1. c \in UniqueEvent /\ following_renaming_credit_in \in CreditPort
      BY <1>5, LinkPortHas DEF UniqueEvent
    <3> QED BY <1>5, <3>1, NotWork, Zenon
  <2>2. Events({dispatch_issue_events_}, {})
    BY DEF Events, UniqueEvent
  <2>3. LateQueues'
    <3>1. DOMAIN inst' = DOMAIN inst
      BY <1>5, Zenon DEF Noted
    <3> QED BY <1>12, <3>1, Zenon DEF FateInv, LateQueues
  <2>4. rob' = rob /\ renaming_stage_queue' = renaming_stage_queue
    BY <1>12, Zenon
  <2>5. /\ Ready(c) /\ Fire(c, {dispatch_issue_events_}, {}, out)
        /\ DOMAIN inst' = DOMAIN inst /\ SameTags
    BY <1>5, Zenon DEF Noted
  <2> QED BY <1>1, <2>1, <2>2, <2>3, <2>4, <2>5, RestAlone
<1>14. PICK y \in [Pipe -> Place] : \A p \in Pipe : y[p] = AtPending(p)
  <2>1. \A p \in Pipe : AtPending(p) \in Place
    BY PlacesDiffer
  <2>2. [p \in Pipe |-> AtPending(p)] \in [Pipe -> Place]
    BY <2>1
  <2> QED BY <2>2
<1>15. PICK X : X = {y[p] : p \in Pipe} \cup {AtDispatchQueue}
  OBVIOUS
<1>16. Kept(X)
  <2>1. AtDispatchQueue \in X /\ \A q \in Pipe : AtPending(q) \in X
    BY <1>14, <1>15
  <2> QED BY <1>12, <1>13, <2>1, WorkPortHas, Zenon DEF Kept
<1>17. PICK h, g : h = held /\ g = held'
  OBVIOUS
<1>18. \A z \in Place : z # AtDispatchQueue /\ (\A p \in Pipe : z # y[p]) => g[z] = h[z]
  <2>1. \A z \in Place : z # AtDispatchQueue /\ (\A p \in Pipe : z # y[p]) => z \notin X
    BY <1>15
  <2> QED BY <1>16, <1>17, <2>1, KeptHeld, Zenon
<1>19. /\ \A p \in Pipe : y[p] # AtDispatchQueue /\ y[p] \in EarlyPlace
       /\ AtDispatchQueue \in Place
       /\ \A p, q \in Pipe : p # q => y[p] # y[q]
  <2>1. \A p, q \in Pipe : p # q => AtPending(p) # AtPending(q)
    BY DEF AtPending
  <2> QED BY <1>14, <2>1, PlacesDiffer, Zenon
<1>20. ASSUME NEW i PROVE Moves(i, h, g) /\ StaysEarly(i, h, g)
  <2>1. \A p \in Pipe : Parts(g[y[p]], h[y[p]], grp[p])
    BY <1>10, <1>14, <1>17, Zenon
  <2>2. Parts(h[AtDispatchQueue], PickAt(ids, all), g[AtDispatchQueue])
    BY <1>11, <1>17, Zenon
  <2>3. /\ Moves(i, h, g)
        /\ (\A p \in Pipe : y[p] \in EarlyPlace) => StaysEarly(i, h, g)
    BY <1>9, <1>18, <1>19, <2>1, <2>2, OneToMany
  <2> QED BY <1>19, <2>3, Zenon
<1>21. FateInv'
  BY <1>13, <1>17, <1>20, MovedFate, Zenon
<1>22. ASSUME NEW i PROVE i \in T <=> ~Absent(i, PickAt(ids, all))
  <2>1. all \in SUBSET (1 .. Len(ids))
    BY <1>5, <1>6 DEF Open
  <2>2. Absent(i, PickAt(ids, all)) <=> AbsentAt(i, ids, all)
    BY <2>1, PickHas, Zenon
  <2>3. \A k \in all : ids[k] = s[k].inst
    BY <1>6, <2>1 DEF InstsOf
  <2>4. i \in T <=> \E k \in all : s[k].inst = i
    BY <1>5
  <2> QED BY <2>2, <2>3, <2>4, Zenon DEF AbsentAt
<1>23. ASSUME NEW i \in T
       PROVE  ~Absent(i, held[AtDispatchQueue]) /\ \E p \in Pipe : ~Absent(i, held'[AtPending(p)])
  <2>1. ~Absent(i, PickAt(ids, all))
    BY <1>22, <1>23, Zenon
  <2>2. PICK p \in Pipe : ~Absent(i, grp[p])
    BY <1>9, <2>1, Zenon DEF Among, AbsentAmong, Pipe
  <2> QED BY <1>10, <1>11, <2>1, <2>2, Zenon DEF Parts
<1>24. ASSUME NEW p \in Pipe, NEW i, ~Absent(i, held'[AtPending(p)])
       PROVE  ~Absent(i, held[AtPending(p)]) \/ i \in T
  <2>1. ~Absent(i, held[AtPending(p)]) \/ ~Absent(i, grp[p])
    BY <1>10, <1>24, Zenon DEF Parts
  <2>2. ~Absent(i, grp[p]) => ~Absent(i, PickAt(ids, all))
    BY <1>9, <1>24, Zenon DEF Among, AbsentAmong, Pipe
  <2> QED BY <1>22, <2>1, <2>2, Zenon
<1>25. \A i : Absent(i, held[AtDispatchQueue]) => Absent(i, held'[AtDispatchQueue])
  BY <1>11, Zenon DEF Parts
<1>26. Noted(T) /\ T \subseteq DOMAIN inst
  <2>1. \A k \in all : k \in DOMAIN s
    BY <1>5 DEF Open
  <2>2. \A k \in DOMAIN s : s[k].inst \in I
    BY EntriesAre
  <2>3. T \subseteq I
    BY <1>5, <2>1, <2>2
  <2> QED BY <1>5, <2>3, Zenon
<1>27. Selects(T)
  BY <1>23, <1>24, <1>25, <1>26, Zenon DEF Selects
<1>28. SelectFires
  <2>1. Ready(dispatch_select_events_)
    BY <1>5, Zenon
  <2>2. Fire(dispatch_select_events_, {dispatch_issue_events_}, {}, out)
    BY <1>5, Zenon
  <2>3. \A mail \in out : mail[1] = following_renaming_credit_in
    BY <1>5, Zenon
  <2> QED BY <2>1, <2>2, <2>3, Zenon DEF SelectFires
<1> QED BY <1>21, <1>27, <1>28, Zenon

\* The order of the handlers of a cycle, as far as it is declared: one link of
\* a chain more.
Longer(r) ==
    r \cup UNION {{<<ab[1], c>> : c \in {bc[2] : bc \in {x \in r : x[1] = ab[2]}}} : ab \in r}

FirstLinks == DeclaredOrder \cup PortsBeforeEvents \cup ZeroDelayOrder \cup FlushPhaseFirst

\* What Before is built from.
LEMMA BeforeUnfolds ==
  Before = (CHOOSE f : f = [n \in 0 .. 5 |-> IF n = 0 THEN FirstLinks ELSE Longer(f[n - 1])])[5]
BY Zenon DEF Before, FirstLinks, Longer

\* A declared order holds.
LEMMA LinksAreBefore == FirstLinks \subseteq Before
<1> DEFINE One(f) == f = [n \in 0 .. 5 |-> IF n = 0 THEN FirstLinks ELSE Longer(f[n - 1])]
<1>1. PICK r1, r2, r3, r4, r5 :
        /\ r1 = Longer(FirstLinks) /\ r2 = Longer(r1) /\ r3 = Longer(r2) /\ r4 = Longer(r3)
        /\ r5 = Longer(r4)
  OBVIOUS
<1>2. PICK u : u = [n \in 0 .. 5 |-> IF n = 0 THEN FirstLinks ELSE IF n = 1 THEN r1
                       ELSE IF n = 2 THEN r2 ELSE IF n = 3 THEN r3 ELSE IF n = 4 THEN r4 ELSE r5]
  OBVIOUS
<1>3. One(u)
  <2>1. ASSUME NEW n \in 0 .. 5
        PROVE  u[n] = IF n = 0 THEN FirstLinks ELSE Longer(u[n - 1])
    <3>1. n = 0 \/ n = 1 \/ n = 2 \/ n = 3 \/ n = 4 \/ n = 5
      OBVIOUS
    <3>2. u[0] = FirstLinks /\ u[1] = r1 /\ u[2] = r2 /\ u[3] = r3 /\ u[4] = r4 /\ u[5] = r5
      BY <1>2
    <3>3. 1 - 1 = 0 /\ 2 - 1 = 1 /\ 3 - 1 = 2 /\ 4 - 1 = 3 /\ 5 - 1 = 4 /\ 1 # 0 /\ 2 # 0
          /\ 3 # 0 /\ 4 # 0 /\ 5 # 0
      OBVIOUS
    <3> QED BY <1>1, <3>1, <3>2, <3>3, Zenon
  <2>2. u = [n \in 0 .. 5 |-> u[n]]
    BY <1>2
  <2> QED BY <2>1, <2>2, Zenon
<1>4. PICK f : f = CHOOSE g : One(g)
  OBVIOUS
<1>5. One(f)
  BY <1>3, <1>4, Zenon
<1>6. \A n \in 0 .. 5 : f[n] = IF n = 0 THEN FirstLinks ELSE Longer(f[n - 1])
  BY <1>5, Zenon
<1>7. \A r : r \subseteq Longer(r)
  BY Zenon DEF Longer
<1>8. /\ f[0] = FirstLinks /\ f[1] = Longer(f[0]) /\ f[2] = Longer(f[1]) /\ f[3] = Longer(f[2])
      /\ f[4] = Longer(f[3]) /\ f[5] = Longer(f[4])
  <2>1. 0 \in 0 .. 5 /\ 1 \in 0 .. 5 /\ 2 \in 0 .. 5 /\ 3 \in 0 .. 5 /\ 4 \in 0 .. 5 /\ 5 \in 0 .. 5
    OBVIOUS
  <2>2. 1 - 1 = 0 /\ 2 - 1 = 1 /\ 3 - 1 = 2 /\ 4 - 1 = 3 /\ 5 - 1 = 4 /\ 1 # 0 /\ 2 # 0
        /\ 3 # 0 /\ 4 # 0 /\ 5 # 0
    OBVIOUS
  <2> QED BY <1>6, <2>1, <2>2, Zenon
<1>9. f[0] \subseteq f[1] /\ f[1] \subseteq f[2] /\ f[2] \subseteq f[3] /\ f[3] \subseteq f[4]
      /\ f[4] \subseteq f[5]
  BY <1>7, <1>8, Zenon
<1>10. Before = f[5]
  BY <1>4, BeforeUnfolds, Zenon
<1> QED BY <1>8, <1>9, <1>10, Zenon

\* When the dispatch stage issues, the reorder buffer has taken what is due.
LEMMA RobHasTaken ==
  ASSUME Ready(dispatch_issue_events_) PROVE now[preceding_rob_inst_in] = << >>
<1> DEFINE c == dispatch_issue_events_
           d == preceding_rob_inst_in
<1>1. <<d, c>> \in DeclaredOrder
  BY SMT DEF DeclaredOrder
<1>2. d \in Source /\ c \in Source
  BY Zenon DEF Source, OneDelayPort, UniqueEvent
<1>3. <<d, c>> \in Before
  BY <1>1, LinksAreBefore, Zenon DEF FirstLinks
<1> HIDE DEF c, d
<1>4. d \in Earlier[c]
  BY <1>2, <1>3, Zenon DEF Earlier
<1>5. ~Pending(d)
  BY <1>4, Zenon DEF Ready, c
<1> QED BY <1>5, Zenon DEF Pending, d

\* What the reorder buffer has not taken yet is still on its way to the dispatch
\* stage, too.
LEMMA OnBothWires ==
  ASSUME FateInv, Ready(dispatch_issue_events_), NEW i \in DOMAIN inst, Single(i, RobWire)
  PROVE  IsAt(i, AtDispatchWire, held)
<1> DEFINE d == preceding_rob_inst_in
           e == preceding_dispatch_inst_in
<1>1. PICK I : I = DOMAIN inst
  OBVIOUS
<1>2. d \in GroupPort /\ e \in GroupPort /\ d \in LinkPort /\ e \in LinkPort
  BY LinkPortHas, Zenon
<1>3. \A q \in GroupPort : MessageOf(q, I) = Seq(I)
  BY LinkPortsAre, Zenon DEF MessageOf
<1>4. PICK a \in Seq(Seq(I)), b \in Seq(Seq(I)), r \in Seq(Seq(I)) :
        a = now[e] /\ b = later[e] /\ r = later[d]
  <2>1. WiresOK
    BY Zenon DEF FateInv, CreditInv
  <2>2. Typed(e, Seq(I)) /\ Typed(d, Seq(I))
    BY <1>1, <1>2, <1>3, <2>1, Zenon DEF WiresOK
  <2> QED BY <2>2, Zenon DEF Typed
<1>5. r = b
  BY <1>4, Zenon DEF FateInv, SameSent
<1>6. RobWire = Joined(b)
  <2>1. now[d] = << >>
    BY RobHasTaken
  <2>2. << >> \o b = b
    BY EmptyConcat
  <2>3. OnTheWay(d) = b
    BY <1>4, <1>5, <2>1, <2>2, Zenon DEF OnTheWay
  <2> QED BY <2>3, Zenon DEF RobWire, Instructions
<1>7. PICK ab \in Seq(Seq(I)) : ab = a \o b
  <2>1. a \o b \in Seq(Seq(I))
    BY ConcatFacts
  <2> QED BY <2>1
<1>8. Instructions(e) = Joined(ab)
  BY <1>4, <1>7, Zenon DEF Instructions, OnTheWay
<1>9. ~Absent(i, Joined(ab))
  <2>1. ~Absent(i, Joined(b))
    BY <1>6, SingleOccurs, Zenon
  <2>2. PICK m \in 1 .. Len(b) : ~Absent(i, b[m])
    BY <2>1, JoinedHas, Zenon DEF AbsentAmong
  <2>3. Len(a) + m \in 1 .. Len(ab) /\ ab[Len(a) + m] = b[m]
    BY <1>7
  <2>4. ~AbsentAmong(i, ab, Len(ab))
    BY <2>2, <2>3, Zenon DEF AbsentAmong
  <2> QED BY <2>4, JoinedHas, Zenon
<1>10. ~Absent(i, held[AtDispatchWire])
  BY <1>8, <1>9, HeldIs, Zenon
<1>11. \E x \in EarlyPlace : IsAt(i, x, held)
  <2>1. HasFate(i, Unrenamed, RobWire, Entries, held) /\ ~Absent(i, RobWire)
    BY SingleOccurs, Zenon DEF FateInv, Fates
  <2> QED BY <2>1, Zenon DEF HasFate, IsFetched, IsRenamed, IsAwaited, IsFinished
<1> QED BY <1>10, <1>11, PlacesDiffer, Zenon DEF IsAt

\* What the dispatch stage sends the stations: to each what is pending for it.
LEMMA IssueMails ==
  ASSUME NEW pending, NEW out,
         out = UNION {Post(preceding_reservation_inst_in(p), <<pending[p]>>) :
                        p \in {q \in Pipe : pending[q] # << >>}}
  PROVE  /\ \A mail \in out : \E p \in Pipe : mail[1] = preceding_reservation_inst_in(p)
         /\ \A p \in Pipe : Sent(out, preceding_reservation_inst_in(p)) =
               IF pending[p] = << >> THEN << >> ELSE <<pending[p]>>
<1> DEFINE to(p) == preceding_reservation_inst_in(p)
<1>1. \A p \in Pipe : pending[p] # << >> => <<to(p), <<pending[p]>>>> \in out
  BY DEF Post
<1>2. ASSUME NEW mail \in out
      PROVE  \E p \in Pipe : pending[p] # << >> /\ mail = <<to(p), <<pending[p]>>>>
  BY <1>2 DEF Post
<1>3. \A p, q \in Pipe : p # q => to(p) # to(q)
  BY LinkPortsDiffer, Zenon
<1> HIDE DEF to
<1>4. ASSUME NEW mail \in out PROVE \E p \in Pipe : mail[1] = to(p)
  <2>1. PICK p \in Pipe : mail = <<to(p), <<pending[p]>>>>
    BY <1>2
  <2>2. mail[1] = to(p)
    BY <2>1
  <2> QED BY <2>2
<1>5. ASSUME NEW p \in Pipe
      PROVE  Sent(out, to(p)) = IF pending[p] = << >> THEN << >> ELSE <<pending[p]>>
  <2>1. CASE pending[p] = << >>
    <3>1. ASSUME NEW mail \in out PROVE mail[1] # to(p)
      <4>1. PICK q \in Pipe : pending[q] # << >> /\ mail = <<to(q), <<pending[q]>>>>
        BY <1>2
      <4>2. mail[1] = to(q) /\ p # q
        BY <2>1, <4>1
      <4> QED BY <1>3, <4>2, Zenon
    <3> QED BY <2>1, <3>1, Zenon DEF Sent
  <2>2. CASE pending[p] # << >>
    <3>1. PICK g : g = <<pending[p]>>
      OBVIOUS
    <3>2. <<to(p), g>> \in out
      BY <1>1, <2>2, <3>1, Zenon
    <3>3. ASSUME NEW mail \in out, mail[1] = to(p) PROVE mail = <<to(p), g>>
      <4>1. PICK q \in Pipe : mail = <<to(q), <<pending[q]>>>>
        BY <1>2
      <4>2. mail[1] = to(q)
        BY <4>1
      <4>3. p = q
        BY <1>3, <3>3, <4>2, Zenon
      <4> QED BY <3>1, <4>1, <4>3, Zenon
    <3>4. Sent(out, to(p)) = g
      BY <3>2, <3>3, SentOnly
    <3> QED BY <2>2, <3>1, <3>4, Zenon
  <2> QED BY <2>1, <2>2
<1> QED BY <1>4, <1>5, Zenon DEF to

\* The dispatch stage sends the stations what it chose for them.
LEMMA IssueInstFate ==
  ASSUME FateInv, IssueInst_, UNCHANGED <<fetch_credit, renamingVars, rob, rsVars, fuVars>>
  PROVE  FateInv'
<1>1. CreditInv' /\ CreditInv /\ LateWires
  BY IssueInstStep, Zenon DEF FateInv
<1>2. PICK I : I = DOMAIN inst
  OBVIOUS
<1>3. PICK c, m, next, out :
        /\ c = dispatch_issue_events_ /\ m = dispatch_pending_queue
        /\ next = IF inst_queue = << >> THEN {} ELSE {dispatch_select_events_}
        /\ out = UNION {Post(preceding_reservation_inst_in(p), <<m[p]>>) :
                          p \in {q \in Pipe : m[q] # << >>}}
        /\ Ready(c) /\ Fire(c, {}, next, out)
        /\ dispatch_pending_queue' = [p \in Pipe |-> << >>]
        /\ inst' = inst /\ inst_queue' = inst_queue
  BY Zenon DEF IssueInst_
<1>4. m \in [Pipe -> Seq(I)]
  BY <1>1, <1>2, <1>3, Zenon DEF CreditInv, StationInv
<1>5. c \in UniqueEvent /\ Events({}, next)
  BY <1>3 DEF Events, UniqueEvent
<1>6. c \notin WorkPort /\ c \notin LinkPort
  BY <1>5, NotWork, LinkPortsDiffer, Zenon
<1>7. /\ \A mail \in out : \E p \in Pipe : mail[1] = preceding_reservation_inst_in(p)
      /\ \A p \in Pipe : Sent(out, preceding_reservation_inst_in(p)) =
            IF m[p] = << >> THEN << >> ELSE <<m[p]>>
  <2>1. out = UNION {Post(preceding_reservation_inst_in(p), <<m[p]>>) :
                       p \in {q \in Pipe : m[q] # << >>}}
    BY <1>3
  <2> QED BY <2>1, IssueMails
<1>8. UNCHANGED <<rob, renaming_stage_queue, reservation_station, alu_queue, inst_queue_map>>
  BY Zenon DEF renamingVars, rsVars, fuVars
<1>9. More /\ SameTags /\ DOMAIN inst' = DOMAIN inst /\ LateQueues'
  BY <1>3, <1>8, Zenon DEF More, SameTags, FateInv, LateQueues
<1>10. \A d \in WorkPort : (\A p \in Pipe : d # preceding_reservation_inst_in(p))
         => \A mail \in out : mail[1] # d
  BY <1>7, Zenon
<1>11. /\ preceding_renaming_inst_in \in WorkPort /\ preceding_rob_inst_in \in WorkPort
       /\ preceding_dispatch_inst_in \in WorkPort
       /\ preceding_write_back_inst_in \in WorkPort /\ write_back_rob_finish_in \in WorkPort
       /\ \A p \in Pipe : /\ preceding_renaming_inst_in # preceding_reservation_inst_in(p)
                          /\ preceding_rob_inst_in # preceding_reservation_inst_in(p)
                          /\ preceding_dispatch_inst_in # preceding_reservation_inst_in(p)
                          /\ preceding_write_back_inst_in # preceding_reservation_inst_in(p)
                          /\ write_back_rob_finish_in # preceding_reservation_inst_in(p)
  <2>1. \A p \in Pipe : preceding_reservation_inst_in(p) \in LinkPort
    BY LinkPortHas, Zenon
  <2> QED BY <2>1, WorkPortHas, LinkPortsDiffer, LatePortsAre, Zenon
<1>12. /\ c \notin FirstPort
       /\ \A mail \in out : mail[1] \notin FirstPort \cup {preceding_dispatch_inst_in}
       /\ \A mail \in out : mail[1] \notin LatePort
  <2>1. FirstPort \subseteq WorkPort
    BY <1>11, Zenon DEF FirstPort
  <2>2. \A p \in Pipe : preceding_reservation_inst_in(p) \in LinkPort
    BY LinkPortHas, Zenon
  <2> QED BY <1>6, <1>7, <1>11, <2>1, <2>2, LatePortsAre, Zenon DEF FirstPort
<1>13. /\ RestKept
       /\ \A d \in WorkPort : (\A p \in Pipe : d # preceding_reservation_inst_in(p))
            => OnTheWay(d)' = OnTheWay(d)
  <2>1. \A mail \in out : mail[1] \in LatePort => mail[2] \in Seq(LateMessage(mail[1], DOMAIN inst'))
    BY <1>12, Zenon
  <2>2. rob' = rob /\ renaming_stage_queue' = renaming_stage_queue
    BY <1>8, Zenon
  <2>3. Ready(c) /\ Fire(c, {}, next, out)
    BY <1>3, Zenon
  <2>4. RestKept /\ \A q \in WorkPort :
            q # c /\ (\A mail \in out : mail[1] # q) => OnTheWay(q)' = OnTheWay(q)
    <3>1. LeavesRest(c, {}, next, out)
      BY <1>5, <1>9, <1>12, <2>1, <2>2, <2>3, Zenon DEF LeavesRest
    <3> QED BY <1>1, <3>1, RestOf, Zenon
  <2> QED BY <1>6, <1>10, <2>4, Zenon
<1>14. WiresOK' /\ Delivered(out)
  <2>1. ASSUME NEW mail \in out PROVE mail[2] \in Seq(MessageOf(mail[1], DOMAIN inst'))
    <3>0. PICK p \in Pipe : m[p] # << >> /\ mail = <<preceding_reservation_inst_in(p), <<m[p]>>>>
      BY <1>3 DEF Post
    <3>1. PICK g : g = <<m[p]>> /\ mail = <<preceding_reservation_inst_in(p), g>>
      BY <3>0, Zenon
    <3>2. g \in Seq(MessageOf(preceding_reservation_inst_in(p), I))
      BY <1>4, <3>1, LinkPortHas, GroupIsTyped, Zenon
    <3>3. mail[1] = preceding_reservation_inst_in(p) /\ mail[2] = g
      BY <3>1
    <3> QED BY <1>2, <1>9, <3>2, <3>3, Zenon
  <2>2. Carries(out, DOMAIN inst')
    BY <2>1, Zenon DEF Carries
  <2>3. Ready(c) /\ Fire(c, {}, next, out)
    BY <1>3, Zenon
  <2> QED BY <1>1, <1>5, <1>6, <1>9, <2>2, <2>3, EventStep, Zenon
<1>15. ASSUME NEW p \in Pipe
       PROVE  /\ Parts(held'[AtStationWire(p)], held[AtStationWire(p)], held[AtPending(p)])
              /\ held'[AtPending(p)] = << >>
  <2>1. PICK d : d = preceding_reservation_inst_in(p) /\ d \in GroupPort /\ d \in LinkPort
    BY LinkPortHas, Zenon
  <2>2. PICK w \in Seq(Seq(I)) : w = OnTheWay(d)
    BY <1>1, <1>2, <2>1, GroupWire, Zenon DEF CreditInv
  <2>3. PICK v : v = OnTheWay(d)'
    OBVIOUS
  <2>4. OnTheWay(d)' = OnTheWay(d) \o Sent(out, d)
    BY <1>14, <2>1, Zenon DEF Delivered
  <2>5. v = w \o <<m[p]>> \/ (m[p] = << >> /\ v = w)
    <3>1. CASE m[p] = << >>
      <4>1. Sent(out, d) = << >>
        BY <1>7, <2>1, <3>1, Zenon
      <4>2. w \o << >> = w
        BY EmptyConcat
      <4> QED BY <2>2, <2>3, <2>4, <3>1, <4>1, <4>2, Zenon
    <3>2. CASE m[p] # << >>
      <4>1. Sent(out, d) = <<m[p]>>
        BY <1>7, <2>1, <3>2, Zenon
      <4> QED BY <2>2, <2>3, <2>4, <4>1, Zenon
    <3> QED BY <3>1, <3>2
  <2>6. m[p] \in Seq(I)
    BY <1>4
  <2>7. Parts(Joined(v), Joined(w), m[p])
    BY <2>5, <2>6, SentOver
  <2>8. Joined(w) = Instructions(d) /\ Joined(v) = Instructions(d)'
    BY <2>2, <2>3, Zenon DEF Instructions
  <2>9. dispatch_pending_queue'[p] = << >>
    BY <1>3
  <2> QED BY <1>3, <2>1, <2>7, <2>8, <2>9, HeldIs, HeldIsPrime, Zenon
<1>16. PICK x \in [Pipe -> Place], y \in [Pipe -> Place] :
         \A p \in Pipe : x[p] = AtPending(p) /\ y[p] = AtStationWire(p)
  <2>1. \A p \in Pipe : AtPending(p) \in Place /\ AtStationWire(p) \in Place
    BY PlacesDiffer
  <2>2. [p \in Pipe |-> AtPending(p)] \in [Pipe -> Place]
        /\ [p \in Pipe |-> AtStationWire(p)] \in [Pipe -> Place]
    BY <2>1
  <2>3. \A p \in Pipe : [q \in Pipe |-> AtPending(q)][p] = AtPending(p)
                        /\ [q \in Pipe |-> AtStationWire(q)][p] = AtStationWire(p)
    OBVIOUS
  <2> QED BY <2>2, <2>3, Zenon
<1>17. PICK X : X = {x[p] : p \in Pipe} \cup {y[p] : p \in Pipe}
  OBVIOUS
<1>18. Kept(X)
  <2>1. \A q \in Pipe : AtPending(q) \in X /\ AtStationWire(q) \in X
    BY <1>16, <1>17
  <2>2. \A p, q \in Pipe : preceding_func_inst_in(q) # preceding_reservation_inst_in(p)
    BY LinkPortsDiffer, Zenon
  <2> QED BY <1>3, <1>8, <1>11, <1>13, <2>1, <2>2, WorkPortHas, Zenon DEF Kept
<1>19. PICK h, g : h = held /\ g = held'
  OBVIOUS
<1>20. \A z \in Place : (\A p \in Pipe : z # x[p] /\ z # y[p]) => g[z] = h[z]
  <2>1. \A z \in Place : (\A p \in Pipe : z # x[p] /\ z # y[p]) => z \notin X
    BY <1>17
  <2> QED BY <1>18, <1>19, <2>1, KeptHeld, Zenon
<1>21. /\ \A p, q \in Pipe : x[p] # y[q]
       /\ \A p, q \in Pipe : p # q => x[p] # x[q] /\ y[p] # y[q]
       /\ \A p \in Pipe : AtDispatchWire # x[p]
  <2>1. \A p, q \in Pipe : /\ AtPending(p) # AtStationWire(q) /\ AtDispatchWire # AtPending(p)
                           /\ p # q => /\ AtPending(p) # AtPending(q)
                                       /\ AtStationWire(p) # AtStationWire(q)
    BY DEF AtPending, AtStationWire, AtDispatchWire
  <2> QED BY <1>16, <2>1, Zenon
<1>22. ASSUME NEW i \in DOMAIN inst
       PROVE  Moves(i, h, g) /\ (Single(i, RobWire) => StaysEarly(i, h, g))
  <2>1. \A p \in Pipe : Parts(g[y[p]], h[y[p]], h[x[p]]) /\ g[x[p]] = << >>
    BY <1>15, <1>16, <1>19, Zenon
  <2>2. /\ Moves(i, h, g)
        /\ \A z \in Place : (\A p \in Pipe : z # x[p]) /\ IsAt(i, z, h) => IsAt(i, z, g)
    <3>1. /\ \A p, q \in Pipe : x[p] # y[q]
          /\ \A p, q \in Pipe : p # q => x[p] # x[q] /\ y[p] # y[q]
      BY <1>21
    <3>2. \A z \in Place : (\A p \in Pipe : z # x[p] /\ z # y[p]) => g[z] = h[z]
      BY <1>20
    <3>3. Swept(h, g, x, y)
      BY <2>1, <3>1, <3>2, Zenon DEF Swept
    <3> QED BY <3>3, ManyToMany, Zenon
  <2>3. ASSUME Single(i, RobWire) PROVE StaysEarly(i, h, g)
    <3>1. IsAt(i, AtDispatchWire, h)
      BY <1>3, <1>19, <2>3, OnBothWires, Zenon
    <3>2. AtDispatchWire \in Place /\ AtDispatchWire \in EarlyPlace
      BY PlacesDiffer
    <3>3. IsAt(i, AtDispatchWire, g)
      BY <1>21, <2>2, <3>1, <3>2, Zenon
    <3> QED BY <3>2, <3>3, Zenon DEF StaysEarly
  <2> QED BY <2>2, <2>3, Zenon
<1> QED BY <1>13, <1>19, <1>22, MovedFate, Zenon

-----------------------------------------------------------------------------
(* The handlers in front of the reorder buffer, and the buffer's own.      *)

\* The step changes no registers but those of what was unrenamed, and nobody's
\* flags; new instructions have none.  What moves is on its way to the dispatch
\* stage, has been unrenamed until then, or leaves the last wire.
Advances ==
    /\ More
    /\ \A i \in DOMAIN inst : SameFlags(inst, inst', i)
    /\ \A i \in DOMAIN inst :
          Absent(i, Unrenamed) => SameRegs(inst, inst', i) /\ Absent(i, Unrenamed')
    /\ \A i \in DOMAIN inst' : i \in DOMAIN inst \/ Unflagged(inst', i)
    /\ \A i \in DOMAIN inst :
          /\ Absent(i, held'[AtDispatchWire]) => Absent(i, held[AtDispatchWire])
          /\ Absent(i, Unrenamed) /\ Absent(i, held[AtDispatchWire]) => Absent(i, held'[AtDispatchWire])
    /\ \A z \in Place : z # AtDispatchWire /\ z # AtFinishWire => held'[z] = held[z]

\* Then no place changes.
LEMMA AllStay ==
  ASSUME Kept({}) PROVE \A z \in Place : held'[z] = held[z]
<1>1. PICK X : X = {} /\ Kept(X)
  BY Zenon
<1>2. \A z \in Place : z \notin X
  BY <1>1
<1> QED BY <1>1, <1>2, KeptHeld, Zenon

\* When nothing moves but what leaves the last wire.
LEMMA StaysAdvances ==
  ASSUME DOMAIN inst' = DOMAIN inst,
         \A i \in DOMAIN inst : SameFlags(inst, inst', i) /\ SameRegs(inst, inst', i),
         Unrenamed' = Unrenamed, \A z \in Place : z # AtFinishWire => held'[z] = held[z]
  PROVE  Advances
<1>1. held'[AtDispatchWire] = held[AtDispatchWire]
  BY PlacesDiffer DEF AtDispatchWire, AtFinishWire
<1> QED BY <1>1, Zenon DEF Advances, More

\* In particular when the program stays as it is.
LEMMA SameAdvances ==
  ASSUME inst' = inst, Unrenamed' = Unrenamed,
         \A z \in Place : z # AtFinishWire => held'[z] = held[z]
  PROVE  Advances
<1>1. \A i \in DOMAIN inst : SameFlags(inst, inst', i) /\ SameRegs(inst, inst', i)
  BY Zenon DEF SameFlags, SameRegs
<1> QED BY <1>1, StaysAdvances, Zenon

\* A step that has nothing to do with any of this.
LEMMA NothingAdvances ==
  ASSUME \A d \in WorkPort : OnTheWay(d)' = OnTheWay(d), inst' = inst,
         UNCHANGED <<renaming_stage_queue, inst_queue, dispatch_pending_queue, reservation_station,
                     alu_queue, inst_queue_map>>
  PROVE  Advances
<1>1. Kept({})
  BY AllKept, Zenon
<1>2. Unrenamed' = Unrenamed
  BY WorkPortHas, Zenon DEF Unrenamed, Instructions
<1> QED BY <1>1, <1>2, AllStay, SameAdvances, Zenon

\* Such as one that sends nothing.
LEMMA NothingSent ==
  ASSUME CreditInv, LateWires, NEW c, c \notin WorkPort, NEW soon, NEW next,
         Fire(c, soon, next, Nothing), Events(soon, next)
  PROVE  \A d \in WorkPort : OnTheWay(d)' = OnTheWay(d)
<1>1. PICK out : out = Nothing
  OBVIOUS
<1>2. Fire(c, soon, next, out) /\ \A mail \in out : FALSE
  BY <1>1, NotWork, Zenon
<1>3. ASSUME NEW d \in WorkPort PROVE OnTheWay(d)' = OnTheWay(d)
  <2>1. d # c /\ \A mail \in out : mail[1] # d
    BY <1>2, <1>3, Zenon
  <2> QED BY <1>2, <1>3, <2>1, WorkQuiet, Zenon
<1> QED BY <1>3, Zenon

\* The renaming stage puts the fetched instructions in its queue.
LEMMA RenamingAllocateFate ==
  ASSUME FateInv, RenamingAllocateInst_,
         UNCHANGED <<fetch_credit, rob, dispatchVars, rsVars, fuVars>>
  PROVE  FateInv' /\ Advances
<1>1. PICK c : c = preceding_renaming_inst_in
  OBVIOUS
<1>2. /\ Ready(c) /\ Fire(c, {rename_event}, {}, Nothing)
      /\ renaming_stage_queue' = renaming_stage_queue \o Message(c) /\ inst' = inst
  BY <1>1, Zenon DEF RenamingAllocateInst_
<1>3. Events({rename_event}, {})
  BY DEF Events, UniqueEvent
<1>4. /\ c \in GroupPort /\ c \in LinkPort /\ c \notin LatePort
      /\ \A mail \in Nothing : mail[1] \notin LatePort
  BY <1>1, LinkPortHas, LatePortsAre, NotWork, Zenon
<1>5. CreditInv /\ LateWires /\ SameSent /\ More
  BY <1>2, Zenon DEF FateInv, More
<1>6. CreditInv'
  BY RenamingAllocateStep, Zenon DEF FateInv
<1>7. /\ WiresOK' /\ \A d \in LinkPort : d # c => Quiet(d)
      /\ OnTheWay(c) # << >> /\ Message(c) = Head(OnTheWay(c))
      /\ OnTheWay(c)' = Tail(OnTheWay(c)) \o << >>
  BY <1>2, <1>3, <1>4, <1>5, TakingStep
<1>8. /\ Message(c) \in Seq(DOMAIN inst) /\ Instructions(c)' \in Seq(DOMAIN inst)
      /\ Instructions(c) = Message(c) \o Instructions(c)'
  BY <1>4, <1>5, <1>7, TakesGroup, Zenon DEF CreditInv
<1>9. PICK q \in Seq(DOMAIN inst), g \in Seq(DOMAIN inst), r \in Seq(DOMAIN inst) :
         q = renaming_stage_queue /\ g = Message(c) /\ r = Instructions(c)'
  BY <1>5, <1>8, LineParts
<1>10. (q \o g) \o r = q \o (g \o r)
  OBVIOUS
<1>11. Unrenamed' = Unrenamed
  BY <1>1, <1>2, <1>8, <1>9, <1>10, Zenon DEF Unrenamed
<1>12. /\ LateWires'
       /\ OnTheWay(write_back_rob_finish_in)' = OnTheWay(write_back_rob_finish_in)
       /\ OnTheWay(preceding_write_back_inst_in)' = OnTheWay(preceding_write_back_inst_in)
  BY <1>2, <1>3, <1>4, <1>5, LateQuiet, Zenon
<1>13. SameSent'
  <2>1. \A mail \in Nothing : mail[1] # preceding_rob_inst_in /\ mail[1] # preceding_dispatch_inst_in
    BY NotWork, Zenon
  <2> QED BY <1>2, <1>5, <2>1, SameSentQuiet, Zenon
<1>14. \A d \in LinkPort : d # c => OnTheWay(d)' = OnTheWay(d)
  BY <1>7, QuietPortSame, Zenon
<1>15. /\ preceding_rob_inst_in # c /\ preceding_dispatch_inst_in # c
       /\ \A p \in Pipe : preceding_reservation_inst_in(p) # c /\ preceding_func_inst_in(p) # c
  BY <1>1 DEF preceding_rob_inst_in, preceding_dispatch_inst_in, preceding_renaming_inst_in,
     preceding_reservation_inst_in, preceding_func_inst_in
<1>16. RobWire' = RobWire
  BY <1>14, <1>15, LinkPortHas, Zenon DEF RobWire, Instructions
<1>17. UNCHANGED <<rob, inst_queue, dispatch_pending_queue, reservation_station, alu_queue,
                   inst_queue_map>>
  BY Zenon DEF dispatchVars, rsVars, fuVars
<1>18. LateQueues' /\ SameTags
  BY <1>2, <1>17, Zenon DEF LateQueues, SameTags, FateInv
<1>19. RestKept
  BY <1>2, <1>6, <1>11, <1>12, <1>13, <1>16, <1>17, <1>18, Zenon DEF RestKept
<1>20. Kept({})
  BY <1>12, <1>14, <1>15, <1>17, LinkPortHas, Zenon DEF Kept
<1>21. \A z \in {} : Alike(held[z], held'[z])
  OBVIOUS
<1>22. Advances
  BY <1>2, <1>11, <1>20, AllStay, SameAdvances, Zenon
<1> QED BY <1>19, <1>20, <1>21, <1>22, NoneMoves, Zenon

\* A group goes from the unrenamed to the reorder buffer's wire and, as well, to
\* the place x.
LEMMA RenamedMoves ==
  ASSUME NEW i, NEW un, NEW un2, NEW rw, NEW rw2, NEW es, NEW h, NEW g, NEW x \in EarlyPlace,
         NEW grp, Parts(un, grp, un2), Parts(rw2, rw, grp), Parts(g[x], h[x], grp),
         \A z \in Place : z # x => g[z] = h[z], HasFate(i, un, rw, es, h)
  PROVE  HasFate(i, un2, rw2, es, g)
<1>1. x \in Place
  BY PlacesDiffer DEF EarlyPlace, Place
<1>2. /\ Absent(i, un) <=> Absent(i, grp) /\ Absent(i, un2)
      /\ Single(i, un) => \/ Single(i, grp) /\ Absent(i, un2)
                          \/ Absent(i, grp) /\ Single(i, un2)
      /\ Absent(i, rw2) <=> Absent(i, rw) /\ Absent(i, grp)
      /\ Single(i, rw2) <=> \/ Single(i, rw) /\ Absent(i, grp)
                            \/ Absent(i, rw) /\ Single(i, grp)
      /\ Absent(i, g[x]) <=> Absent(i, h[x]) /\ Absent(i, grp)
      /\ Single(i, g[x]) <=> \/ Single(i, h[x]) /\ Absent(i, grp)
                             \/ Absent(i, h[x]) /\ Single(i, grp)
  BY Zenon DEF Parts
<1>3. CASE IsFetched(i, un, rw, es, h) /\ Single(i, grp)
  <2>1. Absent(i, un2) /\ Single(i, rw2) /\ Absent(i, InstsOf(es))
    <3>1. ~Absent(i, grp)
      BY <1>3, SingleOccurs, Zenon
    <3> QED BY <1>2, <1>3, <3>1, Zenon DEF IsFetched
  <2>2. \A z \in Place : Absent(i, h[z])
    BY <1>3, Zenon DEF IsFetched, Nowhere
  <2>3. IsAt(i, x, g)
    BY <1>1, <1>2, <1>3, <2>2, Zenon DEF IsAt
  <2> QED BY <2>1, <2>3, Zenon DEF HasFate, IsRenamed
<1>4. CASE Absent(i, grp)
  <2>1. /\ Absent(i, un2) <=> Absent(i, un)
        /\ Single(i, un) => Single(i, un2)
        /\ Absent(i, rw2) <=> Absent(i, rw)
        /\ Single(i, rw2) <=> Single(i, rw)
        /\ Absent(i, g[x]) <=> Absent(i, h[x])
        /\ Single(i, g[x]) <=> Single(i, h[x])
    <3>1. ~Single(i, grp)
      BY <1>4, SingleOccurs, Zenon
    <3> QED BY <1>2, <1>4, <3>1, Zenon
  <2>2. \A z \in Place : (Absent(i, h[z]) <=> Absent(i, g[z])) /\ (Single(i, h[z]) <=> Single(i, g[z]))
    BY <2>1, Zenon
  <2>3. Nowhere(i, h) => Nowhere(i, g)
    BY <2>2, Zenon DEF Nowhere
  <2>4. \A z \in Place : IsAt(i, z, h) => IsAt(i, z, g)
    BY <2>2, Zenon DEF IsAt
  <2>5. \A z \in EarlyPlace : z \in Place
    BY PlacesDiffer DEF EarlyPlace, Place
  <2>6. CASE IsFetched(i, un, rw, es, h)
    BY <2>1, <2>3, <2>6, Zenon DEF HasFate, IsFetched
  <2>7. CASE IsRenamed(i, un, rw, es, h)
    BY <2>1, <2>4, <2>5, <2>7, Zenon DEF HasFate, IsRenamed
  <2>8. CASE IsAwaited(i, un, rw, es, h)
    BY <2>1, <2>4, <2>8, Zenon DEF HasFate, IsAwaited
  <2>9. CASE IsFinished(i, un, rw, es, h)
    BY <2>1, <2>3, <2>9, Zenon DEF HasFate, IsFinished
  <2> QED BY <2>6, <2>7, <2>8, <2>9, Zenon DEF HasFate
<1>5. Absent(i, grp) \/ (IsFetched(i, un, rw, es, h) /\ Single(i, grp))
  BY <1>2, Zenon DEF HasFate, IsFetched, IsRenamed, IsAwaited, IsFinished
<1> QED BY <1>3, <1>4, <1>5, Zenon

PostedThree(out, a, x, b, y, c, z) ==
    /\ Sent(out, a) = x /\ Sent(out, b) = y /\ Sent(out, c) = z
    /\ \A mail \in out : mail[1] \in {a, b, c}

\* What is posted to three ports.
LEMMA ThreePosts ==
  ASSUME NEW a, NEW x, NEW b, NEW y, NEW c, NEW z, NEW out, a # b, a # c, b # c,
         out = Post(a, x) \cup Post(b, y) \cup Post(c, z)
  PROVE  PostedThree(out, a, x, b, y, c, z)
<1>1. /\ <<a, x>> \in out /\ <<b, y>> \in out /\ <<c, z>> \in out
      /\ \A mail \in out : mail = <<a, x>> \/ mail = <<b, y>> \/ mail = <<c, z>>
  BY DEF Post
<1>2. Sent(out, a) = x /\ Sent(out, b) = y /\ Sent(out, c) = z
  <2>1. /\ (CHOOSE mail \in out : mail[1] = a) = <<a, x>>
        /\ (CHOOSE mail \in out : mail[1] = b) = <<b, y>>
        /\ (CHOOSE mail \in out : mail[1] = c) = <<c, z>>
    BY <1>1
  <2>2. /\ (\E mail \in out : mail[1] = a) /\ (\E mail \in out : mail[1] = b)
        /\ (\E mail \in out : mail[1] = c)
    BY <1>1
  <2>3. <<a, x>>[2] = x /\ <<b, y>>[2] = y /\ <<c, z>>[2] = z
    OBVIOUS
  <2> QED BY <2>1, <2>2, <2>3, Zenon DEF Sent
<1>3. \A mail \in out : mail[1] \in {a, b, c}
  BY <1>1
<1> QED BY <1>2, <1>3, Zenon DEF PostedThree

\* What the renaming stage sends goes over three ports, the same over two.
LEMMA RenameMails ==
  ASSUME NEW m \in Nat, NEW g, NEW out,
         out = IF m = 0 THEN Nothing
               ELSE Post(backend_fetch_credit_in, <<m>>)
                    \cup Post(preceding_rob_inst_in, <<g>>)
                    \cup Post(preceding_dispatch_inst_in, <<g>>)
  PROVE  /\ \A mail \in out : mail[1] \in {backend_fetch_credit_in, preceding_rob_inst_in,
                                            preceding_dispatch_inst_in}
         /\ Sent(out, preceding_rob_inst_in) = Sent(out, preceding_dispatch_inst_in)
<1>1. CASE m = 0
  <2>1. out = Nothing
    BY <1>1, Zenon
  <2>2. Sent(out, preceding_rob_inst_in) = << >> /\ Sent(out, preceding_dispatch_inst_in) = << >>
    BY <2>1, SentIs, Zenon
  <2> QED BY <2>1, <2>2, NotWork, Zenon
<1>2. CASE m # 0
  <2>1. PICK x, y, z, mm, gg : /\ x = backend_fetch_credit_in /\ y = preceding_rob_inst_in
                               /\ z = preceding_dispatch_inst_in
                               /\ mm = <<m>> /\ gg = <<g>>
    OBVIOUS
  <2>2. x # y /\ x # z /\ y # z
    BY <2>1, LinkPortHas, LinkPortsDiffer, Zenon
  <2>3. out = Post(x, mm) \cup Post(y, gg) \cup Post(z, gg)
    BY <1>2, <2>1, Zenon
  <2>4. PostedThree(out, x, mm, y, gg, z, gg)
    BY <2>2, <2>3, ThreePosts, Zenon
  <2>5. Sent(out, y) = gg /\ Sent(out, z) = gg
    BY <2>4, Zenon DEF PostedThree
  <2>6. \A mail \in out : mail[1] \in {x, y, z}
    BY <2>4, Zenon DEF PostedThree
  <2> QED BY <2>1, <2>5, <2>6, Zenon
<1> QED BY <1>1, <1>2

\* The fates when the tags and the entries stay.
LEMMA SameEntriesFate ==
  ASSUME FateInv, CreditInv', LateWires', LateQueues', SameSent', rob' = rob,
         DOMAIN inst' = DOMAIN inst, SameTags,
         \A i \in DOMAIN inst : HasFate(i, Unrenamed', RobWire', Entries, held')
  PROVE  FateInv'
<1>1. OwnTags'
  BY TagsFrame, Zenon DEF FateInv
<1>2. Entries' = Entries
  BY Zenon DEF Entries
<1>3. Fates'
  BY <1>2, Zenon DEF Fates
<1> QED BY <1>1, <1>3, Zenon DEF FateInv

\* The renaming stage renames instructions.
LEMMA RenameFate ==
  ASSUME FateInv, RenameInst_, UNCHANGED <<fetch_credit, rob, dispatchVars, rsVars, fuVars>>
  PROVE  FateInv' /\ Advances
<1>1. Ready(rename_event) /\ CreditInv /\ LateWires /\ SameSent
  BY Zenon DEF RenameInst_, FateInv
<1>2. CreditInv'
  BY <1>1, RenameStep, Zenon
<1>3. UNCHANGED <<rob, inst_queue, dispatch_pending_queue, reservation_station, alu_queue,
                  inst_queue_map>>
  BY Zenon DEF dispatchVars, rsVars, fuVars
<1>4. rename_event \in UniqueEvent /\ rename_event \notin WorkPort
  BY NotWork DEF UniqueEvent
<1>5. CASE renaming_stage_queue # << >> /\ IsEmpty(free_list)
  <2>1. Fire(rename_event, {}, {rename_event}, Nothing) /\ UNCHANGED <<inst, renamingVars>>
    BY <1>5, Zenon DEF RenameInst_
  <2>2. Events({}, {rename_event})
    BY <1>4 DEF Events
  <2>3. renaming_stage_queue' = renaming_stage_queue /\ inst' = inst
    BY <2>1, Zenon DEF renamingVars
  <2>4. \A mail \in Nothing : mail[1] \notin WorkPort
    BY NotWork, Zenon
  <2>5. FateInv'
    BY <1>1, <1>2, <1>3, <1>4, <2>1, <2>2, <2>3, <2>4, NoEffect, Zenon
  <2>6. Advances
    <3>1. \A d \in WorkPort : OnTheWay(d)' = OnTheWay(d)
      BY <1>1, <1>4, <2>1, <2>2, NothingSent, Zenon
    <3> QED BY <1>3, <2>3, <3>1, NothingAdvances, Zenon
  <2> QED BY <2>5, <2>6
<1>6. CASE ~(renaming_stage_queue # << >> /\ IsEmpty(free_list))
  <2>1. PICK n \in Nat, m \in Nat :
           /\ Program(inst, n) /\ TaggedAlike(inst', n)
           /\ m <= dispatch_credit /\ m <= rob_credit /\ m <= Len(renaming_stage_queue)
           /\ renaming_stage_queue' = SubSeq(renaming_stage_queue, m + 1, Len(renaming_stage_queue))
           /\ dispatch_credit' = dispatch_credit - m
           /\ rob_credit' = rob_credit - m
           /\ Fire(rename_event, {}, {},
                   IF m = 0 THEN Nothing
                   ELSE Post(backend_fetch_credit_in, <<m>>)
                        \cup Post(preceding_rob_inst_in, <<SubSeq(renaming_stage_queue, 1, m)>>)
                        \cup Post(preceding_dispatch_inst_in, <<SubSeq(renaming_stage_queue, 1, m)>>))
    BY <1>1, <1>6, RenameDoes, Zenon
  <2>2. PICK I : I = DOMAIN inst /\ I = DOMAIN inst' /\ I \subseteq Nat
    <3>1. DOMAIN inst = 1 .. n /\ DOMAIN inst' = 1 .. n /\ 1 .. n \subseteq Nat
      BY <2>1, ProgramIsSeq DEF TaggedAlike
    <3> QED BY <3>1
  <2>3. SameTags /\ More
    <3>1. DOMAIN inst = 1 .. n
      BY <2>1, ProgramIsSeq, Zenon
    <3> QED BY <2>1, <2>2, <3>1, Zenon DEF SameTags, More, TaggedAlike
  <2>4. renaming_stage_queue \in Seq(I)
    BY <1>1, <2>2, LineParts, Zenon
  <2>5. PICK g \in Seq(I), q \in Seq(I) :
          /\ g = SubSeq(renaming_stage_queue, 1, m)
          /\ q = SubSeq(renaming_stage_queue, m + 1, Len(renaming_stage_queue))
          /\ Len(g) = m /\ renaming_stage_queue = g \o q
    <3>1. PICK s \in Seq(I) : s = renaming_stage_queue /\ m <= Len(s)
      BY <2>1, <2>4, Zenon
    <3>2. /\ SubSeq(s, 1, m) \in Seq(I) /\ SubSeq(s, m + 1, Len(s)) \in Seq(I)
          /\ Len(SubSeq(s, 1, m)) = m
          /\ s = SubSeq(s, 1, m) \o SubSeq(s, m + 1, Len(s))
      BY <3>1, SplitIs, Zenon DEF Splits
    <3> QED BY <3>1, <3>2, Zenon
  <2>6. PICK out : /\ out = IF m = 0 THEN Nothing
                            ELSE Post(backend_fetch_credit_in, <<m>>)
                                 \cup Post(preceding_rob_inst_in, <<g>>)
                                 \cup Post(preceding_dispatch_inst_in, <<g>>)
                   /\ Fire(rename_event, {}, {}, out)
    BY <2>1, <2>5, Zenon
  <2>7. /\ WiresOK'
        /\ Instructions(preceding_rob_inst_in)' = Instructions(preceding_rob_inst_in) \o g
        /\ Instructions(preceding_dispatch_inst_in)' = Instructions(preceding_dispatch_inst_in) \o g
        /\ \A d \in LinkPort :
              d \notin {backend_fetch_credit_in, preceding_rob_inst_in, preceding_dispatch_inst_in}
                 => Quiet(d)
    <3>1. g \in Seq(DOMAIN inst')
      BY <2>2
    <3>2. Fire(rename_event, {}, {},
               IF m = 0 THEN Nothing
               ELSE Post(backend_fetch_credit_in, <<m>>)
                    \cup Post(preceding_rob_inst_in, <<g>>)
                    \cup Post(preceding_dispatch_inst_in, <<g>>))
      BY <2>6, Zenon
    <3> QED BY <1>1, <2>3, <2>5, <3>1, <3>2, RenameSends
  <2>8. /\ \A mail \in out : mail[1] \in {backend_fetch_credit_in, preceding_rob_inst_in,
                                            preceding_dispatch_inst_in}
        /\ Sent(out, preceding_rob_inst_in) = Sent(out, preceding_dispatch_inst_in)
    BY <2>6, RenameMails
  <2>9. SameSent'
    BY <1>1, <2>6, <2>8, SameSentStep, Zenon
  <2>10. Events({}, {}) /\ rename_event \notin LatePort
    BY <1>4 DEF Events, WorkPort
  <2>11. \A mail \in out : mail[1] \notin LatePort
    BY <2>8, LinkPortHas, LatePortsAre
  <2>12. /\ LateWires'
         /\ OnTheWay(write_back_rob_finish_in)' = OnTheWay(write_back_rob_finish_in)
         /\ OnTheWay(preceding_write_back_inst_in)' = OnTheWay(preceding_write_back_inst_in)
    BY <1>1, <2>3, <2>6, <2>10, <2>11, LateQuiet, Zenon
  <2>13. /\ \A p \in Pipe : /\ Quiet(preceding_reservation_inst_in(p))
                            /\ Quiet(preceding_func_inst_in(p))
         /\ Quiet(preceding_renaming_inst_in)
    <3>1. /\ preceding_renaming_inst_in \notin {backend_fetch_credit_in, preceding_rob_inst_in,
                                                preceding_dispatch_inst_in}
          /\ \A p \in Pipe :
               /\ preceding_reservation_inst_in(p) \notin {backend_fetch_credit_in,
                     preceding_rob_inst_in, preceding_dispatch_inst_in}
               /\ preceding_func_inst_in(p) \notin {backend_fetch_credit_in,
                     preceding_rob_inst_in, preceding_dispatch_inst_in}
      BY LinkPortsDiffer, LinkPortHas
    <3> QED BY <2>7, <3>1, LinkPortHas, Zenon
  <2>14. Kept({AtDispatchWire})
    <3>1. \A p \in Pipe :
             /\ OnTheWay(preceding_reservation_inst_in(p))' = OnTheWay(preceding_reservation_inst_in(p))
             /\ OnTheWay(preceding_func_inst_in(p))' = OnTheWay(preceding_func_inst_in(p))
      BY <2>13, QuietPortSame, Zenon
    <3>2. AtDispatchWire \in {AtDispatchWire}
      OBVIOUS
    <3> QED BY <1>3, <2>12, <3>1, <3>2, Zenon DEF Kept
  <2>15. PICK r \in Seq(I), w \in Seq(I), v \in Seq(I) :
           /\ r = Instructions(preceding_renaming_inst_in)
           /\ w = Instructions(preceding_rob_inst_in)
           /\ v = Instructions(preceding_dispatch_inst_in)
    BY <1>1, <2>2, GroupWire, LinkPortHas, Zenon DEF CreditInv
  <2>16. (g \o q) \o r = g \o (q \o r) /\ q \o r \in Seq(I)
    OBVIOUS
  <2>17. PICK un, un2 : un = Unrenamed /\ un2 = Unrenamed'
    OBVIOUS
  <2>18. un = g \o (q \o r) /\ un2 = q \o r
    <3>1. Instructions(preceding_renaming_inst_in)' = r
      BY <2>13, <2>15, QuietPortSame, Zenon
    <3> QED BY <2>1, <2>5, <2>15, <2>16, <2>17, <3>1, Zenon DEF Unrenamed
  <2>19. Parts(un, g, un2)
    BY <2>16, <2>18, ConcatParts, Zenon
  <2>20. PICK rw, rw2, h, k, es : /\ rw = RobWire /\ rw2 = RobWire' /\ h = held /\ k = held'
                                  /\ es = Entries
    OBVIOUS
  <2>21. rw = w /\ rw2 = w \o g
    BY <2>7, <2>15, <2>20, Zenon DEF RobWire
  <2>22. Parts(rw2, rw, g)
    BY <2>21, ConcatParts, Zenon
  <2>23. h[AtDispatchWire] = v /\ k[AtDispatchWire] = v \o g
    BY <2>7, <2>15, <2>20, HeldIs, HeldIsPrime, Zenon
  <2>24. Parts(k[AtDispatchWire], h[AtDispatchWire], g)
    BY <2>23, ConcatParts, Zenon
  <2>25. \A z \in Place : z # AtDispatchWire => k[z] = h[z]
    <3>1. \A z \in Place : z # AtDispatchWire => z \notin {AtDispatchWire}
      OBVIOUS
    <3> QED BY <2>14, <2>20, <3>1, KeptHeld, Zenon
  <2>26. \A i \in DOMAIN inst : HasFate(i, un2, rw2, es, k)
    <3>1. ASSUME NEW i \in DOMAIN inst PROVE HasFate(i, un2, rw2, es, k)
      <4>1. HasFate(i, un, rw, es, h)
        BY <2>17, <2>20, Zenon DEF FateInv, Fates
      <4> QED BY <2>19, <2>22, <2>24, <2>25, <4>1, PlacesDiffer, RenamedMoves, Zenon
    <3> QED BY <3>1, Zenon
  <2>27. LateQueues'
    BY <1>3, <2>2, Zenon DEF LateQueues, FateInv
  <2>28. \A i \in DOMAIN inst : HasFate(i, Unrenamed', RobWire', Entries, held')
    BY <2>17, <2>20, <2>26, Zenon
  <2>29. Advances
    <3>1. DOMAIN inst' = DOMAIN inst /\ DOMAIN inst = 1 .. n
      BY <2>1, <2>2, ProgramIsSeq, Zenon
    <3>2. \A i \in DOMAIN inst : SameFlags(inst, inst', i)
      BY <2>1, <3>1, Zenon DEF TaggedAlike
    <3>3. ASSUME NEW i \in DOMAIN inst, Absent(i, Unrenamed)
          PROVE  SameRegs(inst, inst', i) /\ Absent(i, Unrenamed')
      <4>1. Absent(i, g) /\ Absent(i, un2) /\ Absent(i, q \o r)
        BY <2>17, <2>18, <2>19, <3>3, Zenon DEF Parts
      <4>2. Absent(i, g \o q) <=> Absent(i, g) /\ Absent(i, q)
        BY ConcatParts, Zenon DEF Parts
      <4>3. Absent(i, q \o r) <=> Absent(i, q) /\ Absent(i, r)
        BY ConcatParts, Zenon DEF Parts
      <4>4. Absent(i, renaming_stage_queue)
        BY <2>5, <4>1, <4>2, <4>3, Zenon
      <4>5. SameRegs(inst, inst', i)
        BY <2>1, <3>1, <4>4, Zenon DEF TaggedAlike, Absent
      <4> QED BY <2>17, <4>1, <4>5, Zenon
    <3>4. ASSUME NEW i \in DOMAIN inst
          PROVE  /\ Absent(i, k[AtDispatchWire]) <=> Absent(i, h[AtDispatchWire]) /\ Absent(i, g)
                 /\ Absent(i, un) => Absent(i, g)
      BY <2>19, <2>24, Zenon DEF Parts
    <3>5. \A i \in DOMAIN inst :
             /\ Absent(i, held'[AtDispatchWire]) => Absent(i, held[AtDispatchWire])
             /\ Absent(i, Unrenamed) /\ Absent(i, held[AtDispatchWire]) => Absent(i, held'[AtDispatchWire])
      BY <2>17, <2>20, <3>4, Zenon
    <3>6. \A z \in Place : z # AtDispatchWire => held'[z] = held[z]
      BY <2>20, <2>25, Zenon
    <3> QED BY <2>3, <3>1, <3>2, <3>3, <3>5, <3>6, Zenon DEF Advances
  <2>30. FateInv'
    BY <1>2, <1>3, <2>2, <2>3, <2>9, <2>12, <2>27, <2>28, SameEntriesFate, Zenon
  <2> QED BY <2>29, <2>30
<1> QED BY <1>5, <1>6

\* The entries' instructions are the program's.
LEMMA EntriesKnown ==
  ASSUME CreditInv
  PROVE  /\ rob.usage \in Nat /\ DOMAIN Entries = 1 .. rob.usage
         /\ \A k \in 1 .. rob.usage : Entries[k].inst \in DOMAIN inst
         /\ InstsOf(Entries) \in Seq(DOMAIN inst)
<1>1. RobRing!Ring(rob) /\ RobHolds(DOMAIN inst)
  BY Zenon DEF CreditInv, RobInv
<1>2. rob.usage \in Nat
  BY <1>1, RobCount, Zenon
<1>3. DOMAIN Entries = 1 .. rob.usage
  BY DEF Entries, RobQueue!Contents
<1>4. \A k \in 1 .. rob.usage : Entries[k].inst \in DOMAIN inst
  BY <1>1, Zenon DEF RobHolds, Entries
<1>9. PICK s, I : s = Entries /\ I = DOMAIN inst
  OBVIOUS
<1>5. PICK n \in Nat : n = rob.usage /\ s = Entries /\ I = DOMAIN inst
  BY <1>2, <1>9
<1>6. InstsOf(s) = [k \in 1 .. n |-> s[k].inst]
  BY <1>3, <1>5, Zenon DEF InstsOf
<1>7. \A k \in 1 .. n : s[k].inst \in I
  BY <1>4, <1>5, Zenon
<1>8. InstsOf(s) \in Seq(I)
  BY <1>6, <1>7
<1> QED BY <1>2, <1>3, <1>4, <1>5, <1>8, Zenon

\* What is at a place is known, too.
LEMMA HeldTyped ==
  ASSUME FateInv, NEW z \in Place PROVE held[z] \in Seq(DOMAIN inst)
<1>1. CreditInv /\ LateWires /\ LateQueues
  BY Zenon DEF FateInv
<1>2. PICK I : I = DOMAIN inst
  OBVIOUS
<1>3. \A d \in GroupPort : Instructions(d) \in Seq(I)
  BY <1>1, <1>2, GroupWire, Zenon DEF CreditInv
<1>4. /\ \A e \in DispatchEntry(I) : e.inst \in I
      /\ \A e \in StationEntry(I) : e.inst \in I
  BY DEF DispatchEntry, StationEntry
<1>5. ASSUME NEW E, \A e \in E : e.inst \in I, NEW s \in Seq(E) PROVE OpenInsts(s) \in Seq(I)
  <2>1. InstsOf(s) \in Seq(I) /\ Len(InstsOf(s)) = Len(s)
    BY <1>5, InstsOfParts
  <2>2. Open(s) \in SUBSET (1 .. Len(InstsOf(s)))
    BY <2>1 DEF Open
  <2> QED BY <2>1, <2>2, PickAtIs, Zenon DEF OpenInsts
<1>6. OpenInsts(inst_queue) \in Seq(I)
  BY <1>1, <1>2, <1>4, <1>5, Zenon DEF CreditInv, DispatchInv
<1>7. ASSUME NEW p \in Pipe
      PROVE  /\ OpenInsts(reservation_station[p]) \in Seq(I)
             /\ dispatch_pending_queue[p] \in Seq(I) /\ alu_queue[p] \in Seq(I)
             /\ inst_queue_map[p] \in Seq(I)
  <2>1. reservation_station[p] \in Seq(StationEntry(I)) /\ dispatch_pending_queue[p] \in Seq(I)
    BY <1>1, <1>2, StationNumbers, Zenon
  <2>2. alu_queue[p] \in Seq(I)
    BY <1>1, <1>2, FuNumbers, Zenon
  <2>3. inst_queue_map[p] \in Seq(I)
    BY <1>1, <1>2 DEF LateQueues
  <2> QED BY <1>4, <1>5, <2>1, <2>2, <2>3, Zenon
<1>8. /\ OnTheWay(write_back_rob_finish_in) \in Seq(Seq(I))
      /\ OnTheWay(preceding_write_back_inst_in) \in Seq(WriteBackGroup(I))
  <2>1. \A d \in LatePort : now[d] \in Seq(LateMessage(d, I)) /\ later[d] \in Seq(LateMessage(d, I))
    BY <1>1, <1>2, Zenon DEF LateWires, Typed
  <2>2. \A d \in LatePort : OnTheWay(d) \in Seq(LateMessage(d, I))
    BY <2>1, WireIsSeq, Zenon
  <2>3. /\ LateMessage(write_back_rob_finish_in, I) = Seq(I)
        /\ LateMessage(preceding_write_back_inst_in, I) = WriteBackGroup(I)
    BY LatePortsAre, Zenon DEF LateMessage
  <2> QED BY <2>2, <2>3, LatePortsAre, Zenon
<1>9. Instructions(write_back_rob_finish_in) \in Seq(I) /\ Joined(WriteBackGroups) \in Seq(I)
  <2>1. GroupsOf(OnTheWay(preceding_write_back_inst_in)) \in Seq(Seq(I))
    BY <1>8, GroupsOfMore, Zenon
  <2> QED BY <1>8, <2>1, JoinedIsSeq, Zenon DEF Instructions, WriteBackGroups
<1>10. \/ z = AtDispatchWire \/ z = AtDispatchQueue \/ z = AtWriteBackWire \/ z = AtFinishWire
       \/ \E p \in Pipe : z \in {AtPending(p), AtStationWire(p), AtStation(p), AtUnitWire(p),
                                 AtUnit(p), AtWriteBack(p)}
  BY DEF Place
<1>11. CASE z = AtDispatchWire \/ z = AtDispatchQueue \/ z = AtWriteBackWire \/ z = AtFinishWire
  BY <1>2, <1>3, <1>6, <1>9, <1>11, LinkPortHas, HeldIs, Zenon
<1>12. ASSUME NEW p \in Pipe, z \in {AtPending(p), AtStationWire(p), AtStation(p), AtUnitWire(p),
                                     AtUnit(p), AtWriteBack(p)}
       PROVE  held[z] \in Seq(I)
  <2>1. /\ held[AtPending(p)] \in Seq(I) /\ held[AtStationWire(p)] \in Seq(I)
        /\ held[AtStation(p)] \in Seq(I) /\ held[AtUnitWire(p)] \in Seq(I)
        /\ held[AtUnit(p)] \in Seq(I) /\ held[AtWriteBack(p)] \in Seq(I)
    BY <1>3, <1>7, LinkPortHas, HeldIs, Zenon
  <2>2. PICK h : h = held
    OBVIOUS
  <2> QED BY <1>12, <2>1
<1> QED BY <1>2, <1>10, <1>11, <1>12, Zenon

\* New instructions are fetched, the others have nothing to do with them.
LEMMA FetchedMore ==
  ASSUME NEW i, NEW un, NEW un2, NEW rw, NEW es, NEW h, NEW g, NEW grp, Parts(un2, un, grp),
         \A z \in Place : g[z] = h[z],
         \/ HasFate(i, un, rw, es, h) /\ Absent(i, grp)
         \/ Absent(i, un) /\ Absent(i, rw) /\ Absent(i, InstsOf(es)) /\ Nowhere(i, h) /\ Single(i, grp)
  PROVE  HasFate(i, un2, rw, es, g)
<1>1. /\ Absent(i, un2) <=> Absent(i, un) /\ Absent(i, grp)
      /\ Single(i, un2) <=> \/ Single(i, un) /\ Absent(i, grp)
                            \/ Absent(i, un) /\ Single(i, grp)
  BY Zenon DEF Parts
<1>2. Nowhere(i, h) => Nowhere(i, g)
  BY Zenon DEF Nowhere
<1>3. \A z \in Place : IsAt(i, z, h) => IsAt(i, z, g)
  BY Zenon DEF IsAt
<1>4. \A z \in EarlyPlace : z \in Place
  BY DEF EarlyPlace, Place
<1>5. CASE HasFate(i, un, rw, es, h) /\ Absent(i, grp)
  <2>1. CASE IsFetched(i, un, rw, es, h)
    BY <1>1, <1>2, <1>5, <2>1, Zenon DEF HasFate, IsFetched
  <2>2. CASE IsRenamed(i, un, rw, es, h)
    BY <1>1, <1>3, <1>4, <1>5, <2>2, Zenon DEF HasFate, IsRenamed
  <2>3. CASE IsAwaited(i, un, rw, es, h)
    BY <1>1, <1>3, <1>5, <2>3, Zenon DEF HasFate, IsAwaited
  <2>4. CASE IsFinished(i, un, rw, es, h)
    BY <1>1, <1>2, <1>5, <2>4, Zenon DEF HasFate, IsFinished
  <2> QED BY <1>5, <2>1, <2>2, <2>3, <2>4, Zenon DEF HasFate
<1>6. CASE /\ Absent(i, un) /\ Absent(i, rw) /\ Absent(i, InstsOf(es)) /\ Nowhere(i, h)
           /\ Single(i, grp)
  BY <1>1, <1>2, <1>6, Zenon DEF HasFate, IsFetched
<1> QED BY <1>5, <1>6

\* The fetch stage produces instructions.
LEMMA ProduceFate ==
  ASSUME FateInv, WellPredicted, ProduceInst,
         UNCHANGED <<renamingVars, rob, dispatchVars, rsVars, fuVars>>
  PROVE  FateInv' /\ Advances
<1>1. Ready(produce_inst_event_) /\ CreditInv /\ LateWires /\ SameSent
  BY Zenon DEF ProduceInst, FateInv
<1>2. CreditInv'
  BY <1>1, ProduceStep, Zenon
<1>3. UNCHANGED <<rob, renaming_stage_queue, inst_queue, dispatch_pending_queue,
                  reservation_station, alu_queue, inst_queue_map>>
  BY Zenon DEF renamingVars, dispatchVars, rsVars, fuVars
<1>4. produce_inst_event_ \in UniqueEvent /\ produce_inst_event_ \notin WorkPort
  BY NotWork DEF UniqueEvent
<1>5. CASE Min({FetchWidth, fetch_credit}) = 0
  <2>1. Fire(produce_inst_event_, {}, {}, Nothing) /\ inst' = inst
    BY <1>5, Zenon DEF ProduceInst
  <2>2. Events({}, {})
    BY DEF Events
  <2>3. \A mail \in Nothing : mail[1] \notin WorkPort
    BY NotWork, Zenon
  <2>4. FateInv'
    BY <1>1, <1>2, <1>3, <1>4, <2>1, <2>2, <2>3, NoEffect, Zenon
  <2>5. Advances
    <3>1. \A d \in WorkPort : OnTheWay(d)' = OnTheWay(d)
      BY <1>1, <1>4, <2>1, <2>2, NothingSent, Zenon
    <3> QED BY <1>3, <2>1, <3>1, NothingAdvances, Zenon
  <2> QED BY <2>4, <2>5
<1>6. CASE Min({FetchWidth, fetch_credit}) # 0
  <2>1. PICK n \in Nat, m \in Nat : \E nxt, group :
           /\ Program(inst, n) /\ Program(inst', n + m)
           /\ DOMAIN inst = 1 .. n /\ DOMAIN inst' = 1 .. (n + m)
           /\ \A i \in 1 .. n : inst'[i] = inst[i]
           /\ \A i \in 1 .. m : Unflagged(inst', n + i)
           /\ group \in Seq(DOMAIN inst') /\ group \in Seq(Nat) /\ Len(group) = m
           /\ \A i \in 1 .. m : group[i] = n + i
           /\ m <= fetch_credit /\ fetch_credit' = fetch_credit - m
           /\ nxt \subseteq {produce_inst_event_}
           /\ Fire(produce_inst_event_, {}, nxt, Post(preceding_renaming_inst_in, <<group>>))
    BY <1>1, <1>6, ProduceDoes, Zenon
  <2>2. PICK nxt, group :
           /\ DOMAIN inst = 1 .. n /\ DOMAIN inst' = 1 .. (n + m)
           /\ \A i \in 1 .. n : inst'[i] = inst[i]
           /\ \A i \in 1 .. m : Unflagged(inst', n + i)
           /\ group \in Seq(DOMAIN inst') /\ Len(group) = m
           /\ \A i \in 1 .. m : group[i] = n + i
           /\ nxt \subseteq {produce_inst_event_}
           /\ Fire(produce_inst_event_, {}, nxt, Post(preceding_renaming_inst_in, <<group>>))
    BY <2>1, Zenon
  <2>3. PICK out, d : /\ out = Post(d, <<group>>) /\ d = preceding_renaming_inst_in
                      /\ Fire(produce_inst_event_, {}, nxt, out)
    BY <2>2, Zenon
  <2>4. /\ d \in GroupPort /\ d \in LinkPort /\ d \notin LatePort
        /\ d # preceding_rob_inst_in /\ d # preceding_dispatch_inst_in
        /\ produce_inst_event_ \notin LinkPort /\ produce_inst_event_ \notin LatePort
    BY <1>4, <2>3, LinkPortHas, LatePortsAre, LinkPortsDiffer, Zenon DEF WorkPort
  <2>5. \A mail \in out : mail[1] = d
    BY <2>3 DEF Post
  <2>6. Events({}, nxt)
    BY <1>4, <2>2 DEF Events
  <2>7. DOMAIN inst \subseteq DOMAIN inst' /\ More
    <3>1. 1 .. n \subseteq 1 .. (n + m)
      OBVIOUS
    <3> QED BY <2>2, <3>1, Zenon DEF More
  <2>8. /\ WiresOK'
        /\ \A e \in LinkPort :
             /\ OnTheWay(e)' = OnTheWay(e) \o Sent(out, e)
             /\ (\A mail \in out : mail[1] # e) => Quiet(e)
    <3>1. <<group>> \in Seq(MessageOf(d, DOMAIN inst'))
      BY <2>2, <2>4, GroupIsTyped, Zenon
    <3>2. \A mail \in out : mail[1] \in LinkPort => mail[2] \in Seq(MessageOf(mail[1], DOMAIN inst'))
      BY <2>3, <3>1, PostTyped, Zenon
    <3> QED BY <1>1, <2>3, <2>4, <2>6, <2>7, <3>2, SendingStep, Zenon
  <2>9. \A e \in LinkPort : e # d => OnTheWay(e)' = OnTheWay(e)
    <3>1. \A e \in LinkPort : e # d => Quiet(e)
      BY <2>5, <2>8, Zenon
    <3> QED BY <3>1, QuietPortSame, Zenon
  <2>10. /\ LateWires'
         /\ OnTheWay(write_back_rob_finish_in)' = OnTheWay(write_back_rob_finish_in)
         /\ OnTheWay(preceding_write_back_inst_in)' = OnTheWay(preceding_write_back_inst_in)
    <3>1. \A mail \in out : mail[1] \notin LatePort
      BY <2>4, <2>5, Zenon
    <3> QED BY <1>1, <2>3, <2>4, <2>6, <2>7, <3>1, LateQuiet, Zenon
  <2>11. SameSent'
    <3>1. \A mail \in out : mail[1] # preceding_rob_inst_in /\ mail[1] # preceding_dispatch_inst_in
      BY <2>4, <2>5, Zenon
    <3> QED BY <1>1, <2>3, <3>1, SameSentQuiet, Zenon
  <2>12. LateQueues'
    <3>1. PICK f, I, J : f = inst_queue_map /\ I = DOMAIN inst /\ J = DOMAIN inst'
      OBVIOUS
    <3>2. f \in [Pipe -> Seq(I)] /\ Seq(I) \subseteq Seq(J)
      BY <2>7, <3>1, SeqGrows, Zenon DEF FateInv, LateQueues
    <3>3. f \in [Pipe -> Seq(J)]
      BY <3>2
    <3> QED BY <1>3, <3>1, <3>3, Zenon DEF LateQueues
  <2>13. /\ preceding_rob_inst_in # d /\ preceding_dispatch_inst_in # d
         /\ \A p \in Pipe : preceding_reservation_inst_in(p) # d /\ preceding_func_inst_in(p) # d
    BY <2>3 DEF preceding_rob_inst_in, preceding_dispatch_inst_in, preceding_renaming_inst_in,
       preceding_reservation_inst_in, preceding_func_inst_in
  <2>14. Kept({})
    BY <1>3, <2>9, <2>10, <2>13, LinkPortHas, Zenon DEF Kept
  <2>15. PICK un, un2, rw, es, h, g :
           /\ un = Unrenamed /\ un2 = Unrenamed' /\ rw = RobWire /\ es = Entries
           /\ h = held /\ g = held'
    OBVIOUS
  <2>16. RobWire' = rw /\ Entries' = es
    BY <1>3, <2>9, <2>13, <2>15, LinkPortHas, Zenon DEF RobWire, Instructions, Entries
  <2>17. \A z \in Place : g[z] = h[z]
    <3>1. PICK X : X = {}
      OBVIOUS
    <3>2. Kept(X) /\ \A z \in Place : z \notin X
      BY <2>14, <3>1
    <3>3. \A z \in Place : held'[z] = held[z]
      BY <3>2, KeptHeld, Zenon
    <3> QED BY <2>15, <3>3, Zenon
  <2>18. PICK J : J = DOMAIN inst'
    OBVIOUS
  <2>19. Instructions(d)' = Instructions(d) \o group
    <3>1. Sent(out, d) = <<group>>
      BY <2>3, SentIs, Zenon
    <3>2. OnTheWay(d)' = OnTheWay(d) \o <<group>>
      BY <2>4, <2>8, <3>1, Zenon
    <3> QED BY <1>1, <2>2, <2>4, <2>7, <3>2, SendsGroup, Zenon DEF CreditInv
  <2>20. PICK q \in Seq(J), r \in Seq(J), grp \in Seq(J) :
            q = renaming_stage_queue /\ r = Instructions(d) /\ grp = group
    <3>1. renaming_stage_queue \in Seq(DOMAIN inst) /\ Instructions(d) \in Seq(DOMAIN inst)
      BY <1>1, <2>3, LineParts, Zenon
    <3>2. Seq(DOMAIN inst) \subseteq Seq(J)
      BY <2>7, <2>18, SeqGrows, Zenon
    <3> QED BY <2>2, <2>18, <3>1, <3>2
  <2>21. q \o r \in Seq(J) /\ q \o (r \o grp) = (q \o r) \o grp
    OBVIOUS
  <2>22. un = q \o r /\ un2 = (q \o r) \o grp
    BY <1>3, <2>3, <2>15, <2>19, <2>20, <2>21, Zenon DEF Unrenamed
  <2>23. Parts(un2, un, grp)
    BY <2>21, <2>22, ConcatParts, Zenon
  <2>24. \A i \in 1 .. n : Absent(i, grp)
    <3>1. DOMAIN grp = 1 .. m
      BY <2>2, <2>20
    <3>2. \A i \in 1 .. n : \A k \in 1 .. m : n + k # i
      OBVIOUS
    <3> QED BY <2>2, <2>20, <3>1, <3>2, Zenon DEF Absent
  <2>25. \A i \in 1 .. (n + m) : i \notin 1 .. n => Single(i, grp)
    <3>1. DOMAIN grp = 1 .. m
      BY <2>2, <2>20
    <3>2. ASSUME NEW i \in 1 .. (n + m), i \notin 1 .. n PROVE Single(i, grp)
      <4>1. PICK k \in 1 .. m : i = n + k /\ \A j \in 1 .. m : n + j = i => j = k
        BY <3>2
      <4>2. \A j \in 1 .. m : grp[j] = n + j
        BY <2>2, <2>20, Zenon
      <4>3. grp[k] = i /\ \A j \in 1 .. m : grp[j] = i => j = k
        BY <4>1, <4>2
      <4> QED BY <3>1, <4>3, Zenon DEF Single
    <3> QED BY <3>2, Zenon
  <2>26. ASSUME NEW i \in DOMAIN inst' PROVE HasFate(i, un2, rw, es, g)
    <3>1. CASE i \in 1 .. n
      <4>1. HasFate(i, un, rw, es, h)
        BY <2>2, <2>15, <3>1, Zenon DEF FateInv, Fates
      <4> QED BY <2>17, <2>23, <2>24, <3>1, <4>1, FetchedMore, Zenon
    <3>2. CASE i \notin 1 .. n
      <4>1. Single(i, grp) /\ i \notin DOMAIN inst
        BY <2>2, <2>25, <2>26, <3>2, Zenon
      <4>2. un \in Seq(DOMAIN inst) /\ rw \in Seq(DOMAIN inst) /\ InstsOf(es) \in Seq(DOMAIN inst)
        BY <1>1, <2>15, UnrenamedIs, GroupWire, LinkPortHas, EntriesKnown, Zenon DEF RobWire, CreditInv
      <4>3. Absent(i, un) /\ Absent(i, rw) /\ Absent(i, InstsOf(es))
        BY <4>1, <4>2, OutsideAbsent, Zenon
      <4>4. \A z \in Place : Absent(i, h[z])
        <5>1. \A z \in Place : h[z] \in Seq(DOMAIN inst)
          BY <2>15, HeldTyped, Zenon
        <5> QED BY <4>1, <5>1, OutsideAbsent, Zenon
      <4>5. Nowhere(i, h)
        BY <4>4, Zenon DEF Nowhere
      <4> QED BY <2>17, <2>23, <4>1, <4>3, <4>5, FetchedMore, Zenon
    <3> QED BY <3>1, <3>2
  <2>27. Fates'
    BY <2>15, <2>16, <2>26, Zenon DEF Fates
  <2>28. OwnTags'
    <3>1. \A k \in 1 .. rob.usage : inst'[Entries[k].inst] = inst[Entries[k].inst]
      BY <1>1, <2>2, EntriesKnown, Zenon
    <3>2. Entries' = Entries
      BY <2>15, <2>16, Zenon
    <3> QED BY <1>3, <3>1, <3>2, Zenon DEF OwnTags, FateInv
  <2>29. Advances
    <3>1. \A z \in Place : held'[z] = held[z]
      BY <2>15, <2>17, Zenon
    <3>2. \A i \in DOMAIN inst : SameFlags(inst, inst', i) /\ SameRegs(inst, inst', i)
      BY <2>2, Zenon DEF SameFlags, SameRegs
    <3>3. \A i \in DOMAIN inst : Absent(i, Unrenamed) => Absent(i, Unrenamed')
      BY <2>2, <2>15, <2>23, <2>24, Zenon DEF Parts
    <3>4. \A i \in DOMAIN inst' : i \in DOMAIN inst \/ Unflagged(inst', i)
      <4>1. \A i \in 1 .. (n + m) : i \in 1 .. n \/ \E j \in 1 .. m : i = n + j
        OBVIOUS
      <4>2. ASSUME NEW i \in 1 .. (n + m), i \notin 1 .. n PROVE Unflagged(inst', i)
        <5>1. PICK j \in 1 .. m : i = n + j
          BY <4>1, <4>2, Zenon
        <5>2. Unflagged(inst', n + j)
          BY <2>2, Zenon
        <5> QED BY <5>1, <5>2, Zenon
      <4> QED BY <2>2, <4>2, Zenon
    <3> QED BY <2>7, <3>1, <3>2, <3>3, <3>4, PlacesDiffer, Zenon DEF Advances
  <2>30. FateInv'
    BY <1>2, <2>10, <2>11, <2>12, <2>27, <2>28, Zenon DEF FateInv
  <2> QED BY <2>29, <2>30
<1> QED BY <1>5, <1>6

-----------------------------------------------------------------------------
(* The reorder buffer's entries.                                           *)

\* The slots of a ring's entries, and of the next one.
RingIs(q) ==
    /\ q.usage \in Nat /\ q.usage <= RobDepth
    /\ DOMAIN RobQueue!Contents(q) = 1 .. q.usage
    /\ RobQueue!Contents(q) \in Seq(RobEntry) /\ Len(RobQueue!Contents(q)) = q.usage
    /\ \A k \in 1 .. q.usage : RobQueue!Contents(q)[k] = q.dataList[RobQueue!SlotOf(q, k)]
    /\ \A k \in 1 .. q.usage : RobQueue!SlotOf(q, k) \in DOMAIN q.dataList
    /\ \A j, k \in 1 .. RobDepth : RobQueue!SlotOf(q, j) = RobQueue!SlotOf(q, k) => j = k
    /\ q.usage < RobDepth => q.tail = RobQueue!SlotOf(q, q.usage + 1)

\* The reorder buffer's ring has them.
LEMMA RingSlots ==
  ASSUME NEW q, RobRing!Ring(q) PROVE RingIs(q)
<1>1. RobDepth \in Nat \ {0}
  BY SizesAssumption
<1>2. RobRing!Fields(q)
  BY <1>1, RobRing!RingFields, Zenon
<1>3. PICK D, h, t, u, r :
        /\ D = q.dataList /\ h = q.head /\ t = q.tail /\ u = q.usage /\ r = q.is_rolling
        /\ DOMAIN D = RobRing!Slot
        /\ h \in 0 .. RobDepth - 1 /\ t \in 0 .. RobDepth - 1 /\ u \in 0 .. RobDepth
        /\ r \in 0 .. 1 /\ (IF r = 1 THEN RobDepth ELSE 0) - h + t = u
  BY <1>2 DEF RobRing!Fields
<1>4. \A k : RobQueue!SlotOf(q, k) = IF h + (k - 1) < RobDepth THEN h + (k - 1)
                                     ELSE h + (k - 1) - RobDepth
  BY <1>3, Zenon DEF RobQueue!SlotOf
<1>5. u \in Nat /\ u <= RobDepth
  BY <1>1, <1>3
<1>6. \A j, k \in 1 .. RobDepth : RobQueue!SlotOf(q, j) = RobQueue!SlotOf(q, k) => j = k
  BY <1>1, <1>3, <1>4
<1>7. u < RobDepth => t = RobQueue!SlotOf(q, u + 1)
  BY <1>1, <1>3, <1>4
<1>8. /\ DOMAIN RobQueue!Contents(q) = 1 .. u
      /\ \A k \in 1 .. u : RobQueue!Contents(q)[k] = D[RobQueue!SlotOf(q, k)]
  BY <1>3 DEF RobQueue!Contents
<1>9. \A k \in 1 .. u : RobQueue!SlotOf(q, k) \in DOMAIN D
  <2>1. RobRing!Slot = 0 .. RobDepth - 1
    BY DEF RobRing!Slot
  <2> QED BY <1>1, <1>3, <1>4, <2>1, SMTT(60)
<1>10. RobQueue!Contents(q) \in Seq(RobEntry) /\ Len(RobQueue!Contents(q)) = u
  <2>1. RobRing!Contents(q) \in Seq(RobEntry) /\ Len(RobRing!Contents(q)) = q.usage
    BY <1>1, RobRing!ContentsIsSeq, Zenon
  <2>2. RobQueue!Contents(q) = RobRing!Contents(q)
    BY RingOps
  <2> QED BY <1>3, <2>1, <2>2, Zenon
<1> QED BY <1>3, <1>5, <1>6, <1>7, <1>8, <1>9, <1>10, Zenon DEF RingIs

\* What a push leaves and adds.
Pushed(q, p, e) ==
    /\ p.head = q.head /\ p.usage = q.usage + 1
    /\ \A k : RobQueue!SlotOf(p, k) = RobQueue!SlotOf(q, k)
    /\ \A k \in 1 .. q.usage : RobQueue!Contents(p)[k] = RobQueue!Contents(q)[k]
    /\ RobQueue!Contents(p)[q.usage + 1] = e

\* A push into a ring that is not full does that.
LEMMA RingGrows ==
  ASSUME NEW q, RobRing!Ring(q), q.usage < RobDepth, NEW e \in RobEntry
  PROVE  Pushed(q, RobQueue!push(q, e), e)
<1>1. RobDepth \in Nat \ {0}
  BY SizesAssumption
<1>2. RingIs(q)
  BY RingSlots
<1>3. PICK u \in Nat : u = q.usage
  BY <1>2, Zenon DEF RingIs
<1>4. ~RobRing!full(q)
  <2>1. RobRing!size(q) = u
    BY <1>3, Zenon DEF RobRing!Ring, RobRing!SizeAssertion
  <2>2. u # RobDepth
    BY <1>1, <1>3
  <2> QED BY <2>1, <2>2, Zenon DEF RobRing!full
<1>5. PICK p : p = RobQueue!push(q, e)
  OBVIOUS
<1>6. p.head = q.head /\ p.usage = u + 1 /\ RobQueue!Contents(p) = Append(RobQueue!Contents(q), e)
  <2>1. RobQueue!push(q, e) = RobRing!push(q, e) /\ RobQueue!Contents(q) = RobRing!Contents(q)
        /\ RobQueue!Contents(p) = RobRing!Contents(p)
    BY RingOps
  <2>2. RobRing!push(q, e).head = q.head /\ RobRing!push(q, e).usage = q.usage + 1
    BY <1>1, <1>4, RobRing!PushKeepsRing, Zenon
  <2>3. RobRing!Contents(RobRing!push(q, e)) = Append(RobRing!Contents(q), e)
    BY <1>1, <1>4, RobRing!PushAppends, Zenon
  <2> QED BY <1>3, <1>5, <2>1, <2>2, <2>3, Zenon
<1>7. \A k : RobQueue!SlotOf(p, k) = RobQueue!SlotOf(q, k)
  BY <1>6, Zenon DEF RobQueue!SlotOf
<1>8. PICK s \in Seq(RobEntry) : s = RobQueue!Contents(q) /\ Len(s) = u
  BY <1>2, <1>3, Zenon DEF RingIs
<1>9. (\A k \in 1 .. u : Append(s, e)[k] = s[k]) /\ Append(s, e)[u + 1] = e
  BY <1>8
<1> QED BY <1>3, <1>5, <1>6, <1>7, <1>8, <1>9, Zenon DEF Pushed

NewEntry(i) == [inst |-> i, finish |-> FALSE]

Distinct(g) == \A j, k \in 1 .. Len(g) : g[j] = g[k] => j = k

\* The first m instructions of g have got their entries, behind the u that
\* there were, and the entries' tags.
Grown(s, start, n, u, g, m) ==
    /\ Allocated(s, n, u + m)
    /\ \A k : RobQueue!SlotOf(s.rob, k) = RobQueue!SlotOf(start.rob, k)
    /\ \A k \in 1 .. u : RobQueue!Contents(s.rob)[k] = RobQueue!Contents(start.rob)[k]
    /\ \A k \in 1 .. m : RobQueue!Contents(s.rob)[u + k] = NewEntry(g[k])
    /\ \A k \in 1 .. m : s.inst[g[k]].RobTag = RobQueue!SlotOf(start.rob, u + k)
    /\ \A i \in 1 .. n : (\A k \in 1 .. m : g[k] # i) => s.inst[i].RobTag = start.inst[i].RobTag

\* One more.
LEMMA GrowsOne ==
  ASSUME NEW n \in Nat, NEW g \in Seq(1 .. n), Distinct(g), NEW start, NEW u \in Nat,
         NEW m \in Nat, m + 1 <= Len(g), u + m < RobDepth, NEW s, Grown(s, start, n, u, g, m)
  PROVE  Grown(PushEntry(s, g[m + 1]), start, n, u, g, m + 1)
<1>1. PICK i, e, q, p, f, x, v :
        /\ i = g[m + 1] /\ e = NewEntry(i) /\ q = s.rob /\ p = RobQueue!push(q, e)
        /\ f = s.inst /\ x = [f EXCEPT ![i].RobTag = q.tail] /\ v = PushEntry(s, i)
  OBVIOUS
<1>2. v.rob = p /\ v.inst = x
  BY <1>1 DEF PushEntry, NewEntry
<1>3. i \in 1 .. n /\ e \in RobEntry
  <2>1. i \in 1 .. n
    BY <1>1
  <2> QED BY <1>1, <2>1 DEF NewEntry, RobEntry
<1>4. PICK w \in Nat : w = u + m /\ (u + m) + 1 = u + (m + 1) /\ w < RobDepth
  OBVIOUS
<1>5. Allocated(s, n, w)
  BY <1>4, Zenon DEF Grown
<1>6. Allocated(v, n, w + 1)
  BY <1>1, <1>3, <1>4, <1>5, PushEntryKeeps, Zenon
<1>7. RobRing!Ring(q) /\ q.usage = w /\ Program(f, n)
  BY <1>1, <1>5, Zenon DEF Allocated
<1>8. Pushed(q, p, e) /\ RingIs(q)
  BY <1>1, <1>3, <1>4, <1>7, RingGrows, RingSlots, Zenon
<1>9. /\ \A k : RobQueue!SlotOf(p, k) = RobQueue!SlotOf(q, k)
      /\ \A k \in 1 .. w : RobQueue!Contents(p)[k] = RobQueue!Contents(q)[k]
      /\ RobQueue!Contents(p)[w + 1] = e
      /\ q.tail = RobQueue!SlotOf(q, w + 1)
  BY <1>4, <1>7, <1>8, Zenon DEF Pushed, RingIs
<1>10. /\ \A k : RobQueue!SlotOf(q, k) = RobQueue!SlotOf(start.rob, k)
       /\ \A k \in 1 .. u : RobQueue!Contents(q)[k] = RobQueue!Contents(start.rob)[k]
       /\ \A k \in 1 .. m : RobQueue!Contents(q)[u + k] = NewEntry(g[k])
       /\ \A k \in 1 .. m : f[g[k]].RobTag = RobQueue!SlotOf(start.rob, u + k)
       /\ \A j \in 1 .. n : (\A k \in 1 .. m : g[k] # j) => f[j].RobTag = start.inst[j].RobTag
  BY <1>1, Zenon DEF Grown
<1>11. \A k : RobQueue!SlotOf(p, k) = RobQueue!SlotOf(start.rob, k)
  BY <1>9, <1>10, Zenon
<1>12. \A k \in 1 .. u : RobQueue!Contents(p)[k] = RobQueue!Contents(start.rob)[k]
  <2>1. \A k \in 1 .. u : k \in 1 .. w
    BY <1>4
  <2> QED BY <1>9, <1>10, <2>1, Zenon
<1>13. \A k \in 1 .. m + 1 : RobQueue!Contents(p)[u + k] = NewEntry(g[k])
  <2>1. ASSUME NEW k \in 1 .. m + 1 PROVE RobQueue!Contents(p)[u + k] = NewEntry(g[k])
    <3>1. CASE k = m + 1
      <4>1. u + k = w + 1
        BY <1>4, <3>1
      <4> QED BY <1>1, <1>9, <3>1, <4>1, Zenon
    <3>2. CASE k # m + 1
      <4>1. k \in 1 .. m /\ u + k \in 1 .. w
        BY <1>4, <3>2
      <4> QED BY <1>9, <1>10, <4>1, Zenon
    <3> QED BY <3>1, <3>2
  <2> QED BY <2>1
<1>14. x[i].RobTag = q.tail /\ \A j \in 1 .. n : j # i => x[j] = f[j]
  <2>1. DOMAIN f = 1 .. n /\ "RobTag" \in DOMAIN f[i]
    BY <1>3, <1>7, ProgramIsSeq, Zenon DEF Program, Foreseen
  <2> QED BY <1>1, <1>3, <2>1
<1>15. \A k \in 1 .. m : g[k] # i /\ g[k] \in 1 .. n
  <2>1. ASSUME NEW k \in 1 .. m PROVE g[k] # i /\ g[k] \in 1 .. n
    <3>1. k \in 1 .. Len(g) /\ m + 1 \in 1 .. Len(g) /\ k # m + 1
      OBVIOUS
    <3> QED BY <1>1, <3>1, SMTT(60) DEF Distinct
  <2> QED BY <2>1
<1>16. \A k \in 1 .. m + 1 : x[g[k]].RobTag = RobQueue!SlotOf(start.rob, u + k)
  <2>1. ASSUME NEW k \in 1 .. m + 1 PROVE x[g[k]].RobTag = RobQueue!SlotOf(start.rob, u + k)
    <3>1. CASE k = m + 1
      <4>1. u + k = w + 1
        BY <1>4, <3>1
      <4> QED BY <1>1, <1>9, <1>10, <1>14, <3>1, <4>1, Zenon
    <3>2. CASE k # m + 1
      <4>1. k \in 1 .. m
        BY <3>2
      <4> QED BY <1>10, <1>14, <1>15, <4>1, Zenon
    <3> QED BY <3>1, <3>2
  <2> QED BY <2>1
<1>17. ASSUME NEW j \in 1 .. n, \A k \in 1 .. m + 1 : g[k] # j
       PROVE  x[j].RobTag = start.inst[j].RobTag
  <2>1. m + 1 \in 1 .. m + 1 /\ \A k \in 1 .. m : k \in 1 .. m + 1
    OBVIOUS
  <2>2. j # i /\ \A k \in 1 .. m : g[k] # j
    BY <1>1, <1>17, <2>1, Zenon
  <2> QED BY <1>10, <1>14, <2>2, Zenon
<1>18. Allocated(v, n, u + (m + 1))
  BY <1>4, <1>6, Zenon
<1> QED BY <1>1, <1>2, <1>11, <1>12, <1>13, <1>16, <1>17, <1>18, Zenon DEF Grown

\* All of them.
LEMMA GrowsAll ==
  ASSUME NEW n \in Nat, NEW g \in Seq(1 .. n), Distinct(g), NEW start, NEW u \in Nat,
         u + Len(g) <= RobDepth, Allocated(start, n, u), NEW allocated,
         allocated = CHOOSE f : f = [k \in 0 .. Len(g) |->
                        IF k = 0 THEN start ELSE PushEntry(f[k - 1], g[k])]
  PROVE  Grown(allocated[Len(g)], start, n, u, g, Len(g))
<1>1. PICK t \in Nat : t = Len(g) /\ u + t <= RobDepth
  OBVIOUS
<1>2. RobDepth \in Nat
  BY SizesAssumption
<1>3. /\ allocated[0] = start
      /\ \A k \in 1 .. t : allocated[k] = PushEntry(allocated[k - 1], g[k])
  <2>1. allocated = CHOOSE f : f = [k \in 0 .. t |->
                        IF k = 0 THEN start ELSE PushEntry(f[k - 1], g[k])]
    BY <1>1, Zenon
  <2>2. Unfolded(allocated, t, start, g)
    BY <2>1, AllocatedUnfolds, Zenon
  <2> QED BY <2>2, Zenon DEF Unfolded
<1> DEFINE H == {m \in Nat : m <= t => Grown(allocated[m], start, n, u, g, m)}
<1>4. 0 \in H
  <2>1. u + 0 = u /\ \A k \in 1 .. 0 : FALSE
    OBVIOUS
  <2>2. Grown(start, start, n, u, g, 0)
    BY <2>1, Zenon DEF Grown
  <2> QED BY <1>3, <2>2
<1>5. ASSUME NEW m \in Nat, m \in H PROVE m + 1 \in H
  <2>1. ASSUME m + 1 <= t PROVE Grown(allocated[m + 1], start, n, u, g, m + 1)
    <3>1. /\ m + 1 \in 1 .. t /\ (m + 1) - 1 = m /\ Grown(allocated[m], start, n, u, g, m)
          /\ u + m < RobDepth /\ m + 1 <= Len(g)
      BY <1>1, <1>2, <1>5, <2>1
    <3>2. allocated[m + 1] = PushEntry(allocated[m], g[m + 1])
      BY <1>3, <3>1
    <3>3. Grown(PushEntry(allocated[m], g[m + 1]), start, n, u, g, m + 1)
      BY <3>1, GrowsOne, Zenon
    <3> QED BY <3>2, <3>3, Zenon
  <2> QED BY <2>1
<1>6. \A m \in Nat : m \in H
  <2> HIDE DEF H
  <2> QED BY <1>4, <1>5, NatSetInduction
<1>7. t <= t
  OBVIOUS
<1>8. Grown(allocated[t], start, n, u, g, t)
  BY <1>6, <1>7, Zenon
<1> QED BY <1>1, <1>8, Zenon

\* AllocateRob_ gives the instructions of g the next entries, and the tags of
\* those to them only.
RobTaken(g, q, p, f, x) ==
    /\ DOMAIN x = DOMAIN f /\ RobRing!Ring(q) /\ RobRing!Ring(p) /\ p.usage = q.usage + Len(g)
    /\ \A k : RobQueue!SlotOf(p, k) = RobQueue!SlotOf(q, k)
    /\ \A k \in 1 .. q.usage : RobQueue!Contents(p)[k] = RobQueue!Contents(q)[k]
    /\ \A k \in 1 .. Len(g) : RobQueue!Contents(p)[q.usage + k] = NewEntry(g[k])
    /\ \A k \in 1 .. Len(g) : x[g[k]].RobTag = RobQueue!SlotOf(q, q.usage + k)
    /\ \A i \in DOMAIN f : Absent(i, g) => x[i].RobTag = f[i].RobTag
    /\ \A i \in DOMAIN f : SameRegs(f, x, i) /\ SameFlags(f, x, i)

\* That is what it does.
LEMMA AllocateRobTakes ==
  ASSUME CreditInv, AllocateRob_, Distinct(Message(preceding_rob_inst_in))
  PROVE  \E g \in Seq(DOMAIN inst) :
           /\ g = Message(preceding_rob_inst_in)
           /\ Ready(preceding_rob_inst_in)
           /\ Fire(preceding_rob_inst_in, {}, {commit_event}, Nothing)
           /\ RobTaken(g, rob, rob', inst, inst')
<1>1. PICK n \in Nat, g \in Seq(DOMAIN inst) : \E start, allocated : Allocating(n, g, start, allocated)
  BY AllocateRobUnfolds, Zenon
<1>2. PICK start, allocated : Allocating(n, g, start, allocated)
  BY <1>1, Zenon
<1>3. /\ DOMAIN inst = 1 .. n /\ g = Message(preceding_rob_inst_in) /\ Ready(preceding_rob_inst_in)
      /\ Fire(preceding_rob_inst_in, {}, {commit_event}, Nothing)
      /\ Allocated(start, n, rob.usage) /\ rob.usage \in Nat /\ rob.usage + Len(g) <= RobDepth
      /\ start.rob = rob /\ start.inst = inst
      /\ rob' = allocated[Len(g)].rob /\ inst' = allocated[Len(g)].inst /\ g \in Seq(1 .. n)
  BY <1>2, Zenon DEF Allocating
<1>4. allocated = CHOOSE f : f = [k \in 0 .. Len(g) |->
                     IF k = 0 THEN start ELSE PushEntry(f[k - 1], g[k])]
  BY <1>2, Zenon DEF Allocating, AllocatedBy
<1>5. PICK u \in Nat : u = rob.usage
  BY <1>3
<1>6. Grown(allocated[Len(g)], start, n, u, g, Len(g))
  BY <1>3, <1>4, <1>5, GrowsAll, Zenon
<1>7. PICK s, q, p, f, x : /\ s = allocated[Len(g)] /\ q = rob /\ p = rob' /\ f = inst /\ x = inst'
  OBVIOUS
<1>8. Grown(s, start, n, u, g, Len(g)) /\ s.rob = p /\ s.inst = x /\ start.rob = q /\ start.inst = f
  BY <1>3, <1>6, <1>7, Zenon
<1>9. /\ Program(x, n) /\ RobRing!Ring(p) /\ p.usage = u + Len(g)
      /\ \A k : RobQueue!SlotOf(p, k) = RobQueue!SlotOf(q, k)
      /\ \A k \in 1 .. u : RobQueue!Contents(p)[k] = RobQueue!Contents(q)[k]
      /\ \A k \in 1 .. Len(g) : RobQueue!Contents(p)[u + k] = NewEntry(g[k])
      /\ \A k \in 1 .. Len(g) : x[g[k]].RobTag = RobQueue!SlotOf(q, u + k)
      /\ \A i \in 1 .. n : (\A k \in 1 .. Len(g) : g[k] # i) => x[i].RobTag = f[i].RobTag
      /\ \A i \in 1 .. n : SameRegs(f, x, i) /\ SameFlags(f, x, i)
  BY <1>7, <1>8, Zenon DEF Grown, Allocated
<1>10. RobRing!Ring(q) /\ DOMAIN x = 1 .. n
  <2>1. RobRing!Ring(q)
    BY <1>3, <1>7, Zenon DEF Allocated
  <2> QED BY <1>9, <2>1, ProgramIsSeq, Zenon
<1>11. DOMAIN g = 1 .. Len(g)
  OBVIOUS
<1>12. RobTaken(g, q, p, f, x)
  <2>1. \A i \in 1 .. n : Absent(i, g) => x[i].RobTag = f[i].RobTag
    BY <1>9, <1>11, Zenon DEF Absent
  <2>2. u = q.usage /\ DOMAIN f = 1 .. n
    BY <1>3, <1>5, <1>7, Zenon
  <2>3. /\ DOMAIN x = DOMAIN f /\ RobRing!Ring(q) /\ RobRing!Ring(p) /\ p.usage = q.usage + Len(g)
        /\ \A k : RobQueue!SlotOf(p, k) = RobQueue!SlotOf(q, k)
        /\ \A k \in 1 .. q.usage : RobQueue!Contents(p)[k] = RobQueue!Contents(q)[k]
    BY <1>9, <1>10, <2>2, Zenon
  <2>4. /\ \A k \in 1 .. Len(g) : RobQueue!Contents(p)[q.usage + k] = NewEntry(g[k])
        /\ \A k \in 1 .. Len(g) : x[g[k]].RobTag = RobQueue!SlotOf(q, q.usage + k)
        /\ \A i \in DOMAIN f : Absent(i, g) => x[i].RobTag = f[i].RobTag
        /\ \A i \in DOMAIN f : SameRegs(f, x, i) /\ SameFlags(f, x, i)
    BY <1>9, <2>1, <2>2, Zenon
  <2> QED BY <2>3, <2>4, Zenon DEF RobTaken
<1> QED BY <1>3, <1>7, <1>12, Zenon

\* The entries of es are the first ones of es2, the others are new and g's.
EntriesMore(es, es2, g) ==
    /\ Parts(InstsOf(es2), InstsOf(es), g)
    /\ \A k \in DOMAIN es : k \in DOMAIN es2 /\ es2[k] = es[k]
    /\ \A k \in DOMAIN es2 :
         k \in DOMAIN es \/ (~Absent(es2[k].inst, g) /\ ~es2[k].finish)

\* What the reorder buffer takes from its wire is awaited, the rest stays.
LEMMA TakenFate ==
  ASSUME NEW i, NEW un, NEW rw, NEW rw2, NEW es, NEW es2, NEW h, NEW grp,
         Parts(rw, grp, rw2), EntriesMore(es, es2, grp), HasFate(i, un, rw, es, h)
  PROVE  HasFate(i, un, rw2, es2, h)
<1>1. /\ Absent(i, rw) <=> Absent(i, grp) /\ Absent(i, rw2)
      /\ Single(i, rw) <=> \/ Single(i, grp) /\ Absent(i, rw2)
                           \/ Absent(i, grp) /\ Single(i, rw2)
      /\ Absent(i, InstsOf(es2)) <=> Absent(i, InstsOf(es)) /\ Absent(i, grp)
      /\ Single(i, InstsOf(es2)) <=> \/ Single(i, InstsOf(es)) /\ Absent(i, grp)
                                     \/ Absent(i, InstsOf(es)) /\ Single(i, grp)
  BY Zenon DEF Parts, EntriesMore
<1>2. CASE IsRenamed(i, un, rw, es, h) /\ Single(i, grp)
  <2>1. Absent(i, rw2) /\ Single(i, InstsOf(es2)) /\ Absent(i, InstsOf(es)) /\ Absent(i, un)
    <3>1. ~Absent(i, grp)
      BY <1>2, SingleOccurs, Zenon
    <3> QED BY <1>1, <1>2, <3>1, Zenon DEF IsRenamed
  <2>2. \A k \in DOMAIN es : es[k].inst # i
    <3>1. \A k \in DOMAIN es : k \in DOMAIN InstsOf(es) /\ InstsOf(es)[k] = es[k].inst
      BY DEF InstsOf
    <3> QED BY <2>1, <3>1, Zenon DEF Absent
  <2>3. \A k \in DOMAIN es2 : es2[k].inst = i => ~es2[k].finish
    BY <2>2, Zenon DEF EntriesMore
  <2>4. \E x \in Place : IsAt(i, x, h)
    <3>1. \A z \in EarlyPlace : z \in Place
      BY PlacesDiffer DEF EarlyPlace, Place
    <3> QED BY <1>2, <3>1, Zenon DEF IsRenamed
  <2> QED BY <2>1, <2>3, <2>4, Zenon DEF HasFate, IsAwaited
<1>3. CASE Absent(i, grp)
  <2>1. /\ Absent(i, rw2) <=> Absent(i, rw)
        /\ Single(i, rw) => Single(i, rw2)
        /\ Absent(i, InstsOf(es2)) <=> Absent(i, InstsOf(es))
        /\ Single(i, InstsOf(es)) => Single(i, InstsOf(es2))
    <3>1. ~Single(i, grp)
      BY <1>3, SingleOccurs, Zenon
    <3> QED BY <1>1, <1>3, <3>1, Zenon
  <2>2. \A k \in DOMAIN es2 : es2[k].inst = i => k \in DOMAIN es /\ es2[k] = es[k]
    BY <1>3, Zenon DEF EntriesMore
  <2>6. CASE IsFetched(i, un, rw, es, h)
    BY <2>1, <2>6, Zenon DEF HasFate, IsFetched
  <2>7. CASE IsRenamed(i, un, rw, es, h)
    BY <2>1, <2>7, Zenon DEF HasFate, IsRenamed
  <2>8. CASE IsAwaited(i, un, rw, es, h)
    <3>1. \A k \in DOMAIN es2 : es2[k].inst = i => ~es2[k].finish
      BY <2>2, <2>8, Zenon DEF IsAwaited
    <3> QED BY <2>1, <2>8, <3>1, Zenon DEF HasFate, IsAwaited
  <2>9. CASE IsFinished(i, un, rw, es, h)
    <3>1. \A k \in DOMAIN es2 : es2[k].inst = i => es2[k].finish
      BY <2>2, <2>9, Zenon DEF IsFinished
    <3> QED BY <2>1, <2>9, <3>1, Zenon DEF HasFate, IsFinished
  <2> QED BY <2>6, <2>7, <2>8, <2>9, Zenon DEF HasFate
<1>4. Absent(i, grp) \/ (IsRenamed(i, un, rw, es, h) /\ Single(i, grp))
  BY <1>1, Zenon DEF HasFate, IsFetched, IsRenamed, IsAwaited, IsFinished
<1> QED BY <1>2, <1>3, <1>4, Zenon

\* The first u values of a are those of b, the next l those of g.
LEMMA SpreadParts ==
  ASSUME NEW u \in Nat, NEW l \in Nat, NEW a, NEW b, NEW g,
         DOMAIN a = 1 .. (u + l), DOMAIN b = 1 .. u, DOMAIN g = 1 .. l,
         \A k \in 1 .. u : a[k] = b[k], \A k \in 1 .. l : a[u + k] = g[k]
  PROVE  Parts(a, b, g)
<1>1. PICK P \in SUBSET (1 .. (u + l)), Q \in SUBSET (1 .. u), R \in SUBSET (1 .. l) :
        P = 1 .. (u + l) /\ Q = 1 .. u /\ R = 1 .. l
  OBVIOUS
<1>2. /\ \A k \in 1 .. u : (k \in P <=> k \in Q) /\ a[k] = b[k]
      /\ \A k \in 1 .. l : (u + k \in P <=> k \in R) /\ a[u + k] = g[k]
  BY <1>1, Intervals, Zenon
<1>3. PartsAt(a, P, b, Q, g, R)
  BY <1>2, PartsPlaced, Zenon
<1>4. /\ \A i : (Absent(i, a) <=> AbsentAt(i, a, P)) /\ (Single(i, a) <=> SingleAt(i, a, P))
      /\ \A i : (Absent(i, b) <=> AbsentAt(i, b, Q)) /\ (Single(i, b) <=> SingleAt(i, b, Q))
      /\ \A i : (Absent(i, g) <=> AbsentAt(i, g, R)) /\ (Single(i, g) <=> SingleAt(i, g, R))
  BY <1>1, Everywhere, Zenon
<1> QED BY <1>3, <1>4, Zenon DEF Parts, PartsAt

\* A sequence's length is a number.
LEMMA LenNat == ASSUME NEW S, NEW s \in Seq(S) PROVE Len(s) \in Nat
OBVIOUS

\* The entries that are added are those of the group.
LEMMA TakenEntries ==
  ASSUME NEW I, NEW g \in Seq(I), NEW q, NEW p, NEW f, NEW x, RobTaken(g, q, p, f, x),
         NEW es, NEW es2, es = RobQueue!Contents(q), es2 = RobQueue!Contents(p)
  PROVE  EntriesMore(es, es2, g)
<1>1. RingIs(q) /\ RingIs(p)
  BY RingSlots, Zenon DEF RobTaken
<1>2. PICK u \in Nat, l \in Nat : u = q.usage /\ l = Len(g)
  <2>1. q.usage \in Nat /\ Len(g) \in Nat
    BY <1>1, LenNat, Zenon DEF RingIs
  <2> QED BY <2>1, Zenon
<1>3. /\ DOMAIN es = 1 .. u /\ DOMAIN es2 = 1 .. (u + l) /\ p.usage = u + l
      /\ \A k \in 1 .. u : es2[k] = es[k]
      /\ \A k \in 1 .. l : es2[u + k] = NewEntry(g[k])
  <2>1. p.usage = u + l /\ es2 \in Seq(RobEntry)
    BY <1>1, <1>2, Zenon DEF RobTaken, RingIs
  <2> QED BY <1>1, <1>2, <2>1, Zenon DEF RobTaken, RingIs
<1>4. \A k \in 1 .. l : NewEntry(g[k]).inst = g[k] /\ ~NewEntry(g[k]).finish
  BY DEF NewEntry
<1>5. /\ \A k \in 1 .. u : k \in 1 .. (u + l)
      /\ \A k \in 1 .. (u + l) : k \in 1 .. u \/ \E j \in 1 .. l : k = u + j
      /\ DOMAIN g = 1 .. l
  <2>1. DOMAIN g = 1 .. l
    BY <1>2
  <2> QED BY <2>1, Intervals, Zenon
<1>6. \A k \in DOMAIN es : k \in DOMAIN es2 /\ es2[k] = es[k]
  BY <1>3, <1>5, Zenon
<1>7. \A k \in DOMAIN es2 : k \in DOMAIN es \/ (~Absent(es2[k].inst, g) /\ ~es2[k].finish)
  <2>1. ASSUME NEW j \in 1 .. l PROVE ~Absent(es2[u + j].inst, g) /\ ~es2[u + j].finish
    BY <1>3, <1>4, <1>5, Zenon DEF Absent
  <2> QED BY <1>3, <1>5, <2>1, ZenonT(60)
<1>8. Parts(InstsOf(es2), InstsOf(es), g)
  <2>1. PICK a, b : a = InstsOf(es2) /\ b = InstsOf(es)
    OBVIOUS
  <2>2. /\ a = [k \in 1 .. (u + l) |-> es2[k].inst] /\ b = [k \in 1 .. u |-> es[k].inst]
    BY <1>3, <2>1, Zenon DEF InstsOf
  <2>3. DOMAIN a = 1 .. (u + l) /\ DOMAIN b = 1 .. u
    BY <2>2, Zenon
  <2>4. \A k \in 1 .. u : a[k] = b[k]
    <3>1. \A k \in 1 .. u : a[k] = es2[k].inst /\ b[k] = es[k].inst
      BY <1>5, <2>2, Zenon
    <3> QED BY <1>3, <3>1, Zenon
  <2>5. \A k \in 1 .. l : a[u + k] = g[k]
    <3>1. \A k \in 1 .. l : u + k \in 1 .. (u + l)
      BY Intervals, Zenon
    <3>2. \A k \in 1 .. l : a[u + k] = es2[u + k].inst
      BY <2>2, <3>1, Zenon
    <3> QED BY <1>3, <1>4, <3>2, Zenon
  <2>6. Parts(a, b, g)
    BY <1>5, <2>3, <2>4, <2>5, SpreadParts, Zenon
  <2> QED BY <2>1, <2>6, Zenon
<1> QED BY <1>6, <1>7, <1>8, Zenon DEF EntriesMore

\* The same is held at every place.
LEMMA SamePlacesFate ==
  ASSUME NEW i, NEW un, NEW rw, NEW es, NEW h, NEW g, \A z \in Place : g[z] = h[z],
         HasFate(i, un, rw, es, h)
  PROVE  HasFate(i, un, rw, es, g)
<1>1. \A z \in EarlyPlace : z \in Place
  BY PlacesDiffer DEF EarlyPlace, Place
<1>2. Nowhere(i, h) => Nowhere(i, g)
  BY Zenon DEF Nowhere
<1>3. \A z \in Place : IsAt(i, z, h) => IsAt(i, z, g)
  BY Zenon DEF IsAt
<1> QED BY <1>1, <1>2, <1>3, Zenon DEF HasFate, IsFetched, IsRenamed, IsAwaited, IsFinished

\* What has an entry is on its way to the reorder buffer no more.
LEMMA EnteredOnce ==
  ASSUME FateInv, NEW k \in 1 .. rob.usage
  PROVE  Entries[k].inst \in DOMAIN inst /\ Absent(Entries[k].inst, RobWire)
<1>1. CreditInv
  BY Zenon DEF FateInv
<1>2. DOMAIN Entries = 1 .. rob.usage /\ Entries[k].inst \in DOMAIN inst
  BY <1>1, EntriesKnown, Zenon
<1>3. PICK i, es, un, rw, h :
        i \in DOMAIN inst /\ i = Entries[k].inst /\ es = Entries /\ un = Unrenamed /\ rw = RobWire /\ h = held
  BY <1>2
<1>4. HasFate(i, un, rw, es, h)
  BY <1>3, Zenon DEF FateInv, Fates
<1>5. ~Absent(i, InstsOf(es))
  <2>1. k \in DOMAIN es /\ es[k].inst = i
    BY <1>2, <1>3, Zenon
  <2>2. k \in DOMAIN InstsOf(es) /\ InstsOf(es)[k] = i
    BY <2>1 DEF InstsOf
  <2> QED BY <2>2, Zenon DEF Absent
<1>6. Absent(i, rw)
  BY <1>4, <1>5, Zenon DEF HasFate, IsFetched, IsRenamed, IsAwaited, IsFinished
<1> QED BY <1>2, <1>3, <1>6, Zenon

\* No instruction is twice in a group on that wire.
LEMMA GroupIsDistinct ==
  ASSUME FateInv, NEW g \in Seq(DOMAIN inst), NEW r, Parts(RobWire, g, r) PROVE Distinct(g)
<1>1. ASSUME NEW j \in 1 .. Len(g), NEW k \in 1 .. Len(g), g[j] = g[k] PROVE j = k
  <2>1. DOMAIN g = 1 .. Len(g) /\ g[j] \in DOMAIN inst
    OBVIOUS
  <2>2. PICK i, es, un, rw, h :
          i \in DOMAIN inst /\ i = g[j] /\ es = Entries /\ un = Unrenamed /\ rw = RobWire /\ h = held
    BY <2>1
  <2>3. HasFate(i, un, rw, es, h)
    BY <2>2, Zenon DEF FateInv, Fates
  <2>4. Absent(i, rw) \/ Single(i, rw)
    BY <2>3, Zenon DEF HasFate, IsFetched, IsRenamed, IsAwaited, IsFinished
  <2>5. ~Absent(i, g)
    BY <2>1, <2>2, Zenon DEF Absent
  <2>6. Single(i, g)
    BY <2>2, <2>4, <2>5, Zenon DEF Parts
  <2> QED BY <1>1, <2>1, <2>2, <2>6, Zenon DEF Single
<1> QED BY <1>1, Zenon DEF Distinct

\* The tags stay the entries' own.
LEMMA TakenTags ==
  ASSUME FateInv, NEW g \in Seq(DOMAIN inst), NEW r, Parts(RobWire, g, r),
         RobTaken(g, rob, rob', inst, inst')
  PROVE  OwnTags'
<1>1. PICK q, p, f, x, e, y : /\ q = rob /\ p = rob' /\ f = inst /\ x = inst'
                              /\ e = RobQueue!Contents(q) /\ y = RobQueue!Contents(p)
  OBVIOUS
<1>2. RobTaken(g, q, p, f, x) /\ e = Entries /\ y = Entries'
  BY <1>1, Zenon DEF Entries
<1>3. RingIs(q) /\ RingIs(p) /\ Len(g) \in Nat
  BY <1>2, RingSlots, LenNat, Zenon DEF RobTaken
<1>4. PICK u \in Nat, l \in Nat : u = q.usage /\ l = Len(g)
  BY <1>3, Zenon DEF RingIs
<1>5. /\ p.usage = u + l
      /\ \A k : RobQueue!SlotOf(p, k) = RobQueue!SlotOf(q, k)
      /\ \A k \in 1 .. u : y[k] = e[k]
      /\ \A k \in 1 .. l : y[u + k] = NewEntry(g[k])
      /\ \A k \in 1 .. l : x[g[k]].RobTag = RobQueue!SlotOf(q, u + k)
      /\ \A i \in DOMAIN f : Absent(i, g) => x[i].RobTag = f[i].RobTag
  BY <1>1, <1>2, <1>4, Zenon DEF RobTaken
<1>6. ASSUME NEW k \in 1 .. u PROVE x[y[k].inst].RobTag = RobQueue!SlotOf(p, k)
  <2>1. e[k].inst \in DOMAIN f /\ Absent(e[k].inst, RobWire)
    BY <1>1, <1>2, <1>4, EnteredOnce, Zenon
  <2>2. Absent(e[k].inst, g)
    BY <2>1, Zenon DEF Parts
  <2>3. f[e[k].inst].RobTag = RobQueue!SlotOf(q, k)
    BY <1>1, <1>2, <1>4, Zenon DEF FateInv, OwnTags
  <2> QED BY <1>5, <2>1, <2>2, <2>3, Zenon
<1>7. ASSUME NEW j \in 1 .. l PROVE x[y[u + j].inst].RobTag = RobQueue!SlotOf(p, u + j)
  <2>1. NewEntry(g[j]).inst = g[j]
    BY DEF NewEntry
  <2> QED BY <1>5, <2>1, Zenon
<1>8. \A k \in 1 .. (u + l) : x[y[k].inst].RobTag = RobQueue!SlotOf(p, k)
  <2>2. \A k \in 1 .. (u + l) : k \in 1 .. u \/ \E j \in 1 .. l : k = u + j
    BY Intervals, Zenon
  <2>1. ASSUME NEW k \in 1 .. (u + l) PROVE x[y[k].inst].RobTag = RobQueue!SlotOf(p, k)
    <3>1. k \in 1 .. u \/ \E j \in 1 .. l : k = u + j
      BY <2>2
    <3>2. CASE k \in 1 .. u
      BY <1>6, <3>2
    <3>3. CASE \E j \in 1 .. l : k = u + j
      <4>1. PICK j \in 1 .. l : k = u + j
        BY <3>3
      <4>2. x[y[u + j].inst].RobTag = RobQueue!SlotOf(p, u + j)
        BY <1>7
      <4> QED BY <4>1, <4>2, Zenon
    <3> QED BY <3>1, <3>2, <3>3
  <2> QED BY <2>1
<1>9. \A k \in 1 .. p.usage : x[y[k].inst].RobTag = RobQueue!SlotOf(p, k)
  BY <1>5, <1>8, Zenon
<1> QED BY <1>1, <1>2, <1>9, Zenon DEF OwnTags

\* Renamed instructions get their entries.
LEMMA AllocateRobFate ==
  ASSUME FateInv, AllocateRob_,
         UNCHANGED <<fetch_credit, renamingVars, dispatchVars, rsVars, fuVars>>
  PROVE  FateInv' /\ Advances
<1>1. PICK c : c = preceding_rob_inst_in
  OBVIOUS
<1>2. CreditInv /\ LateWires /\ SameSent
  BY Zenon DEF FateInv
<1>3. PICK n \in Nat, g \in Seq(DOMAIN inst) : \E start, allocated : Allocating(n, g, start, allocated)
  BY <1>2, AllocateRobUnfolds, Zenon
<1>4. g = Message(c) /\ Ready(c) /\ Fire(c, {}, {commit_event}, Nothing)
  BY <1>1, <1>3, Zenon DEF Allocating
<1>5. CreditInv'
  BY <1>2, AllocateRobStep, Zenon
<1>6. c \in GroupPort /\ c \in LinkPort /\ c \notin LatePort /\ Events({}, {commit_event})
      /\ \A mail \in Nothing : mail[1] \notin LatePort
  <2>1. Events({}, {commit_event})
    BY DEF Events, UniqueEvent
  <2> QED BY <1>1, <2>1, LinkPortHas, LatePortsAre, NotWork, Zenon
<1>7. More
  <2>1. PICK m \in Nat, g2 \in Seq(DOMAIN inst) : DOMAIN inst = 1 .. m /\ Program(inst', m)
    BY <1>2, AllocateRobDoes, Zenon
  <2>2. DOMAIN inst' = 1 .. m
    BY <2>1, ProgramIsSeq, Zenon
  <2> QED BY <2>1, <2>2, Zenon DEF More
<1>8. Parts(Instructions(c), g, Instructions(c)')
  BY <1>2, <1>4, <1>6, <1>7, TakenGroup, Zenon
<1>9. PICK r : r = RobWire' /\ Parts(RobWire, g, r)
  BY <1>1, <1>8, Zenon DEF RobWire
<1>10. Distinct(g)
  BY <1>9, GroupIsDistinct, Zenon
<1>11. RobTaken(g, rob, rob', inst, inst')
  <2>1. Distinct(Message(preceding_rob_inst_in))
    BY <1>1, <1>4, <1>10, Zenon
  <2>2. PICK g2 \in Seq(DOMAIN inst) : /\ g2 = Message(preceding_rob_inst_in)
                                       /\ RobTaken(g2, rob, rob', inst, inst')
    BY <1>2, <2>1, AllocateRobTakes, Zenon
  <2> QED BY <1>1, <1>4, <2>2, Zenon
<1>12. OwnTags'
  BY <1>9, <1>11, TakenTags, Zenon
<1>13. DOMAIN inst' = DOMAIN inst
  BY <1>11, Zenon DEF RobTaken
<1>14. /\ LateWires'
       /\ OnTheWay(write_back_rob_finish_in)' = OnTheWay(write_back_rob_finish_in)
       /\ OnTheWay(preceding_write_back_inst_in)' = OnTheWay(preceding_write_back_inst_in)
  BY <1>2, <1>4, <1>6, <1>7, LateQuiet, Zenon
<1>15. SameSent'
  <2>1. \A mail \in Nothing : mail[1] # preceding_rob_inst_in /\ mail[1] # preceding_dispatch_inst_in
    BY NotWork, Zenon
  <2> QED BY <1>2, <1>4, <2>1, SameSentQuiet, Zenon
<1>16. \A d \in LinkPort : d # c => OnTheWay(d)' = OnTheWay(d)
  <2>1. \A d \in LinkPort : d # c => Quiet(d)
    BY <1>2, <1>4, <1>6, <1>7, TakingStep
  <2> QED BY <2>1, QuietPortSame, Zenon
<1>17. /\ preceding_renaming_inst_in # c /\ preceding_dispatch_inst_in # c
       /\ \A p \in Pipe : preceding_reservation_inst_in(p) # c /\ preceding_func_inst_in(p) # c
  BY <1>1 DEF preceding_rob_inst_in, preceding_dispatch_inst_in, preceding_renaming_inst_in,
     preceding_reservation_inst_in, preceding_func_inst_in
<1>18. UNCHANGED <<renaming_stage_queue, inst_queue, dispatch_pending_queue, reservation_station,
                   alu_queue, inst_queue_map>>
  BY Zenon DEF renamingVars, dispatchVars, rsVars, fuVars
<1>19. Unrenamed' = Unrenamed
  BY <1>16, <1>17, <1>18, LinkPortHas, Zenon DEF Unrenamed, Instructions
<1>20. LateQueues'
  BY <1>13, <1>18, Zenon DEF LateQueues, FateInv
<1>21. Kept({})
  BY <1>14, <1>16, <1>17, <1>18, LinkPortHas, Zenon DEF Kept
<1>22. PICK un, rw, es, es2, h, k : /\ un = Unrenamed /\ rw = RobWire /\ es = Entries
                                    /\ es2 = Entries' /\ h = held /\ k = held'
  OBVIOUS
<1>23. EntriesMore(es, es2, g)
  BY <1>11, <1>22, TakenEntries, Zenon DEF Entries
<1>24. \A z \in Place : k[z] = h[z]
  <2>1. PICK X : X = {} /\ Kept(X)
    BY <1>21, Zenon
  <2>2. \A z \in Place : z \notin X => held'[z] = held[z]
    BY <2>1, KeptHeld, Zenon
  <2>3. \A z \in Place : z \notin X
    BY <2>1
  <2> QED BY <1>22, <2>2, <2>3, Zenon
<1>25. ASSUME NEW i \in DOMAIN inst PROVE HasFate(i, un, r, es2, k)
  <2>1. HasFate(i, un, rw, es, h)
    BY <1>22, Zenon DEF FateInv, Fates
  <2>2. HasFate(i, un, r, es2, h)
    BY <1>9, <1>22, <1>23, <2>1, TakenFate, Zenon
  <2> QED BY <1>24, <2>2, SamePlacesFate, Zenon
<1>26. Fates'
  BY <1>9, <1>13, <1>19, <1>22, <1>25, Zenon DEF Fates
<1>27. Advances
  <2>1. \A i \in DOMAIN inst : SameFlags(inst, inst', i) /\ SameRegs(inst, inst', i)
    BY <1>11, Zenon DEF RobTaken
  <2>2. \A z \in Place : held'[z] = held[z]
    BY <1>22, <1>24, Zenon
  <2> QED BY <1>13, <1>19, <2>1, <2>2, StaysAdvances, Zenon
<1> QED BY <1>5, <1>12, <1>14, <1>15, <1>20, <1>26, <1>27, Zenon DEF FateInv

-----------------------------------------------------------------------------
(* The handlers of the reorder buffer that find the entries of what is     *)
(* finished and take them out.                                             *)

\* What such a handler, which is not sent instructions to dispatch, leaves.
RobAlone ==
    /\ LateWires' /\ LateQueues' /\ SameSent'
    /\ Unrenamed' = Unrenamed /\ RobWire' = RobWire
    /\ \A z \in Place : z # AtFinishWire => held'[z] = held[z]

\* Everything but the wire it hears from.
LEMMA RobHandler ==
  ASSUME FateInv, NEW c, NEW soon, NEW next, NEW out, Ready(c), Fire(c, soon, next, out),
         Events(soon, next), inst' = inst, c \notin WorkPort \/ c = write_back_rob_finish_in,
         \A mail \in out : mail[1] \notin WorkPort,
         UNCHANGED <<renaming_stage_queue, inst_queue, dispatch_pending_queue,
                     reservation_station, alu_queue, inst_queue_map>>
  PROVE  /\ RobAlone
         /\ c \notin WorkPort => held'[AtFinishWire] = held[AtFinishWire]
         /\ c = write_back_rob_finish_in =>
              Message(c) \in Seq(DOMAIN inst) /\ Parts(held[AtFinishWire], Message(c), held'[AtFinishWire])
<1>1. CreditInv /\ LateWires /\ SameSent /\ More
  BY Zenon DEF FateInv, More
<1>2. /\ \A d \in FirstPort \cup {preceding_dispatch_inst_in} : d \in WorkPort
      /\ \A d \in LatePort : d \in WorkPort
  BY LinkPortHas DEF FirstPort, WorkPort
<1>3. /\ \A mail \in out : mail[1] # preceding_rob_inst_in /\ mail[1] # preceding_dispatch_inst_in
      /\ \A mail \in out : mail[1] \in LatePort =>
            mail[2] \in Seq(LateMessage(mail[1], DOMAIN inst'))
      /\ \A d \in WorkPort : \A mail \in out : mail[1] # d
  BY <1>2, WorkPortHas, Zenon
<1>4. LateWires' /\ SameSent'
  BY <1>1, <1>3, LateStep, SameSentQuiet, Zenon
<1>5. \A d \in WorkPort : d # c => OnTheWay(d)' = OnTheWay(d)
  <2>1. ASSUME NEW d \in WorkPort, d # c PROVE OnTheWay(d)' = OnTheWay(d)
    <3>1. \A mail \in out : mail[1] # d
      BY <1>3
    <3> QED BY <1>1, <2>1, <3>1, WorkQuiet
  <2> QED BY <2>1, Zenon
<1>6. \A d \in WorkPort : d # write_back_rob_finish_in => OnTheWay(d)' = OnTheWay(d)
  BY <1>5, Zenon
<1>7. /\ preceding_renaming_inst_in # write_back_rob_finish_in
      /\ preceding_rob_inst_in # write_back_rob_finish_in
      /\ preceding_dispatch_inst_in # write_back_rob_finish_in
      /\ preceding_write_back_inst_in # write_back_rob_finish_in
      /\ \A p \in Pipe : /\ preceding_reservation_inst_in(p) # write_back_rob_finish_in
                         /\ preceding_func_inst_in(p) # write_back_rob_finish_in
  BY LinkPortHas, LatePortsAre, Zenon
<1>8. Unrenamed' = Unrenamed /\ RobWire' = RobWire
  BY <1>6, <1>7, WorkPortHas, Zenon DEF Unrenamed, RobWire, Instructions
<1>9. LateQueues'
  BY Zenon DEF LateQueues, FateInv
<1>10. \A z \in Place : z # AtFinishWire => held'[z] = held[z]
  <2>1. PICK X : X = {AtFinishWire}
    OBVIOUS
  <2>2. AtFinishWire \in X /\ \A z \in Place : z # AtFinishWire => z \notin X
    BY <2>1
  <2>3. Kept(X)
    BY <1>6, <1>7, <2>2, WorkPortHas, Zenon DEF Kept
  <2> QED BY <2>2, <2>3, KeptHeld, Zenon
<1>11. RobAlone
  BY <1>4, <1>8, <1>9, <1>10, Zenon DEF RobAlone
<1>12. ASSUME c \notin WorkPort PROVE held'[AtFinishWire] = held[AtFinishWire]
  <2>1. write_back_rob_finish_in \in WorkPort /\ write_back_rob_finish_in # c
    BY <1>12, WorkPortHas, Zenon
  <2>2. Instructions(write_back_rob_finish_in)' = Instructions(write_back_rob_finish_in)
    BY <1>5, <2>1, Zenon DEF Instructions
  <2> QED BY <2>2, HeldIs, HeldIsPrime, Zenon
<1>13. ASSUME c = write_back_rob_finish_in
       PROVE  Message(c) \in Seq(DOMAIN inst) /\ Parts(held[AtFinishWire], Message(c), held'[AtFinishWire])
  <2>1. c \in LatePort /\ c \in WorkPort /\ LateMessage(c, DOMAIN inst') = Seq(DOMAIN inst)
    BY <1>13, LatePortsAre, WorkPortHas, Zenon DEF LateMessage
  <2>12. \A d \in LatePort :
            /\ OnTheWay(d) \in Seq(LateMessage(d, DOMAIN inst'))
            /\ OnTheWay(d)' = (IF d = c THEN Tail(OnTheWay(d)) ELSE OnTheWay(d)) \o Sent(out, d)
            /\ d = c => OnTheWay(d) # << >> /\ Message(c) = Head(OnTheWay(d))
    <3>1. \A mail \in out : mail[1] \in LatePort =>
             mail[2] \in Seq(LateMessage(mail[1], DOMAIN inst'))
      BY <1>3
    <3>2. /\ LateWires'
          /\ \A d \in LatePort :
               /\ OnTheWay(d) \in Seq(LateMessage(d, DOMAIN inst'))
               /\ OnTheWay(d)' = (IF d = c THEN Tail(OnTheWay(d)) ELSE OnTheWay(d)) \o Sent(out, d)
               /\ d = c => OnTheWay(d) # << >> /\ Message(c) = Head(OnTheWay(d))
               /\ d # c /\ (\A mail \in out : mail[1] # d) => OnTheWay(d)' = OnTheWay(d)
      BY <1>1, <3>1, LateStep
    <3> QED BY <3>2
  <2>2. /\ OnTheWay(c) \in Seq(LateMessage(c, DOMAIN inst'))
        /\ OnTheWay(c)' = (IF c = c THEN Tail(OnTheWay(c)) ELSE OnTheWay(c)) \o Sent(out, c)
        /\ c = c => OnTheWay(c) # << >> /\ Message(c) = Head(OnTheWay(c))
    BY <2>1, <2>12, Zenon
  <2>3. PICK I, w : I = DOMAIN inst /\ w = OnTheWay(c)
    OBVIOUS
  <2>4. w \in Seq(Seq(I)) /\ w # << >> /\ Message(c) = Head(w) /\ OnTheWay(c)' = Tail(w) \o Sent(out, c)
    BY <2>1, <2>2, <2>3, Zenon
  <2>5. Sent(out, c) = << >>
    BY <1>3, <2>1, Zenon DEF Sent
  <2>6. PICK t \in Seq(Seq(I)) : t = Tail(w)
    <3>1. \A S : \A v \in Seq(S) : v # << >> => Tail(v) \in Seq(S)
      OBVIOUS
    <3> QED BY <2>4, <3>1, Zenon
  <2>7. t \o << >> = t
    BY EmptyConcat
  <2>8. PICK g \in Seq(I), k \in Seq(I) : g = Head(w) /\ k = Joined(t) /\ Joined(w) = g \o k
    BY <2>4, <2>6, JoinedHead, Zenon
  <2>9. PICK j : j = Joined(w)
    OBVIOUS
  <2>10. Parts(j, g, k)
    BY <2>8, <2>9, ConcatParts, Zenon
  <2>11. Instructions(c) = j /\ Instructions(c)' = k
    BY <2>3, <2>4, <2>5, <2>6, <2>7, <2>8, <2>9, Zenon DEF Instructions
  <2> QED BY <1>13, <2>3, <2>4, <2>8, <2>10, <2>11, HeldIs, HeldIsPrime, Zenon
<1> QED BY <1>11, <1>12, <1>13, Zenon

\* The fates after a step of the reorder buffer.
LEMMA RobFates ==
  ASSUME FateInv, CreditInv', RobAlone, inst' = inst, OwnTags', NEW es, es = Entries',
         NEW un, NEW rw, un = Unrenamed, rw = RobWire, NEW h, h = held',
         \A i \in DOMAIN inst : HasFate(i, un, rw, es, h)
  PROVE  FateInv'
<1>1. Fates'
  BY Zenon DEF Fates, RobAlone
<1> QED BY <1>1, Zenon DEF FateInv, RobAlone

\* r is the ring q, and the entries in the slots tags are finished, too.
FinishedIn(q, tags, r) ==
    /\ r.usage = q.usage
    /\ \A k : RobQueue!SlotOf(r, k) = RobQueue!SlotOf(q, k)
    /\ \A k \in 1 .. q.usage :
         /\ RobQueue!Contents(r)[k].inst = RobQueue!Contents(q)[k].inst
         /\ RobQueue!Contents(r)[k].finish <=>
              RobQueue!Contents(q)[k].finish \/ RobQueue!SlotOf(q, k) \in tags

\* Marking does that.
LEMMA MarkedEntries ==
  ASSUME NEW q, RobRing!Ring(q), NEW tags, NEW r, Marked(q, tags, r)
  PROVE  RobRing!Ring(r) /\ FinishedIn(q, tags, r)
<1>1. RingIs(q)
  BY RingSlots
<1>2. PICK D, m : /\ D = q.dataList /\ m = MarkedList(q, tags) /\ r = [q EXCEPT !.dataList = m]
                  /\ m = [s \in DOMAIN D |-> [D[s] EXCEPT !.finish = @ \/ s \in tags]]
  BY Zenon DEF Marked, MarkedList
<1>3. r.dataList = m /\ r.head = q.head /\ r.usage = q.usage
  <2>1. "dataList" \in DOMAIN q
    BY DEF RobRing!Ring, RobRing!LoopQueueType
  <2> QED BY <1>2, <2>1
<1>4. \A k : RobQueue!SlotOf(r, k) = RobQueue!SlotOf(q, k)
  BY <1>3, Zenon DEF RobQueue!SlotOf
<1>5. ASSUME NEW k \in 1 .. q.usage
      PROVE  /\ RobQueue!Contents(r)[k].inst = RobQueue!Contents(q)[k].inst
             /\ RobQueue!Contents(r)[k].finish <=>
                  RobQueue!Contents(q)[k].finish \/ RobQueue!SlotOf(q, k) \in tags
  <2>1. PICK s, e, x : s = RobQueue!SlotOf(q, k) /\ e = D[s] /\ x = m[s]
    OBVIOUS
  <2>2. s \in DOMAIN D /\ RobQueue!Contents(q)[k] = e /\ e \in RobEntry
    <3>1. PICK c \in Seq(RobEntry), u \in Nat : c = RobQueue!Contents(q) /\ u = q.usage /\ Len(c) = u
      BY <1>1, Zenon DEF RingIs
    <3>2. c[k] \in RobEntry
      <4>1. k \in 1 .. Len(c)
        BY <3>1, Zenon
      <4> HIDE DEF RobEntry
      <4> QED BY <4>1
    <3> QED BY <1>1, <1>2, <2>1, <3>1, <3>2, Zenon DEF RingIs
  <2>3. PICK b \in BOOLEAN : b <=> e.finish \/ s \in tags
    OBVIOUS
  <2>4. x = [e EXCEPT !.finish = (e.finish \/ s \in tags)]
    <3>1. x = [D[s] EXCEPT !.finish = (D[s].finish \/ s \in tags)]
      BY <1>2, <2>1, <2>2, Zenon
    <3> QED BY <2>1, <3>1
  <2>5. e.finish \in BOOLEAN /\ DOMAIN e = {"inst", "finish"}
    BY <2>2 DEF RobEntry
  <2>6. x.finish = (e.finish \/ s \in tags) /\ x.inst = e.inst
    BY <2>4, <2>5, Zenon
  <2>7. RobQueue!Contents(r)[k] = x
    <3>1. k \in 1 .. r.usage
      BY <1>3
    <3>2. RobQueue!Contents(r)[k] = r.dataList[RobQueue!SlotOf(r, k)]
      BY <3>1 DEF RobQueue!Contents
    <3> QED BY <1>3, <1>4, <2>1, <3>2, Zenon
  <2> QED BY <2>1, <2>2, <2>6, <2>7, Zenon
<1>6. RobRing!Ring(r)
  <2>1. PICK ids : RingHolds(q, ids)
    <3>1. RingHolds(q, {RobQueue!Contents(q)[k].inst : k \in 1 .. q.usage})
      BY Zenon DEF RingHolds
    <3> QED BY <3>1
  <2> QED BY <2>1, RingMarked, Zenon DEF HoldsAs
<1> QED BY <1>3, <1>4, <1>5, <1>6, Zenon DEF FinishedIn

\* es2 has the entries of es, and those of the instructions in grp are finished.
EntriesFinished(es, es2, grp) ==
    /\ DOMAIN es2 = DOMAIN es
    /\ \A k \in DOMAIN es :
         /\ es2[k].inst = es[k].inst
         /\ es2[k].finish <=> es[k].finish \/ ~Absent(es[k].inst, grp)

\* What leaves the last wire is finished, the rest stays.
LEMMA FinishedFate ==
  ASSUME NEW i, NEW un, NEW rw, NEW es, NEW es2, NEW h, NEW g, NEW grp,
         EntriesFinished(es, es2, grp), Parts(h[AtFinishWire], grp, g[AtFinishWire]),
         \A z \in Place : z # AtFinishWire => g[z] = h[z], HasFate(i, un, rw, es, h)
  PROVE  HasFate(i, un, rw, es2, g)
<1>1. AtFinishWire \in Place /\ AtFinishWire \notin EarlyPlace /\ \A z \in EarlyPlace : z \in Place
  <2>1. \A z \in EarlyPlace : z \in Place
    BY PlacesDiffer DEF EarlyPlace, Place
  <2> QED BY <2>1, PlacesDiffer, Zenon
<1>2. PICK a, b : a = h[AtFinishWire] /\ b = g[AtFinishWire]
  OBVIOUS
<1>3. /\ Absent(i, a) <=> Absent(i, grp) /\ Absent(i, b)
      /\ Single(i, a) <=> \/ Single(i, grp) /\ Absent(i, b)
                          \/ Absent(i, grp) /\ Single(i, b)
  BY <1>2, Zenon DEF Parts
<1>4. InstsOf(es2) = InstsOf(es)
  <2>1. \A k \in DOMAIN es : es2[k].inst = es[k].inst
    BY Zenon DEF EntriesFinished
  <2>2. DOMAIN es2 = DOMAIN es
    BY Zenon DEF EntriesFinished
  <2> QED BY <2>1, <2>2 DEF InstsOf
<1>5. CASE Absent(i, grp)
  <2>1. (Absent(i, a) <=> Absent(i, b)) /\ (Single(i, a) <=> Single(i, b))
    <3>1. ~Single(i, grp)
      BY <1>5, SingleOccurs, Zenon
    <3> QED BY <1>3, <1>5, <3>1, Zenon
  <2>2. \A z \in Place : (Absent(i, h[z]) <=> Absent(i, g[z])) /\ (Single(i, h[z]) <=> Single(i, g[z]))
    <3>1. ASSUME NEW z \in Place
          PROVE  (Absent(i, h[z]) <=> Absent(i, g[z])) /\ (Single(i, h[z]) <=> Single(i, g[z]))
      BY <1>2, <2>1, Zenon
    <3> QED BY <3>1, Zenon
  <2>3. Nowhere(i, h) => Nowhere(i, g)
    BY <2>2, Zenon DEF Nowhere
  <2>4. \A z \in Place : IsAt(i, z, h) => IsAt(i, z, g)
    BY <2>2, Zenon DEF IsAt
  <2>5. \A k \in DOMAIN es2 : es2[k].inst = i => k \in DOMAIN es /\ es[k].inst = i /\ (es2[k].finish <=> es[k].finish)
    BY <1>5, Zenon DEF EntriesFinished
  <2>6. CASE IsFetched(i, un, rw, es, h)
    BY <1>4, <2>3, <2>6, Zenon DEF HasFate, IsFetched
  <2>7. CASE IsRenamed(i, un, rw, es, h)
    BY <1>1, <1>4, <2>4, <2>7, Zenon DEF HasFate, IsRenamed
  <2>8. CASE IsAwaited(i, un, rw, es, h)
    <3>1. \A k \in DOMAIN es2 : es2[k].inst = i => ~es2[k].finish
      BY <2>5, <2>8, Zenon DEF IsAwaited
    <3> QED BY <1>4, <2>4, <2>8, <3>1, Zenon DEF HasFate, IsAwaited
  <2>9. CASE IsFinished(i, un, rw, es, h)
    <3>1. \A k \in DOMAIN es2 : es2[k].inst = i => es2[k].finish
      BY <2>5, <2>9, Zenon DEF IsFinished
    <3> QED BY <1>4, <2>3, <2>9, <3>1, Zenon DEF HasFate, IsFinished
  <2> QED BY <2>6, <2>7, <2>8, <2>9, Zenon DEF HasFate
<1>6. CASE ~Absent(i, grp)
  <2>1. ~Absent(i, h[AtFinishWire])
    BY <1>2, <1>3, <1>6, Zenon
  <2>2. ASSUME NEW x \in Place, IsAt(i, x, h) PROVE x = AtFinishWire
    BY <1>1, <2>1, <2>2, Zenon DEF IsAt
  <2>3. ~Nowhere(i, h)
    BY <1>1, <2>1, Zenon DEF Nowhere
  <2>4. IsAwaited(i, un, rw, es, h)
    BY <1>1, <2>2, <2>3, Zenon DEF HasFate, IsFetched, IsRenamed, IsFinished
  <2>5. IsAt(i, AtFinishWire, h)
    BY <2>2, <2>4, Zenon DEF IsAwaited
  <2>6. Absent(i, g[AtFinishWire])
    <3>1. Single(i, a)
      BY <1>2, <2>5, Zenon DEF IsAt
    <3> QED BY <1>2, <1>3, <1>6, <3>1, Zenon
  <2>7. Nowhere(i, g)
    <3>1. ASSUME NEW z \in Place PROVE Absent(i, g[z])
      BY <2>5, <2>6, Zenon DEF IsAt
    <3> QED BY <3>1, Zenon DEF Nowhere
  <2>8. \A k \in DOMAIN es2 : es2[k].inst = i => es2[k].finish
    BY <1>6, Zenon DEF EntriesFinished
  <2> QED BY <1>4, <2>4, <2>7, <2>8, Zenon DEF HasFate, IsAwaited, IsFinished
<1> QED BY <1>5, <1>6

\* What is on that wire has an entry.
LEMMA FinishHasEntry ==
  ASSUME FateInv, NEW i \in DOMAIN inst, ~Absent(i, held[AtFinishWire])
  PROVE  \E k \in 1 .. rob.usage : Entries[k].inst = i
<1>1. PICK es, un, rw, h : es = Entries /\ un = Unrenamed /\ rw = RobWire /\ h = held
  OBVIOUS
<1>2. HasFate(i, un, rw, es, h) /\ ~Absent(i, h[AtFinishWire])
  BY <1>1, Zenon DEF FateInv, Fates
<1>3. AtFinishWire \in Place /\ AtFinishWire \notin EarlyPlace /\ \A z \in EarlyPlace : z \in Place
  <2>1. \A z \in EarlyPlace : z \in Place
    BY PlacesDiffer DEF EarlyPlace, Place
  <2> QED BY <2>1, PlacesDiffer, Zenon
<1>4. ~Nowhere(i, h) /\ \A x \in Place : IsAt(i, x, h) => x = AtFinishWire
  BY <1>2, <1>3, Zenon DEF Nowhere, IsAt
<1>5. Single(i, InstsOf(es))
  BY <1>2, <1>3, <1>4, Zenon DEF HasFate, IsFetched, IsRenamed, IsAwaited, IsFinished
<1>6. PICK k \in DOMAIN InstsOf(es) : InstsOf(es)[k] = i
  BY <1>5, Zenon DEF Single
<1>7. k \in DOMAIN es /\ es[k].inst = i
  BY <1>6 DEF InstsOf
<1>8. DOMAIN Entries = 1 .. rob.usage
  BY EntriesKnown, Zenon DEF FateInv
<1> QED BY <1>1, <1>7, <1>8, Zenon

\* The tags are those of the entries of what is on the wire.
LEMMA TagsFinish ==
  ASSUME FateInv, NEW grp \in Seq(DOMAIN inst), NEW rest, Parts(held[AtFinishWire], grp, rest),
         NEW tags, tags = {inst[i].RobTag : i \in Range(grp)}, NEW k \in 1 .. rob.usage
  PROVE  RobQueue!SlotOf(rob, k) \in tags <=> ~Absent(Entries[k].inst, grp)
<1>1. RobRing!Ring(rob) /\ RingIs(rob)
  BY RingSlots, Zenon DEF FateInv, CreditInv, RobInv
<1>2. PICK I, f, q, es : I = DOMAIN inst /\ f = inst /\ q = rob /\ es = Entries
  OBVIOUS
<1>3. \A j \in 1 .. q.usage : f[es[j].inst].RobTag = RobQueue!SlotOf(q, j)
  BY <1>2, Zenon DEF FateInv, OwnTags
<1>4. tags = {f[i].RobTag : i \in Range(grp)} /\ Range(grp) = {grp[j] : j \in DOMAIN grp}
  BY <1>2, Zenon DEF Range
<1>5. ASSUME ~Absent(es[k].inst, grp) PROVE RobQueue!SlotOf(q, k) \in tags
  <2>1. PICK j \in DOMAIN grp : grp[j] = es[k].inst
    BY <1>5, Zenon DEF Absent
  <2>2. es[k].inst \in Range(grp)
    BY <1>4, <2>1
  <2>3. f[es[k].inst].RobTag = RobQueue!SlotOf(q, k)
    BY <1>2, <1>3, Zenon
  <2> QED BY <1>4, <2>2, <2>3, Zenon
<1>6. ASSUME RobQueue!SlotOf(q, k) \in tags PROVE ~Absent(es[k].inst, grp)
  <2>1. PICK i \in Range(grp) : f[i].RobTag = RobQueue!SlotOf(q, k)
    BY <1>4, <1>6, Zenon
  <2>2. PICK j \in DOMAIN grp : grp[j] = i
    BY <1>4, <2>1
  <2>3. ~Absent(i, grp)
    BY <2>2, Zenon DEF Absent
  <2>4. i \in I
    <3>1. \A S : \A s \in Seq(S) : \A m \in DOMAIN s : s[m] \in S
      OBVIOUS
    <3> QED BY <1>2, <2>2, <3>1, Zenon
  <2>5. ~Absent(i, held[AtFinishWire])
    BY <2>3, Zenon DEF Parts
  <2>6. PICK l \in 1 .. q.usage : es[l].inst = i
    BY <1>2, <2>4, <2>5, FinishHasEntry, Zenon
  <2>7. RobQueue!SlotOf(q, l) = RobQueue!SlotOf(q, k)
    BY <1>3, <2>1, <2>6, Zenon
  <2>8. l \in 1 .. RobDepth /\ k \in 1 .. RobDepth
    <3>1. PICK u \in Nat : u = q.usage /\ u <= RobDepth
      BY <1>1, <1>2, Zenon DEF RingIs
    <3>2. RobDepth \in Nat
      BY SizesAssumption
    <3>3. l \in 1 .. u /\ k \in 1 .. u
      BY <1>2, <3>1, Zenon
    <3> QED BY <3>1, <3>2, <3>3
  <2>9. l = k
    BY <1>1, <1>2, <2>7, <2>8, Zenon DEF RingIs
  <2> QED BY <2>3, <2>6, <2>9, Zenon
<1> QED BY <1>2, <1>5, <1>6, Zenon

\* Finished instructions' entries are marked.
LEMMA FinishFate ==
  ASSUME FateInv, Finish_, UNCHANGED <<fetch_credit, renamingVars, dispatchVars, rsVars, fuVars>>
  PROVE  FateInv' /\ Advances
<1>1. PICK c : c = write_back_rob_finish_in
  OBVIOUS
<1>2. PICK tags, grp, marked :
        /\ grp = Message(c) /\ tags = {inst[i].RobTag : i \in Range(grp)}
        /\ Ready(c) /\ Fire(c, {}, {}, Nothing) /\ inst' = inst
        /\ marked = [s \in DOMAIN rob.dataList |->
                       [rob.dataList[s] EXCEPT !.finish = @ \/ s \in tags]]
        /\ rob' = [rob EXCEPT !.dataList = marked]
  BY <1>1, Zenon DEF Finish_
<1>3. CreditInv /\ CreditInv'
  BY FinishStep, Zenon DEF FateInv
<1>4. PICK q, r, es, es2, un, rw, h, g :
        /\ q = rob /\ r = rob' /\ es = RobQueue!Contents(q) /\ es2 = RobQueue!Contents(r)
        /\ un = Unrenamed /\ rw = RobWire /\ h = held /\ g = held'
  OBVIOUS
<1>5. es = Entries /\ es2 = Entries'
  BY <1>4, Zenon DEF Entries
<1>6. Marked(q, tags, r)
  BY <1>2, <1>4, Zenon DEF Marked, MarkedList
<1>7. RobRing!Ring(q) /\ RingIs(q)
  BY <1>3, <1>4, RingSlots, Zenon DEF CreditInv, RobInv
<1>8. RobRing!Ring(r) /\ FinishedIn(q, tags, r) /\ RingIs(r)
  BY <1>6, <1>7, MarkedEntries, RingSlots, Zenon
<1>9. UNCHANGED <<renaming_stage_queue, inst_queue, dispatch_pending_queue, reservation_station,
                  alu_queue, inst_queue_map>>
  BY Zenon DEF renamingVars, dispatchVars, rsVars, fuVars
<1>10. RobAlone /\ grp \in Seq(DOMAIN inst) /\ Parts(h[AtFinishWire], grp, g[AtFinishWire])
  <2>1. Events({}, {}) /\ \A mail \in Nothing : mail[1] \notin WorkPort
    BY NotWork, Zenon DEF Events
  <2>2. /\ RobAlone
        /\ c \notin WorkPort => held'[AtFinishWire] = held[AtFinishWire]
        /\ c = write_back_rob_finish_in =>
             Message(c) \in Seq(DOMAIN inst) /\ Parts(held[AtFinishWire], Message(c), held'[AtFinishWire])
    BY <1>1, <1>2, <1>9, <2>1, RobHandler, Zenon
  <2> QED BY <1>1, <1>2, <1>4, <2>2, Zenon
<1>11. \A k \in 1 .. q.usage : RobQueue!SlotOf(q, k) \in tags <=> ~Absent(es[k].inst, grp)
  <2>1. PICK rest : rest = g[AtFinishWire]
    OBVIOUS
  <2>2. Parts(held[AtFinishWire], grp, rest)
    BY <1>4, <1>10, <2>1, Zenon
  <2>3. ASSUME NEW k \in 1 .. q.usage
        PROVE  RobQueue!SlotOf(q, k) \in tags <=> ~Absent(es[k].inst, grp)
    <3>1. RobQueue!SlotOf(rob, k) \in tags <=> ~Absent(Entries[k].inst, grp)
      BY <1>2, <1>4, <1>10, <2>2, <2>3, TagsFinish, Zenon
    <3> QED BY <1>4, <1>5, <3>1, Zenon
  <2> QED BY <2>3, Zenon
<1>12. EntriesFinished(es, es2, grp)
  <2>1. DOMAIN es = 1 .. q.usage /\ DOMAIN es2 = 1 .. q.usage
    BY <1>4, <1>7, <1>8, Zenon DEF RingIs, FinishedIn
  <2> QED BY <1>4, <1>8, <1>11, <2>1, Zenon DEF FinishedIn, EntriesFinished
<1>13. \A i \in DOMAIN inst : HasFate(i, un, rw, es2, g)
  <2>1. \A z \in Place : z # AtFinishWire => g[z] = h[z]
    BY <1>4, <1>10, Zenon DEF RobAlone
  <2>2. ASSUME NEW i \in DOMAIN inst PROVE HasFate(i, un, rw, es2, g)
    <3>1. HasFate(i, un, rw, es, h)
      BY <1>4, <1>5, Zenon DEF FateInv, Fates
    <3> QED BY <1>10, <1>12, <2>1, <3>1, FinishedFate, Zenon
  <2> QED BY <2>2, Zenon
<1>14. OwnTags'
  <2>1. \A k \in 1 .. q.usage : inst[es[k].inst].RobTag = RobQueue!SlotOf(q, k)
    BY <1>4, <1>5, Zenon DEF FateInv, OwnTags
  <2>2. /\ r.usage = q.usage
        /\ \A k \in 1 .. q.usage : es2[k].inst = es[k].inst /\ RobQueue!SlotOf(r, k) = RobQueue!SlotOf(q, k)
    BY <1>4, <1>8, Zenon DEF FinishedIn
  <2>3. \A k \in 1 .. r.usage : inst[es2[k].inst].RobTag = RobQueue!SlotOf(r, k)
    <3>1. ASSUME NEW k \in 1 .. q.usage PROVE inst[es2[k].inst].RobTag = RobQueue!SlotOf(r, k)
      BY <2>1, <2>2, Zenon
    <3> QED BY <2>2, <3>1, Zenon
  <2> QED BY <1>2, <1>4, <1>5, <2>3, Zenon DEF OwnTags
<1>15. Advances
  BY <1>2, <1>10, SameAdvances, Zenon DEF RobAlone
<1> QED BY <1>2, <1>3, <1>4, <1>5, <1>10, <1>13, <1>14, <1>15, RobFates, Zenon

\* p is the ring q without its first m entries.
RingShifted(q, p, m) ==
    /\ p.usage = q.usage - m
    /\ \A k \in 1 .. q.usage - m : /\ RobQueue!Contents(p)[k] = RobQueue!Contents(q)[k + m]
                                   /\ RobQueue!SlotOf(p, k) = RobQueue!SlotOf(q, k + m)

\* A pop.
LEMMA PopShifts ==
  ASSUME NEW q, RobRing!Ring(q), q.usage # 0, NEW p, p = RobQueue!pop(q)
  PROVE  RobRing!Ring(p) /\ RingShifted(q, p, 1)
<1>1. RobDepth \in Nat \ {0}
  BY SizesAssumption
<1>2. RobRing!Fields(q) /\ RingIs(q)
  BY <1>1, RingSlots, RobRing!RingFields, Zenon
<1>3. ~RobRing!empty(q)
  BY Zenon DEF RobRing!empty, RobRing!Ring, RobRing!SizeAssertion, RobRing!size
<1>4. /\ RobRing!Ring(p) /\ p.head = RobRing!incrementIndexValue_(q.head)
      /\ p.usage = q.usage - 1 /\ p.dataList = q.dataList
  <2>1. RobQueue!pop(q) = RobRing!pop(q)
    BY RingOps
  <2> QED BY <1>1, <1>3, <2>1, RobRing!PopKeepsRing, Zenon
<1>5. PICK h, u, g :
        /\ h = q.head /\ u = q.usage /\ g = p.head /\ h \in 0 .. RobDepth - 1 /\ u \in 0 .. RobDepth
        /\ g = IF h = RobDepth - 1 THEN 0 ELSE h + 1
  BY <1>1, <1>2, <1>4 DEF RobRing!Fields, RobRing!incrementIndexValue_
<1>6. /\ \A k : RobQueue!SlotOf(q, k) = IF h + (k - 1) < RobDepth THEN h + (k - 1)
                                        ELSE h + (k - 1) - RobDepth
      /\ \A k : RobQueue!SlotOf(p, k) = IF g + (k - 1) < RobDepth THEN g + (k - 1)
                                        ELSE g + (k - 1) - RobDepth
  BY <1>5, Zenon DEF RobQueue!SlotOf
<1>7. \A k \in 1 .. u - 1 : RobQueue!SlotOf(p, k) = RobQueue!SlotOf(q, k + 1)
  BY <1>1, <1>5, <1>6
<1>8. \A k \in 1 .. u - 1 : k \in 1 .. p.usage /\ k + 1 \in 1 .. q.usage
  BY <1>1, <1>4, <1>5
<1>9. /\ \A k \in 1 .. p.usage : RobQueue!Contents(p)[k] = p.dataList[RobQueue!SlotOf(p, k)]
      /\ \A k \in 1 .. q.usage : RobQueue!Contents(q)[k] = q.dataList[RobQueue!SlotOf(q, k)]
  BY Zenon DEF RobQueue!Contents
<1>10. \A k \in 1 .. u - 1 : RobQueue!Contents(p)[k] = RobQueue!Contents(q)[k + 1]
  <2>1. ASSUME NEW k \in 1 .. u - 1 PROVE RobQueue!Contents(p)[k] = RobQueue!Contents(q)[k + 1]
    <3>1. PICK j : j = k + 1
      OBVIOUS
    <3>2. k \in 1 .. p.usage /\ j \in 1 .. q.usage /\ RobQueue!SlotOf(p, k) = RobQueue!SlotOf(q, j)
      BY <1>7, <1>8, <3>1, Zenon
    <3>3. /\ RobQueue!Contents(p)[k] = p.dataList[RobQueue!SlotOf(p, k)]
          /\ RobQueue!Contents(q)[j] = q.dataList[RobQueue!SlotOf(q, j)]
      BY <1>9, <3>2, Zenon
    <3> QED BY <1>4, <3>1, <3>2, <3>3, Zenon
  <2> QED BY <2>1, Zenon
<1> QED BY <1>4, <1>5, <1>7, <1>10, Zenon DEF RingShifted

\* One pop more.
LEMMA ShiftedMore ==
  ASSUME NEW q, NEW m \in Nat, NEW p, q.usage \in Nat, RingShifted(q, p, m), NEW r, RingShifted(p, r, 1)
  PROVE  RingShifted(q, r, m + 1)
<1>1. PICK u \in Nat : u = q.usage
  OBVIOUS
<1>2. /\ p.usage = u - m
      /\ \A k \in 1 .. u - m : /\ RobQueue!Contents(p)[k] = RobQueue!Contents(q)[k + m]
                               /\ RobQueue!SlotOf(p, k) = RobQueue!SlotOf(q, k + m)
  BY <1>1, Zenon DEF RingShifted
<1>3. /\ r.usage = (u - m) - 1
      /\ \A k \in 1 .. (u - m) - 1 : /\ RobQueue!Contents(r)[k] = RobQueue!Contents(p)[k + 1]
                                     /\ RobQueue!SlotOf(r, k) = RobQueue!SlotOf(p, k + 1)
  BY <1>2, Zenon DEF RingShifted
<1>4. (u - m) - 1 = u - (m + 1)
  BY <1>1
<1>5. ASSUME NEW k \in 1 .. u - (m + 1)
      PROVE  /\ RobQueue!Contents(r)[k] = RobQueue!Contents(q)[k + (m + 1)]
             /\ RobQueue!SlotOf(r, k) = RobQueue!SlotOf(q, k + (m + 1))
  <2>1. PICK j : j = k + 1
    OBVIOUS
  <2>2. j \in 1 .. u - m /\ j + m = k + (m + 1) /\ k \in 1 .. (u - m) - 1
    BY <1>1, <1>5, <2>1
  <2>3. /\ RobQueue!Contents(r)[k] = RobQueue!Contents(p)[j]
        /\ RobQueue!SlotOf(r, k) = RobQueue!SlotOf(p, j)
    BY <1>3, <2>1, <2>2, Zenon
  <2>4. /\ RobQueue!Contents(p)[j] = RobQueue!Contents(q)[j + m]
        /\ RobQueue!SlotOf(p, j) = RobQueue!SlotOf(q, j + m)
    BY <1>2, <2>2, Zenon
  <2> QED BY <2>2, <2>3, <2>4, Zenon
<1> QED BY <1>1, <1>3, <1>4, <1>5, Zenon DEF RingShifted

\* All the pops.
LEMMA PoppingShifts ==
  ASSUME NEW t \in Nat, NEW start, RobRing!Ring(start), t <= start.usage, NEW popped,
         Popping(popped, t, start)
  PROVE  RobRing!Ring(popped[t]) /\ RingShifted(start, popped[t], t)
<1>1. popped[0] = start /\ \A k \in 1 .. t : popped[k] = RobQueue!pop(popped[k - 1])
  BY Zenon DEF Popping
<1>2. PICK u \in Nat : u = start.usage /\ t <= u
  BY RingSlots, Zenon DEF RingIs
<1> DEFINE H == {m \in Nat : m <= t => RobRing!Ring(popped[m]) /\ RingShifted(start, popped[m], m)}
<1>3. 0 \in H
  <2>1. u - 0 = u /\ \A k \in 1 .. u : k + 0 = k
    OBVIOUS
  <2>2. RingShifted(start, start, 0)
    BY <1>2, <2>1, Zenon DEF RingShifted
  <2> QED BY <1>1, <2>2
<1>4. ASSUME NEW m \in Nat, m \in H PROVE m + 1 \in H
  <2>1. ASSUME m + 1 <= t
        PROVE  RobRing!Ring(popped[m + 1]) /\ RingShifted(start, popped[m + 1], m + 1)
    <3>1. /\ m + 1 \in 1 .. t /\ (m + 1) - 1 = m /\ u - m # 0
          /\ RobRing!Ring(popped[m]) /\ RingShifted(start, popped[m], m)
      BY <1>2, <1>4, <2>1
    <3>2. PICK q, p : q = popped[m] /\ p = popped[m + 1]
      OBVIOUS
    <3>3. p = RobQueue!pop(q)
      BY <1>1, <3>1, <3>2
    <3>4. q.usage # 0
      BY <1>2, <3>1, <3>2, Zenon DEF RingShifted
    <3>5. RobRing!Ring(p) /\ RingShifted(q, p, 1)
      BY <3>1, <3>2, <3>3, <3>4, PopShifts, Zenon
    <3>6. RingShifted(start, p, m + 1)
      BY <1>2, <3>1, <3>2, <3>5, ShiftedMore, Zenon
    <3> QED BY <3>2, <3>5, <3>6, Zenon
  <2> QED BY <2>1
<1>5. \A m \in Nat : m \in H
  <2> HIDE DEF H
  <2> QED BY <1>3, <1>4, NatSetInduction
<1>6. t <= t
  OBVIOUS
<1> QED BY <1>5, <1>6, Zenon

\* es2 has the entries of es but for the first m, which are finished.
EntriesLeft(es, es2, m, u) ==
    /\ DOMAIN es = 1 .. u /\ DOMAIN es2 = 1 .. u - m
    /\ \A k \in 1 .. u - m : es2[k] = es[k + m]
    /\ \A k \in 1 .. m : es[k].finish

\* The fates of what is committed, and of the rest.
LEMMA CommittedFate ==
  ASSUME NEW i, NEW un, NEW rw, NEW es, NEW es2, NEW h, NEW u \in Nat, NEW m \in Nat, m <= u,
         EntriesLeft(es, es2, m, u), HasFate(i, un, rw, es, h)
  PROVE  HasFate(i, un, rw, es2, h)
<1>1. PICK l \in Nat : l = u - m /\ u = m + l
  OBVIOUS
<1>2. PICK a, b, g : a = InstsOf(es) /\ b = InstsOf(es2) /\ g = [k \in 1 .. m |-> es[k].inst]
  OBVIOUS
<1>3. /\ DOMAIN es = 1 .. (m + l) /\ DOMAIN es2 = 1 .. l
      /\ \A k \in 1 .. l : es2[k] = es[k + m]
      /\ \A k \in 1 .. m : es[k].finish
  BY <1>1, Zenon DEF EntriesLeft
<1>4. a = [k \in 1 .. (m + l) |-> es[k].inst] /\ b = [k \in 1 .. l |-> es2[k].inst]
  BY <1>2, <1>3, Zenon DEF InstsOf
<1>5. Parts(a, g, b)
  <2>1. DOMAIN a = 1 .. (m + l) /\ DOMAIN b = 1 .. l /\ DOMAIN g = 1 .. m
    BY <1>2, <1>4, Zenon
  <2>2. \A k \in 1 .. m : a[k] = g[k]
    BY <1>2, <1>4, Intervals
  <2>3. \A k \in 1 .. l : a[m + k] = b[k]
    <3>1. ASSUME NEW k \in 1 .. l PROVE a[m + k] = b[k]
      <4>1. m + k \in 1 .. (m + l) /\ m + k = k + m
        OBVIOUS
      <4> QED BY <1>3, <1>4, <4>1, Zenon
    <3> QED BY <3>1, Zenon
  <2> QED BY <2>1, <2>2, <2>3, SpreadParts, Zenon
<1>6. /\ Absent(i, a) <=> Absent(i, g) /\ Absent(i, b)
      /\ Single(i, a) <=> \/ Single(i, g) /\ Absent(i, b)
                          \/ Absent(i, g) /\ Single(i, b)
  BY <1>5, Zenon DEF Parts
<1>7. \A k \in DOMAIN es2 : \E j \in DOMAIN es : es2[k] = es[j]
  <2>1. \A k \in 1 .. l : k + m \in 1 .. (m + l)
    OBVIOUS
  <2> QED BY <1>3, <2>1, Zenon
<1>8. CASE IsFetched(i, un, rw, es, h)
  BY <1>2, <1>6, <1>8, Zenon DEF HasFate, IsFetched
<1>9. CASE IsRenamed(i, un, rw, es, h)
  BY <1>2, <1>6, <1>9, Zenon DEF HasFate, IsRenamed
<1>10. CASE IsAwaited(i, un, rw, es, h)
  <2>1. \A k \in DOMAIN es : es[k].inst = i => ~es[k].finish
    BY <1>10, Zenon DEF IsAwaited
  <2>2. Absent(i, g)
    <3>1. \A k \in 1 .. m : k \in DOMAIN es
      BY <1>3
    <3>2. \A k \in 1 .. m : es[k].inst # i
      BY <1>3, <2>1, <3>1, Zenon
    <3> QED BY <1>2, <3>2 DEF Absent
  <2>3. Single(i, b)
    <3>1. ~Single(i, g)
      BY <2>2, SingleOccurs, Zenon
    <3> QED BY <1>2, <1>6, <1>10, <3>1, Zenon DEF IsAwaited
  <2>4. \A k \in DOMAIN es2 : es2[k].inst = i => ~es2[k].finish
    BY <1>7, <2>1, Zenon
  <2> QED BY <1>2, <1>10, <2>3, <2>4, Zenon DEF HasFate, IsAwaited
<1>11. CASE IsFinished(i, un, rw, es, h)
  <2>1. \A k \in DOMAIN es : es[k].inst = i => es[k].finish
    BY <1>11, Zenon DEF IsFinished
  <2>2. \A k \in DOMAIN es2 : es2[k].inst = i => es2[k].finish
    BY <1>7, <2>1, Zenon
  <2>3. Single(i, b) \/ Absent(i, b)
    BY <1>2, <1>6, <1>11, Zenon DEF IsFinished
  <2> QED BY <1>2, <1>11, <2>2, <2>3, Zenon DEF HasFate, IsFinished
<1> QED BY <1>8, <1>9, <1>10, <1>11, Zenon DEF HasFate

\* Instructions are committed.
LEMMA CommitFate ==
  ASSUME FateInv, Commit_, UNCHANGED <<fetch_credit, renamingVars, dispatchVars, rsVars, fuVars>>
  PROVE  FateInv' /\ Advances
<1>1. CreditInv /\ CreditInv'
  BY CommitStep, Zenon DEF FateInv
<1>2. PICK m \in Nat : \E ids, group, next, out : Committing(m, ids, group, next, out)
  BY <1>1, CommitDoes, Zenon
<1>3. PICK ids, group, next, out : Committing(m, ids, group, next, out)
  BY <1>2, Zenon
<1>4. PICK q, p, es, es2, un, rw, h, g :
        /\ q = rob /\ p = rob' /\ es = RobQueue!Contents(q) /\ es2 = RobQueue!Contents(p)
        /\ un = Unrenamed /\ rw = RobWire /\ h = held /\ g = held'
  OBVIOUS
<1>5. es = Entries /\ es2 = Entries'
  BY <1>4, Zenon DEF Entries
<1>6. /\ m <= q.usage /\ q.usage \in Nat /\ \A j \in 1 .. m : es[j].finish
      /\ Ready(commit_event) /\ Events({}, next) /\ inst' = inst
      /\ Fire(commit_event, {}, next, out)
      /\ out = IF m = 0 THEN Nothing
               ELSE Post(Rob_cmt_inst_in, <<group>>) \cup Post(rob_renaming_credit_in, <<m>>)
  BY <1>3, <1>4, Zenon DEF Committing
<1>7. RobRing!Ring(p) /\ RingShifted(q, p, m)
  <2>1. PICK popped : Popping(popped, m, q) /\ p = popped[m]
    BY <1>3, <1>4, Zenon DEF Committing
  <2>2. RobRing!Ring(q)
    BY <1>1, <1>4, Zenon DEF CreditInv, RobInv
  <2> QED BY <1>6, <2>1, <2>2, PoppingShifts, Zenon
<1>8. PICK u \in Nat : u = q.usage /\ m <= u
  BY <1>6, Zenon
<1>9. EntriesLeft(es, es2, m, u)
  <2>1. DOMAIN es = 1 .. u
    BY <1>4, <1>8, Zenon DEF RobQueue!Contents
  <2>2. DOMAIN es2 = 1 .. u - m
    BY <1>4, <1>7, <1>8, Zenon DEF RobQueue!Contents, RingShifted
  <2> QED BY <1>4, <1>6, <1>7, <1>8, <2>1, <2>2, Zenon DEF EntriesLeft, RingShifted
<1>10. UNCHANGED <<renaming_stage_queue, inst_queue, dispatch_pending_queue, reservation_station,
                   alu_queue, inst_queue_map>>
  BY Zenon DEF renamingVars, dispatchVars, rsVars, fuVars
<1>11. RobAlone /\ \A z \in Place : g[z] = h[z]
  <2>1. commit_event \notin WorkPort
    BY NotWork DEF UniqueEvent
  <2>2. \A mail \in out : mail[1] \notin WorkPort
    <3>1. \A mail \in out : mail[1] \in {Rob_cmt_inst_in, rob_renaming_credit_in}
      BY <1>6 DEF Nothing, Post
    <3>2. Rob_cmt_inst_in \notin WorkPort /\ rob_renaming_credit_in \notin WorkPort
      BY NotWork, LinkPortHas, Zenon
    <3> QED BY <3>1, <3>2
  <2>3. /\ RobAlone
        /\ commit_event \notin WorkPort => held'[AtFinishWire] = held[AtFinishWire]
    BY <1>6, <1>10, <2>1, <2>2, RobHandler, Zenon
  <2> QED BY <1>4, <2>1, <2>3, Zenon DEF RobAlone
<1>12. \A i \in DOMAIN inst : HasFate(i, un, rw, es2, g)
  <2>1. ASSUME NEW i \in DOMAIN inst PROVE HasFate(i, un, rw, es2, g)
    <3>1. HasFate(i, un, rw, es, h)
      BY <1>4, <1>5, Zenon DEF FateInv, Fates
    <3>2. HasFate(i, un, rw, es2, h)
      BY <1>8, <1>9, <3>1, CommittedFate, Zenon
    <3> QED BY <1>11, <3>2, SamePlacesFate, Zenon
  <2> QED BY <2>1, Zenon
<1>13. OwnTags'
  <2>1. \A k \in 1 .. u : inst[es[k].inst].RobTag = RobQueue!SlotOf(q, k)
    BY <1>4, <1>5, <1>8, Zenon DEF FateInv, OwnTags
  <2>2. ASSUME NEW k \in 1 .. u - m PROVE inst[es2[k].inst].RobTag = RobQueue!SlotOf(p, k)
    <3>1. PICK j : j = k + m
      OBVIOUS
    <3>2. j \in 1 .. u
      BY <1>8, <3>1
    <3>3. es2[k] = es[j] /\ RobQueue!SlotOf(p, k) = RobQueue!SlotOf(q, j)
      BY <1>4, <1>7, <1>8, <3>1, Zenon DEF RingShifted
    <3> QED BY <2>1, <3>2, <3>3, Zenon
  <2>3. \A k \in 1 .. p.usage : inst[es2[k].inst].RobTag = RobQueue!SlotOf(p, k)
    BY <1>7, <1>8, <2>2, Zenon DEF RingShifted
  <2> QED BY <1>4, <1>5, <1>6, <2>3, Zenon DEF OwnTags
<1>14. Advances
  BY <1>6, <1>11, SameAdvances, Zenon DEF RobAlone
<1> QED BY <1>1, <1>4, <1>5, <1>6, <1>11, <1>12, <1>13, <1>14, RobFates, Zenon

-----------------------------------------------------------------------------
(* A new cycle, and no step.                                               *)

\* What is on its way stays so.
LEMMA TickLate ==
  ASSUME LateWires, Tick
  PROVE  LateWires' /\ \A d \in LatePort : OnTheWay(d)' = OnTheWay(d)
<1>1. inst' = inst /\ now' = later /\ later' = [c \in Source |-> << >>]
      /\ \A c \in Source : now[c] = << >>
  BY Zenon DEF Tick, Pending
<1>2. ASSUME NEW d \in LatePort
      PROVE  Typed(d, LateMessage(d, DOMAIN inst))' /\ OnTheWay(d)' = OnTheWay(d)
  <2>1. d \in Source
    BY LatePortsAre DEF Port, Source
  <2>2. PICK M : M = LateMessage(d, DOMAIN inst)
    OBVIOUS
  <2>3. Typed(d, M)
    BY <2>2, Zenon DEF LateWires
  <2>4. PICK a \in Seq(M) : a = later[d]
    BY <2>3, Zenon DEF Typed
  <2>5. now[d] = << >> /\ now'[d] = a /\ later'[d] = << >>
    BY <1>1, <2>1, <2>4, Zenon
  <2>6. << >> \o a = a /\ a \o << >> = a
    BY EmptyConcat
  <2>7. OnTheWay(d) = a /\ OnTheWay(d)' = a
    BY <2>4, <2>5, <2>6, Zenon DEF OnTheWay
  <2>8. << >> \in Seq(M)
    OBVIOUS
  <2>9. Typed(d, M)'
    BY <2>4, <2>5, <2>8, Zenon DEF Typed
  <2>10. LateMessage(d, DOMAIN inst)' = M
    BY <1>1, <2>2, Zenon DEF LateMessage, WriteBackGroup, Pipe
  <2> QED BY <2>7, <2>9, <2>10, Zenon
<1>3. LateWires'
  BY <1>1, <1>2, Zenon DEF LateWires
<1> QED BY <1>2, <1>3, Zenon

\* When what is on the wires stays, and the units' state does, so do the fates.
LEMMA StillFate ==
  ASSUME FateInv, CreditInv', LateWires', SameSent', inst' = inst,
         UNCHANGED <<fetch_credit, renamingVars, rob, dispatchVars, rsVars, fuVars>>,
         \A d \in WorkPort : OnTheWay(d)' = OnTheWay(d)
  PROVE  FateInv'
<1>1. UNCHANGED <<inst_queue, dispatch_pending_queue, reservation_station, alu_queue, inst_queue_map>>
      /\ renaming_stage_queue' = renaming_stage_queue /\ rob' = rob
  BY Zenon DEF renamingVars, dispatchVars, rsVars, fuVars
<1>2. LateQueues' /\ SameTags
  BY <1>1, Zenon DEF FateInv, LateQueues, SameTags
<1>3. preceding_renaming_inst_in \in WorkPort /\ preceding_rob_inst_in \in WorkPort
  BY LinkPortHas, Zenon DEF WorkPort
<1>4. Unrenamed' = Unrenamed /\ RobWire' = RobWire
  BY <1>1, <1>3, Zenon DEF Unrenamed, RobWire, Instructions
<1>5. RestKept
  BY <1>1, <1>2, <1>4, Zenon DEF RestKept
<1>6. Kept({})
  BY <1>1, AllKept, Zenon
<1>7. \A z \in {} : Alike(held[z], held'[z])
  OBVIOUS
<1> QED BY <1>5, <1>6, <1>7, NoneMoves, Zenon

\* A new cycle.
LEMMA TickFate ==
  ASSUME FateInv, Tick,
         UNCHANGED <<fetch_credit, renamingVars, rob, dispatchVars, rsVars, fuVars>>
  PROVE  FateInv'
<1>1. CreditInv /\ LateWires
  BY Zenon DEF FateInv
<1>2. CreditInv' /\ LateWires' /\ inst' = inst
  BY <1>1, TickStep, TickLate, Zenon DEF Tick
<1>3. \A d \in WorkPort : OnTheWay(d)' = OnTheWay(d)
  <2>1. \A d \in LinkPort : OnTheWay(d)' = OnTheWay(d)
    BY <1>1, TickMoves, Zenon
  <2>2. \A d \in LatePort : OnTheWay(d)' = OnTheWay(d)
    BY <1>1, TickLate, Zenon
  <2> QED BY <2>1, <2>2, LinkPortHas, Zenon DEF WorkPort
<1>4. SameSent'
  <2>1. preceding_rob_inst_in \in Source /\ preceding_dispatch_inst_in \in Source
    BY DEF Source, OneDelayPort
  <2>2. later' = [c \in Source |-> << >>]
    BY Zenon DEF Tick
  <2> QED BY <2>1, <2>2, Zenon DEF SameSent
<1> QED BY <1>2, <1>3, <1>4, StillFate, Zenon

\* No step.
LEMMA StutterFate ==
  ASSUME FateInv, WellPredicted, UNCHANGED vars PROVE FateInv'
<1>1. CreditInv
  BY Zenon DEF FateInv
<1>2. CreditInv'
  BY <1>1, CreditStep, Zenon
<1>3. now' = now /\ later' = later /\ inst' = inst
      /\ UNCHANGED <<fetch_credit, renamingVars, rob, dispatchVars, rsVars, fuVars>>
  BY Zenon DEF vars, schedulerVars
<1>4. LateWires' /\ SameSent' /\ \A d \in WorkPort : OnTheWay(d)' = OnTheWay(d)
  <2>1. ASSUME NEW d \in LatePort PROVE Typed(d, LateMessage(d, DOMAIN inst))'
    <3>1. PICK M : M = LateMessage(d, DOMAIN inst)
      OBVIOUS
    <3>2. Typed(d, M)
      BY <3>1, Zenon DEF FateInv, LateWires
    <3>3. Typed(d, M)'
      BY <1>3, <3>2, Zenon DEF Typed
    <3>4. LateMessage(d, DOMAIN inst)' = M
      BY <1>3, <3>1, Zenon DEF LateMessage, WriteBackGroup, Pipe
    <3> QED BY <3>3, <3>4, Zenon
  <2>2. LateWires'
    BY <2>1, Zenon DEF LateWires
  <2>3. SameSent'
    BY <1>3, Zenon DEF FateInv, SameSent
  <2>4. \A d \in WorkPort : OnTheWay(d)' = OnTheWay(d)
    BY <1>3, Zenon DEF OnTheWay
  <2> QED BY <2>2, <2>3, <2>4
<1> QED BY <1>2, <1>3, <1>4, StillFate, Zenon

-----------------------------------------------------------------------------
(* Every step.                                                             *)

\* Every handler and every new cycle keeps the fates.
LEMMA FateStep ==
  ASSUME FateInv, WellPredicted, [Next]_vars PROVE FateInv'
<1>1. CASE FrontendStep
  BY <1>1, AcceptCreditFate, ProduceFate, Zenon DEF FrontendStep
<1>2. CASE RenamingStep
  BY <1>2, AcceptRobCreditFate, AcceptDispatchCreditFate, RenamingAllocateFate, RenameFate,
     RobCommitFate, Zenon DEF RenamingStep
<1>3. CASE RobStep
  BY <1>3, AllocateRobFate, FinishFate, CommitFate, Zenon DEF RobStep
<1>4. CASE DispatchStep
  BY <1>4, DispatchAllocateFate, FuncUnitBackFate, DispatchAcceptCreditFate,
     PopIssueQueueFate, SelectInstFate, IssueInstFate, Zenon DEF DispatchStep
<1>5. CASE StationStep
  BY <1>5, RsAcceptCreditFate, AllocateReStationFate, GetForwardingFate, PopInstFate,
     PassingFate, Zenon DEF StationStep
<1>6. CASE FuStep
  BY <1>6, AllocateFuFate, WriteBackFate, AcceptFuncInstFate, ArbitrateFate, Zenon DEF FuStep
<1>7. CASE NextCycle
  BY <1>7, TickFate, Zenon DEF NextCycle
<1>8. CASE UNCHANGED vars
  BY <1>8, StutterFate, Zenon
<1> QED BY <1>1, <1>2, <1>3, <1>4, <1>5, <1>6, <1>7, <1>8, Zenon DEF Next

-----------------------------------------------------------------------------
(* The start.                                                              *)

\* At the start nothing is on the late wires.
LEMMA InitLate ==
  ASSUME Init PROVE \A d \in LatePort : now[d] = << >> /\ later[d] = << >>
<1>1. PICK C : /\ C = RenamingInitCredit_ \cup RobInitCredit_ \cup DispatchInitCredit_
                        \cup RsInitCredit_ \cup FuSendInitCredit_
               /\ now = [c \in Source |-> Sent(C, c)] /\ later = [c \in Source |-> << >>]
  BY Zenon DEF Init, SchedulerInit
<1>2. \A mail \in C : \/ mail[1] = backend_fetch_credit_in \/ mail[1] = rob_renaming_credit_in
                      \/ mail[1] = following_renaming_credit_in \/ mail[1] = rs_dispatch_credit_in
                      \/ \E p \in Pipe : mail[1] = following_reservation_credit_in(p)
  BY <1>1 DEF RenamingInitCredit_, RobInitCredit_, DispatchInitCredit_, RsInitCredit_,
     FuSendInitCredit_, Post
<1>3. \A mail \in C : mail[1] \in LinkPort
  BY <1>2, LinkPortHas, Zenon
<1>4. ASSUME NEW d \in LatePort PROVE now[d] = << >> /\ later[d] = << >>
  <2>1. d \in Source
    BY LatePortsAre DEF Port, Source
  <2>2. d \notin LinkPort
    BY LatePortsAre, Zenon
  <2>3. \A mail \in C : mail[1] # d
    BY <1>3, <2>2, Zenon
  <2>4. Sent(C, d) = << >>
    BY <2>3, Zenon DEF Sent
  <2> QED BY <1>1, <2>1, <2>4
<1> QED BY <1>4, Zenon

\* At the start no instruction is anywhere.
LEMMA InitFates == ASSUME Init PROVE FateInv
<1>1. CreditInv
  BY InitCredits
<1>2. inst = << >> /\ inst_queue_map = [p \in Pipe |-> << >>] /\ RobInit
  BY Zenon DEF Init, FuInit
<1>3. \A I : << >> \in Seq(I)
  OBVIOUS
<1>4. LateWires
  <2>1. ASSUME NEW d \in LatePort PROVE Typed(d, LateMessage(d, DOMAIN inst))
    BY <1>3, InitLate, Zenon DEF Typed
  <2> QED BY <2>1, Zenon DEF LateWires
<1>5. LateQueues
  BY <1>2, <1>3 DEF LateQueues
<1>6. SameSent
  <2>1. later = [c \in Source |-> << >>]
    BY Zenon DEF Init, SchedulerInit
  <2>2. preceding_rob_inst_in \in Source /\ preceding_dispatch_inst_in \in Source
    BY DEF Source, OneDelayPort
  <2> QED BY <2>1, <2>2, Zenon DEF SameSent
<1>7. OwnTags
  <2>1. rob.usage = 0
    BY <1>2 DEF RobInit
  <2> QED BY <2>1 DEF OwnTags
<1>8. Fates
  <2>1. DOMAIN inst = {}
    BY <1>2
  <2> QED BY <2>1, Zenon DEF Fates
<1> QED BY <1>1, <1>4, <1>5, <1>6, <1>7, <1>8, Zenon DEF FateInv

-----------------------------------------------------------------------------
(* Everything that is under way, in one line.                              *)

EarlyLine(w) == w[1] \o w[2] \o w[3] \o w[4] \o w[5]

UnitLine(w) == w[6] \o w[7] \o w[8] \o w[9]

LateLine(w) == (w[6] \o w[7] \o w[8] \o w[9]) \o w[10]

WholeLine(w) == EarlyLine(w) \o (w[6] \o w[7] \o w[8] \o w[9]) \o w[10]

\* Once among the sequences P of w, and not in the others.
OnceAmong(i, w, P) == \E k \in P : Single(i, w[k]) /\ \A j \in P : j # k => Absent(i, w[j])

NoneAmong(i, w, P) == \A k \in P : Absent(i, w[k])

\* What the line has is what the sequences have.
LEMMA LineHas ==
  ASSUME NEW S, NEW w \in [1 .. 10 -> Seq(S)], NEW i
  PROVE  /\ WholeLine(w) \in Seq(S) /\ LateLine(w) \in Seq(S)
         /\ NoneAmong(i, w, 1 .. 10) => Absent(i, WholeLine(w))
         /\ NoneAmong(i, w, 6 .. 10) => Absent(i, LateLine(w))
         /\ OnceAmong(i, w, 1 .. 10) => Single(i, WholeLine(w))
<1>20. /\ \A k \in 1 .. 5 : 6 # k /\ 7 # k /\ 8 # k /\ 9 # k /\ 10 # k
       /\ \A k \in 6 .. 9 : 1 # k /\ 2 # k /\ 3 # k /\ 4 # k /\ 5 # k
  OBVIOUS
<1>1. PICK w1, w2, w3, w4, w5 \in Seq(S) :
         w1 = w[1] /\ w2 = w[2] /\ w3 = w[3] /\ w4 = w[4] /\ w5 = w[5]
  OBVIOUS
<1>2. PICK w6, w7, w8, w9, w10 \in Seq(S) :
         w6 = w[6] /\ w7 = w[7] /\ w8 = w[8] /\ w9 = w[9] /\ w10 = w[10]
  OBVIOUS
<1>3. \A s, t \in Seq(S) : s \o t \in Seq(S) /\ Parts(s \o t, s, t)
  <2> TAKE s, t \in Seq(S)
  <2>1. s \o t \in Seq(S)
    OBVIOUS
  <2> QED BY <2>1, ConcatParts, Zenon
<1>4. PICK a2 \in Seq(S) : a2 = w1 \o w2 /\ Parts(a2, w1, w2)
  BY <1>3, Zenon
<1>5. PICK a3 \in Seq(S) : a3 = a2 \o w3 /\ Parts(a3, a2, w3)
  BY <1>3, Zenon
<1>6. PICK a4 \in Seq(S) : a4 = a3 \o w4 /\ Parts(a4, a3, w4)
  BY <1>3, Zenon
<1>7. PICK a5 \in Seq(S) : a5 = a4 \o w5 /\ Parts(a5, a4, w5)
  BY <1>3, Zenon
<1>8. PICK b7 \in Seq(S) : b7 = w6 \o w7 /\ Parts(b7, w6, w7)
  BY <1>3, Zenon
<1>9. PICK b8 \in Seq(S) : b8 = b7 \o w8 /\ Parts(b8, b7, w8)
  BY <1>3, Zenon
<1>10. PICK b9 \in Seq(S) : b9 = b8 \o w9 /\ Parts(b9, b8, w9)
  BY <1>3, Zenon
<1>11. PICK b10 \in Seq(S) : b10 = b9 \o w10 /\ Parts(b10, b9, w10)
  BY <1>3, Zenon
<1>12. PICK c \in Seq(S) : c = a5 \o b9 /\ Parts(c, a5, b9)
  BY <1>3, Zenon
<1>13. PICK u \in Seq(S) : u = c \o w10 /\ Parts(u, c, w10)
  BY <1>3, Zenon
<1>14. WholeLine(w) = u /\ LateLine(w) = b10
  BY <1>1, <1>2, <1>4, <1>5, <1>6, <1>7, <1>8, <1>9, <1>10, <1>11, <1>12, <1>13, Zenon
     DEF WholeLine, EarlyLine, LateLine
<1>15. /\ Absent(i, w1) /\ Absent(i, w2) /\ Absent(i, w3) /\ Absent(i, w4) /\ Absent(i, w5)
            => Absent(i, a5)
       /\ Absent(i, w6) /\ Absent(i, w7) /\ Absent(i, w8) /\ Absent(i, w9) => Absent(i, b9)
       /\ Absent(i, b9) /\ Absent(i, w10) => Absent(i, b10)
       /\ Absent(i, a5) /\ Absent(i, b9) /\ Absent(i, w10) => Absent(i, u)
  BY <1>4, <1>5, <1>6, <1>7, <1>8, <1>9, <1>10, <1>11, <1>12, <1>13, Zenon DEF Parts
<1>16. NoneAmong(i, w, 6 .. 10) => Absent(i, b10)
  <2>1. NoneAmong(i, w, 6 .. 10) => /\ Absent(i, w6) /\ Absent(i, w7) /\ Absent(i, w8)
                                    /\ Absent(i, w9) /\ Absent(i, w10)
    BY <1>2 DEF NoneAmong
  <2> QED BY <1>15, <2>1
<1>17. NoneAmong(i, w, 1 .. 10) => Absent(i, u)
  <2>1. NoneAmong(i, w, 1 .. 10) =>
           /\ Absent(i, w1) /\ Absent(i, w2) /\ Absent(i, w3) /\ Absent(i, w4) /\ Absent(i, w5)
           /\ Absent(i, w6) /\ Absent(i, w7) /\ Absent(i, w8) /\ Absent(i, w9) /\ Absent(i, w10)
    BY <1>1, <1>2 DEF NoneAmong
  <2> QED BY <1>15, <2>1
<1>18. /\ Single(i, w1) /\ Absent(i, w2) => Single(i, a2)
       /\ Absent(i, w1) /\ Single(i, w2) => Single(i, a2)
       /\ Absent(i, w1) /\ Absent(i, w2) => Absent(i, a2)
       /\ Single(i, a2) /\ Absent(i, w3) => Single(i, a3)
       /\ Absent(i, a2) /\ Single(i, w3) => Single(i, a3)
       /\ Absent(i, a2) /\ Absent(i, w3) => Absent(i, a3)
       /\ Single(i, a3) /\ Absent(i, w4) => Single(i, a4)
       /\ Absent(i, a3) /\ Single(i, w4) => Single(i, a4)
       /\ Absent(i, a3) /\ Absent(i, w4) => Absent(i, a4)
       /\ Single(i, a4) /\ Absent(i, w5) => Single(i, a5)
       /\ Absent(i, a4) /\ Single(i, w5) => Single(i, a5)
       /\ Single(i, w6) /\ Absent(i, w7) => Single(i, b7)
       /\ Absent(i, w6) /\ Single(i, w7) => Single(i, b7)
       /\ Absent(i, w6) /\ Absent(i, w7) => Absent(i, b7)
       /\ Single(i, b7) /\ Absent(i, w8) => Single(i, b8)
       /\ Absent(i, b7) /\ Single(i, w8) => Single(i, b8)
       /\ Absent(i, b7) /\ Absent(i, w8) => Absent(i, b8)
       /\ Single(i, b8) /\ Absent(i, w9) => Single(i, b9)
       /\ Absent(i, b8) /\ Single(i, w9) => Single(i, b9)
       /\ Single(i, a5) /\ Absent(i, b9) => Single(i, c)
       /\ Absent(i, a5) /\ Single(i, b9) => Single(i, c)
       /\ Absent(i, a5) /\ Absent(i, b9) => Absent(i, c)
       /\ Single(i, c) /\ Absent(i, w10) => Single(i, u)
       /\ Absent(i, c) /\ Single(i, w10) => Single(i, u)
  BY <1>4, <1>5, <1>6, <1>7, <1>8, <1>9, <1>10, <1>12, <1>13, Zenon DEF Parts
<1>19. ASSUME NEW k \in 1 .. 10, Single(i, w[k]), \A j \in 1 .. 10 : j # k => Absent(i, w[j])
       PROVE  Single(i, u)
  <2>1. /\ 1 # k => Absent(i, w1)
        /\ 2 # k => Absent(i, w2)
        /\ 3 # k => Absent(i, w3)
        /\ 4 # k => Absent(i, w4)
        /\ 5 # k => Absent(i, w5)
    BY <1>1, <1>19
  <2>2. /\ 6 # k => Absent(i, w6)
        /\ 7 # k => Absent(i, w7)
        /\ 8 # k => Absent(i, w8)
        /\ 9 # k => Absent(i, w9)
        /\ 10 # k => Absent(i, w10)
    BY <1>2, <1>19
  <2>3. CASE k \in 1 .. 5
    <3>4. 6 # k /\ 7 # k /\ 8 # k /\ 9 # k /\ 10 # k
      BY <2>3, <1>20, Zenon
    <3>1. Absent(i, w6) /\ Absent(i, w7) /\ Absent(i, w8) /\ Absent(i, w9) /\ Absent(i, w10)
      BY <2>2, <3>4, Zenon
    <3>2. Absent(i, b9)
      BY <1>15, <3>1
    <3>3. Single(i, a5)
      <4>1. CASE k = 1
        <5>1. Single(i, w1) /\ Absent(i, w2) /\ Absent(i, w3) /\ Absent(i, w4) /\ Absent(i, w5)
          BY <1>1, <1>19, <2>1, <4>1
        <5> QED BY <1>18, <5>1, Zenon
      <4>2. CASE k = 2
        <5>1. Absent(i, w1) /\ Single(i, w2) /\ Absent(i, w3) /\ Absent(i, w4) /\ Absent(i, w5)
          BY <1>1, <1>19, <2>1, <4>2
        <5> QED BY <1>18, <5>1, Zenon
      <4>3. CASE k = 3
        <5>1. Absent(i, w1) /\ Absent(i, w2) /\ Single(i, w3) /\ Absent(i, w4) /\ Absent(i, w5)
          BY <1>1, <1>19, <2>1, <4>3
        <5> QED BY <1>18, <5>1, Zenon
      <4>4. CASE k = 4
        <5>1. Absent(i, w1) /\ Absent(i, w2) /\ Absent(i, w3) /\ Single(i, w4) /\ Absent(i, w5)
          BY <1>1, <1>19, <2>1, <4>4
        <5> QED BY <1>18, <5>1, Zenon
      <4>5. CASE k = 5
        <5>1. Absent(i, w1) /\ Absent(i, w2) /\ Absent(i, w3) /\ Absent(i, w4) /\ Single(i, w5)
          BY <1>1, <1>19, <2>1, <4>5
        <5> QED BY <1>18, <5>1, Zenon
      <4> QED BY <2>3, <4>1, <4>2, <4>3, <4>4, <4>5
    <3> QED BY <1>18, <3>1, <3>2, <3>3
  <2>4. CASE k \in 6 .. 9
    <3>4. 1 # k /\ 2 # k /\ 3 # k /\ 4 # k /\ 5 # k
      BY <2>4, <1>20, Zenon
    <3>1. Absent(i, w1) /\ Absent(i, w2) /\ Absent(i, w3) /\ Absent(i, w4) /\ Absent(i, w5)
      BY <2>1, <3>4, Zenon
    <3>2. Absent(i, a5) /\ Absent(i, w10)
      BY <1>15, <2>2, <2>4, <3>1
    <3>3. Single(i, b9)
      <4>1. CASE k = 6
        <5>1. Single(i, w6) /\ Absent(i, w7) /\ Absent(i, w8) /\ Absent(i, w9)
          BY <1>2, <1>19, <2>2, <4>1
        <5> QED BY <1>18, <5>1, Zenon
      <4>2. CASE k = 7
        <5>1. Absent(i, w6) /\ Single(i, w7) /\ Absent(i, w8) /\ Absent(i, w9)
          BY <1>2, <1>19, <2>2, <4>2
        <5> QED BY <1>18, <5>1, Zenon
      <4>3. CASE k = 8
        <5>1. Absent(i, w6) /\ Absent(i, w7) /\ Single(i, w8) /\ Absent(i, w9)
          BY <1>2, <1>19, <2>2, <4>3
        <5> QED BY <1>18, <5>1, Zenon
      <4>4. CASE k = 9
        <5>1. Absent(i, w6) /\ Absent(i, w7) /\ Absent(i, w8) /\ Single(i, w9)
          BY <1>2, <1>19, <2>2, <4>4
        <5> QED BY <1>18, <5>1, Zenon
      <4> QED BY <2>4, <4>1, <4>2, <4>3, <4>4
    <3> QED BY <1>18, <3>2, <3>3
  <2>5. CASE k = 10
    <3>1. /\ Absent(i, w1) /\ Absent(i, w2) /\ Absent(i, w3) /\ Absent(i, w4) /\ Absent(i, w5)
          /\ Absent(i, w6) /\ Absent(i, w7) /\ Absent(i, w8) /\ Absent(i, w9)
      BY <2>1, <2>2, <2>5
    <3>2. Single(i, w10)
      BY <1>2, <1>19, <2>5
    <3> QED BY <1>15, <1>18, <3>1, <3>2
  <2> QED BY <2>3, <2>4, <2>5
<1> QED BY <1>14, <1>16, <1>17, <1>19, Zenon DEF OnceAmong

\* The sequences of the pipes, joined.
LEMMA AcrossPipes ==
  ASSUME NEW S, NEW f \in [Pipe -> Seq(S)]
  PROVE  Joined(f) \in Seq(S) /\ Among(Joined(f), f)
<1>1. PICK n \in Nat : n = PipeNum
  BY PipeNumAssumption
<1>2. f \in Seq(Seq(S)) /\ Len(f) = n
  BY <1>1 DEF Pipe
<1>3. Joined(f) \in Seq(S)
  BY <1>2, JoinedIsSeq, Zenon
<1>4. \A i : /\ Absent(i, Joined(f)) <=> AbsentAmong(i, f, n)
             /\ Single(i, Joined(f)) <=> SingleAmong(i, f, n)
  BY <1>2, JoinedHas, Zenon
<1> QED BY <1>1, <1>3, <1>4, Zenon DEF Among

\* The sequences w that are joined are those at the places.
AtPlaces(w, h) ==
    /\ w[1] = h[AtDispatchWire] /\ w[2] = h[AtDispatchQueue]
    /\ Among(w[3], [p \in Pipe |-> h[AtPending(p)]])
    /\ Among(w[4], [p \in Pipe |-> h[AtStationWire(p)]])
    /\ Among(w[5], [p \in Pipe |-> h[AtStation(p)]])
    /\ Among(w[6], [p \in Pipe |-> h[AtUnitWire(p)]])
    /\ Among(w[7], [p \in Pipe |-> h[AtUnit(p)]])
    /\ w[8] = h[AtWriteBackWire]
    /\ Among(w[9], [p \in Pipe |-> h[AtWriteBack(p)]])
    /\ w[10] = h[AtFinishWire]

\* An entry that is not issued is an open one.
LEMMA UnissuedIsOpen ==
  ASSUME NEW E, NEW entries \in Seq(E) PROVE Unissued(entries) = OpenInsts(entries)
<1>1. DOMAIN entries = 1 .. Len(entries)
  OBVIOUS
<1> QED BY <1>1, Zenon DEF Unissued, OpenInsts, InstsOf, Open

UnderWay == Waiting \o Executing \o Instructions(write_back_rob_finish_in)

Lines(w) ==
    /\ Waiting = EarlyLine(w) /\ Executing = UnitLine(w)
    /\ UnderWay = WholeLine(w)
    /\ Executing \o Instructions(write_back_rob_finish_in) = LateLine(w)

\* What is under way is what is at the places.
LEMMA UnderWayIs ==
  ASSUME FateInv
  PROVE  \E w \in [1 .. 10 -> Seq(DOMAIN inst)] : Lines(w) /\ AtPlaces(w, held)
<1>1. PICK I, h : I = DOMAIN inst /\ h = held
  OBVIOUS
<1>2. \A x \in Place : h[x] \in Seq(I)
  BY <1>1, HeldTyped, Zenon
<1>20. /\ inst_queue \in Seq(DispatchEntry(I))
       /\ \A p \in Pipe : reservation_station[p] \in Seq(StationEntry(I))
  <2>1. CreditInv
    BY Zenon DEF FateInv
  <2>2. \A p \in Pipe : reservation_station[p] \in Seq(StationEntry(I))
    BY <1>1, <2>1, StationNumbers, Zenon
  <2> QED BY <1>1, <2>1, <2>2, Zenon DEF CreditInv, DispatchInv
<1>3. PICK f3, f4, f5, f6, f7, f9 :
         /\ f3 = [p \in Pipe |-> h[AtPending(p)]] /\ f4 = [p \in Pipe |-> h[AtStationWire(p)]]
         /\ f5 = [p \in Pipe |-> h[AtStation(p)]] /\ f6 = [p \in Pipe |-> h[AtUnitWire(p)]]
         /\ f7 = [p \in Pipe |-> h[AtUnit(p)]] /\ f9 = [p \in Pipe |-> h[AtWriteBack(p)]]
  OBVIOUS
<1>4. /\ f3 \in [Pipe -> Seq(I)] /\ f4 \in [Pipe -> Seq(I)] /\ f5 \in [Pipe -> Seq(I)]
      /\ f6 \in [Pipe -> Seq(I)] /\ f7 \in [Pipe -> Seq(I)] /\ f9 \in [Pipe -> Seq(I)]
  <2>1. \A p \in Pipe :
          /\ AtPending(p) \in Place /\ AtStationWire(p) \in Place /\ AtStation(p) \in Place
          /\ AtUnitWire(p) \in Place /\ AtUnit(p) \in Place /\ AtWriteBack(p) \in Place
    BY PlacesDiffer, Zenon
  <2>2. \A p \in Pipe :
          /\ h[AtPending(p)] \in Seq(I) /\ h[AtStationWire(p)] \in Seq(I)
          /\ h[AtStation(p)] \in Seq(I) /\ h[AtUnitWire(p)] \in Seq(I)
          /\ h[AtUnit(p)] \in Seq(I) /\ h[AtWriteBack(p)] \in Seq(I)
    BY <1>2, <2>1, Zenon
  <2> QED BY <1>3, <2>2
<1>5. /\ f3 = dispatch_pending_queue
      /\ f4 = [p \in Pipe |-> Instructions(preceding_reservation_inst_in(p))]
      /\ f5 = [p \in Pipe |-> Unissued(reservation_station[p])]
      /\ f6 = [p \in Pipe |-> Instructions(preceding_func_inst_in(p))]
      /\ f7 = alu_queue /\ f9 = inst_queue_map
  <2>1. /\ dispatch_pending_queue \in [Pipe -> Seq(I)] /\ alu_queue \in [Pipe -> Seq(I)]
        /\ inst_queue_map \in [Pipe -> Seq(I)]
    BY <1>1, Zenon DEF FateInv, CreditInv, StationInv, FuInv, LateQueues
  <2>2. \A p \in Pipe :
          /\ h[AtPending(p)] = dispatch_pending_queue[p] /\ h[AtUnit(p)] = alu_queue[p]
          /\ h[AtWriteBack(p)] = inst_queue_map[p]
    BY <1>1, HeldIs, Zenon
  <2>3. f3 = dispatch_pending_queue /\ f7 = alu_queue /\ f9 = inst_queue_map
    BY <1>3, <2>1, <2>2
  <2>5. \A p \in Pipe : Unissued(reservation_station[p]) = OpenInsts(reservation_station[p])
    BY <1>20, UnissuedIsOpen, Zenon
  <2>4. \A p \in Pipe :
          /\ h[AtStationWire(p)] = Instructions(preceding_reservation_inst_in(p))
          /\ h[AtStation(p)] = Unissued(reservation_station[p])
          /\ h[AtUnitWire(p)] = Instructions(preceding_func_inst_in(p))
    BY <1>1, <2>5, HeldIs, Zenon
  <2> QED BY <1>3, <2>3, <2>4
<1>6. PICK w3, w4, w5, w6, w7, w9 :
         /\ w3 = Joined(f3) /\ w4 = Joined(f4) /\ w5 = Joined(f5)
         /\ w6 = Joined(f6) /\ w7 = Joined(f7) /\ w9 = Joined(f9)
  OBVIOUS
<1>7. /\ w3 \in Seq(I) /\ w4 \in Seq(I) /\ w5 \in Seq(I)
      /\ w6 \in Seq(I) /\ w7 \in Seq(I) /\ w9 \in Seq(I)
      /\ Among(w3, f3) /\ Among(w4, f4) /\ Among(w5, f5)
      /\ Among(w6, f6) /\ Among(w7, f7) /\ Among(w9, f9)
  BY <1>4, <1>6, AcrossPipes, Zenon
<1>8. PICK w1, w2, w8, w10 :
         /\ w1 = h[AtDispatchWire] /\ w2 = h[AtDispatchQueue]
         /\ w8 = h[AtWriteBackWire] /\ w10 = h[AtFinishWire]
  OBVIOUS
<1>9. w1 \in Seq(I) /\ w2 \in Seq(I) /\ w8 \in Seq(I) /\ w10 \in Seq(I)
  BY <1>2, <1>8, PlacesDiffer, Zenon
<1>10. PICK w : w = <<w1, w2, w3, w4, w5, w6, w7, w8, w9, w10>>
  OBVIOUS
<1>11. /\ w[1] = w1 /\ w[2] = w2 /\ w[3] = w3 /\ w[4] = w4 /\ w[5] = w5
       /\ w[6] = w6 /\ w[7] = w7 /\ w[8] = w8 /\ w[9] = w9 /\ w[10] = w10
  BY <1>10
<1>12. w \in [1 .. 10 -> Seq(I)]
  BY <1>7, <1>9, <1>10
<1>13. AtPlaces(w, h)
  BY <1>3, <1>7, <1>8, <1>11, Zenon DEF AtPlaces
<1>21. Unissued(inst_queue) = OpenInsts(inst_queue)
  BY <1>20, UnissuedIsOpen, Zenon
<1>14. /\ w1 = Instructions(preceding_dispatch_inst_in) /\ w2 = Unissued(inst_queue)
       /\ w8 = Joined(WriteBackGroups) /\ w10 = Instructions(write_back_rob_finish_in)
  BY <1>1, <1>8, <1>21, HeldIs, Zenon
<1>15. Waiting = EarlyLine(w)
  BY <1>5, <1>6, <1>11, <1>14, Zenon DEF Waiting, EarlyLine
<1>16. Executing = w6 \o w7 \o w8 \o w9
  BY <1>5, <1>6, <1>14, Zenon DEF Executing, WriteBackGroups, GroupsOf
<1>17. Lines(w)
  BY <1>11, <1>14, <1>15, <1>16, Zenon DEF Lines, UnderWay, WholeLine, UnitLine, LateLine
<1> QED BY <1>1, <1>12, <1>13, <1>17, Zenon

\* The places that the k-th sequence of the line joins.
PlaceNumber(x) ==
    CASE x[1] = "dispatch wire" -> 1
      [] x[1] = "dispatch queue" -> 2
      [] x[1] = "pending" -> 3
      [] x[1] = "station wire" -> 4
      [] x[1] = "station" -> 5
      [] x[1] = "unit wire" -> 6
      [] x[1] = "unit" -> 7
      [] x[1] = "write back wire" -> 8
      [] x[1] = "write back" -> 9
      [] x[1] = "finish wire" -> 10

PlacesOf(k) == {x \in Place : PlaceNumber(x) = k}

\* The number of each place.
LEMMA PlaceNumbers ==
  /\ PlaceNumber(AtDispatchWire) = 1 /\ PlaceNumber(AtDispatchQueue) = 2
  /\ PlaceNumber(AtWriteBackWire) = 8 /\ PlaceNumber(AtFinishWire) = 10
  /\ \A p \in Pipe :
       /\ PlaceNumber(AtPending(p)) = 3
       /\ PlaceNumber(AtStationWire(p)) = 4
       /\ PlaceNumber(AtStation(p)) = 5
       /\ PlaceNumber(AtUnitWire(p)) = 6
       /\ PlaceNumber(AtUnit(p)) = 7
       /\ PlaceNumber(AtWriteBack(p)) = 9
BY DEF PlaceNumber, AtDispatchWire, AtDispatchQueue, AtWriteBackWire, AtFinishWire, AtPending,
   AtStationWire, AtStation, AtUnitWire, AtUnit, AtWriteBack

\* Which places there are.
LEMMA PlaceIs ==
  ASSUME NEW x \in Place
  PROVE  \/ x = AtDispatchWire \/ x = AtDispatchQueue \/ x = AtWriteBackWire \/ x = AtFinishWire
         \/ \E p \in Pipe : \/ x = AtPending(p) \/ x = AtStationWire(p) \/ x = AtStation(p)
                            \/ x = AtUnitWire(p) \/ x = AtUnit(p) \/ x = AtWriteBack(p)
BY Zenon DEF Place

\* Each place is in one of them.
LEMMA PlacesOfAre ==
  /\ \A x \in Place : \E k \in 1 .. 10 : x \in PlacesOf(k)
  /\ \A j, k \in 1 .. 10 : j # k => \A x \in PlacesOf(k) : x \notin PlacesOf(j)
  /\ \A k \in 6 .. 10 : \A x \in PlacesOf(k) : x \in Place /\ x \notin EarlyPlace
  /\ \A k \in 1 .. 10 : \A x \in PlacesOf(k) : x \in Place
<1>1. ASSUME NEW x \in Place PROVE PlaceNumber(x) \in 1 .. 10
  <2>1. CASE x = AtDispatchWire \/ x = AtDispatchQueue \/ x = AtWriteBackWire \/ x = AtFinishWire
    BY <2>1, PlaceNumbers
  <2>2. ASSUME NEW p \in Pipe,
               \/ x = AtPending(p) \/ x = AtStationWire(p) \/ x = AtStation(p)
               \/ x = AtUnitWire(p) \/ x = AtUnit(p) \/ x = AtWriteBack(p)
        PROVE  PlaceNumber(x) \in 1 .. 10
    BY <2>2, PlaceNumbers
  <2> QED BY <2>1, <2>2, PlaceIs, Zenon
<1>2. ASSUME NEW x \in EarlyPlace PROVE PlaceNumber(x) \in 1 .. 3
  <2>1. \/ x = AtDispatchWire \/ x = AtDispatchQueue \/ \E p \in Pipe : x = AtPending(p)
    BY Zenon DEF EarlyPlace
  <2> QED BY <2>1, PlaceNumbers
<1>3. \A k \in 6 .. 10 : k \notin 1 .. 3
  OBVIOUS
<1> QED BY <1>1, <1>2, <1>3, Zenon DEF PlacesOf

\* They are the place, or the pipes' places, of that number.
LEMMA PlacesOfName ==
  /\ PlacesOf(1) = {AtDispatchWire}
  /\ PlacesOf(2) = {AtDispatchQueue}
  /\ PlacesOf(3) = {AtPending(p) : p \in Pipe}
  /\ PlacesOf(4) = {AtStationWire(p) : p \in Pipe}
  /\ PlacesOf(5) = {AtStation(p) : p \in Pipe}
  /\ PlacesOf(6) = {AtUnitWire(p) : p \in Pipe}
  /\ PlacesOf(7) = {AtUnit(p) : p \in Pipe}
  /\ PlacesOf(8) = {AtWriteBackWire}
  /\ PlacesOf(9) = {AtWriteBack(p) : p \in Pipe}
  /\ PlacesOf(10) = {AtFinishWire}
<1>1. PlacesOf(1) = {AtDispatchWire}
  <2>1. ASSUME NEW x \in Place, PlaceNumber(x) = 1 PROVE x \in {AtDispatchWire}
    <3>1. CASE x = AtDispatchWire \/ x = AtDispatchQueue \/ x = AtWriteBackWire \/ x = AtFinishWire
      BY <2>1, <3>1, PlaceNumbers
    <3>2. ASSUME NEW p \in Pipe,
                 \/ x = AtPending(p) \/ x = AtStationWire(p) \/ x = AtStation(p)
                 \/ x = AtUnitWire(p) \/ x = AtUnit(p) \/ x = AtWriteBack(p)
          PROVE  x \in {AtDispatchWire}
      BY <2>1, <3>2, PlaceNumbers
    <3> QED BY <3>1, <3>2, PlaceIs, Zenon
  <2>2. \A x \in {AtDispatchWire} : x \in Place /\ PlaceNumber(x) = 1
    BY PlaceNumbers, PlacesDiffer
  <2> QED BY <2>1, <2>2 DEF PlacesOf
<1>2. PlacesOf(2) = {AtDispatchQueue}
  <2>1. ASSUME NEW x \in Place, PlaceNumber(x) = 2 PROVE x \in {AtDispatchQueue}
    <3>1. CASE x = AtDispatchWire \/ x = AtDispatchQueue \/ x = AtWriteBackWire \/ x = AtFinishWire
      BY <2>1, <3>1, PlaceNumbers
    <3>2. ASSUME NEW p \in Pipe,
                 \/ x = AtPending(p) \/ x = AtStationWire(p) \/ x = AtStation(p)
                 \/ x = AtUnitWire(p) \/ x = AtUnit(p) \/ x = AtWriteBack(p)
          PROVE  x \in {AtDispatchQueue}
      BY <2>1, <3>2, PlaceNumbers
    <3> QED BY <3>1, <3>2, PlaceIs, Zenon
  <2>2. \A x \in {AtDispatchQueue} : x \in Place /\ PlaceNumber(x) = 2
    BY PlaceNumbers, PlacesDiffer
  <2> QED BY <2>1, <2>2 DEF PlacesOf
<1>3. PlacesOf(3) = {AtPending(p) : p \in Pipe}
  <2>1. ASSUME NEW x \in Place, PlaceNumber(x) = 3 PROVE x \in {AtPending(p) : p \in Pipe}
    <3>1. CASE x = AtDispatchWire \/ x = AtDispatchQueue \/ x = AtWriteBackWire \/ x = AtFinishWire
      BY <2>1, <3>1, PlaceNumbers
    <3>2. ASSUME NEW p \in Pipe,
                 \/ x = AtPending(p) \/ x = AtStationWire(p) \/ x = AtStation(p)
                 \/ x = AtUnitWire(p) \/ x = AtUnit(p) \/ x = AtWriteBack(p)
          PROVE  x \in {AtPending(q) : q \in Pipe}
      BY <2>1, <3>2, PlaceNumbers
    <3> QED BY <3>1, <3>2, PlaceIs, Zenon
  <2>2. \A x \in {AtPending(p) : p \in Pipe} : x \in Place /\ PlaceNumber(x) = 3
    BY PlaceNumbers, PlacesDiffer
  <2> QED BY <2>1, <2>2 DEF PlacesOf
<1>4. PlacesOf(4) = {AtStationWire(p) : p \in Pipe}
  <2>1. ASSUME NEW x \in Place, PlaceNumber(x) = 4 PROVE x \in {AtStationWire(p) : p \in Pipe}
    <3>1. CASE x = AtDispatchWire \/ x = AtDispatchQueue \/ x = AtWriteBackWire \/ x = AtFinishWire
      BY <2>1, <3>1, PlaceNumbers
    <3>2. ASSUME NEW p \in Pipe,
                 \/ x = AtPending(p) \/ x = AtStationWire(p) \/ x = AtStation(p)
                 \/ x = AtUnitWire(p) \/ x = AtUnit(p) \/ x = AtWriteBack(p)
          PROVE  x \in {AtStationWire(q) : q \in Pipe}
      BY <2>1, <3>2, PlaceNumbers
    <3> QED BY <3>1, <3>2, PlaceIs, Zenon
  <2>2. \A x \in {AtStationWire(p) : p \in Pipe} : x \in Place /\ PlaceNumber(x) = 4
    BY PlaceNumbers, PlacesDiffer
  <2> QED BY <2>1, <2>2 DEF PlacesOf
<1>5. PlacesOf(5) = {AtStation(p) : p \in Pipe}
  <2>1. ASSUME NEW x \in Place, PlaceNumber(x) = 5 PROVE x \in {AtStation(p) : p \in Pipe}
    <3>1. CASE x = AtDispatchWire \/ x = AtDispatchQueue \/ x = AtWriteBackWire \/ x = AtFinishWire
      BY <2>1, <3>1, PlaceNumbers
    <3>2. ASSUME NEW p \in Pipe,
                 \/ x = AtPending(p) \/ x = AtStationWire(p) \/ x = AtStation(p)
                 \/ x = AtUnitWire(p) \/ x = AtUnit(p) \/ x = AtWriteBack(p)
          PROVE  x \in {AtStation(q) : q \in Pipe}
      BY <2>1, <3>2, PlaceNumbers
    <3> QED BY <3>1, <3>2, PlaceIs, Zenon
  <2>2. \A x \in {AtStation(p) : p \in Pipe} : x \in Place /\ PlaceNumber(x) = 5
    BY PlaceNumbers, PlacesDiffer
  <2> QED BY <2>1, <2>2 DEF PlacesOf
<1>6. PlacesOf(6) = {AtUnitWire(p) : p \in Pipe}
  <2>1. ASSUME NEW x \in Place, PlaceNumber(x) = 6 PROVE x \in {AtUnitWire(p) : p \in Pipe}
    <3>1. CASE x = AtDispatchWire \/ x = AtDispatchQueue \/ x = AtWriteBackWire \/ x = AtFinishWire
      BY <2>1, <3>1, PlaceNumbers
    <3>2. ASSUME NEW p \in Pipe,
                 \/ x = AtPending(p) \/ x = AtStationWire(p) \/ x = AtStation(p)
                 \/ x = AtUnitWire(p) \/ x = AtUnit(p) \/ x = AtWriteBack(p)
          PROVE  x \in {AtUnitWire(q) : q \in Pipe}
      BY <2>1, <3>2, PlaceNumbers
    <3> QED BY <3>1, <3>2, PlaceIs, Zenon
  <2>2. \A x \in {AtUnitWire(p) : p \in Pipe} : x \in Place /\ PlaceNumber(x) = 6
    BY PlaceNumbers, PlacesDiffer
  <2> QED BY <2>1, <2>2 DEF PlacesOf
<1>7. PlacesOf(7) = {AtUnit(p) : p \in Pipe}
  <2>1. ASSUME NEW x \in Place, PlaceNumber(x) = 7 PROVE x \in {AtUnit(p) : p \in Pipe}
    <3>1. CASE x = AtDispatchWire \/ x = AtDispatchQueue \/ x = AtWriteBackWire \/ x = AtFinishWire
      BY <2>1, <3>1, PlaceNumbers
    <3>2. ASSUME NEW p \in Pipe,
                 \/ x = AtPending(p) \/ x = AtStationWire(p) \/ x = AtStation(p)
                 \/ x = AtUnitWire(p) \/ x = AtUnit(p) \/ x = AtWriteBack(p)
          PROVE  x \in {AtUnit(q) : q \in Pipe}
      BY <2>1, <3>2, PlaceNumbers
    <3> QED BY <3>1, <3>2, PlaceIs, Zenon
  <2>2. \A x \in {AtUnit(p) : p \in Pipe} : x \in Place /\ PlaceNumber(x) = 7
    BY PlaceNumbers, PlacesDiffer
  <2> QED BY <2>1, <2>2 DEF PlacesOf
<1>8. PlacesOf(8) = {AtWriteBackWire}
  <2>1. ASSUME NEW x \in Place, PlaceNumber(x) = 8 PROVE x \in {AtWriteBackWire}
    <3>1. CASE x = AtDispatchWire \/ x = AtDispatchQueue \/ x = AtWriteBackWire \/ x = AtFinishWire
      BY <2>1, <3>1, PlaceNumbers
    <3>2. ASSUME NEW p \in Pipe,
                 \/ x = AtPending(p) \/ x = AtStationWire(p) \/ x = AtStation(p)
                 \/ x = AtUnitWire(p) \/ x = AtUnit(p) \/ x = AtWriteBack(p)
          PROVE  x \in {AtWriteBackWire}
      BY <2>1, <3>2, PlaceNumbers
    <3> QED BY <3>1, <3>2, PlaceIs, Zenon
  <2>2. \A x \in {AtWriteBackWire} : x \in Place /\ PlaceNumber(x) = 8
    BY PlaceNumbers, PlacesDiffer
  <2> QED BY <2>1, <2>2 DEF PlacesOf
<1>9. PlacesOf(9) = {AtWriteBack(p) : p \in Pipe}
  <2>1. ASSUME NEW x \in Place, PlaceNumber(x) = 9 PROVE x \in {AtWriteBack(p) : p \in Pipe}
    <3>1. CASE x = AtDispatchWire \/ x = AtDispatchQueue \/ x = AtWriteBackWire \/ x = AtFinishWire
      BY <2>1, <3>1, PlaceNumbers
    <3>2. ASSUME NEW p \in Pipe,
                 \/ x = AtPending(p) \/ x = AtStationWire(p) \/ x = AtStation(p)
                 \/ x = AtUnitWire(p) \/ x = AtUnit(p) \/ x = AtWriteBack(p)
          PROVE  x \in {AtWriteBack(q) : q \in Pipe}
      BY <2>1, <3>2, PlaceNumbers
    <3> QED BY <3>1, <3>2, PlaceIs, Zenon
  <2>2. \A x \in {AtWriteBack(p) : p \in Pipe} : x \in Place /\ PlaceNumber(x) = 9
    BY PlaceNumbers, PlacesDiffer
  <2> QED BY <2>1, <2>2 DEF PlacesOf
<1>10. PlacesOf(10) = {AtFinishWire}
  <2>1. ASSUME NEW x \in Place, PlaceNumber(x) = 10 PROVE x \in {AtFinishWire}
    <3>1. CASE x = AtDispatchWire \/ x = AtDispatchQueue \/ x = AtWriteBackWire \/ x = AtFinishWire
      BY <2>1, <3>1, PlaceNumbers
    <3>2. ASSUME NEW p \in Pipe,
                 \/ x = AtPending(p) \/ x = AtStationWire(p) \/ x = AtStation(p)
                 \/ x = AtUnitWire(p) \/ x = AtUnit(p) \/ x = AtWriteBack(p)
          PROVE  x \in {AtFinishWire}
      BY <2>1, <3>2, PlaceNumbers
    <3> QED BY <3>1, <3>2, PlaceIs, Zenon
  <2>2. \A x \in {AtFinishWire} : x \in Place /\ PlaceNumber(x) = 10
    BY PlaceNumbers, PlacesDiffer
  <2> QED BY <2>1, <2>2 DEF PlacesOf
<1> QED BY <1>1, <1>2, <1>3, <1>4, <1>5, <1>6, <1>7, <1>8, <1>9, <1>10

\* The pipes' places differ.
LEMMA PipesApart ==
  /\ \A p, q \in Pipe : AtPending(p) = AtPending(q) => p = q
  /\ \A p, q \in Pipe : AtStationWire(p) = AtStationWire(q) => p = q
  /\ \A p, q \in Pipe : AtStation(p) = AtStation(q) => p = q
  /\ \A p, q \in Pipe : AtUnitWire(p) = AtUnitWire(q) => p = q
  /\ \A p, q \in Pipe : AtUnit(p) = AtUnit(q) => p = q
  /\ \A p, q \in Pipe : AtWriteBack(p) = AtWriteBack(q) => p = q
BY DEF AtPending, AtStationWire, AtStation, AtUnitWire, AtUnit, AtWriteBack

\* A sequence has i as the places in X have it.
HasAsPlaces(i, s, h, X) ==
    /\ Absent(i, s) <=> \A x \in X : Absent(i, h[x])
    /\ Single(i, s) <=> \E x \in X : Single(i, h[x]) /\ \A y \in X : y # x => Absent(i, h[y])

\* So each of the sequences does.
LEMMA AtPlacesOf ==
  ASSUME NEW w, NEW h, AtPlaces(w, h), NEW i, NEW k \in 1 .. 10
  PROVE  HasAsPlaces(i, w[k], h, PlacesOf(k))
<1>1. ASSUME NEW x, NEW s, s = h[x] PROVE HasAsPlaces(i, s, h, {x})
  BY <1>1 DEF HasAsPlaces
<1>2. ASSUME NEW s, NEW at \in [Pipe -> Place], \A p, q \in Pipe : at[p] = at[q] => p = q,
             Among(s, [p \in Pipe |-> h[at[p]]])
      PROVE  HasAsPlaces(i, s, h, {at[p] : p \in Pipe})
  <2>1. PICK f : f = [p \in Pipe |-> h[at[p]]]
    OBVIOUS
  <2>2. \A p \in Pipe : f[p] = h[at[p]]
    BY <2>1
  <2>3. /\ Absent(i, s) <=> \A p \in Pipe : Absent(i, f[p])
        /\ Single(i, s) <=>
              \E p \in Pipe : Single(i, f[p]) /\ \A q \in Pipe : q # p => Absent(i, f[q])
    BY <1>2, <2>1, AmongPipes, Zenon
  <2>4. PICK X : X = {at[p] : p \in Pipe}
    OBVIOUS
  <2>5. (\A p \in Pipe : at[p] \in X) /\ \A x \in X : \E p \in Pipe : x = at[p]
    BY <2>4
  <2>6. Absent(i, s) <=> \A x \in X : Absent(i, h[x])
    <3>1. ASSUME Absent(i, s), NEW x \in X PROVE Absent(i, h[x])
      <4>1. PICK p \in Pipe : x = at[p]
        BY <2>5, Zenon
      <4> QED BY <2>2, <2>3, <3>1, <4>1, Zenon
    <3>2. ASSUME \A x \in X : Absent(i, h[x]), NEW p \in Pipe PROVE Absent(i, f[p])
      BY <2>2, <2>5, <3>2, Zenon
    <3> QED BY <2>3, <3>1, <3>2, Zenon
  <2>7. ASSUME Single(i, s)
        PROVE  \E x \in X : Single(i, h[x]) /\ \A y \in X : y # x => Absent(i, h[y])
    <3>1. PICK p \in Pipe : Single(i, f[p]) /\ \A q \in Pipe : q # p => Absent(i, f[q])
      BY <2>3, <2>7, Zenon
    <3>2. ASSUME NEW y \in X, y # at[p] PROVE Absent(i, h[y])
      <4>1. PICK q \in Pipe : y = at[q]
        BY <2>5, Zenon
      <4> QED BY <2>2, <3>1, <3>2, <4>1, Zenon
    <3> QED BY <2>2, <2>5, <3>1, <3>2, Zenon
  <2>8. ASSUME NEW x \in X, Single(i, h[x]), \A y \in X : y # x => Absent(i, h[y])
        PROVE  Single(i, s)
    <3>1. PICK p \in Pipe : x = at[p]
      BY <2>5, <2>8, Zenon
    <3>2. \A q \in Pipe : q # p => Absent(i, f[q])
      BY <1>2, <2>2, <2>5, <2>8, <3>1, Zenon
    <3> QED BY <2>2, <2>3, <2>8, <3>1, <3>2, Zenon
  <2> QED BY <2>4, <2>6, <2>7, <2>8, Zenon DEF HasAsPlaces
<1>3. HasAsPlaces(i, w[1], h, PlacesOf(1))
  <2>1. w[1] = h[AtDispatchWire]
    BY Zenon DEF AtPlaces
  <2>2. PlacesOf(1) = {AtDispatchWire}
    BY PlacesOfName, Zenon
  <2>3. HasAsPlaces(i, w[1], h, {AtDispatchWire})
    BY <1>1, <2>1, Zenon
  <2> QED BY <2>2, <2>3, Zenon
<1>4. HasAsPlaces(i, w[2], h, PlacesOf(2))
  <2>1. w[2] = h[AtDispatchQueue]
    BY Zenon DEF AtPlaces
  <2>2. PlacesOf(2) = {AtDispatchQueue}
    BY PlacesOfName, Zenon
  <2>3. HasAsPlaces(i, w[2], h, {AtDispatchQueue})
    BY <1>1, <2>1, Zenon
  <2> QED BY <2>2, <2>3, Zenon
<1>5. HasAsPlaces(i, w[3], h, PlacesOf(3))
  <2>1. PICK at : at = [p \in Pipe |-> AtPending(p)]
    OBVIOUS
  <2>2. \A p \in Pipe : at[p] = AtPending(p)
    BY <2>1
  <2>3. \A p, q \in Pipe : at[p] = at[q] => p = q
    <3>1. \A p, q \in Pipe : AtPending(p) = AtPending(q) => p = q
      BY PipesApart, Zenon
    <3> QED BY <2>2, <3>1, Zenon
  <2>7. at \in [Pipe -> Place]
    <3>1. \A p \in Pipe : AtPending(p) \in Place
      BY PlacesDiffer, Zenon
    <3> QED BY <2>1, <3>1
  <2>4. PlacesOf(3) = {at[p] : p \in Pipe}
    <3>1. PlacesOf(3) = {AtPending(p) : p \in Pipe}
      BY PlacesOfName, Zenon
    <3> QED BY <2>2, <3>1
  <2>5. Among(w[3], [p \in Pipe |-> h[at[p]]])
    <3>1. Among(w[3], [p \in Pipe |-> h[AtPending(p)]])
      BY Zenon DEF AtPlaces
    <3>2. [p \in Pipe |-> h[at[p]]] = [p \in Pipe |-> h[AtPending(p)]]
      BY <2>2
    <3> QED BY <3>1, <3>2, Zenon
  <2>6. HasAsPlaces(i, w[3], h, {at[p] : p \in Pipe})
    BY <1>2, <2>3, <2>5, <2>7, Zenon
  <2> QED BY <2>4, <2>6, Zenon
<1>6. HasAsPlaces(i, w[4], h, PlacesOf(4))
  <2>1. PICK at : at = [p \in Pipe |-> AtStationWire(p)]
    OBVIOUS
  <2>2. \A p \in Pipe : at[p] = AtStationWire(p)
    BY <2>1
  <2>3. \A p, q \in Pipe : at[p] = at[q] => p = q
    <3>1. \A p, q \in Pipe : AtStationWire(p) = AtStationWire(q) => p = q
      BY PipesApart, Zenon
    <3> QED BY <2>2, <3>1, Zenon
  <2>7. at \in [Pipe -> Place]
    <3>1. \A p \in Pipe : AtStationWire(p) \in Place
      BY PlacesDiffer, Zenon
    <3> QED BY <2>1, <3>1
  <2>4. PlacesOf(4) = {at[p] : p \in Pipe}
    <3>1. PlacesOf(4) = {AtStationWire(p) : p \in Pipe}
      BY PlacesOfName, Zenon
    <3> QED BY <2>2, <3>1
  <2>5. Among(w[4], [p \in Pipe |-> h[at[p]]])
    <3>1. Among(w[4], [p \in Pipe |-> h[AtStationWire(p)]])
      BY Zenon DEF AtPlaces
    <3>2. [p \in Pipe |-> h[at[p]]] = [p \in Pipe |-> h[AtStationWire(p)]]
      BY <2>2
    <3> QED BY <3>1, <3>2, Zenon
  <2>6. HasAsPlaces(i, w[4], h, {at[p] : p \in Pipe})
    BY <1>2, <2>3, <2>5, <2>7, Zenon
  <2> QED BY <2>4, <2>6, Zenon
<1>7. HasAsPlaces(i, w[5], h, PlacesOf(5))
  <2>1. PICK at : at = [p \in Pipe |-> AtStation(p)]
    OBVIOUS
  <2>2. \A p \in Pipe : at[p] = AtStation(p)
    BY <2>1
  <2>3. \A p, q \in Pipe : at[p] = at[q] => p = q
    <3>1. \A p, q \in Pipe : AtStation(p) = AtStation(q) => p = q
      BY PipesApart, Zenon
    <3> QED BY <2>2, <3>1, Zenon
  <2>7. at \in [Pipe -> Place]
    <3>1. \A p \in Pipe : AtStation(p) \in Place
      BY PlacesDiffer, Zenon
    <3> QED BY <2>1, <3>1
  <2>4. PlacesOf(5) = {at[p] : p \in Pipe}
    <3>1. PlacesOf(5) = {AtStation(p) : p \in Pipe}
      BY PlacesOfName, Zenon
    <3> QED BY <2>2, <3>1
  <2>5. Among(w[5], [p \in Pipe |-> h[at[p]]])
    <3>1. Among(w[5], [p \in Pipe |-> h[AtStation(p)]])
      BY Zenon DEF AtPlaces
    <3>2. [p \in Pipe |-> h[at[p]]] = [p \in Pipe |-> h[AtStation(p)]]
      BY <2>2
    <3> QED BY <3>1, <3>2, Zenon
  <2>6. HasAsPlaces(i, w[5], h, {at[p] : p \in Pipe})
    BY <1>2, <2>3, <2>5, <2>7, Zenon
  <2> QED BY <2>4, <2>6, Zenon
<1>8. HasAsPlaces(i, w[6], h, PlacesOf(6))
  <2>1. PICK at : at = [p \in Pipe |-> AtUnitWire(p)]
    OBVIOUS
  <2>2. \A p \in Pipe : at[p] = AtUnitWire(p)
    BY <2>1
  <2>3. \A p, q \in Pipe : at[p] = at[q] => p = q
    <3>1. \A p, q \in Pipe : AtUnitWire(p) = AtUnitWire(q) => p = q
      BY PipesApart, Zenon
    <3> QED BY <2>2, <3>1, Zenon
  <2>7. at \in [Pipe -> Place]
    <3>1. \A p \in Pipe : AtUnitWire(p) \in Place
      BY PlacesDiffer, Zenon
    <3> QED BY <2>1, <3>1
  <2>4. PlacesOf(6) = {at[p] : p \in Pipe}
    <3>1. PlacesOf(6) = {AtUnitWire(p) : p \in Pipe}
      BY PlacesOfName, Zenon
    <3> QED BY <2>2, <3>1
  <2>5. Among(w[6], [p \in Pipe |-> h[at[p]]])
    <3>1. Among(w[6], [p \in Pipe |-> h[AtUnitWire(p)]])
      BY Zenon DEF AtPlaces
    <3>2. [p \in Pipe |-> h[at[p]]] = [p \in Pipe |-> h[AtUnitWire(p)]]
      BY <2>2
    <3> QED BY <3>1, <3>2, Zenon
  <2>6. HasAsPlaces(i, w[6], h, {at[p] : p \in Pipe})
    BY <1>2, <2>3, <2>5, <2>7, Zenon
  <2> QED BY <2>4, <2>6, Zenon
<1>9. HasAsPlaces(i, w[7], h, PlacesOf(7))
  <2>1. PICK at : at = [p \in Pipe |-> AtUnit(p)]
    OBVIOUS
  <2>2. \A p \in Pipe : at[p] = AtUnit(p)
    BY <2>1
  <2>3. \A p, q \in Pipe : at[p] = at[q] => p = q
    <3>1. \A p, q \in Pipe : AtUnit(p) = AtUnit(q) => p = q
      BY PipesApart, Zenon
    <3> QED BY <2>2, <3>1, Zenon
  <2>7. at \in [Pipe -> Place]
    <3>1. \A p \in Pipe : AtUnit(p) \in Place
      BY PlacesDiffer, Zenon
    <3> QED BY <2>1, <3>1
  <2>4. PlacesOf(7) = {at[p] : p \in Pipe}
    <3>1. PlacesOf(7) = {AtUnit(p) : p \in Pipe}
      BY PlacesOfName, Zenon
    <3> QED BY <2>2, <3>1
  <2>5. Among(w[7], [p \in Pipe |-> h[at[p]]])
    <3>1. Among(w[7], [p \in Pipe |-> h[AtUnit(p)]])
      BY Zenon DEF AtPlaces
    <3>2. [p \in Pipe |-> h[at[p]]] = [p \in Pipe |-> h[AtUnit(p)]]
      BY <2>2
    <3> QED BY <3>1, <3>2, Zenon
  <2>6. HasAsPlaces(i, w[7], h, {at[p] : p \in Pipe})
    BY <1>2, <2>3, <2>5, <2>7, Zenon
  <2> QED BY <2>4, <2>6, Zenon
<1>10. HasAsPlaces(i, w[8], h, PlacesOf(8))
  <2>1. w[8] = h[AtWriteBackWire]
    BY Zenon DEF AtPlaces
  <2>2. PlacesOf(8) = {AtWriteBackWire}
    BY PlacesOfName, Zenon
  <2>3. HasAsPlaces(i, w[8], h, {AtWriteBackWire})
    BY <1>1, <2>1, Zenon
  <2> QED BY <2>2, <2>3, Zenon
<1>11. HasAsPlaces(i, w[9], h, PlacesOf(9))
  <2>1. PICK at : at = [p \in Pipe |-> AtWriteBack(p)]
    OBVIOUS
  <2>2. \A p \in Pipe : at[p] = AtWriteBack(p)
    BY <2>1
  <2>3. \A p, q \in Pipe : at[p] = at[q] => p = q
    <3>1. \A p, q \in Pipe : AtWriteBack(p) = AtWriteBack(q) => p = q
      BY PipesApart, Zenon
    <3> QED BY <2>2, <3>1, Zenon
  <2>7. at \in [Pipe -> Place]
    <3>1. \A p \in Pipe : AtWriteBack(p) \in Place
      BY PlacesDiffer, Zenon
    <3> QED BY <2>1, <3>1
  <2>4. PlacesOf(9) = {at[p] : p \in Pipe}
    <3>1. PlacesOf(9) = {AtWriteBack(p) : p \in Pipe}
      BY PlacesOfName, Zenon
    <3> QED BY <2>2, <3>1
  <2>5. Among(w[9], [p \in Pipe |-> h[at[p]]])
    <3>1. Among(w[9], [p \in Pipe |-> h[AtWriteBack(p)]])
      BY Zenon DEF AtPlaces
    <3>2. [p \in Pipe |-> h[at[p]]] = [p \in Pipe |-> h[AtWriteBack(p)]]
      BY <2>2
    <3> QED BY <3>1, <3>2, Zenon
  <2>6. HasAsPlaces(i, w[9], h, {at[p] : p \in Pipe})
    BY <1>2, <2>3, <2>5, <2>7, Zenon
  <2> QED BY <2>4, <2>6, Zenon
<1>12. HasAsPlaces(i, w[10], h, PlacesOf(10))
  <2>1. w[10] = h[AtFinishWire]
    BY Zenon DEF AtPlaces
  <2>2. PlacesOf(10) = {AtFinishWire}
    BY PlacesOfName, Zenon
  <2>3. HasAsPlaces(i, w[10], h, {AtFinishWire})
    BY <1>1, <2>1, Zenon
  <2> QED BY <2>2, <2>3, Zenon
<1> QED BY <1>3, <1>4, <1>5, <1>6, <1>7, <1>8, <1>9, <1>10, <1>11, <1>12

\* Whatever is at one place, once, is in the line once; what is nowhere is not.
LEMMA PlacesLine ==
  ASSUME NEW w, NEW h, AtPlaces(w, h), NEW i
  PROVE  /\ Nowhere(i, h) => NoneAmong(i, w, 1 .. 10)
         /\ (\A x \in Place : x \notin EarlyPlace => Absent(i, h[x])) => NoneAmong(i, w, 6 .. 10)
         /\ \A x \in Place : IsAt(i, x, h) => OnceAmong(i, w, 1 .. 10)
<1>6. \A k \in 1 .. 10 : HasAsPlaces(i, w[k], h, PlacesOf(k))
  BY AtPlacesOf, Zenon
<1>1. \A k \in 1 .. 10 :
        /\ (\A x \in PlacesOf(k) : Absent(i, h[x])) => Absent(i, w[k])
        /\ \A x \in PlacesOf(k) :
              Single(i, h[x]) /\ (\A y \in PlacesOf(k) : y # x => Absent(i, h[y])) => Single(i, w[k])
  BY <1>6, Zenon DEF HasAsPlaces
<1>2. \A k \in 6 .. 10 : k \in 1 .. 10
  OBVIOUS
<1>3. Nowhere(i, h) => NoneAmong(i, w, 1 .. 10)
  BY <1>1, PlacesOfAre, Zenon DEF Nowhere, NoneAmong
<1>4. (\A x \in Place : x \notin EarlyPlace => Absent(i, h[x])) => NoneAmong(i, w, 6 .. 10)
  BY <1>1, <1>2, PlacesOfAre, Zenon DEF NoneAmong
<1>5. ASSUME NEW x \in Place, IsAt(i, x, h) PROVE OnceAmong(i, w, 1 .. 10)
  <2>1. PICK k \in 1 .. 10 : x \in PlacesOf(k)
    BY PlacesOfAre, Zenon
  <2>2. Single(i, h[x]) /\ \A y \in Place : y # x => Absent(i, h[y])
    BY <1>5, Zenon DEF IsAt
  <2>3. Single(i, w[k])
    <3>1. \A y \in PlacesOf(k) : y # x => Absent(i, h[y])
      BY <2>2, PlacesOfAre, Zenon
    <3> QED BY <1>1, <2>1, <2>2, <3>1, Zenon
  <2>4. ASSUME NEW j \in 1 .. 10, j # k PROVE Absent(i, w[j])
    <3>1. \A y \in PlacesOf(j) : y \in Place /\ y # x
      BY <2>1, <2>4, PlacesOfAre, Zenon
    <3>2. \A y \in PlacesOf(j) : Absent(i, h[y])
      BY <2>2, <3>1, Zenon
    <3> QED BY <1>1, <3>2, Zenon
  <2> QED BY <2>3, <2>4, Zenon DEF OnceAmong
<1> QED BY <1>3, <1>4, <1>5, Zenon

\* What has a fate is under way when and only when it is somewhere, and then once.
LEMMA FateOnTheWay ==
  ASSUME FateInv, NEW i \in DOMAIN inst
  PROVE  /\ UnderWay \in Seq(DOMAIN inst)
         /\ Absent(i, UnderWay) \/ Single(i, UnderWay)
         /\ Nowhere(i, held) => Absent(i, UnderWay)
         /\ (\E x \in Place : IsAt(i, x, held)) => Single(i, UnderWay)
<1>1. PICK w \in [1 .. 10 -> Seq(DOMAIN inst)] : Lines(w) /\ AtPlaces(w, held)
  BY UnderWayIs, Zenon
<1>2. /\ WholeLine(w) \in Seq(DOMAIN inst)
      /\ NoneAmong(i, w, 1 .. 10) => Absent(i, WholeLine(w))
      /\ OnceAmong(i, w, 1 .. 10) => Single(i, WholeLine(w))
  BY LineHas, Zenon
<1>3. /\ Nowhere(i, held) => NoneAmong(i, w, 1 .. 10)
      /\ \A x \in Place : IsAt(i, x, held) => OnceAmong(i, w, 1 .. 10)
  BY <1>1, PlacesLine, Zenon
<1>4. UnderWay = WholeLine(w)
  BY <1>1, Zenon DEF Lines
<1>5. Nowhere(i, held) \/ \E x \in Place : IsAt(i, x, held)
  <2>1. HasFate(i, Unrenamed, RobWire, Entries, held)
    BY Zenon DEF FateInv, Fates
  <2>2. \A x \in EarlyPlace : x \in Place
    BY DEF EarlyPlace, Place
  <2> QED BY <2>1, <2>2, Zenon DEF HasFate, IsFetched, IsRenamed, IsAwaited, IsFinished
<1> QED BY <1>2, <1>3, <1>4, <1>5, Zenon

\* What a sequence has in its range.
LEMMA RangeHas == ASSUME NEW s, NEW i PROVE i \in Range(s) <=> ~Absent(i, s)
BY DEF Range, Absent

\* The instructions whose entries are not finished.
AwaitedInsts == {Entries[k].inst : k \in {j \in DOMAIN Entries : ~Entries[j].finish}}

\* What is under way is awaited or about to be.
LEMMA FatesAwait == ASSUME FateInv PROVE RobAwaitsWhatIsUnderWay
<1>1. CreditInv
  BY Zenon DEF FateInv
<1>2. UnderWay \in Seq(DOMAIN inst)
  <2>1. PICK w \in [1 .. 10 -> Seq(DOMAIN inst)] : Lines(w)
    BY UnderWayIs, Zenon
  <2>2. WholeLine(w) \in Seq(DOMAIN inst)
    BY LineHas, Zenon
  <2> QED BY <2>1, <2>2, Zenon DEF Lines
<1>3. RobWire \in Seq(DOMAIN inst)
  BY <1>1, GroupWire, LinkPortHas, Zenon DEF CreditInv, RobWire
<1>4. PICK es, I : es = Entries /\ I = DOMAIN inst
  OBVIOUS
<1>5. /\ DOMAIN InstsOf(es) = DOMAIN es
      /\ \A k \in DOMAIN es : InstsOf(es)[k] = es[k].inst /\ es[k].inst \in I
  <2>1. \A k \in DOMAIN es : es[k].inst \in I
    BY <1>1, <1>4, EntriesKnown, Zenon
  <2> QED BY <2>1 DEF InstsOf
<1>6. ASSUME NEW i \in I PROVE HasFate(i, Unrenamed, RobWire, es, held)
  BY <1>4, <1>6, Zenon DEF FateInv, Fates
<1>7. ASSUME NEW i \in I, i \in Range(UnderWay)
      PROVE  i \in AwaitedInsts \/ i \in Range(RobWire)
  <2>1. ~Nowhere(i, held)
    BY <1>4, <1>7, RangeHas, FateOnTheWay, Zenon
  <2>2. CASE IsRenamed(i, Unrenamed, RobWire, es, held)
    <3>1. ~Absent(i, RobWire)
      BY <2>2, SingleOccurs, Zenon DEF IsRenamed
    <3> QED BY <3>1, RangeHas, Zenon
  <2>3. CASE IsAwaited(i, Unrenamed, RobWire, es, held)
    <3>1. Single(i, InstsOf(es)) /\ \A k \in DOMAIN es : es[k].inst = i => ~es[k].finish
      BY <2>3, Zenon DEF IsAwaited
    <3>2. PICK k \in DOMAIN es : es[k].inst = i
      BY <1>5, <3>1, Zenon DEF Single
    <3>3. i \in {es[k1].inst : k1 \in {j \in DOMAIN es : ~es[j].finish}}
      BY <3>1, <3>2, Zenon
    <3> QED BY <1>4, <3>3, Zenon DEF AwaitedInsts
  <2> QED BY <1>6, <2>1, <2>2, <2>3, Zenon DEF HasFate, IsFetched, IsFinished
<1>8. ASSUME NEW i \in AwaitedInsts PROVE i \in Range(UnderWay)
  <2>1. PICK k \in DOMAIN es : ~es[k].finish /\ i = es[k].inst
    BY <1>4, Zenon DEF AwaitedInsts
  <2>2. i \in I
    BY <1>5, <2>1, Zenon
  <2>3. ~Absent(i, InstsOf(es))
    BY <1>5, <2>1, Zenon DEF Absent
  <2>4. IsAwaited(i, Unrenamed, RobWire, es, held)
    BY <1>6, <2>1, <2>2, <2>3, Zenon DEF HasFate, IsFetched, IsRenamed, IsFinished
  <2>5. Single(i, UnderWay)
    BY <1>4, <2>2, <2>4, FateOnTheWay, Zenon DEF IsAwaited
  <2> QED BY <2>5, SingleOccurs, RangeHas, Zenon
<1>9. ASSUME NEW i \in Range(RobWire) PROVE i \in Range(UnderWay)
  <2>1. ~Absent(i, RobWire)
    BY RangeHas, Zenon
  <2>2. i \in I
    BY <1>3, <1>4, <2>1, OutsideAbsent, Zenon
  <2>3. IsRenamed(i, Unrenamed, RobWire, es, held)
    BY <1>6, <2>1, <2>2, Zenon DEF HasFate, IsFetched, IsAwaited, IsFinished
  <2>4. \A x \in EarlyPlace : x \in Place
    BY DEF EarlyPlace, Place
  <2>5. Single(i, UnderWay)
    BY <1>4, <2>2, <2>3, <2>4, FateOnTheWay, Zenon DEF IsRenamed
  <2> QED BY <2>5, SingleOccurs, RangeHas, Zenon
<1>10. Range(UnderWay) = AwaitedInsts \cup Range(RobWire)
  <2>1. \A i \in Range(UnderWay) : i \in I
    BY <1>2, <1>4, RangeHas, OutsideAbsent, Zenon
  <2> QED BY <1>7, <1>8, <1>9, <2>1
<1>11. Cardinality(Range(UnderWay)) = Len(UnderWay)
  <2>1. \A i \in DOMAIN inst : Absent(i, UnderWay) \/ Single(i, UnderWay)
    BY FateOnTheWay, Zenon
  <2>2. Cardinality({UnderWay[k] : k \in DOMAIN UnderWay}) = Len(UnderWay)
    BY <1>2, <2>1, SinglesCount, Zenon
  <2> QED BY <2>2, Zenon DEF Range
<1> QED BY <1>10, <1>11, Zenon DEF RobAwaitsWhatIsUnderWay, UnderWay, AwaitedInsts, RobWire, Entries

\* An instruction that executes, or whose end is on its way, has its tag.
LEMMA FatesTag == ASSUME FateInv PROVE RobTagIsOwn
<1>1. CreditInv /\ OwnTags
  BY Zenon DEF FateInv
<1>2. PICK w \in [1 .. 10 -> Seq(DOMAIN inst)] : Lines(w) /\ AtPlaces(w, held)
  BY UnderWayIs, Zenon
<1>3. PICK u : u = LateLine(w) /\ u = Executing \o Instructions(write_back_rob_finish_in)
  BY <1>2, Zenon DEF Lines
<1>4. u \in Seq(DOMAIN inst)
  BY <1>3, LineHas, Zenon
<1>5. RingIs(rob)
  <2>1. RobRing!Ring(rob)
    BY <1>1, Zenon DEF CreditInv, RobInv
  <2> QED BY <2>1, RingSlots, Zenon
<1>6. /\ DOMAIN Entries = 1 .. rob.usage
      /\ \A k \in 1 .. rob.usage : /\ Entries[k] = rob.dataList[RobQueue!SlotOf(rob, k)]
                                   /\ Entries[k] \in RobEntry
  <2>1. PICK es, n : es = Entries /\ n = rob.usage
    OBVIOUS
  <2>2. es \in Seq(RobEntry) /\ Len(es) = n /\ n \in Nat
    BY <1>5, <2>1, Zenon DEF RingIs, Entries
  <2>3. \A k \in 1 .. n : es[k] \in RobEntry
    BY <2>2
  <2> QED BY <1>5, <2>1, <2>3, Zenon DEF RingIs, Entries
<1> SUFFICES ASSUME NEW i \in Range(u)
             PROVE  /\ inst[i].RobTag \in RobQueue!LiveSlots(rob)
                    /\ rob.dataList[inst[i].RobTag] = [inst |-> i, finish |-> FALSE]
  BY <1>3, Zenon DEF RobTagIsOwn
<1>7. ~Absent(i, u)
  BY RangeHas, Zenon
<1>8. i \in DOMAIN inst
  BY <1>4, <1>7, OutsideAbsent, Zenon
<1>9. PICK x \in Place : x \notin EarlyPlace /\ ~Absent(i, held[x])
  <2>1. ~NoneAmong(i, w, 6 .. 10)
    BY <1>3, <1>7, LineHas, Zenon
  <2> QED BY <1>2, <2>1, PlacesLine, Zenon
<1>10. IsAwaited(i, Unrenamed, RobWire, Entries, held)
  <2>1. HasFate(i, Unrenamed, RobWire, Entries, held)
    BY <1>8, Zenon DEF FateInv, Fates
  <2>2. ~Nowhere(i, held)
    BY <1>9, Zenon DEF Nowhere
  <2>3. ASSUME NEW y \in EarlyPlace, IsAt(i, y, held) PROVE FALSE
    <3>1. x # y
      BY <1>9, <2>3, Zenon
    <3> QED BY <1>9, <2>3, <3>1, Zenon DEF IsAt
  <2> QED BY <2>1, <2>2, <2>3, Zenon DEF HasFate, IsFetched, IsRenamed, IsFinished
<1>11. PICK k \in 1 .. rob.usage : Entries[k].inst = i /\ ~Entries[k].finish
  <2>1. /\ Single(i, InstsOf(Entries))
        /\ \A k \in DOMAIN Entries : Entries[k].inst = i => ~Entries[k].finish
    BY <1>10, Zenon DEF IsAwaited
  <2>2. PICK k \in DOMAIN InstsOf(Entries) : InstsOf(Entries)[k] = i
    BY <2>1, Zenon DEF Single
  <2>3. PICK es : es = Entries
    OBVIOUS
  <2>4. k \in DOMAIN es /\ es[k].inst = i
    BY <2>2, <2>3 DEF InstsOf
  <2> QED BY <1>6, <2>1, <2>3, <2>4, Zenon
<1>12. inst[i].RobTag = RobQueue!SlotOf(rob, k)
  BY <1>1, <1>11, Zenon DEF OwnTags
<1>13. inst[i].RobTag \in RobQueue!LiveSlots(rob)
  BY <1>12, Zenon DEF RobQueue!LiveSlots
<1>14. Entries[k] = [inst |-> i, finish |-> FALSE]
  <2>1. PICK e : e = Entries[k]
    OBVIOUS
  <2>2. e \in RobEntry /\ e.inst = i /\ ~e.finish
    BY <1>6, <1>11, <2>1, Zenon
  <2>3. e = [inst |-> i, finish |-> FALSE]
    BY <2>2 DEF RobEntry
  <2> QED BY <2>1, <2>3, Zenon
<1> QED BY <1>6, <1>12, <1>13, <1>14, Zenon

-----------------------------------------------------------------------------
(* The theorems.                                                           *)

\* RobAwaitsWhatIsUnderWay, for every number of pipes, every width, every depth
\* and every program without mispredicted branches: the reorder buffer waits for
\* exactly what is in the queues and on the wires of the other units, and each of
\* those instructions is in one place only.  No unit loses one, issues one twice
\* or reports one twice, in whatever order the handlers of a cycle run.
THEOREM CoreAwaitsWhatIsUnderWay ==
  ASSUME WellPredicted PROVE Spec => []RobAwaitsWhatIsUnderWay
<1>1. Init => FateInv
  BY InitFates
<1>2. FateInv /\ [Next]_vars => FateInv'
  BY FateStep
<1>3. FateInv => RobAwaitsWhatIsUnderWay
  BY FatesAwait
<1> QED BY <1>1, <1>2, <1>3, PTL DEF Spec

\* RobTagIsOwn, likewise: whatever executes, and whatever Finish_ is about to mark,
\* carries the slot of its own entry, which is still in the ring and not finished.
THEOREM CoreTagsAreOwn ==
  ASSUME WellPredicted PROVE Spec => []RobTagIsOwn
<1>1. Init => FateInv
  BY InitFates
<1>2. FateInv /\ [Next]_vars => FateInv'
  BY FateStep
<1>3. FateInv => RobTagIsOwn
  BY FatesTag
<1> QED BY <1>1, <1>2, <1>3, PTL DEF Spec
=============================================================================
